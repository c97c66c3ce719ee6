------------------------------ MODULE Mailbox ------------------------------
(***************************************************************************)
(* What becomes of a request once the relay has queued it: it waits in the *)
(* mailbox of the agent's connection, and the agent takes what is in there *)
(* in the order it was queued, each request once and none before an        *)
(* earlier one, until the connection is lost.  What is left then is never  *)
(* taken.  A request that is taken is handled, unless the agent's reader   *)
(* is out of step at that moment.                                          *)
(*                                                                         *)
(* That a release is answered 200 does not mean that it was queued.        *)
(***************************************************************************)
EXTENDS Naturals, Sequences

CONSTANTS Conns,       \* the connections of the agent
          Frames       \* the requests

VARIABLES queued,      \* queued[c]: the requests put into the mailbox
          taken,       \* taken[c]: those the agent has taken out
          misread,     \* misread[c]: positions in taken[c] of those it did not handle
          link         \* link[c]: "good", "garbled" or "lost"

vars == <<queued, taken, misread, link>>

Init ==
    /\ queued = [c \in Conns |-> <<>>]
    /\ taken = [c \in Conns |-> <<>>]
    /\ misread = [c \in Conns |-> {}]
    /\ link = [c \in Conns |-> "good"]

\* The server may not know yet that the connection is lost.
Queue(c, frame) ==
    /\ queued' = [queued EXCEPT ![c] = Append(@, frame)]
    /\ UNCHANGED <<taken, misread, link>>

\* The next request leaves the mailbox.
Take(c) ==
    /\ Len(taken[c]) < Len(queued[c])
    /\ taken' = [taken EXCEPT ![c] = Append(@, queued[c][Len(@) + 1])]
    /\ UNCHANGED queued

Handle(c) ==
    /\ link[c] = "good"
    /\ Take(c)
    /\ UNCHANGED <<misread, link>>

Skip(c) ==
    /\ link[c] = "garbled"
    /\ Take(c)
    /\ misread' = [misread EXCEPT ![c] = @ \cup {Len(taken[c]) + 1}]
    /\ \E v \in {"good", "garbled"} : link' = [link EXCEPT ![c] = v]

\* The reader falls out of step, comes back into it, or never reads again.
Change(c) ==
    /\ link[c] # "lost"
    /\ \E v \in {"good", "garbled", "lost"} : link' = [link EXCEPT ![c] = v]
    /\ UNCHANGED <<queued, taken, misread>>

Next ==
    \E c \in Conns :
        \/ \E frame \in Frames : Queue(c, frame)
        \/ Handle(c) \/ Skip(c) \/ Change(c)

Spec == Init /\ [][Next]_vars
=============================================================================
