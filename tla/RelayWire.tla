----------------------------- MODULE RelayWire -----------------------------
(***************************************************************************)
(* The WebSocket connections between the CLI relay agent (relay/relay.go)  *)
(* and the relay server (cmd/relay-server/main.go), one per dial of the    *)
(* agent, numbered in the order they are dialled.                          *)
(*                                                                         *)
(* A connection is reliable and ordered until it breaks.  A broken one     *)
(* loses what is in flight; a write into a broken connection, or to a peer *)
(* that closed its end, may still succeed locally (the bytes stay in the   *)
(* kernel's buffer) and is then lost.  A write to a peer that is there can *)
(* fail too: both ends give a frame 10 s, and a frame whose write runs out *)
(* of time is not written at all or only in part.                          *)
(***************************************************************************)
EXTENDS Naturals, Sequences

CONSTANT MaxConns        \* bound: connections the agent dials in all

ASSUME MaxConnsAssumption == MaxConns \in Nat \ {0}

Conns == 1..MaxConns

VARIABLES up,       \* up[c]: frames on their way from the agent to the server
          down,     \* down[c]: frames on their way from the server to the agent
          aEnd,     \* the agent's end: "none", "dialing", "open", "closed"
          cut,      \* the last frame of down[c] was written in part only
          sEnd,     \* the server's end: "none", "open", "closed"
          broken    \* the network path of c is gone

wire == <<up, down, cut, aEnd, sEnd, broken>>

WireInit ==
    /\ up = [c \in Conns |-> <<>>]
    /\ down = [c \in Conns |-> <<>>]
    /\ cut = [c \in Conns |-> FALSE]
    /\ aEnd = [c \in Conns |-> "none"]
    /\ sEnd = [c \in Conns |-> "none"]
    /\ broken = [c \in Conns |-> FALSE]

\* The agent will not read from c again.
Dead(c) == broken[c] \/ aEnd[c] = "closed"

\* What one end writes arrives at the other.
Intact(c) == sEnd[c] = "open" /\ ~Dead(c)

\* Stands for the bytes of a frame of the agent that was written in part.
Part == "part"

\* What wsConn.sendText leaves in up[c]: the frame, a part of it, or nothing.
AgentSends(c, frame) ==
    \/ UNCHANGED up
    \/ /\ aEnd[c] = "open" /\ Intact(c)
       /\ \E f \in {frame, Part} : up' = [up EXCEPT ![c] = Append(@, f)]

\* What a successful wsSendText leaves in down[c].
ServerSends(c, frame) ==
    /\ down' = IF Intact(c) THEN [down EXCEPT ![c] = Append(@, frame)] ELSE down
    /\ UNCHANGED cut

\* What a failed one leaves there: nothing, or a part of the frame.
ServerFails(c, frame) ==
    \/ UNCHANGED <<down, cut>>
    \/ /\ Intact(c)
       /\ down' = [down EXCEPT ![c] = Append(@, frame)]
       /\ cut' = [cut EXCEPT ![c] = TRUE]

\* The network path of an established connection goes away, with the frames
\* in flight.
Break(c) ==
    /\ aEnd[c] = "open"
    /\ ~broken[c]
    /\ broken' = [broken EXCEPT ![c] = TRUE]
    /\ up' = [up EXCEPT ![c] = <<>>]
    /\ down' = [down EXCEPT ![c] = <<>>]
    /\ UNCHANGED <<cut, aEnd, sEnd>>
=============================================================================
