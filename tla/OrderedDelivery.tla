--------------------------- MODULE OrderedDelivery ---------------------------
(***************************************************************************)
(* What the TLS layer needs from the control channel: the receiver gets    *)
(* exactly the segments the sender handed over, in that order, each once,  *)
(* and never one that was not sent.  Segments are numbered from First; of  *)
(* the transport above the link they are the bytes.                        *)
(***************************************************************************)
EXTENDS Integers, Sequences

CONSTANT First

VARIABLES sent,          \* number of the next segment to be sent
          delivered      \* the segments handed to the receiver

vars == <<sent, delivered>>

Segments(a, b) == [i \in 1 .. (b - a) |-> a + i - 1]

Init == sent = First /\ delivered = <<>>

(* One or more further segments. *)
Send ==
  /\ sent' \in Nat /\ sent' > sent
  /\ UNCHANGED delivered

(* One or more further segments, in order. *)
Deliver ==
  /\ \E n \in (First + Len(delivered) + 1) .. sent : delivered' = Segments(First, n)
  /\ UNCHANGED sent

Next == Send \/ Deliver

Spec == Init /\ [][Next]_vars

=============================================================================
