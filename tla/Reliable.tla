------------------------------ MODULE Reliable ------------------------------
(***************************************************************************)
(* The two halves of the reliable control-channel layer of                 *)
(* internal/reliable/reliable.go, as operators on their states.            *)
(*                                                                         *)
(* A SendQueue is the set of packet ids that are sent and not yet          *)
(* acknowledged, together with the id of the next packet.  A RecvWindow is *)
(* the next id to hand to the TLS layer, together with the set of ids that *)
(* arrived ahead of it.  A payload never changes once it has an id, so the *)
(* id stands for it.                                                       *)
(*                                                                         *)
(* Packet ids are naturals here and uint32 in the code: an id identifies a *)
(* segment of up to 1024 bytes of one TLS session, and no session sends    *)
(* 2^32 of them.                                                           *)
(***************************************************************************)
EXTENDS Integers, Sequences

CONSTANT WindowSize      \* 8 in the code

ASSUME WindowAssumption == WindowSize \in Nat \ {0}

-----------------------------------------------------------------------------
(* SendQueue *)

NewSendQueue(firstPacketID) == [entries |-> {}, nextID |-> firstPacketID]

(* Enqueue never refuses: the queue is unbounded. *)
Enqueue(q) == [entries |-> q.entries \cup {q.nextID}, nextID |-> q.nextID + 1]

(* Fault: a cumulative ACK, everything up to the id is taken as received. *)
AckUpTo(q, id) == [q EXCEPT !.entries = {e \in @ : e > id}]

(* An id that is not in the queue is ignored, so a repeated ACK is harmless. *)
Ack(q, id) == [q EXCEPT !.entries = @ \ {id}]

-----------------------------------------------------------------------------
(* RecvWindow *)

NewRecvWindowFrom(firstExpected) == [expected |-> firstExpected, pending |-> {}]

(* Fault: a packet already delivered is buffered again. *)
AcceptsDelivered(w, id) == id < w.expected + WindowSize

(* What Receive keeps: neither already delivered nor too far ahead. *)
Accepts(w, id) == id >= w.expected /\ id < w.expected + WindowSize

(* The delivery loop stops at the first id from `from' on that is missing. *)
IsFirstGap(e, from, held) == e \notin held /\ from .. (e - 1) \subseteq held

FirstGap(from, held) ==
  CHOOSE e \in from .. (from + WindowSize) : IsFirstGap(e, from, held)

(* Fault: delivery stops after one packet, the rest waits for the next call. *)
ReceiveOne(w, id) ==
  IF Accepts(w, id)
  THEN LET held == w.pending \cup {id}
       IN  IF w.expected \in held
           THEN [expected |-> w.expected + 1, pending |-> held \ {w.expected}]
           ELSE [w EXCEPT !.pending = held]
  ELSE w

(* The window after Receive: everything up to the first gap is delivered. *)
Receive(w, id) ==
  IF Accepts(w, id)
  THEN LET held == w.pending \cup {id}
           gap  == FirstGap(w.expected, held)
       IN  [expected |-> gap, pending |-> held \ (w.expected .. (gap - 1))]
  ELSE w

(* The ids a .. b-1 in order: what one call of Receive returns as payloads. *)
Run(a, b) == [i \in 1 .. (b - a) |-> a + i - 1]

=============================================================================
