--------------------------- MODULE RetransmitTimer ---------------------------
(***************************************************************************)
(* When an unacknowledged control packet is sent again: the Entry fields   *)
(* Retries and NextRetry of internal/reliable/reliable.go, which           *)
(* DueForRetransmit updates at each one-second tick of the retransmit      *)
(* goroutine of client.go.  Time is in ticks.  backoff is a signed integer *)
(* of Width bits: with time.Duration (63 bits and a sign, nanoseconds) the *)
(* product first leaves the range at Retries = 33, here at Width - 2.      *)
(***************************************************************************)
EXTENDS Integers

CONSTANTS
  RetransmitTimeout,  \* 2 s
  Cap,                \* 30 s
  Width,              \* bits of a time.Duration
  MaxRetries          \* bound: how often the packet stays unacknowledged

VARIABLES
  queued,   \* is the packet in the send queue
  Retries,
  wait,     \* NextRetry - now
  since     \* ticks since the packet was last sent

vars == <<queued, Retries, wait, since>>

Signed(n) ==
  LET m == n % 2 ^ Width IN IF m < 2 ^ (Width - 1) THEN m ELSE m - 2 ^ Width

Init == queued = FALSE /\ Retries = 0 /\ wait = 0 /\ since = 0

Enqueue ==
  /\ ~queued /\ queued' = TRUE
  /\ Retries' = 0 /\ wait' = RetransmitTimeout /\ since' = 0

Ack ==
  /\ queued /\ queued' = FALSE
  /\ Retries' = 0 /\ wait' = 0 /\ since' = 0

backoff(retries) ==
  LET d == Signed(RetransmitTimeout * 2 ^ retries) IN IF d > Cap THEN Cap ELSE d

(* A tick: DueForRetransmit.  A deadline that falls on the tick is met or   *)
(* missed, as now.After is strict and ticks are not exact.                  *)
DueForRetransmit ==
  /\ queued /\ Retries < MaxRetries /\ wait - 1 <= 0
  /\ Retries' = Retries + 1 /\ wait' = backoff(Retries + 1) /\ since' = 0
  /\ UNCHANGED queued

NotDue ==
  /\ queued /\ wait - 1 >= 0
  /\ wait' = wait - 1 /\ since' = since + 1
  /\ UNCHANGED <<queued, Retries>>

Next == Enqueue \/ Ack \/ DueForRetransmit \/ NotDue

Spec == Init /\ [][Next]_vars

-----------------------------------------------------------------------------
(* As DueForRetransmit says, "Exponential back-off, capped at 30 s": two    *)
(* transmissions of a packet are never closer than the first interval.      *)
SpacedOut ==
  [][Retries' = Retries + 1 => since + 1 >= RetransmitTimeout]_vars

=============================================================================
