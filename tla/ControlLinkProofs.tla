-------------------------- MODULE ControlLinkProofs --------------------------
(***************************************************************************)
(* Proofs about ControlLink, for every window size, every number of        *)
(* packets and every sending discipline.                                   *)
(***************************************************************************)
EXTENDS ControlLink, WellFoundedInduction, SequenceTheorems, TLAPS

-----------------------------------------------------------------------------
(* The delivery loop of RecvWindow.Receive. *)

(* A set of naturals that is not empty has a least element. *)
LEMMA LeastNatural ==
  ASSUME NEW T, T \subseteq Nat, T # {}
  PROVE  \E x \in T : \A y \in T : x <= y
<1> DEFINE R == OpToRel(<, Nat)
<1>1. \E x \in T : \A y \in T : <<y, x>> \notin R
  BY NatLessThanWellFounded, WFMin, Zenon
<1>2. PICK x \in T : \A y \in T : <<y, x>> \notin R
  BY <1>1, Zenon
<1>3. ASSUME NEW y \in T PROVE x <= y
  <2>1. <<y, x>> \notin R
    BY <1>2, Zenon
  <2>2. ~ (y < x)
    BY <2>1 DEF OpToRel
  <2>3. QED
    BY <2>2
<1>4. QED
  BY <1>3

(* The loop of Receive always stops inside the window: if only ids of the   *)
(* window are held, the first gap exists, and it is what FirstGap denotes.  *)
LEMMA FirstGapLemma ==
  ASSUME NEW from \in Nat, NEW held,
         held \subseteq from .. (from + WindowSize - 1)
  PROVE  /\ FirstGap(from, held) \in from .. (from + WindowSize)
         /\ IsFirstGap(FirstGap(from, held), from, held)
<1> DEFINE Missing == (from .. (from + WindowSize)) \ held
<1>1. Missing \subseteq Nat /\ from + WindowSize \in Missing
  BY WindowAssumption
<1>2. PICK e \in Missing : \A y \in Missing : e <= y
  BY <1>1, LeastNatural, Zenon
<1>3. ASSUME NEW y \in from .. (e - 1) PROVE y \in held
  <2>1. y \in from .. (from + WindowSize) /\ ~ (e <= y)
    BY <1>2, WindowAssumption
  <2>2. QED
    BY <1>2, <2>1
<1>4. e \in from .. (from + WindowSize) /\ IsFirstGap(e, from, held)
  BY <1>2, <1>3 DEF IsFirstGap
<1>5. QED
  BY <1>4 DEF FirstGap

Windows == [expected : Nat, pending : SUBSET Nat]

(* What one call of Receive does to a window whose buffer is within bounds: *)
(* the bounds are kept, nothing held is forgotten, an accepted packet is    *)
(* held, and nothing is delivered that was not held or just received.       *)
LEMMA ReceiveLemma ==
  ASSUME NEW w \in Windows, NEW id \in Nat,
         w.pending \subseteq (w.expected + 1) .. (w.expected + WindowSize - 1),
         NEW v, v = Receive(w, id)
  PROVE  /\ v \in Windows
         /\ v.expected >= w.expected
         /\ v.pending \subseteq (v.expected + 1) .. (v.expected + WindowSize - 1)
         /\ v.pending \subseteq w.pending \cup {id}
         /\ w.expected .. (v.expected - 1) \subseteq w.pending \cup {id}
         /\ Accepts(w, id) => id < v.expected \/ id \in v.pending
         /\ \A x \in w.pending : x < v.expected \/ x \in v.pending
<1>1. CASE ~ Accepts(w, id)
  BY <1>1, WindowAssumption DEF Receive, Windows
<1>2. CASE Accepts(w, id)
  <2> DEFINE held == w.pending \cup {id}
             gap  == FirstGap(w.expected, held)
  <2>1. w.expected \in Nat /\ held \subseteq w.expected .. (w.expected + WindowSize - 1)
    BY <1>2, WindowAssumption DEF Accepts, Windows
  <2>2. gap \in w.expected .. (w.expected + WindowSize) /\ IsFirstGap(gap, w.expected, held)
    BY <2>1, FirstGapLemma
  <2>3. v = [expected |-> gap, pending |-> held \ (w.expected .. (gap - 1))]
    BY <1>2 DEF Receive
  <2> HIDE DEF gap
  <2>4. \A x \in v.pending : x \in held /\ x >= gap /\ x # gap
    BY <2>1, <2>2, <2>3 DEF IsFirstGap
  <2>5. v.expected = gap
    BY <2>3
  <2>6. v \in Windows
    BY <2>1, <2>2, <2>3
    DEF Windows
  <2>7. v.pending \subseteq (gap + 1) .. (gap + WindowSize - 1)
    BY <2>1, <2>2, <2>4, WindowAssumption
  <2>8. \A x \in held : x < gap \/ x \in v.pending
    BY <2>1, <2>2, <2>3
  <2>9. w.expected .. (gap - 1) \subseteq held
    BY <2>2 DEF IsFirstGap
  <2>10. QED
    BY <2>1, <2>2, <2>4, <2>5, <2>6, <2>7, <2>8, <2>9
<1>3. QED
  BY <1>1, <1>2

(* Runs of consecutive ids compose. *)
LEMMA RunLemma ==
  ASSUME NEW a \in Nat, NEW b \in Nat, NEW c \in Nat, a <= b, b <= c
  PROVE  /\ Run(a, b) \in Seq(a .. (b - 1))
         /\ Len(Run(a, b)) = b - a
         /\ Run(a, b) \o Run(b, c) = Run(a, c)
<1>1. ASSUME NEW m \in Nat, NEW n \in Nat, m <= n
      PROVE  Run(m, n) \in Seq(m .. (n - 1)) /\ Len(Run(m, n)) = n - m
  BY <1>1 DEF Run
<1>2. /\ Run(a, b) \in Seq(Nat) /\ Len(Run(a, b)) = b - a
      /\ Run(b, c) \in Seq(Nat) /\ Len(Run(b, c)) = c - b
      /\ Run(a, c) \in Seq(Nat) /\ Len(Run(a, c)) = c - a
  BY DEF Run
<1> DEFINE s == Run(a, b) \o Run(b, c)
<1>3. /\ s \in Seq(Nat) /\ Len(s) = (b - a) + (c - b)
      /\ \A i \in 1 .. (b - a) + (c - b) :
           s[i] = IF i <= b - a THEN Run(a, b)[i] ELSE Run(b, c)[i - (b - a)]
  <2> HIDE DEF Run
  <2>1. \A i \in 1 .. Len(Run(a, b)) + Len(Run(b, c)) :
           s[i] = IF i <= Len(Run(a, b)) THEN Run(a, b)[i] ELSE Run(b, c)[i - Len(Run(a, b))]
    BY <1>2, ConcatProperties, Zenon
  <2>2. s \in Seq(Nat) /\ Len(s) = Len(Run(a, b)) + Len(Run(b, c))
    BY <1>2, ConcatProperties, Zenon
  <2>3. QED
    BY <1>2, <2>1, <2>2, Zenon
<1> HIDE DEF s
<1>4. ASSUME NEW i \in 1 .. (c - a) PROVE s[i] = Run(a, c)[i]
  <2>1. i \in 1 .. (b - a) + (c - b)
    OBVIOUS
  <2>2. Run(a, c)[i] = a + i - 1
    BY DEF Run
  <2>3. CASE i <= b - a
    <3>1. s[i] = Run(a, b)[i]
      BY <1>3, <2>1, <2>3
    <3>2. Run(a, b)[i] = a + i - 1
      BY <2>3 DEF Run
    <3>3. QED
      BY <2>2, <3>1, <3>2
  <2>4. CASE ~ (i <= b - a)
    <3>1. s[i] = Run(b, c)[i - (b - a)]
      BY <1>3, <2>1, <2>4
    <3>2. Run(b, c)[i - (b - a)] = b + (i - (b - a)) - 1
      BY <2>4 DEF Run
    <3>3. QED
      BY <2>2, <3>1, <3>2
  <2>5. QED
    BY <2>3, <2>4
<1>5. s = Run(a, c)
  <2>1. Len(s) = c - a /\ Len(Run(a, c)) = c - a
    BY <1>2, <1>3
  <2>2. \A i \in 1 .. Len(s) : s[i] = Run(a, c)[i]
    BY <1>4, <2>1
  <2>3. QED
    BY <1>2, <1>3, <2>1, <2>2, SeqEqual, Zenon
<1>6. QED
  BY <1>1, <1>5 DEF s

-----------------------------------------------------------------------------
(* The inductive invariant. *)

USE DEF IDs

(* The initial queue, window and empty network satisfy the invariant. *)
LEMMA InitInvariant == Init => LinkInvariant
<1> SUFFICES ASSUME Init PROVE LinkInvariant
  OBVIOUS
<1> USE LinkAssumption, WindowAssumption
<1>1. /\ sendQueue.entries = {} /\ sendQueue.nextID = First
      /\ recvWindow.expected = First /\ recvWindow.pending = {}
  BY DEF Init, NewSendQueue, NewRecvWindowFrom
<1>2. TypeOK
  BY DEF Init, NewSendQueue, NewRecvWindowFrom, TypeOK
<1>3. delivered = Run(First, First)
  BY DEF Init, Run
<1>4. QED
  BY <1>1, <1>2, <1>3 DEF Init, LinkInvariant, AckedIsHeld, PendingInWindow, Held

(* Sending keeps it: the id the receiver waits for is unacknowledged unless *)
(* everything is delivered, and so holds back a sender with a limit.        *)
LEMMA SendInvariant ==
  ASSUME LinkInvariant, Send, WindowRespected
  PROVE  LinkInvariant'
<1> USE LinkAssumption, WindowAssumption
<1> DEFINE n == sendQueue.nextID
<1>1. /\ sendQueue \in [entries : SUBSET IDs, nextID : Nat]
      /\ recvWindow \in [expected : Nat, pending : SUBSET IDs]
      /\ wire \subseteq IDs
  BY DEF LinkInvariant, TypeOK
<1>2. /\ sendQueue'.entries = sendQueue.entries \cup {n} /\ sendQueue'.nextID = n + 1
      /\ sendQueue' = [entries |-> sendQueue.entries \cup {n}, nextID |-> n + 1]
      /\ wire' = wire \cup {n}
      /\ n < MaxID /\ n >= First
      /\ UNCHANGED <<direction, recvWindow, delivered, acks>>
  BY <1>1 DEF Send, Enqueue, LinkInvariant
<1>3. n \in IDs
  BY <1>1, <1>2
<1>4. TypeOK'
  <2>1. sendQueue' \in [entries : SUBSET IDs, nextID : Nat]
    BY <1>1, <1>2, <1>3
  <2>2. QED
    BY <1>2, <1>3, <2>1, Zenon DEF TypeOK, LinkInvariant
<1>5. AckedIsHeld'
  BY <1>1, <1>2 DEF LinkInvariant, AckedIsHeld, Held
<1>6. direction.ackOutside => n + 1 <= recvWindow.expected + WindowSize
  <2> SUFFICES ASSUME direction.ackOutside PROVE n + 1 <= recvWindow.expected + WindowSize
    OBVIOUS
  <2>1. CASE recvWindow.expected = n
    BY <1>1, <2>1
  <2>2. CASE recvWindow.expected # n
    <3>1. recvWindow.expected \in First .. (n - 1)
      BY <1>1, <2>2 DEF LinkInvariant
    <3>2. ~ Held(recvWindow.expected)
      BY <1>1 DEF LinkInvariant, PendingInWindow, Held
    <3>3. recvWindow.expected \in sendQueue.entries
      BY <3>1, <3>2 DEF LinkInvariant, AckedIsHeld
    <3>4. n < recvWindow.expected + direction.limit
      BY <3>3 DEF Send
    <3>5. QED
      <4>1. direction \in Directions /\ direction.limit \in Nat
        BY DEF LinkInvariant, TypeOK
      <4>2. direction.limit <= WindowSize
        BY <4>1 DEF WindowRespected
      <4>3. QED
        BY <1>1, <3>4, <4>1, <4>2
  <2>3. QED
    BY <2>1, <2>2
<1>7. PendingInWindow' /\ \A id \in acks' : Held(id)'
  BY <1>2 DEF LinkInvariant, PendingInWindow, Held
<1>8. \A id \in wire' \cup recvWindow'.pending \cup sendQueue'.entries : id < sendQueue'.nextID
  <2>1. \A id \in wire \cup recvWindow.pending \cup sendQueue.entries : id \in Nat /\ id < n
    BY <1>1 DEF LinkInvariant
  <2>2. QED
    BY <1>1, <1>2, <2>1
<1>9. /\ First <= recvWindow'.expected /\ recvWindow'.expected <= sendQueue'.nextID
      /\ sendQueue'.nextID <= MaxID
      /\ delivered' = Run(First, recvWindow'.expected)
  BY <1>1, <1>2 DEF LinkInvariant
<1>10. QED
  BY <1>2, <1>4, <1>5, <1>6, <1>7, <1>8, <1>9 DEF LinkInvariant

(* An arrival keeps it, by the lemma on Receive.  An ACK is written for a   *)
(* packet inside the window, or one already delivered: if the receiver ACKs *)
(* before looking, the sender has not run beyond the window.                *)
LEMMA ArriveInvariant ==
  ASSUME LinkInvariant, NEW id \in IDs, Arrive(id)
  PROVE  LinkInvariant'
<1> USE LinkAssumption, WindowAssumption
<1> DEFINE n == sendQueue.nextID
           w == recvWindow
           v == recvWindow'
<1>1. /\ sendQueue \in [entries : SUBSET IDs, nextID : Nat]
      /\ w \in Windows /\ w.pending \subseteq IDs
      /\ wire \subseteq IDs /\ acks \subseteq IDs /\ id < n /\ direction \in Directions
  BY DEF LinkInvariant, TypeOK, Windows, Arrive
<1>2. /\ v = Receive(w, id)
      /\ wire' \subseteq wire /\ sendQueue' = sendQueue /\ direction' = direction
      /\ acks' \subseteq acks \cup {id}
      /\ id \in acks' => id \in acks \/ Acknowledges(w, id)
  BY DEF Arrive
<1>3. /\ v \in Windows
      /\ v.expected >= w.expected
      /\ v.pending \subseteq (v.expected + 1) .. (v.expected + WindowSize - 1)
      /\ v.pending \subseteq w.pending \cup {id}
      /\ w.expected .. (v.expected - 1) \subseteq w.pending \cup {id}
      /\ Accepts(w, id) => id < v.expected \/ id \in v.pending
      /\ \A x \in w.pending : x < v.expected \/ x \in v.pending
  <2>1. w.pending \subseteq (w.expected + 1) .. (w.expected + WindowSize - 1)
    BY DEF LinkInvariant, PendingInWindow
  <2>2. QED
    BY <1>1, <1>2, <2>1, ReceiveLemma
<1>4. v.expected <= n
  <2>1. CASE v.expected = w.expected
    BY <1>1, <2>1 DEF LinkInvariant, Windows
  <2>2. CASE v.expected # w.expected
    <3>1. v.expected - 1 \in w.expected .. (v.expected - 1)
      BY <1>1, <1>3, <2>2 DEF Windows
    <3>2. v.expected - 1 < n
      BY <1>1, <1>3, <3>1 DEF LinkInvariant
    <3>3. QED
      BY <1>1, <1>3, <3>2 DEF Windows
  <2>3. QED
    BY <2>1, <2>2
<1>5. delivered' = Run(First, v.expected)
  <2>1. /\ First <= w.expected /\ delivered = Run(First, w.expected)
        /\ delivered' = delivered \o Run(w.expected, v.expected)
    BY DEF Arrive, LinkInvariant
  <2>2. QED
    BY <1>1, <1>3, <2>1, RunLemma, Zenon DEF Windows
<1>6. \A x \in Nat : x < w.expected \/ x \in w.pending => x < v.expected \/ x \in v.pending
  BY <1>1, <1>3 DEF Windows
<1>7. AckedIsHeld'
  BY <1>1, <1>2, <1>6 DEF LinkInvariant, AckedIsHeld, Held
<1>8. \A x \in acks' : x < v.expected \/ x \in v.pending
  <2>1. \A x \in acks : x < v.expected \/ x \in v.pending
    BY <1>1, <1>6 DEF LinkInvariant, Held
  <2>2. Acknowledges(w, id) => id < v.expected \/ id \in v.pending
    <3>1. Acknowledges(w, id) => id < w.expected + WindowSize
      BY <1>1 DEF Acknowledges, LinkInvariant, Windows
    <3>2. Acknowledges(w, id) => id < w.expected \/ Accepts(w, id)
      BY <1>1, <3>1 DEF Accepts, Windows
    <3>3. QED
      BY <1>1, <1>3, <3>2 DEF Windows
  <2>3. QED
    BY <1>2, <2>1, <2>2
<1>9. TypeOK'
  <2>1. v \in [expected : Nat, pending : SUBSET IDs]
    BY <1>1, <1>3 DEF Windows
  <2>2. Run(First, v.expected) \in Seq(First .. (v.expected - 1))
    <3>1. First <= v.expected /\ v.expected \in Nat
      BY <1>1, <1>3 DEF Windows, LinkInvariant
    <3>2. v.expected <= v.expected
      BY <3>1
    <3> HIDE DEF v
    <3>3. QED
      BY <3>1, <3>2, RunLemma, Zenon
  <2>3. First .. (v.expected - 1) \subseteq IDs
    BY <1>1, <1>3, <1>4 DEF Windows, LinkInvariant
  <2>4. delivered' \in Seq(IDs)
    <3>1. ASSUME NEW S, S \subseteq IDs, NEW q \in Seq(S) PROVE q \in Seq(IDs)
      BY <3>1, SeqMonotonic, Zenon
    <3> HIDE DEF v, IDs
    <3>2. QED
      BY <1>5, <2>2, <2>3, <3>1, Zenon
  <2>5. QED
    BY <1>1, <1>2, <2>1, <2>4 DEF TypeOK
<1>10. PendingInWindow'
  BY <1>3 DEF PendingInWindow
<1>11. \A x \in wire' \cup v.pending \cup sendQueue'.entries : x < sendQueue'.nextID
  BY <1>1, <1>2, <1>3 DEF LinkInvariant
<1>12. direction.ackOutside => sendQueue'.nextID <= v.expected + WindowSize
  BY <1>1, <1>2, <1>3 DEF LinkInvariant, Windows
<1>13. /\ First <= v.expected /\ v.expected <= sendQueue'.nextID
       /\ sendQueue'.nextID <= MaxID \/ sendQueue'.nextID = First
  BY <1>1, <1>2, <1>3, <1>4 DEF LinkInvariant, Windows
<1>14. QED
  BY <1>2, <1>5, <1>7, <1>8, <1>9, <1>10, <1>11, <1>12, <1>13 DEF LinkInvariant, Held

(* The remaining steps only take from the network or repeat what was sent;  *)
(* an ACK removes from the queue a packet that is held.                     *)
LEMMA OtherInvariant ==
  ASSUME LinkInvariant, NEW id \in IDs,
         Retransmit(id) \/ ArriveAck(id) \/ LosePacket(id) \/ LoseAck(id)
  PROVE  LinkInvariant'
<1> USE LinkAssumption, WindowAssumption
<1>1. /\ sendQueue \in [entries : SUBSET IDs, nextID : Nat]
      /\ recvWindow \in [expected : Nat, pending : SUBSET IDs]
      /\ wire \subseteq IDs /\ acks \subseteq IDs
  BY DEF LinkInvariant, TypeOK
<1>2. /\ sendQueue' \in [entries : SUBSET IDs, nextID : Nat]
      /\ sendQueue'.nextID = sendQueue.nextID
      /\ sendQueue'.entries \subseteq sendQueue.entries
      /\ \A x \in sendQueue.entries : x \in sendQueue'.entries \/ Held(x)
      /\ wire' \subseteq wire \cup sendQueue.entries
      /\ acks' \subseteq acks
      /\ UNCHANGED <<direction, recvWindow, delivered>>
  <2>1. CASE Retransmit(id)
    BY <1>1, <2>1 DEF Retransmit
  <2>2. CASE ArriveAck(id)
    <3>1. sendQueue' = [entries |-> sendQueue.entries \ {id}, nextID |-> sendQueue.nextID]
      BY <1>1, <2>2 DEF ArriveAck, Ack
    <3>2. Held(id)
      BY <2>2 DEF ArriveAck, LinkInvariant
    <3>3. QED
      BY <1>1, <2>2, <3>1, <3>2 DEF ArriveAck
  <2>3. CASE LosePacket(id)
    BY <1>1, <2>3 DEF LosePacket
  <2>4. CASE LoseAck(id)
    BY <1>1, <2>4 DEF LoseAck
  <2>5. QED
    BY <2>1, <2>2, <2>3, <2>4
<1>3. TypeOK'
  BY <1>1, <1>2 DEF TypeOK, LinkInvariant
<1>4. AckedIsHeld'
  BY <1>1, <1>2 DEF LinkInvariant, AckedIsHeld, Held
<1>5. PendingInWindow' /\ \A x \in acks' : Held(x)'
  BY <1>2 DEF LinkInvariant, PendingInWindow, Held
<1>6. \A x \in wire' \cup recvWindow'.pending \cup sendQueue'.entries : x < sendQueue'.nextID
  BY <1>1, <1>2 DEF LinkInvariant
<1>7. QED
  BY <1>2, <1>3, <1>4, <1>5, <1>6 DEF LinkInvariant

(* The invariant of the control link, for every window size, every number   *)
(* of packets and every sender that respects the window of a receiver which *)
(* acknowledges before looking at it (client.go:1870-1888).                 *)
THEOREM LinkInvariantHolds == WindowRespected => (Spec => []LinkInvariant)
<1> SUFFICES ASSUME WindowRespected PROVE Spec => []LinkInvariant
  OBVIOUS
<1>1. Init => LinkInvariant
  BY InitInvariant
<1>2. LinkInvariant /\ [Next]_vars => LinkInvariant'
  <2> SUFFICES ASSUME LinkInvariant, [Next]_vars PROVE LinkInvariant'
    OBVIOUS
  <2>1. CASE Send
    BY <2>1, SendInvariant
  <2>2. ASSUME NEW id \in IDs, Arrive(id) PROVE LinkInvariant'
    BY <2>2, ArriveInvariant
  <2>3. ASSUME NEW id \in IDs,
               Retransmit(id) \/ ArriveAck(id) \/ LosePacket(id) \/ LoseAck(id)
        PROVE  LinkInvariant'
    BY <2>3, OtherInvariant
  <2>4. CASE UNCHANGED vars
    BY <2>4 DEF vars, LinkInvariant, TypeOK, AckedIsHeld, PendingInWindow, Held
  <2>5. QED
    BY <2>1, <2>2, <2>3, <2>4 DEF Next
<1>3. QED
  BY <1>1, <1>2, PTL DEF Spec

(* No acknowledged packet is lost: SendQueue.Ack only forgets what the      *)
(* receiver has delivered or holds.                                         *)
THEOREM AckedIsHeldHolds == WindowRespected => (Spec => []AckedIsHeld)
<1> SUFFICES ASSUME WindowRespected PROVE Spec => []AckedIsHeld
  OBVIOUS
<1>1. LinkInvariant => AckedIsHeld
  BY DEF LinkInvariant
<1>2. QED
  BY <1>1, LinkInvariantHolds, PTL

(* The receive buffer never exceeds the window. *)
THEOREM PendingInWindowHolds == WindowRespected => (Spec => []PendingInWindow)
<1> SUFFICES ASSUME WindowRespected PROVE Spec => []PendingInWindow
  OBVIOUS
<1>1. LinkInvariant => PendingInWindow
  BY DEF LinkInvariant
<1>2. QED
  BY <1>1, LinkInvariantHolds, PTL

(* The link implements ordered, exactly-once delivery: an arrival hands     *)
(* over the next run of segments, or none, and nothing else changes what    *)
(* was handed over.                                                         *)
THEOREM ImplementsOrderedDeliveryHolds ==
  WindowRespected => (Spec => ImplementsOrderedDelivery)
<1> SUFFICES ASSUME WindowRespected PROVE Spec => ImplementsOrderedDelivery
  OBVIOUS
<1> USE LinkAssumption
<1>1. Init => Abstract!Init
  BY DEF Init, Abstract!Init, NewSendQueue
<1>2. LinkInvariant /\ LinkInvariant' /\ [Next]_vars => [Abstract!Next]_(Abstract!vars)
  <2> SUFFICES ASSUME LinkInvariant, LinkInvariant', [Next]_vars
               PROVE  [Abstract!Next]_(Abstract!vars)
    OBVIOUS
  <2>1. CASE Send
    <3>1. sendQueue.nextID \in Nat
      BY DEF LinkInvariant, TypeOK
    <3>2. sendQueue'.nextID = sendQueue.nextID + 1 /\ delivered' = delivered
      BY <2>1 DEF Send, Enqueue
    <3>3. QED
      BY <3>1, <3>2 DEF Abstract!Next, Abstract!Send
  <2>2. ASSUME NEW id \in IDs, Arrive(id) PROVE [Abstract!Next]_(Abstract!vars)
    <3>1. /\ recvWindow.expected \in Nat /\ recvWindow'.expected \in Nat
          /\ First <= recvWindow.expected /\ First <= recvWindow'.expected
          /\ recvWindow'.expected <= sendQueue'.nextID
          /\ delivered = Run(First, recvWindow.expected)
          /\ delivered' = Run(First, recvWindow'.expected)
          /\ sendQueue' = sendQueue /\ sendQueue.nextID \in Nat
      BY <2>2 DEF LinkInvariant, TypeOK, Arrive
    <3>2. recvWindow'.expected >= recvWindow.expected
      <4>1. /\ recvWindow \in Windows /\ id \in Nat
            /\ recvWindow.pending \subseteq
                 (recvWindow.expected + 1) .. (recvWindow.expected + WindowSize - 1)
            /\ recvWindow' = Receive(recvWindow, id)
        BY <2>2 DEF LinkInvariant, TypeOK, PendingInWindow, Arrive, Windows
      <4>2. QED
        BY <4>1, ReceiveLemma
    <3>3. CASE recvWindow'.expected = recvWindow.expected
      BY <3>1, <3>3 DEF Abstract!vars
    <3>4. CASE recvWindow'.expected # recvWindow.expected
      <4>1. Len(delivered) = recvWindow.expected - First
        <5>1. ASSUME NEW b \in Nat, First <= b PROVE Len(Run(First, b)) = b - First
          BY <5>1 DEF Run
        <5>2. QED
          BY <3>1, <5>1, Zenon
      <4>2. recvWindow'.expected \in (First + Len(delivered) + 1) .. sendQueue.nextID
        BY <3>1, <3>2, <3>4, <4>1
      <4>3. delivered' = Abstract!Segments(First, recvWindow'.expected)
        BY <3>1 DEF Run, Abstract!Segments
      <4>4. QED
        BY <3>1, <4>2, <4>3 DEF Abstract!Next, Abstract!Deliver
    <3>5. QED
      BY <3>3, <3>4
  <2>3. ASSUME NEW id \in IDs,
               Retransmit(id) \/ ArriveAck(id) \/ LosePacket(id) \/ LoseAck(id)
        PROVE  [Abstract!Next]_(Abstract!vars)
    <3>1. sendQueue \in [entries : SUBSET IDs, nextID : Nat]
      BY DEF LinkInvariant, TypeOK
    <3>2. sendQueue'.nextID = sendQueue.nextID /\ delivered' = delivered
      BY <2>3, <3>1 DEF Retransmit, ArriveAck, Ack, LosePacket, LoseAck
    <3>3. QED
      BY <3>2 DEF Abstract!vars
  <2>4. CASE UNCHANGED vars
    BY <2>4 DEF vars, Abstract!vars
  <2>5. QED
    BY <2>1, <2>2, <2>3, <2>4 DEF Next
<1>3. QED
  BY <1>1, <1>2, LinkInvariantHolds, PTL DEF Spec, ImplementsOrderedDelivery, Abstract!Spec

=============================================================================
