------------------------- MODULE ReplayWindowProofs -------------------------
(***************************************************************************)
(* On a network that keeps order, the replay window delivers every packet  *)
(* at most once, for every size of the window and any number of packets,   *)
(* lost and repeated ones included.                                        *)
(***************************************************************************)
EXTENDS ReplayWindow, SequenceTheorems, TLAPS

Increasing(s) == \A i, j \in 1 .. Len(s) : i < j => s[i] < s[j]

(* What is left after one packet has gone is in the old order. *)
LEMMA RemoveAtElements ==
  ASSUME NEW s \in Seq(Nat), NEW i \in 1 .. Len(s)
  PROVE  \E r \in Seq(Nat) :
           /\ r = RemoveAt(s, i) /\ Len(r) = Len(s) - 1
           /\ \A k \in 1 .. Len(s) - 1 : r[k] = IF k < i THEN s[k] ELSE s[k + 1]
<1>1. /\ Len(s) \in Nat /\ i \in Int /\ Len(s) \in Int /\ i - 1 \in Int /\ i + 1 \in Int
      /\ \A k \in 1 .. i - 1 : s[k] \in Nat
      /\ \A k \in i + 1 .. Len(s) : s[k] \in Nat
  BY LenProperties, ElementOfSeq
<1>2. PICK a \in Seq(Nat) : a = SubSeq(s, 1, i - 1)
  <2>1. 1 \in Int /\ \A k \in 1 .. i - 1 : s[k] \in Nat
    BY <1>1
  <2>2. SubSeq(s, 1, i - 1) \in Seq(Nat)
    BY <1>1, <2>1, SubSeqProperties
  <2>3. QED
    BY <2>2, Zenon
<1>3. PICK b \in Seq(Nat) : b = SubSeq(s, i + 1, Len(s))
  BY <1>1, SubSeqProperties, Zenon
<1>4. Len(a) = i - 1 /\ \A k \in 1 .. i - 1 : a[k] = s[k]
  BY <1>1, <1>2, SubSeqProperties
<1>5. Len(b) = Len(s) - i /\ \A k \in 1 .. Len(s) - i : b[k] = s[i + k]
  BY <1>1, <1>3, SubSeqProperties
<1>6. PICK r \in Seq(Nat) : r = a \o b
  BY ConcatProperties, Zenon
<1>7. /\ Len(r) = Len(a) + Len(b)
      /\ \A k \in 1 .. Len(r) : r[k] = IF k <= Len(a) THEN a[k] ELSE b[k - Len(a)]
  BY <1>6, ConcatProperties
<1>8. Len(r) = Len(s) - 1
  BY <1>1, <1>4, <1>5, <1>7
<1>9. ASSUME NEW k \in 1 .. Len(s) - 1 PROVE r[k] = IF k < i THEN s[k] ELSE s[k + 1]
  <2>0. k \in 1 .. Len(r) /\ Len(a) = i - 1 /\ Len(s) \in Nat
    BY <1>1, <1>4, <1>8
  <2>1. CASE k < i
    <3>1. k <= Len(a) /\ k \in 1 .. i - 1
      BY <2>0, <2>1
    <3>2. QED
      BY <1>4, <1>7, <2>0, <2>1, <3>1, Zenon
  <2>2. CASE ~(k < i)
    <3>1. k - (i - 1) \in 1 .. Len(s) - i /\ i + (k - (i - 1)) = k + 1 /\ ~(k <= Len(a))
      BY <2>0, <2>2
    <3>2. r[k] = b[k - (i - 1)]
      BY <1>7, <2>0, <3>1
    <3>3. b[k - (i - 1)] = s[k + 1]
      BY <1>5, <3>1, Zenon
    <3>4. QED
      BY <2>2, <3>2, <3>3
  <2>3. QED
    BY <2>1, <2>2
<1>10. QED
  BY <1>2, <1>3, <1>6, <1>8, <1>9, Zenon DEF RemoveAt

(* The packets in flight are in the order of their numbers and none is      *)
(* older than the newest one received; that one is marked as seen.  This    *)
(* slot is the only one the window needs when order is kept.                *)
InOrder ==
  /\ sendSeq \in Nat /\ wire \in Seq(Nat) /\ replayTop \in Nat
  /\ replayBit \in [Slots -> BOOLEAN] /\ replaySet \in BOOLEAN
  /\ Increasing(wire)
  /\ \A i \in 1 .. Len(wire) : wire[i] < sendSeq /\ (replaySet => wire[i] >= replayTop)
  /\ replaySet => replayTop < sendSeq /\ replayTop \in delivered /\ replayBit[0]
  /\ \A d \in delivered : replaySet /\ d \in Nat /\ d <= replayTop

ReplayInvariant == InOrder /\ DeliveredOnce

(* Losing a packet, or taking it off the wire, keeps the order. *)
LEMMA RemovalKeepsOrder ==
  ASSUME NEW s \in Seq(Nat), Increasing(s), NEW i \in 1 .. Len(s)
  PROVE  /\ RemoveAt(s, i) \in Seq(Nat) /\ Increasing(RemoveAt(s, i))
         /\ \A k \in 1 .. Len(RemoveAt(s, i)) : \E l \in 1 .. Len(s) : RemoveAt(s, i)[k] = s[l]
<1>1. PICK r \in Seq(Nat) :
         /\ r = RemoveAt(s, i) /\ Len(r) = Len(s) - 1
         /\ \A k \in 1 .. Len(s) - 1 : r[k] = IF k < i THEN s[k] ELSE s[k + 1]
  BY RemoveAtElements
<1>2. Len(s) \in Nat /\ \A k \in 1 .. Len(s) : s[k] \in Nat
  BY LenProperties, ElementOfSeq
<1>3. Increasing(r)
  <2> SUFFICES ASSUME NEW k \in 1 .. Len(r), NEW l \in 1 .. Len(r), k < l PROVE r[k] < r[l]
    BY DEF Increasing
  <2>1. /\ r[k] = IF k < i THEN s[k] ELSE s[k + 1]
        /\ r[l] = IF l < i THEN s[l] ELSE s[l + 1]
    BY <1>1, Zenon
  <2>2. k \in 1 .. Len(s) /\ k + 1 \in 1 .. Len(s) /\ l \in 1 .. Len(s) /\ l + 1 \in 1 .. Len(s)
    BY <1>1, <1>2, SMTT(30)
  <2>3. /\ s[k] < s[l] /\ s[k] < s[l + 1] /\ s[k + 1] < s[l + 1]
    BY <2>2 DEF Increasing
  <2>4. l < i => k < i
    BY <2>2
  <2>5. QED
    BY <2>1, <2>3, <2>4, Zenon
<1>4. \A k \in 1 .. Len(r) : \E l \in 1 .. Len(s) : r[k] = s[l]
  <2> SUFFICES ASSUME NEW k \in 1 .. Len(r) PROVE \E l \in 1 .. Len(s) : r[k] = s[l]
    BY Zenon
  <2>1. r[k] = s[k] \/ r[k] = s[k + 1]
    BY <1>1, Zenon
  <2>2. k \in 1 .. Len(s) /\ k + 1 \in 1 .. Len(s)
    BY <1>1, <1>2
  <2>3. QED
    BY <2>1, <2>2
<1>5. QED
  BY <1>1, <1>3, <1>4

-----------------------------------------------------------------------------
(* A packet taken off the wire leaves the others as InOrder wants them. *)
LEMMA RemovalStep ==
  ASSUME InOrder, NEW i \in 1 .. Len(wire), NEW n \in Nat,
         \A k \in 1 .. Len(wire) : wire[k] >= n
  PROVE  /\ RemoveAt(wire, i) \in Seq(Nat) /\ Increasing(RemoveAt(wire, i))
         /\ \A k \in 1 .. Len(RemoveAt(wire, i)) :
              RemoveAt(wire, i)[k] < sendSeq /\ RemoveAt(wire, i)[k] >= n
<1>1. wire \in Seq(Nat) /\ Increasing(wire) /\ \A k \in 1 .. Len(wire) : wire[k] < sendSeq
  BY DEF InOrder
<1>2. QED
  BY <1>1, RemovalKeepsOrder, Zenon

(* The first packet in flight is the oldest one. *)
LEMMA FirstIsOldest ==
  ASSUME InOrder, 1 \in DOMAIN wire
  PROVE  /\ wire[1] \in Nat /\ 1 \in 1 .. Len(wire)
         /\ \A k \in 1 .. Len(wire) : wire[k] >= wire[1]
<1>1. Len(wire) \in Nat /\ \A k \in 1 .. Len(wire) : wire[k] \in Nat
  BY LenProperties, ElementOfSeq DEF InOrder
<1>2. 1 \in 1 .. Len(wire)
  BY LenProperties DEF InOrder
<1>3. ASSUME NEW k \in 1 .. Len(wire) PROVE wire[k] >= wire[1]
  <2>1. CASE k = 1
    BY <1>1, <2>1
  <2>2. CASE k # 1
    <3>1. 1 < k
      BY <1>1, <2>2
    <3>2. wire[1] < wire[k]
      BY <1>2, <3>1 DEF InOrder, Increasing
    <3>3. QED
      BY <1>1, <1>2, <3>2
  <2>3. QED
    BY <2>1, <2>2
<1>4. QED
  BY <1>1, <1>2, <1>3

(* The invariant is inductive when the network keeps order. *)
LEMMA ReplayStep ==
  ASSUME Ordered, ReplayInvariant, [ReplayNext]_replayVars
  PROVE  ReplayInvariant'
<1> USE DEF ReplayInvariant, DeliveredOnce
<1>0. 0 \in Slots
  BY ReplayAssumption DEF Slots
<1>1. CASE Encrypt
  <2>1. PICK w \in Seq(Nat) : w = wire
    BY DEF InOrder
  <2>2. PICK v \in Seq(Nat) : v = Append(w, sendSeq)
    BY AppendProperties, Zenon DEF InOrder
  <2>3. /\ Len(w) \in Nat /\ Len(v) = Len(w) + 1 /\ v[Len(w) + 1] = sendSeq
        /\ \A k \in 1 .. Len(w) : v[k] = w[k]
    BY <2>2, AppendProperties, LenProperties DEF InOrder
  <2>4. \A k \in 1 .. Len(w) : w[k] \in Nat /\ w[k] < sendSeq /\ (replaySet => w[k] >= replayTop)
    BY <2>1, ElementOfSeq DEF InOrder
  <2>5. \A k \in 1 .. Len(v) : k \in 1 .. Len(w) \/ k = Len(w) + 1
    BY <2>3
  <2>6. Increasing(v)
    <3> SUFFICES ASSUME NEW k \in 1 .. Len(v), NEW l \in 1 .. Len(v), k < l PROVE v[k] < v[l]
      BY DEF Increasing
    <3>1. k \in 1 .. Len(w)
      BY <2>3
    <3>2. CASE l \in 1 .. Len(w)
      BY <2>1, <2>3, <3>1, <3>2 DEF InOrder, Increasing
    <3>3. CASE l = Len(w) + 1
      BY <2>3, <2>4, <3>1, <3>3, Zenon
    <3>4. QED
      BY <2>5, <3>2, <3>3
  <2>7. sendSeq \in Nat /\ replayTop \in Nat /\ (replaySet => replayTop < sendSeq)
    BY DEF InOrder
  <2>8. \A k \in 1 .. Len(v) : v[k] < sendSeq + 1 /\ (replaySet => v[k] >= replayTop)
    BY <2>3, <2>4, <2>5, <2>7, SMTT(30)
  <2>9. /\ wire' = v /\ sendSeq' = sendSeq + 1
        /\ UNCHANGED <<replaySet, replayTop, replayBit, delivered, repeated>>
    BY <1>1, <2>1, <2>2 DEF Encrypt, window
  <2>10. QED
    BY <2>6, <2>7, <2>8, <2>9 DEF InOrder
<1>2. ASSUME NEW i \in DOMAIN wire, LosePacket(i) PROVE ReplayInvariant'
  <2>1. i \in 1 .. Len(wire) /\ \A k \in 1 .. Len(wire) : wire[k] \in Nat
    BY LenProperties, ElementOfSeq DEF InOrder
  <2>2. PICK n \in Nat : /\ \A k \in 1 .. Len(wire) : wire[k] >= n
                         /\ replaySet => n = replayTop
    <3>1. CASE replaySet
      BY <3>1 DEF InOrder
    <3>2. CASE ~replaySet
      <4>1. \A k \in 1 .. Len(wire) : wire[k] >= 0
        BY <2>1
      <4>2. QED
        BY <3>2, <4>1
    <3>3. QED
      BY <3>1, <3>2
  <2>3. /\ wire' \in Seq(Nat) /\ Increasing(wire')
        /\ \A k \in 1 .. Len(wire') : wire'[k] < sendSeq /\ wire'[k] >= n
    BY <1>2, <2>1, <2>2, RemovalStep DEF LosePacket
  <2>4. UNCHANGED <<sendSeq, replaySet, replayTop, replayBit, delivered, repeated>>
    BY <1>2 DEF LosePacket, window
  <2>5. QED
    BY <2>2, <2>3, <2>4 DEF InOrder
<1>3. ASSUME NEW i \in DOMAIN wire, Arrive(i) PROVE ReplayInvariant'
  <2> DEFINE seq == wire[1]
  <2>1. i = 1 /\ Decrypt(seq) /\ wire' \in {wire, RemoveAt(wire, 1)} /\ sendSeq' = sendSeq
    BY <1>3 DEF Arrive
  <2>2. /\ seq \in Nat /\ 1 \in 1 .. Len(wire) /\ \A k \in 1 .. Len(wire) : wire[k] >= seq
        /\ seq < sendSeq /\ (replaySet => seq >= replayTop)
    BY <1>3, <2>1, FirstIsOldest DEF InOrder
  <2>3. /\ wire' \in Seq(Nat) /\ Increasing(wire')
        /\ \A k \in 1 .. Len(wire') : wire'[k] < sendSeq /\ wire'[k] >= seq
    BY <2>1, <2>2, RemovalStep, Zenon DEF InOrder
  <2> HIDE DEF seq
  <2>4. CASE replaySet /\ seq = replayTop
    <3>1. replayTop - seq = 0 /\ seq \in delivered
      BY <2>2, <2>4 DEF InOrder
    <3>2. ~checkReplay(seq)
      BY <2>2, <2>4, <3>1 DEF checkReplay, InOrder
    <3>3. UNCHANGED <<replaySet, replayTop, replayBit, delivered, repeated>>
      BY <2>1, <3>1, <3>2 DEF Decrypt, window
    <3>4. QED
      BY <2>1, <2>3, <2>4, <3>3 DEF InOrder
  <2>5. CASE ~replaySet \/ seq > replayTop
    <3>1. checkReplay(seq) /\ seq \notin delivered
      BY <2>2, <2>5 DEF checkReplay, InOrder
    <3>2. /\ delivered' = delivered \cup {seq} /\ repeated' = {}
          /\ markSeen(seq)
      BY <2>1, <3>1 DEF Decrypt
    <3>3. replaySet' = TRUE /\ replayTop' = seq /\ replayBit' \in [Slots -> BOOLEAN] /\ replayBit'[0]
      <4>1. replaySet' = TRUE /\ replayTop' = seq /\ 0 = seq - seq
        BY <2>2, <2>5, <3>2 DEF markSeen
      <4> DEFINE raises == ~replaySet \/ seq > replayTop
                 bits == [j \in Slots |-> replayBit[j] /\ ~(raises /\ j \in Cleared(seq))]
      <4>2. replayBit' = [j \in Slots |-> j = seq - seq \/ bits[j]]
        BY <2>5, <3>2 DEF markSeen
      <4> HIDE DEF bits
      <4>3. replayBit'[0]
        BY <1>0, <4>1, <4>2, Zenon
      <4>4. bits \in [Slots -> BOOLEAN]
        BY DEF bits, InOrder
      <4>5. replayBit' \in [Slots -> BOOLEAN]
        BY <4>2, <4>4
      <4>6. QED
        BY <4>1, <4>3, <4>5
    <3>4. \A d \in delivered' : d \in Nat /\ d <= seq
      BY <2>2, <2>5, <3>2 DEF InOrder
    <3>5. QED
      BY <2>1, <2>2, <2>3, <3>2, <3>3, <3>4 DEF InOrder
  <2>6. QED
    BY <2>2, <2>4, <2>5 DEF InOrder
<1>4. CASE UNCHANGED replayVars
  BY <1>4 DEF replayVars, window, InOrder
<1>5. QED
  BY <1>1, <1>2, <1>3, <1>4 DEF ReplayNext

(* On an ordered network every reachable state satisfies the invariant, for *)
(* every window size and number of packets.                                 *)
THEOREM ReplayInvariantHolds == ASSUME Ordered PROVE ReplaySpec => []ReplayInvariant
<1>1. ReplayInit => ReplayInvariant
  <2> SUFFICES ASSUME ReplayInit PROVE ReplayInvariant
    OBVIOUS
  <2>1. wire = <<>> /\ wire \in Seq(Nat) /\ Len(wire) = 0
    BY EmptySeq DEF ReplayInit
  <2>2. replayBit \in [Slots -> BOOLEAN]
    BY DEF ReplayInit
  <2>3. Increasing(wire) /\ \A i \in 1 .. Len(wire) : FALSE
    BY <2>1 DEF Increasing
  <2>4. QED
    BY <2>1, <2>2, <2>3, Zenon DEF ReplayInit, ReplayInvariant, InOrder, DeliveredOnce
<1>2. ReplayInvariant /\ [ReplayNext]_replayVars => ReplayInvariant'
  BY ReplayStep
<1>3. QED
  BY <1>1, <1>2, PTL DEF ReplaySpec

(* checkReplay and markSeen let no packet through twice, however often the  *)
(* network repeats packets and whichever it loses.                          *)
THEOREM DeliveredOnceHolds == ASSUME Ordered PROVE ReplaySpec => []DeliveredOnce
<1>1. ReplayInvariant => DeliveredOnce
  BY DEF ReplayInvariant
<1>2. QED
  BY <1>1, ReplayInvariantHolds, PTL

=============================================================================
