----------------------------- MODULE ReplayWindow -----------------------------
(***************************************************************************)
(* The packet IDs of one data-channel key epoch: the sender's counter      *)
(* (Channel.Encrypt), the network between, and the receiver's replay       *)
(* window (Channel.Decrypt with checkReplay and markSeen) of               *)
(* internal/datachannel/datachannel.go.  A packet is its sequence number;  *)
(* one goroutine (wireToTun) receives.                                     *)
(***************************************************************************)
EXTENDS Integers, SequencesExt

CONSTANTS
  replayWindowSize,  \* 64 in the code
  MaxSeq,            \* bound: packets sent in the epoch
  MaxWire,           \* bound: packets in flight
  Ordered            \* does the network keep order (TCP) or not (UDP)

ASSUME ReplayAssumption ==
  /\ replayWindowSize \in Nat \ {0} /\ MaxSeq \in Nat \ {0} /\ MaxWire \in Nat
  /\ Ordered \in BOOLEAN

VARIABLES
  sendSeq,                          \* the sender's counter
  wire,                             \* packets in flight, in sending order
  replaySet, replayTop, replayBit,  \* the receiver's window
  delivered,                        \* history: packets passed to the TUN
  repeated                          \* history: those passed more than once

window     == <<replaySet, replayTop, replayBit>>
replayVars == <<sendSeq, wire, window, delivered, repeated>>

Slots == 0 .. replayWindowSize - 1

ReplayInit ==
  /\ sendSeq = 0 /\ wire = <<>>
  /\ replaySet = FALSE /\ replayTop = 0 /\ replayBit = [i \in Slots |-> FALSE]
  /\ delivered = {} /\ repeated = {}

Encrypt ==
  /\ sendSeq < MaxSeq /\ Len(wire) < MaxWire
  /\ sendSeq' = sendSeq + 1 /\ wire' = Append(wire, sendSeq)
  /\ UNCHANGED <<window, delivered, repeated>>

(* Fault: a packet already seen passes. *)
checkReplaySeen(seq) ==
  ~replaySet \/ seq > replayTop \/ replayTop - seq < replayWindowSize

(* nil: the packet may be delivered. *)
checkReplay(seq) ==
  \/ ~replaySet
  \/ seq > replayTop
  \/ /\ replayTop - seq < replayWindowSize
     /\ ~replayBit[replayTop - seq]

(* A new top clears the slots numbered from the old top on; the packet's    *)
(* own slot is counted back from the top.                                   *)
Cleared(seq) ==
  LET advance == IF replaySet THEN seq - replayTop ELSE 0
  IN  {(replayTop + 1 + i) % replayWindowSize : i \in {j \in Slots : j < advance}}

markSeen(seq) ==
  LET raises == ~replaySet \/ seq > replayTop
      top    == IF raises THEN seq ELSE replayTop
      bits   == [i \in Slots |-> replayBit[i] /\ ~(raises /\ i \in Cleared(seq))]
  IN  /\ replaySet' = TRUE /\ replayTop' = top
      /\ replayBit' = [i \in Slots |-> i = top - seq \/ bits[i]]

Decrypt(seq) ==
  IF checkReplay(seq)
    THEN /\ markSeen(seq)
         /\ delivered' = delivered \cup {seq}
         /\ repeated' = repeated \cup ({seq} \cap delivered)
    ELSE UNCHANGED <<window, delivered, repeated>>

(* The network delivers the i-th packet in flight, which may come again. *)
Arrive(i) ==
  /\ i \in DOMAIN wire /\ (Ordered => i = 1)
  /\ Decrypt(wire[i])
  /\ wire' \in {wire, RemoveAt(wire, i)}
  /\ UNCHANGED sendSeq

LosePacket(i) ==
  /\ i \in DOMAIN wire /\ wire' = RemoveAt(wire, i)
  /\ UNCHANGED <<sendSeq, window, delivered, repeated>>

ReplayNext == Encrypt \/ \E i \in DOMAIN wire : Arrive(i) \/ LosePacket(i)

ReplaySpec == ReplayInit /\ [][ReplayNext]_replayVars

-----------------------------------------------------------------------------
(* No packet reaches the TUN twice: checkReplay "returns an error if seq    *)
(* has been seen before", however the network repeats packets.              *)
DeliveredOnce == repeated = {}

=============================================================================
