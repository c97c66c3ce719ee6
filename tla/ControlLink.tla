----------------------------- MODULE ControlLink -----------------------------
(***************************************************************************)
(* One direction of the OpenVPN control channel of one key epoch: a sender *)
(* with a SendQueue, a receiver with a RecvWindow, and a network that may  *)
(* lose, duplicate and reorder both packets and ACKs (UDP; TCP behaviours  *)
(* are the ones without these).                                            *)
(*                                                                         *)
(* The same module describes both directions of the tunnel.                *)
(*   - Upstream the sender is this client, whose SendQueue is unbounded    *)
(*     (limit >= MaxID), and the receiver is the OpenVPN peer, which does  *)
(*     not acknowledge what lies beyond its window (ackOutside = FALSE).   *)
(*   - Downstream the sender is the peer, which keeps at most WindowSize   *)
(*     ids in flight (limit = WindowSize), and the receiver is the inbound *)
(*     relay of tlsHandshake, which acknowledges a P_CONTROL_V1 packet     *)
(*     before it looks at the window (ackOutside = TRUE).                  *)
(***************************************************************************)
EXTENDS Reliable

CONSTANTS First,        \* id of the first packet after the reset exchange
          MaxID,        \* bound: ids First .. MaxID-1 are sent
          Directions    \* the links there are: how many ids the sender lets run ahead
                        \* of its oldest unACKed one, and whether the receiver ACKs
                        \* packets it drops as too far ahead

ASSUME LinkAssumption ==
  /\ First \in Nat
  /\ MaxID \in Nat
  /\ Directions \subseteq [limit : Nat \ {0}, ackOutside : BOOLEAN]

VARIABLES direction,    \* which of the links this is
          sendQueue,    \* the sender's SendQueue
          recvWindow,   \* the receiver's RecvWindow
          delivered,    \* ids handed to the receiver's TLS transport, in order
          wire,         \* data packets in flight
          acks          \* acknowledgements in flight

vars == <<direction, sendQueue, recvWindow, delivered, wire, acks>>

IDs == First .. (MaxID - 1)

Init ==
  /\ direction \in Directions
  /\ sendQueue = NewSendQueue(First)
  /\ recvWindow = NewRecvWindowFrom(First)
  /\ delivered = <<>>
  /\ wire = {}
  /\ acks = {}

-----------------------------------------------------------------------------
(* The send goroutine: the next segment is queued and written. *)
Send ==
  /\ sendQueue.nextID < MaxID
  /\ \A e \in sendQueue.entries : sendQueue.nextID < e + direction.limit
  /\ sendQueue' = Enqueue(sendQueue)
  /\ wire' = wire \cup {sendQueue.nextID}
  /\ UNCHANGED <<direction, recvWindow, delivered, acks>>

(* The retransmit goroutine finds an entry past its NextRetry. *)
Retransmit(id) ==
  /\ id \in sendQueue.entries
  /\ wire' = wire \cup {id}
  /\ UNCHANGED <<direction, sendQueue, recvWindow, delivered, acks>>

(* Fault: the ACK of a duplicate is not repeated. *)
AcknowledgesOnce(w, id) == Accepts(w, id)

(* Which arrivals are acknowledged.  Duplicates always are. *)
Acknowledges(w, id) == direction.ackOutside \/ id < w.expected + WindowSize

(* Fault: a packet is handed to TLS when it arrives, not when its turn comes. *)
ArriveUnordered(id) ==
  /\ id \in wire
  /\ wire' \in {wire, wire \ {id}}
  /\ acks' = IF Acknowledges(recvWindow, id) THEN acks \cup {id} ELSE acks
  /\ recvWindow' = Receive(recvWindow, id)
  /\ delivered' = IF Accepts(recvWindow, id) THEN Append(delivered, id) ELSE delivered
  /\ UNCHANGED <<direction, sendQueue>>

(* The inbound relay handles a packet: it ACKs, then moves the window and   *)
(* injects the payloads that became deliverable.  The network may keep a    *)
(* copy of the packet.                                                      *)
Arrive(id) ==
  /\ id \in wire
  /\ wire' \in {wire, wire \ {id}}
  /\ acks' = IF Acknowledges(recvWindow, id) THEN acks \cup {id} ELSE acks
  /\ recvWindow' = Receive(recvWindow, id)
  /\ delivered' = delivered \o Run(recvWindow.expected, recvWindow'.expected)
  /\ UNCHANGED <<direction, sendQueue>>

(* A P_ACK_V1, or an ACK piggybacked on a control packet, arrives. *)
ArriveAck(id) ==
  /\ id \in acks
  /\ acks' \in {acks, acks \ {id}}
  /\ sendQueue' = Ack(sendQueue, id)
  /\ UNCHANGED <<direction, recvWindow, delivered, wire>>

LosePacket(id) ==
  /\ id \in wire
  /\ wire' = wire \ {id}
  /\ UNCHANGED <<direction, sendQueue, recvWindow, delivered, acks>>

LoseAck(id) ==
  /\ id \in acks
  /\ acks' = acks \ {id}
  /\ UNCHANGED <<direction, sendQueue, recvWindow, delivered, wire>>

Next ==
  \/ Send
  \/ \E id \in IDs :
       \/ Retransmit(id)
       \/ Arrive(id)
       \/ ArriveAck(id)
       \/ LosePacket(id)
       \/ LoseAck(id)

Spec == Init /\ [][Next]_vars

(* The ticker of the retransmit goroutine never stops while the connection  *)
(* lives, and a packet that is sent again and again is not lost each time.  *)
(* TLS may stop writing, so Send is not fair.                               *)
Fairness ==
  /\ \A id \in IDs :
       /\ WF_vars(Retransmit(id))
       /\ SF_vars(Arrive(id))
       /\ SF_vars(ArriveAck(id))

FairSpec == Spec /\ Fairness

-----------------------------------------------------------------------------
(* Type invariant: the shapes of the queue, the window and the network. *)
TypeOK ==
  /\ direction \in Directions
  /\ sendQueue \in [entries : SUBSET IDs, nextID : Nat]
  /\ recvWindow \in [expected : Nat, pending : SUBSET IDs]
  /\ delivered \in Seq(IDs)
  /\ wire \subseteq IDs
  /\ acks \subseteq IDs

(* A packet leaves the SendQueue only if the receiver has delivered it or   *)
(* holds it: otherwise nobody would ever retransmit it and the TLS stream   *)
(* would stall for good.  (SendQueue.Ack against the ACK that the inbound   *)
(* relay writes before RecvWindow.Receive may drop the packet.)             *)
Held(id) == id < recvWindow.expected \/ id \in recvWindow.pending

AckedIsHeld ==
  \A id \in First .. (sendQueue.nextID - 1) : id \in sendQueue.entries \/ Held(id)

(* RecvWindow.pending never needs more than WindowSize-1 slots: it holds    *)
(* only ids strictly between the expected one and the end of the window,    *)
(* never a delivered one.                                                   *)
PendingInWindow ==
  recvWindow.pending \subseteq (recvWindow.expected + 1) .. (recvWindow.expected + WindowSize - 1)

(* The link implements ordered, exactly-once delivery: what receiveControl  *)
(* injects into the TLS transport is the sent stream, cut off somewhere.    *)
Abstract == INSTANCE OrderedDelivery WITH sent <- sendQueue.nextID

ImplementsOrderedDelivery == Abstract!Spec

(* The inductive invariant behind the safety properties.  Beyond them it    *)
(* says that nothing is in flight that was not sent, that an ACK in flight  *)
(* is for a packet the receiver holds, and, for a receiver that ACKs        *)
(* whatever arrives, that the sender cannot run beyond the window: the id   *)
(* the receiver waits for is unACKed, so it holds the sender back.          *)
WindowRespected == \A d \in Directions : d.ackOutside => d.limit <= WindowSize

LinkInvariant ==
  /\ TypeOK
  /\ AckedIsHeld
  /\ PendingInWindow
  /\ First <= recvWindow.expected /\ recvWindow.expected <= sendQueue.nextID
  /\ sendQueue.nextID <= MaxID \/ sendQueue.nextID = First
  /\ delivered = Run(First, recvWindow.expected)
  /\ \A id \in wire \cup recvWindow.pending \cup sendQueue.entries : id < sendQueue.nextID
  /\ \A id \in acks : Held(id)
  /\ direction.ackOutside => sendQueue.nextID <= recvWindow.expected + WindowSize

(* Whatever is lost on the way, the receiver catches up with the sender     *)
(* once TLS stops writing (here after MaxID - First segments at the         *)
(* latest), because DueForRetransmit keeps returning what is not acked.     *)
EventuallyDelivered == <>[](recvWindow.expected = sendQueue.nextID)

(* The send queue drains: waitForControlAcks (Len() = 0) is not waiting for *)
(* an ACK that can no longer come.                                          *)
EventuallyDrained == <>[](sendQueue.entries = {})

=============================================================================
