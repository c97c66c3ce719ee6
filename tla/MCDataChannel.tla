---------------------------- MODULE MCDataChannel ----------------------------
(***************************************************************************)
(* The data channel in three scenarios that together stay small enough:    *)
(*   "reuse"   renegotiations on a link without losses, on which key_ids   *)
(*             are used up and used again in one connection;               *)
(*   "lossy"   a lossy link with one renegotiation per connection and a    *)
(*             reconnect;                                                  *)
(*   "replay"  the packets of one key epoch, without a renegotiation.      *)
(***************************************************************************)
EXTENDS Rekey, ReplayWindow

CONSTANT LossyAttempts     \* bound: calls of doRekey in a lossy connection

VARIABLE scenario

mcVars == <<vars, replayVars, scenario>>

MCInit == Init /\ ReplayInit /\ scenario \in {"reuse", "lossy", "replay"}

MCNext ==
  /\ \/ scenario = "reuse" /\ Exchange /\ conn' = 1 /\ UNCHANGED replayVars
     \/ scenario = "lossy" /\ Next /\ attempt' <= LossyAttempts /\ UNCHANGED replayVars
     \/ scenario = "replay" /\ ReplayNext /\ UNCHANGED vars
  /\ UNCHANGED scenario

MCSpec == MCInit /\ [][MCNext]_mcVars

(* Fairness of Rekey, for the scenario whose liveness is checked. *)
Lossy(A) == scenario = "lossy" /\ A /\ UNCHANGED <<replayVars, scenario>>

MCFairness ==
  /\ WF_mcVars(Lossy(DoRekey))
  /\ WF_mcVars(Lossy(Retransmit(rekey.id))) /\ WF_mcVars(Lossy(ServerRetransmit(rekey.id)))
  /\ SF_mcVars(Lossy(\E m \in Current(toClient) : RecvSoftReset(m)))
  /\ SF_mcVars(Lossy(\E m \in Current(toClient) : RecvControlV1(m)))
  /\ SF_mcVars(Lossy(\E m \in Current(toClient) : RecvAckV1(m)))
  /\ SF_mcVars(Lossy(\E m \in Current(toServer) : ServerReset(m)))
  /\ SF_mcVars(Lossy(\E m \in Current(toServer) : ServerAck(m)))
  /\ SF_mcVars(Lossy(\E m \in Current(toServer) : ServerAuth(m)))
  /\ WF_mcVars(Lossy(\E t \in timers : PromoteSecondary(t)))

MCFairSpec == MCSpec /\ MCFairness

(* On a lossy link a reset that doRekey has sent leads to a promoted key,   *)
(* unless the attempt fails or the connection ends: packet loss alone never *)
(* leaves the peers waiting for one another.                                *)
LossyRekeyTakesEffect == scenario = "lossy" => RekeyTakesEffect

=============================================================================
