------------------------------ MODULE MCRelay ------------------------------
(***************************************************************************)
(* Relay on four instances in one run, each with what it is about and      *)
(* without the rest:                                                       *)
(*   "requests"   two apps whose requests interleave over one connection;  *)
(*   "reconnect"  one app and an agent that dials again (after a lost      *)
(*                connection or a restart) while the handler of its first  *)
(*                connection may still be at work;                         *)
(*   "garbled"    one app and one connection on which frames are written   *)
(*                in part and the agent's reader falls out of step;        *)
(*   "login"      one app and one connection, with all that the phase2     *)
(*                goroutines and their VPN clients do.                     *)
(* The connection of the last two does not break, and the agent dials      *)
(* again in "reconnect" only.                                              *)
(***************************************************************************)
EXTENDS Relay

CONSTANTS r1, r2

VARIABLE scenario

mcVars == <<vars, scenario>>

MCInit == Init /\ scenario \in {"requests", "reconnect", "garbled", "login"}

\* No frame is written in part, and the agent's reader stays in step.
Clear == \A c \in Conns : ~skewed[c] /\ ~cut[c] /\ \A i \in DOMAIN up[c] : up[c][i] # Part

\* No phase2 message is more than refused.
NoLogin == \A g \in Phase2s : phase2[g] \in {"none", "start", "report"}

\* The bounds of each instance.
Within ==
    /\ scenario' = scenario
    /\ scenario # "reconnect" => ~(cur = 1 /\ run' = "dial")
    /\ scenario # "requests" => req'[r2] = IdleReq
    /\ scenario = "reconnect" => pushes' <= 1
    /\ scenario # "garbled" => Clear'
    /\ scenario \in {"garbled", "login"} => broken' = broken
    /\ scenario # "login" => NoLogin'

MCNext == Next /\ Within

\* Fairness of Relay, for the steps within the bounds.
MCFairness ==
    /\ \A c \in Conns :
          /\ WF_mcVars(HandlerSteps(c) /\ UNCHANGED agentVars /\ Within)
          /\ WF_mcVars(writeNext(c) /\ UNCHANGED agentVars /\ Within)
    /\ WF_mcVars(RunSteps /\ UNCHANGED serverVars /\ Within)

MCSpec == MCInit /\ [][MCNext]_mcVars /\ MCFairness
=============================================================================
