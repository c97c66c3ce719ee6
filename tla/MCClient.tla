------------------------------ MODULE MCClient ------------------------------
(***************************************************************************)
(* The two sides of a client in one run: the methods and goroutines of     *)
(* Client ("lifecycle"), and what its setup, monitor and cleanup do to the *)
(* host ("host").                                                          *)
(***************************************************************************)
EXTENDS ClientLifecycle, HostResources

VARIABLE scenario

mcVars == <<vars, hostVars, scenario>>

MCInit ==
  /\ Init /\ HostInit /\ scenario \in {"lifecycle", "host"}
  /\ scenario = "lifecycle" => routes = {Route("default", "gw", 0)}

MCNext ==
  /\ \/ scenario = "lifecycle" /\ Next /\ UNCHANGED hostVars
     \/ scenario = "host" /\ HostNext /\ UNCHANGED vars
  /\ UNCHANGED scenario

(* The fairness of the two, each in its scenario. *)
MCFairness ==
  /\ WF_mcVars(scenario = "lifecycle" /\ Owed /\ UNCHANGED <<hostVars, scenario>>)
  /\ WF_mcVars(scenario = "host" /\ Client(Monitor) /\ UNCHANGED <<vars, scenario>>)

MCSpec == MCInit /\ [][MCNext]_mcVars /\ MCFairness

=============================================================================
