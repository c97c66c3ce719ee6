---------------------------- MODULE MCControlLink ----------------------------
(***************************************************************************)
(* The control channel in two scenarios: "link" is one of the directions   *)
(* of the link, and "transport" the client's end above it, with the        *)
(* goroutines of tlsHandshake.                                             *)
(***************************************************************************)
EXTENDS ControlLink, ControlTransport

VARIABLE scenario

allVars == <<vars, transportVars, scenario>>

\* The peer keeps to its window, and the inbound relay acknowledges whatever
\* arrives.
Downstream == [limit |-> WindowSize, ackOutside |-> TRUE]

\* The client's queue is unbounded, and the peer acknowledges what it accepts
\* or has accepted.
Upstream == [limit |-> MaxID, ackOutside |-> FALSE]

BothDirections == {Downstream, Upstream}

ControlInit ==
  /\ Init /\ TransportInit /\ scenario \in {"link", "transport"}
  /\ scenario = "transport" => direction = Downstream

ControlNext ==
  /\ \/ scenario = "link" /\ Next /\ UNCHANGED transportVars
     \/ scenario = "transport" /\ TransportNext /\ UNCHANGED vars
  /\ UNCHANGED scenario

LinkFairness ==
  \A id \in IDs :
    /\ WF_allVars(Retransmit(id) /\ UNCHANGED <<transportVars, scenario>>)
    /\ SF_allVars(Arrive(id) /\ UNCHANGED <<transportVars, scenario>>)
    /\ SF_allVars(ArriveAck(id) /\ UNCHANGED <<transportVars, scenario>>)

InTransport(A) == scenario = "transport" /\ ~panicked /\ A /\ UNCHANGED <<vars, scenario>>

\* A goroutine of the transport that can take a step takes one.
TransportFairness ==
  /\ \A t \in {"relay", "user"} : WF_allVars(InTransport(CloseSteps(t)))
  /\ WF_allVars(InTransport(RelaySteps)) /\ WF_allVars(InTransport(RawReaderSteps))
  /\ WF_allVars(InTransport(SenderSteps)) /\ WF_allVars(InTransport(retransmitterReturns))
  /\ WF_allVars(InTransport(ReaderSteps)) /\ WF_allVars(InTransport(WriteSend))

ControlSpec ==
  /\ ControlInit /\ [][ControlNext]_allVars
  /\ LinkFairness /\ TransportFairness

=============================================================================
