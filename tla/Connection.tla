----------------------------- MODULE Connection -----------------------------
(***************************************************************************)
(* What an application sees of a Client: State, Done and Err.              *)
(* A connection is set up, is up, is closed and is down, in this order;    *)
(* Done is closed when it is down, and by then nothing of the tunnel is    *)
(* left.  Err is the first error recorded before that and stays what it is *)
(* until the client is reset for the next connection.  It may be recorded  *)
(* while the connection closes, also when a Disconnect without an error    *)
(* closes it: the comment of WaitForDisconnect promises nil for that, and  *)
(* this specification does not.                                            *)
(***************************************************************************)

CONSTANT Errors          \* "nil" and the reasons for which a session ends

VARIABLES phase,         \* "idle", "connecting", "up", "closing", "down"
          tunnel,        \* a goroutine, the TUN device or the socket is still there
          err

vars == <<phase, tunnel, err>>

Init == phase = "idle" /\ tunnel = FALSE /\ err = "nil"

(* An error counts only if it is the first. *)
Record == err' \in (IF err = "nil" THEN Errors ELSE {err})

Begin == phase = "idle" /\ phase' = "connecting" /\ UNCHANGED <<tunnel, err>>

(* The parts of the tunnel come and go, and some of them fail, also those   *)
(* that have not yet noticed that the connection is being closed.           *)
Work ==
  /\ phase \in {"connecting", "up", "closing"} /\ UNCHANGED phase
  /\ tunnel' \in BOOLEAN /\ Record

Up == phase = "connecting" /\ phase' = "up" /\ UNCHANGED <<tunnel, err>>

(* The setup fails: the connection is down at once. *)
Fail == phase = "connecting" /\ phase' = "down" /\ tunnel' = FALSE /\ Record

(* Disconnect, by whom ever; also of a client that has no tunnel. *)
Disconnect ==
  /\ phase \in {"idle", "connecting", "up"} /\ phase' = "closing"
  /\ UNCHANGED <<tunnel, err>>

Finish ==
  /\ phase = "closing" /\ ~tunnel /\ phase' = "down"
  /\ UNCHANGED <<tunnel, err>>

Reset == phase = "down" /\ phase' = "idle" /\ err' = "nil" /\ UNCHANGED tunnel

Next == Begin \/ Work \/ Up \/ Fail \/ Disconnect \/ Finish \/ Reset

Spec == Init /\ [][Next]_vars

=============================================================================
