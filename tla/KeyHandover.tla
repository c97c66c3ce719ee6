---------------------------- MODULE KeyHandover ----------------------------
(***************************************************************************)
(* What the users of the data channel may rely on when its keys change.    *)
(* The keys of a connection are numbered in the order they are made, from  *)
(* 0.  A new key is accepted on incoming packets before the client sends   *)
(* with it, and the key it replaces is accepted until the next one is      *)
(* installed: packets that either side has under way at the change are not *)
(* lost.  The client never goes back to an older key, and at most two keys *)
(* are good at any time.  A new connection begins anew.                    *)
(***************************************************************************)
EXTENDS Naturals

CONSTANT Keys           \* the keys of a connection

VARIABLES connection,   \* the number of the connection
          sending,      \* the key the client encrypts with
          accepted      \* the keys under which a packet is decrypted

vars == <<connection, sending, accepted>>

Init == connection = 1 /\ sending = 0 /\ accepted = {0}

\* One key at a time waits to be put to use.
Install ==
    /\ \A k \in accepted : k <= sending
    /\ \E k \in Keys : k > sending /\ accepted' = {sending, k}
    /\ UNCHANGED <<connection, sending>>

Switch ==
    /\ \E k \in accepted : k > sending /\ sending' = k
    /\ UNCHANGED <<connection, accepted>>

Renew ==
    /\ connection' = connection + 1
    /\ sending' = 0 /\ accepted' = {0}

Next == Install \/ Switch \/ Renew

Spec == Init /\ [][Next]_vars
=============================================================================
