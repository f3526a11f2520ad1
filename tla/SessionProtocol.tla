--------------------------- MODULE SessionProtocol ---------------------------
(***************************************************************************)
(* What NetService promises the application through NetEventCallBack       *)
(* (src/engine/net/sock_struct.h:105-114), without any of the machinery.   *)
(*                                                                         *)
(*   - Callbacks come one at a time.                                       *)
(*   - OnAddConnection and OnConnected open a session under an ID that no  *)
(*     open session has.                                                   *)
(*   - OnData reports data of the session that is open under its ID.       *)
(*   - OnConnectionDrop and OnConnectFail report the end of an open        *)
(*     session, once.                                                      *)
(*   - KickSession ends an open session, and nothing is reported of it.    *)
(***************************************************************************)
EXTENDS Naturals

CONSTANTS ID, Connection, Connector, None

VARIABLES
    session,   \* the open session under each ID, or None
    callback   \* the callback in progress: <<name, ID, session>>, or None

vars == <<session, callback>>

Init ==
    /\ session = [id \in ID |-> None]
    /\ callback = None

(* A connection is announced by the callback of its kind. *)
Announces(name, s) ==
    name = IF s \in Connector THEN "OnConnected" ELSE "OnAddConnection"

(* The loss of a connection is reported by the callback of its kind. *)
Reports(name, s) ==
    name = IF s \in Connector THEN "OnConnectFail" ELSE "OnConnectionDrop"

Open(name, id, s) ==
    /\ callback = None
    /\ session[id] = None /\ \A i \in ID : session[i] # s
    /\ Announces(name, s)
    /\ session' = [session EXCEPT ![id] = s]
    /\ callback' = <<name, id, s>>

(* Data may follow its session's announcement at once. *)
Data(id) ==
    /\ session[id] # None
    /\ callback = None \/ callback = <<"OnAddConnection", id, session[id]>>
    /\ callback' = <<"OnData", id, session[id]>>
    /\ UNCHANGED session

(* A failure to watch a new connection is reported after its announcement. *)
Lose(name, id) ==
    /\ session[id] # None
    /\ callback = None \/ callback = <<"OnConnected", id, session[id]>>
    /\ Reports(name, session[id])
    /\ session' = [session EXCEPT ![id] = None]
    /\ callback' = <<name, id, session[id]>>

Return ==
    /\ callback # None
    /\ callback' = None
    /\ UNCHANGED session

Kick(id) ==
    /\ session[id] # None
    /\ session' = [session EXCEPT ![id] = None]
    /\ UNCHANGED callback

Next ==
    \/ \E id \in ID, s \in Connection :
          \E name \in {"OnAddConnection", "OnConnected"} : Open(name, id, s)
    \/ \E id \in ID : Data(id) \/ Kick(id)
    \/ \E id \in ID, name \in {"OnConnectionDrop", "OnConnectFail"} : Lose(name, id)
    \/ Return

Spec == Init /\ [][Next]_vars
=============================================================================
