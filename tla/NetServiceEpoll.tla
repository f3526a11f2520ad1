--------------------------- MODULE NetServiceEpoll ---------------------------
(***************************************************************************)
(* The epoll back end of NetService (src/engine/net/net_service_epoll.cpp) *)
(* with the kernel it runs on and the application that uses it: one TCP    *)
(* listener, one UDP listener, and the connectors of the application.      *)
(*                                                                         *)
(* The service's thread is ThreadProc; pc says which loop, handler or      *)
(* callback it is in, and each iteration of a handler's loop, up to the    *)
(* next callback, is one step. Clients, servers and peers act at any time. *)
(* The application calls the service from the places AppCalls lists: from  *)
(* inside a callback, or from the main thread ("main") at any time.        *)
(***************************************************************************)
EXTENDS NetSession, FiniteSets

CONSTANTS
    AppCalls,   \* pairs <<place, method>> of calls the application makes
    Faults,     \* system calls that may fail
    Returning,  \* bound: clients that connect again after a connection has ended
    Active,     \* bound: connections whose peers send, close or reset
    MaxRx,      \* bound: unread units of data of one connection
    CHUNK,      \* units of data that one read() returns (the 1024-byte buffer)
    MaxDgrams   \* bound: datagrams waiting in the UDP listener's socket

Callbacks == {"OnUpdate", "OnAddConnection", "OnConnected", "OnConnectFail",
              "OnConnectionDrop", "OnData"}
Methods   == {"KickSession", "AddTCPConnector", "Stop"}
SysCalls  == {"EPOLL_CTL_ADD", "EPOLL_CTL_MOD", "connect", "accept", "recvfrom"}

ASSUME ServiceAssumption ==
    /\ AppCalls \subseteq ((Callbacks \cup {"main"}) \X Methods)
    /\ Faults \subseteq SysCalls
    /\ Returning \subseteq Accepted /\ Active \subseteq TcpSession
    /\ MaxRx \in Nat /\ MaxDgrams \in Nat /\ CHUNK \in Nat \ {0}
    /\ {"TCPListener", "UDPListener"} \cap Session = {}

(* A callback in progress is not NULL. *)
ASSUME CallbackAssumption ==
    \A name \in Callbacks, id \in 0..MAX_SOCK_EVENT, s \in Session \cup {NULL} :
        <<name, id, s>> # NULL

VARIABLES
    tcp,        \* kernel: the state of each TCP connection
    rx,         \* kernel: data received and not read
    backlog,    \* kernel: connections that wait for accept()
    dgrams,     \* kernel: datagrams that wait for recvfrom(), <<peer, length>>
    interest,   \* kernel: what epoll watches a session's descriptor for
    ready,      \* kernel: the ready list of the edge-triggered epoll
    m_Events,   \* the events of this batch that are still to be dispatched
    pc,         \* where ThreadProc is
    cur,        \* the session its handler works on
    session_id, \* the ID its handler holds in a local variable
    size,       \* the data its handler has read
    call,       \* the AddTCPConnector call in progress
    app         \* external: the session the application knows under each ID

kernelVars == <<tcp, rx, backlog, dgrams, interest, ready>>
threadVars == <<m_Events, pc, cur, session_id, size>>
vars == <<sessionVars, kernelVars, threadVars, call, app>>

Fd    == TcpSession \cup {"TCPListener", "UDPListener"}
Event == Fd \X {"IO_ACCEPT", "IO_CONNECT", "IO_READ", "IO_READFROM"}
Place == Callbacks \cup {"epoll_wait", "dispatch", "PostAccept",
                         "PostRead", "PostReadFrom", "stopped"}
TcpState == {"none", "fresh", "syn", "est", "fin", "reset", "refused", "closed"}
NoCall == [at |-> "none", connector |-> NULL, id |-> 0, from |-> "none"]
Call == [at : {"none", "pop", "ctl", "connect"}, connector : Connectors \cup {NULL},
         id : 0..MAX_SOCK_EVENT, from : Callbacks \cup {"main", "none"}]

KernelTypeOK ==
    /\ tcp \in [TcpSession -> TcpState]
    /\ rx \in [TcpSession -> 0..MaxRx]
    /\ backlog \in Seq(Accepted)
    /\ dgrams \in Seq(Peers \X {0, 1})
    /\ interest \in [TcpSession -> {"none", "out", "in"}]
    /\ ready \subseteq Fd

ThreadTypeOK ==
    /\ m_Events \subseteq Event
    /\ pc \in Place
    /\ cur \in Session \cup {NULL}
    /\ session_id \in 0..MAX_SOCK_EVENT
    /\ size \in Nat
    /\ call \in Call
    /\ app \in [SessionID -> Session \cup {NULL}]

TypeOK == SessionTypeOK /\ KernelTypeOK /\ ThreadTypeOK

Init ==
    /\ InitSession
    /\ tcp = [s \in TcpSession |-> IF s \in Connectors THEN "fresh" ELSE "none"]
    /\ rx = [s \in TcpSession |-> 0]
    /\ backlog = <<>>
    /\ dgrams = <<>>
    /\ interest = [s \in TcpSession |-> "none"]
    /\ ready = {}
    /\ m_Events = {}
    /\ pc = "OnUpdate"
    /\ cur = NULL
    /\ session_id = 0
    /\ size = 0
    /\ call = NoCall
    /\ app = [id \in SessionID |-> NULL]

-----------------------------------------------------------------------------
(* The kernel, as far as the service sees it. *)

(***************************************************************************)
(* Whether polling finds an event the service tests for, given what epoll  *)
(* watches each session for. EPOLLOUT: a TCP socket is writable unless its *)
(* SYN is unanswered, one that never called connect() included. EPOLLIN:   *)
(* data, end of file or an error can be read.                              *)
(***************************************************************************)
Polls(s, watch) ==
    \/ watch = "out" /\ tcp[s] # "syn"
    \/ watch = "in" /\ (rx[s] > 0 \/ tcp[s] \in {"fin", "reset", "refused"})

(* The kernel queues an event of s, if epoll watches s. *)
Wake(s) == ready' = IF interest[s] # "none" THEN ready \cup {s} ELSE ready

(* EPOLL_CTL_ADD and EPOLL_CTL_MOD poll the descriptor at once. *)
Watch(s, watch) ==
    /\ interest' = [interest EXCEPT ![s] = watch]
    /\ ready' = IF Polls(s, watch) THEN ready \cup {s} ELSE ready

(* close() on the descriptors of S: connections and their events are gone. *)
Discard(S) ==
    /\ tcp' = [s \in TcpSession |-> IF s \in S THEN "closed" ELSE tcp[s]]
    /\ rx' = [s \in TcpSession |-> IF s \in S THEN 0 ELSE rx[s]]
    /\ interest' = [s \in TcpSession |-> IF s \in S THEN "none" ELSE interest[s]]
    /\ ready' = ready \ S

(***************************************************************************)
(* A client connects: with c for the first time, or once the connection c  *)
(* that it had is closed and the service works on it no more.              *)
(***************************************************************************)
ClientConnect(c) ==
    /\ tcp[c] = "none" \/ (c \in Returning /\ tcp[c] = "closed")
    /\ heap[c] # "live" /\ cur # c /\ <<c, "IO_READ">> \notin m_Events
    /\ tcp' = [tcp EXCEPT ![c] = "est"]
    /\ backlog' = Append(backlog, c)
    /\ ready' = ready \cup {"TCPListener"}
    /\ UNCHANGED <<sessionVars, threadVars, call, app, rx, dgrams, interest>>

(* The connector's SYN is answered: the connection stands, or is refused. *)
ServerAnswers(k) ==
    /\ tcp[k] = "syn"
    /\ \E st \in {"est", "refused"} : tcp' = [tcp EXCEPT ![k] = st]
    /\ Wake(k)
    /\ UNCHANGED <<sessionVars, threadVars, call, app, rx, backlog, dgrams, interest>>

(* MaxRx also bounds what arrives while PostRead's loop is reading. *)
PeerSends(s) ==
    /\ s \in Active /\ tcp[s] = "est"
    /\ rx[s] + (IF pc = "PostRead" /\ cur = s THEN size ELSE 0) < MaxRx
    /\ rx' = [rx EXCEPT ![s] = @ + 1]
    /\ Wake(s)
    /\ UNCHANGED <<sessionVars, threadVars, call, app, tcp, backlog, dgrams, interest>>

PeerCloses(s) ==
    /\ s \in Active /\ tcp[s] = "est"
    /\ tcp' = [tcp EXCEPT ![s] = "fin"]
    /\ Wake(s)
    /\ UNCHANGED <<sessionVars, threadVars, call, app, rx, backlog, dgrams, interest>>

PeerResets(s) ==
    /\ s \in Active /\ tcp[s] \in {"est", "fin"}
    /\ tcp' = [tcp EXCEPT ![s] = "reset"]
    /\ Wake(s)
    /\ UNCHANGED <<sessionVars, threadVars, call, app, rx, backlog, dgrams, interest>>

(* A datagram of length 0 is legal, and recvfrom() returns 0 for it. *)
DatagramArrives(p, len) ==
    /\ Len(dgrams) < MaxDgrams
    /\ dgrams' = Append(dgrams, <<p, len>>)
    /\ ready' = ready \cup {"UDPListener"}
    /\ UNCHANGED <<sessionVars, threadVars, call, app, tcp, rx, backlog, interest>>

-----------------------------------------------------------------------------
(* ThreadProc: the loop, and the dispatch of a batch of events. *)

(* The thread calls the callback name about session s, under ID id. *)
CallBack(name, s, id) ==
    pc' = name /\ cur' = s /\ session_id' = id

(* The handler returns to ThreadProc's loop over the batch. *)
ToDispatch ==
    /\ pc' = "dispatch" /\ cur' = NULL /\ session_id' = 0 /\ size' = 0
    /\ UNCHANGED m_Events

(* The callback cb returns: no call it makes is in progress. *)
Returns(cb) == pc = cb /\ call.from # cb

(* Mutant: while (true). *)
LoopHead_Forever == "OnUpdate"

(* ThreadProc comes to the head of its loop: while (m_bRunning). *)
LoopHead == IF m_bRunning THEN "OnUpdate" ELSE "stopped"

ReturnOnUpdate ==
    /\ Returns("OnUpdate")
    /\ pc' = "epoll_wait"
    /\ UNCHANGED <<sessionVars, kernelVars, call, app, m_Events, cur, session_id, size>>

(* The context an event of s carries: the one it was last watched with. *)
OperType(s) == IF interest[s] = "out" THEN "IO_CONNECT" ELSE "IO_READ"

(* The events epoll_wait reports: ready descriptors that poll true now. *)
Reported ==
    {<<s, OperType(s)>> : s \in {x \in ready \cap TcpSession : Polls(x, interest[x])}}
    \cup (IF "TCPListener" \in ready /\ backlog # <<>>
          THEN {<<"TCPListener", "IO_ACCEPT">>} ELSE {})
    \cup (IF "UDPListener" \in ready /\ dgrams # <<>>
          THEN {<<"UDPListener", "IO_READFROM">>} ELSE {})

(* epoll_wait answers after 1 ms at most; what it looked at leaves ready. *)
EpollWait ==
    /\ pc = "epoll_wait"
    /\ m_Events' = Reported
    /\ ready' = {}
    /\ pc' = IF Reported = {} THEN LoopHead ELSE "dispatch"
    /\ UNCHANGED <<sessionVars, call, app, tcp, rx, backlog, dgrams, interest,
                   cur, session_id, size>>

(* Mutant: the loop over the batch ends after its first event. *)
EndOfBatch_First ==
    /\ pc = "dispatch"
    /\ m_Events' = {}
    /\ pc' = LoopHead
    /\ UNCHANGED <<sessionVars, kernelVars, call, app, cur, session_id, size>>

EndOfBatch ==
    /\ pc = "dispatch" /\ m_Events = {}
    /\ pc' = LoopHead
    /\ UNCHANGED <<sessionVars, kernelVars, call, app, m_Events, cur, session_id, size>>

DispatchListener(e) ==
    /\ pc = "dispatch" /\ e \in m_Events
    /\ \/ e = <<"TCPListener", "IO_ACCEPT">> /\ pc' = "PostAccept"
       \/ e = <<"UDPListener", "IO_READFROM">> /\ pc' = "PostReadFrom"
    /\ m_Events' = m_Events \ {e}
    /\ UNCHANGED <<sessionVars, kernelVars, call, app, cur, session_id, size>>

(* An IO_READ context is part of the TCPSession it belongs to. *)
DispatchRead(s) ==
    /\ pc = "dispatch" /\ <<s, "IO_READ">> \in m_Events
    /\ m_Events' = m_Events \ {<<s, "IO_READ">>}
    /\ pc' = "PostRead" /\ cur' = s
    /\ Deref(s)
    /\ UNCHANGED <<m_queSessionID, m_Sessions, m_mapUDPSessions, m_bRunning,
                   m_nSessionID, heap, sock, kernelVars, call, app, session_id, size>>

(***************************************************************************)
(* PostConnect, up to its callback: the connector's session enters the     *)
(* table whatever became of the connection; nothing asks for SO_ERROR.     *)
(***************************************************************************)
DispatchConnect(k) ==
    /\ pc = "dispatch" /\ <<k, "IO_CONNECT">> \in m_Events
    /\ m_Events' = m_Events \ {<<k, "IO_CONNECT">>}
    /\ AddSession(m_nSessionID[k], k)
    /\ CallBack("OnConnected", k, m_nSessionID[k])
    /\ app' = [app EXCEPT ![m_nSessionID[k]] = k]
    /\ UNCHANGED <<m_queSessionID, m_mapUDPSessions, m_nSessionID, heap, sock, fault,
                   kernelVars, call, size>>

(* Mutant: EPOLL_CTL_MOD is forgotten. *)
ReturnOnConnected_NoMod ==
    /\ Returns("OnConnected")
    /\ ToDispatch
    /\ UNCHANGED <<sessionVars, kernelVars, call, app>>

(* PostConnect after its callback, when EPOLL_CTL_MOD succeeds. *)
ReturnOnConnected ==
    /\ Returns("OnConnected")
    /\ sock[cur] = "open"
    /\ Watch(cur, "in")
    /\ ToDispatch
    /\ UNCHANGED <<sessionVars, call, app, tcp, rx, backlog, dgrams>>

(* ... and when it fails: CloseSocket(), then OnSessionDrop(). *)
ModFails ==
    /\ Returns("OnConnected")
    /\ sock[cur] # "open" \/ "EPOLL_CTL_MOD" \in Faults
    /\ sock' = [sock EXCEPT ![cur] = IF @ = "open" THEN "dangling" ELSE @]
    /\ fault' = IF sock[cur] = "open" THEN fault ELSE "bad_close"
    /\ Discard({cur})
    /\ CallBack("OnConnectFail", cur, m_nSessionID[cur])
    /\ app' = [app EXCEPT ![m_nSessionID[cur]] = NULL]
    /\ UNCHANGED <<m_queSessionID, m_Sessions, m_mapUDPSessions, m_bRunning,
                   m_nSessionID, heap, backlog, dgrams, m_Events, size, call>>

(* OnSessionDrop deletes nothing when a connector's session is dropped. *)
ReturnOnConnectFail ==
    /\ Returns("OnConnectFail")
    /\ ToDispatch
    /\ UNCHANGED <<sessionVars, kernelVars, call, app>>

-----------------------------------------------------------------------------
(* PostAccept: one step for each turn of its loop over accept(). *)

(***************************************************************************)
(* accept() returns -1: no connection waits, or the call fails (EMFILE and *)
(* its like), which leaves those that wait without an event of their own.  *)
(***************************************************************************)
NothingToAccept ==
    /\ pc = "PostAccept"
    /\ backlog = <<>> \/ "accept" \in Faults
    /\ ToDispatch
    /\ UNCHANGED <<sessionVars, kernelVars, call, app>>

(* No ID is left: the connection is destroyed and the loop ends. *)
AcceptWithoutID ==
    /\ pc = "PostAccept" /\ backlog # <<>> /\ NewSessionID = 0
    /\ sock' = [sock EXCEPT ![Head(backlog)] = "closed"]
    /\ Discard({Head(backlog)})
    /\ backlog' = Tail(backlog)
    /\ ToDispatch
    /\ UNCHANGED <<m_queSessionID, m_Sessions, m_mapUDPSessions, m_bRunning,
                   m_nSessionID, heap, fault, dgrams, call, app>>

Accept ==
    /\ pc = "PostAccept" /\ backlog # <<>> /\ NewSessionID # 0
    /\ LET c == Head(backlog) IN
       /\ backlog' = Tail(backlog)
       /\ m_queSessionID' = PopSessionID
       /\ m_nSessionID' = [m_nSessionID EXCEPT ![c] = NewSessionID]
       /\ heap' = [heap EXCEPT ![c] = "live"]
       /\ sock' = [sock EXCEPT ![c] = "open"]
       /\ Watch(c, "in")
       /\ AddSession(NewSessionID, c)
       /\ CallBack("OnAddConnection", c, NewSessionID)
       /\ app' = [app EXCEPT ![NewSessionID] = c]
    /\ UNCHANGED <<m_mapUDPSessions, fault, tcp, rx, dgrams, m_Events, size, call>>

(* Mutant: the ID is not given back. *)
AcceptAddFails_KeepsID ==
    /\ pc = "PostAccept" /\ backlog # <<>> /\ NewSessionID # 0
    /\ "EPOLL_CTL_ADD" \in Faults
    /\ backlog' = Tail(backlog)
    /\ m_queSessionID' = PopSessionID
    /\ heap' = [heap EXCEPT ![Head(backlog)] = "freed"]
    /\ sock' = [sock EXCEPT ![Head(backlog)] = "closed"]
    /\ Discard({Head(backlog)})
    /\ ToDispatch
    /\ UNCHANGED <<m_Sessions, m_mapUDPSessions, m_bRunning, m_nSessionID, fault,
                   dgrams, call, app>>

(* EPOLL_CTL_ADD fails: everything is given back and the loop ends. *)
AcceptAddFails ==
    /\ pc = "PostAccept" /\ backlog # <<>> /\ NewSessionID # 0
    /\ "EPOLL_CTL_ADD" \in Faults
    /\ LET c == Head(backlog) IN
       /\ backlog' = Tail(backlog)
       /\ m_queSessionID' = FreeSessionID(PopSessionID, NewSessionID)
       /\ m_nSessionID' = [m_nSessionID EXCEPT ![c] = NewSessionID]
       /\ heap' = [heap EXCEPT ![c] = "freed"]
       /\ sock' = [sock EXCEPT ![c] = "closed"]
       /\ Discard({c})
    /\ ToDispatch
    /\ UNCHANGED <<m_Sessions, m_mapUDPSessions, m_bRunning, fault,
                   dgrams, call, app>>

(* Mutant: accept() is called once for each event. *)
ReturnOnAddConnection_Once ==
    /\ Returns("OnAddConnection")
    /\ IF cur \in Peers
       THEN pc' = "OnData" /\ UNCHANGED <<cur, session_id, size, m_Events>>
       ELSE ToDispatch
    /\ UNCHANGED <<sessionVars, kernelVars, call, app>>

(* Back to PostAccept's loop; or, for a UDP peer, on to OnData. *)
ReturnOnAddConnection ==
    /\ Returns("OnAddConnection")
    /\ IF cur \in Peers
       THEN pc' = "OnData" /\ UNCHANGED <<cur, session_id>>
       ELSE pc' = "PostAccept" /\ cur' = NULL /\ session_id' = 0
    /\ UNCHANGED <<sessionVars, kernelVars, call, app, m_Events, size>>

-----------------------------------------------------------------------------
(* PostRead: one step for each read() of its loop. *)

(* read() returns data, over the data that the last read() returned. *)
ReadSome ==
    /\ pc = "PostRead" /\ sock[cur] = "open" /\ rx[cur] > 0
    /\ LET nread == IF rx[cur] < CHUNK THEN rx[cur] ELSE CHUNK IN
       /\ rx' = [rx EXCEPT ![cur] = @ - nread]
       /\ size' = size + nread
    /\ Deref(cur)
    /\ UNCHANGED <<m_queSessionID, m_Sessions, m_mapUDPSessions, m_bRunning,
                   m_nSessionID, heap, sock, tcp, backlog, dgrams, interest, ready,
                   m_Events, pc, cur, session_id, call, app>>

(* Mutant: read() is called once, not until it returns EAGAIN. *)
ReadEnds_Once ==
    /\ pc = "PostRead" /\ sock[cur] = "open" /\ size > 0
    /\ CallBack("OnData", cur, m_nSessionID[cur])
    /\ Deref(cur)
    /\ UNCHANGED <<m_queSessionID, m_Sessions, m_mapUDPSessions, m_bRunning,
                   m_nSessionID, heap, sock, kernelVars, m_Events, size, call, app>>

(* Mutant: any error of read() is taken for EAGAIN. *)
ReadEnds_NoErrno ==
    /\ pc = "PostRead" /\ rx[cur] = 0
    /\ CallBack("OnData", cur, m_nSessionID[cur])
    /\ Deref(cur)
    /\ UNCHANGED <<m_queSessionID, m_Sessions, m_mapUDPSessions, m_bRunning,
                   m_nSessionID, heap, sock, kernelVars, m_Events, size, call, app>>

(* read() returns 0 at end of file, or EAGAIN: OnData reports what was read. *)
ReadEnds ==
    /\ pc = "PostRead" /\ sock[cur] = "open" /\ rx[cur] = 0
    /\ tcp[cur] \in {"est", "fin"}
    /\ CallBack("OnData", cur, m_nSessionID[cur])
    /\ Deref(cur)
    /\ UNCHANGED <<m_queSessionID, m_Sessions, m_mapUDPSessions, m_bRunning,
                   m_nSessionID, heap, sock, kernelVars, m_Events, size, call, app>>

(* Mutant: EPOLL_CTL_DEL is forgotten. *)
ReadFails_NoDel ==
    /\ pc = "PostRead" /\ rx[cur] = 0 /\ tcp[cur] \in {"reset", "refused"}
    /\ CallBack(IF cur \in Connectors THEN "OnConnectFail" ELSE "OnConnectionDrop",
                cur, m_nSessionID[cur])
    /\ app' = [app EXCEPT ![m_nSessionID[cur]] = NULL]
    /\ Deref(cur)
    /\ UNCHANGED <<m_queSessionID, m_Sessions, m_mapUDPSessions, m_bRunning,
                   m_nSessionID, heap, sock, kernelVars, m_Events, size, call>>

(* read() returns another error: EPOLL_CTL_DEL, then OnSessionDrop(). *)
ReadFails ==
    /\ pc = "PostRead"
    /\ sock[cur] # "open" \/ (rx[cur] = 0 /\ tcp[cur] \in {"reset", "refused"})
    /\ interest' = [interest EXCEPT ![cur] = "none"]
    /\ ready' = ready \ {cur}
    /\ CallBack(IF cur \in Connectors THEN "OnConnectFail" ELSE "OnConnectionDrop",
                cur, m_nSessionID[cur])
    /\ app' = [app EXCEPT ![m_nSessionID[cur]] = NULL]
    /\ Deref(cur)
    /\ UNCHANGED <<m_queSessionID, m_Sessions, m_mapUDPSessions, m_bRunning,
                   m_nSessionID, heap, sock, tcp, rx, backlog, dgrams, m_Events, size, call>>

ReturnOnConnectionDrop ==
    /\ Returns("OnConnectionDrop")
    /\ DelSession(cur)
    /\ Discard({m_Sessions[m_nSessionID[cur]]} \cap Accepted)
    /\ ToDispatch
    /\ UNCHANGED <<backlog, dgrams, call, app>>

ReturnOnData ==
    /\ Returns("OnData")
    /\ IF cur \in Peers
       THEN /\ pc' = "PostReadFrom" /\ cur' = NULL /\ session_id' = 0 /\ size' = 0
            /\ UNCHANGED m_Events
       ELSE ToDispatch
    /\ UNCHANGED <<sessionVars, kernelVars, call, app>>

-----------------------------------------------------------------------------
(* PostReadFrom: one step for each recvfrom() of its loop. *)

(* EAGAIN or another error, or a datagram of length 0: the loop ends. *)
NothingReceived ==
    /\ pc = "PostReadFrom"
    /\ \/ /\ dgrams = <<>> \/ "recvfrom" \in Faults
          /\ UNCHANGED dgrams
       \/ /\ dgrams # <<>> /\ Head(dgrams)[2] = 0
          /\ dgrams' = Tail(dgrams)
    /\ ToDispatch
    /\ UNCHANGED <<sessionVars, tcp, rx, backlog, interest, ready, call, app>>

(* A datagram that is not empty is taken off the socket. *)
Received(p) ==
    /\ pc = "PostReadFrom" /\ dgrams # <<>>
    /\ Head(dgrams)[1] = p /\ Head(dgrams)[2] > 0
    /\ dgrams' = Tail(dgrams)
    /\ UNCHANGED <<tcp, rx, backlog, interest, ready>>

RecvFromKnown(p) ==
    /\ Received(p)
    /\ GetUDPSessionID(p) # 0
    /\ CallBack("OnData", p, GetUDPSessionID(p))
    /\ size' = Head(dgrams)[2]
    /\ UNCHANGED <<sessionVars, m_Events, call, app>>

(* No ID is left: the datagram is lost and the loop ends. *)
RecvFromWithoutID(p) ==
    /\ Received(p)
    /\ GetUDPSessionID(p) = 0 /\ NewSessionID = 0
    /\ ToDispatch
    /\ UNCHANGED <<sessionVars, call, app>>

(* Mutant: the peer is not looked up in m_mapUDPSessions. *)
RecvFromNew_NoLookup(p) ==
    /\ Received(p)
    /\ NewSessionID # 0
    /\ m_queSessionID' = PopSessionID
    /\ m_mapUDPSessions' = [m_mapUDPSessions EXCEPT ![p] = NewSessionID]
    /\ m_nSessionID' = [m_nSessionID EXCEPT ![p] = NewSessionID]
    /\ heap' = [heap EXCEPT ![p] = "live"]
    /\ AddSession(NewSessionID, p)
    /\ CallBack("OnAddConnection", p, NewSessionID)
    /\ size' = Head(dgrams)[2]
    /\ app' = [app EXCEPT ![NewSessionID] = p]
    /\ UNCHANGED <<sock, fault, m_Events, call>>

RecvFromNew(p) ==
    /\ Received(p)
    /\ GetUDPSessionID(p) = 0 /\ NewSessionID # 0
    /\ m_queSessionID' = PopSessionID
    /\ m_mapUDPSessions' = [m_mapUDPSessions EXCEPT ![p] = NewSessionID]
    /\ m_nSessionID' = [m_nSessionID EXCEPT ![p] = NewSessionID]
    /\ heap' = [heap EXCEPT ![p] = "live"]
    /\ AddSession(NewSessionID, p)
    /\ CallBack("OnAddConnection", p, NewSessionID)
    /\ size' = Head(dgrams)[2]
    /\ app' = [app EXCEPT ![NewSessionID] = p]
    /\ UNCHANGED <<sock, fault, m_Events, call>>

-----------------------------------------------------------------------------
(* The application. *)

(* The places the application may call m from now: one call at a time from *)
(* each, while another place may be in the middle of AddTCPConnector.      *)
CallsFrom(m) == {at \in {pc, "main"} \ {call.from} : <<at, m>> \in AppCalls}

(* Mutant: KickSession does not close the descriptor, nor does DelSession. *)
AppKicks_NoClose(id) ==
    /\ CallsFrom("KickSession") # {}
    /\ app[id] # NULL
    /\ Erase(id)
    /\ app' = [app EXCEPT ![id] = NULL]
    /\ UNCHANGED <<m_nSessionID, sock, fault, kernelVars, threadVars, call>>

(* The application kicks a session that it knows. *)
AppKicks(id) ==
    /\ CallsFrom("KickSession") # {}
    /\ app[id] # NULL
    /\ KickSession(id)
    /\ Discard({m_Sessions[id]})
    /\ app' = [app EXCEPT ![id] = NULL]
    /\ UNCHANGED <<backlog, dgrams, threadVars, call>>

AppStops ==
    /\ CallsFrom("Stop") # {}
    /\ m_bRunning
    /\ StopRunning
    /\ UNCHANGED <<kernelVars, threadVars, call, app>>

(* AddTCPConnector(k): NewSessionID looks at the front of the queue ... *)
AppConnects(k) ==
    /\ call = NoCall
    /\ tcp[k] = "fresh" /\ interest[k] = "none" /\ sock[k] = "open"
    /\ NewSessionID # 0
    /\ \E at \in CallsFrom("AddTCPConnector") :
          call' = [at |-> "pop", connector |-> k, id |-> NewSessionID, from |-> at]
    /\ UNCHANGED <<sessionVars, kernelVars, threadVars, app>>

(* ... and pops it; popping an empty std::queue is undefined. *)
CallPops ==
    /\ call.at = "pop"
    /\ m_queSessionID' = IF m_queSessionID = <<>> THEN <<>> ELSE PopSessionID
    /\ fault' = IF m_queSessionID = <<>> THEN "bad_pop" ELSE fault
    /\ m_nSessionID' = [m_nSessionID EXCEPT ![call.connector] = call.id]
    /\ call' = [at |-> "ctl", connector |-> call.connector, id |-> call.id, from |-> call.from]
    /\ UNCHANGED <<m_Sessions, m_mapUDPSessions, m_bRunning, heap, sock,
                   kernelVars, threadVars, app>>

CallAddsToEpoll ==
    /\ call.at = "ctl"
    /\ Watch(call.connector, "out")
    /\ call' = [at |-> "connect", connector |-> call.connector, id |-> call.id, from |-> call.from]
    /\ UNCHANGED <<sessionVars, tcp, rx, backlog, dgrams, threadVars, app>>

(* The call gives the ID back and returns false. *)
CallFails ==
    /\ m_queSessionID' = FreeSessionID(m_queSessionID, call.id)
    /\ call' = NoCall
    /\ UNCHANGED <<m_Sessions, m_mapUDPSessions, m_bRunning, m_nSessionID, heap,
                   sock, fault, kernelVars, threadVars, app>>

CallAddFails == call.at = "ctl" /\ "EPOLL_CTL_ADD" \in Faults /\ CallFails

CallConnects ==
    /\ call.at = "connect" /\ sock[call.connector] = "open"
    /\ tcp' = [tcp EXCEPT ![call.connector] = "syn"]
    /\ call' = NoCall
    /\ UNCHANGED <<sessionVars, rx, backlog, dgrams, interest, ready, threadVars, app>>

(* connect() fails at once: the descriptor stays watched. *)
CallConnectFails ==
    /\ call.at = "connect"
    /\ sock[call.connector] # "open" \/ "connect" \in Faults
    /\ CallFails

-----------------------------------------------------------------------------
ThreadProc ==
    \/ ReturnOnUpdate \/ EpollWait \/ EndOfBatch
    \/ \E e \in Event : DispatchListener(e)
    \/ \E s \in TcpSession : DispatchRead(s)
    \/ \E k \in Connectors : DispatchConnect(k)
    \/ ReturnOnConnected \/ ModFails \/ ReturnOnConnectFail
    \/ NothingToAccept \/ AcceptWithoutID \/ Accept \/ AcceptAddFails
    \/ ReturnOnAddConnection
    \/ ReadSome \/ ReadEnds \/ ReadFails \/ ReturnOnConnectionDrop \/ ReturnOnData
    \/ NothingReceived
    \/ \E p \in Peers : RecvFromKnown(p) \/ RecvFromWithoutID(p) \/ RecvFromNew(p)

AddTCPConnector ==
    CallPops \/ CallAddsToEpoll \/ CallAddFails \/ CallConnects \/ CallConnectFails

Application ==
    \/ \E id \in SessionID : AppKicks(id)
    \/ AppStops
    \/ \E k \in Connectors : AppConnects(k)

Network ==
    \/ \E c \in Accepted : ClientConnect(c)
    \/ \E k \in Connectors : ServerAnswers(k)
    \/ \E s \in TcpSession : PeerSends(s) \/ PeerCloses(s) \/ PeerResets(s)
    \/ \E p \in Peers, len \in {0, 1} : DatagramArrives(p, len)

Next == ThreadProc \/ AddTCPConnector \/ Application \/ Network

Spec == Init /\ [][Next]_vars

(* The thread and a call in progress go on; nobody else has to. *)
FairSpec == Spec /\ WF_vars(ThreadProc) /\ WF_vars(AddTCPConnector)

-----------------------------------------------------------------------------
(* Safety. *)

(***************************************************************************)
(* No handler and no call dereferences a deleted session, closes a         *)
(* descriptor that is not its own, or pops an empty ID queue: the epoll    *)
(* contexts, KickSession, OnSessionDrop and PostConnect's failure path     *)
(* never meet a session object that somebody else has finished with.       *)
(***************************************************************************)
NoFault == fault = "none"

(* The sessions that have taken an ID off the queue and not given it back.  *)
(* A connector's session never gives it back, except in a failed call.      *)
HoldsID(s) ==
    \/ s \in NewedSession /\ heap[s] = "live"
    \/ s \in Connectors /\ (tcp[s] # "fresh"
                            \/ (call.connector = s /\ call.at # "pop"))

(***************************************************************************)
(* NewSessionID and FreeSessionID conserve the IDs: each one is in the     *)
(* queue once, or held by exactly one session, and never both, whichever   *)
(* way PostAccept, PostReadFrom, AddTCPConnector, KickSession and          *)
(* OnSessionDrop interleave and fail.                                      *)
(***************************************************************************)
IdsConserved ==
    /\ \A i, j \in DOMAIN m_queSessionID :
          m_queSessionID[i] = m_queSessionID[j] => i = j
    /\ \A id \in SessionID :
          LET held == {s \in Session : HoldsID(s) /\ m_nSessionID[s] = id}
          IN  IF \E i \in DOMAIN m_queSessionID : m_queSessionID[i] = id
              THEN held = {}
              ELSE \E s \in Session : held = {s}

(* The session that is open under an ID: in the table, and in contact with  *)
(* its peer.                                                                *)
OpenSession(id) ==
    LET s == m_Sessions[id] IN
    IF s \in Peers \/ (s \in TcpSession /\ interest[s] # "none") THEN s ELSE NULL

(***************************************************************************)
(* What the callbacks have told the application is what the table holds:   *)
(* the session it knows under an ID, and no other, is in that ID's slot,   *)
(* holds that ID and can still be reached by epoll or recvfrom.            *)
(***************************************************************************)
ApplicationViewExact ==
    \A id \in SessionID :
        /\ app[id] = OpenSession(id)
        /\ app[id] # NULL => m_nSessionID[app[id]] = id /\ heap[app[id]] = "live"

(***************************************************************************)
(* Nothing leaks and nothing dangles: the sessions the service allocated   *)
(* and has not deleted are those the table holds, with their descriptors   *)
(* open; while a drop is being reported the session is still there.        *)
(***************************************************************************)
TableOwnsSessions ==
    /\ \A s \in NewedSession :
          heap[s] = "live" <=> \E id \in SessionID : m_Sessions[id] = s
    /\ \A c \in Accepted : sock[c] = "open" <=> heap[c] = "live"

(***************************************************************************)
(* m_mapUDPSessions leads to the live session of each peer and to nothing  *)
(* else: a kicked peer's next datagram opens a new session.                *)
(***************************************************************************)
UdpMapExact ==
    \A p \in Peers :
        /\ m_mapUDPSessions[p] # 0 <=> heap[p] = "live"
        /\ heap[p] = "live" => m_mapUDPSessions[p] = m_nSessionID[p]

(***************************************************************************)
(* Every pointer the kernel holds, registered with epoll_ctl or returned   *)
(* in the batch that is being dispatched, leads to a session that lives.   *)
(***************************************************************************)
EpollPointersLive ==
    \A s \in TcpSession :
        \/ interest[s] # "none"
        \/ \E op \in {"IO_CONNECT", "IO_READ"} : <<s, op>> \in m_Events
        => heap[s] = "live"

-----------------------------------------------------------------------------
(* Refinement. *)

Protocol == INSTANCE SessionProtocol WITH
    ID <- SessionID, Connection <- Session, Connector <- Connectors, None <- NULL,
    session <- [id \in SessionID |-> OpenSession(id)],
    callback <- IF pc \in Callbacks \ {"OnUpdate"} THEN <<pc, session_id, cur>> ELSE NULL

(***************************************************************************)
(* The service keeps the promises of its callback interface: IDs of open   *)
(* sessions are not given out again, OnData reports a session under the    *)
(* ID it was announced with, and each end is reported once.                *)
(***************************************************************************)
ImplementsProtocol == Protocol!Spec

-----------------------------------------------------------------------------
(* Liveness, under FairSpec. *)

Stopped == pc = "stopped"

(***************************************************************************)
(* Edge-triggered epoll loses no data: what arrives for a session that     *)
(* epoll watches for input is read, or the session ends.                   *)
(***************************************************************************)
DataIsRead ==
    \A s \in TcpSession :
        rx[s] > 0 /\ interest[s] = "in" ~> rx[s] = 0 \/ interest[s] # "in" \/ Stopped

(***************************************************************************)
(* A connection that the peer resets is dropped: its session is taken out  *)
(* of epoll and reported, or it was kicked.                                *)
(***************************************************************************)
ResetIsDropped ==
    \A s \in TcpSession :
        tcp[s] = "reset" /\ interest[s] = "in" ~> interest[s] = "none" \/ Stopped

(***************************************************************************)
(* PostAccept drains the backlog, as long as accept() and EPOLL_CTL_ADD do *)
(* not fail and IDs last: connections that arrived together, or during a   *)
(* callback, share one edge, and one that its loop leaves behind would     *)
(* wait for somebody else's.                                               *)
(***************************************************************************)
BacklogIsDrained == backlog # <<>> ~> backlog = <<>> \/ Stopped

(***************************************************************************)
(* AddTCPConnector's connection is answered by a callback: its session     *)
(* comes to be watched for input, is dropped, or was refused an ID.        *)
(***************************************************************************)
ConnectorIsAnswered ==
    \A k \in Connectors :
        tcp[k] \in {"est", "refused"} /\ interest[k] = "out"
            ~> interest[k] # "out" \/ Stopped

(***************************************************************************)
(* Stop() ends ThreadProc: if m_bRunning stays cleared, the thread comes   *)
(* back to the head of its loop, whatever it is doing, and leaves it.      *)
(***************************************************************************)
StopEndsThread == <>[]~m_bRunning => <>Stopped

-----------------------------------------------------------------------------
(* What the interface, the comments and the tests expect, and the code does *)
(* not do: each is refuted by a run of its own.                             *)

(***************************************************************************)
(* OnConnected reports a connection that was established: OnConnectFail is *)
(* there for the others. PostConnect never looks at SO_ERROR.              *)
(***************************************************************************)
OnConnectedIsConnected ==
    pc = "OnConnected" => tcp[cur] \in {"est", "fin", "reset", "closed"}

(***************************************************************************)
(* A session whose peer closed the connection is dropped. PostRead takes   *)
(* the 0 that read() returns at end of file for the end of the data.       *)
(***************************************************************************)
PeerCloseIsDropped ==
    \A s \in TcpSession :
        tcp[s] = "fin" /\ interest[s] = "in" ~> interest[s] # "in" \/ Stopped

(***************************************************************************)
(* The service runs until Stop() is called. The last ID that InitSession   *)
(* puts in the queue is an index past the end of m_Sessions.               *)
(***************************************************************************)
RunsUntilStop == m_bRunning

(***************************************************************************)
(* Sessions have IDs of their own. NewSessionID takes no lock, and is      *)
(* called by PostAccept on one thread and AddTCPConnector on another.      *)
(***************************************************************************)
IdsDistinct ==
    \A s, t \in Session :
        HoldsID(s) /\ HoldsID(t) /\ m_nSessionID[s] = m_nSessionID[t] => s = t

=============================================================================
