---------------------------- MODULE NetServiceIocp ----------------------------
(***************************************************************************)
(* The completion port back end of NetService                              *)
(* (src/engine/net/net_service_iocp.cpp) with the kernel it runs on and    *)
(* the application that uses it: one TCP listener, one UDP listener, and   *)
(* the connectors of the application.                                      *)
(*                                                                         *)
(* ThreadProc takes one completion packet at a time; pc says whether it    *)
(* waits for one or which callback it is in, and what a handler does up to *)
(* its callback, and after it, is one step each. Clients, servers and      *)
(* peers act at any time. The application calls the service from OnUpdate, *)
(* and Stop from the main thread: what other threads do to the ID queue is *)
(* NetServiceEpoll's subject, and the same here.                           *)
(***************************************************************************)
EXTENDS NetSession, FiniteSets

CONSTANTS
    Kickable,     \* the sessions that the application kicks
    Stops,        \* whether the application calls Stop()
    Posted,       \* how many AcceptEx AddTCPListener posts (11 in the code)
    Threads,      \* how many threads Start() makes (2 in the code)
    MaxRx,        \* bound: unread units of data of one connection
    MaxFailures   \* bound: system calls that fail without the peer's doing

Callbacks == {"OnAddConnection", "OnConnected", "OnConnectFail", "OnConnectionDrop",
              "OnData"}

ASSUME IocpAssumption ==
    /\ Kickable \subseteq Session /\ Stops \in BOOLEAN
    /\ Posted \in Nat \ {0} /\ Threads \in Nat
    /\ MaxRx \in Nat /\ MaxFailures \in Nat

(* A callback in progress is not NULL. *)
ASSUME CallbackAssumption ==
    \A name \in Callbacks, id \in 0..MAX_SOCK_EVENT, s \in Session \cup {NULL} :
        <<name, id, s>> # NULL

VARIABLES
    tcp,            \* kernel: the state of each TCP connection
    rx,             \* kernel: data received and not read
    backlog,        \* kernel: connections that wait for an AcceptEx
    recv,           \* kernel: the sessions whose WSARecv is pending
    recvfrom,       \* kernel: whether the UDP listener's WSARecvFrom is pending
    accepts,        \* kernel: the contexts of the pending AcceptEx, oldest first
    port,           \* kernel: the packets queued at m_ServiceHandle
    failures,       \* bound: how many system calls failed
    m_queIOContext, \* TCPListener: the contexts that are free
    contexts,       \* how many contexts NewIOContext has made
    pc,             \* where ThreadProc is
    cur,            \* the session its handler works on
    session_id,     \* the ID its callback reports
    pContext,       \* the accept context its handler works on, or 0
    stopping,       \* whether the main thread has called Stop()
    app             \* external: the session the application knows under each ID

kernelVars == <<tcp, rx, backlog, recv, recvfrom, failures>>
acceptVars == <<accepts, m_queIOContext, contexts>>
threadVars == <<pc, cur, session_id, pContext, stopping>>
vars == <<sessionVars, kernelVars, acceptVars, port, threadVars, app>>

TcpState == {"none", "fresh", "syn", "est", "fin", "reset", "refused", "closed"}

(* A packet: the operation, the session or peer it is about, the context   *)
(* of an AcceptEx, whether it succeeded, and dwIoSize.                     *)
Packet ==
    [op : {"IO_ACCEPT", "IO_READ", "IO_READFROM", "IO_CONNECT", "NULL"},
     on : Session \cup {NULL}, context : Nat, ok : BOOLEAN, size : Nat]

Done(op, s, ok, size) ==
    [op |-> op, on |-> s, context |-> 0, ok |-> ok, size |-> size]

TypeOK ==
    /\ SessionTypeOK
    /\ tcp \in [TcpSession -> TcpState]
    /\ rx \in [TcpSession -> 0..MaxRx]
    /\ backlog \in Seq(Accepted)
    /\ recv \subseteq TcpSession /\ recvfrom \in BOOLEAN
    /\ accepts \in Seq(1..contexts) /\ m_queIOContext \in Seq(1..contexts)
    /\ contexts \in Nat /\ pContext \in 0..contexts
    /\ port \in Seq(Packet)
    /\ failures \in 0..MaxFailures
    /\ pc \in Callbacks \cup {"OnUpdate", "wait", "PostAccept", "stopped"}
    /\ cur \in Session \cup {NULL}
    /\ session_id \in 0..MAX_SOCK_EVENT
    /\ stopping \in BOOLEAN
    /\ app \in [SessionID -> Session \cup {NULL}]

(* The listeners have been added, the UDP one if there are peers: their    *)
(* first operations are pending.                                           *)
Init ==
    /\ InitSession
    /\ tcp = [s \in TcpSession |-> IF s \in Connectors THEN "fresh" ELSE "none"]
    /\ rx = [s \in TcpSession |-> 0]
    /\ backlog = <<>>
    /\ recv = {} /\ recvfrom = (Peers # {})
    /\ accepts = [i \in 1..Posted |-> i]
    /\ m_queIOContext = <<>>
    /\ contexts = Posted
    /\ port = <<>>
    /\ failures = 0
    /\ pc = "OnUpdate" /\ cur = NULL /\ session_id = 0 /\ pContext = 0
    /\ stopping = FALSE
    /\ app = [id \in SessionID |-> NULL]

-----------------------------------------------------------------------------
(* The kernel and the network. *)

Packets == {port[i] : i \in DOMAIN port}

(* close() on the descriptors of S: what is pending on them is aborted. *)
Discard(S) ==
    /\ tcp' = [s \in TcpSession |-> IF s \in S THEN "closed" ELSE tcp[s]]
    /\ rx' = [s \in TcpSession |-> IF s \in S THEN 0 ELSE rx[s]]
    /\ recv' = recv \ S

(* The packets of what Discard(S) aborts (S has one session at most). *)
Aborted(S) ==
    IF S \cap recv = {} THEN <<>>
    ELSE <<Done("IO_READ", CHOOSE s \in S \cap recv : TRUE, FALSE, 0)>>

(* A client connects: with c for the first time, or once the connection c  *)
(* that it had is closed and the service works on it no more.              *)
ClientConnect(c) ==
    /\ tcp[c] \in {"none", "closed"}
    /\ heap[c] # "live" /\ cur # c /\ \A p \in Packets : p.on # c
    /\ tcp' = [tcp EXCEPT ![c] = "est"]
    /\ backlog' = Append(backlog, c)
    /\ UNCHANGED <<sessionVars, rx, recv, recvfrom, failures, acceptVars, port,
                   threadVars, app>>

PeerSends(s) ==
    /\ tcp[s] = "est" /\ rx[s] < MaxRx
    /\ rx' = [rx EXCEPT ![s] = @ + 1]
    /\ UNCHANGED <<sessionVars, tcp, backlog, recv, recvfrom, failures, acceptVars,
                   port, threadVars, app>>

PeerCloses(s) ==
    /\ tcp[s] = "est"
    /\ tcp' = [tcp EXCEPT ![s] = "fin"]
    /\ UNCHANGED <<sessionVars, rx, backlog, recv, recvfrom, failures, acceptVars,
                   port, threadVars, app>>

(* A reset takes what was not read with it. *)
PeerResets(s) ==
    /\ tcp[s] \in {"est", "fin"}
    /\ tcp' = [tcp EXCEPT ![s] = "reset"]
    /\ rx' = [rx EXCEPT ![s] = 0]
    /\ UNCHANGED <<sessionVars, backlog, recv, recvfrom, failures, acceptVars,
                   port, threadVars, app>>

(* A system call fails that could as well have succeeded. *)
Fails == failures < MaxFailures /\ failures' = failures + 1

(* A ConnectEx completes: the connection stands, or is refused. *)
ConnectCompletes(k) ==
    /\ tcp[k] = "syn"
    /\ \E st \in {"est", "refused"} :
          /\ tcp' = [tcp EXCEPT ![k] = st]
          /\ port' = Append(port, Done("IO_CONNECT", k, st = "est", 0))
    /\ UNCHANGED <<sessionVars, rx, backlog, recv, recvfrom, failures, acceptVars,
                   threadVars, app>>

(* The oldest AcceptEx completes with the oldest connection, or fails, as  *)
(* when the client has reset that.                                         *)
AcceptCompletes ==
    /\ backlog # <<>> /\ accepts # <<>>
    /\ LET c == Head(backlog) IN
       \E ok \in BOOLEAN :
          /\ IF ok THEN UNCHANGED <<tcp, rx, recv, failures>>
             ELSE Discard({c}) /\ Fails
          /\ port' = Append(port, [Done("IO_ACCEPT", c, ok, 0)
                                       EXCEPT !.context = Head(accepts)])
    /\ backlog' = Tail(backlog) /\ accepts' = Tail(accepts)
    /\ UNCHANGED <<sessionVars, recvfrom, m_queIOContext, contexts, threadVars,
                   app>>

(* A WSARecv completes: with what there is, with 0 at the end of the data, *)
(* or with an error when the connection was reset.                         *)
RecvCompletes(s) ==
    /\ s \in recv
    /\ rx[s] > 0 \/ tcp[s] \in {"fin", "reset"}
    /\ port' = Append(port, Done("IO_READ", s, tcp[s] # "reset", rx[s]))
    /\ rx' = [rx EXCEPT ![s] = 0]
    /\ recv' = recv \ {s}
    /\ UNCHANGED <<sessionVars, tcp, backlog, recvfrom, failures, acceptVars,
                   threadVars, app>>

(* A WSARecvFrom completes: with a datagram, which may be empty and may    *)
(* have waited for it, or with an error.                                   *)
RecvFromCompletes ==
    /\ recvfrom /\ recvfrom' = FALSE
    /\ \/ \E p \in Peers, length \in {0, 1} :
             /\ port' = Append(port, Done("IO_READFROM", p, TRUE, length))
             /\ UNCHANGED failures
       \/ Fails /\ port' = Append(port, Done("IO_READFROM", NULL, FALSE, 0))
    /\ UNCHANGED <<sessionVars, tcp, rx, backlog, recv, acceptVars, threadVars, app>>

-----------------------------------------------------------------------------
(* What the handlers post again. *)

(* PostRead(s): the WSARecv is pending, or fails at once. *)
PostRead(s, pending) ==
    /\ pending => sock[s] = "open"
    /\ IF pending \/ tcp[s] = "reset" \/ sock[s] # "open" THEN UNCHANGED failures ELSE Fails
    /\ recv' = IF pending THEN recv \cup {s} ELSE recv

PostReadFrom ==
    \/ recvfrom' = TRUE /\ UNCHANGED failures
    \/ Fails /\ UNCHANGED recvfrom

-----------------------------------------------------------------------------
(* ThreadProc. *)

CallBack(name, s, id) == pc' = name /\ cur' = s /\ session_id' = id /\ UNCHANGED stopping

(* ThreadProc comes to the head of its loop: while (m_bRunning). *)
LoopHead_Forever == "OnUpdate"
LoopHead == IF m_bRunning THEN "OnUpdate" ELSE "stopped"

(* The handler returns to ThreadProc's loop. *)
ToLoop ==
    /\ pc' = LoopHead /\ cur' = NULL /\ session_id' = 0 /\ pContext' = 0
    /\ UNCHANGED stopping

ReturnOnUpdate ==
    /\ pc = "OnUpdate"
    /\ pc' = "wait"
    /\ UNCHANGED <<sessionVars, kernelVars, acceptVars, port, cur, session_id, pContext,
                   stopping, app>>

(* GetQueuedCompletionStatus answers after 1 ms without a packet. *)
TimesOut ==
    /\ pc = "wait" /\ port = <<>>
    /\ ToLoop
    /\ UNCHANGED <<sessionVars, kernelVars, acceptVars, port, app>>

(* The oldest packet is p. *)
Gets(p) ==
    /\ pc = "wait" /\ port # <<>> /\ p = Head(port)
    /\ port' = Tail(port)

(* A packet of Stop() has no key: the last error decides whether the loop  *)
(* ends, and that is of some earlier call.                                 *)
GetsNull ==
    /\ Gets(Done("NULL", NULL, TRUE, 0))
    /\ pc' \in {"stopped", LoopHead}
    /\ UNCHANGED <<sessionVars, kernelVars, acceptVars, cur, session_id, pContext, stopping,
                   app>>

(* What failed is printed, and left at that: neither dropped nor posted. *)
GetsFailure ==
    /\ \E p \in Packets : ~p.ok /\ Gets(p)
    /\ ToLoop
    /\ UNCHANGED <<sessionVars, kernelVars, acceptVars, app>>

(* An operation succeeded. *)
Succeeds(op, s, size) ==
    \E p \in Packets : p.op = op /\ p.on = s /\ p.ok /\ p.size = size /\ Gets(p)

-----------------------------------------------------------------------------
(* IO_ACCEPT: DoAccpet, then PostAccept and DelIOContext. *)

Accepts(c, context) ==
    /\ \E p \in Packets :
          p.op = "IO_ACCEPT" /\ p.on = c /\ p.ok /\ p.context = context /\ Gets(p)
    /\ pContext' = context

(* DoAccpet returns. *)
ToPostAccept ==
    pc' = "PostAccept" /\ cur' = NULL /\ session_id' = 0 /\ UNCHANGED stopping

(* No ID is left: the connection is destroyed. *)
AcceptWithoutID(c, context) ==
    /\ Accepts(c, context) /\ NewSessionID = 0
    /\ sock' = [sock EXCEPT ![c] = "closed"]
    /\ Discard({c})
    /\ ToPostAccept
    /\ UNCHANGED <<m_queSessionID, m_Sessions, m_mapUDPSessions, m_bRunning, m_nSessionID,
                   heap, fault, backlog, recvfrom, failures, acceptVars, app>>

(* CreateIoCompletionPort fails: everything is given back. *)
AcceptPortFails_KeepsID(c, context) ==
    /\ Accepts(c, context) /\ NewSessionID # 0
    /\ Fails
    /\ m_queSessionID' = PopSessionID
    /\ m_nSessionID' = [m_nSessionID EXCEPT ![c] = NewSessionID]
    /\ heap' = [heap EXCEPT ![c] = "freed"]
    /\ sock' = [sock EXCEPT ![c] = "closed"]
    /\ Discard({c})
    /\ ToPostAccept
    /\ UNCHANGED <<m_Sessions, m_mapUDPSessions, m_bRunning, fault, backlog, 
                   recvfrom, acceptVars, app>>

AcceptPortFails(c, context) ==
    /\ Accepts(c, context) /\ NewSessionID # 0
    /\ Fails
    /\ m_queSessionID' = FreeSessionID(PopSessionID, NewSessionID)
    /\ m_nSessionID' = [m_nSessionID EXCEPT ![c] = NewSessionID]
    /\ heap' = [heap EXCEPT ![c] = "freed"]
    /\ sock' = [sock EXCEPT ![c] = "closed"]
    /\ Discard({c})
    /\ ToPostAccept
    /\ UNCHANGED <<m_Sessions, m_mapUDPSessions, m_bRunning, fault, backlog, 
                   recvfrom, acceptVars, app>>

Accept(c, context) ==
    /\ Accepts(c, context) /\ NewSessionID # 0
    /\ m_queSessionID' = PopSessionID
    /\ m_nSessionID' = [m_nSessionID EXCEPT ![c] = NewSessionID]
    /\ heap' = [heap EXCEPT ![c] = "live"]
    /\ sock' = [sock EXCEPT ![c] = "open"]
    /\ AddSession(NewSessionID, c)
    /\ CallBack("OnAddConnection", c, NewSessionID)
    /\ app' = [app EXCEPT ![NewSessionID] = c]
    /\ UNCHANGED <<m_mapUDPSessions, fault, kernelVars, acceptVars>>

(* What a step leaves that reads from the session it works on. *)
Reads ==
    /\ Deref(cur)
    /\ \E pending \in BOOLEAN : PostRead(cur, pending)
    /\ UNCHANGED <<m_queSessionID, m_Sessions, m_mapUDPSessions, m_bRunning, m_nSessionID,
                   heap, sock, tcp, rx, backlog, recvfrom, acceptVars, port, app>>

(* Whether PostRead failed is not looked at. *)
AcceptReturns_NotPosted ==
    /\ pc = "OnAddConnection" /\ cur \in Accepted
    /\ Reads
    /\ ToLoop

AcceptReturns ==
    /\ pc = "OnAddConnection" /\ cur \in Accepted
    /\ Reads
    /\ ToPostAccept /\ UNCHANGED pContext

(* NewIOContext: a context that is free, or a new one. *)
NewIOContext ==
    IF m_queIOContext = <<>> THEN contexts + 1 ELSE Head(m_queIOContext)

(* What it leaves. *)
NewedIOContext ==
    IF m_queIOContext = <<>> THEN <<>> ELSE Tail(m_queIOContext)

(* Mutant: the context is not kept for the next accept. *)
DelIOContext_Lost(free, context) == free

DelIOContext(free, context) == Append(free, context)

PostAccept_NotPopped ==
    /\ pc = "PostAccept"
    /\ accepts' = Append(accepts, NewIOContext)
    /\ m_queIOContext' = DelIOContext(m_queIOContext, pContext)
    /\ contexts' = IF m_queIOContext = <<>> THEN contexts + 1 ELSE contexts
    /\ ToLoop
    /\ UNCHANGED <<sessionVars, kernelVars, port, app>>

(***************************************************************************)
(* PostAccept(listener), then DelIOContext(pContext): a context is taken   *)
(* before the old one is free. Without a socket none is taken; when        *)
(* AcceptEx fails the one taken is lost.                                   *)
(***************************************************************************)
PostAccept ==
    /\ pc = "PostAccept"
    /\ \/ accepts' = Append(accepts, NewIOContext) /\ UNCHANGED failures
       \/ Fails /\ UNCHANGED accepts
    /\ \/ /\ m_queIOContext' = DelIOContext(NewedIOContext, pContext)
          /\ contexts' = IF m_queIOContext = <<>> THEN contexts + 1 ELSE contexts
       \/ /\ failures' # failures
          /\ m_queIOContext' = DelIOContext(m_queIOContext, pContext)
          /\ UNCHANGED contexts
    /\ ToLoop
    /\ UNCHANGED <<sessionVars, tcp, rx, backlog, recv, recvfrom, port, app>>

-----------------------------------------------------------------------------
(* IO_READ: DoRead. *)

(* The context and the data are part of the session. *)
DoRead(s, size) ==
    /\ Succeeds("IO_READ", s, size)
    /\ Deref(s)
    /\ IF size > 0 THEN CallBack("OnData", s, m_nSessionID[s]) /\ UNCHANGED app
       ELSE /\ CallBack(IF s \in Connectors THEN "OnConnectFail" ELSE "OnConnectionDrop",
                        s, m_nSessionID[s])
            /\ app' = [app EXCEPT ![m_nSessionID[s]] = NULL]
    /\ UNCHANGED <<m_queSessionID, m_Sessions, m_mapUDPSessions, m_bRunning, m_nSessionID,
                   heap, sock, acceptVars, pContext>>

DispatchRead_PostsFirst(s, size) ==
    /\ DoRead(s, size)
    /\ recv' = recv \cup {s}
    /\ UNCHANGED <<tcp, rx, backlog, recvfrom, failures>>

DispatchRead(s, size) == DoRead(s, size) /\ UNCHANGED kernelVars

ReadReturns_NotPosted ==
    /\ pc = "OnData" /\ cur \in TcpSession
    /\ ToLoop
    /\ UNCHANGED <<sessionVars, kernelVars, acceptVars, port, app>>

ReadReturns ==
    /\ pc = "OnData" /\ cur \in TcpSession
    /\ Reads
    /\ ToLoop

(* OnSessionDrop of an accepted session ends with DelSession ... *)
DropReturns ==
    /\ pc = "OnConnectionDrop"
    /\ DelSession(cur)
    /\ Discard({m_Sessions[m_nSessionID[cur]]} \cap Accepted)
    /\ port' = port \o Aborted({m_Sessions[m_nSessionID[cur]]} \cap Accepted)
    /\ ToLoop
    /\ UNCHANGED <<backlog, recvfrom, failures, acceptVars, app>>

(* ... and that of a connector's deletes nothing. *)
FailReturns ==
    /\ pc = "OnConnectFail"
    /\ ToLoop
    /\ UNCHANGED <<sessionVars, kernelVars, acceptVars, port, app>>

-----------------------------------------------------------------------------
(* IO_READFROM: DoReadFrom, then PostReadFrom. *)

ReceivesNothing(p) ==
    /\ Succeeds("IO_READFROM", p, 0)
    /\ PostReadFrom
    /\ ToLoop
    /\ UNCHANGED <<sessionVars, tcp, rx, backlog, recv, acceptVars, app>>

ReceivesFromKnown_Announced(p) ==
    /\ Succeeds("IO_READFROM", p, 1) /\ GetUDPSessionID(p) # 0
    /\ CallBack("OnAddConnection", p, GetUDPSessionID(p))
    /\ UNCHANGED <<sessionVars, kernelVars, acceptVars, pContext, app>>

ReceivesFromKnown(p) ==
    /\ Succeeds("IO_READFROM", p, 1) /\ GetUDPSessionID(p) # 0
    /\ CallBack("OnData", p, GetUDPSessionID(p))
    /\ UNCHANGED <<sessionVars, kernelVars, acceptVars, pContext, app>>

(* No ID is left: the datagram is lost. *)
ReceivesWithoutID(p) ==
    /\ Succeeds("IO_READFROM", p, 1) /\ GetUDPSessionID(p) = 0 /\ NewSessionID = 0
    /\ PostReadFrom
    /\ ToLoop
    /\ UNCHANGED <<sessionVars, tcp, rx, backlog, recv, acceptVars, app>>

ReceivesFromNew_NotMapped(p) ==
    /\ Succeeds("IO_READFROM", p, 1) /\ GetUDPSessionID(p) = 0 /\ NewSessionID # 0
    /\ m_queSessionID' = PopSessionID
    /\ m_nSessionID' = [m_nSessionID EXCEPT ![p] = NewSessionID]
    /\ heap' = [heap EXCEPT ![p] = "live"]
    /\ AddSession(NewSessionID, p)
    /\ CallBack("OnAddConnection", p, NewSessionID)
    /\ app' = [app EXCEPT ![NewSessionID] = p]
    /\ UNCHANGED <<m_mapUDPSessions, sock, fault, kernelVars, acceptVars, pContext>>

ReceivesFromNew(p) ==
    /\ Succeeds("IO_READFROM", p, 1) /\ GetUDPSessionID(p) = 0 /\ NewSessionID # 0
    /\ m_queSessionID' = PopSessionID
    /\ m_mapUDPSessions' = [m_mapUDPSessions EXCEPT ![p] = NewSessionID]
    /\ m_nSessionID' = [m_nSessionID EXCEPT ![p] = NewSessionID]
    /\ heap' = [heap EXCEPT ![p] = "live"]
    /\ AddSession(NewSessionID, p)
    /\ CallBack("OnAddConnection", p, NewSessionID)
    /\ app' = [app EXCEPT ![NewSessionID] = p]
    /\ UNCHANGED <<sock, fault, kernelVars, acceptVars, pContext>>

(* The new peer's datagram is reported next. *)
PeerAdded ==
    /\ pc = "OnAddConnection" /\ cur \in Peers
    /\ pc' = "OnData"
    /\ UNCHANGED <<sessionVars, kernelVars, acceptVars, port, cur, session_id, pContext,
                   stopping, app>>

DatagramReturns ==
    /\ pc = "OnData" /\ cur \in Peers
    /\ PostReadFrom
    /\ ToLoop
    /\ UNCHANGED <<sessionVars, tcp, rx, backlog, recv, acceptVars, port, app>>

-----------------------------------------------------------------------------
(* IO_CONNECT: DoConnect. *)

DispatchConnect(k) ==
    /\ Succeeds("IO_CONNECT", k, 0)
    /\ AddSession(m_nSessionID[k], k)
    /\ CallBack("OnConnected", k, m_nSessionID[k])
    /\ app' = [app EXCEPT ![m_nSessionID[k]] = k]
    /\ UNCHANGED <<m_queSessionID, m_mapUDPSessions, m_nSessionID, heap, sock, fault,
                   kernelVars, acceptVars, pContext>>

ConnectReturns ==
    /\ pc = "OnConnected"
    /\ PostRead(cur, TRUE)
    /\ ToLoop
    /\ UNCHANGED <<sessionVars, tcp, rx, backlog, recvfrom, acceptVars, port, app>>

(* PostRead fails: CloseSocket(), then OnSessionDrop(). *)
ConnectReadFails ==
    /\ pc = "OnConnected"
    /\ IF tcp[cur] = "reset" THEN UNCHANGED failures ELSE Fails
    /\ sock' = [sock EXCEPT ![cur] = "dangling"]
    /\ fault' = IF sock[cur] = "open" THEN fault ELSE "bad_close"
    /\ Discard({cur})
    /\ CallBack("OnConnectFail", cur, m_nSessionID[cur])
    /\ app' = [app EXCEPT ![m_nSessionID[cur]] = NULL]
    /\ UNCHANGED <<m_queSessionID, m_Sessions, m_mapUDPSessions, m_bRunning, m_nSessionID,
                   heap, backlog, recvfrom, acceptVars, port, pContext>>

-----------------------------------------------------------------------------
(* The application. *)

(* AddTCPConnector(k) from OnUpdate: ConnectEx is pending, or fails at once *)
(* and the ID is given back.                                               *)
AppConnects(k) ==
    /\ pc = "OnUpdate" /\ tcp[k] = "fresh" /\ NewSessionID # 0
    /\ m_nSessionID' = [m_nSessionID EXCEPT ![k] = NewSessionID]
    /\ \/ /\ tcp' = [tcp EXCEPT ![k] = "syn"]
          /\ m_queSessionID' = PopSessionID
          /\ UNCHANGED failures
       \/ /\ Fails
          /\ m_queSessionID' = FreeSessionID(PopSessionID, NewSessionID)
          /\ UNCHANGED tcp
    /\ UNCHANGED <<m_Sessions, m_mapUDPSessions, m_bRunning, heap, sock, fault, rx, backlog,
                   recv, recvfrom, acceptVars, port, threadVars, app>>

(* The application kicks a session that it knows, from OnUpdate. *)
AppKicks(id) ==
    /\ pc = "OnUpdate" /\ app[id] \in Kickable
    /\ KickSession(id)
    /\ Discard({m_Sessions[id]} \cap TcpSession)
    /\ port' = port \o Aborted({m_Sessions[id]} \cap TcpSession)
    /\ app' = [app EXCEPT ![id] = NULL]
    /\ UNCHANGED <<backlog, recvfrom, failures, acceptVars, threadVars>>

(* Stop(), from the main thread: a packet for each thread. *)
AppStops ==
    /\ Stops /\ ~stopping /\ stopping' = TRUE
    /\ StopRunning
    /\ port' = port \o [i \in 1..Threads |-> Done("NULL", NULL, TRUE, 0)]
    /\ UNCHANGED <<kernelVars, acceptVars, pc, cur, session_id, pContext, app>>

-----------------------------------------------------------------------------
ThreadProc ==
    \/ ReturnOnUpdate \/ TimesOut \/ GetsNull \/ GetsFailure
    \/ \E c \in Accepted, x \in 1..contexts :
          AcceptWithoutID(c, x) \/ AcceptPortFails(c, x) \/ Accept(c, x)
    \/ AcceptReturns \/ PostAccept
    \/ \E s \in TcpSession, n \in 0..MaxRx : DispatchRead(s, n)
    \/ ReadReturns \/ DropReturns \/ FailReturns
    \/ \E p \in Peers : ReceivesNothing(p) \/ ReceivesFromKnown(p)
                         \/ ReceivesWithoutID(p) \/ ReceivesFromNew(p)
    \/ PeerAdded \/ DatagramReturns
    \/ \E k \in Connectors : DispatchConnect(k)
    \/ ConnectReturns \/ ConnectReadFails

(* The kernel completes what can be completed. *)
Completes ==
    \/ AcceptCompletes \/ RecvFromCompletes
    \/ \E s \in TcpSession : RecvCompletes(s)
    \/ \E k \in Connectors : ConnectCompletes(k)

Application ==
    \/ \E id \in SessionID : AppKicks(id)
    \/ \E k \in Connectors : AppConnects(k)
    \/ AppStops

Network ==
    \/ \E c \in Accepted : ClientConnect(c)
    \/ \E s \in TcpSession : PeerSends(s) \/ PeerCloses(s) \/ PeerResets(s)

Next == ThreadProc \/ Completes \/ Application \/ Network

(* The thread goes on, and the kernel completes what is pending. *)
Spec ==
    /\ Init /\ [][Next]_vars
    /\ WF_vars(ThreadProc)
    /\ WF_vars(AcceptCompletes)
    /\ \A s \in TcpSession : WF_vars(RecvCompletes(s))

-----------------------------------------------------------------------------
(* Safety. *)

(***************************************************************************)
(* No packet and no handler leads to a deleted session, and no descriptor  *)
(* is closed twice, as long as the application kicks UDP peers alone and   *)
(* does not stop the service: a drop deletes the session whose only        *)
(* receive has just completed.                                             *)
(***************************************************************************)
NoFault == fault = "none"

(* The sessions that have taken an ID off the queue and not given it back. *)
HoldsID(s) ==
    \/ s \in NewedSession /\ heap[s] = "live"
    \/ s \in Connectors /\ tcp[s] # "fresh"

(***************************************************************************)
(* Each ID is in the queue once or held by one session, whatever order the *)
(* packets come in and whichever call of DoAccpet, DoReadFrom and          *)
(* AddTCPConnector fails.                                                  *)
(***************************************************************************)
IdsConserved ==
    /\ \A i, j \in DOMAIN m_queSessionID :
          m_queSessionID[i] = m_queSessionID[j] => i = j
    /\ \A id \in SessionID :
          LET held == {s \in Session : HoldsID(s) /\ m_nSessionID[s] = id}
          IN  IF \E i \in DOMAIN m_queSessionID : m_queSessionID[i] = id
              THEN held = {}
              ELSE \E s \in Session : held = {s}

(***************************************************************************)
(* The sessions the service allocated are those the table holds, with      *)
(* their descriptors open and their peers in m_mapUDPSessions; and until   *)
(* OnConnectionDrop says so, the application knows each one by its ID.     *)
(***************************************************************************)
TableOwnsSessions ==
    /\ \A s \in NewedSession :
          \/ /\ heap[s] = "live"
             /\ m_Sessions[m_nSessionID[s]] = s
             /\ app[m_nSessionID[s]] = s \/ (pc = "OnConnectionDrop" /\ cur = s)
             /\ s \in Peers => m_mapUDPSessions[s] = m_nSessionID[s]
          \/ /\ heap[s] # "live"
             /\ \A id \in SessionID : m_Sessions[id] # s /\ app[id] # s
             /\ s \in Peers => m_mapUDPSessions[s] = 0
    /\ \A c \in Accepted : sock[c] = "open" <=> heap[c] = "live"

(* The receives of s that the kernel has, or has completed, or that the    *)
(* handler is to post when its callback returns.                           *)
Receives(s) ==
    Cardinality({i \in DOMAIN port : port[i].op = "IO_READ" /\ port[i].on = s})
    + Cardinality({s} \cap recv)
    + Cardinality({at \in {"OnAddConnection", "OnConnected", "OnData"} :
                      pc = at /\ cur = s})

(* The places that hold the context x of an AcceptEx. *)
Places(x) ==
    ({"accepts"} \X {i \in DOMAIN accepts : accepts[i] = x})
    \cup ({"m_queIOContext"} \X {i \in DOMAIN m_queIOContext : m_queIOContext[i] = x})
    \cup ({"port"} \X {i \in DOMAIN port : port[i].context = x})
    \cup ({"pContext"} \X {i \in {1} : pContext = x})

(***************************************************************************)
(* Nothing is given to the kernel twice: a session has one buffer and one  *)
(* OVERLAPPED, so one receive at a time, and a context that DelIOContext   *)
(* made free is in no AcceptEx, in no packet and in no handler's hands.    *)
(***************************************************************************)
OperationsOnce ==
    /\ \A s \in TcpSession : Receives(s) <= 1
    /\ \A x \in 1..contexts : \A p, q \in Places(x) : p = q

(***************************************************************************)
(* The contexts do not grow with the connections that come, nor with the   *)
(* AcceptEx that fail: there is one per AcceptEx that AddTCPListener       *)
(* posted, and one that the handler has not given back when PostAccept     *)
(* takes another. NewIOContext takes what DelIOContext left, so from then  *)
(* on one is free at every call.                                           *)
(***************************************************************************)
ContextsBounded == contexts <= Posted + 1

-----------------------------------------------------------------------------
(* Refinement. *)

Protocol == INSTANCE SessionProtocol WITH
    ID <- SessionID, Connection <- Session, Connector <- Connectors, None <- NULL,
    session <- app,
    callback <- IF pc \in Callbacks THEN <<pc, session_id, cur>> ELSE NULL

(***************************************************************************)
(* The callbacks keep the promises that the epoll back end keeps: IDs of   *)
(* open sessions are not given out again, OnData reports a session under   *)
(* the ID it was announced with, and no end is reported twice.             *)
(***************************************************************************)
ImplementsProtocol == Protocol!Spec

-----------------------------------------------------------------------------
(* Liveness. *)

Stopped == pc = "stopped"
Known(s) == \E id \in SessionID : app[id] = s

(***************************************************************************)
(* As long as fewer AcceptEx have failed than AddTCPListener posted, no    *)
(* connection is left waiting: again and again there is none, because each *)
(* handler posts another AcceptEx.                                         *)
(***************************************************************************)
BacklogIsDrained == []<>(backlog = <<>> \/ failures >= Posted \/ Stopped)

(***************************************************************************)
(* While no call has failed, a connection that its peer closes in order is *)
(* reported and dropped: after the data, a receive completes with 0. It is *)
(* not so of a reset or of a refused ConnectEx, whose completions fail:    *)
(* GetsFailure drops nothing, and the application is never told.           *)
(***************************************************************************)
CloseIsReported ==
    \A s \in TcpSession :
        []<>(~(tcp[s] = "fin" /\ Known(s)) \/ failures > 0 \/ Stopped)

(***************************************************************************)
(* Stop() ends ThreadProc, if m_bRunning stays cleared, whatever packets   *)
(* are queued before those it posts.                                       *)
(***************************************************************************)
StopEndsThread == <>[](stopping /\ ~m_bRunning) => []<>Stopped
=============================================================================
