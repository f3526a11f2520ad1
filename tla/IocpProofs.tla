------------------------------ MODULE IocpProofs ------------------------------
(***************************************************************************)
(* Theorems of NetServiceIocp, for every number of IDs, connections,       *)
(* connectors, peers, contexts and threads. The first half needs nothing   *)
(* of the application: types, and what is given to the kernel is given to  *)
(* it once. The second half is about an application that kicks UDP peers   *)
(* alone and does not call Stop(): no fault, the IDs, the table, and the   *)
(* callbacks' protocol.                                                    *)
(***************************************************************************)
EXTENDS NetServiceIocp, SessionProofs, FiniteSetTheorems, TLAPS

(* The packets that NewIOContext's first n contexts and the sessions allow. *)
PacketOf(n) ==
    {p \in Packet :
        /\ p.op = "IO_ACCEPT" => p.on \in Accepted /\ p.context \in 1..n
        /\ p.op # "IO_ACCEPT" => p.context = 0
        /\ p.op = "IO_READ" => p.on \in TcpSession
        /\ p.op = "IO_READFROM" /\ p.ok => p.on \in Peers
        /\ p.op = "IO_CONNECT" => p.on \in Connectors}

(* Those of one operation of s, those of them that succeeded, and those of *)
(* the context x.                                                          *)
ReadOf(s)    == {p \in Packet : p.op = "IO_READ" /\ p.on = s}
AcceptOf(c)  == {p \in Packet : p.op = "IO_ACCEPT" /\ p.on = c}
ConnectOf(k) == {p \in Packet : p.op = "IO_CONNECT" /\ p.on = k}
AcceptedOf(c)  == {p \in AcceptOf(c) : p.ok}
ConnectedOf(k) == {p \in ConnectOf(k) : p.ok}
HoldingOf(x) == {p \in Packet : p.context = x}

(* The service works with the session s: a receive of it is pending or has *)
(* completed, or a handler is at it.                                       *)
InWork(s) == cur = s \/ s \in recv \/ Has(port, ReadOf(s))

(* A connection that waits for DoAccpet.                                   *)
Waiting(c) == Has(backlog, {c}) \/ Has(port, AcceptOf(c))

(* A connector whose ConnectEx has not been followed by DoConnect.         *)
Connecting(k) == tcp[k] \in {"fresh", "syn", "refused"} \/ Has(port, ConnectOf(k))

Stands == {"est", "fin", "reset"}

KernelTypes ==
    /\ tcp \in [TcpSession -> TcpState] /\ rx \in [TcpSession -> 0..MaxRx]
    /\ backlog \in Seq(Accepted)
    /\ recv \subseteq TcpSession /\ recvfrom \in BOOLEAN
    /\ failures \in 0..MaxFailures
AcceptTypes ==
    /\ accepts \in Seq(1..contexts) /\ m_queIOContext \in Seq(1..contexts)
    /\ contexts \in Nat /\ pContext \in 0..contexts
ThreadTypes ==
    /\ pc \in Callbacks \cup {"OnUpdate", "wait", "PostAccept", "stopped"}
    /\ cur \in Session \cup {NULL}
    /\ session_id \in 0..MAX_SOCK_EVENT
    /\ stopping \in BOOLEAN
    /\ app \in [SessionID -> Session \cup {NULL}]
PortInv == port \in Seq(PacketOf(contexts))

(* What the handler in progress works on. *)
CurInv ==
    /\ pc = "OnAddConnection" => cur \in NewedSession
    /\ pc \in {"OnConnected", "OnConnectFail"} => cur \in Connectors
    /\ pc = "OnConnectionDrop" => cur \in Accepted
    /\ pc = "OnData" => cur \in Session
    /\ pc \notin Callbacks => cur = NULL
    /\ pc = "PostAccept" \/ (pc = "OnAddConnection" /\ cur \in Accepted) => pContext # 0

TypeInv ==
    SessionTypeOK /\ KernelTypes /\ AcceptTypes /\ ThreadTypes /\ PortInv /\ CurInv

(* A descriptor is open, and a receive pending, on a connection that stands. *)
SockInv(s) ==
    /\ sock[s] = "open" => tcp[s] \notin {"none", "closed"}
    /\ s \in recv => tcp[s] \in Stands
    /\ s \in Accepted => tcp[s] \in {"none", "closed"} \cup Stands
    /\ s \in Connectors => tcp[s] # "none"

(* A session has one receive at a time, and none while a handler is at it. *)
ReadInv(s) ==
    /\ AtMostOne(port, ReadOf(s))
    /\ ~(Has(port, ReadOf(s)) /\ s \in recv)
    /\ cur = s => s \notin recv /\ ~Has(port, ReadOf(s))

(* A session has its ID before the service works with it. *)
IdInv(s) ==
    InWork(s) \/ Has(port, ConnectOf(s)) \/ tcp[s] = "syn" => m_nSessionID[s] \in SessionID

(* A connection waits once, and the service does not know it yet. *)
WaitInv(c) ==
    /\ AtMostOne(backlog, {c}) /\ AtMostOne(port, AcceptOf(c))
    /\ ~(Has(backlog, {c}) /\ Has(port, AcceptOf(c)))
    /\ Waiting(c) => heap[c] # "live" /\ sock[c] # "open" /\ ~InWork(c)
    /\ Has(backlog, {c}) \/ Has(port, AcceptedOf(c)) => tcp[c] \in Stands

(* A connector connects once, and nothing is received before it has.      *)
ConnectInv(k) ==
    /\ heap[k] = "live"
    /\ AtMostOne(port, ConnectOf(k))
    /\ Connecting(k) => ~InWork(k)
    /\ Has(port, ConnectOf(k)) => tcp[k] \notin {"fresh", "syn"}
    /\ Has(port, ConnectedOf(k)) => tcp[k] \in Stands
    /\ \/ tcp[k] \in {"fresh", "syn"} \/ Has(port, ConnectedOf(k))
       \/ pc = "OnConnected" /\ cur = k
       => sock[k] = "open"

WorkInv(s) ==
    /\ SockInv(s) /\ ReadInv(s) /\ IdInv(s)
    /\ s \in Accepted => WaitInv(s)
    /\ s \in Connectors => ConnectInv(s)

(* What a slot of the table leads to. *)
SlotInv ==
    \A id \in SessionID : LET s == m_Sessions[id] IN s \in Session =>
        /\ m_nSessionID[s] = id
        /\ heap[s] = "live"
        /\ s \in Connectors => ~Connecting(s)
        /\ s \in Peers => m_mapUDPSessions[s] = id

(* An accept context is in one place. *)
OnceInv(x) ==
    /\ AtMostOne(accepts, {x}) /\ AtMostOne(m_queIOContext, {x})
    /\ AtMostOne(port, HoldingOf(x))
    /\ Has(accepts, {x}) =>
          ~Has(m_queIOContext, {x}) /\ ~Has(port, HoldingOf(x)) /\ pContext # x
    /\ Has(m_queIOContext, {x}) => ~Has(port, HoldingOf(x)) /\ pContext # x
    /\ Has(port, HoldingOf(x)) => pContext # x
ContextInv == \A x \in 1..contexts : OnceInv(x)

(* Once DelIOContext has been called, a context is free at every call of   *)
(* NewIOContext.                                                           *)
BoundInv ==
    Posted <= contexts /\ contexts <= Posted + 1 /\ (m_queIOContext = <<>> => contexts <= Posted)

KernelInv ==
    TypeInv /\ (\A s \in TcpSession : WorkInv(s)) /\ SlotInv /\ ContextInv /\ BoundInv

-----------------------------------------------------------------------------
(* The completion port. *)

(* A packet of n contexts is one of n + 1 contexts. *)
LEMMA PacketOfMore ==
    ASSUME NEW n \in Nat
    PROVE  /\ PacketOf(n) \subseteq PacketOf(n + 1) /\ PacketOf(n) \subseteq Packet
           /\ Seq(PacketOf(n)) \subseteq Seq(PacketOf(n + 1))
           /\ Seq(PacketOf(n)) \subseteq Seq(Packet)
           /\ Seq(1..n) \subseteq Seq(1..(n + 1))
  <1>1. PacketOf(n) \subseteq PacketOf(n + 1) /\ PacketOf(n) \subseteq Packet
    BY DEF PacketOf
  <1>2. 1..n \subseteq 1..(n + 1)
    OBVIOUS
  <1> QED
    BY <1>1, <1>2, SeqMore

(* The thread takes the oldest packet. *)
LEMMA GetsHas ==
    ASSUME PortInv, NEW p, Gets(p)
    PROVE  /\ p \in PacketOf(contexts) /\ port' \in Seq(PacketOf(contexts))
           /\ \A M : /\ Has(port, M) <=> Has(port', M) \/ p \in M
                     /\ AtMostOne(port, M) => /\ AtMostOne(port', M)
                                              /\ ~(Has(port', M) /\ p \in M)
  BY TailHas DEF PortInv, Gets

(* A packet is queued. *)
LEMMA PostsHas ==
    ASSUME PortInv, NEW p \in PacketOf(contexts), port' = Append(port, p)
    PROVE  /\ port' \in Seq(PacketOf(contexts))
           /\ \A M : /\ Has(port', M) <=> Has(port, M) \/ p \in M
                     /\ AtMostOne(port, M) /\ ~(Has(port, M) /\ p \in M)
                           => AtMostOne(port', M)
  BY AppendHas DEF PortInv

(* Closing the descriptors of S queues the receive of S that was pending. *)
LEMMA AbortsHas ==
    ASSUME PortInv, NEW s, NEW S \in SUBSET {s}, recv \subseteq TcpSession,
           port' = port \o Aborted(S)
    PROVE  /\ port' \in Seq(PacketOf(contexts))
           /\ S \cap recv = {} => port' = port
           /\ S \cap recv # {} =>
                /\ s \in recv
                /\ \E p \in ReadOf(s) : p \in PacketOf(contexts) /\ port' = Append(port, p)
                                        /\ ~p.ok
  <1>1. CASE S \cap recv = {}
    <2>1. Aborted(S) = <<>>
      BY <1>1 DEF Aborted
    <2>2. ASSUME NEW T, port \in Seq(T) PROVE port \o <<>> = port
      BY <2>2
    <2> QED
      BY <1>1, <2>1, <2>2 DEF PortInv
  <1>2. CASE S \cap recv # {}
    <2> DEFINE p == Done("IO_READ", s, FALSE, 0)
    <2>1. s \in recv /\ S \cap recv = {s} /\ s \in TcpSession
      BY <1>2
    <2>2. Aborted(S) = <<p>>
      BY <2>1 DEF Aborted
    <2>3. p \in Packet /\ p.op = "IO_READ" /\ p.on = s /\ p.ok = FALSE /\ p.context = 0
      <3>1. s \in Session \cup {NULL} /\ FALSE \in BOOLEAN /\ 0 \in Nat
        BY <2>1, SessionKinds
      <3> QED
        BY <3>1 DEF Done, Packet
    <2> HIDE DEF p
    <2>4. p \in ReadOf(s) /\ p \in PacketOf(contexts)
      BY <2>1, <2>3 DEF ReadOf, PacketOf
    <2>5. port' = Append(port, p)
      <3>1. ASSUME NEW T, port \in Seq(T), p \in T PROVE port \o <<p>> = Append(port, p)
        BY <3>1
      <3> QED
        BY <2>2, <2>4, <3>1 DEF PortInv
    <2>6. port' \in Seq(PacketOf(contexts))
      BY <2>4, <2>5, PostsHas
    <2> QED
      BY <1>2, <2>1, <2>3, <2>4, <2>5, <2>6
  <1> QED
    BY <1>1, <1>2

(* The packets of Stop() are about no session and no context. *)
LEMMA StopsHas ==
    ASSUME PortInv,
           port' = port \o [i \in 1..Threads |-> Done("NULL", NULL, TRUE, 0)]
    PROVE  /\ port' \in Seq(PacketOf(contexts))
           /\ \A M : (\A p \in M : p.op # "NULL" \/ p.context # 0) =>
                 /\ Has(port', M) <=> Has(port, M)
                 /\ AtMostOne(port, M) => AtMostOne(port', M)
  <1> DEFINE S == PacketOf(contexts)
             p == Done("NULL", NULL, TRUE, 0)
             r == [i \in 1..Threads |-> p]
  <1>1. p \in Packet /\ p.op = "NULL" /\ p.context = 0
    <2>1. NULL \in Session \cup {NULL} /\ TRUE \in BOOLEAN /\ 0 \in Nat
      OBVIOUS
    <2> QED
      BY <2>1 DEF Done, Packet
  <1>2. port' = port \o r
    OBVIOUS
  <1> HIDE DEF p
  <1>3. p \in S
    BY <1>1 DEF PacketOf
  <1> HIDE DEF S
  <1>4. r \in Seq(S) /\ DOMAIN r = 1..Threads /\ \A i \in DOMAIN r : r[i] = p
    <2>1. ASSUME NEW N \in Nat PROVE [i \in 1..N |-> p] \in Seq(S)
      BY <1>3, <2>1
    <2>2. Threads \in Nat
      BY IocpAssumption
    <2> QED
      BY <2>1, <2>2
  <1> HIDE DEF r
  <1>5. port \in Seq(S)
    BY DEF PortInv, S
  <1>6. ASSUME NEW M, \A e \in M : e.op # "NULL" \/ e.context # 0
        PROVE  /\ Has(port', M) <=> Has(port, M)
               /\ AtMostOne(port, M) => AtMostOne(port', M)
    <2>1. ~Has(r, M) /\ AtMostOne(r, M)
      BY <1>1, <1>4, <1>6 DEF Has, AtMostOne
    <2>2. Has(port \o r, M) <=> Has(port, M) \/ Has(r, M)
      BY <1>4, <1>5, HasConcat
    <2>3. AtMostOne(port, M) => AtMostOne(port \o r, M)
      BY <1>4, <1>5, <2>1, AtMostOneConcat
    <2> QED
      BY <1>2, <2>1, <2>2, <2>3
  <1>7. port' \in Seq(S)
    <2>1. port \o r \in Seq(S)
      BY <1>4, <1>5
    <2> QED
      BY <1>2, <2>1
  <1> QED
    BY <1>6, <1>7 DEF S

(* A packet of the set M is in a sequence that has one of a part of M. *)
LEMMA HasMore ==
    ASSUME NEW q, NEW s
    PROVE  /\ Has(q, AcceptedOf(s)) => Has(q, AcceptOf(s))
           /\ Has(q, ConnectedOf(s)) => Has(q, ConnectOf(s))
  BY DEF Has, AcceptedOf, ConnectedOf

(* What a packet of n contexts is about. *)
LEMMA PacketIsAbout ==
    ASSUME NEW n, NEW p \in PacketOf(n)
    PROVE  /\ p \in Packet
           /\ p.op = "IO_ACCEPT" => p.on \in Accepted /\ p.context \in 1..n
           /\ p.op # "IO_ACCEPT" => p.context = 0
           /\ p.op = "IO_READ" => p.on \in TcpSession
           /\ p.op = "IO_READFROM" /\ p.ok => p.on \in Peers
           /\ p.op = "IO_CONNECT" => p.on \in Connectors
  BY DEF PacketOf

(* Which of the sets of packets about s the packet p is in. *)
LEMMA PacketIsOf ==
    ASSUME NEW p \in Packet, NEW s
    PROVE  /\ p \in ReadOf(s) <=> p.op = "IO_READ" /\ p.on = s
           /\ p \in AcceptOf(s) <=> p.op = "IO_ACCEPT" /\ p.on = s
           /\ p \in ConnectOf(s) <=> p.op = "IO_CONNECT" /\ p.on = s
           /\ p \in AcceptedOf(s) <=> p.op = "IO_ACCEPT" /\ p.on = s /\ p.ok
           /\ p \in ConnectedOf(s) <=> p.op = "IO_CONNECT" /\ p.on = s /\ p.ok
  BY DEF ReadOf, AcceptOf, ConnectOf, AcceptedOf, ConnectedOf

(* A packet leaves the port, or joins it; "is" says whether it is in M. *)
Leaves(M, is) ==
    /\ Has(port, M) <=> Has(port', M) \/ is
    /\ AtMostOne(port, M) => AtMostOne(port', M) /\ ~(Has(port', M) /\ is)
Joins(M, is) ==
    /\ Has(port', M) <=> Has(port, M) \/ is
    /\ AtMostOne(port, M) /\ ~(Has(port, M) /\ is) => AtMostOne(port', M)

(* What that is for the packets about s. *)
LeavesFor(p, s) ==
    /\ Leaves(ReadOf(s), p.op = "IO_READ" /\ p.on = s)
    /\ Leaves(AcceptOf(s), p.op = "IO_ACCEPT" /\ p.on = s)
    /\ Leaves(ConnectOf(s), p.op = "IO_CONNECT" /\ p.on = s)
    /\ Leaves(AcceptedOf(s), p.op = "IO_ACCEPT" /\ p.on = s /\ p.ok)
    /\ Leaves(ConnectedOf(s), p.op = "IO_CONNECT" /\ p.on = s /\ p.ok)
JoinsFor(p, s) ==
    /\ Joins(ReadOf(s), p.op = "IO_READ" /\ p.on = s)
    /\ Joins(AcceptOf(s), p.op = "IO_ACCEPT" /\ p.on = s)
    /\ Joins(ConnectOf(s), p.op = "IO_CONNECT" /\ p.on = s)
    /\ Joins(AcceptedOf(s), p.op = "IO_ACCEPT" /\ p.on = s /\ p.ok)
    /\ Joins(ConnectedOf(s), p.op = "IO_CONNECT" /\ p.on = s /\ p.ok)

(* The thread takes the packet p. *)
LEMMA GetsForAll ==
    ASSUME PortInv, NEW p, Gets(p), NEW s
    PROVE  p \in PacketOf(contexts) /\ LeavesFor(p, s)
  <1>1. p \in PacketOf(contexts) /\ p \in Packet
    BY GetsHas, PacketIsAbout
  <1>2. ASSUME NEW M PROVE Leaves(M, p \in M)
    BY GetsHas DEF Leaves
  <1>3. /\ Leaves(ReadOf(s), p \in ReadOf(s)) /\ Leaves(AcceptOf(s), p \in AcceptOf(s))
        /\ Leaves(ConnectOf(s), p \in ConnectOf(s))
        /\ Leaves(AcceptedOf(s), p \in AcceptedOf(s))
        /\ Leaves(ConnectedOf(s), p \in ConnectedOf(s))
    BY <1>2
  <1> QED
    BY <1>1, <1>3, PacketIsOf DEF Leaves, LeavesFor

(* The kernel queues the packet p. *)
LEMMA PostsForAll ==
    ASSUME PortInv, NEW p \in PacketOf(contexts), port' = Append(port, p), NEW s
    PROVE  JoinsFor(p, s)
  <1>1. p \in Packet
    BY PacketIsAbout
  <1>2. ASSUME NEW M PROVE Joins(M, p \in M)
    BY PostsHas DEF Joins
  <1>3. /\ Joins(ReadOf(s), p \in ReadOf(s)) /\ Joins(AcceptOf(s), p \in AcceptOf(s))
        /\ Joins(ConnectOf(s), p \in ConnectOf(s))
        /\ Joins(AcceptedOf(s), p \in AcceptedOf(s))
        /\ Joins(ConnectedOf(s), p \in ConnectedOf(s))
    BY <1>2
  <1> QED
    BY <1>1, <1>3, PacketIsOf DEF Joins, JoinsFor

-----------------------------------------------------------------------------
(* Types. *)

(* A completion of s's operation is of a session that has an ID. *)
LEMMA TakenHasID ==
    ASSUME KernelInv, NEW s \in TcpSession, NEW size, NEW op \in {"IO_READ", "IO_CONNECT"},
           Succeeds(op, s, size)
    PROVE  m_nSessionID[s] \in SessionID
  <1>1. PICK p \in Packets : p.op = op /\ p.on = s /\ Gets(p)
    BY DEF Succeeds
  <1>2. LeavesFor(p, s)
    BY <1>1, GetsForAll DEF KernelInv, TypeInv
  <1>3. Has(port, ReadOf(s)) \/ Has(port, ConnectOf(s))
    BY <1>1, <1>2 DEF LeavesFor, Leaves
  <1> QED
    BY <1>3 DEF KernelInv, WorkInv, IdInv, InWork

(* The session a handler is at has an ID. *)
LEMMA CurHasID ==
    ASSUME KernelInv, cur \in TcpSession
    PROVE  m_nSessionID[cur] \in SessionID
  BY DEF KernelInv, WorkInv, IdInv, InWork

(* The types of the session layer. *)
LEMMA SessionTypes == KernelInv /\ Next => SessionTypeOK'
  <1> SUFFICES ASSUME KernelInv, Next PROVE SessionTypeOK'
    OBVIOUS
  <1>0. SessionTypeOK /\ ThreadTypes /\ CurInv
    BY DEF KernelInv, TypeInv
  <1> USE SessionKinds
  <1>1. CASE UNCHANGED sessionVars
    BY <1>0, <1>1 DEF SessionTypeOK, sessionVars
  <1>2. ASSUME NEW c \in Accepted, NEW x, AcceptWithoutID(c, x) PROVE SessionTypeOK'
    BY <1>0, <1>2 DEF AcceptWithoutID, SessionTypeOK, SockState
  <1>3. ASSUME NEW c \in Accepted, NEW x, AcceptPortFails(c, x) PROVE SessionTypeOK'
    BY <1>0, <1>3, QueueType DEF AcceptPortFails, SessionTypeOK, SockState
  <1>4. ASSUME NEW c \in Accepted, NEW x, Accept(c, x) PROVE SessionTypeOK'
    BY <1>0, <1>4, QueueType, AddSessionType DEF Accept, SessionTypeOK, SockState
  <1>5. ASSUME Reads \/ \E s \in TcpSession, n \in 0..MaxRx : DispatchRead(s, n)
        PROVE  SessionTypeOK'
    BY <1>0, <1>5 DEF Reads, DispatchRead, DoRead, Deref, SessionTypeOK, FaultState
  <1>6. CASE DropReturns
    BY <1>0, <1>6, CurHasID, DelSessionType DEF DropReturns, CurInv
  <1>7. ASSUME NEW p \in Peers, ReceivesFromNew(p) PROVE SessionTypeOK'
    BY <1>0, <1>7, QueueType, AddSessionType DEF ReceivesFromNew, SessionTypeOK
  <1>8. ASSUME NEW k \in Connectors, DispatchConnect(k) PROVE SessionTypeOK'
    BY <1>0, <1>8, AddSessionType DEF DispatchConnect, SessionTypeOK
  <1>9. CASE ConnectReadFails
    BY <1>0, <1>9 DEF ConnectReadFails, SessionTypeOK, SockState, FaultState
  <1>10. ASSUME NEW k \in Connectors, AppConnects(k) PROVE SessionTypeOK'
    BY <1>0, <1>10, QueueType DEF AppConnects, SessionTypeOK
  <1>11. ASSUME NEW id \in SessionID, AppKicks(id) PROVE SessionTypeOK'
    BY <1>0, <1>11, KickSessionType DEF AppKicks
  <1>12. CASE AppStops
    BY <1>0, <1>12 DEF AppStops, StopRunning, SessionTypeOK
  <1> QED
    BY <1>1, <1>2, <1>3, <1>4, <1>5, <1>6, <1>7, <1>8, <1>9, <1>10, <1>11, <1>12
       DEF Next, ThreadProc, Completes, Application, Network, ReturnOnUpdate, TimesOut,
           GetsNull, GetsFailure, AcceptReturns, PostAccept, ReadReturns, FailReturns,
           ReceivesNothing, ReceivesFromKnown, ReceivesWithoutID, PeerAdded,
           DatagramReturns, ConnectReturns, AcceptCompletes, RecvFromCompletes,
           RecvCompletes, ConnectCompletes, ClientConnect, PeerSends, PeerCloses, PeerResets

(* Closing descriptors keeps the types of the connections. *)
LEMMA DiscardTypes ==
    ASSUME KernelTypes, NEW S, Discard(S)
    PROVE  /\ tcp' \in [TcpSession -> TcpState] /\ rx' \in [TcpSession -> 0..MaxRx]
           /\ recv' \subseteq TcpSession
  BY IocpAssumption DEF KernelTypes, Discard, TcpState

(* A failure is counted, up to the bound. *)
LEMMA FailsType ==
    ASSUME KernelTypes, Fails \/ UNCHANGED failures
    PROVE  failures' \in 0..MaxFailures
  BY IocpAssumption DEF KernelTypes, Fails

(* The types of the kernel's state. *)
LEMMA KernelTypesStep == KernelInv /\ Next => KernelTypes'
  <1> SUFFICES ASSUME KernelInv, Next PROVE KernelTypes'
    OBVIOUS
  <1>0. KernelTypes /\ CurInv
    BY DEF KernelInv, TypeInv
  <1>1. CASE UNCHANGED kernelVars
    BY <1>0, <1>1 DEF KernelTypes, kernelVars
  <1>2. ASSUME NEW c, NEW x, AcceptWithoutID(c, x) \/ AcceptPortFails(c, x) PROVE KernelTypes'
    BY <1>0, <1>2, DiscardTypes, FailsType DEF AcceptWithoutID, AcceptPortFails, KernelTypes
  <1>3. ASSUME Reads, cur \in TcpSession PROVE KernelTypes'
    BY <1>0, <1>3, FailsType DEF Reads, PostRead, KernelTypes
  <1>4. ASSUME PostAccept PROVE KernelTypes'
    BY <1>0, <1>4, FailsType DEF PostAccept, KernelTypes
  <1>5. CASE DropReturns
    BY <1>0, <1>5, DiscardTypes DEF DropReturns, KernelTypes
  <1>6. ASSUME PostReadFrom, UNCHANGED <<tcp, rx, backlog, recv>> PROVE KernelTypes'
    BY <1>0, <1>6, FailsType DEF PostReadFrom, KernelTypes
  <1>7. CASE ConnectReturns
    BY <1>0, <1>7, FailsType, SessionKinds DEF ConnectReturns, PostRead, KernelTypes, CurInv
  <1>8. CASE ConnectReadFails
    BY <1>0, <1>8, DiscardTypes, FailsType DEF ConnectReadFails, KernelTypes
  <1>9. CASE AcceptCompletes
    <2>1. Tail(backlog) \in Seq(Accepted)
      BY <1>0, <1>9 DEF AcceptCompletes, KernelTypes
    <2>2. tcp' \in [TcpSession -> TcpState] /\ rx' \in [TcpSession -> 0..MaxRx]
          /\ recv' \subseteq TcpSession
      BY <1>0, <1>9, DiscardTypes DEF AcceptCompletes, KernelTypes
    <2>3. failures' \in 0..MaxFailures
      BY <1>0, <1>9, FailsType DEF AcceptCompletes
    <2> QED
      BY <1>0, <1>9, <2>1, <2>2, <2>3 DEF AcceptCompletes, KernelTypes
  <1>10. CASE RecvFromCompletes
    BY <1>0, <1>10, FailsType DEF RecvFromCompletes, KernelTypes
  <1>11. ASSUME NEW s \in TcpSession, RecvCompletes(s) PROVE KernelTypes'
    BY <1>0, <1>11, IocpAssumption DEF RecvCompletes, KernelTypes
  <1>12. ASSUME NEW k \in Connectors, ConnectCompletes(k) PROVE KernelTypes'
    BY <1>0, <1>12 DEF ConnectCompletes, KernelTypes, TcpState
  <1>13. ASSUME NEW id, AppKicks(id) PROVE KernelTypes'
    BY <1>0, <1>13, DiscardTypes DEF AppKicks, KernelTypes
  <1>14. ASSUME NEW k \in Connectors, AppConnects(k) PROVE KernelTypes'
    BY <1>0, <1>14, FailsType DEF AppConnects, KernelTypes, TcpState
  <1>15. ASSUME NEW c \in Accepted, ClientConnect(c) PROVE KernelTypes'
    <2>1. Append(backlog, c) \in Seq(Accepted)
      BY <1>0 DEF KernelTypes
    <2> QED
      BY <1>0, <1>15, <2>1 DEF ClientConnect, KernelTypes, TcpState
  <1>16. ASSUME NEW s \in TcpSession, PeerSends(s) \/ PeerCloses(s) \/ PeerResets(s)
         PROVE  KernelTypes'
    BY <1>0, <1>16, IocpAssumption DEF PeerSends, PeerCloses, PeerResets, KernelTypes, TcpState
  <1> QED
    BY <1>1, <1>2, <1>3, <1>4, <1>5, <1>6, <1>7, <1>8, <1>9, <1>10, <1>11, <1>12, <1>13,
       <1>14, <1>15, <1>16, SessionKinds
       DEF Next, ThreadProc, Completes, Application, Network, ReturnOnUpdate, TimesOut,
           GetsNull, GetsFailure, Accept, AcceptReturns, DispatchRead, ReadReturns,
           FailReturns, ReceivesNothing, ReceivesFromKnown, ReceivesWithoutID,
           ReceivesFromNew, PeerAdded, DatagramReturns, DispatchConnect, AppStops

(* What the application knows after a session's announcement or end. *)
LEMMA AppType ==
    ASSUME ThreadTypes, NEW id, NEW s \in Session \cup {NULL}
    PROVE  [app EXCEPT ![id] = s] \in [SessionID -> Session \cup {NULL}]
  BY DEF ThreadTypes

(* The types of the thread's state and of the application's. *)
LEMMA ThreadTypesStep == KernelInv /\ Next => ThreadTypes'
  <1> SUFFICES ASSUME KernelInv, Next PROVE ThreadTypes'
    OBVIOUS
  <1>0. SessionTypeOK /\ ThreadTypes /\ CurInv /\ KernelTypes
    BY DEF KernelInv, TypeInv
  <1> USE SessionKinds
  <1>1. ASSUME UNCHANGED <<pc, cur, session_id, stopping, app>> PROVE ThreadTypes'
    BY <1>0, <1>1 DEF ThreadTypes
  <1>2. ASSUME ToLoop \/ ToPostAccept, UNCHANGED app PROVE ThreadTypes'
    BY <1>0, <1>2 DEF ThreadTypes, ToLoop, ToPostAccept, LoopHead
  <1>3. ASSUME NEW name \in Callbacks, NEW s \in Session, NEW id \in 0..MAX_SOCK_EVENT,
               CallBack(name, s, id), app' \in [SessionID -> Session \cup {NULL}]
        PROVE  ThreadTypes'
    BY <1>0, <1>3 DEF ThreadTypes, CallBack
  <1>4. ASSUME UNCHANGED <<cur, session_id, stopping, app>>,
               pc' \in {"OnData", "stopped", "wait", LoopHead}
        PROVE  ThreadTypes'
    BY <1>0, <1>4 DEF ThreadTypes, LoopHead, Callbacks
  <1>5. ASSUME NEW id \in SessionID, AppKicks(id) PROVE ThreadTypes'
    BY <1>0, <1>5, AppType DEF AppKicks, ThreadTypes, threadVars
  <1>6. CASE AppStops
    BY <1>0, <1>6 DEF AppStops, ThreadTypes
  <1>7. ASSUME NEW c \in Accepted, NEW x, Accept(c, x) PROVE ThreadTypes'
    BY <1>0, <1>3, <1>7, QueueType, AppType DEF Accept, Callbacks
  <1>8. ASSUME NEW s \in TcpSession, NEW n, DispatchRead(s, n) PROVE ThreadTypes'
    <2>1. m_nSessionID[s] \in 0..MAX_SOCK_EVENT /\ s \in Session
      BY <1>0 DEF SessionTypeOK
    <2>2. app' \in [SessionID -> Session \cup {NULL}]
      BY <1>0, <1>8, AppType DEF DispatchRead, DoRead, ThreadTypes
    <2> QED
      BY <1>3, <1>8, <2>1, <2>2 DEF DispatchRead, DoRead, Callbacks
  <1>9. ASSUME NEW p \in Peers, ReceivesFromKnown(p) PROVE ThreadTypes'
    <2>1. GetUDPSessionID(p) \in 0..MAX_SOCK_EVENT /\ p \in Session
      BY <1>0 DEF SessionTypeOK, GetUDPSessionID
    <2> QED
      BY <1>0, <1>3, <1>9, <2>1 DEF ReceivesFromKnown, Callbacks, ThreadTypes
  <1>10. ASSUME NEW p \in Peers, ReceivesFromNew(p) PROVE ThreadTypes'
    BY <1>0, <1>3, <1>10, QueueType, AppType DEF ReceivesFromNew, Callbacks
  <1>11. ASSUME NEW k \in Connectors, DispatchConnect(k) PROVE ThreadTypes'
    <2>1. m_nSessionID[k] \in 0..MAX_SOCK_EVENT /\ k \in Session
      BY <1>0 DEF SessionTypeOK
    <2> QED
      BY <1>0, <1>3, <1>11, <2>1, AppType DEF DispatchConnect, Callbacks
  <1>12. CASE ConnectReadFails
    <2>1. cur \in Session /\ m_nSessionID[cur] \in 0..MAX_SOCK_EVENT
      BY <1>0, <1>12 DEF ConnectReadFails, CurInv, SessionTypeOK
    <2> QED
      BY <1>0, <1>3, <1>12, <2>1, AppType DEF ConnectReadFails, Callbacks
  <1>13. CASE ReturnOnUpdate \/ GetsNull \/ PeerAdded
    BY <1>4, <1>13 DEF ReturnOnUpdate, GetsNull, PeerAdded
  <1>14. CASE Completes \/ Network \/ \E k \in Connectors : AppConnects(k)
    BY <1>1, <1>14
       DEF Completes, Network, AcceptCompletes, RecvFromCompletes, RecvCompletes,
           ConnectCompletes, AppConnects, ClientConnect, PeerSends, PeerCloses, PeerResets,
           threadVars
  <1>15. CASE \/ TimesOut \/ GetsFailure \/ AcceptReturns \/ PostAccept \/ ReadReturns
              \/ DropReturns \/ FailReturns \/ DatagramReturns \/ ConnectReturns
    BY <1>2, <1>15
       DEF TimesOut, GetsFailure, AcceptReturns, Reads, PostAccept, ReadReturns, DropReturns,
           FailReturns, DatagramReturns, ConnectReturns
  <1>16. ASSUME NEW c, NEW x, AcceptWithoutID(c, x) \/ AcceptPortFails(c, x)
         PROVE  ThreadTypes'
    BY <1>2, <1>16 DEF AcceptWithoutID, AcceptPortFails
  <1>17. ASSUME NEW p, ReceivesNothing(p) \/ ReceivesWithoutID(p) PROVE ThreadTypes'
    BY <1>2, <1>17 DEF ReceivesNothing, ReceivesWithoutID
  <1> QED
    BY <1>5, <1>6, <1>7, <1>8, <1>9, <1>10, <1>11, <1>12, <1>13, <1>14, <1>15, <1>16, <1>17
       DEF Next, ThreadProc, Application

(* What the handler in progress works on. *)
LEMMA CurStep == KernelInv /\ Next => CurInv'
  <1> SUFFICES ASSUME KernelInv, Next PROVE CurInv'
    OBVIOUS
  <1>0. CurInv /\ PortInv /\ AcceptTypes
    BY DEF KernelInv, TypeInv
  <1> USE SessionKinds
  <1>1. ASSUME UNCHANGED <<pc, cur, pContext>> PROVE CurInv'
    BY <1>0, <1>1 DEF CurInv
  <1>2. CASE ToLoop
    BY <1>2 DEF CurInv, ToLoop, LoopHead, Callbacks
  <1>3. CASE ReturnOnUpdate \/ GetsNull \/ PeerAdded
    BY <1>0, <1>3 DEF ReturnOnUpdate, GetsNull, Gets, PeerAdded, CurInv, Callbacks, LoopHead
  <1>4. ASSUME NEW c, NEW x, Accepts(c, x) PROVE pContext' # 0
    <2>1. PICK p \in Packets : p.op = "IO_ACCEPT" /\ p.context = x /\ Gets(p)
      BY <1>4 DEF Accepts
    <2>2. x \in 1..contexts
      BY <1>0, <2>1, GetsHas, PacketIsAbout
    <2> QED
      BY <1>0, <1>4, <2>2 DEF Accepts, AcceptTypes
  <1>5. ASSUME NEW c \in Accepted, NEW x, AcceptWithoutID(c, x) \/ AcceptPortFails(c, x)
        PROVE  CurInv'
    BY <1>4, <1>5 DEF AcceptWithoutID, AcceptPortFails, ToPostAccept, CurInv, Callbacks
  <1>6. ASSUME NEW c \in Accepted, NEW x, Accept(c, x) PROVE CurInv'
    BY <1>4, <1>6 DEF Accept, CallBack, CurInv, Callbacks
  <1>7. CASE AcceptReturns
    BY <1>0, <1>7 DEF AcceptReturns, ToPostAccept, CurInv, Callbacks
  <1>8. ASSUME NEW s \in TcpSession, NEW n, DispatchRead(s, n) PROVE CurInv'
    BY <1>8 DEF DispatchRead, DoRead, CallBack, CurInv, Callbacks, TcpSession
  <1>9. ASSUME NEW p \in Peers, ReceivesFromKnown(p) \/ ReceivesFromNew(p) PROVE CurInv'
    BY <1>9 DEF ReceivesFromKnown, ReceivesFromNew, CallBack, CurInv, Callbacks
  <1>10. ASSUME NEW k \in Connectors, DispatchConnect(k) PROVE CurInv'
    BY <1>10 DEF DispatchConnect, CallBack, CurInv, Callbacks
  <1>11. CASE ConnectReadFails
    BY <1>0, <1>11 DEF ConnectReadFails, CallBack, CurInv, Callbacks
  <1> QED
    BY <1>1, <1>2, <1>3, <1>5, <1>6, <1>7, <1>8, <1>9, <1>10, <1>11
       DEF Next, ThreadProc, Completes, Application, Network, TimesOut, GetsFailure,
           PostAccept, ReadReturns, DropReturns, FailReturns, ReceivesNothing,
           ReceivesWithoutID, DatagramReturns, ConnectReturns, AcceptCompletes,
           RecvFromCompletes, RecvCompletes, ConnectCompletes, AppKicks, AppConnects,
           AppStops, ClientConnect, PeerSends, PeerCloses, PeerResets, threadVars

-----------------------------------------------------------------------------
(* The packets that the kernel queues. *)

(* The front of a queue that is not empty. *)
LEMMA FrontOf ==
    ASSUME NEW S, NEW q \in Seq(S), q # <<>>
    PROVE  Head(q) \in S /\ Tail(q) \in Seq(S)
  OBVIOUS

(* An AcceptEx answers the oldest connection, with its own context. *)
LEMMA AcceptPacket ==
    ASSUME TypeInv, AcceptCompletes
    PROVE  /\ Head(backlog) \in Accepted /\ Head(accepts) \in 1..contexts
           /\ \E p \in PacketOf(contexts) :
                /\ port' = Append(port, p)
                /\ p.op = "IO_ACCEPT" /\ p.on = Head(backlog) /\ p.context = Head(accepts)
                /\ \/ p.ok /\ UNCHANGED <<tcp, rx, recv, failures>>
                   \/ ~p.ok /\ Discard({Head(backlog)}) /\ Fails
  <1> DEFINE c == Head(backlog)
             x == Head(accepts)
             p(ok) == [Done("IO_ACCEPT", c, ok, 0) EXCEPT !.context = x]
  <1>1. c \in Accepted /\ x \in 1..contexts /\ contexts \in Nat
    BY FrontOf DEF TypeInv, KernelTypes, AcceptTypes, AcceptCompletes
  <1>2. PICK ok \in BOOLEAN :
            /\ IF ok THEN UNCHANGED <<tcp, rx, recv, failures>> ELSE Discard({c}) /\ Fails
            /\ port' = Append(port, p(ok))
    BY DEF AcceptCompletes
  <1> HIDE DEF c, x
  <1>3. p(ok) \in PacketOf(contexts) /\ p(ok).op = "IO_ACCEPT" /\ p(ok).on = c
        /\ p(ok).context = x /\ (p(ok).ok <=> ok)
    BY <1>1, SessionKinds DEF Done, Packet, PacketOf
  <1> QED
    BY <1>1, <1>2, <1>3 DEF c, x

(* A receive answers what there was, or that the connection was reset. *)
LEMMA ReadPacket ==
    ASSUME TypeInv, NEW s \in TcpSession, RecvCompletes(s)
    PROVE  \E p \in PacketOf(contexts) :
              /\ port' = Append(port, p)
              /\ p.op = "IO_READ" /\ p.on = s /\ p.context = 0
  <1> DEFINE p == Done("IO_READ", s, tcp[s] # "reset", rx[s])
  <1>1. rx[s] \in Nat
    BY IocpAssumption DEF TypeInv, KernelTypes
  <1>2. p \in PacketOf(contexts) /\ p.op = "IO_READ" /\ p.on = s /\ p.context = 0
    BY <1>1, SessionKinds DEF Done, Packet, PacketOf
  <1> QED
    BY <1>2 DEF RecvCompletes

(* A receive of the UDP listener answers a peer's datagram, or fails. *)
LEMMA ReadFromPacket ==
    ASSUME RecvFromCompletes
    PROVE  \E p \in PacketOf(contexts) :
              port' = Append(port, p) /\ p.op = "IO_READFROM" /\ p.context = 0
  <1>1. ASSUME NEW q \in Peers, NEW length \in {0, 1}
        PROVE  LET p == Done("IO_READFROM", q, TRUE, length)
               IN  p \in PacketOf(contexts) /\ p.op = "IO_READFROM" /\ p.context = 0
    BY SessionKinds DEF Done, Packet, PacketOf
  <1>2. LET p == Done("IO_READFROM", NULL, FALSE, 0)
        IN  p \in PacketOf(contexts) /\ p.op = "IO_READFROM" /\ p.context = 0
    BY DEF Done, Packet, PacketOf
  <1> QED
    BY <1>1, <1>2 DEF RecvFromCompletes

(* A ConnectEx answers whether the connection stands. *)
LEMMA ConnectPacket ==
    ASSUME NEW k \in Connectors, ConnectCompletes(k)
    PROVE  \E st \in {"est", "refused"}, p \in PacketOf(contexts) :
              /\ tcp' = [tcp EXCEPT ![k] = st] /\ port' = Append(port, p)
              /\ p.op = "IO_CONNECT" /\ p.on = k /\ p.context = 0 /\ (p.ok <=> st = "est")
  <1>1. PICK st \in {"est", "refused"} :
            /\ tcp' = [tcp EXCEPT ![k] = st]
            /\ port' = Append(port, Done("IO_CONNECT", k, st = "est", 0))
    BY DEF ConnectCompletes
  <1> DEFINE p == Done("IO_CONNECT", k, st = "est", 0)
  <1>2. p \in PacketOf(contexts) /\ p.op = "IO_CONNECT" /\ p.on = k /\ p.context = 0
        /\ (p.ok <=> st = "est")
    BY SessionKinds DEF Done, Packet, PacketOf
  <1> QED
    BY <1>1, <1>2

(* The packets at the port are of contexts and sessions that there are. *)
LEMMA PortStep == KernelInv /\ Next => PortInv'
  <1> SUFFICES ASSUME KernelInv, Next PROVE PortInv'
    OBVIOUS
  <1>0. TypeInv /\ PortInv /\ contexts \in Nat /\ recv \subseteq TcpSession
    BY DEF KernelInv, TypeInv, AcceptTypes, KernelTypes
  <1>1. CASE UNCHANGED <<port, contexts>>
    BY <1>0, <1>1 DEF PortInv
  <1>2. ASSUME NEW p, Gets(p), UNCHANGED contexts PROVE PortInv'
    BY <1>0, <1>2, GetsHas DEF PortInv
  <1>3. CASE PostAccept
    BY <1>0, <1>3, PacketOfMore DEF PostAccept, PortInv
  <1>4. ASSUME NEW p \in PacketOf(contexts), port' = Append(port, p), UNCHANGED contexts
        PROVE  PortInv'
    BY <1>0, <1>4, PostsHas DEF PortInv
  <1>5. ASSUME NEW s, NEW K, port' = port \o Aborted({s} \cap K), UNCHANGED contexts
        PROVE  PortInv'
    <2>1. {s} \cap K \in SUBSET {s}
      OBVIOUS
    <2> QED
      BY <1>0, <1>5, <2>1, AbortsHas DEF PortInv
  <1>6. CASE AppStops
    BY <1>0, <1>6, StopsHas DEF AppStops, PortInv, acceptVars
  <1>7. CASE Completes
    BY <1>0, <1>4, <1>7, AcceptPacket, ReadPacket, ReadFromPacket, ConnectPacket
       DEF Completes, AcceptCompletes, RecvFromCompletes, RecvCompletes, ConnectCompletes,
           acceptVars
  <1>8. CASE Network \/ (\E k \in Connectors : AppConnects(k)) \/ ReturnOnUpdate \/ TimesOut
             \/ AcceptReturns \/ ReadReturns \/ FailReturns \/ PeerAdded \/ DatagramReturns
             \/ ConnectReturns \/ ConnectReadFails
    BY <1>1, <1>8
       DEF Network, AppConnects, ClientConnect, PeerSends, PeerCloses, PeerResets,
           ReturnOnUpdate, TimesOut, AcceptReturns, Reads, ReadReturns, FailReturns,
           PeerAdded, DatagramReturns, ConnectReturns, ConnectReadFails, acceptVars
  <1>9. ASSUME NEW c, NEW x, AcceptWithoutID(c, x) \/ AcceptPortFails(c, x) \/ Accept(c, x)
        PROVE  PortInv'
    BY <1>2, <1>9 DEF AcceptWithoutID, AcceptPortFails, Accept, Accepts, acceptVars
  <1>10. ASSUME NEW p, ReceivesNothing(p) \/ ReceivesFromKnown(p) \/ ReceivesWithoutID(p)
                       \/ ReceivesFromNew(p)
         PROVE  PortInv'
    BY <1>2, <1>10
       DEF ReceivesNothing, ReceivesFromKnown, ReceivesWithoutID, ReceivesFromNew, Succeeds,
           acceptVars
  <1>11. CASE GetsNull \/ GetsFailure \/ (\E s \in TcpSession, n \in 0..MaxRx : DispatchRead(s, n))
              \/ (\E k \in Connectors : DispatchConnect(k))
    BY <1>2, <1>11
       DEF GetsNull, GetsFailure, DispatchRead, DoRead, DispatchConnect, Succeeds, acceptVars
  <1>12. CASE DropReturns \/ \E id \in SessionID : AppKicks(id)
    BY <1>5, <1>12 DEF DropReturns, AppKicks, acceptVars
  <1> QED
    BY <1>3, <1>6, <1>7, <1>8, <1>9, <1>10, <1>11, <1>12 DEF Next, ThreadProc, Application

-----------------------------------------------------------------------------
(* The contexts of the accepts. *)

(* A step that neither posts an AcceptEx nor completes one moves no context *)
(* but that of the packet it takes, which the handler may have then.       *)
ContextsKept(x) ==
    /\ UNCHANGED acceptVars
    /\ AtMostOne(port, HoldingOf(x)) => AtMostOne(port', HoldingOf(x))
    /\ Has(port', HoldingOf(x)) => Has(port, HoldingOf(x))
    /\ \/ pContext' \in {0, pContext}
       \/ pContext' = x /\ Has(port, HoldingOf(x)) /\ ~Has(port', HoldingOf(x))
       \/ pContext' \in 1..contexts /\ pContext' # x

LEMMA OnceKept ==
    ASSUME NEW x \in 1..contexts, OnceInv(x), contexts \in Nat, ContextsKept(x)
    PROVE  OnceInv(x)'
  BY DEF OnceInv, ContextsKept, acceptVars

(* Whether a packet holds the context x. *)
LEMMA HoldingIs ==
    ASSUME NEW n, NEW p \in PacketOf(n), NEW x
    PROVE  p \in HoldingOf(x) <=> p.context = x
  BY DEF PacketOf, HoldingOf

(* The steps that leave the contexts where they are, or with the handler. *)
LEMMA KeepsContexts ==
    ASSUME KernelInv, Next, ~AcceptCompletes, ~PostAccept, NEW x \in 1..contexts
    PROVE  ContextsKept(x)
  <1>0. TypeInv /\ PortInv /\ contexts \in Nat /\ x # 0 /\ recv \subseteq TcpSession
        /\ AtMostOne(port, HoldingOf(x)) /\ pContext \in 0..contexts
    <2>1. TypeInv /\ PortInv /\ AcceptTypes /\ KernelTypes /\ OnceInv(x)
      BY DEF KernelInv, TypeInv, ContextInv
    <2> QED
      BY <2>1 DEF AcceptTypes, KernelTypes, OnceInv
  <1>1. ASSUME UNCHANGED <<acceptVars, port>>, pContext' \in {0, pContext}
        PROVE  ContextsKept(x)
    BY <1>0, <1>1 DEF ContextsKept
  <1>2. ASSUME NEW p, Gets(p), UNCHANGED acceptVars,
               pContext' \in {0, pContext} \/ pContext' = p.context
        PROVE  ContextsKept(x)
    <2>1. p \in PacketOf(contexts) /\ (p \in HoldingOf(x) <=> p.context = x)
          /\ (p.context = 0 \/ p.context \in 1..contexts)
      BY <1>0, <1>2, GetsHas, HoldingIs, PacketIsAbout
    <2>2. /\ Has(port, HoldingOf(x)) <=> Has(port', HoldingOf(x)) \/ p \in HoldingOf(x)
          /\ AtMostOne(port, HoldingOf(x)) =>
                AtMostOne(port', HoldingOf(x)) /\ ~(Has(port', HoldingOf(x)) /\ p \in HoldingOf(x))
      BY <1>0, <1>2, GetsHas
    <2> QED
      BY <1>0, <1>2, <2>1, <2>2 DEF ContextsKept
  <1>3. ASSUME NEW p \in PacketOf(contexts), port' = Append(port, p), p.context = 0,
               UNCHANGED acceptVars, pContext' \in {0, pContext}
        PROVE  ContextsKept(x)
    <2>1. p \notin HoldingOf(x)
      BY <1>0, <1>3, HoldingIs
    <2>2. /\ Has(port', HoldingOf(x)) <=> Has(port, HoldingOf(x)) \/ p \in HoldingOf(x)
          /\ AtMostOne(port, HoldingOf(x)) /\ ~(Has(port, HoldingOf(x)) /\ p \in HoldingOf(x))
                => AtMostOne(port', HoldingOf(x))
      BY <1>0, <1>3, PostsHas
    <2> QED
      BY <1>3, <2>1, <2>2 DEF ContextsKept
  <1>4. ASSUME NEW s, NEW K, port' = port \o Aborted({s} \cap K), UNCHANGED acceptVars,
               pContext' \in {0, pContext}
        PROVE  ContextsKept(x)
    <2>1. {s} \cap K \in SUBSET {s}
      OBVIOUS
    <2>2. \/ port' = port
          \/ \E p \in ReadOf(s) : p \in PacketOf(contexts) /\ port' = Append(port, p)
      BY <1>0, <1>4, <2>1, AbortsHas
    <2>3. ASSUME NEW p \in ReadOf(s), p \in PacketOf(contexts) PROVE p.context = 0
      BY <2>3 DEF ReadOf, PacketOf
    <2> QED
      BY <1>1, <1>3, <1>4, <2>2, <2>3
  <1>5. CASE AppStops
    <2>1. \A e \in HoldingOf(x) : e.op # "NULL" \/ e.context # 0
      BY <1>0 DEF HoldingOf
    <2> QED
      BY <1>0, <1>5, <2>1, StopsHas DEF AppStops, ContextsKept
  <1>6. CASE Completes
    <2>1. CASE RecvFromCompletes
      BY <1>0, <1>3, <2>1, ReadFromPacket DEF RecvFromCompletes, threadVars
    <2>2. ASSUME NEW s \in TcpSession, RecvCompletes(s) PROVE ContextsKept(x)
      BY <1>0, <1>3, <2>2, ReadPacket DEF RecvCompletes, threadVars
    <2>3. ASSUME NEW k \in Connectors, ConnectCompletes(k) PROVE ContextsKept(x)
      BY <1>0, <1>3, <2>3, ConnectPacket DEF ConnectCompletes, threadVars
    <2> QED
      BY <1>6, <2>1, <2>2, <2>3 DEF Completes
  <1>7. CASE Network \/ (\E k \in Connectors : AppConnects(k)) \/ ReturnOnUpdate \/ TimesOut
             \/ AcceptReturns \/ ReadReturns \/ FailReturns \/ PeerAdded \/ DatagramReturns
             \/ ConnectReturns \/ ConnectReadFails
    BY <1>1, <1>7
       DEF Network, AppConnects, ClientConnect, PeerSends, PeerCloses, PeerResets,
           ReturnOnUpdate, TimesOut, AcceptReturns, Reads, ReadReturns, FailReturns,
           PeerAdded, DatagramReturns, ConnectReturns, ConnectReadFails, ToLoop, threadVars
  <1>8. ASSUME NEW c, NEW y, AcceptWithoutID(c, y) \/ AcceptPortFails(c, y) \/ Accept(c, y)
        PROVE  ContextsKept(x)
    BY <1>2, <1>8 DEF AcceptWithoutID, AcceptPortFails, Accept, Accepts
  <1>9. ASSUME NEW p, ReceivesNothing(p) \/ ReceivesFromKnown(p) \/ ReceivesWithoutID(p)
                      \/ ReceivesFromNew(p)
        PROVE  ContextsKept(x)
    BY <1>2, <1>9
       DEF ReceivesNothing, ReceivesFromKnown, ReceivesWithoutID, ReceivesFromNew, Succeeds,
           ToLoop
  <1>10. CASE GetsNull \/ GetsFailure \/ (\E s \in TcpSession, n \in 0..MaxRx : DispatchRead(s, n))
              \/ (\E k \in Connectors : DispatchConnect(k))
    BY <1>2, <1>10
       DEF GetsNull, GetsFailure, DispatchRead, DoRead, DispatchConnect, Succeeds, ToLoop
  <1>11. CASE DropReturns \/ \E id \in SessionID : AppKicks(id)
    BY <1>4, <1>11 DEF DropReturns, AppKicks, ToLoop, threadVars
  <1> QED
    BY <1>5, <1>6, <1>7, <1>8, <1>9, <1>10, <1>11 DEF Next, ThreadProc, Application

(* An AcceptEx completes: its context goes from the kernel to its packet. *)
LEMMA CompletesOnce ==
    ASSUME KernelInv, AcceptCompletes
    PROVE  ContextInv' /\ AcceptTypes' /\ BoundInv'
  <1>0. TypeInv /\ PortInv /\ AcceptTypes /\ ContextInv /\ BoundInv
    BY DEF KernelInv, TypeInv
  <1>1. accepts # <<>> /\ accepts' = Tail(accepts)
        /\ UNCHANGED <<m_queIOContext, contexts, pContext>>
    BY DEF AcceptCompletes, threadVars
  <1>2. PICK p \in PacketOf(contexts) : port' = Append(port, p) /\ p.context = Head(accepts)
    BY <1>0, AcceptPacket
  <1>3. accepts' \in Seq(1..contexts)
    BY <1>0, <1>1, FrontOf DEF AcceptTypes
  <1>4. AcceptTypes' /\ BoundInv'
    BY <1>0, <1>1, <1>3 DEF AcceptTypes, BoundInv
  <1>5. ASSUME NEW x \in 1..contexts PROVE OnceInv(x)'
    <2>1. OnceInv(x)
      BY <1>0 DEF ContextInv
    <2>2. /\ Has(accepts, {x}) <=> Has(accepts', {x}) \/ Head(accepts) \in {x}
          /\ AtMostOne(accepts, {x}) =>
                AtMostOne(accepts', {x}) /\ ~(Has(accepts', {x}) /\ Head(accepts) \in {x})
      BY <1>0, <1>1, TailHas DEF AcceptTypes
    <2>3. p \in HoldingOf(x) <=> Head(accepts) \in {x}
      BY <1>2, HoldingIs
    <2>4. /\ Has(port', HoldingOf(x)) <=> Has(port, HoldingOf(x)) \/ p \in HoldingOf(x)
          /\ AtMostOne(port, HoldingOf(x)) /\ ~(Has(port, HoldingOf(x)) /\ p \in HoldingOf(x))
                => AtMostOne(port', HoldingOf(x))
      BY <1>0, <1>2, PostsHas
    <2> QED
      BY <1>1, <2>1, <2>2, <2>3, <2>4 DEF OnceInv
  <1> QED
    BY <1>1, <1>4, <1>5 DEF ContextInv

(* PostAccept takes a context, and then frees that of the handler. *)
LEMMA PostsOnce ==
    ASSUME KernelInv, PostAccept
    PROVE  ContextInv' /\ AcceptTypes' /\ BoundInv'
  <1>0. TypeInv /\ PortInv /\ AcceptTypes /\ ContextInv /\ BoundInv /\ CurInv
    BY DEF KernelInv, TypeInv
  <1> DEFINE free == NewedIOContext
             new == NewIOContext
             n == IF m_queIOContext = <<>> THEN contexts + 1 ELSE contexts
  <1>1. contexts \in Nat /\ pContext \in 1..contexts /\ pContext' = 0 /\ port' = port
        /\ n \in Nat /\ n >= contexts /\ n <= contexts + 1
    BY <1>0 DEF PostAccept, CurInv, AcceptTypes, ToLoop
  <1>2. new \in 1..n /\ new # 0 /\ free \in Seq(1..contexts)
    <2>1. CASE m_queIOContext = <<>>
      <3>1. free = <<>> /\ new = contexts + 1 /\ n = contexts + 1
        BY <2>1 DEF NewedIOContext, NewIOContext
      <3> QED
        BY <1>1, <3>1
    <2>2. CASE m_queIOContext # <<>>
      <3>1. free = Tail(m_queIOContext) /\ new = Head(m_queIOContext) /\ n = contexts
        BY <2>2 DEF NewedIOContext, NewIOContext
      <3>2. Head(m_queIOContext) \in 1..contexts /\ Tail(m_queIOContext) \in Seq(1..contexts)
        BY <1>0, <2>2, FrontOf DEF AcceptTypes
      <3> QED
        BY <1>1, <3>1, <3>2
    <2> QED
      BY <2>1, <2>2
  <1>3. ASSUME NEW x \in 1..contexts
        PROVE  /\ OnceInv(x)
               /\ AtMostOne(free, {x}) /\ (Has(free, {x}) => Has(m_queIOContext, {x}))
               /\ new = x => Has(m_queIOContext, {x}) /\ ~Has(free, {x})
    <2>1. OnceInv(x)
      BY <1>0 DEF ContextInv
    <2>2. CASE m_queIOContext = <<>>
      <3>1. free = <<>> /\ new = contexts + 1 /\ new # x
        BY <1>1, <2>2 DEF NewedIOContext, NewIOContext
      <3> QED
        BY <2>1, <3>1 DEF Has, AtMostOne
    <2>3. CASE m_queIOContext # <<>>
      <3>1. free = Tail(m_queIOContext) /\ new = Head(m_queIOContext)
        BY <2>3 DEF NewedIOContext, NewIOContext
      <3>2. /\ Has(m_queIOContext, {x}) <=>
                  Has(Tail(m_queIOContext), {x}) \/ Head(m_queIOContext) \in {x}
            /\ AtMostOne(m_queIOContext, {x}) =>
                  /\ AtMostOne(Tail(m_queIOContext), {x})
                  /\ ~(Has(Tail(m_queIOContext), {x}) /\ Head(m_queIOContext) \in {x})
        BY <1>0, <2>3, TailHas DEF AcceptTypes
      <3> QED
        BY <2>1, <3>1, <3>2 DEF OnceInv
    <2> QED
      BY <2>2, <2>3
  <1>4. ASSUME NEW M
        PROVE  /\ Has(Append(free, pContext), M) <=> Has(free, M) \/ pContext \in M
               /\ AtMostOne(free, M) /\ ~(Has(free, M) /\ pContext \in M)
                     => AtMostOne(Append(free, pContext), M)
    BY <1>1, <1>2, AppendHas
  <1>5. ASSUME NEW M
        PROVE  /\ Has(Append(m_queIOContext, pContext), M) <=> Has(m_queIOContext, M) \/ pContext \in M
               /\ AtMostOne(m_queIOContext, M) /\ ~(Has(m_queIOContext, M) /\ pContext \in M)
                     => AtMostOne(Append(m_queIOContext, pContext), M)
    BY <1>0, <1>1, AppendHas DEF AcceptTypes
  <1>6. 1..contexts \subseteq 1..n /\ accepts \in Seq(1..n)
    BY <1>0, <1>1, PacketOfMore DEF AcceptTypes
  <1>7. ASSUME NEW M
        PROVE  /\ Has(Append(accepts, new), M) <=> Has(accepts, M) \/ new \in M
               /\ AtMostOne(accepts, M) /\ ~(Has(accepts, M) /\ new \in M)
                     => AtMostOne(Append(accepts, new), M)
    BY <1>2, <1>6, AppendHas
  <1>8. accepts' = Append(accepts, new) \/ accepts' = accepts
    BY DEF PostAccept
  <1>9. \/ m_queIOContext' = Append(free, pContext) /\ contexts' = n
        \/ /\ m_queIOContext' = Append(m_queIOContext, pContext) /\ contexts' = contexts
           /\ accepts' = accepts
    BY DEF PostAccept, DelIOContext
  <1>10. contexts' \in Nat /\ contexts <= contexts' /\ contexts' <= n
    BY <1>1, <1>9
  <1>11. (m_queIOContext = <<>> => new = contexts + 1) /\ (contexts' # contexts => m_queIOContext = <<>>)
    BY <1>9 DEF NewIOContext
  <1> HIDE DEF free, new, n
  <1>12. AcceptTypes'
    <2>1. Append(accepts, new) \in Seq(1..n) /\ Append(free, pContext) \in Seq(1..contexts)
          /\ Append(m_queIOContext, pContext) \in Seq(1..contexts)
      <3>1. ASSUME NEW S, NEW q \in Seq(S), NEW e \in S PROVE Append(q, e) \in Seq(S)
        OBVIOUS
      <3> QED
        BY <1>0, <1>1, <1>2, <1>6, <3>1 DEF AcceptTypes
    <2>2. ASSUME NEW q \in Seq(1..contexts) PROVE q \in Seq(1..contexts')
      <3>1. 1..contexts \subseteq 1..contexts'
        BY <1>1, <1>10
      <3> QED
        BY <3>1, SeqMore
    <2>3. accepts' \in Seq(1..contexts') /\ m_queIOContext' \in Seq(1..contexts')
      BY <1>0, <1>8, <1>9, <2>1, <2>2 DEF AcceptTypes
    <2> QED
      BY <1>1, <1>10, <2>3 DEF AcceptTypes
  <1>13. BoundInv'
    <2>1. m_queIOContext' # <<>>
      <3>1. ASSUME NEW S, NEW q \in Seq(S), NEW e PROVE Append(q, e) # <<>>
        OBVIOUS
      <3> QED
        BY <1>0, <1>2, <1>9, <3>1 DEF AcceptTypes
    <2>2. Posted <= contexts' /\ contexts' <= Posted + 1
      BY <1>0, <1>1, <1>10, <1>11, IocpAssumption DEF BoundInv
    <2> QED
      BY <2>1, <2>2 DEF BoundInv
  <1>14. ASSUME NEW x \in 1..contexts PROVE OnceInv(x)'
    <2>1. /\ Has(Append(free, pContext), {x}) <=> Has(free, {x}) \/ pContext \in {x}
          /\ AtMostOne(free, {x}) /\ ~(Has(free, {x}) /\ pContext \in {x})
                => AtMostOne(Append(free, pContext), {x})
      BY <1>4
    <2>2. /\ Has(Append(m_queIOContext, pContext), {x}) <=> Has(m_queIOContext, {x}) \/ pContext \in {x}
          /\ AtMostOne(m_queIOContext, {x}) /\ ~(Has(m_queIOContext, {x}) /\ pContext \in {x})
                => AtMostOne(Append(m_queIOContext, pContext), {x})
      BY <1>5
    <2>3. /\ Has(Append(accepts, new), {x}) <=> Has(accepts, {x}) \/ new \in {x}
          /\ AtMostOne(accepts, {x}) /\ ~(Has(accepts, {x}) /\ new \in {x})
                => AtMostOne(Append(accepts, new), {x})
      BY <1>7
    <2>4. pContext' # x
      BY <1>1
    <2> QED
      BY <1>1, <1>3, <1>8, <1>9, <2>1, <2>2, <2>3, <2>4 DEF OnceInv
  <1>15. ASSUME NEW x \in 1..contexts', x \notin 1..contexts PROVE OnceInv(x)'
    <2>1. x = contexts + 1 /\ new = x /\ x # pContext /\ x # pContext'
      BY <1>1, <1>10, <1>11, <1>15
    <2>2. ASSUME NEW q \in Seq(1..contexts) PROVE ~Has(q, {x}) /\ AtMostOne(q, {x})
      <3>1. ASSUME NEW S, NEW r \in Seq(S) PROVE \A i \in DOMAIN r : r[i] \in S
        OBVIOUS
      <3>2. \A i \in DOMAIN q : q[i] \in 1..contexts
        BY <2>2, <3>1
      <3> QED
        BY <1>15, <3>2 DEF Has, AtMostOne
    <2>3. ~Has(free, {x}) /\ AtMostOne(free, {x})
      BY <1>2, <2>2
    <2>4. /\ ~Has(accepts, {x}) /\ AtMostOne(accepts, {x})
          /\ ~Has(m_queIOContext, {x}) /\ AtMostOne(m_queIOContext, {x})
      BY <1>0, <2>2 DEF AcceptTypes
    <2>5. ~Has(port, HoldingOf(x)) /\ AtMostOne(port, HoldingOf(x))
      <3>1. \A p \in PacketOf(contexts) : p \notin HoldingOf(x)
        BY <1>1, <2>1 DEF PacketOf, HoldingOf
      <3>2. \A i \in DOMAIN port : port[i] \in PacketOf(contexts)
        BY <1>0 DEF PortInv
      <3> QED
        BY <3>1, <3>2 DEF Has, AtMostOne
    <2>6. /\ Has(Append(accepts, new), {x}) <=> Has(accepts, {x}) \/ new \in {x}
          /\ AtMostOne(accepts, {x}) /\ ~(Has(accepts, {x}) /\ new \in {x})
                => AtMostOne(Append(accepts, new), {x})
      BY <1>7
    <2>7. /\ Has(Append(free, pContext), {x}) <=> Has(free, {x}) \/ pContext \in {x}
          /\ AtMostOne(free, {x}) /\ ~(Has(free, {x}) /\ pContext \in {x})
                => AtMostOne(Append(free, pContext), {x})
      BY <1>4
    <2>8. /\ Has(Append(m_queIOContext, pContext), {x}) <=> Has(m_queIOContext, {x}) \/ pContext \in {x}
          /\ AtMostOne(m_queIOContext, {x}) /\ ~(Has(m_queIOContext, {x}) /\ pContext \in {x})
                => AtMostOne(Append(m_queIOContext, pContext), {x})
      BY <1>5
    <2> QED
      BY <1>1, <1>8, <1>9, <2>1, <2>3, <2>4, <2>5, <2>6, <2>7, <2>8 DEF OnceInv
  <1> QED
    BY <1>12, <1>13, <1>14, <1>15 DEF ContextInv

(* The accept contexts, their types and their bound. *)
LEMMA ContextStep == KernelInv /\ Next => ContextInv' /\ AcceptTypes' /\ BoundInv'
  <1> SUFFICES ASSUME KernelInv, Next PROVE ContextInv' /\ AcceptTypes' /\ BoundInv'
    OBVIOUS
  <1>1. CASE AcceptCompletes
    BY <1>1, CompletesOnce
  <1>2. CASE PostAccept
    BY <1>2, PostsOnce
  <1>3. CASE ~AcceptCompletes /\ ~PostAccept
    <2>0. TypeInv /\ AcceptTypes /\ contexts \in Nat /\ ContextInv /\ BoundInv
      BY DEF KernelInv, TypeInv, AcceptTypes
    <2>1. \A x \in 1..contexts : ContextsKept(x)
      BY <1>3, KeepsContexts
    <2>2. \A x \in 1..contexts : OnceInv(x)'
      BY <2>0, <2>1, OnceKept DEF ContextInv
    <2>3. UNCHANGED acceptVars /\ pContext' \in 0..contexts
      <3>1. contexts >= 1
        BY <2>0, IocpAssumption DEF BoundInv
      <3> QED
        BY <2>0, <2>1, <3>1 DEF ContextsKept, AcceptTypes
    <2> QED
      BY <2>0, <2>2, <2>3 DEF acceptVars, ContextInv, AcceptTypes, BoundInv
  <1> QED
    BY <1>1, <1>2, <1>3


-----------------------------------------------------------------------------
(* What the service works with. *)

(* The packets about s, and the place of s in the backlog, are not more. *)
PortKept(s) ==
    /\ Has(port', ReadOf(s)) => Has(port, ReadOf(s))
    /\ AtMostOne(port, ReadOf(s)) => AtMostOne(port', ReadOf(s))
    /\ Has(port', AcceptOf(s)) => Has(port, AcceptOf(s))
    /\ AtMostOne(port, AcceptOf(s)) => AtMostOne(port', AcceptOf(s))
    /\ Has(port', ConnectOf(s)) => Has(port, ConnectOf(s))
    /\ AtMostOne(port, ConnectOf(s)) => AtMostOne(port', ConnectOf(s))
    /\ Has(port', AcceptedOf(s)) => Has(port, AcceptedOf(s))
    /\ Has(port', ConnectedOf(s)) => Has(port, ConnectedOf(s))
BacklogKept(s) ==
    /\ Has(backlog', {s}) => Has(backlog, {s})
    /\ AtMostOne(backlog, {s}) => AtMostOne(backlog', {s})

(* A step about other sessions, or one that takes something from s. *)
SessionKept(s) ==
    /\ tcp'[s] = tcp[s] \/ {tcp[s], tcp'[s]} \subseteq Stands
    /\ sock'[s] = sock[s] /\ heap'[s] = heap[s]
    /\ m_nSessionID'[s] = m_nSessionID[s] \/ m_nSessionID'[s] \in SessionID
    /\ s \in recv' => s \in recv
    /\ cur' = s => cur = s
    /\ pc' = "OnConnected" /\ cur' = s => pc = "OnConnected"
    /\ BacklogKept(s) /\ PortKept(s)

LEMMA WorkKept ==
    ASSUME NEW s, WorkInv(s), SessionKept(s)
    PROVE  WorkInv(s)'
  <1>1. SockInv(s)'
    BY DEF WorkInv, SockInv, SessionKept, Stands
  <1>2. ReadInv(s)'
    BY DEF WorkInv, ReadInv, SessionKept, PortKept
  <1>3. IdInv(s)'
    BY DEF WorkInv, IdInv, InWork, SessionKept, PortKept, Stands
  <1>4. s \in Accepted => WaitInv(s)'
    BY DEF WorkInv, WaitInv, Waiting, InWork, SessionKept, PortKept, BacklogKept, Stands
  <1>5. s \in Connectors => ConnectInv(s)'
    BY DEF WorkInv, ConnectInv, Connecting, InWork, SessionKept, PortKept, Stands
  <1> QED
    BY <1>1, <1>2, <1>3, <1>4, <1>5 DEF WorkInv

(* The packets about s, as the port changes. *)
LEMMA PortKeeps ==
    ASSUME PortInv, NEW s
    PROVE  /\ port' = port => PortKept(s)
           /\ \A p : Gets(p) => PortKept(s)
           /\ \A p \in PacketOf(contexts) :
                 port' = Append(port, p) /\ (p.op = "IO_READFROM" \/ p.on # s) => PortKept(s)
  <1>1. port' = port => PortKept(s)
    BY DEF PortKept
  <1>2. ASSUME NEW p, Gets(p) PROVE PortKept(s)
    BY <1>2, GetsForAll DEF LeavesFor, Leaves, PortKept
  <1>3. ASSUME NEW p \in PacketOf(contexts), port' = Append(port, p),
               p.op = "IO_READFROM" \/ p.on # s
        PROVE  PortKept(s)
    BY <1>3, PostsForAll DEF JoinsFor, Joins, PortKept
  <1> QED
    BY <1>1, <1>2, <1>3

(* Stop()'s packets are about no session. *)
LEMMA StopsKeep ==
    ASSUME PortInv, AppStops, NEW s
    PROVE  PortKept(s)
  <1>1. ASSUME NEW M, \A p \in M : p.op # "NULL"
        PROVE  (Has(port', M) <=> Has(port, M)) /\ (AtMostOne(port, M) => AtMostOne(port', M))
    BY <1>1, StopsHas DEF AppStops
  <1>2. /\ \A p \in ReadOf(s) : p.op # "NULL"
        /\ \A p \in AcceptOf(s) : p.op # "NULL"
        /\ \A p \in ConnectOf(s) : p.op # "NULL"
        /\ \A p \in AcceptedOf(s) : p.op # "NULL"
        /\ \A p \in ConnectedOf(s) : p.op # "NULL"
    BY DEF ReadOf, AcceptOf, ConnectOf, AcceptedOf, ConnectedOf
  <1> QED
    BY <1>1, <1>2 DEF PortKept

(* The backlog, as connections come and are accepted. *)
LEMMA BacklogKeeps ==
    ASSUME KernelTypes, NEW s
    PROVE  /\ backlog' = backlog => BacklogKept(s)
           /\ backlog # <<>> /\ backlog' = Tail(backlog) =>
                 /\ BacklogKept(s)
                 /\ AtMostOne(backlog, {s}) /\ s = Head(backlog) =>
                       Has(backlog, {s}) /\ ~Has(backlog', {s})
           /\ \A c \in Accepted : backlog' = Append(backlog, c) =>
                 IF s = c THEN ~Has(backlog, {s}) => AtMostOne(backlog', {s})
                 ELSE BacklogKept(s)
  <1>1. backlog' = backlog => BacklogKept(s)
    BY DEF BacklogKept
  <1>2. ASSUME backlog # <<>>, backlog' = Tail(backlog)
        PROVE  /\ BacklogKept(s)
               /\ AtMostOne(backlog, {s}) /\ s = Head(backlog) =>
                     Has(backlog, {s}) /\ ~Has(backlog', {s})
    <2>1. /\ Has(backlog, {s}) <=> Has(Tail(backlog), {s}) \/ Head(backlog) \in {s}
          /\ AtMostOne(backlog, {s}) =>
                AtMostOne(Tail(backlog), {s}) /\ ~(Has(Tail(backlog), {s}) /\ Head(backlog) \in {s})
      BY <1>2, TailHas DEF KernelTypes
    <2> QED
      BY <1>2, <2>1 DEF BacklogKept
  <1>3. ASSUME NEW c \in Accepted, backlog' = Append(backlog, c)
        PROVE  IF s = c THEN ~Has(backlog, {s}) => AtMostOne(backlog', {s})
               ELSE BacklogKept(s)
    <2>1. /\ Has(Append(backlog, c), {s}) <=> Has(backlog, {s}) \/ c \in {s}
          /\ AtMostOne(backlog, {s}) /\ ~(Has(backlog, {s}) /\ c \in {s})
                => AtMostOne(Append(backlog, c), {s})
      BY AppendHas DEF KernelTypes
    <2>2. ~Has(backlog, {s}) => AtMostOne(backlog, {s})
      BY DEF Has, AtMostOne
    <2> QED
      BY <1>3, <2>1, <2>2 DEF BacklogKept
  <1> QED
    BY <1>1, <1>2, <1>3

(* The parts of the invariant. *)
LEMMA Parts ==
    ASSUME KernelInv
    PROVE  /\ TypeInv /\ SessionTypeOK /\ KernelTypes /\ AcceptTypes /\ ThreadTypes
           /\ PortInv /\ CurInv /\ SlotInv /\ ContextInv /\ BoundInv
           /\ \A s \in TcpSession : WorkInv(s)
  BY DEF KernelInv, TypeInv

(* The thread waits between its handlers. *)
LEMMA NoneInWork ==
    ASSUME CurInv, pc \notin Callbacks
    PROVE  \A s \in Session : cur # s
  BY SessionKinds DEF CurInv

(* Steps of the thread that touch no TCP session. *)
LEMMA ThreadKeepsWork ==
    ASSUME KernelInv, NEW s \in TcpSession,
           \/ ReturnOnUpdate \/ TimesOut \/ GetsNull \/ GetsFailure \/ PostAccept
           \/ FailReturns \/ PeerAdded \/ DatagramReturns
           \/ \E p \in Peers : \/ ReceivesNothing(p) \/ ReceivesFromKnown(p)
                               \/ ReceivesWithoutID(p) \/ ReceivesFromNew(p)
    PROVE  WorkInv(s)'
  <1>0. PortInv /\ SessionTypeOK /\ KernelTypes /\ CurInv /\ WorkInv(s)
    BY Parts
  <1>k. s \in Session /\ s # NULL /\ s \notin Peers
    BY SessionKinds
  <1>1. BacklogKept(s)
    BY <1>0, BacklogKeeps
       DEF ReturnOnUpdate, TimesOut, GetsNull, GetsFailure, PostAccept, FailReturns, PeerAdded,
           DatagramReturns, ReceivesNothing, ReceivesFromKnown, ReceivesWithoutID,
           ReceivesFromNew, kernelVars
  <1>2. PortKept(s)
    BY <1>0, PortKeeps
       DEF ReturnOnUpdate, TimesOut, GetsNull, GetsFailure, PostAccept, FailReturns, PeerAdded,
           DatagramReturns, ReceivesNothing, ReceivesFromKnown, ReceivesWithoutID,
           ReceivesFromNew, Succeeds
  <1>3. CASE \/ ReturnOnUpdate \/ TimesOut \/ GetsNull \/ GetsFailure \/ PostAccept
             \/ FailReturns \/ PeerAdded \/ DatagramReturns
    <2>1. tcp' = tcp /\ recv' = recv /\ UNCHANGED <<sock, heap, m_nSessionID>>
      BY <1>3
         DEF ReturnOnUpdate, TimesOut, GetsNull, GetsFailure, PostAccept, FailReturns,
             PeerAdded, DatagramReturns, kernelVars, sessionVars
    <2>2. cur' \in {NULL, cur} /\ pc' # "OnConnected"
      BY <1>3
         DEF ReturnOnUpdate, TimesOut, GetsNull, GetsFailure, PostAccept, FailReturns,
             PeerAdded, DatagramReturns, ToLoop, LoopHead
    <2>3. SessionKept(s)
      BY <1>k, <1>1, <1>2, <2>1, <2>2 DEF SessionKept
    <2> QED
      BY <1>0, <2>3, WorkKept
  <1>4. ASSUME NEW p \in Peers,
               \/ ReceivesNothing(p) \/ ReceivesFromKnown(p)
               \/ ReceivesWithoutID(p) \/ ReceivesFromNew(p)
        PROVE  WorkInv(s)'
    <2>1. tcp' = tcp /\ recv' = recv /\ sock' = sock
      BY <1>4
         DEF ReceivesNothing, ReceivesFromKnown, ReceivesWithoutID, ReceivesFromNew,
             kernelVars, sessionVars
    <2>2. heap'[s] = heap[s] /\ m_nSessionID'[s] = m_nSessionID[s]
      BY <1>0, <1>k, <1>4
         DEF ReceivesNothing, ReceivesFromKnown, ReceivesWithoutID, ReceivesFromNew,
             sessionVars, SessionTypeOK
    <2>3. cur' \in {NULL, p} /\ pc' # "OnConnected"
      BY <1>4
         DEF ReceivesNothing, ReceivesFromKnown, ReceivesWithoutID, ReceivesFromNew, ToLoop,
             LoopHead, CallBack
    <2>4. SessionKept(s)
      BY <1>k, <1>1, <1>2, <2>1, <2>2, <2>3 DEF SessionKept
    <2> QED
      BY <1>0, <2>4, WorkKept
  <1> QED
    BY <1>3, <1>4

(* Data, ends and resets of the connections, and Stop(). *)
LEMMA NetworkKeepsWork ==
    ASSUME KernelInv, NEW s \in TcpSession,
           \/ \E t \in TcpSession : PeerSends(t) \/ PeerCloses(t) \/ PeerResets(t)
           \/ RecvFromCompletes \/ AppStops
    PROVE  WorkInv(s)'
  <1>0. PortInv /\ SessionTypeOK /\ KernelTypes /\ WorkInv(s)
    BY Parts
  <1>1. BacklogKept(s)
    BY <1>0, BacklogKeeps
       DEF PeerSends, PeerCloses, PeerResets, RecvFromCompletes, AppStops, kernelVars
  <1>2. PortKept(s)
    <2>1. CASE RecvFromCompletes
      BY <1>0, <2>1, ReadFromPacket, PortKeeps
    <2> QED
      BY <1>0, <2>1, PortKeeps, StopsKeep DEF PeerSends, PeerCloses, PeerResets
  <1>3. tcp'[s] = tcp[s] \/ {tcp[s], tcp'[s]} \subseteq Stands
    BY <1>0
       DEF PeerSends, PeerCloses, PeerResets, RecvFromCompletes, AppStops, kernelVars, Stands,
           KernelTypes
  <1>4. UNCHANGED <<recv, cur, pc, sock, heap, m_nSessionID>>
    BY DEF PeerSends, PeerCloses, PeerResets, RecvFromCompletes, AppStops, StopRunning,
           kernelVars, threadVars, sessionVars
  <1>5. SessionKept(s)
    BY <1>1, <1>2, <1>3, <1>4 DEF SessionKept
  <1> QED
    BY <1>0, <1>5, WorkKept

(* A handler that returns posts the receive of its session again. *)
LEMMA PostReadKeepsWork ==
    ASSUME KernelInv, NEW s \in TcpSession, AcceptReturns \/ ReadReturns \/ ConnectReturns
    PROVE  WorkInv(s)'
  <1>0. PortInv /\ SessionTypeOK /\ KernelTypes /\ CurInv /\ WorkInv(s)
    BY Parts
  <1>k. s \in Session /\ s # NULL
    BY SessionKinds
  <1>1. /\ UNCHANGED <<tcp, sock, heap, m_nSessionID, backlog, port>>
        /\ cur' = NULL /\ pc' # "OnConnected"
    BY DEF AcceptReturns, ReadReturns, ConnectReturns, Reads, ToLoop, ToPostAccept, LoopHead,
           sessionVars
  <1>2. recv' = recv \/ (recv' = recv \cup {cur} /\ sock[cur] = "open")
    BY DEF AcceptReturns, ReadReturns, ConnectReturns, Reads, PostRead
  <1>3. BacklogKept(s) /\ PortKept(s)
    BY <1>0, <1>1, BacklogKeeps, PortKeeps
  <1>4. CASE s \in recv' => s \in recv
    <2>1. SessionKept(s)
      BY <1>k, <1>1, <1>3, <1>4 DEF SessionKept
    <2> QED
      BY <1>0, <2>1, WorkKept
  <1>5. CASE s \in recv' /\ s \notin recv
    <2>1. cur = s /\ sock[s] = "open"
      BY <1>k, <1>1, <1>2, <1>5
    <2>2. tcp[s] \in Stands
      BY <1>0, <2>1
         DEF WorkInv, SockInv, ConnectInv, Connecting, InWork, KernelTypes, TcpState, Stands,
             TcpSession
    <2>3. SockInv(s)'
      BY <1>0, <1>1, <2>2 DEF WorkInv, SockInv
    <2>4. ReadInv(s)' /\ IdInv(s)'
      BY <1>0, <1>k, <1>1, <1>5, <2>1 DEF WorkInv, ReadInv, IdInv, InWork
    <2>5. s \in Accepted => WaitInv(s)'
      BY <1>0, <1>1, <2>1 DEF WorkInv, WaitInv, Waiting, InWork
    <2>6. s \in Connectors => ConnectInv(s)'
      BY <1>0, <1>1, <2>1 DEF WorkInv, ConnectInv, Connecting, InWork
    <2> QED
      BY <2>3, <2>4, <2>5, <2>6 DEF WorkInv
  <1> QED
    BY <1>4, <1>5

(* A packet of s is taken. *)
LEMMA TakenFor ==
    ASSUME PortInv, NEW op, NEW s, NEW size, Succeeds(op, s, size)
    PROVE  \E p \in PacketOf(contexts) :
              p.op = op /\ p.on = s /\ p.ok /\ Gets(p) /\ \A t : LeavesFor(p, t)
  BY GetsForAll DEF Succeeds

(* DoRead reports a session whose only receive has completed. *)
LEMMA DispatchReadKeepsWork ==
    ASSUME KernelInv, NEW t \in TcpSession, NEW n, DispatchRead(t, n), NEW s \in TcpSession
    PROVE  WorkInv(s)'
  <1>0. PortInv /\ SessionTypeOK /\ KernelTypes /\ CurInv /\ WorkInv(s) /\ Succeeds("IO_READ", t, n)
    BY Parts DEF DispatchRead, DoRead
  <1>1. /\ UNCHANGED <<tcp, recv, sock, heap, m_nSessionID, backlog>>
        /\ cur' = t /\ pc' # "OnConnected"
    BY DEF DispatchRead, DoRead, CallBack, kernelVars
  <1>2. PICK p \in PacketOf(contexts) :
            p.op = "IO_READ" /\ p.on = t /\ Gets(p) /\ \A u : LeavesFor(p, u)
    BY <1>0, TakenFor
  <1>3. BacklogKept(s) /\ PortKept(s)
    BY <1>0, <1>1, <1>2, BacklogKeeps, PortKeeps
  <1>4. CASE s # t
    <2>1. SessionKept(s)
      BY <1>1, <1>3, <1>4 DEF SessionKept
    <2> QED
      BY <1>0, <2>1, WorkKept
  <1>5. CASE s = t
    <2>1. Has(port, ReadOf(s)) /\ InWork(s)
      BY <1>2, <1>5 DEF LeavesFor, Leaves, InWork
    <2>2. SockInv(s)' /\ IdInv(s)'
      BY <1>0, <1>1, <2>1 DEF WorkInv, SockInv, IdInv
    <2>3. ReadInv(s)'
      BY <1>0, <1>1, <1>2, <1>5, <2>1 DEF WorkInv, ReadInv, LeavesFor, Leaves
    <2>4. s \in Accepted => WaitInv(s)'
      BY <1>0, <1>1, <1>3, <2>1 DEF WorkInv, WaitInv, Waiting, PortKept
    <2>5. s \in Connectors => ConnectInv(s)'
      BY <1>0, <1>1, <1>3, <2>1 DEF WorkInv, ConnectInv, Connecting, PortKept
    <2> QED
      BY <2>2, <2>3, <2>4, <2>5 DEF WorkInv
  <1> QED
    BY <1>4, <1>5

(* DoConnect begins to work with a connector. *)
LEMMA DispatchConnectKeepsWork ==
    ASSUME KernelInv, NEW k \in Connectors, DispatchConnect(k), NEW s \in TcpSession
    PROVE  WorkInv(s)'
  <1>0. PortInv /\ SessionTypeOK /\ KernelTypes /\ CurInv /\ WorkInv(s)
        /\ Succeeds("IO_CONNECT", k, 0)
    BY Parts DEF DispatchConnect
  <1>1. UNCHANGED <<tcp, recv, sock, heap, m_nSessionID, backlog>> /\ cur' = k
    BY DEF DispatchConnect, CallBack, kernelVars
  <1>2. PICK p \in PacketOf(contexts) :
            p.op = "IO_CONNECT" /\ p.on = k /\ p.ok /\ Gets(p) /\ \A u : LeavesFor(p, u)
    BY <1>0, TakenFor
  <1>3. BacklogKept(s) /\ PortKept(s)
    BY <1>0, <1>1, <1>2, BacklogKeeps, PortKeeps
  <1>4. CASE s # k
    <2>1. SessionKept(s)
      BY <1>1, <1>3, <1>4 DEF SessionKept
    <2> QED
      BY <1>0, <2>1, WorkKept
  <1>5. CASE s = k
    <2>1. Has(port, ConnectOf(s)) /\ Has(port, ConnectedOf(s)) /\ s \in Connectors
          /\ s \notin Accepted
      BY <1>2, <1>5, SessionKinds DEF LeavesFor, Leaves, NewedSession
    <2>2. ConnectInv(s) /\ ~InWork(s) /\ tcp[s] \in Stands /\ sock[s] = "open"
      BY <1>0, <2>1 DEF WorkInv, ConnectInv, Connecting
    <2>3. SockInv(s)' /\ IdInv(s)'
      BY <1>0, <1>1, <2>1 DEF WorkInv, SockInv, IdInv
    <2>4. ReadInv(s)'
      BY <1>0, <1>1, <1>3, <2>2 DEF WorkInv, ReadInv, InWork, PortKept
    <2>5. ~Has(port', ConnectOf(s)) /\ AtMostOne(port', ConnectOf(s))
          /\ ~Has(port', ConnectedOf(s))
      BY <1>2, <1>5, <2>2, HasMore DEF ConnectInv, LeavesFor, Leaves
    <2>6. ConnectInv(s)'
      BY <1>1, <2>2, <2>5 DEF ConnectInv, Connecting, Stands
    <2> QED
      BY <2>1, <2>3, <2>4, <2>6 DEF WorkInv
  <1> QED
    BY <1>4, <1>5

(* DoAccpet allocates a session, or closes the connection. *)
LEMMA AcceptKeepsWork ==
    ASSUME KernelInv, NEW c \in Accepted, NEW x, NEW s \in TcpSession,
           AcceptWithoutID(c, x) \/ AcceptPortFails(c, x) \/ Accept(c, x)
    PROVE  WorkInv(s)'
  <1>0. PortInv /\ SessionTypeOK /\ KernelTypes /\ CurInv /\ WorkInv(s) /\ Accepts(c, x)
    BY Parts DEF AcceptWithoutID, AcceptPortFails, Accept
  <1>k. s \in Session /\ s # NULL /\ c \in TcpSession /\ c \notin Connectors
    BY SessionKinds
  <1>1. UNCHANGED backlog /\ cur' \in {c, NULL} /\ pc' # "OnConnected"
    BY DEF AcceptWithoutID, AcceptPortFails, Accept, CallBack, ToPostAccept, kernelVars
  <1>2. PICK p : p.op = "IO_ACCEPT" /\ p.on = c /\ p.ok /\ Gets(p)
    BY <1>0 DEF Accepts
  <1>3. p \in PacketOf(contexts) /\ \A u : LeavesFor(p, u)
    BY <1>0, <1>2, GetsForAll
  <1>4. BacklogKept(s) /\ PortKept(s)
    BY <1>0, <1>1, <1>2, BacklogKeeps, PortKeeps
  <1>5. recv' \subseteq recv
    BY DEF AcceptWithoutID, AcceptPortFails, Accept, Discard, kernelVars
  <1>6. CASE s # c
    <2>1. tcp'[s] = tcp[s] /\ sock'[s] = sock[s] /\ heap'[s] = heap[s]
          /\ m_nSessionID'[s] = m_nSessionID[s]
      BY <1>0, <1>k, <1>6
         DEF AcceptWithoutID, AcceptPortFails, Accept, Discard, kernelVars, SessionTypeOK
    <2>2. SessionKept(s)
      BY <1>k, <1>1, <1>4, <1>5, <1>6, <2>1 DEF SessionKept
    <2> QED
      BY <1>0, <2>2, WorkKept
  <1>7. CASE s = c
    <2>1. Has(port, AcceptOf(s)) /\ Has(port, AcceptedOf(s)) /\ WaitInv(s)
      BY <1>0, <1>2, <1>3, <1>7 DEF WorkInv, LeavesFor, Leaves
    <2>2. ~InWork(s) /\ tcp[s] \in Stands /\ ~Has(backlog, {s}) /\ ~Has(port', AcceptOf(s))
          /\ AtMostOne(port', AcceptOf(s)) /\ AtMostOne(backlog, {s})
      BY <1>2, <1>3, <1>7, <2>1 DEF WaitInv, Waiting, LeavesFor, Leaves
    <2>3. ~Has(port', AcceptedOf(s))
      BY <2>2, HasMore
    <2>4. ReadInv(s)'
      BY <1>0, <1>4, <1>5, <2>2 DEF WorkInv, ReadInv, InWork, PortKept
    <2>5. WaitInv(s)'
      BY <1>1, <2>2, <2>3 DEF WaitInv, Waiting
    <2>6. SockInv(s)'
      <3>1. s \notin recv'
        BY <1>5, <2>2 DEF InWork
      <3>2. tcp'[s] \in Stands \/ (tcp'[s] = "closed" /\ sock'[s] = "closed")
        BY <1>0, <1>7, <2>2
           DEF AcceptWithoutID, AcceptPortFails, Accept, Discard, kernelVars, SessionTypeOK
      <3> QED
        BY <1>k, <1>7, <3>1, <3>2 DEF SockInv, Stands
    <2>7. IdInv(s)'
      <3>1. m_nSessionID'[s] \in SessionID \/ (m_nSessionID' = m_nSessionID /\ cur' = NULL)
        BY <1>0, <1>7, <1>k, QueueType
           DEF AcceptWithoutID, AcceptPortFails, Accept, ToPostAccept, SessionTypeOK
      <3>2. tcp'[s] # "syn" /\ s \notin recv' /\ ~Has(port', ReadOf(s))
        BY <1>4, <2>2, <2>6, <1>5, <1>7 DEF SockInv, Stands, InWork, PortKept
      <3>3. ~Has(port, ConnectOf(s))
        <4>1. ASSUME NEW i \in DOMAIN port PROVE port[i] \notin ConnectOf(s)
          BY <1>0, <1>k, <1>7 DEF PortInv, PacketOf, ConnectOf
        <4> QED
          BY <4>1 DEF Has
      <3> QED
        BY <1>k, <1>4, <3>1, <3>2, <3>3 DEF IdInv, InWork, PortKept
    <2> QED
      BY <1>k, <1>7, <2>4, <2>5, <2>6, <2>7 DEF WorkInv
  <1> QED
    BY <1>6, <1>7

(* Descriptors are closed: of a session of the table, or of the handler's. *)
LEMMA DiscardKeepsWork ==
    ASSUME KernelInv, NEW s \in TcpSession, NEW t, NEW S \in SUBSET {t}, S \subseteq TcpSession,
           Discard(S), port' = port \o Aborted(S),
           UNCHANGED <<m_nSessionID, backlog>>, cur' \in {NULL, cur}, pc' # "OnConnected",
           s \in S => sock'[s] # "open", s \notin S => sock'[s] = sock[s],
           s \notin S \/ s \in Connectors => heap'[s] = heap[s],
           s \in S /\ s \in Accepted => ~Waiting(s),
           s \in S /\ s \in Connectors => ~Connecting(s)
    PROVE  WorkInv(s)'
  <1>0. PortInv /\ KernelTypes /\ CurInv /\ WorkInv(s) /\ recv \subseteq TcpSession
    BY Parts DEF KernelTypes
  <1>k. s \in Session /\ s # NULL
    BY SessionKinds
  <1>1. recv' = recv \ S /\ tcp'[s] = IF s \in S THEN "closed" ELSE tcp[s]
    BY DEF Discard
  <1>2. BacklogKept(s)
    BY <1>0, BacklogKeeps
  <1>3. \/ port' = port
        \/ t \in recv /\ t \in S
           /\ \E p \in ReadOf(t) : p \in PacketOf(contexts) /\ port' = Append(port, p)
    BY <1>0, AbortsHas
  <1>4. CASE s \notin S
    <2>1. PortKept(s)
      <3>1. CASE port' = port
        BY <1>0, <3>1, PortKeeps
      <3>2. ASSUME NEW p \in ReadOf(t), p \in PacketOf(contexts), port' = Append(port, p), t \in S
            PROVE  PortKept(s)
        <4>1. p.on # s
          BY <1>4, <3>2 DEF ReadOf
        <4> QED
          BY <1>0, <3>2, <4>1, PortKeeps
      <3> QED
        BY <1>3, <3>1, <3>2
    <2>2. SessionKept(s)
      BY <1>k, <1>1, <1>2, <1>4, <2>1 DEF SessionKept
    <2> QED
      BY <1>0, <2>2, WorkKept
  <1>5. CASE s \in S
    <2>1. s = t /\ s \notin recv' /\ tcp'[s] = "closed"
      BY <1>1, <1>5
    <2>2. /\ Has(port', ReadOf(s)) => Has(port, ReadOf(s)) \/ s \in recv
          /\ Has(port', AcceptOf(s)) => Has(port, AcceptOf(s))
          /\ Has(port', ConnectOf(s)) => Has(port, ConnectOf(s))
          /\ AtMostOne(port', ReadOf(s))
          /\ AtMostOne(port, AcceptOf(s)) => AtMostOne(port', AcceptOf(s))
          /\ AtMostOne(port, ConnectOf(s)) => AtMostOne(port', ConnectOf(s))
          /\ cur = s => ~Has(port', ReadOf(s))
      <3>1. CASE port' = port
        BY <1>0, <3>1 DEF WorkInv, ReadInv
      <3>2. CASE port' # port
        <4>1. t \in recv
          BY <1>3, <3>2
        <4>2. PICK p \in ReadOf(t) : p \in PacketOf(contexts) /\ port' = Append(port, p)
          BY <1>3, <3>2
        <4>3. JoinsFor(p, s) /\ p.op = "IO_READ" /\ p.on = s
          BY <1>0, <2>1, <4>2, PostsForAll DEF ReadOf
        <4> QED
          BY <1>0, <2>1, <4>1, <4>3 DEF WorkInv, ReadInv, JoinsFor, Joins
      <3> QED
        BY <3>1, <3>2
    <2>3. SockInv(s)'
      BY <1>0, <1>5, <2>1 DEF WorkInv, SockInv
    <2>4. ReadInv(s)'
      BY <1>k, <2>1, <2>2 DEF ReadInv
    <2>5. IdInv(s)'
      BY <1>0, <1>k, <2>1, <2>2 DEF WorkInv, IdInv, InWork
    <2>6. s \in Accepted => WaitInv(s)'
      <3>1. s \in Accepted => ~Has(port', AcceptedOf(s))
        BY <1>5, <2>2, HasMore DEF Waiting
      <3> QED
        BY <1>0, <1>2, <1>5, <2>2, <3>1 DEF WorkInv, WaitInv, Waiting, BacklogKept
    <2>7. s \in Connectors => ConnectInv(s)'
      <3>1. s \in Connectors => ~Has(port', ConnectedOf(s)) /\ ~Has(port', ConnectOf(s))
        BY <1>5, <2>2, HasMore DEF Connecting
      <3> QED
        BY <1>0, <1>5, <2>1, <2>2, <3>1 DEF WorkInv, ConnectInv, Connecting
    <2> QED
      BY <2>3, <2>4, <2>5, <2>6, <2>7 DEF WorkInv
  <1> QED
    BY <1>4, <1>5

(* A session of the table is not one that waits or connects. *)
LEMMA SlotIsQuiet ==
    ASSUME KernelInv, NEW id \in SessionID, m_Sessions[id] \in TcpSession
    PROVE  /\ m_Sessions[id] \in Accepted => ~Waiting(m_Sessions[id])
           /\ m_Sessions[id] \in Connectors => ~Connecting(m_Sessions[id])
  <1> DEFINE s == m_Sessions[id]
  <1>1. s \in TcpSession /\ s \in Session /\ WorkInv(s) /\ SlotInv
    BY Parts, SessionKinds
  <1> QED
    BY <1>1 DEF SlotInv, WorkInv, WaitInv

(* OnSessionDrop closes the session of the slot, KickSession too. *)
LEMMA EraseKeepsWork ==
    ASSUME KernelInv, NEW s \in TcpSession, DropReturns \/ \E id \in SessionID : AppKicks(id)
    PROVE  WorkInv(s)'
  <1>0. SessionTypeOK /\ KernelTypes /\ CurInv
    BY Parts
  <1>k. s \in Session /\ s \notin Peers /\ (s \in Connectors => s \notin NewedSession)
    BY SessionKinds
  <1>1. ASSUME NEW id \in SessionID, NEW K, K = Accepted \/ K = TcpSession,
               Erase(id), sock' = Closed({m_Sessions[id]} \cap K),
               Discard({m_Sessions[id]} \cap K), port' = port \o Aborted({m_Sessions[id]} \cap K),
               UNCHANGED <<m_nSessionID, backlog>>, cur' \in {NULL, cur}, pc' # "OnConnected"
        PROVE  WorkInv(s)'
    <2> DEFINE t == m_Sessions[id]
               S == {t} \cap K
    <2>1. S \in SUBSET {t} /\ S \subseteq TcpSession /\ (s \in S => s = t)
      BY <1>1, SessionKinds
    <2>2. (s \in S => sock'[s] # "open") /\ (s \notin S => sock'[s] = sock[s])
      BY <1>0, <1>1 DEF Closed, SessionTypeOK
    <2>3. s \notin S \/ s \in Connectors => heap'[s] = heap[s]
      BY <1>0, <1>1, <1>k, SessionKinds DEF Erase, TcpSession, NewedSession
    <2>4. s \in S /\ s \in Accepted => ~Waiting(s)
      BY <2>1, SlotIsQuiet
    <2>5. s \in S /\ s \in Connectors => ~Connecting(s)
      BY <2>1, SlotIsQuiet
    <2> QED
      BY <1>1, <2>1, <2>2, <2>3, <2>4, <2>5, DiscardKeepsWork
  <1>2. CASE DropReturns
    <2>1. m_nSessionID[cur] \in SessionID
      BY <1>0, <1>2, CurHasID, SessionKinds DEF DropReturns, CurInv
    <2> QED
      BY <1>1, <1>2, <2>1 DEF DropReturns, DelSession, ToLoop, LoopHead
  <1>3. ASSUME NEW id \in SessionID, AppKicks(id) PROVE WorkInv(s)'
    BY <1>1, <1>3 DEF AppKicks, KickSession, threadVars
  <1> QED
    BY <1>2, <1>3

(* DoConnect closes the descriptor of the connector it works with. *)
LEMMA ConnectReadFailsKeepsWork ==
    ASSUME KernelInv, NEW s \in TcpSession, ConnectReadFails
    PROVE  WorkInv(s)'
  <1>0. SessionTypeOK /\ CurInv /\ PortInv
    BY Parts
  <1>1. cur \in Connectors /\ cur \in TcpSession /\ cur \notin Accepted
    BY <1>0, SessionKinds DEF ConnectReadFails, CurInv, NewedSession
  <1>2. ReadInv(cur) /\ ConnectInv(cur)
    BY <1>1, Parts DEF WorkInv
  <1>3. Aborted({cur}) = <<>>
    BY <1>2 DEF Aborted, ReadInv
  <1>4. port' = port \o Aborted({cur})
    <2>1. ASSUME NEW T, port \in Seq(T) PROVE port \o <<>> = port
      BY <2>1
    <2> QED
      BY <1>0, <1>3, <2>1 DEF PortInv, ConnectReadFails
  <1>5. ~Connecting(cur)
    BY <1>2 DEF ConnectInv, InWork
  <1>6. /\ s \in {cur} => sock'[s] # "open"
        /\ s \notin {cur} => sock'[s] = sock[s]
    BY <1>0, <1>1 DEF ConnectReadFails, SessionTypeOK
  <1>7. UNCHANGED <<m_nSessionID, backlog, heap>> /\ cur' = cur /\ pc' # "OnConnected"
        /\ Discard({cur})
    BY DEF ConnectReadFails, CallBack
  <1> QED
    BY <1>1, <1>4, <1>5, <1>6, <1>7, DiscardKeepsWork

(* An AcceptEx completes: the connection waits at the port now. *)
LEMMA AcceptCompletesKeepsWork ==
    ASSUME KernelInv, NEW s \in TcpSession, AcceptCompletes
    PROVE  WorkInv(s)'
  <1> DEFINE c == Head(backlog)
  <1>0. TypeInv /\ PortInv /\ SessionTypeOK /\ KernelTypes /\ WorkInv(s)
    BY Parts
  <1>1. c \in Accepted /\ c \in TcpSession /\ c \notin Connectors
    BY <1>0, AcceptPacket, SessionKinds
  <1>2. PICK p \in PacketOf(contexts) :
            /\ port' = Append(port, p) /\ p.op = "IO_ACCEPT" /\ p.on = c
            /\ \/ p.ok /\ UNCHANGED <<tcp, rx, recv, failures>>
               \/ ~p.ok /\ Discard({c}) /\ Fails
    BY <1>0, AcceptPacket
  <1>3. JoinsFor(p, s)
    BY <1>0, <1>2, PostsForAll
  <1>4. /\ UNCHANGED <<sock, heap, m_nSessionID, pc, cur>>
        /\ backlog # <<>> /\ backlog' = Tail(backlog)
    BY DEF AcceptCompletes, sessionVars, threadVars
  <1>5. BacklogKept(s)
    BY <1>0, <1>4, BacklogKeeps
  <1>6. recv' \subseteq recv
    BY <1>2 DEF Discard
  <1>7. CASE s # c
    <2>1. PortKept(s)
      BY <1>0, <1>2, <1>7, PortKeeps
    <2>2. tcp'[s] = tcp[s]
      BY <1>2, <1>7 DEF Discard
    <2>3. SessionKept(s)
      BY <1>4, <1>5, <1>6, <2>1, <2>2 DEF SessionKept
    <2> QED
      BY <1>0, <2>3, WorkKept
  <1>8. CASE s = c
    <2>1. WaitInv(s) /\ s \in Accepted /\ s \notin Connectors
      BY <1>0, <1>1, <1>8 DEF WorkInv
    <2>2. Has(backlog, {s}) /\ ~Has(backlog', {s})
      BY <1>0, <1>4, <1>8, <2>1, BacklogKeeps DEF WaitInv
    <2>3. /\ heap[s] # "live" /\ sock[s] # "open" /\ ~InWork(s) /\ tcp[s] \in Stands
          /\ ~Has(port, AcceptOf(s)) /\ ~Has(port, AcceptedOf(s))
      BY <2>1, <2>2, HasMore DEF WaitInv, Waiting
    <2>4. ~InWork(s)'
      BY <1>2, <1>3, <1>4, <1>6, <2>3 DEF InWork, JoinsFor, Joins
    <2>5. (p.ok => tcp'[s] = tcp[s]) /\ (~p.ok => tcp'[s] = "closed")
      BY <1>2, <1>8, <2>1, SessionKinds DEF Discard
    <2>6. SockInv(s)'
      BY <1>4, <2>1, <2>3, <2>4, <2>5 DEF SockInv, Stands, InWork
    <2>7. ReadInv(s)' /\ IdInv(s)'
      BY <1>0, <1>2, <1>3, <1>4, <2>3, <2>4, <2>5
         DEF WorkInv, ReadInv, IdInv, InWork, JoinsFor, Joins, Stands
    <2>8. WaitInv(s)'
      <3>1. /\ AtMostOne(port', AcceptOf(s)) /\ (Has(port', AcceptedOf(s)) => p.ok)
        BY <1>2, <1>3, <2>1, <2>3 DEF WaitInv, JoinsFor, Joins
      <3> QED
        BY <1>4, <1>5, <2>1, <2>2, <2>3, <2>4, <2>5, <3>1 DEF WaitInv, Waiting, BacklogKept
    <2> QED
      BY <2>1, <2>6, <2>7, <2>8 DEF WorkInv
  <1> QED
    BY <1>7, <1>8

(* A WSARecv completes: the receive waits at the port now. *)
LEMMA RecvCompletesKeepsWork ==
    ASSUME KernelInv, NEW s \in TcpSession, NEW t \in TcpSession, RecvCompletes(t)
    PROVE  WorkInv(s)'
  <1>0. TypeInv /\ PortInv /\ KernelTypes /\ WorkInv(s)
    BY Parts
  <1>1. PICK p \in PacketOf(contexts) : port' = Append(port, p) /\ p.op = "IO_READ" /\ p.on = t
    BY <1>0, ReadPacket
  <1>2. JoinsFor(p, s)
    BY <1>0, <1>1, PostsForAll
  <1>3. UNCHANGED <<tcp, sock, heap, m_nSessionID, pc, cur, backlog>>
        /\ t \in recv /\ recv' = recv \ {t}
    BY DEF RecvCompletes, sessionVars, threadVars
  <1>4. BacklogKept(s)
    BY <1>0, <1>3, BacklogKeeps
  <1>5. CASE s # t
    <2>1. PortKept(s)
      BY <1>0, <1>1, <1>5, PortKeeps
    <2>2. SessionKept(s)
      BY <1>3, <1>4, <2>1 DEF SessionKept
    <2> QED
      BY <1>0, <2>2, WorkKept
  <1>6. CASE s = t
    <2>1. InWork(s) /\ s \in recv /\ s \notin recv' /\ cur # s /\ ~Has(port, ReadOf(s))
      BY <1>0, <1>3, <1>6 DEF WorkInv, ReadInv, InWork
    <2>2. SockInv(s)' /\ ReadInv(s)' /\ IdInv(s)'
      BY <1>0, <1>1, <1>2, <1>3, <2>1
         DEF WorkInv, SockInv, ReadInv, IdInv, JoinsFor, Joins
    <2>3. s \in Accepted => WaitInv(s)'
      BY <1>0, <1>1, <1>2, <1>3, <1>4, <2>1
         DEF WorkInv, WaitInv, Waiting, JoinsFor, Joins, BacklogKept
    <2>4. s \in Connectors => ConnectInv(s)'
      BY <1>0, <1>1, <1>2, <1>3, <2>1 DEF WorkInv, ConnectInv, Connecting, JoinsFor, Joins
    <2> QED
      BY <2>2, <2>3, <2>4 DEF WorkInv
  <1> QED
    BY <1>5, <1>6

(* A ConnectEx completes: its packet waits at the port now. *)
LEMMA ConnectCompletesKeepsWork ==
    ASSUME KernelInv, NEW s \in TcpSession, NEW k \in Connectors, ConnectCompletes(k)
    PROVE  WorkInv(s)'
  <1>0. TypeInv /\ PortInv /\ KernelTypes /\ WorkInv(s)
    BY Parts
  <1>1. PICK st \in {"est", "refused"}, p \in PacketOf(contexts) :
            /\ tcp' = [tcp EXCEPT ![k] = st] /\ port' = Append(port, p)
            /\ p.op = "IO_CONNECT" /\ p.on = k /\ (p.ok <=> st = "est")
    BY ConnectPacket
  <1>2. JoinsFor(p, s)
    BY <1>0, <1>1, PostsForAll
  <1>3. UNCHANGED <<sock, heap, m_nSessionID, pc, cur, backlog, recv>> /\ tcp[k] = "syn"
    BY DEF ConnectCompletes, sessionVars, threadVars
  <1>4. BacklogKept(s)
    BY <1>0, <1>3, BacklogKeeps
  <1>5. CASE s # k
    <2>1. PortKept(s) /\ tcp'[s] = tcp[s]
      BY <1>0, <1>1, <1>5, PortKeeps
    <2>2. SessionKept(s)
      BY <1>3, <1>4, <2>1 DEF SessionKept
    <2> QED
      BY <1>0, <2>2, WorkKept
  <1>6. CASE s = k
    <2>1. s \in Connectors /\ s \notin Accepted /\ ConnectInv(s) /\ Connecting(s) /\ ~InWork(s)
          /\ tcp'[s] = st /\ sock[s] = "open"
      BY <1>0, <1>1, <1>3, <1>6, SessionKinds
         DEF WorkInv, ConnectInv, Connecting, KernelTypes, NewedSession
    <2>2. ~Has(port, ConnectOf(s)) /\ ~Has(port, ConnectedOf(s))
      BY <1>3, <1>6, <2>1, HasMore DEF ConnectInv
    <2>3. SockInv(s)' /\ ReadInv(s)' /\ IdInv(s)'
      BY <1>0, <1>1, <1>2, <1>3, <1>6, <2>1
         DEF WorkInv, SockInv, ReadInv, IdInv, InWork, JoinsFor, Joins
    <2>4. ConnectInv(s)'
      BY <1>1, <1>2, <1>3, <2>1, <2>2
         DEF ConnectInv, Connecting, InWork, JoinsFor, Joins, Stands
    <2> QED
      BY <2>1, <2>3, <2>4 DEF WorkInv
  <1> QED
    BY <1>5, <1>6

(* AddTCPConnector begins to connect. *)
LEMMA AppConnectsKeepsWork ==
    ASSUME KernelInv, NEW s \in TcpSession, NEW k \in Connectors, AppConnects(k)
    PROVE  WorkInv(s)'
  <1>0. PortInv /\ KernelTypes /\ SessionTypeOK /\ WorkInv(s)
    BY Parts
  <1>1. /\ UNCHANGED <<sock, heap, pc, cur, backlog, recv, port>> /\ tcp[k] = "fresh"
        /\ tcp' = tcp \/ tcp' = [tcp EXCEPT ![k] = "syn"]
    BY DEF AppConnects, threadVars
  <1>2. BacklogKept(s) /\ PortKept(s)
    BY <1>0, <1>1, BacklogKeeps, PortKeeps
  <1>3. m_nSessionID' = [m_nSessionID EXCEPT ![k] = NewSessionID] /\ NewSessionID \in SessionID
    BY <1>0, QueueType DEF AppConnects
  <1>k. s \in Session /\ (s \in Connectors => s \notin Accepted)
    BY SessionKinds DEF NewedSession
  <1>4. m_nSessionID'[s] = m_nSessionID[s] \/ m_nSessionID'[s] \in SessionID
    BY <1>0, <1>k, <1>3 DEF SessionTypeOK
  <1>5. CASE tcp'[s] = tcp[s]
    <2>1. SessionKept(s)
      BY <1>1, <1>2, <1>4, <1>5 DEF SessionKept
    <2> QED
      BY <1>0, <2>1, WorkKept
  <1>6. CASE tcp'[s] # tcp[s]
    <2>1. s = k /\ tcp'[s] = "syn" /\ m_nSessionID'[s] \in SessionID
      BY <1>0, <1>k, <1>1, <1>3, <1>6 DEF KernelTypes, SessionTypeOK
    <2>2. SockInv(s)' /\ ReadInv(s)' /\ IdInv(s)'
      BY <1>0, <1>k, <1>1, <2>1 DEF WorkInv, SockInv, ReadInv, IdInv, Stands
    <2>3. ConnectInv(s)'
      BY <1>0, <1>1, <2>1, HasMore DEF WorkInv, ConnectInv, Connecting, InWork
    <2> QED
      BY <1>k, <2>1, <2>2, <2>3 DEF WorkInv
  <1> QED
    BY <1>5, <1>6

(* A client connects with a connection that the service does not know. *)
LEMMA ClientConnectKeepsWork ==
    ASSUME KernelInv, NEW s \in TcpSession, NEW c \in Accepted, ClientConnect(c)
    PROVE  WorkInv(s)'
  <1>0. PortInv /\ KernelTypes /\ SessionTypeOK /\ WorkInv(s)
    BY Parts
  <1>1. /\ UNCHANGED <<sock, heap, m_nSessionID, pc, cur, recv, port>>
        /\ tcp[c] \in {"none", "closed"} /\ heap[c] # "live" /\ cur # c
        /\ tcp' = [tcp EXCEPT ![c] = "est"] /\ backlog' = Append(backlog, c)
        /\ \A p \in Packets : p.on # c
    BY DEF ClientConnect, threadVars, sessionVars
  <1>2. PortKept(s)
    BY <1>0, <1>1, PortKeeps
  <1>3. CASE s # c
    <2>1. BacklogKept(s)
      BY <1>0, <1>1, <1>3, BacklogKeeps
    <2>2. SessionKept(s)
      BY <1>0, <1>1, <1>2, <1>3, <2>1 DEF SessionKept, KernelTypes
    <2> QED
      BY <1>0, <2>2, WorkKept
  <1>4. CASE s = c
    <2>1. s \in Accepted /\ s \notin Connectors /\ tcp'[s] = "est"
      BY <1>0, <1>1, <1>4, SessionKinds DEF NewedSession, KernelTypes
    <2>2. ASSUME NEW M, \A p \in M : p.on = s PROVE ~Has(port, M)
      BY <1>1, <1>4, <2>2 DEF Has, Packets
    <2>3. ~Has(port, ReadOf(s)) /\ ~Has(port, AcceptOf(s)) /\ ~Has(port, ConnectOf(s))
      BY <2>2 DEF ReadOf, AcceptOf, ConnectOf
    <2>4. sock[s] # "open" /\ s \notin recv /\ ~Has(backlog, {s})
      BY <1>0, <1>1, <1>4, <2>1 DEF WorkInv, SockInv, WaitInv, Stands
    <2>5. SockInv(s)' /\ ReadInv(s)' /\ IdInv(s)'
      BY <1>0, <1>1, <1>4, <2>1, <2>3, <2>4
         DEF WorkInv, SockInv, ReadInv, IdInv, InWork, Stands
    <2>6. WaitInv(s)'
      <3>1. AtMostOne(backlog', {s})
        BY <1>0, <1>1, <1>4, <2>4, BacklogKeeps
      <3> QED
        BY <1>0, <1>1, <1>4, <2>1, <2>3, <2>4, <3>1
           DEF WorkInv, WaitInv, Waiting, InWork, Stands
    <2> QED
      BY <2>1, <2>5, <2>6 DEF WorkInv
  <1> QED
    BY <1>3, <1>4

(* What the service works with, after any step. *)
LEMMA WorkStep == KernelInv /\ Next => \A s \in TcpSession : WorkInv(s)'
  <1> SUFFICES ASSUME KernelInv, Next, NEW s \in TcpSession PROVE WorkInv(s)'
    OBVIOUS
  <1>1. CASE ThreadProc
    BY <1>1, ThreadKeepsWork, PostReadKeepsWork, DispatchReadKeepsWork,
       DispatchConnectKeepsWork, AcceptKeepsWork, EraseKeepsWork, ConnectReadFailsKeepsWork
       DEF ThreadProc
  <1>2. CASE Completes
    BY <1>2, AcceptCompletesKeepsWork, RecvCompletesKeepsWork, ConnectCompletesKeepsWork,
       NetworkKeepsWork DEF Completes
  <1>3. CASE Application
    BY <1>3, EraseKeepsWork, AppConnectsKeepsWork, NetworkKeepsWork DEF Application
  <1>4. CASE Network
    BY <1>4, ClientConnectKeepsWork, NetworkKeepsWork DEF Network
  <1> QED
    BY <1>1, <1>2, <1>3, <1>4 DEF Next

-----------------------------------------------------------------------------
(* The table of the sessions. *)

(* How a step changes the port. *)
LEMMA PortCases ==
    ASSUME KernelInv, Next
    PROVE  \/ port' = port
           \/ \E p : Gets(p)
           \/ \E p \in PacketOf(contexts) :
                 /\ port' = Append(port, p)
                 /\ p.op = "IO_CONNECT" => tcp[p.on] = "syn"
                 /\ p.op = "IO_READ" => p.on \in recv
           \/ AppStops
  <1>0. TypeInv /\ PortInv /\ KernelTypes /\ recv \subseteq TcpSession
    BY Parts DEF KernelTypes
  <1>1. CASE Completes
    <2>1. CASE AcceptCompletes
      BY <1>0, <2>1, AcceptPacket
    <2>2. CASE RecvFromCompletes
      BY <2>2, ReadFromPacket
    <2>3. ASSUME NEW s \in TcpSession, RecvCompletes(s)
          PROVE  \E p \in PacketOf(contexts) :
                    port' = Append(port, p) /\ p.op = "IO_READ" /\ p.on \in recv
      BY <1>0, <2>3, ReadPacket DEF RecvCompletes
    <2>4. ASSUME NEW k \in Connectors, ConnectCompletes(k)
          PROVE  \E p \in PacketOf(contexts) :
                    port' = Append(port, p) /\ p.op = "IO_CONNECT" /\ tcp[p.on] = "syn"
      <3>1. PICK p \in PacketOf(contexts) :
                port' = Append(port, p) /\ p.op = "IO_CONNECT" /\ p.on = k
        BY <2>4, ConnectPacket
      <3>2. tcp[k] = "syn"
        BY <2>4 DEF ConnectCompletes
      <3> QED
        BY <3>1, <3>2
    <2> QED
      BY <1>1, <2>1, <2>2, <2>3, <2>4 DEF Completes
  <1>2. CASE DropReturns \/ \E id \in SessionID : AppKicks(id)
    <2>1. PICK s, K : port' = port \o Aborted({s} \cap K)
      BY <1>2 DEF DropReturns, AppKicks
    <2>2. {s} \cap K \in SUBSET {s}
      OBVIOUS
    <2>3. \/ port' = port
          \/ s \in recv /\ \E p \in ReadOf(s) : p \in PacketOf(contexts) /\ port' = Append(port, p)
      BY <1>0, <2>1, <2>2, AbortsHas
    <2> QED
      BY <2>3 DEF ReadOf
  <1>3. CASE \/ GetsNull \/ GetsFailure
             \/ \E s \in TcpSession, n \in 0..MaxRx : DispatchRead(s, n)
             \/ \E k \in Connectors : DispatchConnect(k)
             \/ \E p \in Peers : \/ ReceivesNothing(p) \/ ReceivesFromKnown(p)
                                 \/ ReceivesWithoutID(p) \/ ReceivesFromNew(p)
             \/ \E c \in Accepted, x \in 1..contexts :
                   AcceptWithoutID(c, x) \/ AcceptPortFails(c, x) \/ Accept(c, x)
    <2>1. \E p : Gets(p)
      BY <1>3
         DEF GetsNull, GetsFailure, DispatchRead, DoRead, DispatchConnect, ReceivesNothing,
             ReceivesFromKnown, ReceivesWithoutID, ReceivesFromNew, Succeeds,
             AcceptWithoutID, AcceptPortFails, Accept, Accepts
    <2> QED
      BY <2>1
  <1>4. CASE \/ Network \/ (\E k \in Connectors : AppConnects(k)) \/ ReturnOnUpdate \/ TimesOut
             \/ AcceptReturns \/ PostAccept \/ ReadReturns \/ FailReturns \/ PeerAdded
             \/ DatagramReturns \/ ConnectReturns \/ ConnectReadFails
    BY <1>4
       DEF Network, AppConnects, ClientConnect, PeerSends, PeerCloses, PeerResets,
           ReturnOnUpdate, TimesOut, AcceptReturns, Reads, PostAccept, ReadReturns,
           FailReturns, PeerAdded, DatagramReturns, ConnectReturns, ConnectReadFails
  <1> QED
    BY <1>1, <1>2, <1>3, <1>4 DEF Next, ThreadProc, Application

(* What happens to the connections. *)
LEMMA TcpCases ==
    ASSUME KernelInv, Next, NEW s \in TcpSession
    PROVE  \/ tcp'[s] = tcp[s]
           \/ tcp'[s] = "closed"
           \/ {tcp[s], tcp'[s]} \subseteq Stands
           \/ s \in Accepted /\ ClientConnect(s)
           \/ s \in Connectors /\ tcp[s] = "fresh" /\ tcp'[s] = "syn" /\ AppConnects(s)
           \/ s \in Connectors /\ tcp[s] = "syn" /\ ConnectCompletes(s)
  <1>0. KernelTypes
    BY Parts
  <1>1. ASSUME tcp' = tcp PROVE tcp'[s] = tcp[s]
    BY <1>1
  <1>2. ASSUME NEW S, Discard(S) PROVE tcp'[s] = tcp[s] \/ tcp'[s] = "closed"
    BY <1>2 DEF Discard
  <1>3. CASE Network
    BY <1>0, <1>3 DEF Network, ClientConnect, PeerSends, PeerCloses, PeerResets, Stands, KernelTypes
  <1>4. CASE Application
    BY <1>0, <1>2, <1>4 DEF Application, AppKicks, AppConnects, AppStops, kernelVars, KernelTypes
  <1>5. CASE Completes
    BY <1>0, <1>2, <1>5
       DEF Completes, AcceptCompletes, RecvFromCompletes, RecvCompletes, ConnectCompletes,
           KernelTypes
  <1>6. CASE ThreadProc
    <2>1. ASSUME NEW c, NEW x, AcceptWithoutID(c, x) \/ AcceptPortFails(c, x) \/ Accept(c, x)
          PROVE  tcp' = tcp \/ \E S : Discard(S)
      BY <2>1 DEF AcceptWithoutID, AcceptPortFails, Accept, kernelVars
    <2>2. CASE DropReturns \/ ConnectReadFails
      BY <1>2, <2>2 DEF DropReturns, ConnectReadFails
    <2>3. ASSUME NEW p, \/ ReceivesNothing(p) \/ ReceivesFromKnown(p)
                        \/ ReceivesWithoutID(p) \/ ReceivesFromNew(p)
          PROVE  tcp' = tcp
      BY <2>3 DEF ReceivesNothing, ReceivesFromKnown, ReceivesWithoutID, ReceivesFromNew,
                  kernelVars
    <2>4. CASE \/ ReturnOnUpdate \/ TimesOut \/ GetsNull \/ GetsFailure \/ AcceptReturns
               \/ PostAccept \/ (\E t \in TcpSession, n \in 0..MaxRx : DispatchRead(t, n))
               \/ ReadReturns \/ FailReturns \/ PeerAdded \/ DatagramReturns
               \/ (\E k \in Connectors : DispatchConnect(k)) \/ ConnectReturns
      BY <2>4
         DEF ReturnOnUpdate, TimesOut, GetsNull, GetsFailure, AcceptReturns, Reads,
             PostAccept, DispatchRead, ReadReturns, FailReturns, PeerAdded,
             DatagramReturns, DispatchConnect, ConnectReturns, kernelVars
    <2> QED
      BY <1>1, <1>2, <1>6, <2>1, <2>2, <2>3, <2>4 DEF ThreadProc
  <1> QED
    BY <1>3, <1>4, <1>5, <1>6 DEF Next

(* Once a connector has connected, or has failed to, it does not again. *)
LEMMA ConnectsOnce ==
    ASSUME KernelInv, Next, NEW k \in Connectors, ~Connecting(k)
    PROVE  ~Connecting(k)'
  <1>0. PortInv /\ k \in TcpSession
    BY Parts, SessionKinds
  <1>1. tcp'[k] \notin {"fresh", "syn", "refused"}
    BY <1>0, TcpCases, SessionKinds DEF Connecting, Stands, NewedSession
  <1>2. ASSUME NEW p \in PacketOf(contexts), port' = Append(port, p),
               p.op = "IO_CONNECT" => tcp[p.on] = "syn"
        PROVE  ~Has(port', ConnectOf(k))
    BY <1>0, <1>2, PostsForAll DEF JoinsFor, Joins, Connecting
  <1>3. ASSUME PortKept(k) PROVE ~Has(port', ConnectOf(k))
    BY <1>3 DEF PortKept, Connecting
  <1>4. ~Has(port', ConnectOf(k))
    BY <1>0, <1>2, <1>3, PortCases, PortKeeps, StopsKeep
  <1> QED
    BY <1>1, <1>4 DEF Connecting

(* What the slot of an ID leads to, one ID at a time. *)
SlotOf(id) == LET s == m_Sessions[id] IN s \in Session =>
    /\ m_nSessionID[s] = id
    /\ heap[s] = "live"
    /\ s \in Connectors => ~Connecting(s)
    /\ s \in Peers => m_mapUDPSessions[s] = id

LEMMA SlotInvIs == SlotInv <=> \A id \in SessionID : SlotOf(id)
  BY DEF SlotInv, SlotOf

(* A slot that is the same, and leads to the same, or that leads nowhere. *)
LEMMA SlotKept ==
    ASSUME KernelInv, Next, NEW id \in SessionID,
           m_Sessions'[id] \in Session =>
              LET s == m_Sessions[id]
              IN  /\ m_Sessions'[id] = s
                  /\ m_nSessionID'[s] = m_nSessionID[s] /\ heap'[s] = heap[s]
                  /\ s \in Peers => m_mapUDPSessions'[s] = m_mapUDPSessions[s]
    PROVE  SlotOf(id)'
  <1>1. SlotOf(id)
    BY Parts, SlotInvIs
  <1>2. m_Sessions[id] \in Connectors /\ m_Sessions[id] \in Session => ~Connecting(m_Sessions[id])
    BY <1>1 DEF SlotOf
  <1>3. ASSUME NEW k \in Connectors, ~Connecting(k) PROVE ~Connecting(k)'
    BY <1>3, ConnectsOnce
  <1>4. CASE m_Sessions'[id] \in Session
    <2>1. m_Sessions'[id] = m_Sessions[id]
      BY <1>4
    <2>2. m_Sessions[id] \in Connectors => ~Connecting(m_Sessions[id])
      BY <1>2, <1>4, <2>1
    <2>3. ASSUME NEW s, s = m_Sessions[id], s \in Connectors PROVE ~Connecting(s)'
      BY <1>3, <2>2, <2>3
    <2>4. ASSUME NEW s, s = m_Sessions[id] PROVE SlotOf(id)'
      <3>1. m_Sessions'[id] = s /\ s \in Session
        BY <1>4, <2>1, <2>4
      <3>2. m_nSessionID'[s] = id /\ heap'[s] = "live" /\ (s \in Peers => m_mapUDPSessions'[s] = id)
        BY <1>1, <1>4, <2>4, <3>1 DEF SlotOf
      <3>3. s \in Connectors => ~Connecting(s)'
        BY <2>3, <2>4
      <3> QED
        BY <3>1, <3>2, <3>3 DEF SlotOf, Connecting
    <2> QED
      BY <2>4
  <1>5. CASE m_Sessions'[id] \notin Session
    BY <1>5 DEF SlotOf
  <1> QED
    BY <1>4, <1>5

(* A connection that waits, and a connector that connects, have no slot. *)
LEMMA NoSlot ==
    ASSUME KernelInv, NEW s \in Session,
           heap[s] # "live" \/ (s \in Connectors /\ Connecting(s))
             \/ (s \in Peers /\ m_mapUDPSessions[s] = 0)
    PROVE  \A id \in SessionID : m_Sessions[id] # s
  BY Parts, SessionKinds DEF SlotInv

(* DoAccpet's connection waited. *)
LEMMA AcceptedWaited ==
    ASSUME KernelInv, NEW c \in Accepted, NEW x, Accepts(c, x)
    PROVE  /\ c \in TcpSession /\ c \in Session /\ c \notin Peers /\ c \notin Connectors
           /\ Waiting(c) /\ heap[c] # "live" /\ sock[c] # "open" /\ ~InWork(c)
  <1>1. PICK p : p.op = "IO_ACCEPT" /\ p.on = c /\ p.ok /\ Gets(p)
    BY DEF Accepts
  <1>2. LeavesFor(p, c)
    BY <1>1, Parts, GetsForAll
  <1>3. c \in TcpSession /\ c \in Session /\ c \notin Peers /\ c \notin Connectors /\ WorkInv(c)
    BY Parts, SessionKinds
  <1>4. Waiting(c)
    BY <1>1, <1>2 DEF LeavesFor, Leaves, Waiting
  <1> QED
    BY <1>3, <1>4 DEF WorkInv, WaitInv

(* DoConnect's connector has connected. *)
LEMMA ConnectedWaited ==
    ASSUME KernelInv, NEW k \in Connectors, DispatchConnect(k)
    PROVE  /\ k \in TcpSession /\ k \in Session /\ k \notin Peers /\ k \notin Accepted
           /\ Connecting(k) /\ ~InWork(k) /\ heap[k] = "live" /\ sock[k] = "open"
           /\ ~Connecting(k)' /\ m_nSessionID[k] \in SessionID
  <1>0. PortInv /\ k \in TcpSession /\ k \in Session /\ k \notin Peers /\ k \notin Accepted
        /\ WorkInv(k)
    BY Parts, SessionKinds DEF NewedSession
  <1>1. PICK p \in PacketOf(contexts) :
            p.op = "IO_CONNECT" /\ p.on = k /\ p.ok /\ Gets(p) /\ \A t : LeavesFor(p, t)
    BY <1>0, TakenFor DEF DispatchConnect
  <1>2. Has(port, ConnectOf(k)) /\ Has(port, ConnectedOf(k))
    BY <1>1 DEF LeavesFor, Leaves
  <1>3. ConnectInv(k) /\ IdInv(k)
    BY <1>0 DEF WorkInv
  <1>4. ~Has(port', ConnectOf(k)) /\ tcp[k] \in Stands /\ tcp' = tcp
    BY <1>1, <1>2, <1>3 DEF LeavesFor, Leaves, ConnectInv, DispatchConnect, kernelVars
  <1> QED
    BY <1>0, <1>2, <1>3, <1>4 DEF ConnectInv, IdInv, Connecting, Stands

(* Erasing a session takes it out of its slot, and frees no other. *)
LEMMA EraseSlots ==
    ASSUME KernelInv, Next, NEW e \in SessionID, Erase(e), UNCHANGED m_nSessionID,
           NEW id \in SessionID
    PROVE  SlotOf(id)'
  <1>0. SessionTypeOK /\ SlotInv
    BY Parts
  <1>1. CASE id = e
    <2>1. m_Sessions'[id] \notin Session
      BY <1>0, <1>1, SessionKinds DEF Erase, SessionTypeOK
    <2> QED
      BY <2>1 DEF SlotOf
  <1>2. CASE id # e
    <2>1. m_Sessions'[id] = m_Sessions[id]
      BY <1>0, <1>2 DEF Erase, SessionTypeOK
    <2>2. m_Sessions[id] \in Session => m_Sessions[id] # m_Sessions[e]
      BY <1>0, <1>2 DEF SlotInv
    <2>3. m_Sessions[id] \in Session =>
             /\ heap'[m_Sessions[id]] = heap[m_Sessions[id]]
             /\ m_Sessions[id] \in Peers =>
                   m_mapUDPSessions'[m_Sessions[id]] = m_mapUDPSessions[m_Sessions[id]]
      BY <2>2 DEF Erase
    <2> QED
      BY <2>1, <2>3, SlotKept
  <1> QED
    BY <1>1, <1>2

(* What the slots lead to, after any step. *)
LEMMA SlotStep == KernelInv /\ Next => SlotInv'
  <1> SUFFICES ASSUME KernelInv, Next, NEW id \in SessionID PROVE SlotOf(id)'
    BY SlotInvIs DEF SlotInv, SlotOf
  <1>0. SessionTypeOK /\ KernelTypes /\ ThreadTypes /\ CurInv /\ SlotInv
    BY Parts
  <1>1. CASE UNCHANGED <<m_Sessions, m_nSessionID, heap, m_mapUDPSessions>>
    BY <1>1, SlotKept
  <1>2. ASSUME NEW c \in Accepted, NEW x, AcceptWithoutID(c, x) \/ AcceptPortFails(c, x)
        PROVE  SlotOf(id)'
    <2>1. \A i \in SessionID : m_Sessions[i] # c
      BY <1>2, AcceptedWaited, NoSlot DEF AcceptWithoutID, AcceptPortFails
    <2>2. m_Sessions' = m_Sessions /\ m_mapUDPSessions' = m_mapUDPSessions
      BY <1>2 DEF AcceptWithoutID, AcceptPortFails
    <2>3. ASSUME NEW s \in Session, s # c
          PROVE  m_nSessionID'[s] = m_nSessionID[s] /\ heap'[s] = heap[s]
      BY <1>0, <1>2, <2>3 DEF AcceptWithoutID, AcceptPortFails, SessionTypeOK
    <2> QED
      BY <2>1, <2>2, <2>3, SlotKept
  <1>3. ASSUME NEW c \in Accepted, NEW x, Accept(c, x) PROVE SlotOf(id)'
    <2>1. c \in Session /\ c \notin Peers /\ c \notin Connectors
          /\ \A i \in SessionID : m_Sessions[i] # c
      BY <1>3, AcceptedWaited, NoSlot DEF Accept
    <2>2. NewSessionID \in SessionID
      BY <1>0, <1>3, QueueType DEF Accept
    <2>3. CASE id = NewSessionID
      <3>1. m_Sessions'[id] = c /\ m_nSessionID'[c] = id /\ heap'[c] = "live"
        BY <1>0, <1>3, <2>1, <2>2, <2>3 DEF Accept, AddSession, SessionTypeOK
      <3> QED
        BY <2>1, <3>1 DEF SlotOf
    <2>4. CASE id # NewSessionID
      <3>1. m_Sessions'[id] = m_Sessions[id] /\ m_mapUDPSessions' = m_mapUDPSessions
        BY <1>0, <1>3, <2>4 DEF Accept, AddSession, SessionTypeOK
      <3>2. ASSUME NEW s \in Session, s # c
            PROVE  m_nSessionID'[s] = m_nSessionID[s] /\ heap'[s] = heap[s]
        BY <1>0, <1>3, <3>2 DEF Accept, SessionTypeOK
      <3> QED
        BY <2>1, <3>1, <3>2, SlotKept
    <2> QED
      BY <2>3, <2>4
  <1>4. ASSUME NEW p \in Peers, ReceivesFromNew(p) PROVE SlotOf(id)'
    <2>1. p \in Session /\ p \notin Connectors /\ \A i \in SessionID : m_Sessions[i] # p
      BY <1>4, SessionKinds, NoSlot DEF ReceivesFromNew, GetUDPSessionID, Session
    <2>2. NewSessionID \in SessionID
      BY <1>0, <1>4, QueueType DEF ReceivesFromNew
    <2>3. CASE id = NewSessionID
      <3>1. m_Sessions'[id] = p /\ m_nSessionID'[p] = id /\ heap'[p] = "live"
            /\ m_mapUDPSessions'[p] = id
        BY <1>0, <1>4, <2>1, <2>2, <2>3 DEF ReceivesFromNew, AddSession, SessionTypeOK
      <3> QED
        BY <2>1, <3>1 DEF SlotOf
    <2>4. CASE id # NewSessionID
      <3>1. m_Sessions'[id] = m_Sessions[id]
        BY <1>0, <1>4, <2>4 DEF ReceivesFromNew, AddSession, SessionTypeOK
      <3>2. ASSUME NEW s \in Session, s # p
            PROVE  /\ m_nSessionID'[s] = m_nSessionID[s] /\ heap'[s] = heap[s]
                   /\ s \in Peers => m_mapUDPSessions'[s] = m_mapUDPSessions[s]
        BY <1>0, <1>4, <3>2 DEF ReceivesFromNew, SessionTypeOK
      <3> QED
        BY <2>1, <3>1, <3>2, SlotKept
    <2> QED
      BY <2>3, <2>4
  <1>5. ASSUME NEW k \in Connectors, DispatchConnect(k) PROVE SlotOf(id)'
    <2>1. k \in Session /\ k \notin Peers /\ m_nSessionID[k] \in SessionID /\ heap[k] = "live"
          /\ ~Connecting(k)'
      BY <1>5, ConnectedWaited
    <2>2. m_Sessions' = [m_Sessions EXCEPT ![m_nSessionID[k]] = k]
          /\ UNCHANGED <<m_nSessionID, heap, m_mapUDPSessions>>
      BY <1>5 DEF DispatchConnect, AddSession
    <2>3. CASE id = m_nSessionID[k]
      <3>1. m_Sessions'[id] = k
        BY <1>0, <2>2, <2>3 DEF SessionTypeOK
      <3> QED
        BY <2>1, <2>2, <2>3, <3>1 DEF SlotOf, Connecting
    <2>4. CASE id # m_nSessionID[k]
      <3>1. m_Sessions'[id] = m_Sessions[id]
        BY <1>0, <2>2, <2>4 DEF SessionTypeOK
      <3> QED
        BY <2>2, <3>1, SlotKept
    <2> QED
      BY <2>3, <2>4
  <1>6. ASSUME NEW k \in Connectors, AppConnects(k) PROVE SlotOf(id)'
    <2>1. k \in Session /\ \A i \in SessionID : m_Sessions[i] # k
      BY <1>6, SessionKinds, NoSlot DEF AppConnects, Connecting, Session
    <2>2. m_Sessions' = m_Sessions /\ UNCHANGED <<m_mapUDPSessions, heap>>
      BY <1>6 DEF AppConnects
    <2>3. ASSUME NEW s \in Session, s # k PROVE m_nSessionID'[s] = m_nSessionID[s]
      BY <1>0, <1>6, <2>3 DEF AppConnects, SessionTypeOK
    <2> QED
      BY <2>1, <2>2, <2>3, SlotKept
  <1>7. CASE DropReturns
    <2>1. m_nSessionID[cur] \in SessionID
      BY <1>0, <1>7, CurHasID, SessionKinds DEF DropReturns, CurInv
    <2> QED
      BY <1>7, <2>1, EraseSlots DEF DropReturns, DelSession
  <1>8. ASSUME NEW e \in SessionID, AppKicks(e) PROVE SlotOf(id)'
    BY <1>8, EraseSlots DEF AppKicks, KickSession
  <1>9. CASE AppStops
    <2>1. m_Sessions'[id] = m_Sessions[id] \/ m_Sessions'[id] \in {NULL, WILD}
      BY <1>0, <1>9 DEF AppStops, StopRunning, SessionTypeOK
    <2>2. UNCHANGED <<m_nSessionID, heap, m_mapUDPSessions>>
      BY <1>9 DEF AppStops, StopRunning
    <2> QED
      BY <2>1, <2>2, SessionKinds, SlotKept
  <1>10. CASE Completes \/ Network
    BY <1>1, <1>10
       DEF Completes, Network, AcceptCompletes, RecvFromCompletes, RecvCompletes,
           ConnectCompletes, ClientConnect, PeerSends, PeerCloses, PeerResets, sessionVars
  <1>11. CASE \/ ReturnOnUpdate \/ TimesOut \/ GetsNull \/ GetsFailure \/ AcceptReturns
              \/ PostAccept \/ (\E t \in TcpSession, n \in 0..MaxRx : DispatchRead(t, n))
              \/ ReadReturns \/ FailReturns \/ PeerAdded \/ DatagramReturns
              \/ ConnectReturns \/ ConnectReadFails
    BY <1>1, <1>11
       DEF ReturnOnUpdate, TimesOut, GetsNull, GetsFailure, AcceptReturns, Reads, PostAccept,
           DispatchRead, DoRead, ReadReturns, FailReturns, PeerAdded, DatagramReturns,
           ConnectReturns, ConnectReadFails, sessionVars
  <1>12. ASSUME NEW p \in Peers, ReceivesNothing(p) \/ ReceivesFromKnown(p) \/ ReceivesWithoutID(p)
         PROVE  SlotOf(id)'
    BY <1>1, <1>12 DEF ReceivesNothing, ReceivesFromKnown, ReceivesWithoutID, sessionVars
  <1> QED
    BY <1>2, <1>3, <1>4, <1>5, <1>6, <1>7, <1>8, <1>9, <1>10, <1>11, <1>12
       DEF Next, ThreadProc, Application

-----------------------------------------------------------------------------
(* The listeners have been added, and nothing has completed. *)
LEMMA InitKernel == Init => KernelInv
  <1> SUFFICES ASSUME Init PROVE KernelInv
    OBVIOUS
  <1> USE SessionKinds, MaxAssumption, IocpAssumption
  <1>1. SessionTypeOK
    BY SessionAssumption DEF Init, InitSession, SessionTypeOK, SessionID, SockState, FaultState
  <1>2. KernelTypes
    BY DEF Init, KernelTypes, TcpState
  <1>3. AcceptTypes
    <2>1. [i \in 1..Posted |-> i] \in Seq(1..Posted)
      OBVIOUS
    <2> QED
      BY <2>1 DEF Init, AcceptTypes
  <1>4. ThreadTypes /\ PortInv /\ CurInv
    <2>1. ThreadTypes /\ CurInv
      BY DEF Init, ThreadTypes, CurInv, Callbacks
    <2>2. ASSUME NEW S PROVE <<>> \in Seq(S)
      OBVIOUS
    <2> QED
      BY <2>1, <2>2 DEF Init, PortInv
  <1>5. \A M : ~Has(port, M) /\ AtMostOne(port, M) /\ ~Has(backlog, M) /\ AtMostOne(backlog, M)
               /\ ~Has(m_queIOContext, M) /\ AtMostOne(m_queIOContext, M)
    BY DEF Init, Has, AtMostOne
  <1>6. ASSUME NEW s \in TcpSession PROVE WorkInv(s)
    <2>1. s \in Session /\ s # NULL /\ (s \in Accepted => s \notin Connectors)
      BY DEF NewedSession
    <2>2. tcp[s] = (IF s \in Connectors THEN "fresh" ELSE "none") /\ recv = {} /\ cur = NULL
          /\ heap[s] = (IF s \in Connectors THEN "live" ELSE "none")
          /\ sock[s] = (IF s \in Connectors THEN "open" ELSE "none") /\ pc = "OnUpdate"
      BY <2>1 DEF Init, InitSession
    <2>3. ~InWork(s)
      BY <1>5, <2>1, <2>2 DEF InWork
    <2> QED
      BY <1>5, <2>1, <2>2, <2>3
         DEF WorkInv, SockInv, ReadInv, IdInv, WaitInv, Waiting, ConnectInv, Connecting
  <1>7. SlotInv
    BY DEF Init, InitSession, SlotInv
  <1>8. ContextInv
    <2>1. ASSUME NEW x \in 1..contexts PROVE OnceInv(x)
      <3>1. AtMostOne(accepts, {x}) /\ pContext # x
        BY <2>1 DEF Init, AtMostOne
      <3> QED
        BY <1>5, <3>1 DEF OnceInv
    <2> QED
      BY <2>1 DEF ContextInv
  <1>9. BoundInv
    BY DEF Init, BoundInv
  <1> QED
    BY <1>1, <1>2, <1>3, <1>4, <1>6, <1>7, <1>8, <1>9 DEF KernelInv, TypeInv

(* A step that changes nothing. *)
LEMMA StutterKernel == KernelInv /\ UNCHANGED vars => KernelInv'
  <1> SUFFICES ASSUME KernelInv, UNCHANGED vars PROVE KernelInv'
    OBVIOUS
  <1> USE DEF vars, sessionVars, kernelVars, acceptVars, threadVars
  <1>1. TypeInv'
    BY Parts DEF TypeInv, SessionTypeOK, KernelTypes, AcceptTypes, ThreadTypes, PortInv, CurInv
  <1>2. ASSUME NEW s \in TcpSession PROVE WorkInv(s)'
    <2>1. WorkInv(s)
      BY Parts
    <2>2. SessionKept(s)
      BY DEF SessionKept, BacklogKept, PortKept
    <2> QED
      BY <2>1, <2>2, WorkKept
  <1>3. SlotInv' /\ BoundInv'
    BY Parts DEF SlotInv, Connecting, BoundInv
  <1>4. ContextInv'
    BY Parts DEF ContextInv, OnceInv
  <1> QED
    BY <1>1, <1>2, <1>3, <1>4 DEF KernelInv

LEMMA NextKernel == KernelInv /\ [Next]_vars => KernelInv'
  <1> SUFFICES ASSUME KernelInv, [Next]_vars PROVE KernelInv'
    OBVIOUS
  <1>1. CASE Next
    BY <1>1, SessionTypes, KernelTypesStep, ThreadTypesStep, CurStep, PortStep, ContextStep,
       WorkStep, SlotStep DEF KernelInv, TypeInv
  <1>2. CASE UNCHANGED vars
    BY <1>2, StutterKernel
  <1> QED
    BY <1>1, <1>2

(* The invariant that needs nothing of the application. *)
THEOREM KernelSafe == Spec => []KernelInv
  <1>1. Init => KernelInv
    BY InitKernel
  <1>2. KernelInv /\ [Next]_vars => KernelInv'
    BY NextKernel
  <1> QED
    BY <1>1, <1>2, PTL DEF Spec

(***************************************************************************)
(* The variables keep their types: no queue of packets, contexts or IDs    *)
(* holds anything but what the handlers take out of it.                    *)
(***************************************************************************)
THEOREM IocpTypes == Spec => []TypeOK
  <1>1. KernelInv => TypeOK
    <2> SUFFICES ASSUME KernelInv PROVE TypeOK
      OBVIOUS
    <2>1. port \in Seq(Packet)
      BY Parts, PacketOfMore DEF PortInv, AcceptTypes
    <2> QED
      BY <2>1, Parts DEF TypeOK, KernelTypes, AcceptTypes, ThreadTypes
  <1> QED
    BY <1>1, KernelSafe, PTL

(* Three numbers, of which one at most is 1. *)
LEMMA OneOfThree ==
    ASSUME NEW A, NEW B, NEW C, NEW x, NEW y, NEW z,
           A = {} \/ A = {x}, B = {} \/ B = {y}, C = {} \/ C = {z},
           A = {} \/ B = {}, A = {} \/ C = {}, B = {} \/ C = {}
    PROVE  Cardinality(A) + Cardinality(B) + Cardinality(C) <= 1
  <1>1. Cardinality({}) = 0
    BY FS_EmptySet
  <1>2. Cardinality({x}) = 1 /\ Cardinality({y}) = 1 /\ Cardinality({z}) = 1
    BY FS_Singleton
  <1> QED
    BY <1>1, <1>2

(***************************************************************************)
(* Nothing is given to the kernel twice: no two receives of one session,   *)
(* into one buffer, and no AcceptEx with a context that another one, its   *)
(* packet, the free list or the handler still has.                         *)
(***************************************************************************)
THEOREM GivenOnce == Spec => []OperationsOnce
  <1>1. ASSUME KernelInv, NEW s \in TcpSession PROVE Receives(s) <= 1
    <2> DEFINE A == {i \in DOMAIN port : port[i].op = "IO_READ" /\ port[i].on = s}
               B == {s} \cap recv
               C == {at \in {"OnAddConnection", "OnConnected", "OnData"} : pc = at /\ cur = s}
    <2>1. PortInv /\ ReadInv(s) /\ \A i \in DOMAIN port : port[i] \in Packet
      BY <1>1, Parts, PacketIsAbout DEF PortInv, WorkInv
    <2>2. \A i \in DOMAIN port : i \in A <=> port[i] \in ReadOf(s)
      BY <2>1, PacketIsOf
    <2>3. A # {} => Has(port, ReadOf(s)) /\ \E i : A = {i}
      BY <2>1, <2>2 DEF ReadInv, Has, AtMostOne
    <2>4. PICK x : A = {} \/ A = {x}
      BY <2>3
    <2>5. (B = {} \/ B = {s}) /\ (B # {} => s \in recv)
      OBVIOUS
    <2>6. (C = {} \/ C = {pc}) /\ (C # {} => cur = s)
      OBVIOUS
    <2>7. (A = {} \/ B = {}) /\ (A = {} \/ C = {}) /\ (B = {} \/ C = {})
      BY <2>1, <2>3, <2>5, <2>6 DEF ReadInv
    <2> HIDE DEF A, B, C
    <2>8. Cardinality(A) + Cardinality(B) + Cardinality(C) <= 1
      BY <2>4, <2>5, <2>6, <2>7, OneOfThree
    <2> QED
      BY <2>8 DEF Receives, A, B, C
  <1>2. ASSUME KernelInv, NEW x \in 1..contexts, NEW p \in Places(x), NEW q \in Places(x)
        PROVE  p = q
    <2>1. OnceInv(x) /\ \A i \in DOMAIN port : port[i] \in Packet
      BY <1>2, Parts, PacketIsAbout DEF PortInv, ContextInv
    <2>2. \A i \in DOMAIN port : port[i] \in HoldingOf(x) <=> port[i].context = x
      BY <2>1 DEF HoldingOf
    <2>3. ASSUME NEW r \in Places(x)
          PROVE  \/ \E i \in DOMAIN accepts : accepts[i] \in {x} /\ r = <<"accepts", i>>
                 \/ \E i \in DOMAIN m_queIOContext :
                       m_queIOContext[i] \in {x} /\ r = <<"m_queIOContext", i>>
                 \/ \E i \in DOMAIN port : port[i] \in HoldingOf(x) /\ r = <<"port", i>>
                 \/ pContext = x /\ r = <<"pContext", 1>>
      BY <2>2, <2>3 DEF Places
    <2> QED
      BY <1>2, <2>1, <2>3 DEF OnceInv, Has, AtMostOne
  <1>3. KernelInv => OperationsOnce
    BY <1>1, <1>2 DEF OperationsOnce
  <1> QED
    BY <1>3, KernelSafe, PTL

(***************************************************************************)
(* However many connections come, and however many AcceptEx fail, there is *)
(* at most one context more than AddTCPListener posted.                    *)
(***************************************************************************)
THEOREM ContextsAreBounded == Spec => []ContextsBounded
  <1>1. KernelInv => ContextsBounded
    BY DEF KernelInv, BoundInv, ContextsBounded
  <1> QED
    BY <1>1, KernelSafe, PTL

-----------------------------------------------------------------------------
(* The second half: the application kicks the sessions of UDP peers alone, *)
(* and does not call Stop().                                               *)
KicksPeersOnly == Kickable \subseteq Peers /\ ~Stops

(* The sessions that hold an ID, and the queue of those that none holds. *)
Holders == {s \in Session : HoldsID(s)}
QueueInv == QueueOf(m_queSessionID, m_nSessionID, Holders, SessionID)

(* An allocated session is in the slot of its ID, with an open descriptor  *)
(* or with its peer in the map.                                            *)
TableInv ==
    /\ \A s \in NewedSession : heap[s] = "live" => m_Sessions[m_nSessionID[s]] = s
    /\ \A c \in Accepted : sock[c] = "open" <=> heap[c] = "live"
    /\ \A p \in Peers :
          m_mapUDPSessions[p] = IF heap[p] = "live" THEN m_nSessionID[p] ELSE 0

(* What the service works with is allocated. *)
LiveInv ==
    /\ \A c \in Accepted : InWork(c) => heap[c] = "live"
    /\ cur \in Peers => heap[cur] = "live"

(* The handler reports the end of its session. *)
Ending(s) == pc \in {"OnConnectionDrop", "OnConnectFail"} /\ cur = s

(* A session that has been announced, and whose end has not been reported. *)
Announced(s) ==
    /\ \/ s \in NewedSession /\ heap[s] = "live"
       \/ s \in Connectors /\ InWork(s)
    /\ ~Ending(s)

(* What the application knows. *)
AppInv ==
    /\ \A id \in SessionID : app[id] # NULL => m_Sessions[id] = app[id] /\ ~Ending(app[id])
    /\ \A s \in Session : Announced(s) => app[m_nSessionID[s]] = s
    /\ pc \in {"OnAddConnection", "OnConnected"} => session_id = m_nSessionID[cur]

SafeInv ==
    KernelInv /\ QueueInv /\ TableInv /\ LiveInv /\ AppInv /\ NoFault

(* The parts of it. *)
LEMMA SafeParts ==
    ASSUME SafeInv
    PROVE  KernelInv /\ QueueInv /\ TableInv /\ LiveInv /\ AppInv /\ fault = "none"
  BY DEF SafeInv, NoFault

(* A step that leaves the queue, the table, the map and the sessions. *)
Quiet == UNCHANGED <<m_queSessionID, m_Sessions, m_mapUDPSessions, m_nSessionID, heap>>

(* The steps that do not, and those that do but close or report a session. *)
LEMMA QuietOrNot ==
    ASSUME Next, KicksPeersOnly
    PROVE  \/ Quiet /\ UNCHANGED <<sock, app>>
           \/ Quiet /\ \E c \in Accepted, x \in 1..contexts : AcceptWithoutID(c, x)
           \/ Quiet /\ \E s \in TcpSession, n \in 0..MaxRx : DispatchRead(s, n)
           \/ Quiet /\ ConnectReadFails
           \/ \E c \in Accepted, x \in 1..contexts : AcceptPortFails(c, x) \/ Accept(c, x)
           \/ \E p \in Peers : ReceivesFromNew(p)
           \/ \E k \in Connectors : DispatchConnect(k)
           \/ \E k \in Connectors : AppConnects(k)
           \/ DropReturns
           \/ \E id \in SessionID : AppKicks(id)
  <1> DEFINE Same == Quiet /\ UNCHANGED <<sock, app>>
  <1>1. CASE Completes \/ Network
    <2>1. Same
      BY <1>1
         DEF Completes, Network, AcceptCompletes, RecvFromCompletes, RecvCompletes,
             ConnectCompletes, ClientConnect, PeerSends, PeerCloses, PeerResets, sessionVars,
             Quiet
    <2> QED
      BY <2>1
  <1>2. CASE Application
    BY <1>2 DEF Application, AppStops, KicksPeersOnly
  <1>3. CASE \/ ReturnOnUpdate \/ TimesOut \/ GetsNull \/ GetsFailure \/ AcceptReturns
             \/ PostAccept \/ ReadReturns \/ FailReturns \/ PeerAdded \/ DatagramReturns
             \/ ConnectReturns
    <2>1. Same
      BY <1>3
         DEF ReturnOnUpdate, TimesOut, GetsNull, GetsFailure, AcceptReturns, Reads,
             PostAccept, ReadReturns, FailReturns, PeerAdded, DatagramReturns, ConnectReturns,
             sessionVars, Quiet
    <2> QED
      BY <2>1
  <1>4. ASSUME NEW p, ReceivesNothing(p) \/ ReceivesFromKnown(p) \/ ReceivesWithoutID(p)
        PROVE  Same
    BY <1>4 DEF ReceivesNothing, ReceivesFromKnown, ReceivesWithoutID, sessionVars, Quiet
  <1>5. ASSUME NEW c, NEW x, AcceptWithoutID(c, x)
        PROVE  Quiet
    BY <1>5 DEF AcceptWithoutID, Quiet
  <1>6. ASSUME NEW s, NEW n, DispatchRead(s, n)
        PROVE  Quiet
    BY <1>6 DEF DispatchRead, DoRead, Quiet
  <1>7. ConnectReadFails => Quiet
    BY DEF ConnectReadFails, Quiet
  <1> QED
    BY <1>1, <1>2, <1>3, <1>4, <1>5, <1>6, <1>7 DEF Next, ThreadProc

-----------------------------------------------------------------------------
(* Who works with what. *)

(* A receive is pending that was, or that the handler posts. *)
LEMMA RecvCases ==
    ASSUME Next, NEW s, s \in recv'
    PROVE  s \in recv \/ cur = s
  <1>1. CASE Completes \/ Network \/ Application
    BY <1>1
       DEF Completes, Network, Application, AcceptCompletes, RecvFromCompletes,
           RecvCompletes, ConnectCompletes, ClientConnect, PeerSends, PeerCloses,
           PeerResets, AppKicks, AppConnects, AppStops, Discard, kernelVars
  <1>2. CASE AcceptReturns \/ ReadReturns \/ ConnectReturns
    BY <1>2 DEF AcceptReturns, Reads, ReadReturns, ConnectReturns, PostRead
  <1>3. CASE \/ ReturnOnUpdate \/ TimesOut \/ GetsNull \/ GetsFailure
             \/ PostAccept \/ (\E t \in TcpSession, n \in 0..MaxRx : DispatchRead(t, n))
             \/ FailReturns \/ PeerAdded \/ DatagramReturns
             \/ (\E k \in Connectors : DispatchConnect(k))
    BY <1>3
       DEF ReturnOnUpdate, TimesOut, GetsNull, GetsFailure, PostAccept,
           DispatchRead, FailReturns, PeerAdded, DatagramReturns,
           DispatchConnect, kernelVars
  <1>4. ASSUME NEW p, \/ ReceivesNothing(p) \/ ReceivesFromKnown(p)
                      \/ ReceivesWithoutID(p) \/ ReceivesFromNew(p)
        PROVE  recv' = recv
    BY <1>4 DEF ReceivesNothing, ReceivesFromKnown, ReceivesWithoutID, ReceivesFromNew, kernelVars
  <1>5. CASE DropReturns \/ ConnectReadFails
    BY <1>5 DEF DropReturns, ConnectReadFails, Discard
  <1>6. ASSUME NEW c, NEW x, AcceptWithoutID(c, x) \/ AcceptPortFails(c, x) \/ Accept(c, x)
        PROVE  s \in recv
    BY <1>6 DEF AcceptWithoutID, AcceptPortFails, Accept, Discard, kernelVars
  <1> QED
    BY <1>1, <1>2, <1>3, <1>4, <1>5, <1>6 DEF Next, ThreadProc

(* A handler goes on with its session, returns, or starts with one. *)
LEMMA CurCases ==
    ASSUME Next
    PROVE  \/ UNCHANGED <<pc, cur, session_id>>
           \/ cur' = NULL /\ pc' \notin Callbacks
           \/ /\ cur' = cur /\ \/ PeerAdded \/ ConnectReadFails
                               \/ pc \notin Callbacks /\ pc' \notin Callbacks
           \/ \E c \in Accepted, x \in 1..contexts : Accept(c, x) /\ cur' = c
           \/ \E s \in TcpSession, n \in 0..MaxRx : DispatchRead(s, n) /\ cur' = s
           \/ \E p \in Peers : (ReceivesFromKnown(p) \/ ReceivesFromNew(p)) /\ cur' = p
           \/ \E k \in Connectors : DispatchConnect(k) /\ cur' = k
  <1> DEFINE Back == cur' = NULL /\ pc' \notin Callbacks
  <1>1. CASE Completes \/ Network \/ Application
    BY <1>1
       DEF Completes, Network, Application, AcceptCompletes, RecvFromCompletes,
           RecvCompletes, ConnectCompletes, ClientConnect, PeerSends, PeerCloses,
           PeerResets, AppKicks, AppConnects, AppStops, threadVars
  <1>2. ToLoop \/ ToPostAccept => Back
    BY DEF ToLoop, ToPostAccept, LoopHead, Callbacks
  <1>3. CASE \/ TimesOut \/ GetsFailure \/ AcceptReturns \/ PostAccept \/ ReadReturns
             \/ FailReturns \/ DropReturns \/ DatagramReturns \/ ConnectReturns
    BY <1>2, <1>3
       DEF TimesOut, GetsFailure, AcceptReturns, PostAccept, ReadReturns, FailReturns,
           DropReturns, DatagramReturns, ConnectReturns
  <1>4. CASE ReturnOnUpdate \/ GetsNull
    BY <1>4 DEF ReturnOnUpdate, GetsNull, Gets, LoopHead, Callbacks
  <1>5. ASSUME NEW p, ReceivesNothing(p) \/ ReceivesWithoutID(p)
        PROVE  Back
    BY <1>2, <1>5 DEF ReceivesNothing, ReceivesWithoutID
  <1>6. ASSUME NEW c, NEW x, AcceptWithoutID(c, x) \/ AcceptPortFails(c, x)
        PROVE  Back
    BY <1>2, <1>6 DEF AcceptWithoutID, AcceptPortFails
  <1>7. PeerAdded \/ ConnectReadFails => cur' = cur
    BY DEF PeerAdded, ConnectReadFails, CallBack
  <1>8. /\ \A c, x : Accept(c, x) => cur' = c
        /\ \A s, n : DispatchRead(s, n) => cur' = s
        /\ \A p : ReceivesFromKnown(p) \/ ReceivesFromNew(p) => cur' = p
        /\ \A k : DispatchConnect(k) => cur' = k
    BY DEF Accept, DispatchRead, DoRead, ReceivesFromKnown, ReceivesFromNew,
           DispatchConnect, CallBack
  <1> HIDE DEF Back
  <1>9. CASE Back
    BY <1>9 DEF Back
  <1> QED
    BY <1>1, <1>3, <1>4, <1>5, <1>6, <1>7, <1>8, <1>9 DEF Next, ThreadProc, Back

(* The service works with what it worked with, and with what it takes up. *)
LEMMA InWorkCases ==
    ASSUME KernelInv, Next, KicksPeersOnly, NEW s \in TcpSession, InWork(s)'
    PROVE  \/ InWork(s)
           \/ s \in Accepted /\ \E x \in 1..contexts : Accept(s, x)
           \/ s \in Connectors /\ DispatchConnect(s)
  <1>0. PortInv /\ s \in Session /\ s # NULL /\ s \notin Peers
    BY Parts, SessionKinds
  <1>1. CASE cur' = s
    <2>1. ASSUME NEW n, DispatchRead(s, n) PROVE InWork(s)
      <3>1. Succeeds("IO_READ", s, n)
        BY <2>1 DEF DispatchRead, DoRead
      <3>2. PICK p \in PacketOf(contexts) :
                p.op = "IO_READ" /\ p.on = s /\ \A t : LeavesFor(p, t)
        BY <1>0, <3>1, TakenFor
      <3> QED
        BY <3>2 DEF LeavesFor, Leaves, InWork
    <2>2. ASSUME NEW k \in Connectors, DispatchConnect(k), s = k
          PROVE  s \in Connectors /\ DispatchConnect(s)
      BY <2>2
    <2>3. ASSUME NEW c \in Accepted, NEW x \in 1..contexts, Accept(c, x), s = c
          PROVE  s \in Accepted /\ \E y \in 1..contexts : Accept(s, y)
      BY <2>3
    <2>4. cur = s => InWork(s)
      BY DEF InWork
    <2> QED
      BY <1>0, <1>1, <2>1, <2>2, <2>3, <2>4, CurCases
  <1>2. CASE s \in recv'
    BY <1>2, RecvCases DEF InWork
  <1>3. CASE Has(port', ReadOf(s))
    <2>1. CASE AppStops
      BY <2>1 DEF AppStops, KicksPeersOnly
    <2>2. CASE PortKept(s)
      BY <1>3, <2>2 DEF PortKept, InWork
    <2>3. ASSUME NEW p \in PacketOf(contexts), port' = Append(port, p),
                 p.op = "IO_READ" => p.on \in recv
          PROVE  InWork(s)
      <3>1. JoinsFor(p, s)
        BY <1>0, <2>3, PostsForAll
      <3> QED
        BY <1>3, <2>3, <3>1 DEF JoinsFor, Joins, InWork
    <2> QED
      BY <1>0, <2>1, <2>2, <2>3, PortCases, PortKeeps
  <1>4. cur' = s \/ s \in recv' \/ Has(port', ReadOf(s))
    BY DEF InWork
  <1> QED
    BY <1>1, <1>2, <1>3, <1>4

(* The handler of cur has no other completion of it to come. *)
LEMMA CurAlone ==
    ASSUME KernelInv, cur \in TcpSession
    PROVE  cur \notin recv /\ ~Has(port, ReadOf(cur))
  BY DEF KernelInv, WorkInv, ReadInv

(* Once it has returned, the service works with its session no more. *)
LEMMA CurLeft ==
    ASSUME KernelInv, NEW s \in TcpSession, cur = s, UNCHANGED port, recv' \subseteq recv,
           cur' = NULL
    PROVE  ~InWork(s)'
  BY CurAlone, SessionKinds DEF InWork

(* A connector that the service works with has connected. *)
LEMMA WorksAfterConnect ==
    ASSUME KernelInv, NEW k \in Connectors, InWork(k)
    PROVE  ~Connecting(k) /\ tcp[k] # "fresh"
  <1>1. ConnectInv(k)
    BY Parts, SessionKinds DEF WorkInv
  <1> QED
    BY <1>1 DEF ConnectInv, Connecting

-----------------------------------------------------------------------------
(* The IDs. *)

(* A session that holds an ID has one that no other session holds, and     *)
(* that is not in the queue.                                               *)
LEMMA HolderHasID ==
    ASSUME QueueInv, NEW s \in Holders
    PROVE  /\ s \in Session /\ m_nSessionID[s] \in SessionID
           /\ ~Has(m_queSessionID, {m_nSessionID[s]})
           /\ \A t \in Holders : m_nSessionID[t] = m_nSessionID[s] => t = s
  BY DEF QueueInv, QueueOf, Holders

(* The sessions that hold one, by kind. *)
LEMMA HoldersAre ==
    /\ \A s \in NewedSession : s \in Holders <=> heap[s] = "live"
    /\ \A k \in Connectors : k \in Holders <=> tcp[k] # "fresh"
  BY SessionKinds DEF Holders, HoldsID

(* What the service works with, and what is in a slot, holds its ID. *)
LEMMA WorkersHold ==
    ASSUME SafeInv
    PROVE  /\ \A s \in TcpSession : InWork(s) => s \in Holders
           /\ \A s \in Session : Announced(s) => s \in Holders
           /\ \A id \in SessionID : m_Sessions[id] \in Session =>
                 m_Sessions[id] \in Holders /\ m_nSessionID[m_Sessions[id]] = id
  <1>1. KernelInv /\ LiveInv /\ SlotInv
    BY SafeParts, Parts
  <1>2. \A k \in Connectors : InWork(k) => k \in Holders
    BY <1>1, WorksAfterConnect, HoldersAre
  <1>3. \A c \in Accepted : InWork(c) => c \in Holders
    BY <1>1, HoldersAre, SessionKinds DEF LiveInv
  <1>4. ASSUME NEW id \in SessionID, m_Sessions[id] \in Session
        PROVE  m_Sessions[id] \in Holders /\ m_nSessionID[m_Sessions[id]] = id
    <2>1. /\ m_nSessionID[m_Sessions[id]] = id /\ heap[m_Sessions[id]] = "live"
          /\ m_Sessions[id] \in Connectors => ~Connecting(m_Sessions[id])
      BY <1>1, <1>4 DEF SlotInv
    <2> QED
      BY <1>4, <2>1, HoldersAre DEF Connecting, Session, NewedSession
  <1> QED
    BY <1>2, <1>3, <1>4, HoldersAre DEF Announced, TcpSession

(* The ID that NewSessionID answers, and its slot. *)
LEMMA FreeSlot ==
    ASSUME SafeInv, NewSessionID # 0
    PROVE  /\ m_queSessionID # <<>> /\ NewSessionID = Head(m_queSessionID)
           /\ NewSessionID \in SessionID
           /\ \A s \in Holders : m_nSessionID[s] # NewSessionID
           /\ m_Sessions[NewSessionID] \notin Session /\ app[NewSessionID] = NULL
  <1>0. SessionTypeOK /\ ThreadTypes /\ QueueInv /\ AppInv
    BY SafeParts, Parts
  <1>1. m_queSessionID # <<>> /\ NewSessionID = Head(m_queSessionID)
    BY DEF NewSessionID
  <1>2. NewSessionID \in SessionID
    BY <1>0, QueueType
  <1>3. Has(m_queSessionID, {NewSessionID})
    <2>1. ASSUME NEW S, NEW q \in Seq(S), q # <<>> PROVE 1 \in DOMAIN q /\ q[1] = Head(q)
      BY <2>1
    <2> QED
      BY <1>0, <1>1, <2>1 DEF SessionTypeOK, Has
  <1>4. \A s \in Holders : m_nSessionID[s] # NewSessionID
    BY <1>0, <1>3, HolderHasID
  <1>5. m_Sessions[NewSessionID] \notin Session
    BY <1>2, <1>4, WorkersHold
  <1>6. app[NewSessionID] = NULL
    BY <1>0, <1>2, <1>5, SessionKinds DEF AppInv, ThreadTypes
  <1> QED
    BY <1>1, <1>2, <1>4, <1>5, <1>6

(* The slot of a connector that DoConnect is about to add is empty. *)
LEMMA ConnectorSlot ==
    ASSUME SafeInv, NEW k \in Connectors, DispatchConnect(k)
    PROVE  /\ k \in Holders /\ m_nSessionID[k] \in SessionID /\ ~InWork(k)
           /\ m_Sessions[m_nSessionID[k]] \notin Session /\ app[m_nSessionID[k]] = NULL
  <1>0. KernelInv /\ QueueInv /\ AppInv /\ ThreadTypes /\ SlotInv /\ PortInv
    BY SafeParts, Parts
  <1>1. Connecting(k) /\ ~InWork(k) /\ k \in TcpSession /\ m_nSessionID[k] \in SessionID
    BY <1>0, ConnectedWaited
  <1>2. tcp[k] # "fresh"
    <2>1. PICK p \in PacketOf(contexts) :
              p.op = "IO_CONNECT" /\ p.on = k /\ \A t : LeavesFor(p, t)
      BY <1>0, TakenFor DEF DispatchConnect
    <2>2. Has(port, ConnectOf(k))
      BY <2>1 DEF LeavesFor, Leaves
    <2>3. ConnectInv(k)
      BY <1>0, <1>1, Parts DEF WorkInv
    <2> QED
      BY <2>2, <2>3 DEF ConnectInv
  <1>3. k \in Holders
    BY <1>2, HoldersAre
  <1>4. m_Sessions[m_nSessionID[k]] \notin Session
    <2>1. \A id \in SessionID : m_Sessions[id] # k
      BY <1>0, <1>1, NoSlot, SessionKinds
    <2> QED
      BY <1>0, <1>1, <1>3, <2>1, WorkersHold, HolderHasID
  <1>5. app[m_nSessionID[k]] = NULL
    BY <1>0, <1>1, <1>4, SessionKinds DEF AppInv, ThreadTypes
  <1> QED
    BY <1>1, <1>3, <1>4, <1>5

(* A connector that has not connected does not hold an ID, until it tries. *)
LEMMA FreshKept ==
    ASSUME KernelInv, Next, KicksPeersOnly, NEW k \in Connectors
    PROVE  \/ tcp'[k] = "fresh" <=> tcp[k] = "fresh"
           \/ tcp[k] = "fresh" /\ AppConnects(k)
  <1>0. KernelTypes /\ SlotInv /\ CurInv /\ k \in TcpSession /\ k \notin Accepted
    BY Parts, SessionKinds DEF NewedSession
  <1>1. tcp'[k] = "fresh" => tcp[k] = "fresh"
    <2>1. ConnectCompletes(k) => tcp'[k] # "fresh"
      BY <1>0 DEF ConnectCompletes, KernelTypes
    <2> QED
      BY <1>0, <2>1, TcpCases DEF Stands
  <1>2. ASSUME tcp[k] = "fresh", tcp'[k] # "fresh" PROVE AppConnects(k)
    <2>1. tcp'[k] = "closed" \/ AppConnects(k)
      BY <1>0, <1>2, TcpCases DEF Stands
    <2>2. ASSUME NEW S, Discard(S), k \notin S PROVE tcp'[k] = tcp[k]
      BY <1>0, <2>2 DEF Discard
    <2>3. CASE Network
      BY <1>0, <1>2, <2>3 DEF Network, ClientConnect, PeerSends, PeerCloses, PeerResets, KernelTypes
    <2>4. CASE Completes
      <3>1. CASE AcceptCompletes
        BY <1>0, <1>2, <2>2, <3>1, AcceptPacket, Parts
      <3> QED
        BY <1>0, <1>2, <2>1, <2>4, <3>1
           DEF Completes, RecvFromCompletes, RecvCompletes, ConnectCompletes, KernelTypes, Application
    <2>5. CASE Application
      <3>1. ASSUME NEW id \in SessionID, AppKicks(id) PROVE FALSE
        <4>1. m_Sessions[id] # k
          BY <1>0, <1>2, <3>1, NoSlot, Parts, SessionKinds DEF Connecting
        <4> QED
          BY <1>2, <2>2, <3>1, <4>1 DEF AppKicks
      <3>2. ASSUME NEW j \in Connectors, AppConnects(j) PROVE AppConnects(k)
        BY <1>0, <1>2, <3>2 DEF AppConnects, KernelTypes
      <3> QED
        BY <2>5, <3>1, <3>2 DEF Application, AppStops, KicksPeersOnly
    <2>6. CASE ThreadProc
      <3>1. ASSUME NEW c \in Accepted, NEW x,
                   AcceptWithoutID(c, x) \/ AcceptPortFails(c, x) \/ Accept(c, x)
            PROVE  FALSE
        BY <1>0, <1>2, <2>2, <3>1 DEF AcceptWithoutID, AcceptPortFails, Accept, kernelVars
      <3>2. CASE DropReturns
        BY <1>0, <1>2, <2>2, <3>2 DEF DropReturns
      <3>3. CASE ConnectReadFails
        <4>1. cur = k => ~Connecting(k)
          BY WorksAfterConnect DEF InWork
        <4> QED
          BY <1>0, <1>2, <2>2, <3>3, <4>1 DEF ConnectReadFails, Connecting
      <3>4. ASSUME NEW p, \/ ReceivesNothing(p) \/ ReceivesFromKnown(p)
                          \/ ReceivesWithoutID(p) \/ ReceivesFromNew(p)
            PROVE  FALSE
        BY <1>2, <3>4 DEF ReceivesNothing, ReceivesFromKnown, ReceivesWithoutID, ReceivesFromNew,
                    kernelVars
      <3>5. CASE \/ ReturnOnUpdate \/ TimesOut \/ GetsNull \/ GetsFailure \/ AcceptReturns
                 \/ PostAccept \/ (\E t \in TcpSession, n \in 0..MaxRx : DispatchRead(t, n))
                 \/ ReadReturns \/ FailReturns \/ PeerAdded \/ DatagramReturns
                 \/ (\E j \in Connectors : DispatchConnect(j)) \/ ConnectReturns
        BY <1>2, <3>5
           DEF ReturnOnUpdate, TimesOut, GetsNull, GetsFailure, AcceptReturns, Reads,
               PostAccept, DispatchRead, ReadReturns, FailReturns, PeerAdded,
               DatagramReturns, DispatchConnect, ConnectReturns, kernelVars
      <3> QED
        BY <2>6, <3>1, <3>2, <3>3, <3>4, <3>5 DEF ThreadProc
    <2> QED
      BY <2>3, <2>4, <2>5, <2>6 DEF Next
  <1> QED
    BY <1>1, <1>2

-----------------------------------------------------------------------------
(* The steps that erase a session. *)

(* What Erase leaves, as it erases the session s that was allocated. *)
LEMMA ErasesOne ==
    ASSUME SessionTypeOK, NEW id \in SessionID, Erase(id), NEW s \in NewedSession,
           m_Sessions[id] = s
    PROVE  /\ m_Sessions' = [m_Sessions EXCEPT ![id] = NULL]
           /\ heap' = [heap EXCEPT ![s] = "freed"]
           /\ m_queSessionID' = Append(m_queSessionID, id)
           /\ s \in Peers => m_mapUDPSessions' = [m_mapUDPSessions EXCEPT ![s] = 0]
           /\ s \notin Peers => m_mapUDPSessions' = m_mapUDPSessions
  <1>1. s \in Session
    BY SessionKinds
  <1>2. m_Sessions' = [m_Sessions EXCEPT ![id] = NULL]
        /\ m_queSessionID' = Append(m_queSessionID, id)
    BY DEF Erase, FreeSessionID
  <1>3. heap' = [heap EXCEPT ![s] = "freed"]
    BY <1>1 DEF SessionTypeOK, Erase
  <1>4. s \in Peers => m_mapUDPSessions' = [m_mapUDPSessions EXCEPT ![s] = 0]
    BY DEF SessionTypeOK, Erase
  <1>5. s \notin Peers => m_mapUDPSessions' = m_mapUDPSessions
    BY DEF SessionTypeOK, Erase
  <1> QED
    BY <1>2, <1>3, <1>4, <1>5

(* A drop erases the session that is reported, and no receive is pending   *)
(* on it.                                                                  *)
LEMMA Drops ==
    ASSUME SafeInv, DropReturns
    PROVE  \E c \in Accepted :
              /\ cur = c /\ Ending(c) /\ heap[c] = "live" /\ c \in Holders
              /\ m_nSessionID[c] \in SessionID /\ m_Sessions[m_nSessionID[c]] = c
              /\ app[m_nSessionID[c]] = NULL /\ cur' = NULL /\ app' = app
              /\ m_Sessions' = [m_Sessions EXCEPT ![m_nSessionID[c]] = NULL]
              /\ heap' = [heap EXCEPT ![c] = "freed"]
              /\ m_queSessionID' = Append(m_queSessionID, m_nSessionID[c])
              /\ sock' = [sock EXCEPT ![c] = "closed"]
              /\ UNCHANGED <<m_mapUDPSessions, m_nSessionID, fault, port>>
              /\ recv' \subseteq recv /\ ~InWork(c)'
  <1>0. KernelInv /\ SessionTypeOK /\ ThreadTypes /\ CurInv /\ PortInv /\ KernelTypes
        /\ TableInv /\ LiveInv /\ AppInv
    BY SafeParts, Parts
  <1>1. PICK c : c = cur
    OBVIOUS
  <1>2. c \in Accepted /\ Ending(c) /\ c \in TcpSession /\ c \in Session /\ c # NULL
        /\ c \notin Peers /\ c \in NewedSession /\ c \notin Connectors
    BY <1>0, <1>1, SessionKinds DEF DropReturns, CurInv, Ending
  <1>3. InWork(c) /\ heap[c] = "live" /\ c \in Holders
    BY <1>0, <1>1, <1>2, HoldersAre DEF InWork, LiveInv
  <1>4. m_nSessionID[c] \in SessionID /\ m_Sessions[m_nSessionID[c]] = c
    BY <1>0, <1>1, <1>2, <1>3, CurHasID DEF TableInv
  <1>5. app[m_nSessionID[c]] = NULL
    BY <1>0, <1>2, <1>4 DEF AppInv
  <1>6. Erase(m_nSessionID[c]) /\ sock' = Closed({c}) /\ UNCHANGED m_nSessionID
        /\ fault' = fault
    BY <1>1, <1>2, <1>3, <1>4 DEF DropReturns, DelSession, Valid
  <1>7. sock' = [sock EXCEPT ![c] = "closed"]
    BY <1>0, <1>2, <1>6 DEF SessionTypeOK, Closed
  <1>8. Discard({c}) /\ port' = port \o Aborted({c}) /\ cur' = NULL /\ app' = app
    BY <1>1, <1>2, <1>4 DEF DropReturns, ToLoop
  <1>9. port' = port /\ recv' \subseteq recv
    <2>1. {c} \in SUBSET {c} /\ {c} \cap recv = {} /\ recv \subseteq TcpSession
      BY <1>0, <1>1, <1>2, CurAlone DEF KernelTypes
    <2> QED
      BY <1>0, <1>8, <2>1, AbortsHas DEF Discard
  <1>10. ~InWork(c)'
    BY <1>0, <1>1, <1>2, <1>8, <1>9, CurLeft
  <1>11. /\ m_Sessions' = [m_Sessions EXCEPT ![m_nSessionID[c]] = NULL]
         /\ heap' = [heap EXCEPT ![c] = "freed"]
         /\ m_queSessionID' = Append(m_queSessionID, m_nSessionID[c])
         /\ m_mapUDPSessions' = m_mapUDPSessions
    BY <1>0, <1>2, <1>4, <1>6, ErasesOne
  <1> QED
    BY <1>1, <1>2, <1>3, <1>4, <1>5, <1>6, <1>7, <1>8, <1>9, <1>10, <1>11

(* The application kicks the session of a peer. *)
LEMMA Kicks ==
    ASSUME SafeInv, KicksPeersOnly, NEW id \in SessionID, AppKicks(id)
    PROVE  \E p \in Peers :
              /\ app[id] = p /\ m_Sessions[id] = p /\ m_nSessionID[p] = id
              /\ heap[p] = "live" /\ p \in Holders
              /\ m_Sessions' = [m_Sessions EXCEPT ![id] = NULL]
              /\ heap' = [heap EXCEPT ![p] = "freed"]
              /\ m_mapUDPSessions' = [m_mapUDPSessions EXCEPT ![p] = 0]
              /\ m_queSessionID' = Append(m_queSessionID, id)
              /\ app' = [app EXCEPT ![id] = NULL]
              /\ UNCHANGED <<sock, m_nSessionID, fault, threadVars>> /\ cur = NULL
  <1>0. KernelInv /\ SessionTypeOK /\ CurInv /\ SlotInv /\ AppInv
    BY SafeParts, Parts
  <1>1. PICK p \in Peers : p = app[id]
    BY DEF AppKicks, KicksPeersOnly
  <1>2. p \in Session /\ p # NULL /\ p \notin TcpSession /\ p \in NewedSession
    BY SessionKinds
  <1>3. m_Sessions[id] = p
    BY <1>0, <1>1, <1>2 DEF AppInv
  <1>4. m_nSessionID[p] = id /\ heap[p] = "live" /\ p \in Holders
    BY <1>0, <1>2, <1>3, HoldersAre DEF SlotInv
  <1>5. Erase(id) /\ sock' = Closed({}) /\ m_nSessionID' = m_nSessionID /\ fault' = fault
    <2>1. {p} \cap TcpSession = {}
      BY <1>2
    <2> QED
      BY <1>2, <1>3, <1>4, <2>1 DEF AppKicks, KickSession, Valid
  <1>6. sock' = sock
    BY <1>0, <1>5 DEF Closed, SessionTypeOK
  <1>7. /\ m_Sessions' = [m_Sessions EXCEPT ![id] = NULL]
        /\ heap' = [heap EXCEPT ![p] = "freed"]
        /\ m_mapUDPSessions' = [m_mapUDPSessions EXCEPT ![p] = 0]
        /\ m_queSessionID' = Append(m_queSessionID, id)
    BY <1>0, <1>2, <1>3, <1>5, ErasesOne
  <1>8. cur = NULL /\ app' = [app EXCEPT ![id] = NULL] /\ UNCHANGED threadVars
    BY <1>0 DEF AppKicks, CurInv, Callbacks
  <1> QED
    BY <1>1, <1>3, <1>4, <1>5, <1>6, <1>7, <1>8

-----------------------------------------------------------------------------
(* Each ID is in the queue or held, after any step. *)
LEMMA QueueStep == SafeInv /\ Next /\ KicksPeersOnly => QueueInv'
  <1> SUFFICES ASSUME SafeInv, Next, KicksPeersOnly PROVE QueueInv'
    OBVIOUS
  <1>0. KernelInv /\ SessionTypeOK /\ KernelTypes /\ QueueInv
    BY SafeParts, Parts
  <1>1. Holders \subseteq Session /\ SessionID \subseteq 0..MAX_SOCK_EVENT
        /\ m_nSessionID \in [Session -> 0..MAX_SOCK_EVENT]
    BY <1>0, SessionKinds DEF Holders, SessionTypeOK
  <1>2. /\ \A s \in NewedSession : s \in Holders' <=> heap'[s] = "live"
        /\ \A k \in Connectors : k \in Holders' <=> tcp'[k] # "fresh"
        /\ Holders' \subseteq Session /\ Session = NewedSession \cup Connectors
    BY SessionKinds DEF Holders, HoldsID, Session, NewedSession
  <1>3. ASSUME \A k \in Connectors : ~AppConnects(k)
        PROVE  \A k \in Connectors : k \in Holders' <=> k \in Holders
    BY <1>0, <1>2, <1>3, FreshKept, HoldersAre
  <1>4. CASE Quiet /\ \A k \in Connectors : ~AppConnects(k)
    <2>1. Holders' = Holders
      BY <1>1, <1>2, <1>3, <1>4, HoldersAre DEF Quiet
    <2> QED
      BY <1>0, <1>4, <2>1 DEF Quiet, QueueInv
  <1>5. ASSUME NEW c \in Accepted, NEW x, AcceptPortFails(c, x) PROVE QueueInv'
    <2>1. c \notin Holders /\ c \in Session /\ c \in NewedSession
      BY <1>0, <1>5, AcceptedWaited, HoldersAre, SessionKinds DEF AcceptPortFails
    <2>2. m_queSessionID # <<>> /\ m_queSessionID' = Append(Tail(m_queSessionID), Head(m_queSessionID))
      BY <1>5, FreeSlot DEF AcceptPortFails, FreeSessionID, PopSessionID
    <2>3. \A s \in Holders : m_nSessionID'[s] = m_nSessionID[s]
      BY <1>1, <1>5, <2>1 DEF AcceptPortFails
    <2>4. Holders' = Holders
      <3>1. \A s \in NewedSession : heap'[s] = "live" <=> heap[s] = "live"
        BY <1>0, <1>5, <2>1, HoldersAre DEF AcceptPortFails, SessionTypeOK
      <3>2. pc # "OnUpdate"
        BY <1>5 DEF AcceptPortFails, Accepts, Gets
      <3>3. \A k \in Connectors : ~AppConnects(k)
        BY <3>2 DEF AppConnects
      <3> QED
        BY <1>1, <1>2, <1>3, <3>1, <3>3, HoldersAre
    <2>5. QueueOf(m_queSessionID', m_nSessionID, Holders, SessionID)
      BY <1>0, <2>2, QueueReturns DEF QueueInv
    <2>6. QueueOf(m_queSessionID', m_nSessionID', Holders, SessionID)
      BY <2>3, <2>5, QueueKept
    <2> QED
      BY <2>4, <2>6 DEF QueueInv
  <1>6. ASSUME NEW s \in NewedSession, s \notin Holders, NewSessionID # 0, pc # "OnUpdate",
               m_queSessionID' = PopSessionID,
               m_nSessionID' = [m_nSessionID EXCEPT ![s] = NewSessionID],
               heap' = [heap EXCEPT ![s] = "live"]
        PROVE  QueueInv'
    <2>1. m_queSessionID # <<>> /\ m_queSessionID' = Tail(m_queSessionID)
          /\ NewSessionID = Head(m_queSessionID) /\ s \in Session
      BY <1>6, FreeSlot, SessionKinds DEF PopSessionID
    <2>2. QueueOf(Tail(m_queSessionID), [m_nSessionID EXCEPT ![s] = Head(m_queSessionID)],
                  Holders \cup {s}, SessionID)
      BY <1>0, <1>1, <1>6, <2>1, QueueTakes DEF QueueInv
    <2>3. Holders' = Holders \cup {s}
      <3>1. \A t \in NewedSession : heap'[t] = "live" <=> heap[t] = "live" \/ t = s
        BY <1>0, <1>6, <2>1, SessionKinds DEF SessionTypeOK
      <3>2. \A k \in Connectors : ~AppConnects(k)
        BY <1>6 DEF AppConnects
      <3> QED
        BY <1>1, <1>2, <1>3, <1>6, <2>1, <3>1, <3>2, HoldersAre
    <2> QED
      BY <1>6, <2>1, <2>2, <2>3 DEF QueueInv
  <1>7. ASSUME NEW c \in Accepted, NEW x, Accept(c, x) PROVE QueueInv'
    <2>1. c \notin Holders /\ c \in NewedSession
      BY <1>0, <1>7, AcceptedWaited, HoldersAre, SessionKinds DEF Accept
    <2> QED
      BY <1>6, <1>7, <2>1 DEF Accept, Accepts, Gets
  <1>8. ASSUME NEW p \in Peers, ReceivesFromNew(p) PROVE QueueInv'
    <2>1. p \in NewedSession /\ p \notin Holders
      <3>1. p \in NewedSession /\ m_mapUDPSessions[p] = 0 /\ 0 \notin SessionID
        BY <1>8, SessionKinds DEF ReceivesFromNew, GetUDPSessionID
      <3>2. p \in Holders => m_nSessionID[p] \in SessionID /\ heap[p] = "live"
        BY <1>0, <3>1, HolderHasID, HoldersAre
      <3>3. TableInv
        BY SafeParts
      <3> QED
        BY <3>1, <3>2, <3>3 DEF TableInv
    <2> QED
      BY <1>6, <1>8, <2>1 DEF ReceivesFromNew, Succeeds, Gets
  <1>9. ASSUME NEW k \in Connectors, DispatchConnect(k) PROVE QueueInv'
    <2>1. UNCHANGED <<m_queSessionID, m_nSessionID, heap>> /\ pc # "OnUpdate"
      BY <1>9 DEF DispatchConnect, Succeeds, Gets
    <2>2. Holders' = Holders
      <3>1. \A j \in Connectors : ~AppConnects(j)
        BY <2>1 DEF AppConnects
      <3> QED
        BY <1>1, <1>2, <1>3, <2>1, <3>1, HoldersAre
    <2> QED
      BY <1>0, <2>1, <2>2 DEF QueueInv
  <1>10. ASSUME NEW k \in Connectors, AppConnects(k) PROVE QueueInv'
    <2>1. k \notin Holders /\ k \in Session /\ k \in TcpSession
      BY <1>10, HoldersAre, SessionKinds DEF AppConnects
    <2>2. m_queSessionID # <<>> /\ NewSessionID = Head(m_queSessionID)
      BY <1>10, FreeSlot DEF AppConnects
    <2>3. heap' = heap /\ m_nSessionID' = [m_nSessionID EXCEPT ![k] = Head(m_queSessionID)]
      BY <1>10, <2>2 DEF AppConnects
    <2>4. CASE tcp' = [tcp EXCEPT ![k] = "syn"] /\ m_queSessionID' = PopSessionID
      <3>1. QueueOf(Tail(m_queSessionID), [m_nSessionID EXCEPT ![k] = Head(m_queSessionID)],
                    Holders \cup {k}, SessionID)
        BY <1>0, <1>1, <2>1, <2>2, QueueTakes DEF QueueInv
      <3>2. Holders' = Holders \cup {k}
        <4>1. \A j \in Connectors : tcp'[j] # "fresh" <=> tcp[j] # "fresh" \/ j = k
          BY <1>0, <2>1, <2>4, SessionKinds DEF KernelTypes
        <4> QED
          BY <1>1, <1>2, <2>1, <2>3, <4>1, HoldersAre
      <3> QED
        BY <2>3, <2>4, <3>1, <3>2 DEF QueueInv, PopSessionID
    <2>5. CASE tcp' = tcp /\ m_queSessionID' = FreeSessionID(PopSessionID, NewSessionID)
      <3>1. QueueOf(m_queSessionID', m_nSessionID, Holders, SessionID)
        BY <1>0, <2>2, <2>5, QueueReturns DEF QueueInv, FreeSessionID, PopSessionID
      <3>2. \A s \in Holders : m_nSessionID'[s] = m_nSessionID[s]
        BY <1>1, <2>1, <2>3
      <3>3. Holders' = Holders
        BY <1>1, <1>2, <2>3, <2>5, HoldersAre
      <3>4. QueueOf(m_queSessionID', m_nSessionID', Holders, SessionID)
        BY <3>1, <3>2, QueueKept
      <3> QED
        BY <3>3, <3>4 DEF QueueInv
    <2> QED
      BY <1>10, <2>4, <2>5 DEF AppConnects
  <1>11. ASSUME NEW s \in NewedSession, s \in Holders, UNCHANGED m_nSessionID,
                heap' = [heap EXCEPT ![s] = "freed"],
                m_queSessionID' = Append(m_queSessionID, m_nSessionID[s]),
                \A k \in Connectors : ~AppConnects(k)
         PROVE  QueueInv'
    <2>1. QueueOf(m_queSessionID', m_nSessionID, Holders \ {s}, SessionID)
      BY <1>0, <1>11, QueueGives DEF QueueInv
    <2>2. Holders' = Holders \ {s}
      <3>1. \A t \in NewedSession : heap'[t] = "live" <=> heap[t] = "live" /\ t # s
        BY <1>0, <1>11, SessionKinds DEF SessionTypeOK
      <3> QED
        BY <1>1, <1>2, <1>3, <1>11, <3>1, HoldersAre, SessionKinds
    <2> QED
      BY <1>11, <2>1, <2>2 DEF QueueInv
  <1>12. CASE DropReturns
    <2>1. PICK c \in Accepted : /\ c \in Holders /\ heap' = [heap EXCEPT ![c] = "freed"]
                                /\ m_queSessionID' = Append(m_queSessionID, m_nSessionID[c])
                                /\ UNCHANGED m_nSessionID
      BY <1>12, Drops
    <2>2. \A k \in Connectors : ~AppConnects(k)
      BY <1>12 DEF DropReturns, AppConnects
    <2> QED
      BY <1>11, <2>1, <2>2, SessionKinds
  <1>13. ASSUME NEW id \in SessionID, AppKicks(id) PROVE QueueInv'
    <2>1. PICK p \in Peers : /\ p \in Holders /\ heap' = [heap EXCEPT ![p] = "freed"]
                             /\ m_nSessionID[p] = id
                             /\ m_queSessionID' = Append(m_queSessionID, id)
                             /\ UNCHANGED <<m_nSessionID, sock>> /\ app[id] = p
                             /\ app' = [app EXCEPT ![id] = NULL]
      BY <1>13, Kicks
    <2>2. app' # app
      BY <2>1, SafeParts, Parts, SessionKinds DEF ThreadTypes
    <2>3. \A k \in Connectors : ~AppConnects(k)
      BY <2>2 DEF AppConnects
    <2> QED
      BY <1>11, <2>1, <2>3, SessionKinds
  <1>14. CASE \E k \in Connectors : AppConnects(k)
    BY <1>10, <1>14
  <1> QED
    BY <1>4, <1>5, <1>7, <1>8, <1>9, <1>12, <1>13, <1>14, QuietOrNot

-----------------------------------------------------------------------------
(* The table, the map and the descriptors. *)

(* DoAccpet and DoReadFrom put a new session in the slot of a free ID. *)
LEMMA AddsToTable ==
    ASSUME SafeInv, NEW s \in NewedSession, heap[s] # "live", NewSessionID # 0,
           m_nSessionID' = [m_nSessionID EXCEPT ![s] = NewSessionID],
           heap' = [heap EXCEPT ![s] = "live"], AddSession(NewSessionID, s)
    PROVE  \A t \in NewedSession : heap'[t] = "live" => m_Sessions'[m_nSessionID'[t]] = t
  <1>0. KernelInv /\ SessionTypeOK /\ TableInv /\ QueueInv
    BY SafeParts, Parts
  <1> SUFFICES ASSUME NEW t \in NewedSession, heap'[t] = "live"
               PROVE  m_Sessions'[m_nSessionID'[t]] = t
    OBVIOUS
  <1>1. s \in Session /\ t \in Session /\ NewSessionID \in SessionID
    BY FreeSlot, SessionKinds
  <1>2. CASE t = s
    BY <1>0, <1>1, <1>2 DEF SessionTypeOK, AddSession
  <1>3. CASE t # s
    <2>1. heap[t] = "live" /\ m_nSessionID'[t] = m_nSessionID[t]
      BY <1>0, <1>1, <1>3 DEF SessionTypeOK
    <2>2. t \in Holders /\ m_nSessionID[t] # NewSessionID /\ m_nSessionID[t] \in SessionID
      BY <1>0, <2>1, HoldersAre, HolderHasID, FreeSlot
    <2> QED
      BY <1>0, <2>1, <2>2 DEF SessionTypeOK, AddSession, TableInv
  <1> QED
    BY <1>2, <1>3

LEMMA TableStep == SafeInv /\ Next /\ KicksPeersOnly => TableInv'
  <1> SUFFICES ASSUME SafeInv, Next, KicksPeersOnly PROVE TableInv'
    OBVIOUS
  <1>0. KernelInv /\ SessionTypeOK /\ CurInv /\ TableInv /\ QueueInv
    BY SafeParts, Parts
  <1>1. ASSUME Quiet, \A c \in Accepted : sock'[c] = "open" <=> sock[c] = "open"
        PROVE  TableInv'
    BY <1>0, <1>1 DEF Quiet, TableInv
  <1>2. CASE Quiet /\ UNCHANGED <<sock, app>>
    BY <1>1, <1>2
  <1>3. ASSUME Quiet, NEW d \in Accepted, NEW x, AcceptWithoutID(d, x) PROVE TableInv'
    <2>1. sock[d] # "open" /\ sock' = [sock EXCEPT ![d] = "closed"]
      BY <1>0, <1>3, AcceptedWaited DEF AcceptWithoutID
    <2> QED
      BY <1>0, <1>1, <1>3, <2>1, SessionKinds DEF SessionTypeOK
  <1>4. CASE Quiet /\ \E s \in TcpSession, n \in 0..MaxRx : DispatchRead(s, n)
    BY <1>1, <1>4 DEF DispatchRead, DoRead
  <1>5. CASE Quiet /\ ConnectReadFails
    <2>1. cur \notin Accepted /\ sock' = [sock EXCEPT ![cur] = "dangling"]
      BY <1>0, <1>5, SessionKinds DEF ConnectReadFails, CurInv, NewedSession
    <2> QED
      BY <1>0, <1>1, <1>5, <2>1, SessionKinds DEF SessionTypeOK
  <1>6. ASSUME NEW c \in Accepted, NEW x, AcceptPortFails(c, x) PROVE TableInv'
    <2>1. heap[c] # "live" /\ c \in Session /\ c \in TcpSession /\ c \notin Peers
      BY <1>0, <1>6, AcceptedWaited DEF AcceptPortFails
    <2>2. /\ m_nSessionID' = [m_nSessionID EXCEPT ![c] = NewSessionID]
          /\ heap' = [heap EXCEPT ![c] = "freed"] /\ sock' = [sock EXCEPT ![c] = "closed"]
          /\ UNCHANGED <<m_Sessions, m_mapUDPSessions>>
      BY <1>6 DEF AcceptPortFails
    <2>3. /\ \A s \in Session : s # c => heap'[s] = heap[s] /\ m_nSessionID'[s] = m_nSessionID[s]
          /\ \A s \in TcpSession : s # c => sock'[s] = sock[s]
          /\ heap'[c] # "live" /\ sock'[c] # "open"
      BY <1>0, <2>1, <2>2 DEF SessionTypeOK
    <2> QED
      BY <1>0, <2>1, <2>2, <2>3, SessionKinds DEF TableInv
  <1>7. ASSUME NEW c \in Accepted, NEW x, Accept(c, x) PROVE TableInv'
    <2>1. heap[c] # "live" /\ c \in Session /\ c \in TcpSession /\ c \notin Peers
      BY <1>0, <1>7, AcceptedWaited DEF Accept
    <2>2. /\ m_nSessionID' = [m_nSessionID EXCEPT ![c] = NewSessionID]
          /\ heap' = [heap EXCEPT ![c] = "live"] /\ sock' = [sock EXCEPT ![c] = "open"]
          /\ AddSession(NewSessionID, c) /\ NewSessionID # 0 /\ UNCHANGED m_mapUDPSessions
      BY <1>7 DEF Accept
    <2>3. /\ \A s \in Session : s # c => heap'[s] = heap[s] /\ m_nSessionID'[s] = m_nSessionID[s]
          /\ \A s \in TcpSession : s # c => sock'[s] = sock[s]
          /\ heap'[c] = "live" /\ sock'[c] = "open"
      BY <1>0, <2>1, <2>2 DEF SessionTypeOK
    <2>4. \A s \in NewedSession : heap'[s] = "live" => m_Sessions'[m_nSessionID'[s]] = s
      BY <2>1, <2>2, AddsToTable, SessionKinds
    <2> QED
      BY <1>0, <2>1, <2>2, <2>3, <2>4, SessionKinds DEF TableInv
  <1>8. ASSUME NEW p \in Peers, ReceivesFromNew(p) PROVE TableInv'
    <2>1. p \in Session /\ p \in NewedSession /\ p \notin TcpSession /\ p \notin Accepted
          /\ NewSessionID \in SessionID
      BY <1>8, FreeSlot, SessionKinds DEF ReceivesFromNew
    <2>2. heap[p] # "live"
      BY <1>0, <1>8, <2>1, HoldersAre, HolderHasID, SessionKinds
         DEF TableInv, ReceivesFromNew, GetUDPSessionID
    <2>3. /\ m_nSessionID' = [m_nSessionID EXCEPT ![p] = NewSessionID]
          /\ heap' = [heap EXCEPT ![p] = "live"] /\ sock' = sock
          /\ m_mapUDPSessions' = [m_mapUDPSessions EXCEPT ![p] = NewSessionID]
          /\ AddSession(NewSessionID, p) /\ NewSessionID # 0
      BY <1>8 DEF ReceivesFromNew
    <2>4. /\ \A s \in Session : s # p => heap'[s] = heap[s] /\ m_nSessionID'[s] = m_nSessionID[s]
          /\ \A s \in Peers : s # p => m_mapUDPSessions'[s] = m_mapUDPSessions[s]
          /\ heap'[p] = "live" /\ m_mapUDPSessions'[p] = m_nSessionID'[p]
      BY <1>0, <2>1, <2>3 DEF SessionTypeOK
    <2>5. \A s \in NewedSession : heap'[s] = "live" => m_Sessions'[m_nSessionID'[s]] = s
      BY <2>1, <2>2, <2>3, AddsToTable
    <2> QED
      BY <1>0, <2>1, <2>3, <2>4, <2>5, SessionKinds DEF TableInv
  <1>9. ASSUME NEW k \in Connectors, DispatchConnect(k) PROVE TableInv'
    <2>1. /\ m_Sessions' = [m_Sessions EXCEPT ![m_nSessionID[k]] = k]
          /\ UNCHANGED <<m_nSessionID, heap, sock, m_mapUDPSessions>>
      BY <1>9 DEF DispatchConnect, AddSession
    <2>2. ASSUME NEW s \in NewedSession, heap[s] = "live"
          PROVE  m_nSessionID[s] \in SessionID /\ m_nSessionID[s] # m_nSessionID[k]
      <3>1. s \in Holders /\ k \in Holders /\ s # k
        BY <1>9, <2>2, HoldersAre, ConnectorSlot, SessionKinds
      <3> QED
        BY <1>0, <3>1, HolderHasID
    <2>3. \A s \in NewedSession : heap[s] = "live" =>
             m_Sessions'[m_nSessionID[s]] = m_Sessions[m_nSessionID[s]]
      BY <1>0, <2>1, <2>2 DEF SessionTypeOK
    <2> QED
      BY <1>0, <2>1, <2>3 DEF TableInv
  <1>10. ASSUME NEW k \in Connectors, AppConnects(k) PROVE TableInv'
    <2>1. /\ UNCHANGED <<m_Sessions, heap, sock, m_mapUDPSessions>>
          /\ m_nSessionID' = [m_nSessionID EXCEPT ![k] = NewSessionID]
      BY <1>10 DEF AppConnects
    <2>2. \A s \in NewedSession : m_nSessionID'[s] = m_nSessionID[s]
      BY <1>0, <2>1, SessionKinds DEF SessionTypeOK
    <2> QED
      BY <1>0, <2>1, <2>2, SessionKinds DEF TableInv
  <1>11. ASSUME NEW s \in NewedSession, s \in Holders,
                m_Sessions' = [m_Sessions EXCEPT ![m_nSessionID[s]] = NULL],
                heap' = [heap EXCEPT ![s] = "freed"], UNCHANGED m_nSessionID
         PROVE  /\ \A t \in NewedSession : heap'[t] = "live" => m_Sessions'[m_nSessionID'[t]] = t
                /\ \A t \in NewedSession : t # s => heap'[t] = heap[t]
                /\ heap'[s] # "live"
    <2>1. s \in Session /\ \A t \in NewedSession : t \in Session /\ (heap'[t] = "live" <=> heap[t] = "live" /\ t # s)
      BY <1>0, <1>11, SessionKinds DEF SessionTypeOK
    <2>2. ASSUME NEW t \in NewedSession, heap[t] = "live", t # s
          PROVE  m_Sessions'[m_nSessionID[t]] = t
      <3>1. m_nSessionID[t] \in SessionID /\ m_nSessionID[t] # m_nSessionID[s]
        BY <1>0, <1>11, <2>2, HoldersAre, HolderHasID
      <3> QED
        BY <1>0, <1>11, <2>2, <3>1 DEF SessionTypeOK, TableInv
    <2>3. \A t \in NewedSession : t # s => heap'[t] = heap[t]
      BY <1>0, <1>11, <2>1 DEF SessionTypeOK
    <2> QED
      BY <1>11, <2>1, <2>2, <2>3
  <1>12. CASE DropReturns
    <2>1. PICK c \in Accepted :
              /\ c \in Holders
              /\ m_Sessions' = [m_Sessions EXCEPT ![m_nSessionID[c]] = NULL]
              /\ heap' = [heap EXCEPT ![c] = "freed"]
              /\ sock' = [sock EXCEPT ![c] = "closed"]
              /\ UNCHANGED <<m_mapUDPSessions, m_nSessionID>>
      BY <1>12, Drops
    <2>2. c \in TcpSession /\ c \in NewedSession /\ c \notin Peers
      BY SessionKinds
    <2>3. \A d \in TcpSession : sock'[d] = IF d = c THEN "closed" ELSE sock[d]
      BY <1>0, <2>1, <2>2 DEF SessionTypeOK
    <2>4. /\ \A t \in NewedSession : heap'[t] = "live" => m_Sessions'[m_nSessionID'[t]] = t
          /\ \A t \in NewedSession : t # c => heap'[t] = heap[t]
          /\ heap'[c] # "live"
      BY <1>11, <2>1, <2>2
    <2> QED
      BY <1>0, <2>1, <2>2, <2>3, <2>4, SessionKinds DEF TableInv
  <1>13. ASSUME NEW id \in SessionID, AppKicks(id) PROVE TableInv'
    <2>1. PICK p \in Peers :
              /\ p \in Holders /\ m_nSessionID[p] = id
              /\ m_Sessions' = [m_Sessions EXCEPT ![id] = NULL]
              /\ heap' = [heap EXCEPT ![p] = "freed"]
              /\ m_mapUDPSessions' = [m_mapUDPSessions EXCEPT ![p] = 0]
              /\ UNCHANGED <<sock, m_nSessionID>>
      BY <1>13, Kicks
    <2>2. p \in NewedSession /\ p \notin TcpSession /\ p \notin Accepted
      BY SessionKinds
    <2>3. \A q \in Peers : m_mapUDPSessions'[q] = IF q = p THEN 0 ELSE m_mapUDPSessions[q]
      BY <1>0, <2>1 DEF SessionTypeOK
    <2>4. /\ \A t \in NewedSession : heap'[t] = "live" => m_Sessions'[m_nSessionID'[t]] = t
          /\ \A t \in NewedSession : t # p => heap'[t] = heap[t]
          /\ heap'[p] # "live"
      BY <1>11, <2>1, <2>2
    <2> QED
      BY <1>0, <2>1, <2>2, <2>3, <2>4, SessionKinds DEF TableInv
  <1> QED
    BY <1>2, <1>3, <1>4, <1>5, <1>6, <1>7, <1>8, <1>9, <1>10, <1>12, <1>13, QuietOrNot

-----------------------------------------------------------------------------
(* What the service works with is allocated, after any step. *)

(* How a session's memory changes. *)
LEMMA HeapCases ==
    ASSUME SafeInv, Next, KicksPeersOnly, NEW s \in NewedSession
    PROVE  \/ heap'[s] = heap[s]
           \/ heap[s] # "live" /\ \E x \in 1..contexts : AcceptPortFails(s, x) /\ heap'[s] # "live"
           \/ heap'[s] = "live" /\ s \in Accepted /\ \E x \in 1..contexts : Accept(s, x)
           \/ heap'[s] = "live" /\ s \in Peers /\ ReceivesFromNew(s)
           \/ s \in Accepted /\ DropReturns /\ cur = s /\ heap'[s] # "live"
           \/ s \in Peers /\ heap'[s] # "live"
                /\ \E id \in SessionID : AppKicks(id) /\ app[id] = s
  <1>0. KernelInv /\ SessionTypeOK /\ s \in Session
    BY SafeParts, Parts, SessionKinds
  <1>1. CASE Quiet
    BY <1>1 DEF Quiet
  <1>2. ASSUME NEW c \in Accepted, NEW x \in 1..contexts, AcceptPortFails(c, x)
        PROVE  \/ heap'[s] = heap[s]
               \/ s = c /\ heap[s] # "live" /\ heap'[s] # "live"
    BY <1>0, <1>2, AcceptedWaited DEF AcceptPortFails, SessionTypeOK
  <1>3. ASSUME NEW c \in Accepted, NEW x \in 1..contexts, Accept(c, x)
        PROVE  heap'[s] = heap[s] \/ (s = c /\ heap'[s] = "live")
    BY <1>0, <1>3 DEF Accept, SessionTypeOK
  <1>4. ASSUME NEW p \in Peers, ReceivesFromNew(p)
        PROVE  heap'[s] = heap[s] \/ (s = p /\ heap'[s] = "live")
    BY <1>0, <1>4 DEF ReceivesFromNew, SessionTypeOK
  <1>5. ASSUME NEW k \in Connectors, DispatchConnect(k) \/ AppConnects(k)
        PROVE  heap'[s] = heap[s]
    BY <1>5 DEF DispatchConnect, AppConnects
  <1>6. CASE DropReturns
    <2>1. PICK c \in Accepted : cur = c /\ heap' = [heap EXCEPT ![c] = "freed"]
      BY <1>6, Drops
    <2> QED
      BY <1>0, <1>6, <2>1 DEF SessionTypeOK
  <1>7. ASSUME NEW id \in SessionID, AppKicks(id)
        PROVE  heap'[s] = heap[s] \/ (s \in Peers /\ app[id] = s /\ heap'[s] # "live")
    <2>1. PICK p \in Peers : app[id] = p /\ heap' = [heap EXCEPT ![p] = "freed"]
      BY <1>7, Kicks
    <2> QED
      BY <1>0, <2>1 DEF SessionTypeOK
  <1> QED
    BY <1>1, <1>2, <1>3, <1>4, <1>5, <1>6, <1>7, QuietOrNot

LEMMA LiveStep == SafeInv /\ Next /\ KicksPeersOnly => LiveInv'
  <1> SUFFICES ASSUME SafeInv, Next, KicksPeersOnly PROVE LiveInv'
    OBVIOUS
  <1>0. KernelInv /\ SessionTypeOK /\ CurInv /\ QueueInv /\ TableInv /\ LiveInv
    BY SafeParts, Parts
  <1>1. ASSUME NEW c \in Accepted, InWork(c)' PROVE heap'[c] = "live"
    <2>1. c \in TcpSession /\ c \in NewedSession /\ c \notin Peers /\ c \notin Connectors
      BY SessionKinds
    <2>2. \A x : Accept(c, x) => heap'[c] = "live"
      BY <1>0, <2>1, SessionKinds DEF Accept, SessionTypeOK
    <2>3. CASE InWork(c)
      <3>1. heap[c] = "live"
        BY <1>0, <2>3 DEF LiveInv
      <3>2. ~(DropReturns /\ cur = c)
        BY <1>1, Drops
      <3> QED
        BY <2>1, <3>1, <3>2, HeapCases
    <2> QED
      BY <1>0, <1>1, <2>1, <2>2, <2>3, InWorkCases
  <1>2. ASSUME NEW p \in Peers, cur' = p PROVE heap'[p] = "live"
    <2>1. p \in Session /\ p \in NewedSession /\ p # NULL /\ p \notin TcpSession /\ p \notin Accepted
      BY SessionKinds
    <2>2. \A id \in SessionID : AppKicks(id) => cur' = NULL
      BY Kicks DEF threadVars
    <2>3. heap[p] = "live" => heap'[p] = "live"
      BY <1>2, <2>1, <2>2, HeapCases
    <2>4. ReceivesFromNew(p) => heap'[p] = "live"
      BY <1>0, <2>1 DEF ReceivesFromNew, SessionTypeOK
    <2>5. ReceivesFromKnown(p) => heap[p] = "live"
      BY <1>0 DEF TableInv, ReceivesFromKnown, GetUDPSessionID
    <2>6. cur = p => heap[p] = "live"
      BY <1>0 DEF LiveInv
    <2> QED
      BY <1>2, <2>1, <2>3, <2>4, <2>5, <2>6, CurCases, SessionKinds
  <1> QED
    BY <1>1, <1>2 DEF LiveInv

-----------------------------------------------------------------------------
(* No step dereferences what was freed, or closes what was closed. *)
LEMMA FaultStep == SafeInv /\ Next /\ KicksPeersOnly => NoFault'
  <1> SUFFICES ASSUME SafeInv, Next, KicksPeersOnly PROVE NoFault'
    OBVIOUS
  <1>0. KernelInv /\ SessionTypeOK /\ CurInv /\ LiveInv /\ PortInv /\ fault = "none"
    BY SafeParts, Parts
  <1>1. ASSUME NEW s \in TcpSession, InWork(s) PROVE Valid(s)
    <2>1. s \in Connectors => heap[s] = "live"
      BY <1>0, <1>1, Parts DEF WorkInv, ConnectInv
    <2> QED
      BY <1>0, <1>1, <2>1, SessionKinds DEF Valid, LiveInv, TcpSession
  <1>2. CASE UNCHANGED fault
    BY <1>0, <1>2 DEF NoFault
  <1>3. ASSUME Reads, cur \in TcpSession PROVE NoFault'
    BY <1>0, <1>1, <1>3 DEF Reads, Deref, InWork, NoFault
  <1>4. ASSUME NEW s \in TcpSession, NEW n, DispatchRead(s, n) PROVE NoFault'
    <2>1. PICK p \in PacketOf(contexts) :
              p.op = "IO_READ" /\ p.on = s /\ \A t : LeavesFor(p, t)
      BY <1>0, <1>4, TakenFor DEF DispatchRead, DoRead
    <2>2. InWork(s)
      BY <2>1 DEF LeavesFor, Leaves, InWork
    <2> QED
      BY <1>0, <1>1, <1>4, <2>2 DEF DispatchRead, DoRead, Deref, NoFault
  <1>5. CASE DropReturns
    BY <1>2, <1>5, Drops
  <1>6. ASSUME NEW id \in SessionID, AppKicks(id) PROVE NoFault'
    BY <1>2, <1>6, Kicks
  <1>7. CASE ConnectReadFails
    <2>1. cur \in Connectors /\ pc = "OnConnected"
      BY <1>0, <1>7 DEF ConnectReadFails, CurInv
    <2>2. sock[cur] = "open"
      BY <1>0, <2>1, Parts, SessionKinds DEF WorkInv, ConnectInv
    <2> QED
      BY <1>0, <1>7, <2>2 DEF ConnectReadFails, NoFault
  <1>8. CASE Completes \/ Network \/ (\E k \in Connectors : AppConnects(k)) \/ AppStops
    BY <1>2, <1>8
       DEF Completes, Network, AcceptCompletes, RecvFromCompletes, RecvCompletes,
           ConnectCompletes, ClientConnect, PeerSends, PeerCloses, PeerResets, sessionVars,
           AppConnects, AppStops, StopRunning
  <1>9. CASE \/ ReturnOnUpdate \/ TimesOut \/ GetsNull \/ GetsFailure \/ PostAccept
             \/ FailReturns \/ PeerAdded \/ DatagramReturns \/ ConnectReturns
             \/ \E k \in Connectors : DispatchConnect(k)
    BY <1>2, <1>9
       DEF ReturnOnUpdate, TimesOut, GetsNull, GetsFailure, PostAccept, FailReturns,
           PeerAdded, DatagramReturns, ConnectReturns, DispatchConnect, sessionVars
  <1>10. ASSUME NEW p, \/ ReceivesNothing(p) \/ ReceivesFromKnown(p)
                       \/ ReceivesWithoutID(p) \/ ReceivesFromNew(p)
         PROVE  NoFault'
    BY <1>2, <1>10 DEF ReceivesNothing, ReceivesFromKnown, ReceivesWithoutID, ReceivesFromNew,
                 sessionVars
  <1>11. ASSUME NEW c, NEW x, AcceptWithoutID(c, x) \/ AcceptPortFails(c, x) \/ Accept(c, x)
         PROVE  NoFault'
    BY <1>2, <1>11 DEF AcceptWithoutID, AcceptPortFails, Accept
  <1>12. CASE AcceptReturns \/ ReadReturns
    BY <1>3, <1>12, SessionKinds DEF AcceptReturns, ReadReturns
  <1> QED
    BY <1>4, <1>5, <1>6, <1>7, <1>8, <1>9, <1>10, <1>11, <1>12 DEF Next, ThreadProc, Application

-----------------------------------------------------------------------------
(* What the application knows. *)

(* A handler starts to report an end, or still does. *)
LEMMA EndingCases ==
    ASSUME Next, NEW s \in Session, Ending(s)'
    PROVE  \/ Ending(s) /\ UNCHANGED <<pc, cur>>
           \/ s \in TcpSession /\ \E n \in 0..MaxRx : DispatchRead(s, n)
           \/ ConnectReadFails /\ cur = s
  <1>0. s # NULL /\ cur' = s /\ pc' \in {"OnConnectionDrop", "OnConnectFail"}
        /\ pc' \in Callbacks
    BY SessionKinds DEF Ending, Callbacks
  <1>1. CASE UNCHANGED <<pc, cur, session_id>>
    BY <1>1 DEF Ending
  <1>2. /\ \A c, x : ~Accept(c, x)
        /\ \A p : ~ReceivesFromKnown(p) /\ ~ReceivesFromNew(p)
        /\ \A k : ~DispatchConnect(k)
        /\ ~PeerAdded
    BY <1>0 DEF Accept, ReceivesFromKnown, ReceivesFromNew, DispatchConnect, CallBack, PeerAdded
  <1> QED
    BY <1>0, <1>1, <1>2, CurCases

(* A handler that reports an end goes on, or returns. *)
LEMMA EndingLeaves ==
    ASSUME KernelInv, Next, NEW s \in Session, Ending(s)
    PROVE  \/ UNCHANGED <<pc, cur>>
           \/ DropReturns
           \/ s \in Connectors /\ FailReturns /\ ~InWork(s)'
  <1>0. KernelInv /\ CurInv /\ pc \in {"OnConnectionDrop", "OnConnectFail"} /\ cur = s
    BY Parts DEF Ending
  <1>1. CASE Completes \/ Network \/ Application
    BY <1>1
       DEF Completes, Network, Application, AcceptCompletes, RecvFromCompletes,
           RecvCompletes, ConnectCompletes, ClientConnect, PeerSends, PeerCloses,
           PeerResets, AppKicks, AppConnects, AppStops, threadVars
  <1>2. CASE FailReturns
    <2>1. s \in Connectors /\ s \in TcpSession
      BY <1>0, <1>2, SessionKinds DEF FailReturns, CurInv
    <2> QED
      BY <1>0, <1>2, <2>1, CurLeft DEF FailReturns, ToLoop, kernelVars
  <1>3. CASE ThreadProc
    BY <1>0, <1>2, <1>3
       DEF ThreadProc, ReturnOnUpdate, TimesOut, GetsNull, GetsFailure, Gets, AcceptReturns,
           PostAccept, DispatchRead, DoRead, Succeeds, ReadReturns, ReceivesNothing,
           ReceivesFromKnown, ReceivesWithoutID, ReceivesFromNew, PeerAdded,
           DatagramReturns, DispatchConnect, ConnectReturns, ConnectReadFails,
           AcceptWithoutID, AcceptPortFails, Accept, Accepts
  <1> QED
    BY <1>1, <1>3 DEF Next

(* A session is announced that was, or that the handler announces. *)
LEMMA AnnouncedCases ==
    ASSUME SafeInv, Next, KicksPeersOnly, NEW s \in Session, Announced(s)'
    PROVE  \/ Announced(s)
           \/ s \in Accepted /\ \E x \in 1..contexts : Accept(s, x)
           \/ s \in Peers /\ ReceivesFromNew(s)
           \/ s \in Connectors /\ DispatchConnect(s)
  <1>0. KernelInv
    BY SafeParts
  <1>1. CASE s \in NewedSession
    <2>1. heap'[s] = "live" /\ s \notin Connectors
      BY <1>1, SessionKinds DEF Announced
    <2>2. CASE heap[s] = "live"
      <3>1. Ending(s) => ~(DropReturns /\ cur = s)
        BY <1>0, <2>1, Drops, Parts DEF SessionTypeOK
      <3>2. ~Ending(s)
        BY <1>0, <1>1, <2>1, <3>1, EndingLeaves DEF Announced, Ending
      <3> QED
        BY <1>1, <2>2, <3>2 DEF Announced
    <2>3. CASE heap[s] # "live"
      BY <1>1, <2>1, <2>3, HeapCases
    <2> QED
      BY <2>2, <2>3
  <1>2. CASE s \in Connectors
    <2>1. InWork(s)' /\ s \in TcpSession /\ s \notin NewedSession /\ s \notin Accepted
      BY <1>2, SessionKinds DEF Announced
    <2>2. CASE InWork(s)
      <3>1. ~Ending(s)
        <4>1. ASSUME Ending(s), DropReturns PROVE FALSE
          BY <2>1, <4>1, Drops DEF Ending
        <4> QED
          BY <1>0, <2>1, <4>1, EndingLeaves DEF Announced, Ending
      <3> QED
        BY <1>2, <2>2, <3>1 DEF Announced
    <2> QED
      BY <1>0, <1>2, <2>1, <2>2, InWorkCases
  <1> QED
    BY <1>1, <1>2, SessionKinds DEF Session, NewedSession

(* A session that holds an ID keeps it. *)
LEMMA HolderKeepsID ==
    ASSUME SafeInv, Next, KicksPeersOnly, NEW s \in Holders
    PROVE  m_nSessionID'[s] = m_nSessionID[s]
  <1>0. KernelInv /\ SessionTypeOK /\ TableInv /\ QueueInv /\ s \in Session
    BY SafeParts, Parts DEF Holders
  <1>1. CASE Quiet \/ DropReturns \/ (\E id \in SessionID : AppKicks(id))
             \/ \E k \in Connectors : DispatchConnect(k)
    BY <1>1, Drops, Kicks DEF Quiet, DispatchConnect
  <1>2. ASSUME NEW c \in Accepted, NEW x, AcceptPortFails(c, x) \/ Accept(c, x)
        PROVE  m_nSessionID'[s] = m_nSessionID[s]
    <2>1. c # s
      BY <1>0, <1>2, AcceptedWaited, HoldersAre, SessionKinds DEF AcceptPortFails, Accept
    <2> QED
      BY <1>0, <1>2, <2>1 DEF AcceptPortFails, Accept, SessionTypeOK
  <1>3. ASSUME NEW p \in Peers, ReceivesFromNew(p) PROVE m_nSessionID'[s] = m_nSessionID[s]
    <2>1. m_nSessionID[s] \in SessionID /\ 0 \notin SessionID /\ p \in NewedSession
      BY <1>0, HolderHasID, SessionKinds
    <2>2. s = p => m_mapUDPSessions[p] = m_nSessionID[p]
      BY <1>0, <2>1, HoldersAre DEF TableInv
    <2> QED
      BY <1>0, <1>3, <2>1, <2>2 DEF ReceivesFromNew, GetUDPSessionID, SessionTypeOK
  <1>4. ASSUME NEW k \in Connectors, AppConnects(k) PROVE m_nSessionID'[s] = m_nSessionID[s]
    <2>1. k # s
      BY <1>4, HoldersAre DEF AppConnects
    <2> QED
      BY <1>0, <1>4, <2>1 DEF AppConnects, SessionTypeOK
  <1> QED
    BY <1>1, <1>2, <1>3, <1>4, QuietOrNot

(* A handler announces a session that the application does not know, under *)
(* an ID that it knows no session by.                                      *)
Announces(s, id) ==
    /\ id \in SessionID /\ app[id] = NULL /\ \A i \in SessionID : app[i] # s
    /\ pc = "wait" /\ cur' = s /\ session_id' = id /\ m_nSessionID'[s] = id
    /\ pc' = IF s \in Connectors THEN "OnConnected" ELSE "OnAddConnection"
    /\ app' = [app EXCEPT ![id] = s]
    /\ m_Sessions' = [m_Sessions EXCEPT ![id] = s]

LEMMA AnnouncesNew ==
    ASSUME SafeInv, NEW s \in Session,
           \/ s \in Accepted /\ \E x \in 1..contexts : Accept(s, x)
           \/ s \in Peers /\ ReceivesFromNew(s)
           \/ s \in Connectors /\ DispatchConnect(s)
    PROVE  \E id \in SessionID : Announces(s, id)
  <1>0. KernelInv /\ SessionTypeOK /\ AppInv /\ TableInv /\ s # NULL
    BY SafeParts, Parts, SessionKinds
  <1>1. ASSUME \A i \in SessionID : m_Sessions[i] # s PROVE \A i \in SessionID : app[i] # s
    BY <1>0, <1>1 DEF AppInv
  <1>2. ASSUME NEW x, s \in Accepted, Accept(s, x) PROVE Announces(s, NewSessionID)
    <2>1. \A i \in SessionID : m_Sessions[i] # s
      BY <1>0, <1>2, AcceptedWaited, NoSlot DEF Accept
    <2>2. m_nSessionID'[s] = NewSessionID /\ s \notin Connectors
      BY <1>0, <1>2, SessionKinds DEF Accept, SessionTypeOK, NewedSession
    <2> QED
      BY <1>1, <1>2, <2>1, <2>2, FreeSlot
         DEF Accept, Accepts, Gets, AddSession, CallBack, Announces
  <1>3. ASSUME s \in Peers, ReceivesFromNew(s) PROVE Announces(s, NewSessionID)
    <2>1. \A i \in SessionID : m_Sessions[i] # s
      BY <1>0, <1>3, NoSlot DEF ReceivesFromNew, GetUDPSessionID
    <2>2. m_nSessionID'[s] = NewSessionID /\ s \notin Connectors
      BY <1>0, <1>3, SessionKinds DEF ReceivesFromNew, SessionTypeOK, NewedSession
    <2> QED
      BY <1>1, <1>3, <2>1, <2>2, FreeSlot
         DEF ReceivesFromNew, Succeeds, Gets, AddSession, CallBack, Announces
  <1>4. ASSUME s \in Connectors, DispatchConnect(s) PROVE Announces(s, m_nSessionID[s])
    <2>1. \A i \in SessionID : m_Sessions[i] # s
      BY <1>0, <1>4, ConnectedWaited, NoSlot
    <2> QED
      BY <1>1, <1>4, <2>1, ConnectorSlot
         DEF DispatchConnect, Succeeds, Gets, AddSession, CallBack, Announces
  <1>5. ASSUME NewSessionID # 0 PROVE NewSessionID \in SessionID
    BY <1>5, FreeSlot
  <1> QED
    BY <1>2, <1>3, <1>4, <1>5, ConnectorSlot DEF Accept, ReceivesFromNew

(* A handler reports the end of a session that holds its ID. *)
LEMMA ReportsEnd ==
    ASSUME SafeInv, Next, NEW s \in Session,
           \/ s \in TcpSession /\ \E n \in 0..MaxRx : DispatchRead(s, n) /\ Ending(s)'
           \/ ConnectReadFails /\ cur = s
    PROVE  /\ s \in Holders /\ InWork(s) /\ s \in TcpSession
           /\ cur' = s /\ session_id' = m_nSessionID[s] /\ Ending(s)'
           /\ pc' = IF s \in Connectors THEN "OnConnectFail" ELSE "OnConnectionDrop"
           /\ app' = [app EXCEPT ![m_nSessionID[s]] = NULL]
           /\ m_Sessions' = m_Sessions
  <1>0. KernelInv /\ PortInv /\ CurInv
    BY SafeParts, Parts
  <1>1. ASSUME NEW n, s \in TcpSession, DispatchRead(s, n), Ending(s)'
        PROVE  /\ InWork(s) /\ cur' = s /\ session_id' = m_nSessionID[s]
               /\ pc' = IF s \in Connectors THEN "OnConnectFail" ELSE "OnConnectionDrop"
               /\ app' = [app EXCEPT ![m_nSessionID[s]] = NULL]
               /\ m_Sessions' = m_Sessions
    <2>1. PICK p \in PacketOf(contexts) :
              p.op = "IO_READ" /\ p.on = s /\ \A t : LeavesFor(p, t)
      BY <1>0, <1>1, TakenFor DEF DispatchRead, DoRead
    <2>2. InWork(s)
      BY <2>1 DEF LeavesFor, Leaves, InWork
    <2> QED
      BY <1>1, <2>2 DEF DispatchRead, DoRead, CallBack, Ending
  <1>2. ASSUME ConnectReadFails, cur = s
        PROVE  /\ InWork(s) /\ s \in Connectors /\ cur' = s /\ session_id' = m_nSessionID[s]
               /\ pc' = "OnConnectFail"
               /\ app' = [app EXCEPT ![m_nSessionID[s]] = NULL]
               /\ m_Sessions' = m_Sessions
    BY <1>0, <1>2 DEF ConnectReadFails, CurInv, InWork, CallBack
  <1>3. s \in TcpSession /\ InWork(s) => s \in Holders
    BY WorkersHold
  <1> QED
    BY <1>1, <1>2, <1>3, SessionKinds DEF Ending

(* How what the application knows by one ID changes. *)
LEMMA AppCases ==
    ASSUME SafeInv, Next, KicksPeersOnly, NEW id \in SessionID
    PROVE  \/ app'[id] = app[id] /\ (app[id] # NULL => m_Sessions'[id] = m_Sessions[id])
           \/ /\ app'[id] = NULL
              /\ \E s \in Holders : m_nSessionID[s] = id /\ Ending(s)'
           \/ app'[id] = NULL /\ AppKicks(id)
           \/ /\ app[id] = NULL
              /\ \E s \in Session : app'[id] = s /\ Announces(s, id)
  <1>0. KernelInv /\ SessionTypeOK /\ ThreadTypes /\ QueueInv
    BY SafeParts, Parts
  <1>1. CASE Quiet /\ app' = app
    BY <1>1 DEF Quiet
  <1>2. ASSUME NEW c \in Accepted, NEW x, AcceptWithoutID(c, x) \/ AcceptPortFails(c, x)
        PROVE  app' = app /\ m_Sessions' = m_Sessions
    BY <1>2 DEF AcceptWithoutID, AcceptPortFails
  <1>3. ASSUME NEW s \in Session,
               \/ s \in TcpSession /\ \E n \in 0..MaxRx : DispatchRead(s, n) /\ Ending(s)'
               \/ ConnectReadFails /\ cur = s
        PROVE  \/ app'[id] = app[id] /\ m_Sessions'[id] = m_Sessions[id]
               \/ /\ app'[id] = NULL
                  /\ \E t \in Holders : m_nSessionID[t] = id /\ Ending(t)'
    <2>1. /\ s \in Holders /\ Ending(s)' /\ m_Sessions' = m_Sessions
          /\ app' = [app EXCEPT ![m_nSessionID[s]] = NULL]
      BY <1>3, ReportsEnd
    <2> QED
      BY <1>0, <2>1 DEF ThreadTypes
  <1>4. ASSUME NEW s \in TcpSession, NEW n \in 0..MaxRx, DispatchRead(s, n)
        PROVE  \/ app'[id] = app[id] /\ m_Sessions'[id] = m_Sessions[id]
               \/ /\ app'[id] = NULL
                  /\ \E t \in Holders : m_nSessionID[t] = id /\ Ending(t)'
    <2>1. m_Sessions' = m_Sessions /\ (app' = app \/ Ending(s)')
      BY <1>4 DEF DispatchRead, DoRead, CallBack, Ending
    <2> QED
      BY <1>3, <1>4, <2>1, SessionKinds
  <1>5. ASSUME NEW s \in Session, NEW i \in SessionID, Announces(s, i)
        PROVE  \/ app'[id] = app[id] /\ m_Sessions'[id] = m_Sessions[id]
               \/ app[id] = NULL /\ app'[id] = s /\ Announces(s, id)
    <2>1. /\ app' = [app EXCEPT ![i] = s] /\ m_Sessions' = [m_Sessions EXCEPT ![i] = s]
          /\ app[i] = NULL
      BY <1>5 DEF Announces
    <2> QED
      BY <1>0, <1>5, <2>1 DEF ThreadTypes, SessionTypeOK
  <1>6. ASSUME NEW s \in Session,
               \/ s \in Accepted /\ \E x \in 1..contexts : Accept(s, x)
               \/ s \in Peers /\ ReceivesFromNew(s)
               \/ s \in Connectors /\ DispatchConnect(s)
        PROVE  \/ app'[id] = app[id] /\ m_Sessions'[id] = m_Sessions[id]
               \/ app[id] = NULL /\ app'[id] = s /\ Announces(s, id)
    BY <1>5, <1>6, AnnouncesNew
  <1>7. ASSUME NEW k \in Connectors, AppConnects(k)
        PROVE  app' = app /\ m_Sessions' = m_Sessions
    BY <1>7 DEF AppConnects
  <1>8. CASE DropReturns
    <2>1. PICK c \in Accepted :
              /\ app[m_nSessionID[c]] = NULL /\ app' = app
              /\ m_Sessions' = [m_Sessions EXCEPT ![m_nSessionID[c]] = NULL]
      BY <1>8, Drops
    <2>2. id # m_nSessionID[c] => m_Sessions'[id] = m_Sessions[id]
      BY <1>0, <2>1 DEF SessionTypeOK
    <2> QED
      BY <2>1, <2>2
  <1>9. ASSUME NEW i \in SessionID, AppKicks(i)
        PROVE  \/ app'[id] = app[id] /\ m_Sessions'[id] = m_Sessions[id]
               \/ app'[id] = NULL /\ AppKicks(id)
    <2>1. /\ app' = [app EXCEPT ![i] = NULL] /\ m_Sessions' = [m_Sessions EXCEPT ![i] = NULL]
      BY <1>9, Kicks
    <2>2. CASE id = i
      BY <1>0, <1>9, <2>1, <2>2 DEF ThreadTypes
    <2>3. CASE id # i
      BY <1>0, <2>1, <2>3 DEF ThreadTypes, SessionTypeOK
    <2> QED
      BY <2>2, <2>3
  <1>10. CASE ConnectReadFails
    BY <1>0, <1>3, <1>10, Parts, SessionKinds DEF ConnectReadFails, CurInv
  <1> QED
    BY <1>1, <1>2, <1>4, <1>6, <1>7, <1>8, <1>9, <1>10, QuietOrNot, SessionKinds

LEMMA AppStep == SafeInv /\ Next /\ KicksPeersOnly => AppInv'
  <1> SUFFICES ASSUME SafeInv, Next, KicksPeersOnly PROVE AppInv'
    OBVIOUS
  <1>0. KernelInv /\ SessionTypeOK /\ ThreadTypes /\ QueueInv /\ AppInv
    BY SafeParts, Parts
  <1>1. ASSUME NEW s \in Session, NEW id \in SessionID, Announces(s, id)
        PROVE  app'[id] = s /\ m_Sessions'[id] = s /\ ~Ending(s)'
    BY <1>0, <1>1 DEF Announces, ThreadTypes, SessionTypeOK, Ending
  <1>2. ASSUME NEW id \in SessionID, app'[id] # NULL
        PROVE  \E s \in Session : app'[id] = s /\ m_Sessions'[id] = s /\ ~Ending(s)'
    <2>1. CASE \E s \in Session : app'[id] = s /\ Announces(s, id)
      <3>1. PICK s \in Session : app'[id] = s /\ Announces(s, id)
        BY <2>1
      <3> QED
        BY <1>1, <3>1
    <2>2. CASE app'[id] = app[id] /\ (app[id] # NULL => m_Sessions'[id] = m_Sessions[id])
      <3>1. PICK s \in Session : app[id] = s /\ app'[id] = s
        BY <1>0, <1>2, <2>2 DEF ThreadTypes
      <3>2. s # NULL /\ m_Sessions[id] = s /\ ~Ending(s) /\ m_Sessions'[id] = s
        BY <1>0, <2>2, <3>1, SessionKinds DEF AppInv
      <3>3. m_nSessionID[s] = id
        BY <3>2, WorkersHold
      <3>4. ASSUME Ending(s)' PROVE FALSE
        <4>1. app' = [app EXCEPT ![id] = NULL]
          BY <3>2, <3>3, <3>4, EndingCases, ReportsEnd
        <4> QED
          BY <1>0, <3>1, <3>2, <4>1 DEF ThreadTypes
      <3> QED
        BY <3>1, <3>2, <3>4
    <2> QED
      BY <1>2, <2>1, <2>2, AppCases
  <1>3. ASSUME NEW s \in Session, Announced(s)' PROVE app'[m_nSessionID'[s]] = s
    <2>1. CASE Announced(s)
      <3> DEFINE id == m_nSessionID[s]
      <3>1. s \in Holders /\ app[id] = s /\ s # NULL
        BY <1>0, <2>1, WorkersHold, SessionKinds DEF AppInv
      <3>2. id \in SessionID /\ m_nSessionID'[s] = id
        BY <1>0, <3>1, HolderHasID, HolderKeepsID
      <3>3. ASSUME NEW t \in Holders, m_nSessionID[t] = id, Ending(t)' PROVE FALSE
        <4>1. t = s
          BY <1>0, <3>1, <3>3, HolderHasID
        <4> QED
          BY <1>3, <3>3, <4>1 DEF Announced
      <3>4. ASSUME AppKicks(id) PROVE FALSE
        <4>1. PICK p \in Peers : app[id] = p /\ heap' = [heap EXCEPT ![p] = "freed"]
          BY <3>2, <3>4, Kicks
        <4>2. s = p /\ s \in NewedSession /\ s \notin Connectors
          BY <3>1, <4>1, SessionKinds
        <4>3. heap'[s] # "live"
          BY <1>0, <4>1, <4>2 DEF SessionTypeOK
        <4> QED
          BY <1>3, <4>2, <4>3 DEF Announced
      <3>5. app'[id] = app[id]
        BY <3>1, <3>2, <3>3, <3>4, AppCases
      <3> QED
        BY <3>1, <3>2, <3>5
    <2>2. CASE ~Announced(s)
      <3>1. PICK id \in SessionID : Announces(s, id)
        BY <1>3, <2>2, AnnouncedCases, AnnouncesNew
      <3>2. m_nSessionID'[s] = id
        BY <3>1 DEF Announces
      <3> QED
        BY <1>1, <3>1, <3>2
    <2> QED
      BY <2>1, <2>2
  <1>4. ASSUME pc' \in {"OnAddConnection", "OnConnected"}
        PROVE  session_id' = m_nSessionID'[cur']
    <2>1. ASSUME NEW s \in Session, NEW id \in SessionID, Announces(s, id)
          PROVE  session_id' = m_nSessionID'[cur']
      BY <2>1 DEF Announces
    <2>2. pc' \in Callbacks
      BY <1>4 DEF Callbacks
    <2>3. /\ ~PeerAdded /\ ~ConnectReadFails /\ \A s, n : ~DispatchRead(s, n)
          /\ \A p : ~ReceivesFromKnown(p)
      BY <1>4 DEF PeerAdded, ConnectReadFails, CallBack, DispatchRead, DoRead, ReceivesFromKnown
    <2>4. CASE UNCHANGED <<pc, cur, session_id>>
      <3>1. PICK s : s = cur /\ s = cur'
        BY <2>4
      <3>2. s \in Session /\ session_id = m_nSessionID[s]
        BY <1>0, <1>4, <2>4, <3>1, Parts, SessionKinds DEF AppInv, CurInv
      <3>3. s \in Holders
        <4>1. s \in Peers => heap[s] = "live"
          BY <3>1, SafeParts DEF LiveInv
        <4>2. s \in TcpSession => InWork(s)
          BY <3>1 DEF InWork
        <4> QED
          BY <3>2, <4>1, <4>2, HoldersAre, WorkersHold, SessionKinds
             DEF Session, TcpSession
      <3> QED
        BY <2>4, <3>1, <3>2, <3>3, HolderKeepsID
    <2> QED
      BY <2>1, <2>2, <2>3, <2>4, CurCases, AnnouncesNew, SessionKinds
  <1>5. \A id \in SessionID : app'[id] # NULL => m_Sessions'[id] = app'[id] /\ ~Ending(app[id])'
    BY <1>2 DEF Ending
  <1> QED
    BY <1>3, <1>4, <1>5 DEF AppInv

-----------------------------------------------------------------------------
(* The invariant of the second half. *)

LEMMA InitSafe == Init => SafeInv
  <1> SUFFICES ASSUME Init PROVE SafeInv
    OBVIOUS
  <1> USE SessionKinds DEF Init, InitSession
  <1>0. KernelInv /\ SessionTypeOK
    BY InitKernel, Parts
  <1>1. Holders = {}
    BY DEF Holders, HoldsID
  <1>2. QueueInv
    <2>1. DOMAIN m_queSessionID = SessionID /\ \A i \in SessionID : m_queSessionID[i] = i
      OBVIOUS
    <2> QED
      BY <1>0, <1>1, <2>1 DEF QueueInv, QueueOf, SessionTypeOK, Has, AtMostOne
  <1>3. TableInv
    BY <1>1 DEF TableInv
  <1>4. \A s \in TcpSession : ~InWork(s)
    BY DEF InWork, Has
  <1>5. LiveInv
    BY <1>4 DEF LiveInv
  <1>6. AppInv
    BY <1>4 DEF AppInv, Announced
  <1> QED
    BY <1>0, <1>2, <1>3, <1>5, <1>6 DEF SafeInv, NoFault

LEMMA StutterSafe == SafeInv /\ UNCHANGED vars => SafeInv'
  <1> SUFFICES ASSUME SafeInv, UNCHANGED vars PROVE SafeInv'
    OBVIOUS
  <1> USE SafeParts DEF vars, sessionVars, kernelVars, threadVars
  <1>1. KernelInv'
    BY StutterKernel
  <1>2. QueueInv'
    BY DEF QueueInv, Holders, HoldsID
  <1>3. TableInv'
    BY DEF TableInv
  <1>4. LiveInv'
    BY DEF LiveInv, InWork
  <1>5. AppInv'
    BY DEF AppInv, Announced, InWork, Ending
  <1> QED
    BY <1>1, <1>2, <1>3, <1>4, <1>5 DEF SafeInv, NoFault

LEMMA NextSafe == KicksPeersOnly /\ SafeInv /\ [Next]_vars => SafeInv'
  <1> SUFFICES ASSUME KicksPeersOnly, SafeInv, [Next]_vars PROVE SafeInv'
    OBVIOUS
  <1>1. CASE Next
    <2>1. KernelInv'
      BY <1>1, NextKernel, SafeParts
    <2> QED
      BY <1>1, <2>1, QueueStep, TableStep, LiveStep, FaultStep, AppStep DEF SafeInv
  <1>2. CASE UNCHANGED vars
    BY <1>2, StutterSafe
  <1> QED
    BY <1>1, <1>2

(* What the queue, the holders and the table say together. *)
LEMMA SafeImplies == SafeInv => NoFault /\ IdsConserved /\ TableOwnsSessions
  <1> SUFFICES ASSUME SafeInv PROVE NoFault /\ IdsConserved /\ TableOwnsSessions
    OBVIOUS
  <1>0. KernelInv /\ SessionTypeOK /\ QueueInv /\ TableInv /\ AppInv
    BY SafeParts, Parts
  <1>1. \A i, j \in DOMAIN m_queSessionID : m_queSessionID[i] = m_queSessionID[j] => i = j
    BY <1>0 DEF QueueInv, QueueOf, AtMostOne
  <1>2. ASSUME NEW id \in SessionID
        PROVE  LET held == {s \in Session : HoldsID(s) /\ m_nSessionID[s] = id}
               IN  IF \E i \in DOMAIN m_queSessionID : m_queSessionID[i] = id
                   THEN held = {}
                   ELSE \E s \in Session : held = {s}
    <2> DEFINE held == {s \in Session : HoldsID(s) /\ m_nSessionID[s] = id}
    <2>1. held = {s \in Holders : m_nSessionID[s] = id}
      BY DEF Holders
    <2>2. (\E i \in DOMAIN m_queSessionID : m_queSessionID[i] = id) <=> Has(m_queSessionID, {id})
      BY DEF Has
    <2>3. CASE Has(m_queSessionID, {id})
      BY <1>0, <2>1, <2>2, <2>3 DEF QueueInv, QueueOf
    <2>4. CASE ~Has(m_queSessionID, {id})
      <3>1. PICK s \in Holders : m_nSessionID[s] = id
        BY <1>0, <2>4 DEF QueueInv, QueueOf
      <3>2. held = {s} /\ s \in Session
        BY <1>0, <2>1, <3>1 DEF QueueInv, QueueOf, Holders
      <3> QED
        BY <2>2, <2>4, <3>2
    <2> QED
      BY <2>3, <2>4
  <1>3. ASSUME NEW s \in NewedSession, heap[s] = "live"
        PROVE  /\ m_Sessions[m_nSessionID[s]] = s
               /\ app[m_nSessionID[s]] = s \/ (pc = "OnConnectionDrop" /\ cur = s)
               /\ s \in Peers => m_mapUDPSessions[s] = m_nSessionID[s]
    <2>1. s \in Session /\ s \notin Connectors
      BY SessionKinds
    <2>2. Ending(s) => pc = "OnConnectionDrop" /\ cur = s
      BY <1>0, <2>1, Parts DEF Ending, CurInv
    <2>3. app[m_nSessionID[s]] = s \/ Ending(s)
      BY <1>0, <1>3, <2>1 DEF AppInv, Announced
    <2> QED
      BY <1>0, <1>3, <2>2, <2>3 DEF TableInv
  <1>4. ASSUME NEW s \in NewedSession, heap[s] # "live"
        PROVE  /\ \A id \in SessionID : m_Sessions[id] # s /\ app[id] # s
               /\ s \in Peers => m_mapUDPSessions[s] = 0
    <2>1. s \in Session /\ s # NULL /\ s \notin Holders
      BY <1>4, SessionKinds, HoldersAre
    <2>2. \A id \in SessionID : m_Sessions[id] # s
      BY <2>1, WorkersHold
    <2>3. \A id \in SessionID : app[id] # s
      BY <1>0, <2>1, <2>2 DEF AppInv
    <2> QED
      BY <1>0, <1>4, <2>2, <2>3 DEF TableInv
  <1>5. \A c \in Accepted : sock[c] = "open" <=> heap[c] = "live"
    BY <1>0 DEF TableInv
  <1>6. TableOwnsSessions
    BY <1>3, <1>4, <1>5 DEF TableOwnsSessions
  <1>7. IdsConserved
    BY <1>1, <1>2 DEF IdsConserved
  <1> QED
    BY <1>6, <1>7 DEF SafeInv

(***************************************************************************)
(* The invariant of an application that kicks UDP peers alone and does not *)
(* stop the service: the queue and the sessions share out the IDs, what is *)
(* allocated is in the table, what a packet or a handler leads to is       *)
(* allocated, and the application knows what has been announced.           *)
(***************************************************************************)
THEOREM SessionsSafe == KicksPeersOnly => (Spec => []SafeInv)
  <1> SUFFICES ASSUME KicksPeersOnly PROVE Spec => []SafeInv
    OBVIOUS
  <1>1. Init => SafeInv
    BY InitSafe
  <1>2. SafeInv /\ [Next]_vars => SafeInv'
    BY NextSafe
  <1> QED
    BY <1>1, <1>2, PTL DEF Spec

(***************************************************************************)
(* No packet and no handler leads to a session that DelSession or          *)
(* KickSession has deleted, and no descriptor is closed twice.             *)
(***************************************************************************)
THEOREM NeverFaults == KicksPeersOnly => (Spec => []NoFault)
  <1> SUFFICES ASSUME KicksPeersOnly PROVE Spec => []NoFault
    OBVIOUS
  <1>1. Spec => []SafeInv
    BY SessionsSafe
  <1> QED
    BY <1>1, SafeImplies, PTL

(***************************************************************************)
(* Each ID is in the queue once or held by one session, whichever call of  *)
(* DoAccpet, DoReadFrom and AddTCPConnector fails.                         *)
(***************************************************************************)
THEOREM IdsAreConserved == KicksPeersOnly => (Spec => []IdsConserved)
  <1> SUFFICES ASSUME KicksPeersOnly PROVE Spec => []IdsConserved
    OBVIOUS
  <1>1. Spec => []SafeInv
    BY SessionsSafe
  <1> QED
    BY <1>1, SafeImplies, PTL

(***************************************************************************)
(* The table holds the sessions that the service allocated and no other,   *)
(* with their descriptors open and their peers in the map, and the         *)
(* application knows each one by its ID until its end is reported.         *)
(***************************************************************************)
THEOREM SessionsAreOwned == KicksPeersOnly => (Spec => []TableOwnsSessions)
  <1> SUFFICES ASSUME KicksPeersOnly PROVE Spec => []TableOwnsSessions
    OBVIOUS
  <1>1. Spec => []SafeInv
    BY SessionsSafe
  <1> QED
    BY <1>1, SafeImplies, PTL

-----------------------------------------------------------------------------
(***************************************************************************)
(* NetServiceIocp implements SessionProtocol, of the same applications. A  *)
(* step of the service is seen in what the application knows and in the    *)
(* callback that it is in.                                                 *)
(***************************************************************************)

(* What the refinement reads as callback. *)
InCallback == IF pc \in Callbacks THEN <<pc, session_id, cur>> ELSE NULL

LEMMA CallbackIsOne ==
    ASSUME KernelInv, pc \in Callbacks
    PROVE  InCallback # NULL
  BY CallbackAssumption, Parts DEF ThreadTypes, InCallback

(* Nothing is told and nothing returns. *)
LEMMA Unseen ==
    ASSUME UNCHANGED app, UNCHANGED InCallback
    PROVE  UNCHANGED Protocol!vars
  BY DEF Protocol!vars, InCallback

(* OnAddConnection or OnConnected opens a session. *)
LEMMA Opens ==
    ASSUME NEW id \in SessionID, NEW s \in Session, Announces(s, id)
    PROVE  Protocol!Next
  <1> DEFINE name == IF s \in Connectors THEN "OnConnected" ELSE "OnAddConnection"
  <1>1. InCallback = NULL /\ InCallback' = <<name, id, s>>
    BY DEF Announces, InCallback, Callbacks
  <1>2. Protocol!Open(name, id, s)
    BY <1>1 DEF Protocol!Open, Protocol!Announces, Announces, InCallback
  <1> QED
    BY <1>2 DEF Protocol!Next

(* OnData reports an open session. *)
LEMMA ReportsData ==
    ASSUME UNCHANGED app, NEW id \in SessionID, app[id] # NULL,
           InCallback = NULL \/ InCallback = <<"OnAddConnection", id, app[id]>>,
           InCallback' = <<"OnData", id, app[id]>>
    PROVE  Protocol!Next
  <1>1. Protocol!Data(id)
    BY DEF Protocol!Data, InCallback
  <1> QED
    BY <1>1 DEF Protocol!Next

(* OnConnectionDrop or OnConnectFail ends a session. *)
LEMMA Loses ==
    ASSUME NEW id \in SessionID, app[id] # NULL,
           InCallback = NULL \/ InCallback = <<"OnConnected", id, app[id]>>,
           app' = [app EXCEPT ![id] = NULL],
           InCallback' = <<IF app[id] \in Connectors THEN "OnConnectFail"
                           ELSE "OnConnectionDrop", id, app[id]>>
    PROVE  Protocol!Next
  <1> DEFINE name == IF app[id] \in Connectors THEN "OnConnectFail" ELSE "OnConnectionDrop"
  <1>1. Protocol!Lose(name, id)
    BY DEF Protocol!Lose, Protocol!Reports, InCallback
  <1> QED
    BY <1>1 DEF Protocol!Next

(* A callback returns. *)
LEMMA CallbackReturns ==
    ASSUME UNCHANGED app, InCallback # NULL, InCallback' = NULL
    PROVE  Protocol!Next
  <1>1. Protocol!Return
    BY DEF Protocol!Return, InCallback
  <1> QED
    BY <1>1 DEF Protocol!Next

(* KickSession ends a session without a word. *)
LEMMA KickEnds ==
    ASSUME NEW id \in SessionID, app[id] # NULL,
           app' = [app EXCEPT ![id] = NULL], UNCHANGED InCallback
    PROVE  Protocol!Next
  <1>1. Protocol!Kick(id)
    BY DEF Protocol!Kick, InCallback
  <1> QED
    BY <1>1 DEF Protocol!Next

(* What the service works with is open, until its end is reported. *)
LEMMA WorkedOnIsOpen ==
    ASSUME SafeInv, NEW s \in Session, ~Ending(s),
           \/ s \in TcpSession /\ InWork(s)
           \/ s \in Peers /\ heap[s] = "live"
    PROVE  m_nSessionID[s] \in SessionID /\ app[m_nSessionID[s]] = s /\ s # NULL
  <1>0. QueueInv /\ LiveInv /\ AppInv
    BY SafeParts
  <1>1. Announced(s)
    BY <1>0, SessionKinds DEF Announced, LiveInv, TcpSession
  <1>2. s \in Holders
    BY <1>1, WorkersHold
  <1> QED
    BY <1>0, <1>1, <1>2, HolderHasID, SessionKinds DEF AppInv

-----------------------------------------------------------------------------
(* The steps of the service. *)

(* A step between two places that are no callbacks, or of others. *)
LEMMA OthersMap ==
    ASSUME KicksPeersOnly,
           \/ ReturnOnUpdate \/ TimesOut \/ GetsNull \/ GetsFailure \/ PostAccept
           \/ \E c \in Accepted, x \in 1..contexts :
                 AcceptWithoutID(c, x) \/ AcceptPortFails(c, x)
           \/ \E p \in Peers : ReceivesNothing(p) \/ ReceivesWithoutID(p)
           \/ \E k \in Connectors : AppConnects(k)
           \/ AppStops \/ Completes \/ Network \/ UNCHANGED vars
    PROVE  UNCHANGED Protocol!vars
  <1>1. CASE Completes \/ Network \/ UNCHANGED vars
             \/ (\E k \in Connectors : AppConnects(k)) \/ AppStops
    <2>1. UNCHANGED <<pc, cur, session_id, app>>
      BY <1>1
         DEF Completes, Network, AcceptCompletes, RecvFromCompletes, RecvCompletes,
             ConnectCompletes, ClientConnect, PeerSends, PeerCloses, PeerResets,
             AppConnects, AppStops, KicksPeersOnly, vars, threadVars
    <2> QED
      BY <2>1, Unseen DEF InCallback
  <1>2. ToLoop \/ ToPostAccept => pc' \notin Callbacks
    BY DEF ToLoop, ToPostAccept, LoopHead, Callbacks
  <1>3. CASE ReturnOnUpdate \/ TimesOut \/ GetsNull \/ GetsFailure \/ PostAccept
    <2>1. UNCHANGED app /\ pc \notin Callbacks /\ pc' \notin Callbacks
      BY <1>2, <1>3
         DEF ReturnOnUpdate, TimesOut, GetsNull, GetsFailure, Gets, PostAccept, LoopHead,
             Callbacks
    <2> QED
      BY <2>1, Unseen DEF InCallback
  <1>4. ASSUME NEW c, NEW x, AcceptWithoutID(c, x) \/ AcceptPortFails(c, x)
        PROVE  UNCHANGED Protocol!vars
    <2>1. UNCHANGED app /\ pc \notin Callbacks /\ pc' \notin Callbacks
      BY <1>2, <1>4 DEF AcceptWithoutID, AcceptPortFails, Accepts, Gets, Callbacks
    <2> QED
      BY <2>1, Unseen DEF InCallback
  <1>5. ASSUME NEW p, ReceivesNothing(p) \/ ReceivesWithoutID(p)
        PROVE  UNCHANGED Protocol!vars
    <2>1. UNCHANGED app /\ pc \notin Callbacks /\ pc' \notin Callbacks
      BY <1>2, <1>5 DEF ReceivesNothing, ReceivesWithoutID, Succeeds, Gets, Callbacks
    <2> QED
      BY <2>1, Unseen DEF InCallback
  <1> QED
    BY <1>1, <1>3, <1>4, <1>5

(* A callback returns to the handler, which returns to the loop. *)
LEMMA ReturnsMap ==
    ASSUME SafeInv,
           \/ AcceptReturns \/ ReadReturns \/ DropReturns \/ FailReturns
           \/ DatagramReturns \/ ConnectReturns
    PROVE  Protocol!Next
  <1>1. ToLoop \/ ToPostAccept => pc' \notin Callbacks
    BY DEF ToLoop, ToPostAccept, LoopHead, Callbacks
  <1>2. UNCHANGED app /\ pc \in Callbacks /\ pc' \notin Callbacks
    BY <1>1 DEF AcceptReturns, Reads, ReadReturns, DropReturns, FailReturns,
                DatagramReturns, ConnectReturns, Callbacks
  <1> QED
    BY <1>2, CallbackIsOne, CallbackReturns, SafeParts DEF InCallback

(* DoRead reports the data that came, or the end. *)
LEMMA ReadsMap ==
    ASSUME SafeInv, Next, NEW s \in TcpSession, NEW n \in 0..MaxRx, DispatchRead(s, n)
    PROVE  Protocol!Next
  <1> DEFINE id == m_nSessionID[s]
  <1>0. KernelInv /\ PortInv /\ s \in Session
    BY SafeParts, Parts, SessionKinds
  <1>1. pc = "wait" /\ InCallback = NULL
    BY DEF DispatchRead, DoRead, Succeeds, Gets, InCallback, Callbacks
  <1>2. InWork(s)
    <2>1. PICK p \in PacketOf(contexts) :
              p.op = "IO_READ" /\ p.on = s /\ \A t : LeavesFor(p, t)
      BY <1>0, TakenFor DEF DispatchRead, DoRead
    <2> QED
      BY <2>1 DEF LeavesFor, Leaves, InWork
  <1>3. id \in SessionID /\ app[id] = s /\ s # NULL
    BY <1>0, <1>1, <1>2, WorkedOnIsOpen DEF Ending
  <1>4. CASE n > 0
    <2>1. UNCHANGED app /\ InCallback' = <<"OnData", id, s>>
      BY <1>4 DEF DispatchRead, DoRead, CallBack, InCallback, Callbacks
    <2> QED
      BY <1>1, <1>3, <2>1, ReportsData
  <1>5. CASE ~(n > 0)
    <2>1. Ending(s)'
      BY <1>5 DEF DispatchRead, DoRead, CallBack, Ending
    <2>2. /\ cur' = s /\ session_id' = id
          /\ pc' = IF s \in Connectors THEN "OnConnectFail" ELSE "OnConnectionDrop"
          /\ app' = [app EXCEPT ![id] = NULL]
      BY <1>0, <2>1, ReportsEnd
    <2>3. InCallback' = <<IF s \in Connectors THEN "OnConnectFail" ELSE "OnConnectionDrop",
                          id, s>>
      BY <2>2 DEF InCallback, Callbacks
    <2> QED
      BY <1>1, <1>3, <2>2, <2>3, Loses
  <1> QED
    BY <1>4, <1>5

(* The connector that has been announced cannot be read from. *)
LEMMA ConnectReadFailsMaps ==
    ASSUME SafeInv, Next, ConnectReadFails
    PROVE  Protocol!Next
  <1>0. KernelInv /\ CurInv /\ AppInv
    BY SafeParts, Parts
  <1>1. PICK k \in Connectors : k = cur
    BY <1>0 DEF ConnectReadFails, CurInv
  <1> DEFINE id == m_nSessionID[k]
  <1>2. k \in Session /\ k \in TcpSession /\ pc = "OnConnected" /\ session_id = id
    BY <1>0, <1>1, SessionKinds DEF ConnectReadFails, AppInv
  <1>3. InCallback = <<"OnConnected", id, k>>
    BY <1>1, <1>2 DEF InCallback, Callbacks
  <1>4. id \in SessionID /\ app[id] = k /\ k # NULL
    BY <1>1, <1>2, WorkedOnIsOpen DEF Ending, InWork
  <1>5. /\ cur' = k /\ session_id' = id /\ pc' = "OnConnectFail"
        /\ app' = [app EXCEPT ![id] = NULL]
    BY <1>1 DEF ConnectReadFails, CallBack
  <1>6. InCallback' = <<"OnConnectFail", id, k>>
    BY <1>5 DEF InCallback, Callbacks
  <1> QED
    BY <1>3, <1>4, <1>5, <1>6, Loses

(* A datagram is reported: of a peer that is known, or was just announced. *)
LEMMA DatagramsMap ==
    ASSUME SafeInv, PeerAdded \/ \E p \in Peers : ReceivesFromKnown(p)
    PROVE  Protocol!Next
  <1>0. KernelInv /\ TableInv /\ LiveInv /\ AppInv
    BY SafeParts
  <1>1. CASE PeerAdded
    <2>1. PICK p \in Peers : p = cur
      BY <1>1 DEF PeerAdded
    <2> DEFINE id == m_nSessionID[p]
    <2>2. p \in Session /\ heap[p] = "live" /\ session_id = id
      BY <1>0, <1>1, <2>1, SessionKinds DEF PeerAdded, AppInv, LiveInv
    <2>3. id \in SessionID /\ app[id] = p /\ p # NULL
      BY <1>1, <2>2, WorkedOnIsOpen DEF Ending, PeerAdded
    <2>4. InCallback = <<"OnAddConnection", id, p>> /\ InCallback' = <<"OnData", id, p>>
          /\ UNCHANGED app
      BY <1>1, <2>1, <2>2 DEF PeerAdded, InCallback, Callbacks
    <2> QED
      BY <2>3, <2>4, ReportsData
  <1>2. ASSUME NEW p \in Peers, ReceivesFromKnown(p) PROVE Protocol!Next
    <2> DEFINE id == m_nSessionID[p]
    <2>1. p \in Session /\ heap[p] = "live" /\ m_mapUDPSessions[p] = id
      BY <1>0, <1>2, SessionKinds DEF ReceivesFromKnown, GetUDPSessionID, TableInv
    <2>2. pc = "wait"
      BY <1>2 DEF ReceivesFromKnown, Succeeds, Gets
    <2>3. id \in SessionID /\ app[id] = p /\ p # NULL
      BY <1>2, <2>1, <2>2, WorkedOnIsOpen DEF Ending
    <2>4. InCallback = NULL /\ InCallback' = <<"OnData", id, p>> /\ UNCHANGED app
      BY <1>2, <2>1, <2>2
         DEF ReceivesFromKnown, GetUDPSessionID, CallBack, InCallback, Callbacks
    <2> QED
      BY <2>3, <2>4, ReportsData
  <1> QED
    BY <1>1, <1>2

-----------------------------------------------------------------------------
(* The refinement. *)

(* Every step of the service is a step of the protocol, or not seen in it. *)
LEMMA NextMaps ==
    ASSUME KicksPeersOnly, SafeInv, [Next]_vars
    PROVE  [Protocol!Next]_(Protocol!vars)
  <1>1. CASE UNCHANGED vars
    BY <1>1, OthersMap
  <1>2. CASE ThreadProc
    <2>0. Next
      BY <1>2 DEF Next
    <2>1. ASSUME NEW s \in Session,
                 \/ s \in Accepted /\ \E x \in 1..contexts : Accept(s, x)
                 \/ s \in Peers /\ ReceivesFromNew(s)
                 \/ s \in Connectors /\ DispatchConnect(s)
          PROVE  Protocol!Next
      BY <2>1, AnnouncesNew, Opens
    <2>2. ASSUME NEW s \in TcpSession, NEW n \in 0..MaxRx, DispatchRead(s, n)
          PROVE  Protocol!Next
      BY <2>0, <2>2, ReadsMap
    <2>3. CASE PeerAdded \/ \E p \in Peers : ReceivesFromKnown(p)
      BY <2>3, DatagramsMap
    <2>4. CASE ConnectReadFails
      BY <2>0, <2>4, ConnectReadFailsMaps
    <2>5. CASE \/ AcceptReturns \/ ReadReturns \/ DropReturns \/ FailReturns
               \/ DatagramReturns \/ ConnectReturns
      BY <2>5, ReturnsMap
    <2>6. CASE \/ ReturnOnUpdate \/ TimesOut \/ GetsNull \/ GetsFailure \/ PostAccept
               \/ \E c \in Accepted, x \in 1..contexts :
                     AcceptWithoutID(c, x) \/ AcceptPortFails(c, x)
               \/ \E p \in Peers : ReceivesNothing(p) \/ ReceivesWithoutID(p)
      BY <2>6, OthersMap
    <2> QED
      BY <1>2, <2>1, <2>2, <2>3, <2>4, <2>5, <2>6, SessionKinds DEF ThreadProc
  <1>3. CASE Completes \/ Network
    BY <1>3, OthersMap
  <1>4. CASE Application
    <2>1. ASSUME NEW id \in SessionID, AppKicks(id) PROVE Protocol!Next
      <3>1. app[id] # NULL /\ app' = [app EXCEPT ![id] = NULL] /\ UNCHANGED threadVars
        BY <2>1, Kicks, SessionKinds
      <3>2. UNCHANGED InCallback
        BY <3>1 DEF threadVars, InCallback
      <3> QED
        BY <3>1, <3>2, KickEnds
    <2> QED
      BY <1>4, <2>1, OthersMap DEF Application
  <1> QED
    BY <1>1, <1>2, <1>3, <1>4 DEF Next

(***************************************************************************)
(* The completion port back end keeps the promises of NetEventCallBack:    *)
(* callbacks come one at a time, no ID is given to two open sessions, data *)
(* is reported of the session that was announced under the ID, the end of  *)
(* a session is reported once, and nothing is reported of a kicked one.    *)
(***************************************************************************)
THEOREM KeepsProtocol == KicksPeersOnly => (Spec => ImplementsProtocol)
  <1> SUFFICES ASSUME KicksPeersOnly PROVE Spec => ImplementsProtocol
    OBVIOUS
  <1>1. Init => SafeInv /\ Protocol!Init
    BY InitSafe DEF Init, Protocol!Init, Callbacks
  <1>2. SafeInv /\ [Next]_vars => SafeInv' /\ [Protocol!Next]_(Protocol!vars)
    BY NextSafe, NextMaps
  <1> QED
    BY <1>1, <1>2, PTL DEF Spec, ImplementsProtocol, Protocol!Spec
=============================================================================
