--------------------------- MODULE NetSafetyProofs ---------------------------
(***************************************************************************)
(* The safety invariants of NetServiceEpoll, for every number of IDs,      *)
(* connections, connectors and peers, and whether epoll_ctl fails or not.  *)
(* They are proved of an application that calls the service from OnUpdate  *)
(* alone, and does not stop it, and of a connect() that does not fail at   *)
(* once (CallsFromOnUpdate): the code breaks them without either.          *)
(***************************************************************************)
EXTENDS NetServiceProofs

(* The application kicks and connects from OnUpdate, on the service's thread, *)
(* and connect() does not fail after EPOLL_CTL_ADD.                           *)
CallsFromOnUpdate ==
    /\ AppCalls \subseteq {"OnUpdate"} \X {"KickSession", "AddTCPConnector"}
    /\ "connect" \notin Faults

(* The IDs that the queue holds, and the sessions that hold one. *)
FreeIDs == {m_queSessionID[i] : i \in DOMAIN m_queSessionID}
Holders == {s \in Session : HoldsID(s)}

(* NewSessionID and FreeSessionID: every ID is queued once or held once. *)
QueueInv ==
    /\ \A i, j \in DOMAIN m_queSessionID :
          m_queSessionID[i] = m_queSessionID[j] => i = j
    /\ \A s \in Holders :
          m_nSessionID[s] \in SessionID /\ m_nSessionID[s] \notin FreeIDs
    /\ \A s, t \in Holders : m_nSessionID[s] = m_nSessionID[t] => s = t
    /\ \A id \in SessionID : id \notin FreeIDs =>
          \E s \in Holders : m_nSessionID[s] = id

(* A slot leads to a live session that holds the slot's ID, and back. *)
SlotInv ==
    /\ \A id \in SessionID : m_Sessions[id] \in Session =>
          /\ m_nSessionID[m_Sessions[id]] = id
          /\ m_Sessions[id] \in Holders
          /\ m_Sessions[id] \in Connectors => tcp[m_Sessions[id]] # "fresh"
    /\ \A s \in NewedSession :
          heap[s] = "live" => m_Sessions[m_nSessionID[s]] = s

(* The life of a session and of its descriptor. *)
HeapInv ==
    /\ \A k \in Connectors : heap[k] = "live"
    /\ \A c \in Accepted : sock[c] = "open" <=> heap[c] = "live"

(* Connections that wait for accept() are in no table. *)
BacklogInv ==
    /\ \A i, j \in DOMAIN backlog : backlog[i] = backlog[j] => i = j
    /\ \A i \in DOMAIN backlog :
          heap[backlog[i]] # "live" /\ tcp[backlog[i]] \notin {"none", "closed"}

(* What epoll watches is open, and announced before it is read. *)
EpollInv ==
    \A s \in TcpSession :
        /\ interest[s] # "none" => heap[s] = "live" /\ sock[s] = "open"
        /\ interest[s] = "in" => m_Sessions[m_nSessionID[s]] = s
        /\ interest[s] = "out" => s \in Connectors
        /\ s \in Connectors /\ interest[s] # "none" =>
              tcp[s] # "fresh" \/ (call.connector = s /\ call.at = "connect")

(* An event of the batch is one that epoll still watches its session for. *)
EventInv ==
    /\ pc \in {"OnUpdate", "epoll_wait", "stopped"} => m_Events = {}
    /\ \A s \in TcpSession :
          /\ <<s, "IO_CONNECT">> \in m_Events => interest[s] = "out"
          /\ <<s, "IO_READ">> \in m_Events => interest[s] = "in"

(* The handler in progress has the only claim to its session. *)
HandlerInv ==
    /\ pc = "PostRead" => interest[cur] = "in" /\ <<cur, "IO_READ">> \notin m_Events
    /\ pc = "OnConnected" =>
          /\ interest[cur] = "out" /\ <<cur, "IO_CONNECT">> \notin m_Events
          /\ m_Sessions[m_nSessionID[cur]] = cur
    /\ pc = "OnConnectionDrop" => heap[cur] = "live" /\ interest[cur] = "none"

(* A call in progress is made from OnUpdate, and nothing came between. *)
CallerInv ==
    /\ call.at = "none" => call = NoCall
    /\ call.at # "none" =>
        /\ pc = "OnUpdate" /\ call.from = "OnUpdate"
        /\ sock[call.connector] = "open" /\ tcp[call.connector] = "fresh"
        /\ call.at = "pop" => NewSessionID = call.id
        /\ call.at # "pop" => m_nSessionID[call.connector] = call.id
        /\ call.at \in {"pop", "ctl"} => interest[call.connector] = "none"

TableInv ==
    /\ QueueInv /\ SlotInv /\ HeapInv /\ UdpMapExact /\ BacklogInv
    /\ EpollInv /\ ApplicationViewExact
ThreadInv == EventInv /\ HandlerInv /\ CallerInv
SafeInv == TableInv /\ ThreadInv /\ NoFault

-----------------------------------------------------------------------------
(* The queue of IDs. *)

(* QueueInv is what SessionProofs says of a queue and its holders, before a *)
(* step and after it.                                                       *)
LEMMA QueueOfExpanded ==
    ASSUME NEW q \in Seq(SessionID), NEW n, NEW H
    PROVE  QueueOf(q, n, H, SessionID) <=>
              /\ \A i, j \in DOMAIN q : q[i] = q[j] => i = j
              /\ \A s \in H : n[s] \in SessionID /\ n[s] \notin {q[i] : i \in DOMAIN q}
              /\ \A s, t \in H : n[s] = n[t] => s = t
              /\ \A id \in SessionID : id \notin {q[i] : i \in DOMAIN q} =>
                    \E s \in H : n[s] = id
  <1>1. \A id : id \in {q[i] : i \in DOMAIN q} <=> Has(q, {id})
    BY DEF Has
  <1>2. \A i \in DOMAIN q : q[i] \in SessionID
    OBVIOUS
  <1>3. (\A i, j \in DOMAIN q : q[i] = q[j] => i = j)
        <=> \A id \in SessionID : AtMostOne(q, {id})
    BY <1>2 DEF AtMostOne
  <1> QED
    BY <1>1, <1>3 DEF QueueOf

LEMMA QueueInvIsQueueOf ==
    /\ m_queSessionID \in Seq(SessionID) =>
          (QueueInv <=> QueueOf(m_queSessionID, m_nSessionID, Holders, SessionID))
    /\ m_queSessionID' \in Seq(SessionID) =>
          (QueueInv' <=> QueueOf(m_queSessionID', m_nSessionID', Holders', SessionID))
  BY QueueOfExpanded DEF QueueInv, FreeIDs

(* NewSessionID takes its answer off the queue, and nothing else. *)
LEMMA PopTakes ==
    ASSUME SessionTypeOK, QueueInv, NewSessionID # 0, m_queSessionID' = PopSessionID
    PROVE  /\ NewSessionID \in FreeIDs
           /\ \A id : id \in FreeIDs' <=> id \in FreeIDs /\ id # NewSessionID
  <1> DEFINE q == m_queSessionID
  <1>1. /\ q \in Seq(SessionID) /\ q # <<>> /\ Head(q) = NewSessionID /\ q' = Tail(q)
        /\ q' \in Seq(SessionID) /\ NewSessionID \in SessionID
    BY QueueType DEF SessionTypeOK, NewSessionID, PopSessionID
  <1>2. QueueOf(q, m_nSessionID, Holders, SessionID)
    BY <1>1, QueueInvIsQueueOf
  <1>3. Has(q, {NewSessionID}) /\ ~Has(q', {NewSessionID})
    BY <1>1, <1>2, TailHas DEF QueueOf
  <1>4. NewSessionID \in FreeIDs /\ NewSessionID \notin FreeIDs'
    BY <1>1, <1>3 DEF FreeIDs, Has
  <1>5. ASSUME NEW id, id # NewSessionID PROVE id \in FreeIDs' <=> id \in FreeIDs
    <2>1. Has(q, {id}) <=> Has(q', {id})
      BY <1>1, <1>5, TailHas
    <2> QED
      BY <1>1, <2>1 DEF FreeIDs, Has
  <1> QED
    BY <1>4, <1>5

(* A session that held no ID takes the one at the front of the queue. *)
LEMMA TakesID ==
    ASSUME SessionTypeOK, QueueInv, NewSessionID # 0, m_queSessionID' = PopSessionID,
           NEW s \in Session, s \notin Holders,
           m_nSessionID' = [m_nSessionID EXCEPT ![s] = NewSessionID],
           Holders' = Holders \cup {s}
    PROVE  QueueInv'
  <1> DEFINE q == m_queSessionID
  <1>1. /\ q \in Seq(SessionID) /\ q # <<>> /\ Head(q) = NewSessionID /\ q' = Tail(q)
        /\ q' \in Seq(SessionID) /\ m_nSessionID \in [Session -> 0..MAX_SOCK_EVENT]
    BY QueueType DEF SessionTypeOK, NewSessionID, PopSessionID
  <1>2. Holders \in SUBSET Session
    BY DEF Holders
  <1>3. QueueOf(q, m_nSessionID, Holders, SessionID)
    BY <1>1, QueueInvIsQueueOf
  <1>4. SessionID \subseteq 0..MAX_SOCK_EVENT
    BY SessionKinds
  <1>5. QueueOf(Tail(q), [m_nSessionID EXCEPT ![s] = Head(q)], Holders \cup {s}, SessionID)
    BY <1>1, <1>2, <1>3, <1>4, QueueTakes
  <1>6. QueueOf(q', m_nSessionID', Holders', SessionID)
    BY <1>1, <1>5
  <1> QED
    BY <1>1, <1>6, QueueInvIsQueueOf

(* A session gives the ID that it held back to the queue. *)
LEMMA GivesID ==
    ASSUME SessionTypeOK, QueueInv, NEW s \in Session, s \in Holders,
           m_queSessionID' = FreeSessionID(m_queSessionID, m_nSessionID[s]),
           UNCHANGED m_nSessionID,
           Holders' = Holders \ {s}
    PROVE  QueueInv'
  <1>1. QueueOf(m_queSessionID, m_nSessionID, Holders, SessionID)
    BY QueueInvIsQueueOf DEF SessionTypeOK
  <1>2. QueueOf(m_queSessionID', m_nSessionID', Holders', SessionID)
    BY <1>1, QueueGives DEF FreeSessionID
  <1>3. m_queSessionID' \in Seq(SessionID)
    BY <1>2 DEF QueueOf
  <1> QED
    BY <1>2, <1>3, QueueInvIsQueueOf

-----------------------------------------------------------------------------
(* What a step leaves alone. *)

(* Whether an ID is held depends on its session's life and on the call, and *)
(* of a connection only on whether connect() was called.                    *)
SameFresh == \A k \in Connectors : tcp'[k] = "fresh" <=> tcp[k] = "fresh"

(* With SameFresh the sessions that hold an ID stay the same. *)
LEMMA HoldersKept ==
    ASSUME UNCHANGED <<heap, call>>, SameFresh
    PROVE  Holders' = Holders
  BY DEF Holders, HoldsID, SameFresh

(* The same as SameFresh, of the connections that wait for accept(). *)
SameWaiting ==
    \A c \in Accepted : tcp'[c] \in {"none", "closed"} => tcp[c] \in {"none", "closed"}

(* A step that touches neither the tables nor epoll keeps TableInv. *)
LEMMA TableKept ==
    ASSUME KernelTypeOK, SameFresh, SameWaiting, TableInv,
           UNCHANGED <<m_queSessionID, m_Sessions, m_mapUDPSessions, m_nSessionID,
                       heap, sock, backlog, interest, call, app>>
    PROVE  TableInv'
  <1> USE DEF TableInv
  <1>1. QueueInv'
    BY HoldersKept DEF QueueInv, FreeIDs
  <1>2. SlotInv'
    BY HoldersKept, SessionKinds DEF SlotInv, SameFresh
  <1>3. HeapInv' /\ UdpMapExact'
    BY DEF HeapInv, UdpMapExact
  <1>4. BacklogInv'
    BY DEF BacklogInv, SameWaiting, KernelTypeOK
  <1>5. EpollInv'
    BY DEF EpollInv, SameFresh
  <1>6. ApplicationViewExact'
    BY DEF ApplicationViewExact, OpenSession
  <1> QED
    BY <1>1, <1>2, <1>3, <1>4, <1>5, <1>6

(* A step of the network or of the kernel keeps ThreadInv. *)
LEMMA ThreadKept ==
    ASSUME SameFresh, ThreadInv, TypeInv,
           UNCHANGED <<m_queSessionID, m_Sessions, m_nSessionID, heap, sock, interest,
                       call, pc, cur, m_Events>>
    PROVE  ThreadInv'
  <1> USE DEF ThreadInv
  <1>1. EventInv' /\ HandlerInv'
    BY DEF EventInv, HandlerInv
  <1>2. CallerInv'
    BY DEF CallerInv, SameFresh, NewSessionID, TypeInv, CallInv
  <1> QED
    BY <1>1, <1>2

(* Outside of OnUpdate no call is in progress, and OnUpdate does not return *)
(* during one.                                                              *)
LEMMA NoCallInProgress ==
    ASSUME ThreadInv, pc # "OnUpdate" \/ call.from # "OnUpdate"
    PROVE  call = NoCall
  BY DEF ThreadInv, CallerInv

(* A step outside of OnUpdate, or out of it, need not look at the call. *)
LEMMA CallerKept ==
    ASSUME call = NoCall, UNCHANGED call
    PROVE  CallerInv'
  BY DEF CallerInv, NoCall

-----------------------------------------------------------------------------
(* The kernel's steps. *)
LEMMA NetworkSafe ==
    ASSUME TypeInv, SafeInv, Network
    PROVE  SafeInv'
  <1> USE SessionKinds DEF SafeInv
  <1>1. ASSUME NEW c \in Accepted, ClientConnect(c) PROVE SafeInv'
    <2>1. SameFresh
      BY <1>1, SessionAssumption DEF ClientConnect, SameFresh, TypeInv, TypeOK, KernelTypeOK
    <2>2. ThreadInv' /\ NoFault'
      BY <1>1, <2>1, ThreadKept DEF ClientConnect, sessionVars, threadVars, NoFault
    <2>3. QueueInv' /\ SlotInv'
      BY <1>1, <2>1, HoldersKept
         DEF ClientConnect, sessionVars, TableInv, QueueInv, FreeIDs, SlotInv, SameFresh
    <2>4. HeapInv' /\ UdpMapExact' /\ ApplicationViewExact'
      BY <1>1 DEF ClientConnect, sessionVars, TableInv, HeapInv, UdpMapExact,
                  ApplicationViewExact, OpenSession
    <2>5. EpollInv'
      BY <1>1, <2>1 DEF ClientConnect, sessionVars, TableInv, EpollInv, SameFresh
    <2>6. BacklogInv'
      <3>1. /\ backlog \in Seq(Accepted) /\ Len(backlog) \in Nat
            /\ DOMAIN backlog' = 1..(Len(backlog) + 1)
            /\ backlog'[Len(backlog) + 1] = c
            /\ \A i \in 1..Len(backlog) : backlog'[i] = backlog[i]
        BY <1>1 DEF ClientConnect, TypeInv, TypeOK, KernelTypeOK
      <3>2. \A i \in 1..Len(backlog) : backlog[i] # c /\ backlog[i] \in Accepted
        BY <1>1, <3>1 DEF ClientConnect, TableInv, BacklogInv
      <3>3. tcp'[c] = "est" /\ \A d \in Accepted : d # c => tcp'[d] = tcp[d]
        BY <1>1 DEF ClientConnect, TypeInv, TypeOK, KernelTypeOK
      <3>4. heap[c] # "live" /\ heap' = heap
        BY <1>1 DEF ClientConnect, sessionVars
      <3>5. \A i \in DOMAIN backlog' :
                heap'[backlog'[i]] # "live" /\ tcp'[backlog'[i]] \notin {"none", "closed"}
        <4> SUFFICES ASSUME NEW i \in DOMAIN backlog'
                     PROVE  heap'[backlog'[i]] # "live"
                            /\ tcp'[backlog'[i]] \notin {"none", "closed"}
          OBVIOUS
        <4>1. CASE i = Len(backlog) + 1
          BY <3>1, <3>3, <3>4, <4>1
        <4>2. CASE i \in 1..Len(backlog)
          BY <3>1, <3>2, <3>3, <3>4, <4>2 DEF TableInv, BacklogInv
        <4> QED
          BY <3>1, <4>1, <4>2
      <3>6. \A i, j \in DOMAIN backlog' : backlog'[i] = backlog'[j] => i = j
        BY <3>1, <3>2 DEF TableInv, BacklogInv
      <3> QED
        BY <3>5, <3>6 DEF BacklogInv
    <2> QED
      BY <2>2, <2>3, <2>4, <2>5, <2>6 DEF TableInv
  <1>2. ASSUME NEW k \in Connectors, ServerAnswers(k) PROVE SafeInv'
    <2>1. SameFresh /\ SameWaiting
      BY <1>2 DEF ServerAnswers, SameFresh, SameWaiting, TypeInv, TypeOK, KernelTypeOK
    <2> QED
      BY <1>2, <2>1, TableKept, ThreadKept
         DEF ServerAnswers, sessionVars, threadVars, NoFault, TypeInv, TypeOK
  <1>3. ASSUME NEW s \in TcpSession, PeerSends(s) \/ PeerCloses(s) \/ PeerResets(s)
        PROVE  SafeInv'
    <2>1. SameFresh /\ SameWaiting
      BY <1>3 DEF PeerSends, PeerCloses, PeerResets, SameFresh, SameWaiting,
                  TypeInv, TypeOK, KernelTypeOK
    <2> QED
      BY <1>3, <2>1, TableKept, ThreadKept
         DEF PeerSends, PeerCloses, PeerResets, sessionVars, threadVars, NoFault,
             TypeInv, TypeOK
  <1>4. ASSUME NEW p \in Peers, NEW len \in {0, 1}, DatagramArrives(p, len) PROVE SafeInv'
    <2>1. SameFresh /\ SameWaiting
      BY <1>4 DEF DatagramArrives, SameFresh, SameWaiting
    <2> QED
      BY <1>4, <2>1, TableKept, ThreadKept
         DEF DatagramArrives, sessionVars, threadVars, NoFault, TypeInv, TypeOK
  <1> QED
    BY <1>1, <1>2, <1>3, <1>4 DEF Network

-----------------------------------------------------------------------------
(* The steps that move the thread on, and leave the table and epoll alone. *)
LEMMA ControlSafe ==
    ASSUME TypeInv, SafeInv,
           \/ ReturnOnUpdate \/ EpollWait \/ EndOfBatch
           \/ \E e \in Event : DispatchListener(e)
           \/ \E s \in TcpSession : DispatchRead(s)
           \/ ReturnOnConnectFail \/ NothingToAccept \/ ReturnOnAddConnection
           \/ ReadSome \/ ReadEnds \/ ReturnOnData \/ NothingReceived
           \/ \E p \in Peers : RecvFromKnown(p) \/ RecvFromWithoutID(p)
    PROVE  SafeInv'
  <1> USE SessionKinds DEF SafeInv
  <1>1. SameFresh /\ SameWaiting /\ TableInv'
    <2>1. UNCHANGED <<m_queSessionID, m_Sessions, m_mapUDPSessions, m_nSessionID,
                      heap, sock, tcp, backlog, interest, call, app>>
      BY DEF ReturnOnUpdate, EpollWait, EndOfBatch, DispatchListener, DispatchRead,
             ReturnOnConnectFail, NothingToAccept, ReturnOnAddConnection, ReadSome,
             ReadEnds, ReturnOnData, NothingReceived, RecvFromKnown, RecvFromWithoutID,
             Received, sessionVars, kernelVars
    <2>2. SameFresh /\ SameWaiting
      BY <2>1 DEF SameFresh, SameWaiting
    <2> QED
      BY <2>1, <2>2, TableKept DEF TypeInv, TypeOK
  <1>2. call = NoCall /\ UNCHANGED call
    BY NoCallInProgress
       DEF ReturnOnUpdate, EpollWait, EndOfBatch, DispatchListener, DispatchRead,
           ReturnOnConnectFail, NothingToAccept, ReturnOnAddConnection, ReadSome,
           ReadEnds, ReturnOnData, NothingReceived, RecvFromKnown, RecvFromWithoutID,
           Received, Returns
  <1>3. CallerInv'
    BY <1>2, CallerKept
  <1>4. NoFault'
    <2>1. ASSUME NEW s \in TcpSession, DispatchRead(s) PROVE NoFault'
      <3>1. Valid(s)
        BY <2>1 DEF DispatchRead, ThreadInv, EventInv, TableInv, EpollInv, Valid
      <3> QED
        BY <2>1, <3>1 DEF DispatchRead, Deref, NoFault
    <2>2. ASSUME ReadSome \/ ReadEnds PROVE NoFault'
      <3>1. Valid(cur)
        BY <2>2 DEF ReadSome, ReadEnds, ThreadInv, HandlerInv, TableInv, EpollInv, Valid,
                    TypeInv, CurInv
      <3> QED
        BY <2>2, <3>1 DEF ReadSome, ReadEnds, Deref, NoFault
    <2> QED
      BY <2>1, <2>2
         DEF ReturnOnUpdate, EpollWait, EndOfBatch, DispatchListener, ReturnOnConnectFail,
             NothingToAccept, ReturnOnAddConnection, ReturnOnData, NothingReceived,
             RecvFromKnown, RecvFromWithoutID, sessionVars, NoFault
  <1>5. EventInv'
    <2>1. ASSUME EpollWait PROVE EventInv'
      <3>1. \A s \in TcpSession :
                /\ <<s, "IO_CONNECT">> \in Reported => interest[s] = "out"
                /\ <<s, "IO_READ">> \in Reported => interest[s] = "in"
        BY DEF Reported, Polls, OperType, TypeInv, TypeOK, KernelTypeOK
      <3> QED
        BY <2>1, <3>1 DEF EpollWait, EventInv, LoopHead
    <2>2. ASSUME ReturnOnUpdate \/ EndOfBatch PROVE EventInv'
      BY <2>2 DEF ReturnOnUpdate, EndOfBatch, Returns, EventInv, ThreadInv, LoopHead,
                  kernelVars
    <2>3. ASSUME \/ \E e \in Event : DispatchListener(e)
                 \/ \E s \in TcpSession : DispatchRead(s)
          PROVE  EventInv'
      BY <2>3 DEF DispatchListener, DispatchRead, EventInv, ThreadInv, kernelVars
    <2>4. ASSUME \/ ReturnOnConnectFail \/ NothingToAccept \/ ReturnOnAddConnection
                 \/ ReadSome \/ ReadEnds \/ ReturnOnData \/ NothingReceived
                 \/ \E p \in Peers : RecvFromKnown(p) \/ RecvFromWithoutID(p)
          PROVE  EventInv'
      BY <2>4 DEF ReturnOnConnectFail, NothingToAccept, ReturnOnAddConnection, ReadSome,
                  ReadEnds, ReturnOnData, NothingReceived, RecvFromKnown,
                  RecvFromWithoutID, Received, ToDispatch, CallBack, EventInv, ThreadInv,
                  kernelVars
    <2> QED
      BY <2>1, <2>2, <2>3, <2>4
  <1>6. HandlerInv'
    <2>1. ASSUME NEW s \in TcpSession, DispatchRead(s) PROVE HandlerInv'
      BY <2>1 DEF DispatchRead, HandlerInv, EventInv, ThreadInv, kernelVars
    <2>2. ASSUME ReadSome PROVE HandlerInv'
      BY <2>2 DEF ReadSome, HandlerInv, ThreadInv
    <2> QED
      BY <2>1, <2>2
         DEF ReturnOnUpdate, EpollWait, EndOfBatch, DispatchListener, ReturnOnConnectFail,
             NothingToAccept, ReturnOnAddConnection, ReadEnds, ReturnOnData,
             NothingReceived, RecvFromKnown, RecvFromWithoutID, ToDispatch, CallBack,
             HandlerInv, LoopHead
  <1> QED
    BY <1>1, <1>3, <1>4, <1>5, <1>6 DEF ThreadInv

-----------------------------------------------------------------------------
(* What several handlers do to the table. *)

(* No handler but the application's is in progress outside of a call, so a *)
(* connector whose session epoll watches has called connect().             *)
LEMMA WatchedHolds ==
    ASSUME TypeInv, TableInv, call = NoCall, NEW s \in TcpSession, interest[s] # "none"
    PROVE  s \in Holders
  <1>1. heap[s] = "live" /\ (s \in Connectors => tcp[s] # "fresh")
    BY SessionKinds DEF TableInv, EpollInv, NoCall
  <1> QED
    BY <1>1, SessionKinds DEF Holders, HoldsID, TcpSession, NewedSession

(* A session that the service allocates goes into the slot of the ID that  *)
(* it takes off the queue: PostAccept and PostReadFrom.                    *)
LEMMA NewSessionSafe ==
    ASSUME TypeInv, TableInv, NEW s \in NewedSession, heap[s] # "live",
           NewSessionID # 0, m_queSessionID' = PopSessionID,
           m_nSessionID' = [m_nSessionID EXCEPT ![s] = NewSessionID],
           heap' = [heap EXCEPT ![s] = "live"],
           m_Sessions' = [m_Sessions EXCEPT ![NewSessionID] = s],
           app' = [app EXCEPT ![NewSessionID] = s],
           UNCHANGED <<tcp, call>>,
           \A t \in TcpSession : t # s => interest'[t] = interest[t],
           s \in TcpSession => interest'[s] = "in"
    PROVE  /\ NewSessionID \in SessionID
           /\ QueueInv' /\ SlotInv' /\ ApplicationViewExact'
           /\ \A t \in TcpSession : t # s /\ interest[t] = "in"
                => interest'[t] = "in" /\ m_Sessions'[m_nSessionID'[t]] = t
  <1> DEFINE id == NewSessionID
  <1> USE SessionKinds DEF TableInv, TypeInv, TypeOK
  <1>1. id \in SessionID /\ id \in FreeIDs
    BY QueueType, PopTakes
  <1>2. s \notin Holders /\ Holders' = Holders \cup {s}
    BY DEF Holders, HoldsID, SessionTypeOK
  <1>3. QueueInv'
    BY <1>2, TakesID
  <1>4. /\ m_nSessionID'[s] = id /\ heap'[s] = "live"
        /\ \A t \in Session : t # s =>
              m_nSessionID'[t] = m_nSessionID[t] /\ heap'[t] = heap[t]
        /\ m_Sessions'[id] = s /\ app'[id] = s
        /\ \A i \in SessionID : i # id =>
              m_Sessions'[i] = m_Sessions[i] /\ app'[i] = app[i]
    BY <1>1 DEF SessionTypeOK, ThreadTypeOK
  <1>5. \A t \in Holders : t # s /\ m_nSessionID[t] # id
    BY <1>1, <1>2 DEF QueueInv
  <1>6. \A i \in SessionID : m_Sessions[i] \in Session => m_Sessions[i] # s /\ i # id
    BY <1>5 DEF SlotInv
  <1>7. SlotInv'
    <2>1. ASSUME NEW i \in SessionID, m_Sessions'[i] \in Session
          PROVE  /\ m_nSessionID'[m_Sessions'[i]] = i
                 /\ m_Sessions'[i] \in Holders'
                 /\ m_Sessions'[i] \in Connectors => tcp'[m_Sessions'[i]] # "fresh"
      <3>1. CASE i = id
        BY <1>2, <1>4, <3>1
      <3>2. CASE i # id
        BY <1>2, <1>4, <1>6, <2>1, <3>2 DEF SlotInv
      <3> QED
        BY <3>1, <3>2
    <2>2. ASSUME NEW t \in NewedSession, heap'[t] = "live"
          PROVE  m_Sessions'[m_nSessionID'[t]] = t
      <3>1. CASE t = s
        BY <1>4, <3>1
      <3>2. CASE t # s
        <4>1. heap[t] = "live" /\ t \in Holders
          BY <1>4, <2>2, <3>2 DEF Holders, HoldsID
        <4>2. m_nSessionID[t] \in SessionID /\ m_nSessionID[t] # id
          BY <4>1, <1>5 DEF QueueInv
        <4> QED
          BY <1>4, <3>2, <4>1, <4>2 DEF SlotInv
      <3> QED
        BY <3>1, <3>2
    <2> QED
      BY <2>1, <2>2 DEF SlotInv
  <1>8. ApplicationViewExact'
    <2> SUFFICES ASSUME NEW i \in SessionID
                 PROVE  /\ app'[i] = OpenSession(i)'
                        /\ app'[i] # NULL => m_nSessionID'[app'[i]] = i
                                             /\ heap'[app'[i]] = "live"
      BY DEF ApplicationViewExact
    <2>1. CASE i = id
      BY <1>4, <2>1 DEF OpenSession, NewedSession
    <2>2. CASE i # id
      <3>1. app'[i] = app[i] /\ app[i] = OpenSession(i)
        BY <1>4, <2>2 DEF ApplicationViewExact
      <3>2. OpenSession(i)' = OpenSession(i)
        BY <1>4, <1>6, <2>2 DEF OpenSession
      <3>3. app[i] # NULL => app[i] \in Session /\ app[i] = m_Sessions[i]
        BY <3>1 DEF OpenSession
      <3> QED
        BY <1>4, <1>6, <3>1, <3>2, <3>3 DEF ApplicationViewExact
    <2> QED
      BY <2>1, <2>2
  <1>9. ASSUME NEW t \in TcpSession, t # s, interest[t] = "in"
        PROVE  interest'[t] = "in" /\ m_Sessions'[m_nSessionID'[t]] = t
    <2>1. m_Sessions[m_nSessionID[t]] = t /\ m_nSessionID[t] \in SessionID
      BY <1>9 DEF EpollInv, IdInv
    <2>2. m_nSessionID[t] # id
      BY <1>6, <2>1
    <2> QED
      BY <1>4, <1>9, <2>1, <2>2
  <1> QED
    BY <1>1, <1>3, <1>7, <1>8, <1>9

(* The session of an ID is taken out of its slot and closed, and its ID    *)
(* given back unless it is a connector's: KickSession and DelSession.      *)
LEMMA EraseSafe ==
    ASSUME TypeInv, TableInv, call = NoCall, UNCHANGED <<call, m_nSessionID, backlog>>,
           NEW id \in SessionID, NEW s \in Session, m_Sessions[id] = s,
           Erase(id), sock' = Closed({s} \cap TcpSession), Discard({s}),
           app' = [app EXCEPT ![id] = NULL]
    PROVE  TableInv' /\ \A t \in TcpSession : interest'[t] # "none" => t # s
  <1> USE SessionKinds DEF TableInv, TypeInv, TypeOK
  <1>1. /\ m_nSessionID[s] = id /\ s \in Holders
        /\ s \in Connectors => tcp[s] # "fresh"
    BY DEF SlotInv
  <1>2. /\ m_Sessions'[id] = NULL /\ app'[id] = NULL
        /\ \A i \in SessionID : i # id =>
              m_Sessions'[i] = m_Sessions[i] /\ app'[i] = app[i]
        /\ \A t \in Session : t # s => heap'[t] = heap[t]
        /\ s \in NewedSession => heap'[s] = "freed"
        /\ s \notin NewedSession => heap'[s] = heap[s]
    BY DEF Erase, SessionTypeOK, ThreadTypeOK
  <1>3. \A t \in TcpSession :
            IF t = s THEN tcp'[t] = "closed" /\ interest'[t] = "none" /\ sock'[t] = "closed"
            ELSE tcp'[t] = tcp[t] /\ interest'[t] = interest[t] /\ sock'[t] = sock[t]
    BY DEF Discard, Closed
  <1>4. s \in NewedSession => Holders' = Holders \ {s}
    BY <1>2, <1>3 DEF Holders, HoldsID
  <1>5. s \notin NewedSession => Holders' = Holders
    <2> SUFFICES ASSUME s \in Connectors PROVE Holders' = Holders
      BY DEF Session, NewedSession
    <2> QED
      BY <1>1, <1>2, <1>3 DEF Holders, HoldsID
  <1>6. QueueInv'
    <2>1. CASE s \in NewedSession
      BY <1>1, <1>4, <2>1, GivesID DEF Erase
    <2>2. CASE s \notin NewedSession
      BY <1>5, <2>2 DEF Erase, QueueInv, FreeIDs
    <2> QED
      BY <2>1, <2>2
  <1>7. \A i \in SessionID : i # id => m_Sessions[i] # s
    BY <1>1 DEF SlotInv
  <1>8. SlotInv'
    <2>1. ASSUME NEW i \in SessionID, m_Sessions'[i] \in Session
          PROVE  /\ m_nSessionID'[m_Sessions'[i]] = i
                 /\ m_Sessions'[i] \in Holders'
                 /\ m_Sessions'[i] \in Connectors => tcp'[m_Sessions'[i]] # "fresh"
      <3>1. i # id /\ m_Sessions'[i] = m_Sessions[i] /\ m_Sessions[i] # s
        BY <1>2, <1>7, <2>1
      <3>2. /\ m_nSessionID[m_Sessions[i]] = i /\ m_Sessions[i] \in Holders
            /\ m_Sessions[i] \in Connectors => tcp[m_Sessions[i]] # "fresh"
        BY <2>1, <3>1 DEF SlotInv
      <3> QED
        BY <1>3, <1>4, <1>5, <3>1, <3>2
    <2>2. ASSUME NEW t \in NewedSession, heap'[t] = "live"
          PROVE  m_Sessions'[m_nSessionID'[t]] = t
      <3>1. t # s /\ heap[t] = "live"
        BY <1>2, <2>2
      <3>2. t \in Holders
        BY <3>1 DEF Holders, HoldsID
      <3>3. m_nSessionID[t] \in SessionID /\ m_nSessionID[t] # id
        BY <1>1, <3>1, <3>2 DEF QueueInv
      <3> QED
        BY <1>2, <3>1, <3>3 DEF SlotInv
    <2> QED
      BY <2>1, <2>2 DEF SlotInv
  <1>9. HeapInv'
    <2>1. \A k \in Connectors : heap'[k] = heap[k]
      BY <1>2
    <2>2. \A c \in Accepted : sock'[c] = "open" <=> heap'[c] = "live"
      <3> SUFFICES ASSUME NEW c \in Accepted
                   PROVE  sock'[c] = "open" <=> heap'[c] = "live"
        OBVIOUS
      <3>1. CASE c = s
        BY <1>2, <1>3, <3>1
      <3>2. CASE c # s
        <4>1. heap'[c] = heap[c] /\ sock'[c] = sock[c]
          BY <1>2, <1>3, <3>2
        <4> QED
          BY <4>1 DEF HeapInv
      <3> QED
        BY <3>1, <3>2
    <2> QED
      BY <2>1, <2>2 DEF HeapInv
  <1>10. UdpMapExact'
    <2>1. \A p \in Peers : m_mapUDPSessions'[p] = IF p = s THEN 0 ELSE m_mapUDPSessions[p]
      BY DEF Erase
    <2> QED
      BY <1>2, <2>1 DEF UdpMapExact
  <1>11. BacklogInv'
    <2>1. \A i \in DOMAIN backlog : backlog[i] \in Accepted
      BY DEF KernelTypeOK
    <2>2. \A i \in DOMAIN backlog : backlog[i] # s
      BY <1>1, <2>1 DEF BacklogInv, Holders, HoldsID
    <2> QED
      BY <1>2, <1>3, <2>1, <2>2 DEF BacklogInv
  <1>12. EpollInv'
    <2> SUFFICES ASSUME NEW t \in TcpSession, interest'[t] # "none"
                 PROVE  /\ heap'[t] = "live" /\ sock'[t] = "open"
                        /\ interest'[t] = "in" => m_Sessions'[m_nSessionID'[t]] = t
                        /\ interest'[t] = "out" => t \in Connectors
                        /\ t \in Connectors => tcp'[t] # "fresh"
      BY DEF EpollInv
    <2>1. t # s /\ interest[t] = interest'[t] /\ tcp'[t] = tcp[t]
          /\ sock'[t] = sock[t] /\ heap'[t] = heap[t]
      BY <1>2, <1>3
    <2>2. t \in Connectors => tcp[t] # "fresh"
      BY <2>1 DEF EpollInv, NoCall
    <2>3. ASSUME interest[t] = "in" PROVE m_Sessions'[m_nSessionID'[t]] = t
      <3>1. m_Sessions[m_nSessionID[t]] = t /\ m_nSessionID[t] \in SessionID
        BY <2>3 DEF EpollInv, IdInv
      <3> QED
        BY <1>2, <2>1, <3>1
    <2> QED
      BY <2>1, <2>2, <2>3 DEF EpollInv
  <1>13. ApplicationViewExact'
    <2> SUFFICES ASSUME NEW i \in SessionID
                 PROVE  /\ app'[i] = OpenSession(i)'
                        /\ app'[i] # NULL => m_nSessionID'[app'[i]] = i
                                             /\ heap'[app'[i]] = "live"
      BY DEF ApplicationViewExact
    <2>1. CASE i = id
      BY <1>2, <2>1 DEF OpenSession
    <2>2. CASE i # id
      <3>1. app'[i] = app[i] /\ app[i] = OpenSession(i)
        BY <1>2, <2>2 DEF ApplicationViewExact
      <3>2. m_Sessions'[i] = m_Sessions[i] /\ m_Sessions[i] # s
        BY <1>2, <1>7, <2>2
      <3>3. OpenSession(i)' = OpenSession(i)
        BY <1>3, <3>2 DEF OpenSession
      <3>4. app[i] # NULL => app[i] \in Session /\ app[i] = m_Sessions[i]
        BY <3>1 DEF OpenSession
      <3> QED
        BY <1>2, <3>1, <3>2, <3>3, <3>4 DEF ApplicationViewExact
    <2> QED
      BY <2>1, <2>2
  <1> QED
    BY <1>3, <1>6, <1>8, <1>9, <1>10, <1>11, <1>12, <1>13

(* An end that the service reports is a session's that is in the table: it *)
(* is taken out of epoll, and stays in its slot until the callback returns.*)
LEMMA ReportSafe ==
    ASSUME TypeInv, TableInv, call = NoCall,
           UNCHANGED <<m_queSessionID, m_Sessions, m_mapUDPSessions, m_nSessionID,
                       heap, backlog, call>>,
           NEW s \in TcpSession, interest[s] # "none", m_Sessions[m_nSessionID[s]] = s,
           interest'[s] = "none",
           \A t \in TcpSession : t # s =>
               interest'[t] = interest[t] /\ tcp'[t] = tcp[t] /\ sock'[t] = sock[t],
           s \in Connectors => tcp'[s] # "fresh",
           s \in Accepted => tcp'[s] = tcp[s] /\ sock'[s] = sock[s],
           app' = [app EXCEPT ![m_nSessionID[s]] = NULL]
    PROVE  TableInv'
  <1> DEFINE id == m_nSessionID[s]
  <1> USE SessionKinds DEF TableInv, TypeInv, TypeOK
  <1>1. s \in Holders /\ id \in SessionID
    BY WatchedHolds DEF QueueInv
  <1>2. s \in Connectors => tcp[s] # "fresh"
    BY DEF EpollInv, NoCall
  <1>3. Holders' = Holders
    BY <1>2 DEF Holders, HoldsID
  <1>4. QueueInv'
    BY <1>3 DEF QueueInv, FreeIDs
  <1>5. SlotInv'
    <2>1. \A k \in Connectors : tcp[k] # "fresh" => tcp'[k] # "fresh"
      OBVIOUS
    <2> QED
      BY <1>3, <2>1 DEF SlotInv
  <1>6. HeapInv' /\ UdpMapExact'
    <2>1. \A c \in Accepted : sock'[c] = sock[c]
      OBVIOUS
    <2> QED
      BY <2>1 DEF HeapInv, UdpMapExact
  <1>7. BacklogInv'
    <2>1. \A i \in DOMAIN backlog : backlog[i] \in Accepted
      BY DEF KernelTypeOK
    <2>2. \A c \in Accepted : tcp'[c] = tcp[c]
      OBVIOUS
    <2> QED
      BY <2>1, <2>2 DEF BacklogInv
  <1>8. EpollInv'
    <2> SUFFICES ASSUME NEW t \in TcpSession, interest'[t] # "none"
                 PROVE  /\ heap[t] = "live" /\ sock'[t] = "open"
                        /\ interest'[t] = "in" => m_Sessions[m_nSessionID[t]] = t
                        /\ interest'[t] = "out" => t \in Connectors
                        /\ t \in Connectors => tcp'[t] # "fresh"
      BY DEF EpollInv
    <2> QED
      BY DEF EpollInv, NoCall
  <1>9. ApplicationViewExact'
    <2> SUFFICES ASSUME NEW i \in SessionID
                 PROVE  /\ app'[i] = OpenSession(i)'
                        /\ app'[i] # NULL => m_nSessionID[app'[i]] = i
                                             /\ heap[app'[i]] = "live"
      BY DEF ApplicationViewExact
    <2>1. CASE i = id
      <3>1. app'[i] = NULL
        BY <1>1, <2>1 DEF ThreadTypeOK
      <3> QED
        BY <2>1, <3>1 DEF OpenSession
    <2>2. CASE i # id
      <3>1. app'[i] = app[i] /\ m_Sessions[i] # s
        BY <1>1, <2>2 DEF ThreadTypeOK, SlotInv
      <3> QED
        BY <3>1 DEF OpenSession, ApplicationViewExact
    <2> QED
      BY <2>1, <2>2
  <1> QED
    BY <1>4, <1>5, <1>6, <1>7, <1>8, <1>9

-----------------------------------------------------------------------------
(* PostConnect. *)

(* The connector's session enters the slot of the ID that it holds. *)
LEMMA DispatchConnectSafe ==
    ASSUME TypeInv, SafeInv, NEW k \in Connectors, DispatchConnect(k)
    PROVE  SafeInv'
  <1> DEFINE id == m_nSessionID[k]
  <1> USE SessionKinds DEF SafeInv, TypeInv, TypeOK
  <1>1. interest[k] = "out" /\ call = NoCall
    BY NoCallInProgress DEF DispatchConnect, ThreadInv, EventInv
  <1>2. /\ heap[k] = "live" /\ tcp[k] # "fresh" /\ k \in Holders /\ id \in SessionID
    BY <1>1, WatchedHolds DEF TableInv, EpollInv, QueueInv, NoCall
  <1>3. /\ m_Sessions'[id] = k /\ app'[id] = k
        /\ \A i \in SessionID : i # id =>
              m_Sessions'[i] = m_Sessions[i] /\ app'[i] = app[i]
    BY <1>2 DEF DispatchConnect, AddSession, SessionTypeOK, ThreadTypeOK
  <1>4. UNCHANGED <<m_queSessionID, m_mapUDPSessions, m_nSessionID, heap, sock, fault, tcp,
                    backlog, interest, call>>
    BY DEF DispatchConnect, kernelVars
  <1>5. \A s \in Session : s # k /\ m_Sessions[m_nSessionID[s]] = s
                           /\ m_nSessionID[s] \in SessionID => m_nSessionID[s] # id
    <2>1. SUFFICES ASSUME NEW s \in Session, s # k, m_Sessions[m_nSessionID[s]] = s,
                          m_nSessionID[s] \in SessionID
                   PROVE  m_nSessionID[s] # id
      OBVIOUS
    <2>2. s \in Holders
      BY <2>1 DEF TableInv, SlotInv
    <2> QED
      BY <1>2, <2>1, <2>2 DEF TableInv, QueueInv
  <1>6. TableInv'
    <2>1. Holders' = Holders
      BY <1>4 DEF Holders, HoldsID
    <2>2. QueueInv' /\ HeapInv' /\ UdpMapExact' /\ BacklogInv'
      BY <1>4, <2>1 DEF TableInv, QueueInv, FreeIDs, HeapInv, UdpMapExact, BacklogInv
    <2>3. SlotInv'
      <3>1. ASSUME NEW i \in SessionID, m_Sessions'[i] \in Session
            PROVE  /\ m_nSessionID'[m_Sessions'[i]] = i
                   /\ m_Sessions'[i] \in Holders'
                   /\ m_Sessions'[i] \in Connectors => tcp'[m_Sessions'[i]] # "fresh"
        BY <1>2, <1>3, <1>4, <2>1, <3>1 DEF TableInv, SlotInv
      <3>2. ASSUME NEW s \in NewedSession, heap'[s] = "live"
            PROVE  m_Sessions'[m_nSessionID'[s]] = s
        <4>1. s # k /\ s \in Holders /\ m_nSessionID[s] \in SessionID
          BY <1>4, <3>2 DEF Holders, HoldsID, TableInv, QueueInv
        <4> QED
          BY <1>3, <1>4, <1>5, <3>2, <4>1 DEF TableInv, SlotInv
      <3> QED
        BY <3>1, <3>2 DEF SlotInv
    <2>4. EpollInv'
      <3>1. ASSUME NEW s \in TcpSession, interest[s] = "in"
            PROVE  m_Sessions'[m_nSessionID[s]] = s
        <4>1. s # k /\ m_Sessions[m_nSessionID[s]] = s /\ m_nSessionID[s] \in SessionID
          BY <1>1, <3>1 DEF TableInv, EpollInv, IdInv
        <4> QED
          BY <1>3, <1>5, <4>1
      <3> QED
        BY <1>4, <3>1 DEF TableInv, EpollInv
    <2>5. ApplicationViewExact'
      <3> SUFFICES ASSUME NEW i \in SessionID
                   PROVE  /\ app'[i] = OpenSession(i)'
                          /\ app'[i] # NULL => m_nSessionID'[app'[i]] = i
                                               /\ heap'[app'[i]] = "live"
        BY DEF ApplicationViewExact
      <3>1. CASE i = id
        BY <1>1, <1>2, <1>3, <1>4, <3>1 DEF OpenSession
      <3>2. CASE i # id
        <4>1. app'[i] = app[i] /\ OpenSession(i)' = OpenSession(i)
          BY <1>3, <1>4, <3>2 DEF OpenSession
        <4> QED
          BY <1>4, <4>1 DEF TableInv, ApplicationViewExact
      <3> QED
        BY <3>1, <3>2
    <2> QED
      BY <2>2, <2>3, <2>4, <2>5 DEF TableInv
  <1>7. EventInv' /\ HandlerInv'
    BY <1>1, <1>3, <1>4
       DEF DispatchConnect, CallBack, ThreadInv, EventInv, HandlerInv
  <1> QED
    BY <1>1, <1>4, <1>6, <1>7, CallerKept DEF ThreadInv, NoFault

(* EPOLL_CTL_MOD: from here on epoll leads to the session's IO_READ. *)
LEMMA ReturnOnConnectedSafe ==
    ASSUME TypeInv, SafeInv, ReturnOnConnected
    PROVE  SafeInv'
  <1> USE SessionKinds DEF SafeInv, TypeInv, TypeOK
  <1>1. /\ cur \in Connectors /\ interest[cur] = "out" /\ call = NoCall
        /\ m_Sessions[m_nSessionID[cur]] = cur /\ <<cur, "IO_CONNECT">> \notin m_Events
    BY NoCallInProgress
       DEF ReturnOnConnected, Returns, ThreadInv, HandlerInv, CurInv
  <1>2. UNCHANGED <<m_queSessionID, m_Sessions, m_mapUDPSessions, m_nSessionID, heap, sock,
                    fault, tcp, backlog, call, app>>
    BY DEF ReturnOnConnected, sessionVars
  <1>3. interest'[cur] = "in"
        /\ \A s \in TcpSession : s # cur => interest'[s] = interest[s]
    BY <1>1 DEF ReturnOnConnected, Watch, KernelTypeOK
  <1>4. TableInv'
    <2>1. Holders' = Holders
      BY <1>2 DEF Holders, HoldsID
    <2>2. QueueInv' /\ SlotInv' /\ HeapInv' /\ UdpMapExact' /\ BacklogInv'
      BY <1>2, <2>1
         DEF TableInv, QueueInv, SlotInv, FreeIDs, HeapInv, UdpMapExact, BacklogInv
    <2>3. EpollInv'
      BY <1>1, <1>2, <1>3 DEF TableInv, EpollInv
    <2>4. \A i \in SessionID : OpenSession(i)' = OpenSession(i)
      BY <1>1, <1>2, <1>3 DEF OpenSession
    <2>5. ApplicationViewExact'
      BY <1>2, <2>4 DEF TableInv, ApplicationViewExact
    <2> QED
      BY <2>2, <2>3, <2>5 DEF TableInv
  <1>5. EventInv' /\ HandlerInv'
    BY <1>1, <1>3
       DEF ReturnOnConnected, ToDispatch, ThreadInv, EventInv, HandlerInv
  <1> QED
    BY <1>1, <1>2, <1>4, <1>5, CallerKept DEF ThreadInv, NoFault

(* EPOLL_CTL_MOD fails: the descriptor is closed once. *)
LEMMA ModFailsSafe ==
    ASSUME TypeInv, SafeInv, ModFails
    PROVE  SafeInv'
  <1> USE SessionKinds DEF SafeInv, TypeInv, TypeOK
  <1>1. /\ cur \in Connectors /\ interest[cur] = "out" /\ call = NoCall
        /\ m_Sessions[m_nSessionID[cur]] = cur /\ <<cur, "IO_CONNECT">> \notin m_Events
    BY NoCallInProgress
       DEF ModFails, Returns, ThreadInv, HandlerInv, CurInv
  <1>2. sock[cur] = "open"
    BY <1>1 DEF TableInv, EpollInv
  <1>3. /\ interest'[cur] = "none" /\ tcp'[cur] = "closed"
        /\ \A s \in TcpSession : s # cur =>
              interest'[s] = interest[s] /\ tcp'[s] = tcp[s] /\ sock'[s] = sock[s]
    BY <1>1 DEF ModFails, Discard, SessionTypeOK
  <1>4. TableInv'
    <2>1. cur \notin Accepted
      BY <1>1
    <2> QED
      BY <1>1, <1>3, <2>1, ReportSafe DEF ModFails
  <1>5. EventInv' /\ HandlerInv'
    BY <1>1, <1>3 DEF ModFails, CallBack, ThreadInv, EventInv, HandlerInv
  <1>6. NoFault'
    BY <1>2 DEF ModFails, NoFault
  <1> QED
    BY <1>1, <1>4, <1>5, <1>6, CallerKept DEF ThreadInv, ModFails

-----------------------------------------------------------------------------
(* PostAccept. *)

(* The connection that accept() returns is in no table, and leaves the     *)
(* backlog for good.                                                       *)
LEMMA FromBacklog ==
    ASSUME TypeInv, SafeInv, backlog # <<>>, backlog' = Tail(backlog),
           \A c \in Accepted : c # Head(backlog) => heap'[c] = heap[c] /\ tcp'[c] = tcp[c]
    PROVE  /\ Head(backlog) \in Accepted /\ heap[Head(backlog)] # "live"
           /\ interest[Head(backlog)] = "none"
           /\ <<Head(backlog), "IO_READ">> \notin m_Events
           /\ <<Head(backlog), "IO_CONNECT">> \notin m_Events
           /\ BacklogInv'
  <1> DEFINE c == Head(backlog)
  <1> USE SessionKinds DEF SafeInv, TypeInv, TypeOK
  <1>1. /\ backlog \in Seq(Accepted) /\ Len(backlog) \in Nat /\ Len(backlog) > 0
        /\ c = backlog[1] /\ DOMAIN backlog = 1..Len(backlog)
        /\ DOMAIN backlog' = 1..(Len(backlog) - 1)
        /\ \A i \in 1..(Len(backlog) - 1) : backlog'[i] = backlog[i + 1]
    BY DEF KernelTypeOK
  <1>2. c \in Accepted /\ heap[c] # "live"
    BY <1>1 DEF TableInv, BacklogInv
  <1>3. interest[c] = "none"
    BY <1>2 DEF TableInv, EpollInv
  <1>4. <<c, "IO_READ">> \notin m_Events /\ <<c, "IO_CONNECT">> \notin m_Events
    BY <1>2, <1>3 DEF ThreadInv, EventInv
  <1>5. \A i \in 1..(Len(backlog) - 1) :
            backlog[i + 1] # c /\ backlog[i + 1] \in Accepted
    BY <1>1 DEF TableInv, BacklogInv
  <1>6. BacklogInv'
    BY <1>1, <1>5 DEF TableInv, BacklogInv
  <1> QED
    BY <1>2, <1>3, <1>4, <1>6

(* A connection that never was in the table is destroyed. *)
LEMMA RefusedSafe ==
    ASSUME TypeInv, SafeInv, call = NoCall, backlog # <<>>, backlog' = Tail(backlog),
           QueueInv', Holders' = Holders,
           UNCHANGED <<m_Sessions, m_mapUDPSessions, call, app>>,
           sock' = [sock EXCEPT ![Head(backlog)] = "closed"], Discard({Head(backlog)}),
           heap'[Head(backlog)] # "live",
           \A s \in Session : s # Head(backlog) =>
               heap'[s] = heap[s] /\ m_nSessionID'[s] = m_nSessionID[s]
    PROVE  TableInv' /\ \A s \in TcpSession : interest'[s] = interest[s]
  <1> DEFINE c == Head(backlog)
  <1> USE SessionKinds DEF SafeInv, TypeInv, TypeOK
  <1>1. \A s \in TcpSession : s # c => tcp'[s] = tcp[s] /\ interest'[s] = interest[s]
    BY DEF Discard
  <1>2. /\ c \in Accepted /\ heap[c] # "live" /\ interest[c] = "none" /\ BacklogInv'
    BY <1>1, FromBacklog
  <1>3. \A s \in TcpSession : interest'[s] = interest[s]
    BY <1>1, <1>2 DEF Discard
  <1>4. c \notin Holders /\ c \notin Connectors /\ c \notin Peers
    BY <1>2 DEF Holders, HoldsID
  <1>5. \A i \in SessionID : m_Sessions[i] # c
    BY <1>2, <1>4 DEF TableInv, SlotInv
  <1>6. SlotInv'
    BY <1>1, <1>2, <1>4, <1>5 DEF TableInv, SlotInv
  <1>7. HeapInv' /\ UdpMapExact'
    <2>1. sock'[c] = "closed" /\ \A s \in TcpSession : s # c => sock'[s] = sock[s]
      BY <1>2 DEF SessionTypeOK
    <2> QED
      BY <1>2, <1>4, <2>1 DEF TableInv, HeapInv, UdpMapExact
  <1>8. EpollInv'
    <2>1. \A s \in TcpSession : s # c => sock'[s] = sock[s]
      BY DEF SessionTypeOK
    <2>2. ASSUME NEW s \in TcpSession, interest'[s] # "none"
          PROVE  s # c /\ interest[s] = interest'[s]
      BY <1>2, <1>3, <2>2
    <2> QED
      BY <1>1, <2>1, <2>2 DEF TableInv, EpollInv
  <1>9. ApplicationViewExact'
    <2> SUFFICES ASSUME NEW i \in SessionID
                 PROVE  /\ app[i] = OpenSession(i)'
                        /\ app[i] # NULL => m_nSessionID'[app[i]] = i
                                            /\ heap'[app[i]] = "live"
      BY DEF ApplicationViewExact
    <2>1. OpenSession(i)' = OpenSession(i) /\ OpenSession(i) # c
      BY <1>2, <1>3, <1>5 DEF OpenSession
    <2>2. OpenSession(i) # NULL => OpenSession(i) \in Session
      BY DEF OpenSession
    <2> QED
      BY <2>1, <2>2 DEF TableInv, ApplicationViewExact
  <1> QED
    BY <1>2, <1>3, <1>6, <1>7, <1>8, <1>9 DEF TableInv

(* No ID is left. *)
LEMMA AcceptWithoutIDSafe ==
    ASSUME TypeInv, SafeInv, AcceptWithoutID
    PROVE  SafeInv'
  <1> USE SessionKinds DEF SafeInv, TypeInv, TypeOK
  <1>1. call = NoCall /\ UNCHANGED <<m_queSessionID, m_nSessionID, heap, call>>
    BY NoCallInProgress DEF AcceptWithoutID
  <1>2. /\ Head(backlog) \in Accepted
        /\ \A s \in TcpSession : s # Head(backlog) => tcp'[s] = tcp[s]
    BY BacklogType DEF AcceptWithoutID, Discard
  <1>3. heap[Head(backlog)] # "live"
    BY <1>1, <1>2, FromBacklog DEF AcceptWithoutID
  <1>4. Holders' = Holders
    BY <1>1, <1>2 DEF Holders, HoldsID
  <1>5. QueueInv'
    BY <1>1, <1>4 DEF TableInv, QueueInv, FreeIDs
  <1>6. TableInv' /\ \A s \in TcpSession : interest'[s] = interest[s]
    BY <1>1, <1>3, <1>4, <1>5, RefusedSafe DEF AcceptWithoutID
  <1>7. EventInv' /\ HandlerInv'
    BY <1>6 DEF AcceptWithoutID, ToDispatch, ThreadInv, EventInv, HandlerInv
  <1> QED
    BY <1>1, <1>6, <1>7, CallerKept DEF ThreadInv, NoFault, AcceptWithoutID

(* What a sequence holds, and that it holds nothing twice. *)
Elements(q) == {q[i] : i \in DOMAIN q}
Distinct(q) == \A i, j \in DOMAIN q : q[i] = q[j] => i = j

(* The ID at the front of the queue, moved to its end: no ID comes or goes. *)
LEMMA FrontToEnd ==
    ASSUME NEW q \in Seq(SessionID), q # <<>>, Distinct(q)
    PROVE  /\ Elements(Append(Tail(q), Head(q))) = Elements(q)
           /\ Distinct(Append(Tail(q), Head(q)))
  <1> DEFINE r == Append(Tail(q), Head(q))
  <1> USE DEF Elements, Distinct
  <1>1. PICK n \in Nat : n > 0 /\ Len(q) = n
    OBVIOUS
  <1>2. DOMAIN q = 1..n /\ DOMAIN r = 1..n
        /\ r[n] = q[1] /\ \A i \in 1..(n - 1) : r[i] = q[i + 1]
    <2>1. Tail(q) \in Seq(SessionID) /\ Len(Tail(q)) = n - 1 /\ DOMAIN q = 1..n
          /\ \A i \in 1..(n - 1) : Tail(q)[i] = q[i + 1]
      BY <1>1
    <2> QED
      BY <1>1, <2>1
  <1> HIDE DEF r
  <1>3. \A i \in 1..n : (i = n /\ r[i] = q[1]) \/ (i # n /\ i + 1 \in 1..n /\ r[i] = q[i + 1])
    <2> TAKE i \in 1..n
    <2>1. CASE i = n
      BY <1>2, <2>1
    <2>2. CASE i # n
      <3>1. i \in 1..(n - 1) /\ i + 1 \in 1..n
        BY <1>1, <2>2
      <3> QED
        BY <1>2, <2>2, <3>1
    <2> QED
      BY <2>1, <2>2
  <1>4. ASSUME NEW i \in DOMAIN r, NEW j \in DOMAIN r, r[i] = r[j]
        PROVE  i = j
    <2>1. i \in 1..n /\ j \in 1..n /\ 1 \in 1..n
      BY <1>1, <1>2
    <2>2. CASE i = n
      <3>1. CASE j # n
        <4>1. j + 1 = 1
          BY <1>2, <1>3, <1>4, <2>1, <2>2, <3>1
        <4> QED
          BY <2>1, <4>1
      <3> QED
        BY <2>2, <3>1
    <2>3. CASE i # n
      <3>1. CASE j = n
        <4>1. i + 1 = 1
          BY <1>2, <1>3, <1>4, <2>1, <2>3, <3>1
        <4> QED
          BY <2>1, <4>1
      <3>2. CASE j # n
        <4>1. /\ i + 1 \in DOMAIN q /\ r[i] = q[i + 1]
              /\ j + 1 \in DOMAIN q /\ r[j] = q[j + 1]
          BY <1>2, <1>3, <2>1, <2>3, <3>2
        <4>2. i + 1 = j + 1
          BY <1>4, <4>1
        <4> QED
          BY <2>1, <4>2
      <3> QED
        BY <3>1, <3>2
    <2> QED
      BY <2>2, <2>3
  <1>5. ASSUME NEW i \in DOMAIN r PROVE r[i] \in {q[j] : j \in DOMAIN q}
    BY <1>1, <1>2, <1>3
  <1>6. ASSUME NEW j \in DOMAIN q PROVE q[j] \in {r[i] : i \in DOMAIN r}
    <2>1. CASE j = 1
      BY <1>1, <1>2, <2>1
    <2>2. CASE j # 1
      <3>1. j - 1 \in 1..(n - 1) /\ j - 1 \in DOMAIN r /\ (j - 1) + 1 = j
        BY <1>1, <1>2, <2>2
      <3>2. r[j - 1] = q[j]
        BY <1>2, <3>1
      <3> QED
        BY <3>1, <3>2
    <2> QED
      BY <2>1, <2>2
  <1> QED
    BY <1>4, <1>5, <1>6 DEF r

(* EPOLL_CTL_ADD fails: the ID moves from the front of the queue to its end. *)
LEMMA AcceptAddFailsSafe ==
    ASSUME TypeInv, SafeInv, AcceptAddFails
    PROVE  SafeInv'
  <1> DEFINE q == m_queSessionID
             c == Head(backlog)
  <1> USE SessionKinds DEF SafeInv, TypeInv, TypeOK
  <1>1. call = NoCall /\ UNCHANGED <<m_Sessions, m_mapUDPSessions, fault, call, app>>
    BY NoCallInProgress DEF AcceptAddFails
  <1>2. c \in Accepted
    BY BacklogType DEF AcceptAddFails
  <1>3. heap'[c] = "freed" /\ \A s \in Session : s # c =>
            heap'[s] = heap[s] /\ m_nSessionID'[s] = m_nSessionID[s]
    BY <1>2 DEF AcceptAddFails, SessionTypeOK
  <1>4. \A s \in TcpSession : s # c => tcp'[s] = tcp[s]
    BY DEF AcceptAddFails, Discard
  <1>5. heap[c] # "live"
    BY <1>2, <1>3, <1>4, FromBacklog DEF AcceptAddFails
  <1>6. Holders' = Holders /\ c \notin Holders
    BY <1>1, <1>2, <1>3, <1>4, <1>5 DEF Holders, HoldsID
  <1>7. QueueInv'
    <2>1. /\ q \in Seq(SessionID) /\ q # <<>>
          /\ m_queSessionID' = Append(Tail(q), Head(q))
      BY DEF AcceptAddFails, SessionTypeOK, FreeSessionID, PopSessionID, NewSessionID
    <2>2. Distinct(q)
      BY DEF TableInv, QueueInv, Distinct
    <2>3. Elements(m_queSessionID') = Elements(q) /\ Distinct(m_queSessionID')
      BY <2>1, <2>2, FrontToEnd
    <2>4. FreeIDs' = FreeIDs /\ \A i, j \in DOMAIN q' : q'[i] = q'[j] => i = j
      BY <2>3 DEF FreeIDs, Elements, Distinct
    <2> QED
      BY <1>3, <1>6, <2>4 DEF TableInv, QueueInv, Holders
  <1>8. TableInv' /\ \A s \in TcpSession : interest'[s] = interest[s]
    BY <1>1, <1>3, <1>6, <1>7, RefusedSafe DEF AcceptAddFails
  <1>9. EventInv' /\ HandlerInv'
    BY <1>8 DEF AcceptAddFails, ToDispatch, ThreadInv, EventInv, HandlerInv
  <1> QED
    BY <1>1, <1>8, <1>9, CallerKept DEF ThreadInv, NoFault

(* An accepted connection gets an ID, an object, an entry in epoll, a slot. *)
LEMMA AcceptSafe ==
    ASSUME TypeInv, SafeInv, Accept
    PROVE  SafeInv'
  <1> DEFINE c == Head(backlog)
  <1> USE SessionKinds DEF SafeInv, TypeInv, TypeOK
  <1>1. call = NoCall /\ UNCHANGED <<m_mapUDPSessions, fault, tcp, m_Events, call>>
    BY NoCallInProgress DEF Accept
  <1>2. c \in Accepted
    BY BacklogType DEF Accept
  <1>3. /\ heap'[c] = "live" /\ sock'[c] = "open" /\ interest'[c] = "in"
        /\ \A s \in Session : s # c =>
              heap'[s] = heap[s] /\ m_nSessionID'[s] = m_nSessionID[s]
        /\ \A s \in TcpSession : s # c =>
              sock'[s] = sock[s] /\ interest'[s] = interest[s]
    BY <1>2 DEF Accept, Watch, SessionTypeOK, KernelTypeOK
  <1>4. /\ heap[c] # "live" /\ BacklogInv'
        /\ <<c, "IO_READ">> \notin m_Events /\ <<c, "IO_CONNECT">> \notin m_Events
    BY <1>1, <1>2, <1>3, FromBacklog DEF Accept
  <1>5. /\ NewSessionID \in SessionID
        /\ QueueInv' /\ SlotInv' /\ ApplicationViewExact'
        /\ \A s \in TcpSession : s # c /\ interest[s] = "in"
             => interest'[s] = "in" /\ m_Sessions'[m_nSessionID'[s]] = s
    <2>1. /\ NewSessionID # 0 /\ m_queSessionID' = PopSessionID
          /\ m_nSessionID' = [m_nSessionID EXCEPT ![c] = NewSessionID]
          /\ heap' = [heap EXCEPT ![c] = "live"]
          /\ m_Sessions' = [m_Sessions EXCEPT ![NewSessionID] = c]
          /\ app' = [app EXCEPT ![NewSessionID] = c]
      BY DEF Accept, AddSession
    <2>2. c \in NewedSession /\ heap[c] # "live" /\ UNCHANGED <<tcp, call>>
          /\ (\A s \in TcpSession : s # c => interest'[s] = interest[s])
          /\ interest'[c] = "in"
      BY <1>1, <1>2, <1>3, <1>4
    <2> HIDE DEF c
    <2> QED
      BY <2>1, <2>2, NewSessionSafe
  <1>6. HeapInv' /\ UdpMapExact'
    BY <1>1, <1>2, <1>3 DEF TableInv, HeapInv, UdpMapExact
  <1>7. EpollInv'
    <2>1. m_Sessions'[m_nSessionID'[c]] = c
      BY <1>2, <1>5 DEF Accept, AddSession, SessionTypeOK
    <2> QED
      BY <1>1, <1>2, <1>3, <1>5, <2>1 DEF TableInv, EpollInv
  <1>8. EventInv' /\ HandlerInv'
    BY <1>1, <1>3, <1>4 DEF Accept, CallBack, ThreadInv, EventInv, HandlerInv
  <1> QED
    BY <1>1, <1>4, <1>5, <1>6, <1>7, <1>8, CallerKept DEF ThreadInv, TableInv, NoFault

-----------------------------------------------------------------------------
(* PostRead, OnSessionDrop and PostReadFrom. *)

(* EPOLL_CTL_DEL comes before OnSessionDrop. *)
LEMMA ReadFailsSafe ==
    ASSUME TypeInv, SafeInv, ReadFails
    PROVE  SafeInv'
  <1> USE SessionKinds DEF SafeInv, TypeInv, TypeOK
  <1>1. /\ cur \in TcpSession /\ interest[cur] = "in" /\ call = NoCall
        /\ <<cur, "IO_READ">> \notin m_Events
    BY NoCallInProgress DEF ReadFails, ThreadInv, HandlerInv, CurInv
  <1>2. m_Sessions[m_nSessionID[cur]] = cur /\ heap[cur] = "live" /\ Valid(cur)
        /\ (cur \in Connectors => tcp[cur] # "fresh")
    BY <1>1 DEF TableInv, EpollInv, Valid, NoCall
  <1>3. interest'[cur] = "none"
        /\ \A s \in TcpSession : s # cur => interest'[s] = interest[s]
    BY <1>1 DEF ReadFails, KernelTypeOK
  <1>4. TableInv'
    BY <1>1, <1>2, <1>3, ReportSafe DEF ReadFails
  <1>5. EventInv'
    BY <1>1, <1>3 DEF ReadFails, CallBack, ThreadInv, EventInv
  <1>6. HandlerInv'
    BY <1>2, <1>3 DEF ReadFails, CallBack, HandlerInv
  <1>7. NoFault'
    BY <1>2 DEF ReadFails, Deref, NoFault
  <1> QED
    BY <1>1, <1>4, <1>5, <1>6, <1>7, CallerKept DEF ThreadInv, ReadFails

(* DelSession, once OnConnectionDrop returned. *)
LEMMA ReturnOnConnectionDropSafe ==
    ASSUME TypeInv, SafeInv, ReturnOnConnectionDrop
    PROVE  SafeInv'
  <1> DEFINE id == m_nSessionID[cur]
  <1> USE SessionKinds DEF SafeInv, TypeInv, TypeOK
  <1>1. /\ cur \in Accepted /\ heap[cur] = "live" /\ interest[cur] = "none"
        /\ call = NoCall
    BY NoCallInProgress
       DEF ReturnOnConnectionDrop, Returns, ThreadInv, HandlerInv, CurInv
  <1>2. cur \in Holders /\ id \in SessionID /\ m_Sessions[id] = cur
    BY <1>1 DEF Holders, HoldsID, TableInv, QueueInv, SlotInv
  <1>3. app[id] = NULL
    <2>1. cur \notin Peers /\ interest[cur] = "none"
      BY <1>1
    <2>2. OpenSession(id) = NULL
      BY <1>2, <2>1 DEF OpenSession
    <2>3. app[id] = OpenSession(id)
      BY <1>2 DEF TableInv, ApplicationViewExact
    <2> QED
      BY <2>2, <2>3
  <1>4. app' = [app EXCEPT ![id] = NULL]
    BY <1>2, <1>3 DEF ReturnOnConnectionDrop, ThreadTypeOK
  <1>5. /\ Erase(id) /\ sock' = Closed({cur} \cap TcpSession) /\ Discard({cur})
        /\ UNCHANGED <<call, m_nSessionID, backlog>> /\ fault' = fault
    <2>1. /\ {cur} \cap Accepted = {cur} /\ {cur} \cap TcpSession = {cur} /\ Valid(cur)
      BY <1>1 DEF Valid
    <2> QED
      BY <1>2, <2>1 DEF ReturnOnConnectionDrop, DelSession
  <1>6. TableInv'
    BY <1>1, <1>2, <1>4, <1>5, EraseSafe
  <1>7. \A s \in TcpSession : interest'[s] = interest[s]
    BY <1>1, <1>5 DEF Discard
  <1>8. EventInv' /\ HandlerInv'
    BY <1>7 DEF ReturnOnConnectionDrop, ToDispatch, ThreadInv, EventInv, HandlerInv
  <1> QED
    BY <1>1, <1>5, <1>6, <1>8, CallerKept DEF ThreadInv, NoFault

(* A peer without an entry in m_mapUDPSessions gets a session. *)
LEMMA RecvFromNewSafe ==
    ASSUME TypeInv, SafeInv, NEW p \in Peers, RecvFromNew(p)
    PROVE  SafeInv'
  <1> USE SessionKinds DEF SafeInv, TypeInv, TypeOK
  <1>1. /\ call = NoCall
        /\ UNCHANGED <<sock, fault, tcp, backlog, interest, m_Events, call>>
    BY NoCallInProgress DEF RecvFromNew, Received
  <1>2. heap[p] # "live"
    BY DEF RecvFromNew, GetUDPSessionID, TableInv, UdpMapExact
  <1>3. /\ heap'[p] = "live" /\ m_nSessionID'[p] = NewSessionID
        /\ m_mapUDPSessions'[p] = NewSessionID
        /\ \A s \in Session : s # p =>
              heap'[s] = heap[s] /\ m_nSessionID'[s] = m_nSessionID[s]
        /\ \A r \in Peers : r # p => m_mapUDPSessions'[r] = m_mapUDPSessions[r]
    BY DEF RecvFromNew, SessionTypeOK
  <1>4. p \notin TcpSession
    OBVIOUS
  <1>5. /\ NewSessionID \in SessionID
        /\ QueueInv' /\ SlotInv' /\ ApplicationViewExact'
        /\ \A s \in TcpSession : s # p /\ interest[s] = "in"
             => interest'[s] = "in" /\ m_Sessions'[m_nSessionID'[s]] = s
    BY <1>1, <1>2, <1>4, NewSessionSafe DEF RecvFromNew, AddSession
  <1>6. HeapInv' /\ UdpMapExact' /\ BacklogInv'
    <2>1. \A i \in DOMAIN backlog : backlog[i] \in Accepted
      BY DEF KernelTypeOK
    <2> QED
      BY <1>1, <1>3, <1>4, <1>5, <2>1 DEF TableInv, HeapInv, UdpMapExact, BacklogInv
  <1>7. EpollInv'
    BY <1>1, <1>3, <1>4, <1>5 DEF TableInv, EpollInv
  <1>8. EventInv' /\ HandlerInv'
    BY <1>1 DEF RecvFromNew, CallBack, ThreadInv, EventInv, HandlerInv
  <1> QED
    BY <1>1, <1>5, <1>6, <1>7, <1>8, CallerKept DEF ThreadInv, TableInv, NoFault

-----------------------------------------------------------------------------
(* AddTCPConnector. *)

(* From its first step on the call owns its connector. *)
LEMMA AppConnectsSafe ==
    ASSUME CallsFromOnUpdate, TypeInv, SafeInv, NEW k \in Connectors, AppConnects(k)
    PROVE  SafeInv'
  <1> USE SessionKinds DEF SafeInv, TypeInv, TypeOK
  <1>1. /\ call = NoCall /\ tcp[k] = "fresh" /\ interest[k] = "none" /\ sock[k] = "open"
        /\ UNCHANGED <<sessionVars, kernelVars, threadVars, app>>
    BY DEF AppConnects
  <1>2. PICK at \in CallsFrom("AddTCPConnector") :
            call' = [at |-> "pop", connector |-> k, id |-> NewSessionID, from |-> at]
    BY DEF AppConnects
  <1>3. at = "OnUpdate" /\ pc = "OnUpdate"
    BY <1>2 DEF CallsFrom, CallsFromOnUpdate
  <1>4. \A s \in Connectors : call.connector # s
    BY <1>1 DEF NoCall
  <1>5. Holders' = Holders
    BY <1>1, <1>2, <1>4 DEF Holders, HoldsID, sessionVars, kernelVars
  <1>6. TableInv'
    <2>1. QueueInv' /\ SlotInv' /\ HeapInv' /\ UdpMapExact' /\ BacklogInv'
      BY <1>1, <1>5 DEF TableInv, QueueInv, SlotInv, FreeIDs, HeapInv, UdpMapExact,
                        BacklogInv, sessionVars, kernelVars
    <2>2. EpollInv' /\ ApplicationViewExact'
      BY <1>1, <1>4 DEF TableInv, EpollInv, ApplicationViewExact, OpenSession,
                        sessionVars, kernelVars
    <2> QED
      BY <2>1, <2>2 DEF TableInv
  <1>7. EventInv' /\ HandlerInv' /\ NoFault'
    BY <1>1 DEF ThreadInv, EventInv, HandlerInv, NoFault, sessionVars, kernelVars, threadVars
  <1>8. CallerInv'
    BY <1>1, <1>2, <1>3
       DEF CallerInv, NewSessionID, sessionVars, kernelVars, threadVars
  <1> QED
    BY <1>6, <1>7, <1>8 DEF ThreadInv

(* The ID at the front of the queue is still the one the call looked at. *)
LEMMA CallPopsSafe ==
    ASSUME TypeInv, SafeInv, CallPops
    PROVE  SafeInv'
  <1> DEFINE k == call.connector
  <1> USE SessionKinds DEF SafeInv, TypeInv, TypeOK
  <1>1. /\ call.at = "pop" /\ k \in Connectors /\ call.id \in SessionID
        /\ pc = "OnUpdate" /\ call.from = "OnUpdate" /\ NewSessionID = call.id
        /\ sock[k] = "open" /\ tcp[k] = "fresh" /\ interest[k] = "none"
    BY DEF CallPops, CallInv, ThreadInv, CallerInv
  <1>2. /\ NewSessionID # 0 /\ m_queSessionID' = PopSessionID /\ fault' = fault
        /\ m_nSessionID' = [m_nSessionID EXCEPT ![k] = NewSessionID]
    BY <1>1 DEF CallPops, NewSessionID
  <1>3. UNCHANGED <<m_Sessions, m_mapUDPSessions, heap, sock, tcp, backlog, interest, app,
                    m_Events, pc, cur>>
    BY DEF CallPops, kernelVars, threadVars
  <1>4. call'.at = "ctl" /\ call'.connector = k /\ call'.id = call.id
        /\ call'.from = call.from
    BY DEF CallPops
  <1>5. k \notin Holders /\ Holders' = Holders \cup {k}
    BY <1>1, <1>3, <1>4 DEF Holders, HoldsID
  <1>6. \A s \in Session : s # k => m_nSessionID'[s] = m_nSessionID[s]
    BY <1>2 DEF SessionTypeOK
  <1>7. m_nSessionID'[k] = call.id
    BY <1>1, <1>2 DEF SessionTypeOK
  <1>8. \A i \in SessionID : m_Sessions[i] # k
    BY <1>1 DEF TableInv, SlotInv
  <1>9. TableInv'
    <2>1. QueueInv'
      <3>1. k \in Session /\ QueueInv /\ SessionTypeOK
        BY <1>1 DEF TableInv
      <3> HIDE DEF k
      <3> QED
        BY <1>2, <1>5, <3>1, TakesID
    <2>2. SlotInv'
      <3>1. \A s \in NewedSession : s # k
        BY <1>1
      <3> QED
        BY <1>3, <1>5, <1>6, <1>8, <3>1 DEF TableInv, SlotInv
    <2>3. HeapInv' /\ UdpMapExact' /\ BacklogInv'
      BY <1>1, <1>3, <1>6 DEF TableInv, HeapInv, UdpMapExact, BacklogInv
    <2>4. EpollInv'
      BY <1>1, <1>3, <1>6 DEF TableInv, EpollInv
    <2>5. ApplicationViewExact'
      <3>1. \A i \in SessionID : OpenSession(i)' = OpenSession(i) /\ OpenSession(i) # k
                                 /\ OpenSession(i) \in Session \cup {NULL}
        BY <1>1, <1>3, <1>8 DEF OpenSession
      <3>2. SUFFICES ASSUME NEW i \in SessionID
                     PROVE  /\ app[i] = OpenSession(i)
                            /\ app[i] # NULL => m_nSessionID'[app[i]] = i
                                               /\ heap[app[i]] = "live"
        BY <1>3, <3>1 DEF ApplicationViewExact
      <3>3. /\ app[i] = OpenSession(i)
            /\ app[i] # NULL => m_nSessionID[app[i]] = i /\ heap[app[i]] = "live"
        BY DEF TableInv, ApplicationViewExact
      <3>4. app[i] # NULL => app[i] \in Session /\ app[i] # k
        BY <3>1, <3>3
      <3> HIDE DEF k
      <3> QED
        BY <1>6, <3>3, <3>4
    <2> QED
      BY <2>1, <2>2, <2>3, <2>4, <2>5 DEF TableInv
  <1>10. EventInv' /\ HandlerInv'
    BY <1>1, <1>3 DEF ThreadInv, EventInv, HandlerInv
  <1>11. CallerInv'
    BY <1>1, <1>3, <1>4, <1>7 DEF CallerInv
  <1> QED
    BY <1>2, <1>9, <1>10, <1>11 DEF ThreadInv, NoFault

(* The descriptor is watched before connect() is called on it. *)
LEMMA CallAddsToEpollSafe ==
    ASSUME TypeInv, SafeInv, CallAddsToEpoll
    PROVE  SafeInv'
  <1> DEFINE k == call.connector
  <1> USE SessionKinds DEF SafeInv, TypeInv, TypeOK
  <1>1. /\ call.at = "ctl" /\ k \in Connectors /\ pc = "OnUpdate" /\ call.from = "OnUpdate"
        /\ sock[k] = "open" /\ tcp[k] = "fresh" /\ interest[k] = "none"
        /\ m_nSessionID[k] = call.id
    BY DEF CallAddsToEpoll, CallInv, ThreadInv, CallerInv
  <1>2. UNCHANGED <<m_queSessionID, m_Sessions, m_mapUDPSessions, m_nSessionID, heap, sock,
                    fault, tcp, backlog, app, m_Events, pc, cur>>
    BY DEF CallAddsToEpoll, sessionVars, threadVars
  <1>3. interest'[k] = "out" /\ \A s \in TcpSession : s # k => interest'[s] = interest[s]
    BY <1>1 DEF CallAddsToEpoll, Watch, KernelTypeOK
  <1>4. call'.at = "connect" /\ call'.connector = k /\ call'.id = call.id
        /\ call'.from = call.from
    BY DEF CallAddsToEpoll
  <1>5. Holders' = Holders
    BY <1>1, <1>2, <1>4 DEF Holders, HoldsID
  <1>6. TableInv'
    <2>1. QueueInv' /\ SlotInv' /\ HeapInv' /\ UdpMapExact' /\ BacklogInv'
      BY <1>2, <1>5
         DEF TableInv, QueueInv, SlotInv, FreeIDs, HeapInv, UdpMapExact, BacklogInv
    <2>2. EpollInv'
      BY <1>1, <1>2, <1>3, <1>4 DEF TableInv, EpollInv, HeapInv
    <2>3. ApplicationViewExact'
      <3>1. \A i \in SessionID : m_Sessions[i] # k
        BY <1>1 DEF TableInv, SlotInv
      <3>2. \A i \in SessionID : OpenSession(i)' = OpenSession(i)
        BY <1>2, <1>3, <3>1 DEF OpenSession
      <3> QED
        BY <1>2, <3>2 DEF TableInv, ApplicationViewExact
    <2> QED
      BY <2>1, <2>2, <2>3 DEF TableInv
  <1>7. EventInv' /\ HandlerInv'
    BY <1>1, <1>2 DEF ThreadInv, EventInv, HandlerInv
  <1>8. CallerInv'
    BY <1>1, <1>2, <1>4 DEF CallerInv
  <1> QED
    BY <1>2, <1>6, <1>7, <1>8 DEF ThreadInv, NoFault

(* EPOLL_CTL_ADD fails: the ID goes back to the queue. *)
LEMMA CallAddFailsSafe ==
    ASSUME TypeInv, SafeInv, CallAddFails
    PROVE  SafeInv'
  <1> DEFINE k == call.connector
  <1> USE SessionKinds DEF SafeInv, TypeInv, TypeOK
  <1>1. /\ call.at = "ctl" /\ k \in Connectors /\ pc = "OnUpdate"
        /\ tcp[k] = "fresh" /\ interest[k] = "none" /\ m_nSessionID[k] = call.id
    BY DEF CallAddFails, CallInv, ThreadInv, CallerInv
  <1>2. /\ UNCHANGED <<m_Sessions, m_mapUDPSessions, m_nSessionID, heap, sock,
                       fault, tcp, backlog, interest, app, m_Events, pc, cur>>
        /\ m_queSessionID' = FreeSessionID(m_queSessionID, m_nSessionID[k])
        /\ call' = NoCall
    BY <1>1 DEF CallAddFails, CallFails, kernelVars, threadVars
  <1>3. \A s \in Connectors : call'.connector # s
    BY <1>2 DEF NoCall
  <1>4. k \in Holders /\ Holders' = Holders \ {k}
    BY <1>1, <1>2, <1>3 DEF Holders, HoldsID
  <1>5. TableInv'
    <2>1. QueueInv'
      BY <1>1, <1>2, <1>4, GivesID DEF TableInv
    <2>2. SlotInv'
      BY <1>1, <1>2, <1>4 DEF TableInv, SlotInv
    <2>3. HeapInv' /\ UdpMapExact' /\ BacklogInv' /\ ApplicationViewExact'
      BY <1>2 DEF TableInv, HeapInv, UdpMapExact, BacklogInv, ApplicationViewExact,
                  OpenSession
    <2>4. EpollInv'
      BY <1>1, <1>2 DEF TableInv, EpollInv
    <2> QED
      BY <2>1, <2>2, <2>3, <2>4 DEF TableInv
  <1>6. EventInv' /\ HandlerInv'
    BY <1>1, <1>2 DEF ThreadInv, EventInv, HandlerInv
  <1>7. CallerInv'
    BY <1>2 DEF CallerInv, NoCall
  <1> QED
    BY <1>2, <1>5, <1>6, <1>7 DEF ThreadInv, NoFault

(* connect() is called, and answered later. *)
LEMMA CallConnectsSafe ==
    ASSUME TypeInv, SafeInv, CallConnects
    PROVE  SafeInv'
  <1> DEFINE k == call.connector
  <1> USE SessionKinds DEF SafeInv, TypeInv, TypeOK
  <1>1. call.at = "connect" /\ k \in Connectors /\ pc = "OnUpdate" /\ tcp[k] = "fresh"
    BY DEF CallConnects, CallInv, ThreadInv, CallerInv
  <1>2. /\ UNCHANGED <<m_queSessionID, m_Sessions, m_mapUDPSessions, m_nSessionID, heap,
                       sock, fault, backlog, interest, app, m_Events, pc, cur>>
        /\ call' = NoCall
    BY DEF CallConnects, sessionVars, threadVars
  <1>3. tcp'[k] = "syn" /\ \A s \in TcpSession : s # k => tcp'[s] = tcp[s]
    BY <1>1 DEF CallConnects, KernelTypeOK
  <1>4. \A s \in Connectors : call'.connector # s
    BY <1>2 DEF NoCall
  <1>5. Holders' = Holders
    BY <1>1, <1>2, <1>3, <1>4 DEF Holders, HoldsID
  <1>6. TableInv'
    <2>1. QueueInv' /\ SlotInv'
      BY <1>2, <1>3, <1>5 DEF TableInv, QueueInv, SlotInv, FreeIDs
    <2>2. HeapInv' /\ UdpMapExact' /\ ApplicationViewExact'
      BY <1>2 DEF TableInv, HeapInv, UdpMapExact, ApplicationViewExact, OpenSession
    <2>3. BacklogInv'
      <3>1. \A i \in DOMAIN backlog : backlog[i] \in Accepted /\ backlog[i] # k
        BY <1>1 DEF KernelTypeOK
      <3> QED
        BY <1>2, <1>3, <3>1 DEF TableInv, BacklogInv
    <2>4. EpollInv'
      BY <1>1, <1>2, <1>3 DEF TableInv, EpollInv
    <2> QED
      BY <2>1, <2>2, <2>3, <2>4 DEF TableInv
  <1>7. EventInv' /\ HandlerInv'
    BY <1>1, <1>2 DEF ThreadInv, EventInv, HandlerInv
  <1>8. CallerInv'
    BY <1>2 DEF CallerInv, NoCall
  <1> QED
    BY <1>2, <1>6, <1>7, <1>8 DEF ThreadInv, NoFault

-----------------------------------------------------------------------------
(* KickSession. *)

(* The application kicks a session that it knows, from OnUpdate. *)
LEMMA AppKicksSafe ==
    ASSUME CallsFromOnUpdate, TypeInv, SafeInv, NEW id \in SessionID, AppKicks(id)
    PROVE  SafeInv'
  <1> DEFINE s == m_Sessions[id]
  <1> USE SessionKinds DEF SafeInv, TypeInv, TypeOK
  <1>1. pc = "OnUpdate" /\ call = NoCall /\ m_Events = {}
    <2>1. PICK at \in CallsFrom("KickSession") : TRUE
      BY DEF AppKicks
    <2>2. at = "OnUpdate" /\ pc = "OnUpdate" /\ call.from # "OnUpdate"
      BY <2>1 DEF CallsFrom, CallsFromOnUpdate
    <2> QED
      BY <2>2, NoCallInProgress DEF ThreadInv, EventInv
  <1>2. s \in Session /\ heap[s] = "live" /\ (s \in TcpSession => interest[s] # "none")
    BY DEF AppKicks, TableInv, ApplicationViewExact, OpenSession
  <1>3. Valid(s) /\ (s \in TcpSession => sock[s] = "open")
    BY <1>2 DEF Valid, TableInv, EpollInv
  <1>4. /\ Erase(id) /\ sock' = Closed({s} \cap TcpSession) /\ Discard({s})
        /\ UNCHANGED <<call, m_nSessionID, backlog>> /\ fault' = fault
        /\ app' = [app EXCEPT ![id] = NULL] /\ UNCHANGED threadVars
    BY <1>3 DEF AppKicks, KickSession
  <1>5. TableInv'
    BY <1>1, <1>2, <1>4, EraseSafe
  <1>6. EventInv' /\ HandlerInv'
    BY <1>1, <1>4 DEF threadVars, EventInv, HandlerInv
  <1> QED
    BY <1>1, <1>4, <1>5, <1>6, CallerKept DEF ThreadInv, NoFault

-----------------------------------------------------------------------------
(* The invariant, and what it says. *)

(* The state that Init() and Start() leave. *)
LEMMA InitSafe == Init => SafeInv
  <1> SUFFICES ASSUME Init PROVE SafeInv
    OBVIOUS
  <1> USE SessionKinds DEF Init, InitSession
  <1>1. Holders = {}
    BY SessionAssumption DEF Holders, HoldsID, NoCall, NewedSession, TcpSession
  <1>2. QueueInv
    BY <1>1 DEF QueueInv, FreeIDs
  <1>3. SlotInv
    BY <1>1 DEF SlotInv
  <1>4. HeapInv /\ UdpMapExact /\ BacklogInv
    BY SessionAssumption DEF HeapInv, UdpMapExact, BacklogInv, SessionID, TcpSession
  <1>5. EpollInv /\ ApplicationViewExact
    BY DEF EpollInv, ApplicationViewExact, OpenSession
  <1>6. ThreadInv /\ NoFault
    BY DEF ThreadInv, EventInv, HandlerInv, CallerInv, NoCall, NoFault
  <1> QED
    BY <1>2, <1>3, <1>4, <1>5, <1>6 DEF SafeInv, TableInv

(* Every step keeps SafeInv, for an application on the service's thread. *)
LEMMA NextSafe ==
    ASSUME CallsFromOnUpdate, TypeInv, SafeInv, [Next]_vars
    PROVE  SafeInv'
  <1>1. CASE ThreadProc
    <2>1. CASE \E k \in Connectors : DispatchConnect(k)
      BY <2>1, DispatchConnectSafe
    <2>2. CASE \E p \in Peers : RecvFromNew(p)
      BY <2>2, RecvFromNewSafe
    <2>3. CASE ReturnOnConnected \/ ModFails
      BY <2>3, ReturnOnConnectedSafe, ModFailsSafe
    <2>4. CASE AcceptWithoutID \/ Accept \/ AcceptAddFails
      BY <2>4, AcceptWithoutIDSafe, AcceptSafe, AcceptAddFailsSafe
    <2>5. CASE ReadFails \/ ReturnOnConnectionDrop
      BY <2>5, ReadFailsSafe, ReturnOnConnectionDropSafe
    <2>6. CASE \/ ReturnOnUpdate \/ EpollWait \/ EndOfBatch
               \/ \E e \in Event : DispatchListener(e)
               \/ \E s \in TcpSession : DispatchRead(s)
               \/ ReturnOnConnectFail \/ NothingToAccept \/ ReturnOnAddConnection
               \/ ReadSome \/ ReadEnds \/ ReturnOnData \/ NothingReceived
               \/ \E p \in Peers : RecvFromKnown(p) \/ RecvFromWithoutID(p)
      BY <2>6, ControlSafe
    <2> QED
      BY <1>1, <2>1, <2>2, <2>3, <2>4, <2>5, <2>6 DEF ThreadProc
  <1>2. CASE AddTCPConnector
    <2>1. ~CallConnectFails
      <3> SUFFICES ASSUME CallConnectFails PROVE FALSE
        OBVIOUS
      <3> QED
        BY DEF CallConnectFails, SafeInv, ThreadInv, CallerInv, CallsFromOnUpdate
    <2> QED
      BY <1>2, <2>1, CallPopsSafe, CallAddsToEpollSafe, CallAddFailsSafe, CallConnectsSafe
         DEF AddTCPConnector
  <1>3. CASE Application
    <2>1. ~AppStops
      BY DEF AppStops, CallsFrom, CallsFromOnUpdate
    <2> QED
      BY <1>3, <2>1, AppKicksSafe, AppConnectsSafe DEF Application
  <1>4. CASE Network
    BY <1>4, NetworkSafe
  <1>5. CASE UNCHANGED vars
    <2>1. SameFresh /\ SameWaiting
      BY <1>5 DEF SameFresh, SameWaiting, vars, kernelVars
    <2> QED
      BY <1>5, <2>1, TableKept, ThreadKept
         DEF vars, sessionVars, kernelVars, threadVars, SafeInv, NoFault, TypeInv, TypeOK
  <1> QED
    BY <1>1, <1>2, <1>3, <1>4, <1>5 DEF Next

(* What the runs check follows from SafeInv. *)
LEMMA SafeInvImplies ==
    ASSUME TypeInv, SafeInv
    PROVE  IdsConserved /\ TableOwnsSessions /\ EpollPointersLive
  <1> USE SessionKinds DEF SafeInv, TableInv, TypeInv, TypeOK
  <1>1. IdsConserved
    <2> SUFFICES ASSUME NEW id \in SessionID
                 PROVE  LET held == {s \in Session : HoldsID(s) /\ m_nSessionID[s] = id}
                        IN  IF \E i \in DOMAIN m_queSessionID : m_queSessionID[i] = id
                            THEN held = {}
                            ELSE \E s \in Session : held = {s}
      BY DEF IdsConserved, QueueInv
    <2> DEFINE held == {s \in Session : HoldsID(s) /\ m_nSessionID[s] = id}
    <2>1. held = {s \in Holders : m_nSessionID[s] = id}
      BY DEF Holders
    <2>2. (\E i \in DOMAIN m_queSessionID : m_queSessionID[i] = id) <=> id \in FreeIDs
      BY DEF FreeIDs
    <2>3. id \in FreeIDs => held = {}
      BY <2>1 DEF QueueInv
    <2>4. id \notin FreeIDs => \E s \in Session : held = {s}
      <3> SUFFICES ASSUME id \notin FreeIDs PROVE \E s \in Session : held = {s}
        OBVIOUS
      <3>1. PICK s \in Holders : m_nSessionID[s] = id
        BY DEF QueueInv
      <3>2. held = {s} /\ s \in Session
        BY <2>1, <3>1 DEF QueueInv, Holders
      <3> QED
        BY <3>2
    <2> QED
      BY <2>2, <2>3, <2>4
  <1>2. TableOwnsSessions
    <2>1. ASSUME NEW s \in NewedSession
          PROVE  heap[s] = "live" <=> \E id \in SessionID : m_Sessions[id] = s
      <3>1. ASSUME heap[s] = "live" PROVE \E id \in SessionID : m_Sessions[id] = s
        <4>1. s \in Holders
          BY <3>1 DEF Holders, HoldsID
        <4> QED
          BY <3>1, <4>1 DEF QueueInv, SlotInv
      <3>2. ASSUME NEW id \in SessionID, m_Sessions[id] = s PROVE heap[s] = "live"
        BY <3>2 DEF SlotInv, Holders, HoldsID
      <3> QED
        BY <3>1, <3>2
    <2> QED
      BY <2>1 DEF TableOwnsSessions, HeapInv
  <1>3. EpollPointersLive
    BY DEF EpollPointersLive, EpollInv, ThreadInv, EventInv
  <1> QED
    BY <1>1, <1>2, <1>3

(***************************************************************************)
(* No handler of the epoll back end, and no call that the application      *)
(* makes from OnUpdate, meets a session that was deleted or a descriptor   *)
(* that was closed; IDs are conserved; the table, the heap, the UDP map,   *)
(* epoll and the application agree on the sessions there are. So it is     *)
(* while connect() does not fail at once.                                  *)
(***************************************************************************)
THEOREM ServiceSafe ==
    CallsFromOnUpdate => (Spec => [](/\ NoFault /\ IdsConserved /\ TableOwnsSessions
                                     /\ UdpMapExact /\ EpollPointersLive
                                     /\ ApplicationViewExact))
  <1> SUFFICES ASSUME CallsFromOnUpdate
               PROVE  Spec => [](/\ NoFault /\ IdsConserved /\ TableOwnsSessions
                                 /\ UdpMapExact /\ EpollPointersLive
                                 /\ ApplicationViewExact)
    OBVIOUS
  <1>1. Init => TypeInv /\ SafeInv
    BY InitTypeInv, InitSafe
  <1>2. TypeInv /\ SafeInv /\ [Next]_vars => TypeInv' /\ SafeInv'
    BY NextTypeInv, NextSafe
  <1>3. TypeInv /\ SafeInv => /\ NoFault /\ IdsConserved /\ TableOwnsSessions
                              /\ UdpMapExact /\ EpollPointersLive
                              /\ ApplicationViewExact
    BY SafeInvImplies DEF SafeInv, TableInv
  <1> QED
    BY <1>1, <1>2, <1>3, PTL DEF Spec

(***************************************************************************)
(* No handler and no call from OnUpdate works on a deleted session or on a *)
(* closed descriptor, or takes an ID off an empty queue.                   *)
(***************************************************************************)
THEOREM NeverFaults == CallsFromOnUpdate => (Spec => []NoFault)
  <1> SUFFICES ASSUME CallsFromOnUpdate PROVE Spec => []NoFault
    OBVIOUS
  <1>1. Spec => [](/\ NoFault /\ IdsConserved /\ TableOwnsSessions
                   /\ UdpMapExact /\ EpollPointersLive
                   /\ ApplicationViewExact)
    BY ServiceSafe
  <1> QED
    BY <1>1, PTL

(***************************************************************************)
(* The table holds the sessions that the service allocated, each with its  *)
(* descriptor open, and no other: what DelSession and KickSession delete is*)
(* in no slot, and what no slot holds is deleted.                          *)
(***************************************************************************)
THEOREM SessionsAreOwned == CallsFromOnUpdate => (Spec => []TableOwnsSessions)
  <1> SUFFICES ASSUME CallsFromOnUpdate PROVE Spec => []TableOwnsSessions
    OBVIOUS
  <1>1. Spec => [](/\ NoFault /\ IdsConserved /\ TableOwnsSessions
                   /\ UdpMapExact /\ EpollPointersLive
                   /\ ApplicationViewExact)
    BY ServiceSafe
  <1> QED
    BY <1>1, PTL

(***************************************************************************)
(* m_mapUDPSessions knows a peer under the ID of its live session, and     *)
(* under none when it has none: no datagram is reported under a stale ID.  *)
(***************************************************************************)
THEOREM UdpMapIsExact == CallsFromOnUpdate => (Spec => []UdpMapExact)
  <1> SUFFICES ASSUME CallsFromOnUpdate PROVE Spec => []UdpMapExact
    OBVIOUS
  <1>1. Spec => [](/\ NoFault /\ IdsConserved /\ TableOwnsSessions
                   /\ UdpMapExact /\ EpollPointersLive
                   /\ ApplicationViewExact)
    BY ServiceSafe
  <1> QED
    BY <1>1, PTL

(***************************************************************************)
(* No pointer to a deleted session is left in epoll or in the batch of     *)
(* events that ThreadProc dispatches.                                      *)
(***************************************************************************)
THEOREM PointersAreLive == CallsFromOnUpdate => (Spec => []EpollPointersLive)
  <1> SUFFICES ASSUME CallsFromOnUpdate PROVE Spec => []EpollPointersLive
    OBVIOUS
  <1>1. Spec => [](/\ NoFault /\ IdsConserved /\ TableOwnsSessions
                   /\ UdpMapExact /\ EpollPointersLive
                   /\ ApplicationViewExact)
    BY ServiceSafe
  <1> QED
    BY <1>1, PTL

(***************************************************************************)
(* What the callbacks have told the application is what the table holds:   *)
(* the application never knows a session that is gone, under no ID.        *)
(***************************************************************************)
THEOREM ViewIsExact == CallsFromOnUpdate => (Spec => []ApplicationViewExact)
  <1> SUFFICES ASSUME CallsFromOnUpdate PROVE Spec => []ApplicationViewExact
    OBVIOUS
  <1>1. Spec => [](/\ NoFault /\ IdsConserved /\ TableOwnsSessions
                   /\ UdpMapExact /\ EpollPointersLive
                   /\ ApplicationViewExact)
    BY ServiceSafe
  <1> QED
    BY <1>1, PTL

-----------------------------------------------------------------------------
(***************************************************************************)
(* NetServiceEpoll implements SessionProtocol, of the same applications.   *)
(*                                                                         *)
(* By ApplicationViewExact the open sessions are those the application was *)
(* told of, so a step of the service is seen in app and in the callback    *)
(* that it is in. What SafeInv does not say of a callback is in RefInv.    *)
(***************************************************************************)

(* What the refinement reads as session and as callback. *)
View == [id \in SessionID |-> OpenSession(id)]
InCallback ==
    IF pc \in Callbacks \ {"OnUpdate"} THEN <<pc, session_id, cur>> ELSE NULL

(* The session that a callback announces is open under the ID it reports. *)
AnnounceInv ==
    pc \in {"OnAddConnection", "OnConnected"} =>
        cur \in Session /\ session_id \in SessionID /\ app[session_id] = cur

(* A connector is announced before epoll watches it for data, and once. *)
OnceInv ==
    \A k \in Connectors, id \in SessionID :
        app[id] = k /\ interest[k] = "out" => pc = "OnConnected" /\ cur = k

RefInv == AnnounceInv /\ OnceInv

-----------------------------------------------------------------------------
(* The view. *)

(* The open sessions are those the application knows, before and after. *)
LEMMA ViewIsApp ==
    ASSUME TypeInv, SafeInv, TypeInv', SafeInv'
    PROVE  View = app /\ View' = app'
  <1>1. app \in [SessionID -> Session \cup {NULL}] /\ ApplicationViewExact
    BY DEF TypeInv, TypeOK, ThreadTypeOK, SafeInv, TableInv
  <1>2. app' \in [SessionID -> Session \cup {NULL}] /\ ApplicationViewExact'
    BY DEF TypeInv, TypeOK, ThreadTypeOK, SafeInv, TableInv
  <1>3. View = app
    BY <1>1 DEF View, ApplicationViewExact
  <1>4. View' = app'
    BY <1>2 DEF View, ApplicationViewExact
  <1> QED
    BY <1>3, <1>4

(* A callback in progress is not NULL. *)
LEMMA CallbackIsOne ==
    ASSUME TypeInv
    PROVE  InCallback = NULL <=> pc \notin Callbacks \ {"OnUpdate"}
  <1>1. session_id \in 0..MAX_SOCK_EVENT /\ cur \in Session \cup {NULL}
    BY DEF TypeInv, TypeOK, ThreadTypeOK
  <1> QED
    BY <1>1, CallbackAssumption DEF InCallback

(* What the application knows under an ID lives, and has that ID. *)
LEMMA KnownLives ==
    ASSUME SafeInv, NEW id \in SessionID, app[id] # NULL
    PROVE  heap[app[id]] = "live" /\ m_nSessionID[app[id]] = id
  BY DEF SafeInv, TableInv, ApplicationViewExact

(* Nothing is open under an ID that no session holds. *)
LEMMA FreeIsClosed ==
    ASSUME TypeInv, SafeInv, NewSessionID # 0
    PROVE  NewSessionID \in SessionID /\ app[NewSessionID] = NULL
  <1> DEFINE id == NewSessionID
  <1> USE SessionKinds DEF TypeInv, TypeOK
  <1>1. id \in SessionID
    BY QueueType
  <1>2. id \in FreeIDs
    BY DEF FreeIDs, NewSessionID, SessionTypeOK
  <1>3. ASSUME app[id] # NULL PROVE FALSE
    <2>1. app[id] = OpenSession(id)
      BY <1>1 DEF SafeInv, TableInv, ApplicationViewExact
    <2>2. m_Sessions[id] \in Session
      BY <1>3, <2>1 DEF OpenSession
    <2>3. m_Sessions[id] \in Holders /\ m_nSessionID[m_Sessions[id]] = id
      BY <1>1, <2>2 DEF SafeInv, TableInv, SlotInv
    <2> QED
      BY <1>2, <2>3 DEF SafeInv, TableInv, QueueInv
  <1> QED
    BY <1>1, <1>3

(* What epoll watches for data is open under its ID. *)
LEMMA WatchedIsKnown ==
    ASSUME TypeInv, SafeInv, NEW s \in TcpSession, interest[s] = "in", call = NoCall
    PROVE  m_nSessionID[s] \in SessionID /\ app[m_nSessionID[s]] = s
  <1> USE SessionKinds DEF TypeInv, TypeOK
  <1>1. m_Sessions[m_nSessionID[s]] = s /\ m_nSessionID[s] \in SessionID
    BY DEF SafeInv, TableInv, EpollInv, IdInv
  <1>2. app[m_nSessionID[s]] = OpenSession(m_nSessionID[s])
    BY <1>1 DEF SafeInv, TableInv, ApplicationViewExact
  <1> QED
    BY <1>1, <1>2 DEF OpenSession

-----------------------------------------------------------------------------
(* The steps of the protocol, as the service shows them. *)

(* Nothing is told and nothing returns. *)
LEMMA Stutters ==
    ASSUME View = app, View' = app', UNCHANGED app, UNCHANGED InCallback
    PROVE  UNCHANGED Protocol!vars
  BY DEF Protocol!vars, View, InCallback

(* OnAddConnection or OnConnected opens a session. *)
LEMMA Opens ==
    ASSUME View = app, View' = app',
           NEW id \in SessionID, NEW s \in Session, InCallback = NULL,
           app[id] = NULL, \A i \in SessionID : app[i] # s,
           app' = [app EXCEPT ![id] = s],
           InCallback' = <<IF s \in Connectors THEN "OnConnected" ELSE "OnAddConnection",
                           id, s>>
    PROVE  Protocol!Next
  <1> DEFINE name == IF s \in Connectors THEN "OnConnected" ELSE "OnAddConnection"
  <1>1. Protocol!Open(name, id, s)
    BY DEF Protocol!Open, Protocol!Announces, View, InCallback
  <1> QED
    BY <1>1 DEF Protocol!Next

(* OnData reports an open session. *)
LEMMA ReportsData ==
    ASSUME View = app, View' = app', UNCHANGED app,
           NEW id \in SessionID, app[id] # NULL,
           \/ InCallback = NULL
           \/ InCallback = <<"OnAddConnection", id, app[id]>>,
           InCallback' = <<"OnData", id, app[id]>>
    PROVE  Protocol!Next
  <1>1. Protocol!Data(id)
    BY DEF Protocol!Data, View, InCallback
  <1> QED
    BY <1>1 DEF Protocol!Next

(* OnConnectionDrop or OnConnectFail ends a session. *)
LEMMA Loses ==
    ASSUME View = app, View' = app',
           NEW id \in SessionID, app[id] # NULL,
           InCallback = NULL \/ InCallback = <<"OnConnected", id, app[id]>>,
           app' = [app EXCEPT ![id] = NULL],
           InCallback' = <<IF app[id] \in Connectors THEN "OnConnectFail"
                           ELSE "OnConnectionDrop", id, app[id]>>
    PROVE  Protocol!Next
  <1> DEFINE name == IF app[id] \in Connectors THEN "OnConnectFail" ELSE "OnConnectionDrop"
  <1>1. Protocol!Lose(name, id)
    BY DEF Protocol!Lose, Protocol!Reports, View, InCallback
  <1> QED
    BY <1>1 DEF Protocol!Next

(* A callback returns. *)
LEMMA CallbackReturns ==
    ASSUME View = app, View' = app', UNCHANGED app, InCallback # NULL, InCallback' = NULL
    PROVE  Protocol!Next
  <1>1. Protocol!Return
    BY DEF Protocol!Return, View, InCallback
  <1> QED
    BY <1>1 DEF Protocol!Next

(* KickSession ends a session without a word. *)
LEMMA Kicks ==
    ASSUME View = app, View' = app', NEW id \in SessionID, app[id] # NULL,
           app' = [app EXCEPT ![id] = NULL], UNCHANGED InCallback
    PROVE  Protocol!Next
  <1>1. Protocol!Kick(id)
    BY DEF Protocol!Kick, View, InCallback
  <1> QED
    BY <1>1 DEF Protocol!Next

-----------------------------------------------------------------------------
(* The invariant. *)

(* Out of OnConnected, no connector is announced twice ... *)
LEMMA OnceKept ==
    ASSUME OnceInv, pc # "OnConnected",
           \A k \in Connectors : interest'[k] = "out" => interest[k] = "out",
           \A id \in SessionID : app'[id] = app[id] \/ app'[id] \notin Connectors
    PROVE  OnceInv'
  BY DEF OnceInv

(* ... and what announces nothing and watches nothing keeps the rest. *)
LEMMA RefInvKept ==
    ASSUME RefInv, UNCHANGED <<pc, cur, session_id, app, interest>>
    PROVE  RefInv'
  BY DEF RefInv, AnnounceInv, OnceInv

-----------------------------------------------------------------------------
(* The steps of the service. *)

(* A step that leaves the thread, the application and epoll's interest. *)
LEMMA ElsewhereMaps ==
    ASSUME TypeInv, SafeInv, RefInv, TypeInv', SafeInv',
           UNCHANGED <<pc, cur, session_id, app, interest>>
    PROVE  RefInv' /\ [Protocol!Next]_(Protocol!vars)
  BY ViewIsApp, Stutters, RefInvKept DEF InCallback

(* A step of ThreadProc between two places that are no callbacks. *)
LEMMA BetweenMaps ==
    ASSUME TypeInv, SafeInv, RefInv, TypeInv', SafeInv',
           pc \notin Callbacks \ {"OnUpdate"}, pc' \notin Callbacks \ {"OnUpdate"},
           UNCHANGED app,
           \A k \in Connectors : interest'[k] = "out" => interest[k] = "out"
    PROVE  RefInv' /\ [Protocol!Next]_(Protocol!vars)
  <1>1. UNCHANGED InCallback
    BY DEF InCallback
  <1>2. OnceInv'
    BY OnceKept DEF RefInv, Callbacks
  <1>3. AnnounceInv'
    BY DEF AnnounceInv, Callbacks
  <1> QED
    BY <1>1, <1>2, <1>3, ViewIsApp, Stutters DEF RefInv

(* Closing a descriptor takes it out of epoll. *)
LEMMA DiscardWatches ==
    ASSUME TypeInv, NEW S, Discard(S)
    PROVE  \A s \in TcpSession : interest'[s] = "out" => interest[s] = "out" /\ s \notin S
  BY DEF Discard

(* The loop over the batch, and the handlers that find nothing to report. *)
LEMMA LoopMaps ==
    ASSUME TypeInv, SafeInv, RefInv, TypeInv', SafeInv',
           \/ ReturnOnUpdate \/ EpollWait \/ EndOfBatch
           \/ \E e \in Event : DispatchListener(e)
           \/ \E s \in TcpSession : DispatchRead(s)
           \/ NothingToAccept \/ AcceptWithoutID \/ AcceptAddFails
           \/ NothingReceived \/ \E p \in Peers : RecvFromWithoutID(p)
    PROVE  RefInv' /\ [Protocol!Next]_(Protocol!vars)
  <1> USE SessionKinds
  <1>1. CASE ReturnOnUpdate
    BY <1>1, BetweenMaps DEF ReturnOnUpdate, Returns, kernelVars, Callbacks
  <1>2. CASE EpollWait
    BY <1>2, BetweenMaps DEF EpollWait, LoopHead, Callbacks
  <1>3. CASE EndOfBatch
    BY <1>3, BetweenMaps DEF EndOfBatch, LoopHead, kernelVars, Callbacks
  <1>4. CASE \E e \in Event : DispatchListener(e)
    BY <1>4, BetweenMaps DEF DispatchListener, kernelVars, Callbacks
  <1>5. CASE \E s \in TcpSession : DispatchRead(s)
    BY <1>5, BetweenMaps DEF DispatchRead, kernelVars, Callbacks
  <1>6. CASE NothingToAccept
    BY <1>6, BetweenMaps DEF NothingToAccept, ToDispatch, kernelVars, Callbacks
  <1>7. CASE AcceptWithoutID
    BY <1>7, BetweenMaps, DiscardWatches DEF AcceptWithoutID, ToDispatch, Callbacks
  <1>8. CASE AcceptAddFails
    BY <1>8, BetweenMaps, DiscardWatches DEF AcceptAddFails, ToDispatch, Callbacks
  <1>9. CASE NothingReceived
    BY <1>9, BetweenMaps DEF NothingReceived, ToDispatch, Callbacks
  <1>10. CASE \E p \in Peers : RecvFromWithoutID(p)
    BY <1>10, BetweenMaps DEF RecvFromWithoutID, Received, ToDispatch, Callbacks
  <1> QED
    BY <1>1, <1>2, <1>3, <1>4, <1>5, <1>6, <1>7, <1>8, <1>9, <1>10

(* The callbacks that only return. *)
LEMMA ReturnsMap ==
    ASSUME TypeInv, SafeInv, RefInv, TypeInv', SafeInv',
           \/ ReturnOnConnected \/ ReturnOnConnectFail \/ ReturnOnConnectionDrop
           \/ ReturnOnData \/ (ReturnOnAddConnection /\ cur \notin Peers)
    PROVE  RefInv' /\ [Protocol!Next]_(Protocol!vars)
  <1> USE SessionKinds
  <1>1. /\ pc \in Callbacks \ {"OnUpdate"} /\ pc' \notin Callbacks /\ UNCHANGED app
    BY DEF ReturnOnConnected, ReturnOnConnectFail, ReturnOnConnectionDrop, ReturnOnData,
           ReturnOnAddConnection, Returns, ToDispatch, Callbacks
  <1>2. InCallback # NULL /\ InCallback' = NULL
    BY <1>1, CallbackIsOne DEF InCallback
  <1>3. OnceInv'
    <2>1. CASE ReturnOnConnected
      <3>1. cur \in Connectors /\ interest'[cur] = "in"
            /\ \A k \in Connectors : k # cur => interest'[k] = interest[k]
        BY <2>1 DEF ReturnOnConnected, Returns, Watch, TypeInv, CurInv, TypeOK, KernelTypeOK
      <3> QED
        BY <1>1, <3>1 DEF RefInv, OnceInv
    <2>2. CASE ReturnOnConnectionDrop
      BY <2>2, OnceKept, DiscardWatches DEF ReturnOnConnectionDrop, Returns, RefInv
    <2>3. CASE ReturnOnConnectFail \/ ReturnOnData \/ ReturnOnAddConnection
      BY <2>3, OnceKept DEF ReturnOnConnectFail, ReturnOnData, ReturnOnAddConnection, Returns,
                            kernelVars, RefInv
    <2> QED
      BY <2>1, <2>2, <2>3
  <1>4. AnnounceInv'
    BY <1>1 DEF AnnounceInv, Callbacks
  <1> QED
    BY <1>1, <1>2, <1>3, <1>4, ViewIsApp, CallbackReturns DEF RefInv

(* What a session that is not live is not: known to the application. *)
LEMMA DeadIsUnknown ==
    ASSUME SafeInv, NEW s \in Session, heap[s] # "live"
    PROVE  \A id \in SessionID : app[id] # s
  <1> SUFFICES ASSUME NEW id \in SessionID, app[id] = s PROVE FALSE
    OBVIOUS
  <1> QED
    BY SessionKinds, KnownLives

(* accept() opens a session under the ID at the front of the queue. *)
LEMMA AcceptMaps ==
    ASSUME TypeInv, SafeInv, RefInv, TypeInv', SafeInv', Accept
    PROVE  RefInv' /\ [Protocol!Next]_(Protocol!vars)
  <1> DEFINE c == Head(backlog)
             id == NewSessionID
  <1> USE SessionKinds DEF TypeInv, TypeOK
  <1>1. c \in Accepted /\ heap[c] # "live"
    <2>1. backlog # <<>> /\ backlog \in Seq(Accepted)
      BY DEF Accept, KernelTypeOK
    <2>2. 1 \in DOMAIN backlog /\ c = backlog[1] /\ c \in Accepted
      BY <2>1
    <2> QED
      BY <2>2 DEF SafeInv, TableInv, BacklogInv
  <1>2. id \in SessionID /\ app[id] = NULL
    BY FreeIsClosed DEF Accept
  <1>3. \A i \in SessionID : app[i] # c
    BY <1>1, DeadIsUnknown
  <1>4. /\ pc = "PostAccept" /\ pc' = "OnAddConnection" /\ cur' = c /\ session_id' = id
        /\ app' = [app EXCEPT ![id] = c] /\ interest' = [interest EXCEPT ![c] = "in"]
    BY DEF Accept, CallBack, Watch
  <1>5. InCallback = NULL /\ InCallback' = <<"OnAddConnection", id, c>>
    BY <1>4 DEF InCallback, Callbacks
  <1>6. c \notin Connectors
    BY <1>1, SessionAssumption
  <1>7. Protocol!Next
    BY <1>1, <1>2, <1>3, <1>4, <1>5, <1>6, ViewIsApp, Opens
  <1>8. AnnounceInv'
    BY <1>1, <1>2, <1>4 DEF AnnounceInv, ThreadTypeOK
  <1>9. OnceInv'
    BY <1>4, <1>6, OnceKept DEF RefInv, ThreadTypeOK, KernelTypeOK
  <1> QED
    BY <1>7, <1>8, <1>9 DEF RefInv

(* A datagram of an unknown peer opens a session in the same way. *)
LEMMA RecvFromNewMaps ==
    ASSUME TypeInv, SafeInv, RefInv, TypeInv', SafeInv', NEW p \in Peers, RecvFromNew(p)
    PROVE  RefInv' /\ [Protocol!Next]_(Protocol!vars)
  <1> DEFINE id == NewSessionID
  <1> USE SessionKinds DEF TypeInv, TypeOK
  <1>1. heap[p] # "live"
    BY DEF RecvFromNew, GetUDPSessionID, SafeInv, TableInv, UdpMapExact
  <1>2. id \in SessionID /\ app[id] = NULL
    BY FreeIsClosed DEF RecvFromNew
  <1>3. \A i \in SessionID : app[i] # p
    BY <1>1, DeadIsUnknown
  <1>4. /\ pc = "PostReadFrom" /\ pc' = "OnAddConnection" /\ cur' = p /\ session_id' = id
        /\ app' = [app EXCEPT ![id] = p] /\ interest' = interest
    BY DEF RecvFromNew, Received, CallBack
  <1>5. InCallback = NULL /\ InCallback' = <<"OnAddConnection", id, p>>
    BY <1>4 DEF InCallback, Callbacks
  <1>6. p \notin Connectors
    OBVIOUS
  <1>7. Protocol!Next
    BY <1>2, <1>3, <1>4, <1>5, <1>6, ViewIsApp, Opens
  <1>8. AnnounceInv'
    BY <1>2, <1>4 DEF AnnounceInv, ThreadTypeOK
  <1>9. OnceInv'
    BY <1>4, <1>6, OnceKept DEF RefInv, ThreadTypeOK
  <1> QED
    BY <1>7, <1>8, <1>9 DEF RefInv

(* EPOLLOUT opens the session of a connector, under the ID that it holds:  *)
(* another session cannot hold it, and epoll watches the connector for     *)
(* EPOLLOUT until it has been announced.                                   *)
LEMMA DispatchConnectMaps ==
    ASSUME TypeInv, SafeInv, RefInv, TypeInv', SafeInv',
           NEW k \in Connectors, DispatchConnect(k)
    PROVE  RefInv' /\ [Protocol!Next]_(Protocol!vars)
  <1> DEFINE id == m_nSessionID[k]
  <1> USE SessionKinds DEF TypeInv, TypeOK
  <1>1. /\ pc = "dispatch" /\ pc' = "OnConnected" /\ cur' = k /\ session_id' = id
        /\ app' = [app EXCEPT ![id] = k] /\ interest' = interest
    BY DEF DispatchConnect, CallBack, kernelVars
  <1>2. interest[k] = "out"
    BY DEF DispatchConnect, SafeInv, ThreadInv, EventInv
  <1>3. k \in Holders
    <2>1. call.at = "none"
      BY <1>1 DEF SafeInv, ThreadInv, CallerInv
    <2>2. tcp[k] # "fresh"
      BY <1>2, <2>1 DEF SafeInv, TableInv, EpollInv
    <2> QED
      BY <2>2 DEF Holders, HoldsID
  <1>4. id \in SessionID
    BY <1>3 DEF SafeInv, TableInv, QueueInv
  <1>5. \A i \in SessionID : app[i] # k
    BY <1>1, <1>2 DEF RefInv, OnceInv
  <1>6. app[id] = NULL
    <2>1. app[id] = OpenSession(id)
      BY <1>4 DEF SafeInv, TableInv, ApplicationViewExact
    <2>2. ASSUME app[id] # NULL PROVE FALSE
      <3>1. m_Sessions[id] \in Session /\ app[id] = m_Sessions[id]
        BY <2>1, <2>2 DEF OpenSession
      <3>2. m_Sessions[id] \in Holders /\ m_nSessionID[m_Sessions[id]] = id
        BY <1>4, <3>1 DEF SafeInv, TableInv, SlotInv
      <3>3. m_Sessions[id] = k
        BY <1>3, <3>2 DEF SafeInv, TableInv, QueueInv
      <3> QED
        BY <1>4, <1>5, <3>1, <3>3
    <2> QED
      BY <2>2
  <1>7. InCallback = NULL /\ InCallback' = <<"OnConnected", id, k>>
    BY <1>1 DEF InCallback, Callbacks
  <1>8. Protocol!Next
    BY <1>1, <1>4, <1>5, <1>6, <1>7, ViewIsApp, Opens
  <1>9. AnnounceInv'
    BY <1>1, <1>4 DEF AnnounceInv, ThreadTypeOK
  <1>10. OnceInv'
    BY <1>1 DEF RefInv, OnceInv, ThreadTypeOK
  <1> QED
    BY <1>8, <1>9, <1>10 DEF RefInv

(* EPOLL_CTL_MOD fails: the session that was just announced is lost, under *)
(* the ID that it was announced with.                                      *)
LEMMA ModFailsMaps ==
    ASSUME TypeInv, SafeInv, RefInv, TypeInv', SafeInv', ModFails
    PROVE  RefInv' /\ [Protocol!Next]_(Protocol!vars)
  <1> DEFINE id == m_nSessionID[cur]
  <1> USE SessionKinds DEF TypeInv, TypeOK
  <1>1. /\ pc = "OnConnected" /\ pc' = "OnConnectFail" /\ cur' = cur /\ session_id' = id
        /\ app' = [app EXCEPT ![id] = NULL] /\ Discard({cur})
    BY DEF ModFails, Returns, CallBack
  <1>2. cur \in Connectors /\ session_id \in SessionID /\ app[session_id] = cur
    BY <1>1 DEF RefInv, AnnounceInv, CurInv
  <1>3. id = session_id
    BY <1>2, KnownLives
  <1>4. /\ InCallback = <<"OnConnected", id, app[id]>>
        /\ InCallback' = <<"OnConnectFail", id, app[id]>>
    BY <1>1, <1>2, <1>3 DEF InCallback, Callbacks
  <1>5. Protocol!Next
    BY <1>1, <1>2, <1>3, <1>4, ViewIsApp, Loses
  <1>6. AnnounceInv'
    BY <1>1 DEF AnnounceInv
  <1>7. OnceInv'
    BY <1>1, DiscardWatches DEF RefInv, OnceInv, ThreadTypeOK
  <1> QED
    BY <1>5, <1>6, <1>7 DEF RefInv

(* PostRead ends: the session it reads is the one open under its ID. *)
LEMMA ReadsKnown ==
    ASSUME TypeInv, SafeInv, pc = "PostRead"
    PROVE  cur \in TcpSession /\ m_nSessionID[cur] \in SessionID
           /\ app[m_nSessionID[cur]] = cur /\ InCallback = NULL
  <1>1. cur \in TcpSession /\ interest[cur] = "in"
    BY DEF TypeInv, CurInv, SafeInv, ThreadInv, HandlerInv
  <1>2. call = NoCall
    BY NoCallInProgress DEF SafeInv
  <1> QED
    BY <1>1, <1>2, WatchedIsKnown DEF InCallback, Callbacks

(* ... with data to report ... *)
LEMMA ReadEndsMaps ==
    ASSUME TypeInv, SafeInv, RefInv, TypeInv', SafeInv', ReadEnds
    PROVE  RefInv' /\ [Protocol!Next]_(Protocol!vars)
  <1> DEFINE id == m_nSessionID[cur]
  <1>1. /\ pc = "PostRead" /\ pc' = "OnData" /\ cur' = cur /\ session_id' = id
        /\ UNCHANGED <<app, interest>>
    BY DEF ReadEnds, CallBack, kernelVars
  <1>2. /\ cur \in TcpSession /\ id \in SessionID /\ app[id] = cur
        /\ InCallback = NULL
    BY <1>1, ReadsKnown
  <1>3. InCallback' = <<"OnData", id, app[id]>>
    BY <1>1, <1>2 DEF InCallback, Callbacks
  <1>4. app[id] # NULL
    BY <1>2, SessionKinds
  <1>5. Protocol!Next
    BY <1>1, <1>2, <1>3, <1>4, ViewIsApp, ReportsData
  <1> QED
    BY <1>1, <1>5, OnceKept DEF RefInv, AnnounceInv

(* ... or with an error, that ends the session. *)
LEMMA ReadFailsMaps ==
    ASSUME TypeInv, SafeInv, RefInv, TypeInv', SafeInv', ReadFails
    PROVE  RefInv' /\ [Protocol!Next]_(Protocol!vars)
  <1> DEFINE id == m_nSessionID[cur]
             name == IF cur \in Connectors THEN "OnConnectFail" ELSE "OnConnectionDrop"
  <1> USE SessionKinds DEF TypeInv, TypeOK
  <1>1. /\ pc = "PostRead" /\ pc' = name /\ cur' = cur /\ session_id' = id
        /\ app' = [app EXCEPT ![id] = NULL]
        /\ interest' = [interest EXCEPT ![cur] = "none"]
    BY DEF ReadFails, CallBack
  <1>2. /\ cur \in TcpSession /\ id \in SessionID /\ app[id] = cur
        /\ InCallback = NULL
    BY <1>1, ReadsKnown
  <1>3. InCallback' = <<name, id, app[id]>>
    BY <1>1, <1>2 DEF InCallback, Callbacks
  <1>4. app[id] # NULL
    BY <1>2
  <1>5. Protocol!Next
    BY <1>1, <1>2, <1>3, <1>4, ViewIsApp, Loses
  <1>6. OnceInv'
    BY <1>1, <1>2, OnceKept DEF RefInv, ThreadTypeOK, KernelTypeOK
  <1> QED
    BY <1>1, <1>5, <1>6 DEF RefInv, AnnounceInv

(* A datagram of a known peer is reported under the ID of its session. *)
LEMMA RecvFromKnownMaps ==
    ASSUME TypeInv, SafeInv, RefInv, TypeInv', SafeInv', NEW p \in Peers, RecvFromKnown(p)
    PROVE  RefInv' /\ [Protocol!Next]_(Protocol!vars)
  <1> DEFINE id == m_mapUDPSessions[p]
  <1> USE SessionKinds DEF TypeInv, TypeOK
  <1>1. /\ pc = "PostReadFrom" /\ pc' = "OnData" /\ cur' = p /\ session_id' = id
        /\ UNCHANGED <<app, interest>> /\ id # 0
    BY DEF RecvFromKnown, Received, CallBack, GetUDPSessionID
  <1>2. heap[p] = "live" /\ id = m_nSessionID[p]
    BY <1>1 DEF SafeInv, TableInv, UdpMapExact
  <1>3. m_Sessions[id] = p /\ p \in Holders
    BY <1>2 DEF SafeInv, TableInv, SlotInv, Holders, HoldsID
  <1>4. id \in SessionID
    BY <1>2, <1>3 DEF SafeInv, TableInv, QueueInv
  <1>5. app[id] = p
    <2>1. app[id] = OpenSession(id)
      BY <1>4 DEF SafeInv, TableInv, ApplicationViewExact
    <2> QED
      BY <1>3, <2>1 DEF OpenSession
  <1>6. InCallback = NULL /\ InCallback' = <<"OnData", id, app[id]>>
    BY <1>1, <1>5 DEF InCallback, Callbacks
  <1>7. Protocol!Next
    BY <1>1, <1>4, <1>5, <1>6, ViewIsApp, ReportsData
  <1> QED
    BY <1>1, <1>7, OnceKept DEF RefInv, AnnounceInv

(* The datagram that opened a session is reported after its announcement. *)
LEMMA ReturnToDataMaps ==
    ASSUME TypeInv, SafeInv, RefInv, TypeInv', SafeInv',
           ReturnOnAddConnection, cur \in Peers
    PROVE  RefInv' /\ [Protocol!Next]_(Protocol!vars)
  <1> USE SessionKinds
  <1>1. /\ pc = "OnAddConnection" /\ pc' = "OnData"
        /\ UNCHANGED <<cur, session_id, app, interest>>
    BY DEF ReturnOnAddConnection, Returns, kernelVars
  <1>2. session_id \in SessionID /\ app[session_id] = cur
    BY <1>1 DEF RefInv, AnnounceInv
  <1>3. /\ InCallback = <<"OnAddConnection", session_id, app[session_id]>>
        /\ InCallback' = <<"OnData", session_id, app[session_id]>>
    BY <1>1, <1>2 DEF InCallback, Callbacks
  <1>4. app[session_id] # NULL
    BY <1>2
  <1>5. Protocol!Next
    BY <1>1, <1>2, <1>3, <1>4, ViewIsApp, ReportsData
  <1> QED
    BY <1>1, <1>5, OnceKept DEF RefInv, AnnounceInv

(* A read() that returns data reports nothing yet. *)
LEMMA ReadSomeMaps ==
    ASSUME TypeInv, SafeInv, RefInv, TypeInv', SafeInv', ReadSome
    PROVE  RefInv' /\ [Protocol!Next]_(Protocol!vars)
  BY ElsewhereMaps DEF ReadSome

-----------------------------------------------------------------------------
(* The application and the network. *)

(* KickSession from OnUpdate ends a session that the application knows. *)
LEMMA AppKicksMaps ==
    ASSUME CallsFromOnUpdate, TypeInv, SafeInv, RefInv, TypeInv', SafeInv',
           NEW id \in SessionID, AppKicks(id)
    PROVE  RefInv' /\ [Protocol!Next]_(Protocol!vars)
  <1> USE SessionKinds DEF TypeInv, TypeOK
  <1>1. pc = "OnUpdate"
    <2>1. PICK at \in CallsFrom("KickSession") : TRUE
      BY DEF AppKicks
    <2> QED
      BY <2>1 DEF CallsFrom, CallsFromOnUpdate
  <1>2. /\ UNCHANGED <<pc, cur, session_id>> /\ app[id] # NULL
        /\ app' = [app EXCEPT ![id] = NULL] /\ Discard({m_Sessions[id]})
    BY DEF AppKicks, threadVars
  <1>3. UNCHANGED InCallback
    BY <1>2 DEF InCallback
  <1>4. Protocol!Next
    BY <1>2, <1>3, ViewIsApp, Kicks
  <1>5. OnceInv'
    BY <1>1, <1>2, OnceKept, DiscardWatches DEF RefInv, ThreadTypeOK
  <1> QED
    BY <1>1, <1>2, <1>4, <1>5 DEF RefInv, AnnounceInv

(* EPOLL_CTL_ADD of a connector that connect() was not called for, and that *)
(* the application therefore does not know.                                 *)
LEMMA CallAddsToEpollMaps ==
    ASSUME TypeInv, SafeInv, RefInv, TypeInv', SafeInv', CallAddsToEpoll
    PROVE  RefInv' /\ [Protocol!Next]_(Protocol!vars)
  <1> DEFINE k == call.connector
  <1> USE SessionKinds DEF TypeInv, TypeOK
  <1>1. pc = "OnUpdate" /\ k \in Connectors /\ tcp[k] = "fresh"
    BY DEF CallAddsToEpoll, CallInv, SafeInv, ThreadInv, CallerInv
  <1>2. /\ UNCHANGED <<pc, cur, session_id, app>>
        /\ interest' = [interest EXCEPT ![k] = "out"]
    BY DEF CallAddsToEpoll, Watch, threadVars
  <1>3. \A id \in SessionID : app[id] # k
    <2> SUFFICES ASSUME NEW id \in SessionID, app[id] = k PROVE FALSE
      OBVIOUS
    <2>1. OpenSession(id) = k
      BY DEF SafeInv, TableInv, ApplicationViewExact
    <2>2. m_Sessions[id] = k
      BY <1>1, <2>1 DEF OpenSession
    <2> QED
      BY <1>1, <2>2 DEF SafeInv, TableInv, SlotInv
  <1>4. OnceInv'
    BY <1>1, <1>2, <1>3 DEF RefInv, OnceInv, KernelTypeOK
  <1>5. AnnounceInv'
    BY <1>1, <1>2 DEF AnnounceInv
  <1>6. UNCHANGED InCallback
    BY <1>2 DEF InCallback
  <1> QED
    BY <1>2, <1>4, <1>5, <1>6, ViewIsApp, Stutters DEF RefInv

(* The other steps of a call, and the network's. *)
LEMMA OthersMap ==
    ASSUME TypeInv, SafeInv, RefInv, TypeInv', SafeInv',
           \/ \E k \in Connectors : AppConnects(k)
           \/ CallPops \/ CallAddFails \/ CallConnects \/ CallConnectFails
           \/ Network \/ UNCHANGED vars
    PROVE  RefInv' /\ [Protocol!Next]_(Protocol!vars)
  <1> USE DEF kernelVars, threadVars
  <1>1. CASE Network
    <2>1. UNCHANGED <<pc, cur, session_id, app, interest>>
      BY <1>1 DEF Network, ClientConnect, ServerAnswers, PeerSends, PeerCloses,
                  PeerResets, DatagramArrives
    <2> QED
      BY <2>1, ElsewhereMaps
  <1>2. CASE \/ \E k \in Connectors : AppConnects(k)
             \/ CallPops \/ CallAddFails \/ CallConnects \/ CallConnectFails
    <2>1. UNCHANGED <<pc, cur, session_id, app, interest>>
      BY <1>2 DEF AppConnects, CallPops, CallAddFails, CallFails, CallConnects,
                  CallConnectFails
    <2> QED
      BY <2>1, ElsewhereMaps
  <1>3. CASE UNCHANGED vars
    BY <1>3, ElsewhereMaps DEF vars
  <1> QED
    BY <1>1, <1>2, <1>3

-----------------------------------------------------------------------------
(* The refinement. *)

(* Nothing is open and no callback is in progress when the service starts. *)
LEMMA InitMaps == Init => RefInv /\ Protocol!Init
  <1> SUFFICES ASSUME Init PROVE RefInv /\ Protocol!Init
    OBVIOUS
  <1> USE SessionKinds
  <1>1. TypeInv /\ SafeInv
    BY InitTypeInv, InitSafe
  <1>2. \A id \in SessionID : OpenSession(id) = app[id] /\ app[id] = NULL
    BY <1>1 DEF Init, SafeInv, TableInv, ApplicationViewExact
  <1>3. Protocol!Init
    BY <1>2 DEF Protocol!Init, Init
  <1>4. RefInv
    BY <1>2 DEF RefInv, AnnounceInv, OnceInv, Init
  <1> QED
    BY <1>3, <1>4

(* Every step of the service is a step of the protocol, or not seen in it. *)
LEMMA NextMaps ==
    ASSUME CallsFromOnUpdate, TypeInv, SafeInv, RefInv, [Next]_vars
    PROVE  RefInv' /\ [Protocol!Next]_(Protocol!vars)
  <1> USE NextTypeInv, NextSafe
  <1>1. TypeInv' /\ SafeInv'
    OBVIOUS
  <1>2. CASE ThreadProc
    <2>1. CASE \E k \in Connectors : DispatchConnect(k)
      BY <1>1, <2>1, DispatchConnectMaps
    <2>2. CASE \E p \in Peers : RecvFromNew(p) \/ RecvFromKnown(p)
      BY <1>1, <2>2, RecvFromNewMaps, RecvFromKnownMaps
    <2>3. CASE Accept \/ ModFails
      BY <1>1, <2>3, AcceptMaps, ModFailsMaps
    <2>4. CASE ReadSome \/ ReadEnds \/ ReadFails
      BY <1>1, <2>4, ReadSomeMaps, ReadEndsMaps, ReadFailsMaps
    <2>5. CASE \/ ReturnOnConnected \/ ReturnOnConnectFail \/ ReturnOnConnectionDrop
               \/ ReturnOnData \/ ReturnOnAddConnection
      BY <1>1, <2>5, ReturnsMap, ReturnToDataMaps
    <2>6. CASE \/ ReturnOnUpdate \/ EpollWait \/ EndOfBatch
               \/ \E e \in Event : DispatchListener(e)
               \/ \E s \in TcpSession : DispatchRead(s)
               \/ NothingToAccept \/ AcceptWithoutID \/ AcceptAddFails
               \/ NothingReceived \/ \E p \in Peers : RecvFromWithoutID(p)
      BY <1>1, <2>6, LoopMaps
    <2> QED
      BY <1>2, <2>1, <2>2, <2>3, <2>4, <2>5, <2>6 DEF ThreadProc
  <1>3. CASE AddTCPConnector
    BY <1>1, <1>3, CallAddsToEpollMaps, OthersMap DEF AddTCPConnector
  <1>4. CASE Application
    <2>1. ~AppStops
      BY DEF AppStops, CallsFrom, CallsFromOnUpdate
    <2> QED
      BY <1>1, <1>4, <2>1, AppKicksMaps, OthersMap DEF Application
  <1>5. CASE Network \/ UNCHANGED vars
    BY <1>1, <1>5, OthersMap
  <1> QED
    BY <1>2, <1>3, <1>4, <1>5 DEF Next

(***************************************************************************)
(* The epoll back end keeps the promises of NetEventCallBack: callbacks    *)
(* come one at a time, no ID is given to two open sessions, data is        *)
(* reported of the session that was announced under the ID, the end of a   *)
(* session is reported once, and nothing is reported of a kicked one.      *)
(***************************************************************************)
THEOREM KeepsProtocol == CallsFromOnUpdate => (Spec => ImplementsProtocol)
  <1> SUFFICES ASSUME CallsFromOnUpdate PROVE Spec => ImplementsProtocol
    OBVIOUS
  <1>1. Init => TypeInv /\ SafeInv /\ RefInv /\ Protocol!Init
    BY InitTypeInv, InitSafe, InitMaps
  <1>2. TypeInv /\ SafeInv /\ RefInv /\ [Next]_vars
        => TypeInv' /\ SafeInv' /\ RefInv' /\ [Protocol!Next]_(Protocol!vars)
    BY NextTypeInv, NextSafe, NextMaps
  <1> QED
    BY <1>1, <1>2, PTL DEF Spec, ImplementsProtocol, Protocol!Spec

=============================================================================
