--------------------------- MODULE NetServiceProofs ---------------------------
(***************************************************************************)
(* Theorems of NetServiceEpoll, for every number of IDs, connections,      *)
(* connectors and peers, every application and every set of failing calls. *)
(***************************************************************************)
EXTENDS NetServiceEpoll, SessionProofs, TLAPS

(* What the call in progress holds. *)
CallInv ==
    call.at # "none" => call.connector \in Connectors /\ call.id \in SessionID

(* What the handler in progress works on. *)
CurInv ==
    /\ pc = "PostRead" => cur \in TcpSession
    /\ pc = "OnConnected" => cur \in Connectors
    /\ pc = "OnConnectionDrop" => cur \in Accepted

(* A session has its ID before epoll or a handler can lead to it. *)
IdInv ==
    /\ \A s \in TcpSession :
          \/ interest[s] # "none"
          \/ cur = s
          \/ \E op \in {"IO_CONNECT", "IO_READ"} : <<s, op>> \in m_Events
          => m_nSessionID[s] \in SessionID
    /\ call.at \in {"ctl", "connect"} => m_nSessionID[call.connector] \in SessionID

TypeInv == TypeOK /\ CallInv /\ CurInv /\ IdInv

-----------------------------------------------------------------------------
(* The initial state has the types, and nothing is in progress in it. *)
LEMMA InitTypeInv == Init => TypeInv
  <1> SUFFICES ASSUME Init PROVE TypeInv
    OBVIOUS
  <1> USE SessionKinds, MaxAssumption, ServiceAssumption
  <1>1. SessionTypeOK
    BY SessionAssumption DEF Init, InitSession, SessionTypeOK, SessionID, SockState, FaultState
  <1>2. KernelTypeOK
    BY DEF Init, KernelTypeOK, TcpState
  <1>3. ThreadTypeOK
    BY DEF Init, ThreadTypeOK, Call, NoCall, Place, Callbacks
  <1>4. CallInv /\ CurInv /\ IdInv
    BY SessionAssumption DEF Init, InitSession, CallInv, CurInv, IdInv, NoCall
  <1> QED
    BY <1>1, <1>2, <1>3, <1>4 DEF TypeInv, TypeOK

-----------------------------------------------------------------------------
(* What a step leaves alone keeps its types. *)
LEMMA Unchanged ==
    /\ SessionTypeOK /\ UNCHANGED sessionVars => SessionTypeOK'
    /\ KernelTypeOK /\ UNCHANGED kernelVars => KernelTypeOK'
    /\ ThreadTypeOK /\ UNCHANGED <<threadVars, call, app>> => ThreadTypeOK'
    /\ CallInv /\ UNCHANGED call => CallInv'
  BY DEF SessionTypeOK, KernelTypeOK, ThreadTypeOK, CallInv,
         sessionVars, kernelVars, threadVars

(* The fragments that handlers are composed of keep their variables' types. *)

(* accept() answers a connection, and leaves a queue of them. *)
LEMMA BacklogType ==
    ASSUME KernelTypeOK, backlog # <<>>
    PROVE  Head(backlog) \in Accepted /\ Tail(backlog) \in Seq(Accepted)
  BY DEF KernelTypeOK

(* recvfrom() answers a datagram, and leaves a queue of them. *)
LEMMA DatagramType ==
    ASSUME KernelTypeOK, dgrams # <<>>
    PROVE  /\ Head(dgrams)[2] \in Nat /\ Tail(dgrams) \in Seq(Peers \X {0, 1})
  <1>1. Head(dgrams) \in Peers \X {0, 1} /\ Tail(dgrams) \in Seq(Peers \X {0, 1})
    BY DEF KernelTypeOK
  <1> QED
    BY <1>1

(* Closing descriptors keeps the types, and epoll watches no more than it did. *)
LEMMA DiscardType ==
    ASSUME KernelTypeOK, NEW S, Discard(S)
    PROVE  /\ tcp' \in [TcpSession -> TcpState]
           /\ rx' \in [TcpSession -> 0..MaxRx]
           /\ interest' \in [TcpSession -> {"none", "out", "in"}]
           /\ ready' \subseteq Fd
           /\ \A s \in TcpSession : interest'[s] # "none" => interest[s] # "none"
  BY ServiceAssumption DEF KernelTypeOK, Discard, TcpState

(* EPOLL_CTL_ADD and EPOLL_CTL_MOD keep the types, and add one session at most. *)
LEMMA WatchType ==
    ASSUME KernelTypeOK, NEW s \in TcpSession, NEW watch \in {"out", "in"}, Watch(s, watch)
    PROVE  /\ interest' \in [TcpSession -> {"none", "out", "in"}]
           /\ ready' \subseteq Fd
           /\ \A t \in TcpSession : interest'[t] # "none" => interest[t] # "none" \/ t = s
  BY DEF KernelTypeOK, Watch, Fd

-----------------------------------------------------------------------------
(* One step of Next, whichever action it is, preserves TypeInv. *)
LEMMA NextTypeInv == TypeInv /\ [Next]_vars => TypeInv'
  <1> SUFFICES ASSUME TypeInv, [Next]_vars PROVE TypeInv'
    OBVIOUS
  <1> USE SessionKinds DEF TypeInv, TypeOK
  <1>1. ASSUME ReturnOnUpdate PROVE TypeInv'
    <2>1. SessionTypeOK'
      BY <1>1, Unchanged DEF ReturnOnUpdate
    <2>2. KernelTypeOK'
      BY <1>1, Unchanged DEF ReturnOnUpdate
    <2>3. ThreadTypeOK'
      BY <1>1 DEF ReturnOnUpdate, ThreadTypeOK, Place, Callbacks
    <2>4. CallInv'
      BY <1>1, Unchanged DEF ReturnOnUpdate
    <2>5. CurInv'
      BY <1>1 DEF ReturnOnUpdate, CurInv, Callbacks
    <2>6. IdInv'
      BY <1>1 DEF ReturnOnUpdate, IdInv, sessionVars, kernelVars, threadVars
    <2> QED
      BY <2>1, <2>2, <2>3, <2>4, <2>5, <2>6
  <1>2. ASSUME EpollWait PROVE TypeInv'
    <2>1. SessionTypeOK'
      BY <1>2, Unchanged DEF EpollWait
    <2>2. KernelTypeOK'
      BY <1>2 DEF EpollWait, KernelTypeOK
    <2>3. ThreadTypeOK'
      BY <1>2 DEF EpollWait, ThreadTypeOK, Place, Callbacks, Reported, Event, Fd,
         OperType, LoopHead
    <2>4. CallInv'
      BY <1>2, Unchanged DEF EpollWait
    <2>5. CurInv'
      BY <1>2 DEF EpollWait, CurInv, LoopHead
    <2>6. IdInv'
      <3>1. \A s \in TcpSession, op \in {"IO_CONNECT", "IO_READ"} :
                <<s, op>> \in Reported => interest[s] # "none"
        BY DEF Reported, Polls
      <3> QED
        BY <1>2, <3>1 DEF EpollWait, IdInv, sessionVars
    <2> QED
      BY <2>1, <2>2, <2>3, <2>4, <2>5, <2>6
  <1>3. ASSUME EndOfBatch PROVE TypeInv'
    <2>1. SessionTypeOK'
      BY <1>3, Unchanged DEF EndOfBatch
    <2>2. KernelTypeOK'
      BY <1>3, Unchanged DEF EndOfBatch
    <2>3. ThreadTypeOK'
      BY <1>3 DEF EndOfBatch, LoopHead, ThreadTypeOK, Place, Callbacks
    <2>4. CallInv'
      BY <1>3, Unchanged DEF EndOfBatch
    <2>5. CurInv'
      BY <1>3 DEF EndOfBatch, LoopHead, CurInv, Callbacks
    <2>6. IdInv'
      BY <1>3 DEF EndOfBatch, LoopHead, IdInv, sessionVars, kernelVars, threadVars
    <2> QED
      BY <2>1, <2>2, <2>3, <2>4, <2>5, <2>6
  <1>4. ASSUME NEW e \in Event, DispatchListener(e) PROVE TypeInv'
    <2>1. SessionTypeOK'
      BY <1>4, Unchanged DEF DispatchListener
    <2>2. KernelTypeOK'
      BY <1>4, Unchanged DEF DispatchListener
    <2>3. ThreadTypeOK'
      BY <1>4 DEF DispatchListener, ThreadTypeOK, Place, Callbacks
    <2>4. CallInv'
      BY <1>4, Unchanged DEF DispatchListener
    <2>5. CurInv'
      BY <1>4 DEF DispatchListener, CurInv, Callbacks
    <2>6. IdInv'
      BY <1>4 DEF DispatchListener, IdInv, sessionVars, kernelVars, threadVars
    <2> QED
      BY <2>1, <2>2, <2>3, <2>4, <2>5, <2>6
  <1>5. ASSUME NEW s \in TcpSession, DispatchRead(s) PROVE TypeInv'
    <2>1. SessionTypeOK'
      BY <1>5 DEF DispatchRead, SessionTypeOK, Deref, FaultState
    <2>2. KernelTypeOK'
      BY <1>5, Unchanged DEF DispatchRead
    <2>3. ThreadTypeOK'
      BY <1>5 DEF DispatchRead, ThreadTypeOK, Place, Callbacks
    <2>4. CallInv'
      BY <1>5, Unchanged DEF DispatchRead
    <2>5. CurInv'
      BY <1>5 DEF DispatchRead, CurInv
    <2>6. IdInv'
      BY <1>5 DEF DispatchRead, IdInv, kernelVars
    <2> QED
      BY <2>1, <2>2, <2>3, <2>4, <2>5, <2>6
  <1>6. ASSUME NEW k \in Connectors, DispatchConnect(k) PROVE TypeInv'
    <2>1. SessionTypeOK'
      BY <1>6, AddSessionType DEF DispatchConnect, SessionTypeOK, IdInv
    <2>2. KernelTypeOK'
      BY <1>6, Unchanged DEF DispatchConnect
    <2>3. ThreadTypeOK'
      BY <1>6 DEF DispatchConnect, CallBack, ThreadTypeOK, Place, Callbacks, IdInv,
         SessionTypeOK
    <2>4. CallInv'
      BY <1>6, Unchanged DEF DispatchConnect
    <2>5. CurInv'
      BY <1>6 DEF DispatchConnect, CallBack, CurInv
    <2>6. IdInv'
      BY <1>6 DEF DispatchConnect, CallBack, IdInv, kernelVars
    <2> QED
      BY <2>1, <2>2, <2>3, <2>4, <2>5, <2>6
  <1>7. ASSUME ReturnOnConnected PROVE TypeInv'
    <2>1. SessionTypeOK'
      BY <1>7, Unchanged DEF ReturnOnConnected
    <2>2. KernelTypeOK'
      BY <1>7, WatchType DEF ReturnOnConnected, Returns, CurInv, KernelTypeOK
    <2>3. ThreadTypeOK'
      BY <1>7 DEF ReturnOnConnected, ToDispatch, ThreadTypeOK, Place, Callbacks
    <2>4. CallInv'
      BY <1>7, Unchanged DEF ReturnOnConnected
    <2>5. CurInv'
      BY <1>7 DEF ReturnOnConnected, ToDispatch, CurInv
    <2>6. IdInv'
      BY <1>7, WatchType DEF ReturnOnConnected, Returns, CurInv, ToDispatch, IdInv,
         sessionVars
    <2> QED
      BY <2>1, <2>2, <2>3, <2>4, <2>5, <2>6
  <1>8. ASSUME ModFails PROVE TypeInv'
    <2>1. SessionTypeOK'
      BY <1>8 DEF ModFails, SessionTypeOK, FaultState, SockState
    <2>2. KernelTypeOK'
      BY <1>8, DiscardType DEF ModFails, KernelTypeOK
    <2>3. ThreadTypeOK'
      BY <1>8 DEF ModFails, CallBack, ThreadTypeOK, Place, Callbacks, SessionTypeOK,
         Returns, CurInv
    <2>4. CallInv'
      BY <1>8, Unchanged DEF ModFails
    <2>5. CurInv'
      BY <1>8 DEF ModFails, CallBack, CurInv
    <2>6. IdInv'
      BY <1>8, DiscardType DEF ModFails, CallBack, IdInv
    <2> QED
      BY <2>1, <2>2, <2>3, <2>4, <2>5, <2>6
  <1>9. ASSUME ReturnOnConnectFail PROVE TypeInv'
    <2>1. SessionTypeOK'
      BY <1>9, Unchanged DEF ReturnOnConnectFail
    <2>2. KernelTypeOK'
      BY <1>9, Unchanged DEF ReturnOnConnectFail
    <2>3. ThreadTypeOK'
      BY <1>9 DEF ReturnOnConnectFail, ToDispatch, ThreadTypeOK, Place, Callbacks
    <2>4. CallInv'
      BY <1>9, Unchanged DEF ReturnOnConnectFail
    <2>5. CurInv'
      BY <1>9 DEF ReturnOnConnectFail, ToDispatch, CurInv, Callbacks
    <2>6. IdInv'
      BY <1>9 DEF ReturnOnConnectFail, ToDispatch, IdInv, sessionVars, kernelVars,
         threadVars
    <2> QED
      BY <2>1, <2>2, <2>3, <2>4, <2>5, <2>6
  <1>10. ASSUME NothingToAccept PROVE TypeInv'
    <2>1. SessionTypeOK'
      BY <1>10, Unchanged DEF NothingToAccept
    <2>2. KernelTypeOK'
      BY <1>10, Unchanged DEF NothingToAccept
    <2>3. ThreadTypeOK'
      BY <1>10 DEF NothingToAccept, ToDispatch, ThreadTypeOK, Place, Callbacks
    <2>4. CallInv'
      BY <1>10, Unchanged DEF NothingToAccept
    <2>5. CurInv'
      BY <1>10 DEF NothingToAccept, ToDispatch, CurInv, Callbacks
    <2>6. IdInv'
      BY <1>10 DEF NothingToAccept, ToDispatch, IdInv, sessionVars, kernelVars,
         threadVars
    <2> QED
      BY <2>1, <2>2, <2>3, <2>4, <2>5, <2>6
  <1>11. ASSUME AcceptWithoutID PROVE TypeInv'
    <2>1. SessionTypeOK'
      BY <1>11 DEF AcceptWithoutID, SessionTypeOK, SockState
    <2>2. KernelTypeOK'
      BY <1>11, DiscardType DEF AcceptWithoutID, KernelTypeOK
    <2>3. ThreadTypeOK'
      BY <1>11 DEF AcceptWithoutID, ToDispatch, ThreadTypeOK, Place, Callbacks
    <2>4. CallInv'
      BY <1>11, Unchanged DEF AcceptWithoutID
    <2>5. CurInv'
      BY <1>11 DEF AcceptWithoutID, ToDispatch, CurInv
    <2>6. IdInv'
      BY <1>11, DiscardType DEF AcceptWithoutID, ToDispatch, IdInv
    <2> QED
      BY <2>1, <2>2, <2>3, <2>4, <2>5, <2>6
  <1>12. ASSUME Accept PROVE TypeInv'
    <2>1. SessionTypeOK'
      BY <1>12, AddSessionType, QueueType, BacklogType DEF Accept, SessionTypeOK,
         SockState
    <2>2. KernelTypeOK'
      BY <1>12, WatchType, BacklogType DEF Accept, KernelTypeOK
    <2>3. ThreadTypeOK'
      BY <1>12, QueueType, BacklogType DEF Accept, CallBack, ThreadTypeOK, Place,
         Callbacks
    <2>4. CallInv'
      BY <1>12, Unchanged DEF Accept
    <2>5. CurInv'
      BY <1>12 DEF Accept, CallBack, CurInv
    <2>6. IdInv'
      <3>1. NewSessionID \in SessionID
        BY <1>12, QueueType DEF Accept
      <3> QED
        BY <1>12, <3>1, WatchType DEF Accept, CallBack, IdInv, SessionTypeOK, KernelTypeOK,
           CallInv
    <2> QED
      BY <2>1, <2>2, <2>3, <2>4, <2>5, <2>6
  <1>13. ASSUME AcceptAddFails PROVE TypeInv'
    <2>1. SessionTypeOK'
      <3>1. m_queSessionID' \in Seq(SessionID)
        BY <1>13, QueueType DEF AcceptAddFails, FreeSessionID
      <3> QED
        BY <1>13, <3>1, QueueType, BacklogType DEF AcceptAddFails, SessionTypeOK, SockState
    <2>2. KernelTypeOK'
      BY <1>13, DiscardType DEF AcceptAddFails, KernelTypeOK
    <2>3. ThreadTypeOK'
      BY <1>13 DEF AcceptAddFails, ToDispatch, ThreadTypeOK, Place, Callbacks
    <2>4. CallInv'
      BY <1>13, Unchanged DEF AcceptAddFails
    <2>5. CurInv'
      BY <1>13 DEF AcceptAddFails, ToDispatch, CurInv
    <2>6. IdInv'
      BY <1>13, DiscardType, QueueType DEF AcceptAddFails, ToDispatch, IdInv,
         SessionTypeOK, KernelTypeOK, CallInv
    <2> QED
      BY <2>1, <2>2, <2>3, <2>4, <2>5, <2>6
  <1>14. ASSUME ReturnOnAddConnection PROVE TypeInv'
    <2>1. SessionTypeOK'
      BY <1>14, Unchanged DEF ReturnOnAddConnection
    <2>2. KernelTypeOK'
      BY <1>14, Unchanged DEF ReturnOnAddConnection
    <2>3. ThreadTypeOK'
      BY <1>14 DEF ReturnOnAddConnection, ThreadTypeOK, Place, Callbacks
    <2>4. CallInv'
      BY <1>14, Unchanged DEF ReturnOnAddConnection
    <2>5. CurInv'
      BY <1>14 DEF ReturnOnAddConnection, CurInv, Callbacks
    <2>6. IdInv'
      BY <1>14 DEF ReturnOnAddConnection, IdInv, sessionVars, kernelVars, threadVars
    <2> QED
      BY <2>1, <2>2, <2>3, <2>4, <2>5, <2>6
  <1>15. ASSUME ReadSome PROVE TypeInv'
    <2>1. SessionTypeOK'
      BY <1>15 DEF ReadSome, SessionTypeOK, Deref, FaultState
    <2>2. KernelTypeOK'
      BY <1>15, ServiceAssumption DEF ReadSome, KernelTypeOK, CurInv
    <2>3. ThreadTypeOK'
      BY <1>15, ServiceAssumption DEF ReadSome, ThreadTypeOK, Place, Callbacks,
         KernelTypeOK, CurInv
    <2>4. CallInv'
      BY <1>15, Unchanged DEF ReadSome
    <2>5. CurInv'
      BY <1>15 DEF ReadSome, CurInv
    <2>6. IdInv'
      BY <1>15 DEF ReadSome, IdInv
    <2> QED
      BY <2>1, <2>2, <2>3, <2>4, <2>5, <2>6
  <1>16. ASSUME ReadEnds PROVE TypeInv'
    <2>1. SessionTypeOK'
      BY <1>16 DEF ReadEnds, SessionTypeOK, Deref, FaultState
    <2>2. KernelTypeOK'
      BY <1>16, Unchanged DEF ReadEnds
    <2>3. ThreadTypeOK'
      BY <1>16 DEF ReadEnds, CallBack, ThreadTypeOK, Place, Callbacks, SessionTypeOK,
         CurInv
    <2>4. CallInv'
      BY <1>16, Unchanged DEF ReadEnds
    <2>5. CurInv'
      BY <1>16 DEF ReadEnds, CallBack, CurInv
    <2>6. IdInv'
      BY <1>16 DEF ReadEnds, CallBack, IdInv, kernelVars
    <2> QED
      BY <2>1, <2>2, <2>3, <2>4, <2>5, <2>6
  <1>17. ASSUME ReadFails PROVE TypeInv'
    <2>1. SessionTypeOK'
      BY <1>17 DEF ReadFails, SessionTypeOK, Deref, FaultState
    <2>2. KernelTypeOK'
      BY <1>17 DEF ReadFails, KernelTypeOK
    <2>3. ThreadTypeOK'
      BY <1>17 DEF ReadFails, CallBack, ThreadTypeOK, Place, Callbacks,
         SessionTypeOK, CurInv
    <2>4. CallInv'
      BY <1>17, Unchanged DEF ReadFails
    <2>5. CurInv'
      BY <1>17 DEF ReadFails, CallBack, CurInv, TcpSession
    <2>6. IdInv'
      BY <1>17 DEF ReadFails, CallBack, IdInv, KernelTypeOK
    <2> QED
      BY <2>1, <2>2, <2>3, <2>4, <2>5, <2>6
  <1>18. ASSUME ReturnOnConnectionDrop PROVE TypeInv'
    <2>1. SessionTypeOK'
      BY <1>18, DelSessionType DEF ReturnOnConnectionDrop, Returns, CurInv, IdInv
    <2>2. KernelTypeOK'
      BY <1>18, DiscardType DEF ReturnOnConnectionDrop, KernelTypeOK
    <2>3. ThreadTypeOK'
      BY <1>18 DEF ReturnOnConnectionDrop, ToDispatch, ThreadTypeOK, Place, Callbacks
    <2>4. CallInv'
      BY <1>18, Unchanged DEF ReturnOnConnectionDrop
    <2>5. CurInv'
      BY <1>18 DEF ReturnOnConnectionDrop, ToDispatch, CurInv
    <2>6. IdInv'
      BY <1>18, DiscardType DEF ReturnOnConnectionDrop, DelSession, ToDispatch, IdInv
    <2> QED
      BY <2>1, <2>2, <2>3, <2>4, <2>5, <2>6
  <1>19. ASSUME ReturnOnData PROVE TypeInv'
    <2>1. SessionTypeOK'
      BY <1>19, Unchanged DEF ReturnOnData
    <2>2. KernelTypeOK'
      BY <1>19, Unchanged DEF ReturnOnData
    <2>3. ThreadTypeOK'
      BY <1>19 DEF ReturnOnData, ToDispatch, ThreadTypeOK, Place, Callbacks
    <2>4. CallInv'
      BY <1>19, Unchanged DEF ReturnOnData
    <2>5. CurInv'
      BY <1>19 DEF ReturnOnData, ToDispatch, CurInv, Callbacks
    <2>6. IdInv'
      BY <1>19 DEF ReturnOnData, ToDispatch, IdInv, sessionVars, kernelVars,
         threadVars
    <2> QED
      BY <2>1, <2>2, <2>3, <2>4, <2>5, <2>6
  <1>20. ASSUME NothingReceived PROVE TypeInv'
    <2>1. SessionTypeOK'
      BY <1>20, Unchanged DEF NothingReceived
    <2>2. KernelTypeOK'
      <3>1. dgrams' = dgrams \/ (dgrams # <<>> /\ dgrams' = Tail(dgrams))
        BY <1>20 DEF NothingReceived
      <3>2. dgrams' \in Seq(Peers \X {0, 1})
        BY <3>1, DatagramType DEF KernelTypeOK
      <3>3. UNCHANGED <<tcp, rx, backlog, interest, ready>>
        BY <1>20 DEF NothingReceived
      <3> QED
        BY <3>2, <3>3 DEF KernelTypeOK
    <2>3. ThreadTypeOK'
      BY <1>20 DEF NothingReceived, ToDispatch, ThreadTypeOK, Place, Callbacks
    <2>4. CallInv'
      BY <1>20, Unchanged DEF NothingReceived
    <2>5. CurInv'
      BY <1>20 DEF NothingReceived, ToDispatch, CurInv
    <2>6. IdInv'
      BY <1>20 DEF NothingReceived, ToDispatch, IdInv, sessionVars
    <2> QED
      BY <2>1, <2>2, <2>3, <2>4, <2>5, <2>6
  <1>21. ASSUME NEW p \in Peers, RecvFromKnown(p) PROVE TypeInv'
    <2>1. SessionTypeOK'
      BY <1>21, Unchanged DEF RecvFromKnown
    <2>2. KernelTypeOK'
      BY <1>21 DEF RecvFromKnown, Received, KernelTypeOK
    <2>3. ThreadTypeOK'
      BY <1>21, DatagramType DEF RecvFromKnown, Received, CallBack, GetUDPSessionID,
         SessionTypeOK, ThreadTypeOK, Place, Callbacks
    <2>4. CallInv'
      BY <1>21, Unchanged DEF RecvFromKnown
    <2>5. CurInv'
      BY <1>21 DEF RecvFromKnown, CallBack, CurInv
    <2>6. IdInv'
      BY <1>21 DEF RecvFromKnown, Received, CallBack, IdInv, sessionVars
    <2> QED
      BY <2>1, <2>2, <2>3, <2>4, <2>5, <2>6
  <1>22. ASSUME NEW p \in Peers, RecvFromWithoutID(p) PROVE TypeInv'
    <2>1. SessionTypeOK'
      BY <1>22, Unchanged DEF RecvFromWithoutID
    <2>2. KernelTypeOK'
      BY <1>22 DEF RecvFromWithoutID, Received, KernelTypeOK
    <2>3. ThreadTypeOK'
      BY <1>22 DEF RecvFromWithoutID, ToDispatch, ThreadTypeOK, Place, Callbacks
    <2>4. CallInv'
      BY <1>22, Unchanged DEF RecvFromWithoutID
    <2>5. CurInv'
      BY <1>22 DEF RecvFromWithoutID, ToDispatch, CurInv
    <2>6. IdInv'
      BY <1>22 DEF RecvFromWithoutID, Received, ToDispatch, IdInv, sessionVars
    <2> QED
      BY <2>1, <2>2, <2>3, <2>4, <2>5, <2>6
  <1>23. ASSUME NEW p \in Peers, RecvFromNew(p) PROVE TypeInv'
    <2>1. SessionTypeOK'
      BY <1>23, QueueType, AddSessionType DEF RecvFromNew, SessionTypeOK
    <2>2. KernelTypeOK'
      BY <1>23 DEF RecvFromNew, Received, KernelTypeOK
    <2>3. ThreadTypeOK'
      BY <1>23, QueueType, DatagramType DEF RecvFromNew, Received, CallBack,
         ThreadTypeOK, Place, Callbacks
    <2>4. CallInv'
      BY <1>23, Unchanged DEF RecvFromNew
    <2>5. CurInv'
      BY <1>23 DEF RecvFromNew, CallBack, CurInv
    <2>6. IdInv'
      BY <1>23, QueueType DEF RecvFromNew, Received, CallBack, IdInv, SessionTypeOK,
         CallInv
    <2> QED
      BY <2>1, <2>2, <2>3, <2>4, <2>5, <2>6
  <1>24. ASSUME CallPops PROVE TypeInv'
    <2>1. SessionTypeOK'
      <3>1. m_queSessionID' \in Seq(SessionID)
        <4>1. CASE m_queSessionID = <<>>
          BY <1>24, <4>1 DEF CallPops
        <4>2. CASE m_queSessionID # <<>>
          BY <1>24, <4>2 DEF CallPops, PopSessionID, SessionTypeOK
        <4> QED
          BY <4>1, <4>2
      <3>2. fault' \in FaultState
        BY <1>24 DEF CallPops, SessionTypeOK, FaultState
      <3> QED
        BY <1>24, <3>1, <3>2 DEF CallPops, SessionTypeOK, CallInv
    <2>2. KernelTypeOK'
      BY <1>24, Unchanged DEF CallPops
    <2>3. ThreadTypeOK'
      BY <1>24 DEF CallPops, Call, ThreadTypeOK, threadVars, CallInv
    <2>4. CallInv'
      BY <1>24 DEF CallPops, CallInv
    <2>5. CurInv'
      BY <1>24 DEF CallPops, CurInv, threadVars
    <2>6. IdInv'
      BY <1>24 DEF CallPops, CallInv, IdInv, kernelVars, threadVars, SessionTypeOK
    <2> QED
      BY <2>1, <2>2, <2>3, <2>4, <2>5, <2>6
  <1>25. ASSUME CallAddsToEpoll PROVE TypeInv'
    <2>1. SessionTypeOK'
      BY <1>25, Unchanged DEF CallAddsToEpoll
    <2>2. KernelTypeOK'
      BY <1>25, WatchType DEF CallAddsToEpoll, CallInv, KernelTypeOK
    <2>3. ThreadTypeOK'
      BY <1>25 DEF CallAddsToEpoll, Call, ThreadTypeOK, threadVars, CallInv
    <2>4. CallInv'
      BY <1>25 DEF CallAddsToEpoll, CallInv
    <2>5. CurInv'
      BY <1>25 DEF CallAddsToEpoll, CurInv, threadVars
    <2>6. IdInv'
      BY <1>25, WatchType DEF CallAddsToEpoll, CallInv, IdInv, sessionVars,
         threadVars
    <2> QED
      BY <2>1, <2>2, <2>3, <2>4, <2>5, <2>6
  <1>26. ASSUME CallAddFails PROVE TypeInv'
    <2>1. SessionTypeOK'
      BY <1>26 DEF CallAddFails, CallFails, FreeSessionID, SessionTypeOK, CallInv
    <2>2. KernelTypeOK'
      BY <1>26, Unchanged DEF CallAddFails, CallFails
    <2>3. ThreadTypeOK'
      BY <1>26 DEF CallAddFails, CallFails, NoCall, Call, ThreadTypeOK, threadVars
    <2>4. CallInv'
      BY <1>26 DEF CallAddFails, CallFails, NoCall, CallInv
    <2>5. CurInv'
      BY <1>26 DEF CallAddFails, CallFails, CurInv, threadVars
    <2>6. IdInv'
      BY <1>26 DEF CallAddFails, CallFails, NoCall, IdInv, kernelVars, threadVars
    <2> QED
      BY <2>1, <2>2, <2>3, <2>4, <2>5, <2>6
  <1>27. ASSUME CallConnectFails PROVE TypeInv'
    <2>1. SessionTypeOK'
      BY <1>27 DEF CallConnectFails, CallFails, FreeSessionID, SessionTypeOK, CallInv
    <2>2. KernelTypeOK'
      BY <1>27, Unchanged DEF CallConnectFails, CallFails
    <2>3. ThreadTypeOK'
      BY <1>27 DEF CallConnectFails, CallFails, NoCall, Call, ThreadTypeOK,
         threadVars
    <2>4. CallInv'
      BY <1>27 DEF CallConnectFails, CallFails, NoCall, CallInv
    <2>5. CurInv'
      BY <1>27 DEF CallConnectFails, CallFails, CurInv, threadVars
    <2>6. IdInv'
      BY <1>27 DEF CallConnectFails, CallFails, NoCall, IdInv, kernelVars, threadVars
    <2> QED
      BY <2>1, <2>2, <2>3, <2>4, <2>5, <2>6
  <1>28. ASSUME CallConnects PROVE TypeInv'
    <2>1. SessionTypeOK'
      BY <1>28, Unchanged DEF CallConnects
    <2>2. KernelTypeOK'
      BY <1>28 DEF CallConnects, KernelTypeOK, CallInv, TcpState
    <2>3. ThreadTypeOK'
      BY <1>28 DEF CallConnects, NoCall, Call, ThreadTypeOK, threadVars
    <2>4. CallInv'
      BY <1>28 DEF CallConnects, NoCall, CallInv
    <2>5. CurInv'
      BY <1>28 DEF CallConnects, CurInv, threadVars
    <2>6. IdInv'
      BY <1>28 DEF CallConnects, NoCall, IdInv, sessionVars, threadVars
    <2> QED
      BY <2>1, <2>2, <2>3, <2>4, <2>5, <2>6
  <1>29. ASSUME NEW id \in SessionID, AppKicks(id) PROVE TypeInv'
    <2>1. SessionTypeOK'
      BY <1>29, KickSessionType DEF AppKicks
    <2>2. KernelTypeOK'
      BY <1>29, DiscardType DEF AppKicks, KernelTypeOK
    <2>3. ThreadTypeOK'
      BY <1>29 DEF AppKicks, ThreadTypeOK, threadVars
    <2>4. CallInv'
      BY <1>29, Unchanged DEF AppKicks
    <2>5. CurInv'
      BY <1>29 DEF AppKicks, CurInv, threadVars
    <2>6. IdInv'
      BY <1>29, DiscardType DEF AppKicks, KickSession, IdInv, threadVars
    <2> QED
      BY <2>1, <2>2, <2>3, <2>4, <2>5, <2>6
  <1>30. ASSUME AppStops PROVE TypeInv'
    <2>1. SessionTypeOK'
      BY <1>30 DEF AppStops, StopRunning, SessionTypeOK
    <2>2. KernelTypeOK'
      BY <1>30, Unchanged DEF AppStops
    <2>3. ThreadTypeOK'
      BY <1>30, Unchanged DEF AppStops
    <2>4. CallInv'
      BY <1>30, Unchanged DEF AppStops
    <2>5. CurInv'
      BY <1>30 DEF AppStops, CurInv, threadVars
    <2>6. IdInv'
      BY <1>30 DEF AppStops, StopRunning, IdInv, kernelVars, threadVars
    <2> QED
      BY <2>1, <2>2, <2>3, <2>4, <2>5, <2>6
  <1>31. ASSUME NEW k \in Connectors, AppConnects(k) PROVE TypeInv'
    <2>1. SessionTypeOK'
      BY <1>31, Unchanged DEF AppConnects
    <2>2. KernelTypeOK'
      BY <1>31, Unchanged DEF AppConnects
    <2>3. ThreadTypeOK'
      <3>1. call' \in Call
        <4> PICK at \in CallsFrom("AddTCPConnector") :
                call' = [at |-> "pop", connector |-> k, id |-> NewSessionID, from |-> at]
          BY <1>31 DEF AppConnects
        <4>1. at \in Callbacks \cup {"main"}
          BY ServiceAssumption DEF CallsFrom
        <4> QED
          BY <1>31, <4>1, QueueType DEF AppConnects, Call
      <3> QED
        BY <1>31, <3>1 DEF AppConnects, ThreadTypeOK, threadVars
    <2>4. CallInv'
      BY <1>31, QueueType DEF AppConnects, CallInv
    <2>5. CurInv'
      BY <1>31 DEF AppConnects, CurInv, threadVars
    <2>6. IdInv'
      BY <1>31 DEF AppConnects, IdInv, sessionVars, kernelVars, threadVars
    <2> QED
      BY <2>1, <2>2, <2>3, <2>4, <2>5, <2>6
  <1>32. ASSUME NEW c \in Accepted, ClientConnect(c) PROVE TypeInv'
    <2>1. SessionTypeOK'
      BY <1>32, Unchanged DEF ClientConnect
    <2>2. KernelTypeOK'
      BY <1>32 DEF ClientConnect, KernelTypeOK, TcpState, Fd
    <2>3. ThreadTypeOK'
      BY <1>32, Unchanged DEF ClientConnect
    <2>4. CallInv'
      BY <1>32, Unchanged DEF ClientConnect
    <2>5. CurInv'
      BY <1>32 DEF ClientConnect, CurInv, threadVars
    <2>6. IdInv'
      BY <1>32 DEF ClientConnect, IdInv, sessionVars, threadVars
    <2> QED
      BY <2>1, <2>2, <2>3, <2>4, <2>5, <2>6
  <1>33. ASSUME NEW k \in Connectors, ServerAnswers(k) PROVE TypeInv'
    <2>1. SessionTypeOK'
      BY <1>33, Unchanged DEF ServerAnswers
    <2>2. KernelTypeOK'
      BY <1>33 DEF ServerAnswers, Wake, KernelTypeOK, TcpState, Fd
    <2>3. ThreadTypeOK'
      BY <1>33, Unchanged DEF ServerAnswers
    <2>4. CallInv'
      BY <1>33, Unchanged DEF ServerAnswers
    <2>5. CurInv'
      BY <1>33 DEF ServerAnswers, CurInv, threadVars
    <2>6. IdInv'
      BY <1>33 DEF ServerAnswers, IdInv, sessionVars, threadVars
    <2> QED
      BY <2>1, <2>2, <2>3, <2>4, <2>5, <2>6
  <1>34. ASSUME NEW s \in TcpSession, PeerSends(s) PROVE TypeInv'
    <2>1. SessionTypeOK'
      BY <1>34, Unchanged DEF PeerSends
    <2>2. KernelTypeOK'
      <3>1. rx[s] \in Nat /\ rx[s] + 1 <= MaxRx
        <4>1. CASE pc = "PostRead" /\ cur = s
          BY <1>34, <4>1, ServiceAssumption DEF PeerSends, KernelTypeOK, ThreadTypeOK
        <4>2. CASE ~(pc = "PostRead" /\ cur = s)
          BY <1>34, <4>2, ServiceAssumption DEF PeerSends, KernelTypeOK
        <4> QED
          BY <4>1, <4>2
      <3>2. rx' \in [TcpSession -> 0..MaxRx]
        BY <1>34, <3>1, ServiceAssumption DEF PeerSends, KernelTypeOK
      <3> QED
        BY <1>34, <3>2 DEF PeerSends, Wake, KernelTypeOK, Fd
    <2>3. ThreadTypeOK'
      BY <1>34, Unchanged DEF PeerSends
    <2>4. CallInv'
      BY <1>34, Unchanged DEF PeerSends
    <2>5. CurInv'
      BY <1>34 DEF PeerSends, CurInv, threadVars
    <2>6. IdInv'
      BY <1>34 DEF PeerSends, IdInv, sessionVars, threadVars
    <2> QED
      BY <2>1, <2>2, <2>3, <2>4, <2>5, <2>6
  <1>35. ASSUME NEW s \in TcpSession, PeerCloses(s) PROVE TypeInv'
    <2>1. SessionTypeOK'
      BY <1>35, Unchanged DEF PeerCloses
    <2>2. KernelTypeOK'
      BY <1>35 DEF PeerCloses, Wake, KernelTypeOK, TcpState, Fd
    <2>3. ThreadTypeOK'
      BY <1>35, Unchanged DEF PeerCloses
    <2>4. CallInv'
      BY <1>35, Unchanged DEF PeerCloses
    <2>5. CurInv'
      BY <1>35 DEF PeerCloses, CurInv, threadVars
    <2>6. IdInv'
      BY <1>35 DEF PeerCloses, IdInv, sessionVars, threadVars
    <2> QED
      BY <2>1, <2>2, <2>3, <2>4, <2>5, <2>6
  <1>36. ASSUME NEW s \in TcpSession, PeerResets(s) PROVE TypeInv'
    <2>1. SessionTypeOK'
      BY <1>36, Unchanged DEF PeerResets
    <2>2. KernelTypeOK'
      BY <1>36 DEF PeerResets, Wake, KernelTypeOK, TcpState, Fd
    <2>3. ThreadTypeOK'
      BY <1>36, Unchanged DEF PeerResets
    <2>4. CallInv'
      BY <1>36, Unchanged DEF PeerResets
    <2>5. CurInv'
      BY <1>36 DEF PeerResets, CurInv, threadVars
    <2>6. IdInv'
      BY <1>36 DEF PeerResets, IdInv, sessionVars, threadVars
    <2> QED
      BY <2>1, <2>2, <2>3, <2>4, <2>5, <2>6
  <1>37. ASSUME NEW p \in Peers, NEW len \in {0, 1}, DatagramArrives(p, len) PROVE TypeInv'
    <2>1. SessionTypeOK'
      BY <1>37, Unchanged DEF DatagramArrives
    <2>2. KernelTypeOK'
      BY <1>37 DEF DatagramArrives, KernelTypeOK, Fd
    <2>3. ThreadTypeOK'
      BY <1>37, Unchanged DEF DatagramArrives
    <2>4. CallInv'
      BY <1>37, Unchanged DEF DatagramArrives
    <2>5. CurInv'
      BY <1>37 DEF DatagramArrives, CurInv, threadVars
    <2>6. IdInv'
      BY <1>37 DEF DatagramArrives, IdInv, sessionVars, threadVars
    <2> QED
      BY <2>1, <2>2, <2>3, <2>4, <2>5, <2>6
  <1>38. ASSUME UNCHANGED vars PROVE TypeInv'
    BY <1>38, Unchanged DEF vars, CurInv, IdInv, sessionVars, kernelVars, threadVars
  <1> QED
    BY <1>1, <1>2, <1>3, <1>4, <1>5, <1>6, <1>7, <1>8, <1>9, <1>10, <1>11, <1>12,
       <1>13, <1>14, <1>15, <1>16, <1>17, <1>18, <1>19, <1>20, <1>21, <1>22, <1>23,
       <1>24, <1>25, <1>26, <1>27, <1>28, <1>29, <1>30, <1>31, <1>32, <1>33, <1>34,
       <1>35, <1>36, <1>37, <1>38
       DEF Next, ThreadProc, AddTCPConnector, Application, Network

(***************************************************************************)
(* TypeOK always holds: whatever the handlers, the calls and the kernel    *)
(* do, in whichever order, every ID that is queued, stored or passed on is *)
(* one that InitSession made, and every call has a connector of its own.   *)
(***************************************************************************)
THEOREM TypeCorrect == Spec => []TypeOK
  <1>1. TypeInv => TypeOK
    BY DEF TypeInv
  <1> QED
    BY <1>1, InitTypeInv, NextTypeInv, PTL DEF Spec
=============================================================================
