------------------------------ MODULE NetSession ------------------------------
(***************************************************************************)
(* The session layer of NetService (src/engine/net/net_service.{h,cpp}):   *)
(* the queue of free session IDs, the table m_Sessions, the map from UDP   *)
(* peers to IDs, and the session objects and descriptors they lead to.     *)
(* The layer has no thread of its own; NetServiceEpoll composes its        *)
(* operations into the handlers of the epoll back end.                     *)
(*                                                                         *)
(* A session is named by what it is a session of: the accepted connection, *)
(* the TCPConnector that embeds it, or the peer a UDP session talks to.    *)
(* m_bAlive is written by the code and read nowhere, so it is left out.    *)
(***************************************************************************)
EXTENDS Naturals, Sequences

CONSTANTS
    MAX_SOCK_EVENT,  \* how many IDs there are (20000 in the code)
    Accepted,        \* connections that clients open to the TCPListener
    Connectors,      \* TCPConnectors of the application
    Peers,           \* addresses that send datagrams to the UDPListener
    NULL,            \* the null pointer
    WILD             \* a pointer that points to no session

ASSUME MaxAssumption == MAX_SOCK_EVENT \in Nat \ {0}

ASSUME SessionAssumption ==
    /\ Accepted \cap Connectors = {}
    /\ Accepted \cap Peers = {}
    /\ Connectors \cap Peers = {}
    /\ {NULL, WILD} \cap (Accepted \cup Connectors \cup Peers) = {}
    /\ NULL # WILD

Session    == Accepted \cup Connectors \cup Peers
TcpSession == Accepted \cup Connectors
NewedSession == Accepted \cup Peers     \* allocated by the service with new
SessionID  == 1..MAX_SOCK_EVENT

VARIABLES
    m_queSessionID,   \* free IDs, first in first out
    m_Sessions,       \* the table; slot MAX_SOCK_EVENT overlays m_bRunning
    m_mapUDPSessions, \* peer -> ID, 0 when the peer has no entry
    m_bRunning,       \* the flag that keeps the service's threads looping
    m_nSessionID,     \* the ID each session object holds
    heap,             \* the life of each session object
    sock,             \* the descriptor of each TCP session, as m_Sock sees it
    fault             \* the first undefined behaviour met

sessionVars == <<m_queSessionID, m_Sessions, m_mapUDPSessions, m_bRunning,
                 m_nSessionID, heap, sock, fault>>

(* "dangling": CloseSocket closed the descriptor and m_Sock still names it *)
SockState  == {"none", "open", "closed", "dangling"}
FaultState == {"none", "bad_pointer", "bad_close", "bad_pop"}

SessionTypeOK ==
    /\ m_queSessionID \in Seq(SessionID)
    /\ m_Sessions \in [SessionID -> Session \cup {NULL, WILD}]
    /\ m_mapUDPSessions \in [Peers -> 0..MAX_SOCK_EVENT]
    /\ m_bRunning \in BOOLEAN
    /\ m_nSessionID \in [Session -> 0..MAX_SOCK_EVENT]
    /\ heap \in [Session -> {"none", "live", "freed"}]
    /\ sock \in [TcpSession -> SockState]
    /\ fault \in FaultState

(***************************************************************************)
(* Init() and Start(): IDs 1..MAX are free and slots 0..MAX-1 are NULL.    *)
(* ID MAX has no slot: m_Sessions[MAX] is the word m_bRunning starts, with *)
(* the padding behind it, and reads as a pointer to no session.            *)
(* The application's connectors have been through TCPConnector::Init().    *)
(***************************************************************************)
InitSession ==
    /\ m_queSessionID = [i \in SessionID |-> i]
    /\ m_Sessions = [id \in SessionID |-> IF id = MAX_SOCK_EVENT THEN WILD ELSE NULL]
    /\ m_mapUDPSessions = [p \in Peers |-> 0]
    /\ m_bRunning = TRUE
    /\ m_nSessionID = [s \in Session |-> 0]
    /\ heap = [s \in Session |-> IF s \in Connectors THEN "live" ELSE "none"]
    /\ sock = [s \in TcpSession |-> IF s \in Connectors THEN "open" ELSE "none"]
    /\ fault = "none"

-----------------------------------------------------------------------------
(* The ID that NewSessionID() answers: the front of the queue, or 0. *)
NewSessionID == IF m_queSessionID = <<>> THEN 0 ELSE Head(m_queSessionID)

(* The queue after NewSessionID() on a queue that is not empty. *)
PopSessionID == Tail(m_queSessionID)

(* Mutant: the slot's index is given back, not the ID. *)
FreeSessionID_Index(q, id) == Append(q, id - 1)

(* The queue q after FreeSessionID(id). *)
FreeSessionID(q, id) == Append(q, id)

(***************************************************************************)
(* AddSession: the pointer goes into the ID's slot. Through slot MAX it    *)
(* goes over m_bRunning, which becomes the pointer's lowest byte: objects  *)
(* are 16-byte aligned, so that byte is zero for one pointer in sixteen.   *)
(***************************************************************************)
AddSession(id, s) ==
    /\ m_Sessions' = [m_Sessions EXCEPT ![id] = s]
    /\ m_bRunning' \in IF id = MAX_SOCK_EVENT THEN BOOLEAN ELSE {m_bRunning}

(* Whether the pointer p may be dereferenced. *)
Valid(p) == p \in Session /\ heap[p] = "live"

(* What a step that dereferences p leaves in fault. *)
Deref(p) == fault' = IF Valid(p) THEN fault ELSE "bad_pointer"

(***************************************************************************)
(* The descriptors after Sock::Close() on the sessions S (one or none):    *)
(* Close() invalidates m_Socket, so a second Close() does nothing.         *)
(***************************************************************************)
Closed(S) == [s \in TcpSession |-> IF s \in S THEN "closed" ELSE sock[s]]

(* Mutant: the slot keeps its pointer. *)
Erase_KeepsSlot(id) ==
    LET s == m_Sessions[id] IN
    /\ heap' = [x \in Session |->
           IF x = s /\ x \in NewedSession THEN "freed" ELSE heap[x]]
    /\ m_queSessionID' = IF s \in NewedSession
                         THEN FreeSessionID(m_queSessionID, id)
                         ELSE m_queSessionID
    /\ m_mapUDPSessions' =
           [p \in Peers |-> IF p = s THEN 0 ELSE m_mapUDPSessions[p]]
    /\ UNCHANGED <<m_Sessions, m_bRunning>>

(* Mutant: SetUDPSessionID(addr, 0) is forgotten. *)
Erase_KeepsPeer(id) ==
    LET s == m_Sessions[id] IN
    /\ m_Sessions' = [m_Sessions EXCEPT ![id] = NULL]
    /\ m_bRunning' = (m_bRunning /\ id # MAX_SOCK_EVENT)
    /\ heap' = [x \in Session |->
           IF x = s /\ x \in NewedSession THEN "freed" ELSE heap[x]]
    /\ m_queSessionID' = IF s \in NewedSession
                         THEN FreeSessionID(m_queSessionID, id)
                         ELSE m_queSessionID
    /\ UNCHANGED m_mapUDPSessions

(* DelSession's work on the table, the map, the heap and the ID queue: a   *)
(* connector's session is only taken out of its slot, and keeps its ID.    *)
Erase(id) ==
    LET s == m_Sessions[id] IN
    /\ m_Sessions' = [m_Sessions EXCEPT ![id] = NULL]
    /\ m_bRunning' = (m_bRunning /\ id # MAX_SOCK_EVENT)
    /\ m_mapUDPSessions' =
           [p \in Peers |-> IF p = s THEN 0 ELSE m_mapUDPSessions[p]]
    /\ heap' = [x \in Session |->
           IF x = s /\ x \in NewedSession THEN "freed" ELSE heap[x]]
    /\ m_queSessionID' = IF s \in NewedSession
                         THEN FreeSessionID(m_queSessionID, id)
                         ELSE m_queSessionID

(***************************************************************************)
(* DelSession(pSession), pSession being pointer p: the session that the    *)
(* slot of p's ID holds is closed if it was accepted, and erased.          *)
(***************************************************************************)
DelSession(p) ==
    LET id == m_nSessionID[p]
        s  == m_Sessions[id]
    IN  /\ Erase(id)
        /\ sock' = Closed({s} \cap Accepted)
        /\ fault' = IF Valid(p) /\ (s = NULL \/ Valid(s)) THEN fault ELSE "bad_pointer"
        /\ UNCHANGED m_nSessionID

(***************************************************************************)
(* KickSession(id, socket): a TCP session is closed, and erased. A session *)
(* whose descriptor CloseSocket closed already is closed a second time.    *)
(***************************************************************************)
KickSession(id) ==
    LET s == m_Sessions[id] IN
    /\ Erase(id)
    /\ sock' = Closed({s} \cap TcpSession)
    /\ fault' = IF s # NULL /\ ~Valid(s) THEN "bad_pointer"
                ELSE IF s \in TcpSession /\ sock[s] = "dangling" THEN "bad_close"
                ELSE fault
    /\ UNCHANGED m_nSessionID

(* GetUDPSessionID(pAddress) *)
GetUDPSessionID(p) == m_mapUDPSessions[p]

(***************************************************************************)
(* Stop(): clearing m_bRunning clears the lowest byte of slot MAX.         *)
(***************************************************************************)
StopRunning ==
    /\ m_bRunning' = FALSE
    /\ \E w \in {NULL, WILD} :
          m_Sessions' = [m_Sessions EXCEPT ![MAX_SOCK_EVENT] =
              IF ~m_bRunning \/ @ = NULL THEN @
              ELSE IF @ = WILD THEN w ELSE WILD]
    /\ UNCHANGED <<m_queSessionID, m_mapUDPSessions, m_nSessionID, heap, sock, fault>>
=============================================================================
