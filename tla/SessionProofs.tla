----------------------------- MODULE SessionProofs -----------------------------
(***************************************************************************)
(* Lemmas about the operations of NetSession, for the proofs about both    *)
(* back ends: who holds an ID, and what the operations keep.               *)
(***************************************************************************)
EXTENDS NetSession, CommonLemmas

(* How the kinds of session relate. *)
LEMMA SessionKinds ==
    /\ TcpSession \subseteq Session /\ NewedSession \subseteq Session
    /\ Accepted \subseteq TcpSession /\ Connectors \subseteq TcpSession
    /\ Accepted \subseteq NewedSession /\ Peers \subseteq NewedSession
    /\ Peers \cap TcpSession = {} /\ Connectors \cap NewedSession = {}
    /\ NULL \notin Session /\ WILD \notin Session
    /\ SessionID \subseteq 0..MAX_SOCK_EVENT /\ 0 \notin SessionID
    /\ 0 \in 0..MAX_SOCK_EVENT
  BY MaxAssumption, SessionAssumption
     DEF Session, TcpSession, NewedSession, SessionID

(* NewSessionID, its pop and its return keep the queue a queue of IDs. *)
LEMMA QueueType ==
    ASSUME SessionTypeOK, NewSessionID # 0
    PROVE  /\ NewSessionID \in SessionID /\ PopSessionID \in Seq(SessionID)
           /\ FreeSessionID(PopSessionID, NewSessionID) \in Seq(SessionID)
  <1>1. NewSessionID \in SessionID /\ PopSessionID \in Seq(SessionID)
    BY DEF SessionTypeOK, NewSessionID, PopSessionID
  <1> QED
    BY <1>1 DEF FreeSessionID

(* AddSession puts a session in a slot; m_bRunning stays a flag. *)
LEMMA AddSessionType ==
    ASSUME SessionTypeOK, NEW id, NEW s \in Session, AddSession(id, s)
    PROVE  /\ m_Sessions' \in [SessionID -> Session \cup {NULL, WILD}]
           /\ m_bRunning' \in BOOLEAN
  BY DEF SessionTypeOK, AddSession

(* What DelSession and KickSession free and erase keeps its types. *)
LEMMA EraseType ==
    ASSUME SessionTypeOK, NEW id \in SessionID, Erase(id)
    PROVE  /\ m_Sessions' \in [SessionID -> Session \cup {NULL, WILD}]
           /\ m_bRunning' \in BOOLEAN
           /\ m_mapUDPSessions' \in [Peers -> 0..MAX_SOCK_EVENT]
           /\ heap' \in [Session -> {"none", "live", "freed"}]
           /\ m_queSessionID' \in Seq(SessionID)
  <1>1. m_Sessions' \in [SessionID -> Session \cup {NULL, WILD}] /\ m_bRunning' \in BOOLEAN
    BY DEF SessionTypeOK, Erase
  <1>2. m_mapUDPSessions' \in [Peers -> 0..MAX_SOCK_EVENT]
    BY MaxAssumption DEF SessionTypeOK, Erase
  <1>3. heap' \in [Session -> {"none", "live", "freed"}]
    BY DEF SessionTypeOK, Erase
  <1>4. m_queSessionID' \in Seq(SessionID)
    BY DEF SessionTypeOK, Erase, FreeSessionID
  <1> QED
    BY <1>1, <1>2, <1>3, <1>4

(* KickSession keeps the types of the session layer. *)
LEMMA KickSessionType ==
    ASSUME SessionTypeOK, NEW id \in SessionID, KickSession(id)
    PROVE  SessionTypeOK'
  <1>1. sock' \in [TcpSession -> SockState] /\ fault' \in FaultState
    BY DEF SessionTypeOK, KickSession, Closed, SockState, FaultState
  <1> QED
    BY <1>1, EraseType DEF SessionTypeOK, KickSession

(* DelSession keeps the types of the session layer. *)
LEMMA DelSessionType ==
    ASSUME SessionTypeOK, NEW p, m_nSessionID[p] \in SessionID, DelSession(p)
    PROVE  SessionTypeOK'
  <1>1. sock' \in [TcpSession -> SockState] /\ fault' \in FaultState
    BY DEF SessionTypeOK, DelSession, Closed, SockState, FaultState
  <1>2. Erase(m_nSessionID[p])
    BY DEF DelSession
  <1> QED
    BY <1>1, <1>2, EraseType DEF SessionTypeOK, DelSession

-----------------------------------------------------------------------------
(* The IDs that the sessions of H hold, n being the ID of each session, and *)
(* those in the queue q: every ID is queued once or held once.              *)
QueueOf(q, n, H, ID) ==
    /\ q \in Seq(ID)
    /\ \A id \in ID : AtMostOne(q, {id})
    /\ \A s \in H : n[s] \in ID /\ ~Has(q, {n[s]})
    /\ \A s, t \in H : n[s] = n[t] => s = t
    /\ \A id \in ID : ~Has(q, {id}) => \E s \in H : n[s] = id

(* A session that held no ID takes the one at the front of the queue. *)
LEMMA QueueTakes ==
    ASSUME NEW ID, NEW S, NEW T, NEW q, NEW n \in [S -> T], NEW H \in SUBSET S,
           QueueOf(q, n, H, ID), q # <<>>, NEW s \in S, s \notin H, ID \subseteq T
    PROVE  /\ Head(q) \in ID /\ \A t \in H : n[t] # Head(q)
           /\ QueueOf(Tail(q), [n EXCEPT ![s] = Head(q)], H \cup {s}, ID)
  <1> DEFINE x == Head(q)
             m == [n EXCEPT ![s] = x]
  <1>1. q \in Seq(ID) /\ q # <<>> /\ Tail(q) \in Seq(ID) /\ x \in ID
    BY TailHas DEF QueueOf
  <1>2. \A id \in ID : /\ Has(q, {id}) <=> Has(Tail(q), {id}) \/ x = id
                       /\ AtMostOne(Tail(q), {id}) /\ ~(Has(Tail(q), {id}) /\ x = id)
    BY <1>1, TailHas DEF QueueOf
  <1>3. m[s] = x /\ \A t \in S : t # s => m[t] = n[t]
    OBVIOUS
  <1>4. \A t \in H : n[t] # x
    BY <1>1, <1>2 DEF QueueOf
  <1>5. \A t \in H \cup {s} : m[t] \in ID /\ ~Has(Tail(q), {m[t]})
    BY <1>1, <1>2, <1>3 DEF QueueOf
  <1>6. \A t, u \in H \cup {s} : m[t] = m[u] => t = u
    BY <1>3, <1>4 DEF QueueOf
  <1>7. ASSUME NEW id \in ID, ~Has(Tail(q), {id}) PROVE \E t \in H \cup {s} : m[t] = id
    <2>1. CASE id = x
      BY <1>3, <2>1
    <2>2. CASE id # x
      <3>1. PICK t \in H : n[t] = id
        BY <1>2, <1>7, <2>2 DEF QueueOf
      <3> QED
        BY <1>3, <3>1
    <2> QED
      BY <2>1, <2>2
  <1> HIDE DEF x, m
  <1>8. QueueOf(Tail(q), m, H \cup {s}, ID)
    BY <1>1, <1>2, <1>5, <1>6, <1>7 DEF QueueOf
  <1> QED
    BY <1>1, <1>4, <1>8 DEF x, m

(* A session gives the ID that it held back to the queue. *)
LEMMA QueueGives ==
    ASSUME NEW ID, NEW q, NEW n, NEW H, QueueOf(q, n, H, ID), NEW s \in H
    PROVE  QueueOf(Append(q, n[s]), n, H \ {s}, ID)
  <1>1. q \in Seq(ID) /\ n[s] \in ID /\ ~Has(q, {n[s]})
    BY DEF QueueOf
  <1>2. Append(q, n[s]) \in Seq(ID)
    BY <1>1
  <1>3. \A id \in ID : /\ Has(Append(q, n[s]), {id}) <=> Has(q, {id}) \/ n[s] = id
                       /\ AtMostOne(Append(q, n[s]), {id})
    <2> SUFFICES ASSUME NEW id \in ID
                 PROVE  /\ Has(Append(q, n[s]), {id}) <=> Has(q, {id}) \/ n[s] = id
                        /\ AtMostOne(Append(q, n[s]), {id})
      OBVIOUS
    <2>1. AtMostOne(q, {id})
      BY DEF QueueOf
    <2>2. /\ Has(Append(q, n[s]), {id}) <=> Has(q, {id}) \/ n[s] \in {id}
          /\ AtMostOne(q, {id}) /\ ~(Has(q, {id}) /\ n[s] \in {id})
             => AtMostOne(Append(q, n[s]), {id})
      BY <1>1, AppendHas
    <2> QED
      BY <1>1, <2>1, <2>2
  <1>4. \A t \in H \ {s} : n[t] \in ID /\ n[t] # n[s] /\ ~Has(Append(q, n[s]), {n[t]})
    BY <1>3 DEF QueueOf
  <1> QED
    BY <1>1, <1>2, <1>3, <1>4 DEF QueueOf

(* An ID is taken off the queue and given back: what is held is the same. *)
LEMMA QueueReturns ==
    ASSUME NEW ID, NEW q, NEW n, NEW H, QueueOf(q, n, H, ID), q # <<>>
    PROVE  QueueOf(Append(Tail(q), Head(q)), n, H, ID)
  <1>1. q \in Seq(ID) /\ q # <<>> /\ Tail(q) \in Seq(ID) /\ Head(q) \in ID
    BY TailHas DEF QueueOf
  <1>2. \A id \in ID : /\ Has(q, {id}) <=> Has(Tail(q), {id}) \/ Head(q) = id
                       /\ AtMostOne(Tail(q), {id}) /\ ~(Has(Tail(q), {id}) /\ Head(q) = id)
    BY <1>1, TailHas DEF QueueOf
  <1>3. \A id \in ID : /\ Has(Append(Tail(q), Head(q)), {id}) <=> Has(q, {id})
                       /\ AtMostOne(Append(Tail(q), Head(q)), {id})
    BY <1>1, <1>2, AppendHas
  <1>4. Append(Tail(q), Head(q)) \in Seq(ID)
    BY <1>1
  <1> QED
    BY <1>3, <1>4 DEF QueueOf

(* IDs that no session holds may be written into any. *)
LEMMA QueueKept ==
    ASSUME NEW ID, NEW q, NEW n, NEW m, NEW H, QueueOf(q, n, H, ID),
           \A s \in H : m[s] = n[s]
    PROVE  QueueOf(q, m, H, ID)
  BY DEF QueueOf

=============================================================================
