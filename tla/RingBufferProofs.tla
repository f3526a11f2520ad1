--------------------------- MODULE RingBufferProofs ---------------------------
(***************************************************************************)
(* Proofs about RingBufferLocked, for any number of threads, any width of  *)
(* BufferSize, any size the constructor is given and any lengths:          *)
(*                                                                         *)
(*   Types            the variables keep their types                       *)
(*   RoomIsKept       what a call found out under the lock holds until the *)
(*                    call ends                                            *)
(*   NoneLeftInside   the ring is deleted when no thread can be in it      *)
(*   RoundsUpAlways   the size that the constructor gives the ring         *)
(*                                                                         *)
(* RoomKept is not inductive: it needs that the lock is held by the one    *)
(* thread that is in a call, or by the main thread in Reset (LockInv), and *)
(* NoUseAfterDelete needs that a joined thread stays done (JoinInv).       *)
(***************************************************************************)
EXTENDS RingBufferLocked, CommonLemmas, SequenceTheorems, TLAPS

(* The lock is held by whoever is in a call, and half-way through Reset    *)
(* m_uOut has been stored.                                                 *)
LockInv ==
    /\ \A t \in Thread : InCall(t) <=> m_Lock = t
    /\ main.at = "reset" <=> m_Lock = Main
    /\ main.at = "reset" => m_uOut = 0

(* A WriteData call has as many bytes as its len says. *)
DataInv ==
    \A w \in Writers : InCall(w) => thread[w].data \in [1..thread[w].len -> Byte]

(* Threads are started before the first is joined; a joined one is done. *)
JoinInv ==
    /\ \A t \in Thread : ~m_bRunning[t] => thread[t].pc = "new"
    /\ main.at = "start" => \A t \in Thread \ main.left : m_bRunning[t]
    /\ main.at # "start" =>
          /\ \A t \in Thread : m_bRunning[t]
          /\ \A t \in Thread \ main.left : thread[t].pc = "done"
    /\ main.at = "deleted" => main.left = {}

IInv == TypeOK /\ LockInv /\ DataInv /\ RoomKept /\ JoinInv

-----------------------------------------------------------------------------
(* The size. *)

(* The least power of two above top exists: the modulus is one. *)
LEMMA PowerAbove ==
    ASSUME NEW top \in Position
    PROVE  \E p \in PowersOfTwo :
              p > top /\ \A q \in PowersOfTwo : q > top => p <= q
  <1> DEFINE T == {q \in PowersOfTwo : q > top}
  <1>1. Modulus % Modulus = 0
    BY RingAssumption, ModOnce
  <1>2. Modulus \in T
    BY <1>1, RingAssumption DEF PowersOfTwo, Position
  <1>3. T \in SUBSET Nat
    BY DEF PowersOfTwo
  <1>4. PICK p \in T : \A q \in T : p <= q
    <2> HIDE DEF T
    <2> QED
      BY <1>2, <1>3, Least
  <1> QED
    BY <1>4

(* Whatever the constructor is given, the size is a BufferSize. *)
LEMMA SizeType ==
    ASSUME size \in Position
    PROVE  m_uSize \in Position
  <1> DEFINE top == (size + Modulus - 1) % Modulus
             p == CHOOSE p \in PowersOfTwo :
                     p > top /\ \A q \in PowersOfTwo : q > top => p <= q
  <1>1. top \in Position
    BY RingAssumption, ModIn DEF Position
  <1>2. p \in PowersOfTwo
    <2> HIDE DEF top
    <2> QED
      BY <1>1, PowerAbove
  <1>3. p \in Int
    BY <1>2 DEF PowersOfTwo
  <1>4. m_uSize = p % Modulus
    BY DEF m_uSize, RoundUpPowOfTwo
  <1> HIDE DEF p
  <1> QED
    BY <1>3, <1>4, RingAssumption, ModIn DEF Position

(* The size is the argument rounded up, or 0 when no BufferSize holds that. *)
LEMMA SizeRoundsUp ==
    ASSUME size \in Position
    PROVE  RoundsUp
  <1> DEFINE top == (size + Modulus - 1) % Modulus
             p == CHOOSE p \in PowersOfTwo :
                     p > top /\ \A q \in PowersOfTwo : q > top => p <= q
  <1>1. top \in Position /\ top = IF size = 0 THEN Modulus - 1 ELSE size - 1
    <2>1. CASE size = 0
      BY <2>1, RingAssumption, ModBelow DEF Position
    <2>2. CASE size # 0
      <3>1. size + Modulus - 1 \in Modulus..(2 * Modulus - 1)
        BY <2>2, RingAssumption DEF Position
      <3> QED
        BY <2>2, <3>1, RingAssumption, ModOnce DEF Position
    <2> QED
      BY <2>1, <2>2
  <1>2. p \in PowersOfTwo /\ p > top /\ \A q \in PowersOfTwo : q > top => p <= q
    <2> HIDE DEF top
    <2> QED
      BY <1>1, PowerAbove
  <1>3. m_uSize = p % Modulus
    BY DEF m_uSize, RoundUpPowOfTwo
  <1> HIDE DEF p, top
  <1>4. p \in 1..Modulus /\ Modulus % p = 0
    BY <1>2 DEF PowersOfTwo
  <1>5. p = 1 \/ p <= 2 * top
    <2>1. ASSUME p # 1
          PROVE  p <= 2 * top
      <3>1. PICK q \in PowersOfTwo : p = 2 * q
        BY <1>2, <2>1, RingAssumption
      <3>2. q \in Nat /\ q < p
        BY <1>4, <3>1 DEF PowersOfTwo
      <3>3. ~(q > top)
        BY <1>2, <1>4, <3>2
      <3> QED
        BY <1>1, <3>1, <3>2, <3>3 DEF Position
    <2> QED
      BY <2>1
  <1>6. CASE 2 * size \in 1..Modulus
    <2>1. size <= p /\ p < 2 * size
      BY <1>1, <1>2, <1>4, <1>5, <1>6 DEF Position
    <2>2. p % Modulus = p
      BY <1>4, <1>6, <2>1, RingAssumption, ModBelow
    <2> QED
      BY <1>3, <1>6, <2>1, <2>2 DEF RoundsUp
  <1>7. CASE 2 * size \notin 1..Modulus
    <2>1. 2 * p > Modulus
      BY <1>1, <1>2, <1>4, <1>7, RingAssumption DEF Position
    <2>2. p = Modulus
      <3>1. CASE p < Modulus
        <4>1. Modulus \in p..(2 * p - 1) /\ p \in Nat \ {0}
          BY <1>4, <2>1, <3>1, RingAssumption
        <4>2. Modulus % p = Modulus - p
          BY <4>1, ModOnce
        <4> QED
          BY <1>4, <3>1, <4>2, RingAssumption
      <3> QED
        BY <1>4, <3>1, RingAssumption
    <2>3. p % Modulus = 0
      BY <2>2, RingAssumption, ModOnce
    <2> QED
      BY <1>3, <1>7, <2>3 DEF RoundsUp
  <1> QED
    BY <1>6, <1>7

-----------------------------------------------------------------------------
(* The initial states. *)

LEMMA InitSafe ==
    ASSUME Init
    PROVE  IInv
  <1>1. m_uIn \in Position /\ m_uOut = m_uIn
    BY RingAssumption, ModIn DEF Init, Position
  <1>2. m_uSize \in Position
    BY SizeType DEF Init
  <1>3. GetLen(m_uIn, m_uOut) = 0
    BY <1>1, RingAssumption, ModOnce DEF GetLen, Position
  <1>4. TypeOK
    <2>1. Idle \in Local
      BY RingAssumption DEF Idle, Local, Position
    <2>2. m_pBuffer \in [0..(m_uSize - 1) -> Byte]
      <3> DEFINE b == <<NULL, 0>>
      <3>1. b \in Byte
        BY DEF Byte
      <3>2. m_pBuffer = [i \in 0..(m_uSize - 1) |-> b]
        BY DEF Init
      <3> HIDE DEF b
      <3> QED
        BY <3>1, <3>2
    <2>3. thread \in [Thread -> Local] /\ m_bRunning \in [Thread -> BOOLEAN]
      BY <2>1 DEF Init
    <2>4. /\ main \in [at : {"start", "join", "reset", "deleted"}, left : SUBSET Thread]
          /\ resets \in 0..MaxResets /\ got \in Seq(Byte) /\ size \in Position
          /\ m_Lock \in Thread \cup {Main, NULL}
      BY RingAssumption DEF Init
    <2> QED
      BY <1>1, <2>2, <2>3, <2>4 DEF TypeOK
  <1>5. \A t \in Thread : thread[t].pc = "new" /\ ~InCall(t)
    BY DEF Init, InCall, Idle
  <1>6. LockInv
    BY <1>5, RingAssumption DEF Init, LockInv
  <1>7. DataInv
    BY <1>5 DEF DataInv, Thread
  <1>8. RoomKept
    BY <1>2, <1>3, <1>5 DEF RoomKept, Thread, Position
  <1>9. JoinInv
    BY <1>5 DEF Init, JoinInv
  <1> QED
    BY <1>4, <1>6, <1>7, <1>8, <1>9 DEF IInv

-----------------------------------------------------------------------------
(* Steps of one thread. *)

(* One thread has its new locals, and the others keep theirs. *)
LEMMA MovesOne ==
    ASSUME TypeOK, NEW t \in Thread, NEW l \in Local, Moves(t, l)
    PROVE  /\ thread' \in [Thread -> Local]
           /\ thread'[t] = l
           /\ \A u \in Thread : u # t => thread'[u] = thread[u]
  BY DEF TypeOK, Moves

(* A thread that is in its loop has been started and is not joined. *)
LEMMA JoinKept ==
    ASSUME IInv, NEW t \in Thread, NEW l \in Local, Moves(t, l),
           thread[t].pc \notin {"new", "done"}, UNCHANGED <<main, m_bRunning>>
    PROVE  JoinInv'
  <1>1. \A u \in Thread : u # t => thread'[u] = thread[u]
    BY MovesOne DEF IInv
  <1>2. m_bRunning[t]
    BY DEF IInv, JoinInv
  <1>3. main.at # "start" => t \in main.left
    BY DEF IInv, JoinInv
  <1> QED
    BY <1>1, <1>2, <1>3 DEF IInv, JoinInv

(* A step outside the calls leaves the ring as it is. *)
LEMMA OutsideKeeps ==
    ASSUME IInv, NEW t \in Thread, NEW l \in Local, Moves(t, l),
           ~InCall(t), l.pc \notin {"copy", "store"},
           UNCHANGED <<size, m_uIn, m_uOut, m_Lock>>,
           main'.at = "reset" <=> main.at = "reset"
    PROVE  LockInv' /\ DataInv' /\ RoomKept'
  <1>1. thread'[t] = l /\ \A u \in Thread : u # t => thread'[u] = thread[u]
    BY MovesOne DEF IInv
  <1>2. \A u \in Thread : InCall(u)' <=> InCall(u)
    BY <1>1 DEF InCall
  <1>3. \A u \in Thread : InCall(u) => thread'[u] = thread[u]
    BY <1>1
  <1>4. m_uSize' = m_uSize
    BY DEF m_uSize
  <1>5. GetAvail(m_uIn, m_uOut)' = GetAvail(m_uIn, m_uOut)
    BY <1>4 DEF GetAvail
  <1>6. LockInv' /\ DataInv'
    BY <1>2, <1>3 DEF IInv, LockInv, DataInv, Thread
  <1>7. RoomKept'
    BY <1>2, <1>3, <1>4, <1>5 DEF IInv, RoomKept, Thread, GetLen
  <1> QED
    BY <1>6, <1>7

(* The lock is taken with a len that fits. *)
LEMMA LocksKeeps ==
    ASSUME IInv, NEW t \in Thread, NEW l \in Local, Moves(t, l),
           m_Lock = NULL, m_Lock' = t, l.pc = "copy",
           UNCHANGED <<size, m_uIn, m_uOut, main>>,
           t \in Writers => /\ l.len <= GetAvail(m_uIn, m_uOut)
                            /\ l.data \in [1..l.len -> Byte],
           t \in Readers => l.len <= GetLen(m_uIn, m_uOut)
    PROVE  LockInv' /\ DataInv' /\ RoomKept'
  <1>1. thread'[t] = l /\ \A u \in Thread : u # t => thread'[u] = thread[u]
    BY MovesOne DEF IInv
  <1>2. \A u \in Thread : ~InCall(u)
    BY RingAssumption DEF IInv, LockInv
  <1>3. \A u \in Thread : InCall(u)' <=> u = t
    BY <1>1, <1>2 DEF InCall
  <1>4. m_uSize' = m_uSize
    BY DEF m_uSize
  <1>5. GetAvail(m_uIn, m_uOut)' = GetAvail(m_uIn, m_uOut)
    BY <1>4 DEF GetAvail
  <1>6. main.at # "reset" /\ t # Main
    BY RingAssumption DEF IInv, LockInv
  <1>7. LockInv' /\ DataInv'
    BY <1>1, <1>3, <1>6 DEF LockInv, DataInv, Thread
  <1>8. RoomKept'
    BY <1>1, <1>3, <1>4, <1>5, <1>6 DEF IInv, RoomKept, Thread, GetLen
  <1> QED
    BY <1>7, <1>8

(* The bytes are copied: the call keeps its lock and its len. *)
LEMMA CopiesKeeps ==
    ASSUME IInv, NEW t \in Thread, NEW l \in Local, Moves(t, l),
           thread[t].pc = "copy", l.pc = "store", l.len = thread[t].len,
           t \in Writers => l.data = thread[t].data,
           UNCHANGED <<size, m_uIn, m_uOut, m_Lock, main>>
    PROVE  LockInv' /\ DataInv' /\ RoomKept'
  <1>1. thread'[t] = l /\ \A u \in Thread : u # t => thread'[u] = thread[u]
    BY MovesOne DEF IInv
  <1>2. \A u \in Thread : /\ InCall(u)' <=> InCall(u)
                          /\ thread'[u].len = thread[u].len
                          /\ u \in Writers => thread'[u].data = thread[u].data
    BY <1>1 DEF InCall
  <1>3. m_uSize' = m_uSize
    BY DEF m_uSize
  <1>4. GetAvail(m_uIn, m_uOut)' = GetAvail(m_uIn, m_uOut)
    BY <1>3 DEF GetAvail
  <1>5. LockInv' /\ DataInv'
    BY <1>2 DEF IInv, LockInv, DataInv, Thread
  <1>6. RoomKept'
    BY <1>2, <1>3, <1>4 DEF IInv, RoomKept, Thread, GetLen
  <1> QED
    BY <1>5, <1>6

(* The position is stored and the lock released. *)
LEMMA StoresKeeps ==
    ASSUME IInv, NEW t \in Thread, NEW l \in Local, Moves(t, l),
           thread[t].pc = "store", l.pc \notin {"copy", "store"},
           m_Lock' = NULL, UNCHANGED <<size, main>>,
           GetLen(m_uIn', m_uOut') <= m_uSize
    PROVE  LockInv' /\ DataInv' /\ RoomKept'
  <1>1. thread'[t] = l /\ \A u \in Thread : u # t => thread'[u] = thread[u]
    BY MovesOne DEF IInv
  <1>2. m_Lock = t /\ main.at # "reset"
    BY RingAssumption DEF IInv, LockInv, InCall
  <1>3. \A u \in Thread : ~InCall(u)'
    BY <1>1, <1>2 DEF IInv, LockInv, InCall
  <1>4. m_uSize' = m_uSize
    BY DEF m_uSize
  <1>5. LockInv' /\ DataInv'
    BY <1>2, <1>3, RingAssumption DEF LockInv, DataInv, Thread
  <1>6. RoomKept'
    BY <1>2, <1>3, <1>4 DEF RoomKept, Thread, GetLen
  <1> QED
    BY <1>5, <1>6

-----------------------------------------------------------------------------
(* The main thread. *)

LEMMA StartSafe ==
    ASSUME IInv, NEW t \in Thread, Start(t)
    PROVE  IInv'
  <1> DEFINE l == [thread[t] EXCEPT !.pc = "top"]
  <1>1. thread[t] \in Local /\ l \in Local /\ l.pc = "top"
    BY DEF IInv, TypeOK, Local
  <1>2. /\ Moves(t, l) /\ main.at = "start" /\ t \in main.left /\ ~m_bRunning[t]
        /\ m_bRunning' = [m_bRunning EXCEPT ![t] = TRUE]
        /\ UNCHANGED <<size, m_uIn, m_uOut, m_pBuffer, m_Lock, resets, got>>
    BY DEF Start, ringVars
  <1>3. main' = IF main.left = {t} THEN [at |-> "join", left |-> Thread]
                ELSE [main EXCEPT !.left = @ \ {t}]
    BY DEF Start
  <1>4. /\ main' \in [at : {"start", "join", "reset", "deleted"}, left : SUBSET Thread]
        /\ main'.at = IF main.left = {t} THEN "join" ELSE "start"
        /\ main'.left = IF main.left = {t} THEN Thread ELSE main.left \ {t}
    BY <1>2, <1>3 DEF IInv, TypeOK
  <1> HIDE DEF l
  <1>5. /\ thread' \in [Thread -> Local] /\ thread'[t] = l
        /\ \A u \in Thread : u # t => thread'[u] = thread[u]
    BY <1>1, <1>2, MovesOne DEF IInv
  <1>6. m_uSize' = m_uSize
    BY <1>2 DEF m_uSize
  <1>7. TypeOK'
    <2>1. m_bRunning' \in [Thread -> BOOLEAN]
      BY <1>2 DEF IInv, TypeOK
    <2> QED
      BY <1>2, <1>4, <1>5, <1>6, <2>1 DEF IInv, TypeOK
  <1>8. ~InCall(t)
    BY <1>2 DEF IInv, JoinInv, InCall
  <1>9. LockInv' /\ DataInv' /\ RoomKept'
    BY <1>1, <1>2, <1>4, <1>8, OutsideKeeps
  <1>10. JoinInv'
    <2>1. \A u \in Thread : m_bRunning'[u] <=> u = t \/ m_bRunning[u]
      BY <1>2 DEF IInv, TypeOK
    <2>2. \A u \in Thread \ main.left : m_bRunning[u]
      BY <1>2 DEF IInv, JoinInv
    <2> QED
      BY <1>2, <1>4, <1>5, <2>1, <2>2 DEF IInv, JoinInv
  <1> QED
    BY <1>7, <1>9, <1>10 DEF IInv

LEMMA JoinSafe ==
    ASSUME IInv, NEW t \in Thread, Join(t)
    PROVE  IInv'
  <1>1. /\ main.at = "join" /\ t \in main.left /\ (m_bRunning[t] => thread[t].pc = "done")
        /\ UNCHANGED <<size, m_uIn, m_uOut, m_pBuffer, m_Lock, thread, m_bRunning, resets,
                       got>>
    BY DEF Join, ringVars
  <1>2. /\ main' \in [at : {"start", "join", "reset", "deleted"}, left : SUBSET Thread]
        /\ main'.at = IF main.left = {t} THEN "deleted" ELSE "join"
        /\ main'.left = main.left \ {t}
    BY DEF IInv, TypeOK, Join
  <1>3. m_uSize' = m_uSize
    BY <1>1 DEF m_uSize
  <1>4. TypeOK'
    BY <1>1, <1>2, <1>3 DEF IInv, TypeOK
  <1>5. \A u \in Thread : InCall(u)' <=> InCall(u)
    BY <1>1 DEF InCall
  <1>6. LockInv' /\ DataInv'
    BY <1>1, <1>2, <1>5 DEF IInv, LockInv, DataInv, Thread
  <1>7. RoomKept'
    <2>1. GetAvail(m_uIn, m_uOut)' = GetAvail(m_uIn, m_uOut)
      BY <1>1, <1>3 DEF GetAvail
    <2> QED
      BY <1>1, <1>3, <1>5, <2>1 DEF IInv, RoomKept, Thread, GetLen
  <1>8. JoinInv'
    BY <1>1, <1>2 DEF IInv, JoinInv
  <1> QED
    BY <1>4, <1>6, <1>7, <1>8 DEF IInv

(* Reset and ResetOut have the lock, so no call is under way. *)
LEMMA ResetsSafe ==
    ASSUME IInv, ResetOutPosition \/ ResetInPosition \/ ResetOut
    PROVE  IInv'
  <1>1. /\ UNCHANGED <<size, m_pBuffer, thread, m_bRunning, got>>
        /\ m_uIn' \in Position /\ m_uOut' \in Position /\ resets' \in 0..MaxResets
    BY RingAssumption
       DEF IInv, TypeOK, Position, ResetOutPosition, ResetInPosition, ResetOut
  <1>2. /\ main' \in [at : {"start", "join", "reset", "deleted"}, left : SUBSET Thread]
        /\ main'.left = main.left /\ main.at \in {"join", "reset"}
        /\ main'.at \in {"join", "reset"} /\ m_Lock' \in Thread \cup {Main, NULL}
    BY DEF IInv, TypeOK, ResetOutPosition, ResetInPosition, ResetOut
  <1>3. \A u \in Thread : ~InCall(u) /\ ~InCall(u)'
    BY <1>1, RingAssumption
       DEF IInv, LockInv, InCall, ResetOutPosition, ResetInPosition, ResetOut
  <1>4. m_uSize' = m_uSize
    BY <1>1 DEF m_uSize
  <1>5. TypeOK'
    BY <1>1, <1>2, <1>4 DEF IInv, TypeOK
  <1>6. /\ main'.at = "reset" <=> m_Lock' = Main
        /\ main'.at = "reset" => m_uOut' = 0
        /\ m_Lock' \in {Main, NULL}
        /\ main'.at # "reset" => m_uIn' = m_uOut'
    BY RingAssumption
       DEF IInv, TypeOK, LockInv, ResetOutPosition, ResetInPosition, ResetOut
  <1>7. LockInv' /\ DataInv'
    BY <1>3, <1>6, RingAssumption DEF LockInv, DataInv, Thread
  <1>8. RoomKept'
    <2>1. main'.at # "reset" => GetLen(m_uIn', m_uOut') = 0
      <3>1. Modulus % Modulus = 0
        BY RingAssumption, ModOnce
      <3>2. SUFFICES ASSUME main'.at # "reset"
                     PROVE  GetLen(m_uIn', m_uOut') = 0
        OBVIOUS
      <3>3. PICK pos \in Position : m_uIn' = pos /\ m_uOut' = pos
        BY <1>1, <1>6, <3>2
      <3>4. pos + Modulus - pos = Modulus
        BY <3>3, RingAssumption DEF Position
      <3> QED
        BY <3>1, <3>3, <3>4 DEF GetLen
    <2>2. m_uSize \in Nat
      BY SizeType DEF IInv, TypeOK, Position
    <2> QED
      BY <1>3, <1>4, <2>1, <2>2 DEF RoomKept, Thread, GetLen
  <1>9. JoinInv'
    BY <1>1, <1>2 DEF IInv, JoinInv
  <1> QED
    BY <1>5, <1>7, <1>8, <1>9 DEF IInv

-----------------------------------------------------------------------------
(* The threads. *)

(* IsFull and IsEmpty change nothing but the thread's locals. *)
LEMMA LoadsSafe ==
    ASSUME IInv, NEW t \in Thread, LoadsFirst(t) \/ LoadsSecond(t)
    PROVE  IInv'
  <1>1. thread[t].pc \in {"top", "half"}
        /\ UNCHANGED <<size, m_bRunning, main, resets, m_uIn, m_uOut, m_pBuffer, m_Lock, got>>
    BY DEF LoadsFirst, LoadsSecond, threadLoop, ringVars
  <1>2. PICK l \in Local : Moves(t, l) /\ l.pc \in {"top", "half", "lock"}
    <2>1. thread[t] \in Local /\ m_uIn \in Position /\ m_uOut \in Position
      BY DEF IInv, TypeOK
    <2>2. CASE LoadsFirst(t)
      <3>1. PICK f \in {"in", "out"} :
               Moves(t, [thread[t] EXCEPT !.pc = "half", !.first = f,
                                          !.seen = IF f = "in" THEN m_uIn ELSE m_uOut])
        BY <2>2 DEF LoadsFirst
      <3> DEFINE l == [thread[t] EXCEPT !.pc = "half", !.first = f,
                                        !.seen = IF f = "in" THEN m_uIn ELSE m_uOut]
      <3>2. l \in Local /\ l.pc = "half"
        BY <2>1, <3>1 DEF Local
      <3> QED
        BY <3>1, <3>2
    <2>3. CASE LoadsSecond(t)
      <3>1. PICK pc \in {"top", "lock"} :
               Moves(t, [thread[t] EXCEPT !.pc = pc, !.seen = 0])
        BY <2>3 DEF LoadsSecond
      <3> DEFINE l == [thread[t] EXCEPT !.pc = pc, !.seen = 0]
      <3>2. 0 \in Position
        BY RingAssumption DEF Position
      <3>3. l \in Local /\ l.pc = pc
        BY <2>1, <3>2 DEF Local
      <3> QED
        BY <3>1, <3>3
    <2> QED
      BY <2>2, <2>3
  <1>3. m_uSize' = m_uSize
    BY <1>1 DEF m_uSize
  <1>4. TypeOK'
    BY <1>1, <1>2, <1>3, MovesOne DEF IInv, TypeOK
  <1>5. ~InCall(t)
    BY <1>1 DEF InCall
  <1>6. LockInv' /\ DataInv' /\ RoomKept'
    BY <1>1, <1>2, <1>5, OutsideKeeps
  <1>7. JoinInv'
    BY <1>1, <1>2, JoinKept
  <1> QED
    BY <1>4, <1>6, <1>7 DEF IInv

(* What WriteData and ReadData find when they have the lock. *)
LEMMA RoomType ==
    ASSUME IInv
    PROVE  /\ m_uSize \in Position
           /\ GetLen(m_uIn, m_uOut) \in Position /\ GetAvail(m_uIn, m_uOut) \in Position
           /\ main.at # "reset" =>
                 GetAvail(m_uIn, m_uOut) = m_uSize - GetLen(m_uIn, m_uOut)
  <1>1. m_uSize \in Position
    BY SizeType DEF IInv, TypeOK
  <1> HIDE DEF m_uSize
  <1>2. GetLen(m_uIn, m_uOut) \in Position /\ GetAvail(m_uIn, m_uOut) \in Position
    BY <1>1, RingAssumption, ModIn DEF IInv, TypeOK, GetLen, GetAvail, Position
  <1>3. ASSUME main.at # "reset"
        PROVE  GetAvail(m_uIn, m_uOut) = m_uSize - GetLen(m_uIn, m_uOut)
    <2>1. GetLen(m_uIn, m_uOut) <= m_uSize
      BY <1>3 DEF IInv, RoomKept
    <2>2. /\ Modulus \in Nat \ {0} /\ m_uIn \in 0..(Modulus - 1)
          /\ m_uOut \in 0..(Modulus - 1) /\ m_uSize \in 0..(Modulus - 1)
      BY <1>1, RingAssumption DEF IInv, TypeOK, Position
    <2>3. (m_uIn + Modulus - m_uOut) % Modulus <= m_uSize
      BY <2>1 DEF GetLen
    <2> QED
      BY <2>2, <2>3, AvailExact DEF GetLen, GetAvail
  <1> QED
    BY <1>1, <1>2, <1>3

LEMMA WriteLocksSafe ==
    ASSUME IInv, NEW w \in Writers, WriteLocks(w)
    PROVE  IInv'
  <1>1. PICK n \in Lens(w) :
           LET len == Smaller(GetAvail(m_uIn, m_uOut), n)
           IN  Moves(w, [thread[w] EXCEPT !.pc = "copy", !.data = Brings(w, len),
                                          !.len = len])
    BY DEF WriteLocks
  <1> DEFINE len == Smaller(GetAvail(m_uIn, m_uOut), n)
             l == [thread[w] EXCEPT !.pc = "copy", !.data = Brings(w, len), !.len = len]
  <1>2. /\ thread[w].pc = "lock" /\ m_Lock = NULL /\ m_Lock' = w
        /\ UNCHANGED <<size, m_bRunning, main, resets, m_uIn, m_uOut, m_pBuffer, got>>
    BY DEF WriteLocks, threadLoop
  <1>3. w \in Thread /\ thread[w] \in Local
    BY DEF IInv, TypeOK, Thread
  <1>4. n \in Nat
    BY DEF Lens
  <1>5. len \in Nat /\ len <= GetAvail(m_uIn, m_uOut)
    BY <1>4, RoomType, RingAssumption DEF Smaller, Position
  <1>6. Moves(w, l)
    BY <1>1
  <1> HIDE DEF len
  <1>7. Brings(w, len) \in [1..len -> Byte] /\ Brings(w, len) \in Seq(Byte)
    <2>1. \A i \in 1..len : <<w, thread[w].times + i>> \in Byte
      BY <1>3, <1>5 DEF Byte, Local
    <2>2. Brings(w, len) \in [1..len -> Byte]
      BY <2>1 DEF Brings
    <2> QED
      BY <1>5, <2>2, SeqDef
  <1>8. l \in Local /\ l.pc = "copy" /\ l.len = len /\ l.data = Brings(w, len)
    BY <1>3, <1>5, <1>7 DEF Local
  <1> HIDE DEF l
  <1>9. m_uSize' = m_uSize
    BY <1>2 DEF m_uSize
  <1>10. TypeOK'
    BY <1>2, <1>3, <1>6, <1>8, <1>9, MovesOne DEF IInv, TypeOK
  <1>11. LockInv' /\ DataInv' /\ RoomKept'
    <2>1. w \notin Readers
      BY RingAssumption
    <2> QED
      BY <1>2, <1>3, <1>5, <1>6, <1>7, <1>8, <2>1, LocksKeeps
  <1>12. JoinInv'
    BY <1>2, <1>3, <1>6, <1>8, JoinKept
  <1> QED
    BY <1>10, <1>11, <1>12 DEF IInv

(* The data of a write are bytes; so is what it leaves in the storage. *)
LEMMA WriteCopiesSafe ==
    ASSUME IInv, NEW w \in Writers, WriteCopies(w)
    PROVE  IInv'
  <1> DEFINE l == [thread[w] EXCEPT !.pc = "store"]
  <1>1. /\ thread[w].pc = "copy" /\ Moves(w, l)
        /\ UNCHANGED <<size, m_bRunning, main, resets, m_uIn, m_uOut, m_Lock, got>>
    BY DEF WriteCopies, threadLoop
  <1>2. w \in Thread /\ thread[w] \in Local
    BY DEF IInv, TypeOK, Thread
  <1>3. l \in Local /\ l.pc = "store" /\ l.len = thread[w].len /\ l.data = thread[w].data
    BY <1>2 DEF Local
  <1>4. m_uSize' = m_uSize
    BY <1>1 DEF m_uSize
  <1>5. m_pBuffer' \in [0..(m_uSize - 1) -> Byte]
    <2>1. thread[w].len \in Nat /\ thread[w].data \in [1..thread[w].len -> Byte]
      BY <1>1, <1>2 DEF IInv, DataInv, InCall, Local
    <2>2. ASSUME NEW s \in 0..(m_uSize - 1), Place(m_uIn, s) < thread[w].len
          PROVE  thread[w].data[Place(m_uIn, s) + 1] \in Byte
      <3>1. m_uSize \in Position /\ m_uSize # 0
        BY RoomType DEF Position
      <3> DEFINE off == m_uIn % m_uSize
      <3>2. off \in 0..(m_uSize - 1)
        BY <3>1, ModIn DEF IInv, TypeOK, Position
      <3>3. Place(m_uIn, s) = IF s >= off THEN s - off ELSE s + m_uSize - off
        BY DEF Place
      <3> HIDE DEF off, m_uSize
      <3>4. Place(m_uIn, s) \in Nat
        BY <3>1, <3>2, <3>3 DEF Position
      <3> QED
        BY <2>1, <2>2, <3>4
    <2>3. m_pBuffer \in [0..(m_uSize - 1) -> Byte]
      BY DEF IInv, TypeOK
    <2> QED
      BY <2>2, <2>3 DEF WriteCopies
  <1> HIDE DEF l
  <1>6. TypeOK'
    BY <1>1, <1>2, <1>3, <1>4, <1>5, MovesOne DEF IInv, TypeOK
  <1>7. LockInv' /\ DataInv' /\ RoomKept'
    BY <1>1, <1>2, <1>3, CopiesKeeps
  <1>8. JoinInv'
    BY <1>1, <1>2, <1>3, JoinKept
  <1> QED
    BY <1>6, <1>7, <1>8 DEF IInv

(* The locals of a thread that left its call. *)
LEMMA PassedType ==
    ASSUME TypeOK, NEW t \in Thread
    PROVE  Passed(t) \in Local /\ Passed(t).pc \in {"top", "done"}
  <1> DEFINE times == thread[t].times + thread[t].len
             pc == IF times >= IOTimes[t] THEN "done" ELSE "top"
  <1>1. times \in Nat
    BY DEF TypeOK, Local
  <1>2. Idle \in Local
    BY RingAssumption DEF Idle, Local, Position
  <1>3. pc \in {"top", "done"}
    OBVIOUS
  <1>4. Passed(t) = [Idle EXCEPT !.times = times, !.pc = pc]
    BY DEF Passed
  <1> HIDE DEF times, pc
  <1> QED
    BY <1>1, <1>2, <1>3, <1>4 DEF Local

LEMMA WriteStoresSafe ==
    ASSUME IInv, NEW w \in Writers, WriteStores(w)
    PROVE  IInv'
  <1>1. /\ thread[w].pc = "store" /\ Moves(w, Passed(w)) /\ m_Lock' = NULL
        /\ m_uIn' = Advance(m_uIn, thread[w].len)
        /\ UNCHANGED <<size, m_bRunning, main, resets, m_uOut, m_pBuffer, got>>
    BY DEF WriteStores, threadLoop
  <1>2. w \in Thread /\ thread[w].len \in Nat
    BY DEF IInv, TypeOK, Thread, Local
  <1>3. Passed(w) \in Local /\ Passed(w).pc \in {"top", "done"}
    BY <1>2, PassedType DEF IInv
  <1>4. m_uIn' \in Position
    <2>1. m_uIn + thread[w].len \in Int
      BY <1>2 DEF IInv, TypeOK, Position
    <2> QED
      BY <1>1, <2>1, RingAssumption, ModIn DEF Advance, Position
  <1>5. m_uSize' = m_uSize
    BY <1>1 DEF m_uSize
  <1>6. TypeOK'
    BY <1>1, <1>2, <1>3, <1>4, <1>5, MovesOne DEF IInv, TypeOK
  <1>7. GetLen(m_uIn', m_uOut') <= m_uSize
    <2>1. InCall(w) /\ main.at # "reset"
      BY <1>1, <1>2, RingAssumption DEF IInv, LockInv, InCall
    <2>2. thread[w].len <= m_uSize - GetLen(m_uIn, m_uOut)
      BY <2>1, RoomType DEF IInv, RoomKept
    <2>3. m_uSize \in Position /\ GetLen(m_uIn, m_uOut) \in Position
      BY RoomType
    <2> HIDE DEF m_uSize
    <2>4. GetLen(m_uIn, m_uOut) + thread[w].len < Modulus
      BY <1>2, <2>2, <2>3, RingAssumption DEF Position
    <2>5. GetLen(m_uIn', m_uOut') = GetLen(m_uIn, m_uOut) + thread[w].len
      <3>1. Modulus \in Nat \ {0} /\ m_uIn \in 0..(Modulus - 1) /\ m_uOut \in 0..(Modulus - 1)
        BY RingAssumption DEF IInv, TypeOK, Position
      <3>2. GetLen(Advance(m_uIn, thread[w].len), m_uOut)
              = GetLen(m_uIn, m_uOut) + thread[w].len
        BY <1>2, <2>4, <3>1, LenAfterWrite DEF GetLen, Advance
      <3> QED
        BY <1>1, <3>2
    <2> QED
      BY <1>2, <2>2, <2>3, <2>5 DEF Position
  <1>8. LockInv' /\ DataInv' /\ RoomKept'
    BY <1>1, <1>2, <1>3, <1>7, StoresKeeps
  <1>9. JoinInv'
    BY <1>1, <1>2, <1>3, JoinKept
  <1> QED
    BY <1>6, <1>8, <1>9 DEF IInv

LEMMA ReadLocksSafe ==
    ASSUME IInv, NEW r \in Readers, ReadLocks(r)
    PROVE  IInv'
  <1>1. PICK n \in Lens(r) :
           Moves(r, [thread[r] EXCEPT !.pc = "copy",
                                      !.len = Smaller(GetLen(m_uIn, m_uOut), n)])
    BY DEF ReadLocks
  <1> DEFINE len == Smaller(GetLen(m_uIn, m_uOut), n)
             l == [thread[r] EXCEPT !.pc = "copy", !.len = len]
  <1>2. /\ thread[r].pc = "lock" /\ m_Lock = NULL /\ m_Lock' = r
        /\ UNCHANGED <<size, m_bRunning, main, resets, m_uIn, m_uOut, m_pBuffer, got>>
    BY DEF ReadLocks, threadLoop
  <1>3. r \in Thread /\ thread[r] \in Local /\ r \notin Writers
    BY RingAssumption DEF IInv, TypeOK, Thread
  <1>4. n \in Nat
    BY DEF Lens
  <1>5. len \in Nat /\ len <= GetLen(m_uIn, m_uOut)
    BY <1>4, RoomType, RingAssumption DEF Smaller, Position
  <1>6. Moves(r, l)
    BY <1>1
  <1> HIDE DEF len
  <1>7. l \in Local /\ l.pc = "copy" /\ l.len = len
    BY <1>3, <1>5 DEF Local
  <1> HIDE DEF l
  <1>8. m_uSize' = m_uSize
    BY <1>2 DEF m_uSize
  <1>9. TypeOK'
    BY <1>2, <1>3, <1>6, <1>7, <1>8, MovesOne DEF IInv, TypeOK
  <1>10. LockInv' /\ DataInv' /\ RoomKept'
    BY <1>2, <1>3, <1>5, <1>6, <1>7, LocksKeeps
  <1>11. JoinInv'
    BY <1>2, <1>3, <1>6, <1>7, JoinKept
  <1> QED
    BY <1>9, <1>10, <1>11 DEF IInv

(* The bytes that ReadData copies are in the storage. *)
LEMMA ReadCopiesSafe ==
    ASSUME IInv, NEW r \in Readers, ReadCopies(r)
    PROVE  IInv'
  <1> DEFINE data == [i \in 1..thread[r].len |-> m_pBuffer[Slot(m_uOut, i - 1)]]
             l == [thread[r] EXCEPT !.pc = "store", !.data = data]
  <1>1. /\ thread[r].pc = "copy" /\ Moves(r, l)
        /\ UNCHANGED <<size, m_bRunning, main, resets, m_uIn, m_uOut, m_pBuffer, m_Lock, got>>
    BY DEF ReadCopies, threadLoop, ringVars
  <1>2. r \in Thread /\ thread[r] \in Local /\ r \notin Writers /\ thread[r].len \in Nat
    BY RingAssumption DEF IInv, TypeOK, Thread, Local
  <1>3. data \in [1..thread[r].len -> Byte]
    <2>1. thread[r].len <= m_uSize
      <3>1. main.at # "reset" /\ InCall(r)
        BY <1>1, <1>2, RingAssumption DEF IInv, LockInv, InCall
      <3>2. /\ thread[r].len <= GetLen(m_uIn, m_uOut)
            /\ GetLen(m_uIn, m_uOut) <= m_uSize
        BY <3>1 DEF IInv, RoomKept
      <3> HIDE DEF m_uSize
      <3> QED
        BY <1>2, <3>2, RoomType DEF Position
    <2>2. ASSUME NEW i \in 1..thread[r].len
          PROVE  m_pBuffer[Slot(m_uOut, i - 1)] \in Byte
      <3> DEFINE off == m_uOut % m_uSize
      <3>1. m_uSize \in Nat \ {0} /\ i - 1 \in 0..(m_uSize - 1)
        BY <1>2, <2>1, RoomType DEF Position
      <3>2. off \in 0..(m_uSize - 1)
        BY <3>1, ModIn DEF IInv, TypeOK, Position
      <3>3. Slot(m_uOut, i - 1) = IF i - 1 < m_uSize - off THEN off + (i - 1)
                                  ELSE (i - 1) - (m_uSize - off)
        BY DEF Slot
      <3>4. m_pBuffer \in [0..(m_uSize - 1) -> Byte]
        BY DEF IInv, TypeOK
      <3> HIDE DEF off, m_uSize
      <3>5. Slot(m_uOut, i - 1) \in 0..(m_uSize - 1)
        BY <3>1, <3>2, <3>3
      <3> QED
        BY <3>4, <3>5
    <2> QED
      BY <2>2
  <1>4. data \in Seq(Byte)
    <2> HIDE DEF data
    <2> QED
      BY <1>2, <1>3, SeqDef
  <1> HIDE DEF data
  <1>5. l \in Local /\ l.pc = "store" /\ l.len = thread[r].len
    BY <1>2, <1>4 DEF Local
  <1> HIDE DEF l
  <1>6. m_uSize' = m_uSize
    BY <1>1 DEF m_uSize
  <1>7. TypeOK'
    BY <1>1, <1>2, <1>5, <1>6, MovesOne DEF IInv, TypeOK
  <1>8. LockInv' /\ DataInv' /\ RoomKept'
    BY <1>1, <1>2, <1>5, CopiesKeeps
  <1>9. JoinInv'
    BY <1>1, <1>2, <1>5, JoinKept
  <1> QED
    BY <1>7, <1>8, <1>9 DEF IInv

LEMMA ReadStoresSafe ==
    ASSUME IInv, NEW r \in Readers, ReadStores(r)
    PROVE  IInv'
  <1>1. /\ thread[r].pc = "store" /\ Moves(r, Passed(r)) /\ m_Lock' = NULL
        /\ m_uOut' = Advance(m_uOut, thread[r].len)
        /\ got' = IF thread[r].len = 0 THEN got ELSE thread[r].data
        /\ UNCHANGED <<size, m_bRunning, main, resets, m_uIn, m_pBuffer>>
    BY DEF ReadStores, threadLoop
  <1>2. r \in Thread /\ thread[r].len \in Nat /\ thread[r].data \in Seq(Byte)
    BY DEF IInv, TypeOK, Thread, Local
  <1>3. Passed(r) \in Local /\ Passed(r).pc \in {"top", "done"}
    BY <1>2, PassedType DEF IInv
  <1>4. m_uOut' \in Position
    <2>1. m_uOut + thread[r].len \in Int
      BY <1>2 DEF IInv, TypeOK, Position
    <2> QED
      BY <1>1, <2>1, RingAssumption, ModIn DEF Advance, Position
  <1>5. m_uSize' = m_uSize
    BY <1>1 DEF m_uSize
  <1>6. TypeOK'
    <2>1. got' \in Seq(Byte)
      BY <1>1, <1>2 DEF IInv, TypeOK
    <2> QED
      BY <1>1, <1>2, <1>3, <1>4, <1>5, <2>1, MovesOne DEF IInv, TypeOK
  <1>7. GetLen(m_uIn', m_uOut') <= m_uSize
    <2>1. InCall(r) /\ main.at # "reset"
      BY <1>1, <1>2, RingAssumption DEF IInv, LockInv, InCall
    <2>2. thread[r].len <= GetLen(m_uIn, m_uOut) /\ GetLen(m_uIn, m_uOut) <= m_uSize
      BY <2>1 DEF IInv, RoomKept
    <2>3. m_uSize \in Position /\ GetLen(m_uIn, m_uOut) \in Position
      BY RoomType
    <2> HIDE DEF m_uSize
    <2>4. GetLen(m_uIn', m_uOut') = GetLen(m_uIn, m_uOut) - thread[r].len
      <3>1. Modulus \in Nat \ {0} /\ m_uIn \in 0..(Modulus - 1) /\ m_uOut \in 0..(Modulus - 1)
        BY RingAssumption DEF IInv, TypeOK, Position
      <3>2. GetLen(m_uIn, Advance(m_uOut, thread[r].len))
              = GetLen(m_uIn, m_uOut) - thread[r].len
        BY <1>2, <2>2, <3>1, LenAfterRead DEF GetLen, Advance
      <3> QED
        BY <1>1, <3>2
    <2> QED
      BY <1>2, <2>2, <2>3, <2>4 DEF Position
  <1>8. LockInv' /\ DataInv' /\ RoomKept'
    BY <1>1, <1>2, <1>3, <1>7, StoresKeeps
  <1>9. JoinInv'
    BY <1>1, <1>2, <1>3, JoinKept
  <1> QED
    BY <1>6, <1>8, <1>9 DEF IInv

-----------------------------------------------------------------------------
(* The theorems. *)

(* Every step keeps the inductive invariant. *)
LEMMA NextSafe ==
    ASSUME IInv, [Next]_vars
    PROVE  IInv'
  <1>1. CASE StartsAndJoins
    BY <1>1, StartSafe, JoinSafe DEF StartsAndJoins
  <1>2. CASE Resets \/ ResetInPosition
    BY <1>2, ResetsSafe DEF Resets
  <1>3. ASSUME NEW t \in Thread, Run(t)
        PROVE  IInv'
    BY <1>3, LoadsSafe, WriteLocksSafe, WriteCopiesSafe, WriteStoresSafe, ReadLocksSafe,
       ReadCopiesSafe, ReadStoresSafe DEF Run, Writer, Reader
  <1>4. CASE UNCHANGED vars
    <2>1. UNCHANGED <<size, m_uIn, m_uOut, m_pBuffer, m_Lock, thread, m_bRunning, main,
                      resets, got>>
      BY <1>4 DEF vars, ringVars
    <2>2. UNCHANGED <<TypeOK, LockInv, DataInv, JoinInv>>
      BY <2>1 DEF TypeOK, LockInv, DataInv, JoinInv, InCall, m_uSize
    <2>3. UNCHANGED RoomKept
      BY <2>1 DEF RoomKept, InCall, GetLen, GetAvail, m_uSize
    <2> QED
      BY <2>2, <2>3 DEF IInv
  <1> QED
    BY <1>1, <1>2, <1>3, <1>4 DEF Next

(* The inductive invariant holds in every reachable state. *)
LEMMA Invariance == Spec => []IInv
  <1>1. Init => IInv
    BY InitSafe
  <1>2. IInv /\ [Next]_vars => IInv'
    BY NextSafe
  <1> QED
    BY <1>1, <1>2, PTL DEF Spec

(* The positions, the lock and the threads' locals keep their types: a     *)
(* position never leaves BufferSize, and every copied byte is in the       *)
(* storage.                                                                *)
THEOREM Types == Spec => []TypeOK
  <1>1. IInv => TypeOK
    BY DEF IInv
  <1> QED
    BY <1>1, Invariance, PTL

(* However many threads share the ring, and whatever IsFull and IsEmpty    *)
(* answer them, no WriteData overwrites a byte that was not read, and no   *)
(* ReadData returns one that was not written (ring_buffer.cpp:57-81).      *)
THEOREM RoomIsKept == Spec => []RoomKept
  <1>1. IInv => RoomKept
    BY DEF IInv
  <1> QED
    BY <1>1, Invariance, PTL

(* Joining every thread (thread_base.cpp:36-45) is enough to delete the    *)
(* ring that they share.                                                   *)
THEOREM NoneLeftInside == Spec => []NoUseAfterDelete
  <1>1. IInv => NoUseAfterDelete
    BY DEF IInv, JoinInv, NoUseAfterDelete
  <1> QED
    BY <1>1, Invariance, PTL

(* RoundUpPowOfTwo (ring_buffer_base.h:35-51) gives every ring the least   *)
(* power of two that holds what was asked for, and a ring of no byte to    *)
(* whoever asks for none or for more than half of what BufferSize counts.  *)
THEOREM RoundsUpAlways == Spec => []RoundsUp
  <1>1. IInv => RoundsUp
    BY SizeRoundsUp DEF IInv, TypeOK
  <1> QED
    BY <1>1, Invariance, PTL

-----------------------------------------------------------------------------
(***************************************************************************)
(* RingBufferLocked implements BoundedFifo, for any number of threads, any *)
(* width of BufferSize and any size: the proof that ImplementsFifo holds.  *)
(*                                                                         *)
(* The bytes of the queue are those between the positions. A write copies  *)
(* its bytes beyond them (CopyIsBeyond), so the queue grows when m_uIn is  *)
(* stored, by what was copied (WrittenInv), and a read takes its bytes off *)
(* when m_uOut is stored. The places of the bytes are counted modulo the   *)
(* size and the positions modulo 256, which the size divides.              *)
(***************************************************************************)

(* What the call copied is what is there. *)
Written(t) ==
    IF t \in Writers
    THEN \A i \in 0..(thread[t].len - 1) :
            m_pBuffer[Slot(m_uIn, i)] = thread[t].data[i + 1]
    ELSE thread[t].data = [i \in 1..thread[t].len |-> m_pBuffer[Slot(m_uOut, i - 1)]]

WrittenInv == \A t \in Thread : thread[t].pc = "store" => Written(t)

(* The bytes between the positions. *)
Bytes == [i \in 1..GetLen(m_uIn, m_uOut) |-> m_pBuffer[Slot(m_uOut, i - 1)]]

(* The queue, and what the WriteData call in progress accepted. *)
Queue == IF main.at = "reset" THEN <<>> ELSE Bytes
Taken == IF m_Lock \in Writers THEN thread[m_Lock].data ELSE <<>>

-----------------------------------------------------------------------------
(* Places. *)

(* The size of a ring that has a byte divides the modulus. *)
LEMMA SizeDivides ==
    ASSUME size \in Position, m_uSize # 0
    PROVE  m_uSize \in Nat \ {0} /\ Modulus % m_uSize = 0
  <1> DEFINE top == (size + Modulus - 1) % Modulus
             p == CHOOSE p \in PowersOfTwo :
                     p > top /\ \A q \in PowersOfTwo : q > top => p <= q
  <1>1. top \in Position
    BY RingAssumption, ModIn DEF Position
  <1>2. p \in PowersOfTwo
    <2> HIDE DEF top
    <2> QED
      BY <1>1, PowerAbove
  <1>3. m_uSize = p % Modulus
    BY DEF m_uSize, RoundUpPowOfTwo
  <1> HIDE DEF p
  <1>4. p \in 1..Modulus /\ Modulus % p = 0
    BY <1>2 DEF PowersOfTwo
  <1>5. CASE p < Modulus
    <2>1. p % Modulus = p
      BY <1>4, <1>5, RingAssumption, ModBelow
    <2> QED
      BY <1>3, <1>4, <2>1
  <1>6. CASE p = Modulus
    <2>1. Modulus % Modulus = 0
      BY RingAssumption, ModOnce
    <2> QED
      BY <1>3, <1>6, <2>1
  <1> QED
    BY <1>4, <1>5, <1>6, RingAssumption

(* The place of a byte, counted on from a position. *)
LEMMA SlotExact ==
    ASSUME size \in Position, NEW pos \in Position, NEW i \in 0..(m_uSize - 1)
    PROVE  /\ Slot(pos, i) = (pos + i) % m_uSize
           /\ Slot(pos, i) \in 0..(m_uSize - 1)
  <1>1. m_uSize \in Nat \ {0} /\ pos \in Int
    BY SizeType DEF Position
  <1>2. Slot(pos, i) = IF i < m_uSize - (pos % m_uSize) THEN (pos % m_uSize) + i
                       ELSE i - (m_uSize - (pos % m_uSize))
    BY DEF Slot
  <1> HIDE DEF m_uSize
  <1>3. Slot(pos, i) = (pos + i) % m_uSize
    BY <1>1, <1>2, PlaceExact
  <1>4. pos + i \in Int
    BY <1>1
  <1> QED
    BY <1>1, <1>3, <1>4, ModIn

(* Counting from a position n on is counting n further. *)
LEMMA SlotAdvance ==
    ASSUME size \in Position, NEW pos \in Position, NEW n \in Nat, NEW i \in Nat,
           n + i < m_uSize
    PROVE  Slot(Advance(pos, n), i) = Slot(pos, n + i)
  <1>1. m_uSize \in Nat \ {0} /\ Modulus % m_uSize = 0 /\ pos \in Int
    <2>1. m_uSize # 0
      BY SizeType DEF Position
    <2> QED
      BY <2>1, SizeDivides DEF Position
  <1>2. Advance(pos, n) \in Position
    BY <1>1, RingAssumption, ModIn DEF Advance, Position
  <1> HIDE DEF m_uSize
  <1>3. i \in 0..(m_uSize - 1) /\ n + i \in 0..(m_uSize - 1)
    BY <1>1
  <1>4. Slot(Advance(pos, n), i) = (Advance(pos, n) + i) % m_uSize
    BY <1>2, <1>3, SlotExact
  <1>5. Slot(pos, n + i) = (pos + (n + i)) % m_uSize
    BY <1>3, SlotExact
  <1>6. (((pos + n) % Modulus) + i) % m_uSize = ((pos + n) + i) % m_uSize
    <2>1. \A S, M \in Nat \ {0}, x, j \in Int :
             M % S = 0 => ((x % M) + j) % S = (x + j) % S
      BY ModAdd
    <2>2. pos + n \in Int /\ i \in Int /\ Modulus \in Nat \ {0}
      BY <1>1, RingAssumption
    <2> QED
      BY <1>1, <2>1, <2>2, Zenon
  <1>7. (pos + n) + i = pos + (n + i)
    BY <1>1
  <1> QED
    BY <1>4, <1>5, <1>6, <1>7 DEF Advance

(* Different bytes of a stretch are at different places. *)
LEMMA SlotApart ==
    ASSUME size \in Position, NEW pos \in Position, NEW i \in 0..(m_uSize - 1),
           NEW j \in 0..(m_uSize - 1), Slot(pos, i) = Slot(pos, j)
    PROVE  i = j
  <1>1. m_uSize \in Nat \ {0} /\ pos \in Int
    BY SizeType DEF Position
  <1>2. (pos + i) % m_uSize = (pos + j) % m_uSize
    BY SlotExact
  <1> HIDE DEF m_uSize
  <1>3. pos + i \in Int /\ pos + j \in Int
    BY <1>1
  <1>4. CASE i <= j
    <2>1. pos + i <= pos + j /\ (pos + j) - (pos + i) < m_uSize
      BY <1>1, <1>4
    <2>2. pos + i = pos + j
      BY <1>1, <1>2, <1>3, <2>1, ModSame
    <2> QED
      BY <1>1, <2>2
  <1>5. CASE j <= i
    <2>1. pos + j <= pos + i /\ (pos + i) - (pos + j) < m_uSize
      BY <1>1, <1>5
    <2>2. pos + j = pos + i
      BY <1>1, <1>2, <1>3, <2>1, ModSame
    <2> QED
      BY <1>1, <2>2
  <1> QED
    BY <1>4, <1>5

(* Place is the inverse of Slot. *)
LEMMA PlaceInverse ==
    ASSUME size \in Position, NEW pos \in Position, NEW s \in 0..(m_uSize - 1)
    PROVE  Place(pos, s) \in 0..(m_uSize - 1) /\ Slot(pos, Place(pos, s)) = s
  <1> DEFINE off == pos % m_uSize
  <1>1. m_uSize \in Nat \ {0} /\ pos \in Int
    BY SizeType DEF Position
  <1>2. off \in 0..(m_uSize - 1)
    BY <1>1, ModIn
  <1>3. Place(pos, s) = IF s >= off THEN s - off ELSE s + m_uSize - off
    BY DEF Place
  <1>4. \A i : Slot(pos, i) = IF i < m_uSize - off THEN off + i ELSE i - (m_uSize - off)
    BY DEF Slot
  <1> HIDE DEF off, m_uSize
  <1> QED
    BY <1>1, <1>2, <1>3, <1>4

(* What is where it is in a stretch has its place there. *)
LEMMA SlotInverse ==
    ASSUME size \in Position, NEW pos \in Position, NEW i \in 0..(m_uSize - 1)
    PROVE  Place(pos, Slot(pos, i)) = i
  <1>1. Slot(pos, i) \in 0..(m_uSize - 1)
    BY SlotExact
  <1>2. /\ Place(pos, Slot(pos, i)) \in 0..(m_uSize - 1)
        /\ Slot(pos, Place(pos, Slot(pos, i))) = Slot(pos, i)
    BY <1>1, PlaceInverse
  <1> QED
    BY <1>2, SlotApart

-----------------------------------------------------------------------------
(* The steps of the queue, by the names that the states have here. *)

(* A step that leaves all three as they are is a stutter. *)
LEMMA Stutters ==
    ASSUME UNCHANGED <<Queue, Taken, got>>
    PROVE  UNCHANGED Fifo!vars
  BY DEF Fifo!vars, Queue, Bytes, Taken

(* WriteData accepts bytes. *)
LEMMA Accepts ==
    ASSUME Taken = <<>>, NEW n \in 1..(Modulus - Len(Queue)), Taken' \in [1..n -> Byte],
           UNCHANGED <<Queue, got>>
    PROVE  Fifo!Next
  <1>1. Fifo!Accept
    BY DEF Fifo!Accept, Queue, Bytes, Taken
  <1> QED
    BY <1>1 DEF Fifo!Next

(* WriteData appends them. *)
LEMMA Writes ==
    ASSUME Taken # <<>>, Queue' = Queue \o Taken, Taken' = <<>>, UNCHANGED got
    PROVE  Fifo!Next
  <1>1. Fifo!Write
    BY DEF Fifo!Write, Queue, Bytes, Taken
  <1> QED
    BY <1>1 DEF Fifo!Next

(* ReadData takes bytes off and returns them. *)
LEMMA Reads ==
    ASSUME NEW n \in 1..Len(Queue), Queue' = SubSeq(Queue, n + 1, Len(Queue)),
           got' = SubSeq(Queue, 1, n), UNCHANGED Taken
    PROVE  Fifo!Next
  <1>1. Fifo!Read
    BY DEF Fifo!Read, Fifo!TakeOff, Queue, Bytes, Taken
  <1> QED
    BY <1>1 DEF Fifo!Next

(* A reset takes off all there is. *)
LEMMA Drops ==
    ASSUME Queue \in Seq(Byte), Queue' = <<>>, UNCHANGED <<Taken, got>>
    PROVE  [Fifo!Next]_(Fifo!vars)
  <1>1. CASE Queue = <<>>
    BY <1>1, Stutters
  <1>2. CASE Queue # <<>>
    <2> DEFINE n == Len(Queue)
    <2>1. n \in 1..Len(Queue) /\ n \in Nat
      BY <1>2, EmptySeq
    <2>2. Queue' = SubSeq(Queue, n + 1, Len(Queue))
      BY <2>1, SubSeqEmpty
    <2>3. Fifo!Drop
      BY <2>1, <2>2 DEF Fifo!Drop, Fifo!TakeOff, Queue, Bytes, Taken
    <2> QED
      BY <2>3 DEF Fifo!Next
  <1> QED
    BY <1>1, <1>2

(* A stretch of a queue, byte by byte. *)
LEMMA SubSeqIs ==
    ASSUME NEW q, NEW m \in Nat, NEW n \in Nat
    PROVE  SubSeq(q, m + 1, n) = [i \in 1..(n - m) |-> q[m + i]]
  OBVIOUS

-----------------------------------------------------------------------------
(* The storage. *)

(* The positions, and the place of a byte in the ring or beyond it. *)
LEMMA RingType ==
    ASSUME IInv
    PROVE  /\ size \in Position /\ m_uIn \in Position /\ m_uOut \in Position
           /\ m_uSize \in Nat /\ m_uSize < Modulus /\ Modulus \in Nat \ {0}
           /\ GetLen(m_uIn, m_uOut) \in Nat
           /\ m_pBuffer \in [0..(m_uSize - 1) -> Byte]
           /\ main.at # "reset" => GetLen(m_uIn, m_uOut) <= m_uSize
  <1>1. size \in Position /\ m_uIn \in Position /\ m_uOut \in Position
    BY DEF IInv, TypeOK
  <1>2. m_pBuffer \in [0..(m_uSize - 1) -> Byte]
    BY DEF IInv, TypeOK
  <1>3. main.at # "reset" => GetLen(m_uIn, m_uOut) <= m_uSize
    BY DEF IInv, RoomKept
  <1> HIDE DEF m_uSize
  <1>4. m_uSize \in Position /\ GetLen(m_uIn, m_uOut) \in Position
    BY RoomType
  <1> QED
    BY <1>1, <1>2, <1>3, <1>4, RingAssumption DEF Position

(* The bytes of the queue are bytes. *)
LEMMA BytesType ==
    ASSUME IInv, main.at # "reset"
    PROVE  /\ Bytes \in Seq(Byte) /\ Len(Bytes) = GetLen(m_uIn, m_uOut)
           /\ \A i \in 1..GetLen(m_uIn, m_uOut) : Bytes[i] = m_pBuffer[Slot(m_uOut, i - 1)]
  <1> DEFINE L == GetLen(m_uIn, m_uOut)
  <1>1. ASSUME NEW i \in 1..L
        PROVE  m_pBuffer[Slot(m_uOut, i - 1)] \in Byte
    <2>1. i - 1 \in 0..(m_uSize - 1)
      <3> HIDE DEF m_uSize
      <3> QED
        BY RingType
    <2>2. Slot(m_uOut, i - 1) \in 0..(m_uSize - 1)
      BY <2>1, RingType, SlotExact
    <2> QED
      BY <2>2, RingType
  <1>2. L \in Nat
    BY RingType
  <1>3. Bytes = [i \in 1..L |-> m_pBuffer[Slot(m_uOut, i - 1)]]
    BY DEF Bytes
  <1> HIDE DEF L
  <1>4. Bytes \in [1..L -> Byte]
    BY <1>1, <1>3
  <1>5. Bytes \in Seq(Byte) /\ Len(Bytes) = L
    BY <1>2, <1>4, SeqDef
  <1> QED
    BY <1>3, <1>5 DEF L

(* A write copies beyond the bytes of the ring. *)
LEMMA CopyIsBeyond ==
    ASSUME IInv, main.at # "reset", NEW i \in 1..GetLen(m_uIn, m_uOut), NEW n \in Nat,
           n <= GetAvail(m_uIn, m_uOut)
    PROVE  ~(Place(m_uIn, Slot(m_uOut, i - 1)) < n)
  <1> DEFINE L == GetLen(m_uIn, m_uOut)
             k == Place(m_uIn, Slot(m_uOut, i - 1))
  <1>1. L \in Nat /\ L <= m_uSize /\ m_uSize \in Nat /\ i \in 1..L
    BY RingType
  <1>2. n <= m_uSize - L
    BY RoomType
  <1>3. i - 1 \in 0..(m_uSize - 1)
    <2> HIDE DEF m_uSize, L
    <2> QED
      BY <1>1
  <1>4. Slot(m_uOut, i - 1) \in 0..(m_uSize - 1)
    BY <1>3, RingType, SlotExact
  <1>5. k \in 0..(m_uSize - 1) /\ Slot(m_uIn, k) = Slot(m_uOut, i - 1)
    BY <1>4, RingType, PlaceInverse
  <1>6. m_uIn = Advance(m_uOut, L)
    BY RingType, LaterExact DEF Advance, GetLen, Position
  <1> HIDE DEF k, L, m_uSize
  <1>7. SUFFICES ASSUME k < n
                 PROVE  FALSE
    BY DEF k
  <1>8. k \in Nat /\ L + k < m_uSize /\ L + k \in 0..(m_uSize - 1)
    BY <1>1, <1>2, <1>5, <1>7
  <1>9. Slot(m_uIn, k) = Slot(m_uOut, L + k)
    BY <1>1, <1>6, <1>8, RingType, SlotAdvance
  <1>10. L + k = i - 1
    BY <1>3, <1>5, <1>8, <1>9, RingType, SlotApart
  <1> QED
    BY <1>1, <1>8, <1>10

-----------------------------------------------------------------------------
(* The steps of the ring. *)

RInv == IInv /\ WrittenInv

(* Only one thread is in a call, and it holds the lock. *)
LEMMA AloneInCall ==
    ASSUME IInv, NEW t \in Thread, NEW u \in Thread, u # t, InCall(t)
    PROVE  thread[u].pc # "store" /\ m_Lock = t /\ main.at # "reset"
  BY RingAssumption DEF IInv, LockInv, InCall

(* A ring that stays as it is keeps its bytes and what was copied. *)
LEMMA StaysWritten ==
    ASSUME UNCHANGED <<size, m_uIn, m_uOut, m_pBuffer>>
    PROVE  /\ Bytes' = Bytes
           /\ \A t : thread'[t] = thread[t] => (Written(t) <=> Written(t)')
  <1>1. m_uSize' = m_uSize
    BY DEF m_uSize
  <1>2. \A i : /\ Slot(m_uIn, i)' = Slot(m_uIn, i)
               /\ Slot(m_uOut, i)' = Slot(m_uOut, i)
    BY <1>1 DEF Slot
  <1>3. Bytes' = Bytes
    BY <1>2 DEF Bytes, GetLen
  <1>4. ASSUME NEW t, thread'[t] = thread[t]
        PROVE  Written(t) <=> Written(t)'
    <2>1. CASE t \in Writers
      BY <1>2, <1>4, <2>1 DEF Written
    <2>2. CASE t \notin Writers
      BY <1>2, <1>4, <2>2 DEF Written
    <2> QED
      BY <2>1, <2>2
  <1> QED
    BY <1>3, <1>4

(* A step of a thread that has nothing copied when it is over. *)
LEMMA QuietKeeps ==
    ASSUME RInv, NEW t \in Thread, NEW l \in Local, Moves(t, l), l.pc # "store",
           UNCHANGED <<size, m_uIn, m_uOut, m_pBuffer>>,
           main'.at = "reset" <=> main.at = "reset"
    PROVE  WrittenInv' /\ Queue' = Queue
  <1>1. thread'[t] = l /\ \A u \in Thread : u # t => thread'[u] = thread[u]
    BY MovesOne DEF RInv, IInv
  <1>2. WrittenInv'
    BY <1>1, StaysWritten DEF RInv, WrittenInv
  <1> QED
    BY <1>2, StaysWritten DEF Queue

(* A step outside the calls is a stutter of the queue. *)
LEMMA OutsideMaps ==
    ASSUME RInv, NEW t \in Thread, NEW l \in Local, Moves(t, l), ~InCall(t),
           l.pc # "store", UNCHANGED <<size, m_uIn, m_uOut, m_pBuffer, m_Lock, got>>,
           main'.at = "reset" <=> main.at = "reset"
    PROVE  WrittenInv' /\ [Fifo!Next]_(Fifo!vars)
  <1>1. WrittenInv' /\ Queue' = Queue
    BY QuietKeeps
  <1>2. \A u \in Thread : u # t => thread'[u] = thread[u]
    BY MovesOne DEF RInv, IInv
  <1>3. m_Lock \in Writers => m_Lock \in Thread /\ m_Lock # t
    BY DEF RInv, IInv, LockInv, Thread
  <1>4. Taken' = Taken
    BY <1>2, <1>3 DEF Taken
  <1> QED
    BY <1>1, <1>4, Stutters

(* The thread is started. *)
LEMMA StartMaps ==
    ASSUME RInv, NEW t \in Thread, Start(t)
    PROVE  WrittenInv' /\ [Fifo!Next]_(Fifo!vars)
  <1> DEFINE l == [thread[t] EXCEPT !.pc = "top"]
  <1>1. /\ Moves(t, l) /\ ~m_bRunning[t] /\ main.at = "start"
        /\ main'.at \in {"start", "join"}
        /\ UNCHANGED <<size, m_uIn, m_uOut, m_pBuffer, m_Lock, got>>
    BY DEF Start, ringVars, RInv, IInv, TypeOK
  <1>2. thread[t] \in Local /\ ~InCall(t)
    BY <1>1 DEF RInv, IInv, TypeOK, JoinInv, InCall
  <1>3. l \in Local /\ l.pc = "top"
    BY <1>2 DEF Local
  <1> HIDE DEF l
  <1> QED
    BY <1>1, <1>2, <1>3, OutsideMaps

(* IsFull() and IsEmpty() look. *)
LEMMA LoadsMap ==
    ASSUME RInv, NEW t \in Thread, LoadsFirst(t) \/ LoadsSecond(t)
    PROVE  WrittenInv' /\ [Fifo!Next]_(Fifo!vars)
  <1>1. thread[t] \in Local /\ m_uIn \in Position /\ m_uOut \in Position /\ 0 \in Position
    BY RingAssumption DEF RInv, IInv, TypeOK, Position
  <1>2. /\ thread[t].pc \in {"top", "half"}
        /\ UNCHANGED <<size, m_uIn, m_uOut, m_pBuffer, m_Lock, got, main>>
    BY DEF LoadsFirst, LoadsSecond, threadLoop, ringVars
  <1>3. ~InCall(t)
    BY <1>2 DEF InCall
  <1>4. PICK l \in Local : Moves(t, l) /\ l.pc # "store"
    <2>1. CASE LoadsFirst(t)
      <3>1. PICK f \in {"in", "out"} :
               Moves(t, [thread[t] EXCEPT !.pc = "half", !.first = f,
                                          !.seen = IF f = "in" THEN m_uIn ELSE m_uOut])
        BY <2>1 DEF LoadsFirst
      <3> DEFINE l == [thread[t] EXCEPT !.pc = "half", !.first = f,
                                        !.seen = IF f = "in" THEN m_uIn ELSE m_uOut]
      <3>2. l \in Local /\ l.pc = "half"
        BY <1>1 DEF Local
      <3> QED
        BY <3>1, <3>2
    <2>2. CASE LoadsSecond(t)
      <3>1. PICK pc \in {"top", "lock"} :
               Moves(t, [thread[t] EXCEPT !.pc = pc, !.seen = 0])
        BY <2>2 DEF LoadsSecond
      <3> DEFINE l == [thread[t] EXCEPT !.pc = pc, !.seen = 0]
      <3>2. l \in Local /\ l.pc = pc
        BY <1>1 DEF Local
      <3> QED
        BY <3>1, <3>2
    <2> QED
      BY <2>1, <2>2
  <1> QED
    BY <1>2, <1>3, <1>4, OutsideMaps

(* A step that leaves the ring and the threads alone is a stutter. *)
LEMMA IdleMaps ==
    ASSUME RInv, UNCHANGED <<size, m_uIn, m_uOut, m_pBuffer, m_Lock, thread, got>>,
           main'.at = "reset" <=> main.at = "reset"
    PROVE  WrittenInv' /\ [Fifo!Next]_(Fifo!vars)
  <1>1. WrittenInv'
    BY StaysWritten DEF RInv, WrittenInv
  <1>2. Queue' = Queue
    BY StaysWritten DEF Queue
  <1>3. Taken' = Taken
    BY DEF Taken
  <1> QED
    BY <1>1, <1>2, <1>3, Stutters

(* The main thread waits for a thread. *)
LEMMA JoinMaps ==
    ASSUME RInv, NEW t \in Thread, Join(t)
    PROVE  WrittenInv' /\ [Fifo!Next]_(Fifo!vars)
  <1>1. /\ UNCHANGED <<size, m_uIn, m_uOut, m_pBuffer, m_Lock, thread, got>>
        /\ main.at = "join" /\ main'.at \in {"deleted", "join"}
    BY DEF Join, ringVars
  <1> QED
    BY <1>1, IdleMaps

(* Two positions that are the same have no byte between them. *)
LEMMA EmptyLen ==
    ASSUME NEW x \in Position
    PROVE  GetLen(x, x) = 0
  <1>1. x \in 0..(Modulus - 1) /\ Modulus \in Nat \ {0}
    BY RingAssumption DEF Position
  <1> QED
    BY <1>1, LenExact DEF GetLen

(* Reset and ResetOut: a call to one drops what is there. *)
LEMMA ResetsMap ==
    ASSUME RInv, Resets \/ ResetInPosition
    PROVE  WrittenInv' /\ [Fifo!Next]_(Fifo!vars)
  <1>1. thread' = thread /\ got' = got
    BY DEF Resets, ResetOutPosition, ResetInPosition, ResetOut
  <1>2. m_Lock \in {NULL, Main} /\ m_Lock' \in {NULL, Main}
    BY DEF Resets, ResetOutPosition, ResetInPosition, ResetOut, RInv, IInv, LockInv
  <1>3. WrittenInv'
    <2>1. \A t \in Thread : thread[t].pc # "store"
      BY <1>2, RingAssumption DEF RInv, IInv, LockInv, InCall
    <2> QED
      BY <1>1, <2>1 DEF WrittenInv
  <1>4. Taken = <<>> /\ Taken' = <<>>
    BY <1>2, RingAssumption DEF Taken, Thread
  <1>5. CASE ResetInPosition
    <2>1. Queue = <<>>
      BY <1>5 DEF ResetInPosition, Queue
    <2>2. m_uIn' = 0 /\ m_uOut' = 0
      BY <1>5 DEF ResetInPosition, RInv, IInv, LockInv
    <2>3. GetLen(0, 0) = 0
      BY RingAssumption, EmptyLen DEF Position
    <2>4. Bytes' = <<>>
      BY <2>2, <2>3 DEF Bytes, GetLen
    <2>5. Queue' = <<>>
      BY <2>4 DEF Queue
    <2> QED
      BY <1>1, <1>3, <1>4, <2>1, <2>5, Stutters
  <1>6. CASE Resets
    <2>1. main.at = "join"
      BY <1>6 DEF Resets, ResetOutPosition, ResetOut
    <2>2. Queue \in Seq(Byte)
      BY <2>1, BytesType DEF Queue, RInv
    <2>3. Queue' = <<>>
      <3>1. CASE ResetOutPosition
        <4>1. main'.at = "reset"
          BY <3>1 DEF ResetOutPosition, RInv, IInv, TypeOK
        <4> QED
          BY <4>1 DEF Queue
      <3>2. CASE ResetOut
        <4>1. m_uOut' = m_uIn /\ m_uIn' = m_uIn /\ GetLen(m_uIn, m_uIn) = 0
          BY <3>2, EmptyLen DEF ResetOut, RInv, IInv, TypeOK
        <4>2. Bytes' = <<>>
          BY <4>1 DEF Bytes, GetLen
        <4> QED
          BY <4>2 DEF Queue
      <3> QED
        BY <1>6, <3>1, <3>2 DEF Resets
    <2> QED
      BY <1>1, <1>3, <1>4, <2>2, <2>3, Drops
  <1> QED
    BY <1>5, <1>6

(* WriteData accepts what it has room for. *)
LEMMA WriteLocksMaps ==
    ASSUME RInv, NEW w \in Writers, WriteLocks(w)
    PROVE  WrittenInv' /\ [Fifo!Next]_(Fifo!vars)
  <1>1. PICK n \in Lens(w) :
           LET len == Smaller(GetAvail(m_uIn, m_uOut), n)
           IN  Moves(w, [thread[w] EXCEPT !.pc = "copy", !.data = Brings(w, len),
                                          !.len = len])
    BY DEF WriteLocks
  <1> DEFINE len == Smaller(GetAvail(m_uIn, m_uOut), n)
             l == [thread[w] EXCEPT !.pc = "copy", !.data = Brings(w, len), !.len = len]
  <1>2. /\ m_Lock = NULL /\ m_Lock' = w
        /\ UNCHANGED <<size, main, m_uIn, m_uOut, m_pBuffer, got>>
    BY DEF WriteLocks, threadLoop
  <1>3. w \in Thread /\ thread[w] \in Local
    BY DEF RInv, IInv, TypeOK, Thread
  <1>4. n \in Nat
    BY DEF Lens
  <1>5. len \in Nat /\ len <= GetAvail(m_uIn, m_uOut)
    BY <1>4, RoomType, RingAssumption DEF Smaller, Position, RInv
  <1>6. Moves(w, l)
    BY <1>1
  <1> HIDE DEF len
  <1>7. Brings(w, len) \in [1..len -> Byte] /\ Brings(w, len) \in Seq(Byte)
    <2>1. \A i \in 1..len : <<w, thread[w].times + i>> \in Byte
      BY <1>3, <1>5 DEF Byte, Local
    <2>2. Brings(w, len) \in [1..len -> Byte]
      BY <2>1 DEF Brings
    <2> QED
      BY <1>5, <2>2, SeqDef
  <1>8. l \in Local /\ l.pc = "copy" /\ l.data = Brings(w, len)
    BY <1>3, <1>5, <1>7 DEF Local
  <1> HIDE DEF l
  <1>9. WrittenInv' /\ Queue' = Queue
    BY <1>2, <1>3, <1>6, <1>8, QuietKeeps
  <1>10. main.at # "reset"
    BY <1>2, RingAssumption DEF RInv, IInv, LockInv
  <1>11. Taken = <<>> /\ Taken' = Brings(w, len)
    <2>1. thread'[w] = l
      BY <1>3, <1>6, <1>8, MovesOne DEF RInv, IInv
    <2> QED
      BY <1>2, <1>8, <2>1, RingAssumption DEF Taken, Thread
  <1>12. CASE len = 0
    <2>1. Brings(w, len) = <<>>
      BY <1>12 DEF Brings
    <2> QED
      BY <1>2, <1>9, <1>11, <2>1, Stutters
  <1>13. CASE len # 0
    <2>1. Len(Queue) = GetLen(m_uIn, m_uOut)
      BY <1>10, BytesType DEF Queue, RInv
    <2>2. len <= m_uSize - GetLen(m_uIn, m_uOut)
      BY <1>5, <1>10, RoomType DEF RInv
    <2>3. /\ m_uSize \in Nat /\ m_uSize < Modulus /\ Modulus \in Nat
          /\ GetLen(m_uIn, m_uOut) \in Nat
      BY RingType DEF RInv
    <2> HIDE DEF m_uSize
    <2>4. len \in 1..(Modulus - Len(Queue))
      BY <1>5, <1>13, <2>1, <2>2, <2>3
    <2> QED
      BY <1>2, <1>7, <1>9, <1>11, <2>4, Accepts
  <1> QED
    BY <1>12, <1>13, <1>5

(* ReadData looks what there is. *)
LEMMA ReadLocksMaps ==
    ASSUME RInv, NEW r \in Readers, ReadLocks(r)
    PROVE  WrittenInv' /\ [Fifo!Next]_(Fifo!vars)
  <1>1. PICK n \in Lens(r) :
           Moves(r, [thread[r] EXCEPT !.pc = "copy",
                                      !.len = Smaller(GetLen(m_uIn, m_uOut), n)])
    BY DEF ReadLocks
  <1> DEFINE len == Smaller(GetLen(m_uIn, m_uOut), n)
             l == [thread[r] EXCEPT !.pc = "copy", !.len = len]
  <1>2. /\ m_Lock = NULL /\ m_Lock' = r
        /\ UNCHANGED <<size, main, m_uIn, m_uOut, m_pBuffer, got>>
    BY DEF ReadLocks, threadLoop
  <1>3. r \in Thread /\ thread[r] \in Local /\ r \notin Writers /\ NULL \notin Writers
    BY RingAssumption DEF RInv, IInv, TypeOK, Thread
  <1>4. len \in Nat
    BY RoomType, RingAssumption DEF Lens, Smaller, Position, RInv
  <1>5. Moves(r, l)
    BY <1>1
  <1> HIDE DEF len
  <1>6. l \in Local /\ l.pc = "copy"
    BY <1>3, <1>4 DEF Local
  <1> HIDE DEF l
  <1>7. WrittenInv' /\ Queue' = Queue
    BY <1>2, <1>3, <1>5, <1>6, QuietKeeps
  <1>8. Taken' = Taken
    BY <1>2, <1>3 DEF Taken
  <1> QED
    BY <1>2, <1>7, <1>8, Stutters

(* WriteData copies: the queue stays as it is. *)
LEMMA WriteCopiesMaps ==
    ASSUME RInv, NEW w \in Writers, WriteCopies(w)
    PROVE  WrittenInv' /\ [Fifo!Next]_(Fifo!vars)
  <1> DEFINE l == [thread[w] EXCEPT !.pc = "store"]
  <1>1. /\ thread[w].pc = "copy" /\ Moves(w, l)
        /\ UNCHANGED <<size, main, m_uIn, m_uOut, m_Lock, got>>
    BY DEF WriteCopies, threadLoop
  <1>2. w \in Thread /\ thread[w] \in Local /\ InCall(w)
    BY <1>1 DEF RInv, IInv, TypeOK, Thread, InCall
  <1>3. /\ l \in Local /\ l.pc = "store" /\ l.len = thread[w].len /\ thread[w].len \in Nat
        /\ l.data = thread[w].data
    BY <1>2 DEF Local
  <1>4. thread[w].len <= GetAvail(m_uIn, m_uOut) /\ m_Lock = w /\ main.at # "reset"
    BY <1>2, RingAssumption DEF RInv, IInv, LockInv, RoomKept
  <1>5. /\ m_pBuffer \in [0..(m_uSize - 1) -> Byte]
        /\ m_pBuffer' = [s \in 0..(m_uSize - 1) |->
              IF Place(m_uIn, s) < thread[w].len THEN thread[w].data[Place(m_uIn, s) + 1]
              ELSE m_pBuffer[s]]
    BY RingType DEF WriteCopies, RInv
  <1>6. thread'[w] = l /\ \A u \in Thread : u # w => thread'[u].pc # "store"
    <2>1. thread'[w] = l /\ \A u \in Thread : u # w => thread'[u] = thread[u]
      BY <1>1, <1>2, <1>3, MovesOne DEF RInv, IInv
    <2> QED
      BY <1>2, <2>1, AloneInCall DEF RInv
  <1> HIDE DEF l
  <1>7. m_uSize' = m_uSize
    BY <1>1 DEF m_uSize
  <1>8. \A i : /\ Slot(m_uIn, i)' = Slot(m_uIn, i)
               /\ Slot(m_uOut, i)' = Slot(m_uOut, i)
    BY <1>1, <1>7 DEF Slot
  <1>9. Written(w)'
    <2>1. ASSUME NEW i \in 0..(thread[w].len - 1)
          PROVE  m_pBuffer'[Slot(m_uIn, i)] = thread[w].data[i + 1]
      <3>1. i \in 0..(m_uSize - 1)
        <4>1. thread[w].len <= m_uSize
          <5>1. GetAvail(m_uIn, m_uOut) = m_uSize - GetLen(m_uIn, m_uOut)
            BY <1>4, RoomType DEF RInv
          <5>2. m_uSize \in Nat /\ GetLen(m_uIn, m_uOut) \in Nat
            BY RingType DEF RInv
          <5> HIDE DEF m_uSize
          <5> QED
            BY <1>3, <1>4, <5>1, <5>2
        <4>2. m_uSize \in Nat
          BY RingType DEF RInv
        <4> HIDE DEF m_uSize
        <4> QED
          BY <1>3, <4>1, <4>2
      <3>2. Place(m_uIn, Slot(m_uIn, i)) = i /\ Slot(m_uIn, i) \in 0..(m_uSize - 1)
        BY <3>1, RingType, SlotInverse, SlotExact DEF RInv
      <3>3. i < thread[w].len
        BY <1>3
      <3> QED
        BY <1>5, <3>2, <3>3
    <2>2. thread'[w].len = thread[w].len /\ thread'[w].data = thread[w].data
      BY <1>3, <1>6
    <2> QED
      BY <1>8, <2>1, <2>2 DEF Written
  <1>10. WrittenInv'
    BY <1>6, <1>9 DEF WrittenInv
  <1>11. Queue' = Queue
    <2>1. ASSUME NEW i \in 1..GetLen(m_uIn, m_uOut)
          PROVE  m_pBuffer'[Slot(m_uOut, i - 1)] = m_pBuffer[Slot(m_uOut, i - 1)]
      <3>1. ~(Place(m_uIn, Slot(m_uOut, i - 1)) < thread[w].len)
        BY <1>3, <1>4, CopyIsBeyond DEF RInv
      <3>2. i - 1 \in 0..(m_uSize - 1)
        <4>1. GetLen(m_uIn, m_uOut) \in Nat /\ GetLen(m_uIn, m_uOut) <= m_uSize /\ m_uSize \in Nat
          BY <1>4, RingType DEF RInv
        <4> HIDE DEF m_uSize
        <4> QED
          BY <4>1
      <3>3. Slot(m_uOut, i - 1) \in 0..(m_uSize - 1)
        BY <3>2, RingType, SlotExact DEF RInv
      <3> QED
        BY <1>5, <3>1, <3>3
    <2>2. Bytes' = Bytes
      BY <1>1, <1>8, <2>1 DEF Bytes, GetLen
    <2> QED
      BY <1>1, <2>2 DEF Queue
  <1>12. Taken' = Taken
    BY <1>1, <1>3, <1>4, <1>6 DEF Taken
  <1> QED
    BY <1>1, <1>10, <1>11, <1>12, Stutters

(* ReadData copies what it is going to take off. *)
LEMMA ReadCopiesMaps ==
    ASSUME RInv, NEW r \in Readers, ReadCopies(r)
    PROVE  WrittenInv' /\ [Fifo!Next]_(Fifo!vars)
  <1> DEFINE data == [i \in 1..thread[r].len |-> m_pBuffer[Slot(m_uOut, i - 1)]]
             l == [thread[r] EXCEPT !.pc = "store", !.data = data]
  <1>1. /\ thread[r].pc = "copy" /\ Moves(r, l)
        /\ UNCHANGED <<size, main, m_uIn, m_uOut, m_pBuffer, m_Lock, got>>
    BY DEF ReadCopies, threadLoop, ringVars
  <1>2. /\ r \in Thread /\ thread[r] \in Local /\ InCall(r)
        /\ r \notin Writers
    BY <1>1, RingAssumption DEF RInv, IInv, TypeOK, Thread, InCall
  <1> HIDE DEF data
  <1>3. l.pc = "store" /\ l.len = thread[r].len /\ l.data = data
    BY <1>2 DEF Local
  <1>4. thread'[r] = l /\ \A u \in Thread : u # r => thread'[u] = thread[u]
    BY <1>1, <1>2 DEF Moves, RInv, IInv, TypeOK
  <1> HIDE DEF l
  <1>5. m_uSize' = m_uSize
    BY <1>1 DEF m_uSize
  <1>6. \A i : Slot(m_uOut, i)' = Slot(m_uOut, i)
    BY <1>1, <1>5 DEF Slot
  <1>7. Written(r)'
    BY <1>1, <1>2, <1>3, <1>4, <1>6 DEF Written, data
  <1>8. WrittenInv'
    BY <1>2, <1>4, <1>7, AloneInCall DEF WrittenInv, RInv
  <1>9. Bytes' = Bytes
    BY <1>1, StaysWritten
  <1>10. Queue' = Queue
    BY <1>1, <1>9 DEF Queue
  <1>11. m_Lock = r
    BY <1>2 DEF RInv, IInv, LockInv
  <1>12. Taken' = Taken
    BY <1>1, <1>2, <1>11 DEF Taken
  <1> QED
    BY <1>1, <1>8, <1>10, <1>12, Stutters

(* What a call leaves when it is over: nobody has anything copied. *)
LEMMA StoresLeave ==
    ASSUME RInv, NEW t \in Thread, thread[t].pc = "store", Moves(t, Passed(t))
    PROVE  /\ WrittenInv' /\ Written(t) /\ thread[t].len \in Nat
           /\ m_Lock = t /\ main.at # "reset"
  <1>1. Passed(t) \in Local /\ Passed(t).pc \in {"top", "done"}
    BY PassedType DEF RInv, IInv
  <1>2. thread'[t] = Passed(t) /\ \A u \in Thread : u # t => thread'[u] = thread[u]
    BY <1>1, MovesOne DEF RInv, IInv
  <1>3. InCall(t)
    BY DEF InCall
  <1>4. \A u \in Thread : thread'[u].pc # "store"
    BY <1>1, <1>2, <1>3, AloneInCall DEF RInv
  <1>5. WrittenInv'
    BY <1>4 DEF WrittenInv
  <1>6. m_Lock = t /\ main.at # "reset"
    BY <1>3, RingAssumption DEF RInv, IInv, LockInv
  <1>7. thread[t].len \in Nat
    BY DEF RInv, IInv, TypeOK, Local
  <1> QED
    BY <1>5, <1>6, <1>7 DEF RInv, WrittenInv

(* WriteData stores m_uIn: what it accepted is appended. *)
LEMMA WriteStoresMaps ==
    ASSUME RInv, NEW w \in Writers, WriteStores(w)
    PROVE  WrittenInv' /\ [Fifo!Next]_(Fifo!vars)
  <1> DEFINE n == thread[w].len
             d == thread[w].data
             L == GetLen(m_uIn, m_uOut)
  <1>1. /\ thread[w].pc = "store" /\ Moves(w, Passed(w)) /\ m_Lock' = NULL
        /\ m_uIn' = Advance(m_uIn, n)
        /\ UNCHANGED <<size, main, m_uOut, m_pBuffer, got>>
    BY DEF WriteStores, threadLoop
  <1>2. w \in Thread /\ NULL \notin Writers
    BY RingAssumption DEF Thread
  <1>3. WrittenInv' /\ Written(w) /\ n \in Nat /\ m_Lock = w /\ main.at # "reset"
    BY <1>1, <1>2, StoresLeave
  <1>4. d \in [1..n -> Byte] /\ d \in Seq(Byte) /\ Len(d) = n
    <2>1. d \in [1..n -> Byte]
      BY <1>1, <1>2 DEF RInv, IInv, DataInv, InCall
    <2> HIDE DEF n, d
    <2> QED
      BY <1>3, <2>1, SeqDef
  <1>5. Taken = d /\ Taken' = <<>>
    BY <1>1, <1>2, <1>3 DEF Taken
  <1>6. Bytes \in Seq(Byte) /\ Len(Bytes) = L /\ \A i \in 1..L : Bytes[i] = m_pBuffer[Slot(m_uOut, i - 1)]
    BY <1>3, BytesType DEF RInv
  <1>7. L \in Nat /\ L + n <= m_uSize /\ m_uSize \in Nat
    <2>1. n <= GetAvail(m_uIn, m_uOut)
      BY <1>1 DEF RInv, IInv, RoomKept, InCall
    <2>2. GetAvail(m_uIn, m_uOut) = m_uSize - L
      BY <1>3, RoomType DEF RInv
    <2>3. m_uSize \in Nat /\ L \in Nat
      BY RingType DEF RInv
    <2> HIDE DEF m_uSize, n, L
    <2> QED
      BY <1>3, <2>1, <2>2, <2>3
  <1>8. GetLen(Advance(m_uIn, n), m_uOut) = L + n
    <2>1. /\ Modulus \in Nat \ {0} /\ m_uIn \in 0..(Modulus - 1)
          /\ m_uOut \in 0..(Modulus - 1) /\ m_uSize < Modulus
      BY RingType DEF Position, RInv
    <2>2. ((m_uIn + Modulus - m_uOut) % Modulus) + n < Modulus
      <3>1. L = (m_uIn + Modulus - m_uOut) % Modulus
        BY DEF GetLen
      <3> HIDE DEF m_uSize, n, L
      <3> QED
        BY <1>3, <1>7, <2>1, <3>1
    <2> HIDE DEF n
    <2> QED
      BY <1>3, <2>1, <2>2, LenAfterWrite DEF GetLen, Advance
  <1>9. m_uSize' = m_uSize
    BY <1>1 DEF m_uSize
  <1>10. \A i : Slot(m_uOut, i)' = Slot(m_uOut, i)
    BY <1>1, <1>9 DEF Slot
  <1>11. Bytes' = [i \in 1..(L + n) |-> m_pBuffer[Slot(m_uOut, i - 1)]]
    <2>1. GetLen(m_uIn, m_uOut)' = L + n
      BY <1>1, <1>8 DEF GetLen
    <2> HIDE DEF n, L
    <2> QED
      BY <1>1, <1>10, <2>1 DEF Bytes
  <1>12. \A i \in 0..(n - 1) : m_pBuffer[Slot(m_uOut, L + i)] = d[i + 1]
    <2>1. ASSUME NEW i \in 0..(n - 1)
          PROVE  m_pBuffer[Slot(m_uOut, L + i)] = d[i + 1]
      <3>1. m_uIn = Advance(m_uOut, L)
        BY RingType, LaterExact DEF Advance, GetLen, Position, RInv
      <3>2. i \in Nat /\ L + i < m_uSize
        <4> HIDE DEF m_uSize, n, L
        <4> QED
          BY <1>3, <1>7, <2>1
      <3>3. Slot(m_uIn, i) = Slot(m_uOut, L + i)
        <4>1. size \in Position /\ m_uOut \in Position
          BY RingType DEF RInv
        <4> HIDE DEF m_uSize, L
        <4> QED
          BY <1>7, <3>1, <3>2, <4>1, SlotAdvance
      <3>4. m_pBuffer[Slot(m_uIn, i)] = d[i + 1]
        BY <1>3, <2>1 DEF Written
      <3> QED
        BY <3>3, <3>4
    <2> QED
      BY <2>1
  <1>13. Bytes' = Bytes \o d
    <2> DEFINE q == Bytes
               r == Bytes'
    <2>1. \A i \in 1..(L + n) : r[i] = IF i <= L THEN q[i] ELSE d[i - L]
      <3>1. ASSUME NEW i \in 1..(L + n)
            PROVE  r[i] = IF i <= L THEN q[i] ELSE d[i - L]
        <4>1. r[i] = m_pBuffer[Slot(m_uOut, i - 1)]
          BY <1>11, <3>1
        <4> HIDE DEF r, q, n, L, d
        <4>2. CASE i <= L
          <5>1. i \in 1..L
            BY <1>3, <1>7, <3>1, <4>2
          <5> QED
            BY <1>6, <4>1, <4>2, <5>1 DEF q
        <4>3. CASE i > L
          <5>1. i - 1 - L \in 0..(n - 1) /\ L + (i - 1 - L) = i - 1 /\ (i - 1 - L) + 1 = i - L /\ ~(i <= L)
            BY <1>3, <1>7, <3>1, <4>3
          <5>2. m_pBuffer[Slot(m_uOut, L + (i - 1 - L))] = d[(i - 1 - L) + 1]
            BY <1>12, <5>1
          <5> QED
            BY <4>1, <5>1, <5>2
        <4> QED
          BY <1>3, <1>7, <3>1, <4>2, <4>3
      <3> QED
        BY <3>1
    <2>2. q \o d \in Seq(Byte) /\ Len(q \o d) = L + n
          /\ \A i \in 1..(L + n) : (q \o d)[i] = IF i <= L THEN q[i] ELSE d[i - L]
      <3>1. q \in Seq(Byte) /\ Len(q) = L
        BY <1>6
      <3> HIDE DEF q, n, L, d
      <3> QED
        BY <1>4, <3>1, ConcatProperties
    <2>3. \A i \in 1..(L + n) : r[i] = (q \o d)[i] /\ (q \o d)[i] \in Byte
      <3> HIDE DEF q, r, d, n, L
      <3> QED
        BY <2>1, <2>2, ElementOfSeq
    <2>4. q \o d = [i \in 1..(L + n) |-> (q \o d)[i]]
      <3>1. DOMAIN (q \o d) = 1..(L + n) /\ q \o d \in [1..(L + n) -> Byte]
        <4> HIDE DEF q, d, n, L
        <4> QED
          BY <2>2, LenProperties
      <3> HIDE DEF q, d, n, L
      <3> QED
        BY <3>1
    <2>5. r = [i \in 1..(L + n) |-> r[i]]
      BY <1>11
    <2> HIDE DEF q, r, d, n, L
    <2>6. r = q \o d
      BY <2>3, <2>4, <2>5
    <2> QED
      BY <2>6 DEF q, r
  <1>14. Queue' = Queue \o Taken
    BY <1>1, <1>3, <1>5, <1>13 DEF Queue
  <1>15. CASE d = <<>>
    <2>1. Queue \o <<>> = Queue
      BY <1>3, <1>6, ConcatEmptySeq DEF Queue
    <2> QED
      BY <1>1, <1>3, <1>5, <1>14, <1>15, <2>1, Stutters
  <1>16. CASE d # <<>>
    BY <1>1, <1>3, <1>5, <1>14, <1>16, Writes
  <1> QED
    BY <1>15, <1>16

(* ReadData stores m_uOut: what it copied is taken off. *)
LEMMA ReadStoresMaps ==
    ASSUME RInv, NEW r \in Readers, ReadStores(r)
    PROVE  WrittenInv' /\ [Fifo!Next]_(Fifo!vars)
  <1> DEFINE n == thread[r].len
             L == GetLen(m_uIn, m_uOut)
             q == Bytes
  <1>1. /\ thread[r].pc = "store" /\ Moves(r, Passed(r)) /\ m_Lock' = NULL
        /\ m_uOut' = Advance(m_uOut, n)
        /\ got' = IF n = 0 THEN got ELSE thread[r].data
        /\ UNCHANGED <<size, main, m_uIn, m_pBuffer>>
    BY DEF ReadStores, threadLoop
  <1>2. r \in Thread /\ NULL \notin Writers /\ r \notin Writers
    BY RingAssumption DEF Thread
  <1>3. WrittenInv' /\ Written(r) /\ n \in Nat /\ m_Lock = r /\ main.at # "reset"
    BY <1>1, <1>2, StoresLeave
  <1>4. Taken = <<>> /\ Taken' = <<>>
    BY <1>1, <1>2, <1>3 DEF Taken
  <1>5. /\ q \in Seq(Byte) /\ Len(q) = L
        /\ \A i \in 1..L : q[i] = m_pBuffer[Slot(m_uOut, i - 1)]
    BY <1>3, BytesType DEF RInv
  <1>6. n <= L /\ L \in Nat /\ L <= m_uSize /\ m_uSize \in Nat
    BY <1>1, <1>3, RingType DEF RInv, IInv, RoomKept, InCall
  <1>7. GetLen(m_uIn, Advance(m_uOut, n)) = L - n
    <2>1. /\ Modulus \in Nat \ {0} /\ m_uIn \in 0..(Modulus - 1)
          /\ m_uOut \in 0..(Modulus - 1)
      BY RingType DEF Position, RInv
    <2>2. n <= (m_uIn + Modulus - m_uOut) % Modulus
      BY <1>6 DEF GetLen
    <2> HIDE DEF n
    <2> QED
      BY <1>3, <2>1, <2>2, LenAfterRead DEF GetLen, Advance
  <1>8. m_uSize' = m_uSize
    BY <1>1 DEF m_uSize
  <1>9. ASSUME NEW i \in 1..(L - n)
        PROVE  Slot(m_uOut', i - 1) = Slot(m_uOut, (n + i) - 1) /\ n + i \in 1..L
    <2>1. i - 1 \in Nat /\ n + (i - 1) < m_uSize /\ n + (i - 1) = (n + i) - 1 /\ n + i \in 1..L
      <3> HIDE DEF m_uSize, n, L
      <3> QED
        BY <1>3, <1>6
    <2>2. size \in Position /\ m_uOut \in Position
      BY RingType DEF RInv
    <2>3. Slot(Advance(m_uOut, n), i - 1) = Slot(m_uOut, n + (i - 1))
      <3> HIDE DEF m_uSize, n, L
      <3> QED
        BY <1>3, <2>1, <2>2, SlotAdvance
    <2> QED
      BY <1>1, <2>1, <2>3
  <1>10. Bytes' = [i \in 1..(L - n) |-> m_pBuffer[Slot(m_uOut', i - 1)]]
    <2>1. GetLen(m_uIn, m_uOut)' = L - n
      BY <1>1, <1>7 DEF GetLen
    <2>2. \A i : Slot(m_uOut, i)' = Slot(m_uOut', i)
      BY <1>8 DEF Slot
    <2> HIDE DEF n, L
    <2> QED
      BY <1>1, <2>1, <2>2 DEF Bytes
  <1>11. Bytes' = [i \in 1..(L - n) |-> q[n + i]]
    <2>1. \A i \in 1..(L - n) : m_pBuffer[Slot(m_uOut', i - 1)] = q[n + i]
      <3> HIDE DEF n, L, q
      <3> QED
        BY <1>5, <1>9
    <2> HIDE DEF n, L, q
    <2> QED
      BY <1>10, <2>1
  <1>12. thread[r].data = [i \in 1..n |-> q[i]]
    <2>1. thread[r].data = [i \in 1..n |-> m_pBuffer[Slot(m_uOut, i - 1)]]
      BY <1>2, <1>3 DEF Written
    <2>2. \A i \in 1..n : m_pBuffer[Slot(m_uOut, i - 1)] = q[i]
      <3> HIDE DEF n, L, q
      <3> QED
        BY <1>3, <1>5, <1>6
    <2> HIDE DEF n, q
    <2> QED
      BY <2>1, <2>2
  <1>13. Queue = q /\ Queue' = Bytes'
    BY <1>1, <1>3 DEF Queue
  <1> DEFINE b == Bytes'
  <1>14. CASE n = 0
    <2>1. b = q
      <3>1. b = [i \in 1..L |-> q[i]]
        <4> HIDE DEF L, q
        <4> QED
          BY <1>6, <1>11, <1>14
      <3>2. q = [i \in 1..L |-> q[i]]
        BY DEF Bytes
      <3> QED
        BY <3>1, <3>2
    <2> QED
      BY <1>1, <1>3, <1>4, <1>13, <1>14, <2>1, Stutters
  <1>15. CASE n # 0
    <2> HIDE DEF n, L, q
    <2>1. n \in 1..Len(q) /\ 1 \in Int /\ n \in Int /\ n + 1 \in Int /\ Len(q) \in Int
      BY <1>3, <1>5, <1>6, <1>15
    <2>2. b = SubSeq(q, n + 1, Len(q))
      BY <1>3, <1>5, <1>6, <1>11, SubSeqIs
    <2>3. thread[r].data = SubSeq(q, 1, n)
      BY <1>3, <1>5, <1>6, <1>12, SubSeqIs
    <2> QED
      BY <1>1, <1>3, <1>4, <1>13, <1>15, <2>1, <2>2, <2>3, Reads
  <1> QED
    BY <1>14, <1>15

-----------------------------------------------------------------------------
(* The theorem. *)

(* Every step of the ring is a step of the queue or a stutter. *)
LEMMA NextMaps ==
    ASSUME RInv, [Next]_vars
    PROVE  WrittenInv' /\ [Fifo!Next]_(Fifo!vars)
  <1>1. CASE StartsAndJoins
    BY <1>1, StartMaps, JoinMaps DEF StartsAndJoins
  <1>2. CASE Resets \/ ResetInPosition
    BY <1>2, ResetsMap
  <1>3. ASSUME NEW t \in Thread, Run(t)
        PROVE  WrittenInv' /\ [Fifo!Next]_(Fifo!vars)
    <2>1. CASE LoadsFirst(t) \/ LoadsSecond(t)
      BY <2>1, LoadsMap
    <2>2. CASE t \in Writers /\ Writer(t)
      BY <2>2, WriteLocksMaps, WriteCopiesMaps, WriteStoresMaps DEF Writer
    <2>3. CASE t \in Readers /\ Reader(t)
      BY <2>3, ReadLocksMaps, ReadCopiesMaps, ReadStoresMaps DEF Reader
    <2> QED
      BY <1>3, <2>1, <2>2, <2>3 DEF Run
  <1>4. CASE UNCHANGED vars
    BY <1>4, IdleMaps DEF vars, ringVars
  <1> QED
    BY <1>1, <1>2, <1>3, <1>4 DEF Next

(* The ring starts as an empty queue. *)
LEMMA InitMaps ==
    ASSUME Init
    PROVE  WrittenInv /\ Fifo!Init
  <1>1. WrittenInv
    BY DEF Init, WrittenInv, Idle
  <1>2. m_uIn \in Position /\ m_uOut = m_uIn
    BY RingAssumption, ModIn DEF Init, Position
  <1>3. GetLen(m_uIn, m_uOut) = 0
    BY <1>2, EmptyLen
  <1>4. Queue = <<>> /\ Taken = <<>> /\ got = <<>>
    BY <1>3, RingAssumption DEF Init, Queue, Bytes, Taken, Thread
  <1>5. Fifo!Init
    BY <1>4 DEF Fifo!Init, Queue, Bytes, Taken
  <1> QED
    BY <1>1, <1>5

(* RingBuffer and RingBufferDN (ring_buffer.cpp:57-81) are queues for any  *)
(* number of threads: a call that copies in two pieces, between positions  *)
(* that wrap, takes effect in one step.                                    *)
THEOREM IsAFifo == Spec => ImplementsFifo
  <1>1. Init => Fifo!Init /\ RInv
    BY InitMaps, InitSafe DEF RInv
  <1>2. RInv /\ [Next]_vars => RInv' /\ [Fifo!Next]_(Fifo!vars)
    BY NextMaps, NextSafe DEF RInv
  <1> QED
    BY <1>1, <1>2, PTL DEF Spec, ImplementsFifo, Fifo!Spec

=============================================================================
