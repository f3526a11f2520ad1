--------------------------- MODULE RingBufferLocked ---------------------------
(***************************************************************************)
(* RingBuffer and RingBufferDN (src/engine/net/ring_buffer.{h,cpp},        *)
(* ring_buffer_dn.{h,cpp}) between the threads of src/test/test_buffer.h:  *)
(* writers and readers that share a ring, and a main thread that starts    *)
(* and joins them (ThreadBase) and then deletes the ring. The two classes  *)
(* differ in their lock alone, AtomSpinLock or SpinLock, and one module    *)
(* models both.                                                            *)
(*                                                                         *)
(* ReadData, WriteData, Reset and ResetOut run under the lock; IsFull and  *)
(* IsEmpty do not, and load the two positions one after the other, in an   *)
(* order that C++ leaves open. What a call does between taking the lock    *)
(* and releasing it is cut in two where another thread can tell.           *)
(***************************************************************************)
EXTENDS Integers, Sequences

CONSTANTS
    Writers,   \* the threads of type 0
    Readers,   \* the threads of type 1
    Main,      \* the thread that starts and joins them
    NULL,      \* no thread
    Modulus,   \* 2 to the width of BufferSize (256)
    IOTimes,   \* how many bytes each thread passes before it ends
    Earlier,   \* bound: the bytes that went through the ring before
    MaxLen,    \* bound: the longest len a thread passes (1 in the test)
    MaxResets  \* bound: how often the main thread resets the ring

Thread == Writers \cup Readers

(* Modulus is a power of two; the powers of two up to it divide it. *)
PowersOfTwo == {p \in 1..Modulus : Modulus % p = 0}

ASSUME RingAssumption ==
    /\ Writers \cap Readers = {}
    /\ Main \notin Thread /\ NULL \notin Thread \cup {Main}
    /\ Modulus \in Nat \ {0}
    /\ \A p \in PowersOfTwo : p = 1 \/ \E q \in PowersOfTwo : p = 2 * q
    /\ IOTimes \in [Thread -> Nat \ {0}]
    /\ MaxLen \in Nat \ {0} /\ Earlier \in Nat /\ MaxResets \in Nat

VARIABLES
    size,          \* the constructor's argument
    m_uIn, m_uOut, \* the positions
    m_pBuffer,     \* the storage
    m_Lock,        \* the thread that holds the lock, or NULL
    thread,        \* each thread: where its loop is, and its locals
    m_bRunning,    \* the threads' m_bRunning
    main,          \* where the main thread is, and the threads it has yet to treat
    resets,        \* bound: the calls of Reset and ResetOut so far
    got            \* what the last ReadData returned

ringVars == <<m_uIn, m_uOut, m_pBuffer, m_Lock>>
vars == <<size, ringVars, thread, m_bRunning, main, resets, got>>

Position == 0..(Modulus - 1)

(* A byte is named by the writer that brings it and its place in what that *)
(* writer brings; <<NULL, 0>> is what new char[] left in the storage.      *)
Byte == (Writers \cup {NULL}) \X Nat

-----------------------------------------------------------------------------
(* Mutant: val is not decreased first. *)
RoundUpPowOfTwo_NotDecreased(val) ==
    (CHOOSE p \in PowersOfTwo :
        p > val /\ \A q \in PowersOfTwo : q > val => p <= q) % Modulus

(* The least power of two that is not below val; val - 1 wraps at 0, and   *)
(* a power as large as the modulus becomes 0 as a BufferSize.              *)
RoundUpPowOfTwo(val) ==
    LET top == (val + Modulus - 1) % Modulus
    IN  (CHOOSE p \in PowersOfTwo :
            p > top /\ \A q \in PowersOfTwo : q > top => p <= q) % Modulus

m_uSize == RoundUpPowOfTwo(size)

(* Mutant: the position is kept in an int. *)
Advance_Unwrapped(pos, n) == pos + n

Advance(pos, n) == (pos + n) % Modulus
GetLen(inpos, outpos) == (inpos + Modulus - outpos) % Modulus

GetAvail(inpos, outpos) == (m_uSize + Modulus - inpos + outpos) % Modulus

IsEmpty(inpos, outpos) == inpos = outpos

(* Mutant: a ring with one byte of room counts as full. *)
IsFull_OneLeft(inpos, outpos) == m_uSize = GetLen(inpos, outpos) + 1

IsFull(inpos, outpos) == m_uSize = GetLen(inpos, outpos)

(* Where byte i of a copy that starts at pos is: the first memcpy goes to  *)
(* the end of the storage, the second on from its beginning.               *)
Slot(pos, i) ==
    LET off == pos % m_uSize
        tail == m_uSize - off
    IN  IF i < tail THEN off + i ELSE i - tail

(* Which byte of such a copy the one at s is. *)
Place(pos, s) ==
    LET off == pos % m_uSize IN IF s >= off THEN s - off ELSE s + m_uSize - off

Smaller(a, b) == IF a < b THEN a ELSE b

-----------------------------------------------------------------------------
Idle == [pc |-> "new", first |-> "in", seen |-> 0, data |-> <<>>, len |-> 0, times |-> 0]

(* Where a thread's loop is, and its locals. *)
Local ==
    [pc : {"new", "top", "half", "lock", "copy", "store", "done"}, first : {"in", "out"},
     seen : Position, data : Seq(Byte), len : Nat, times : Nat]

TypeOK ==
    /\ size \in Position /\ m_uIn \in Position /\ m_uOut \in Position
    /\ m_pBuffer \in [0..(m_uSize - 1) -> Byte]
    /\ m_Lock \in Thread \cup {Main, NULL}
    /\ thread \in [Thread -> Local]
    /\ m_bRunning \in [Thread -> BOOLEAN]
    /\ main \in [at : {"start", "join", "reset", "deleted"}, left : SUBSET Thread]
    /\ resets \in 0..MaxResets
    /\ got \in Seq(Byte)

Init ==
    /\ size \in Position
    /\ m_uIn = Earlier % Modulus /\ m_uOut = m_uIn
    /\ m_pBuffer = [i \in 0..(m_uSize - 1) |-> <<NULL, 0>>]
    /\ m_Lock = NULL
    /\ thread = [t \in Thread |-> Idle]
    /\ m_bRunning = [t \in Thread |-> FALSE]
    /\ main = [at |-> "start", left |-> Thread]
    /\ resets = 0
    /\ got = <<>>

-----------------------------------------------------------------------------
(* One thread goes on, with l as its locals. *)
Moves(t, l) == thread' = [thread EXCEPT ![t] = l]

-----------------------------------------------------------------------------
(* The main thread. *)

(* ThreadBase::Start; the thread runs from here on. *)
Start(t) ==
    /\ main.at = "start" /\ t \in main.left /\ ~m_bRunning[t]
    /\ m_bRunning' = [m_bRunning EXCEPT ![t] = TRUE]
    /\ Moves(t, [thread[t] EXCEPT !.pc = "top"])
    /\ main' = IF main.left = {t} THEN [at |-> "join", left |-> Thread]
               ELSE [main EXCEPT !.left = @ \ {t}]
    /\ UNCHANGED <<size, ringVars, resets, got>>

(* Mutant: Join() returns at once. *)
Join_NoWait(t) ==
    /\ main.at = "join" /\ t \in main.left
    /\ main' = [at |-> IF main.left = {t} THEN "deleted" ELSE "join",
                left |-> main.left \ {t}]
    /\ UNCHANGED <<size, ringVars, thread, m_bRunning, resets, got>>

(* ThreadBase::Join: a thread that was started is waited for until Run()   *)
(* returned; after the last one the main thread deletes the ring.          *)
Join(t) ==
    /\ main.at = "join" /\ t \in main.left
    /\ m_bRunning[t] => thread[t].pc = "done"
    /\ main' = [at |-> IF main.left = {t} THEN "deleted" ELSE "join",
                left |-> main.left \ {t}]
    /\ UNCHANGED <<size, ringVars, thread, m_bRunning, resets, got>>

(* Reset: m_uOut is stored first, then m_uIn. *)
ResetOutPosition ==
    /\ main.at = "join" /\ main.left # {} /\ m_Lock = NULL /\ resets < MaxResets
    /\ m_Lock' = Main
    /\ m_uOut' = 0
    /\ main' = [main EXCEPT !.at = "reset"]
    /\ resets' = resets + 1
    /\ UNCHANGED <<size, m_uIn, m_pBuffer, thread, m_bRunning, got>>

ResetInPosition ==
    /\ main.at = "reset"
    /\ m_Lock' = NULL
    /\ m_uIn' = 0
    /\ main' = [main EXCEPT !.at = "join"]
    /\ UNCHANGED <<size, m_uOut, m_pBuffer, thread, m_bRunning, resets, got>>

ResetOut ==
    /\ main.at = "join" /\ main.left # {} /\ m_Lock = NULL /\ resets < MaxResets
    /\ m_uOut' = m_uIn
    /\ resets' = resets + 1
    /\ UNCHANGED <<size, m_uIn, m_pBuffer, m_Lock, thread, m_bRunning, main, got>>

-----------------------------------------------------------------------------
(* The loop of a thread (LBufferThread::Run). *)

threadLoop == <<size, m_bRunning, main, resets>>

(* IsFull() or IsEmpty() loads one of the positions. *)
LoadsFirst(t) ==
    /\ thread[t].pc = "top"
    /\ \E f \in {"in", "out"} :
          Moves(t, [thread[t] EXCEPT !.pc = "half", !.first = f,
                                     !.seen = IF f = "in" THEN m_uIn ELSE m_uOut])
    /\ UNCHANGED <<threadLoop, ringVars, got>>

(* It loads the other one and answers; with a no the thread goes on to call *)
(* WriteData or ReadData, with a yes it goes round again.                  *)
LoadsSecond(t) ==
    /\ thread[t].pc = "half"
    /\ LET inpos == IF thread[t].first = "in" THEN thread[t].seen ELSE m_uIn
           outpos == IF thread[t].first = "in" THEN m_uOut ELSE thread[t].seen
           answer == IF t \in Writers THEN IsFull(inpos, outpos) ELSE IsEmpty(inpos, outpos)
       IN  Moves(t, [thread[t] EXCEPT !.pc = IF answer THEN "top" ELSE "lock",
                                      !.seen = 0])
    /\ UNCHANGED <<threadLoop, ringVars, got>>

(* The most a thread asks for. *)
Lens(t) == 1..Smaller(MaxLen, IOTimes[t] - thread[t].times)

(* The next len bytes of the writer. *)
Brings(w, len) == [i \in 1..len |-> <<w, thread[w].times + i>>]

(* Mutant: the lock is not waited for. *)
WriteLocks_NoWait(w) ==
    /\ thread[w].pc = "lock"
    /\ m_Lock' = w
    /\ \E n \in Lens(w) :
          LET len == Smaller(GetAvail(m_uIn, m_uOut), n)
          IN  Moves(w, [thread[w] EXCEPT !.pc = "copy", !.data = Brings(w, len),
                                         !.len = len])
    /\ UNCHANGED <<threadLoop, m_uIn, m_uOut, m_pBuffer, got>>

(* WriteData: the lock is waited for, and len is cut to the room there is. *)
WriteLocks(w) ==
    /\ thread[w].pc = "lock" /\ m_Lock = NULL
    /\ m_Lock' = w
    /\ \E n \in Lens(w) :
          LET len == Smaller(GetAvail(m_uIn, m_uOut), n)
          IN  Moves(w, [thread[w] EXCEPT !.pc = "copy", !.data = Brings(w, len),
                                         !.len = len])
    /\ UNCHANGED <<threadLoop, m_uIn, m_uOut, m_pBuffer, got>>

WriteCopies(w) ==
    /\ thread[w].pc = "copy"
    /\ m_pBuffer' = [s \in DOMAIN m_pBuffer |->
           IF Place(m_uIn, s) < thread[w].len THEN thread[w].data[Place(m_uIn, s) + 1]
           ELSE m_pBuffer[s]]
    /\ Moves(w, [thread[w] EXCEPT !.pc = "store"])
    /\ UNCHANGED <<threadLoop, m_uIn, m_uOut, m_Lock, got>>

(* The thread is out of the call: a call that passed nothing is made again. *)
Passed(t) ==
    LET times == thread[t].times + thread[t].len IN
    [Idle EXCEPT !.times = times, !.pc = IF times >= IOTimes[t] THEN "done" ELSE "top"]

WriteStores(w) ==
    /\ thread[w].pc = "store"
    /\ m_uIn' = Advance(m_uIn, thread[w].len)
    /\ m_Lock' = NULL
    /\ Moves(w, Passed(w))
    /\ UNCHANGED <<threadLoop, m_uOut, m_pBuffer, got>>

(* Mutant: len is not cut to the bytes there are. *)
ReadLocks_Uncut(r) ==
    /\ thread[r].pc = "lock" /\ m_Lock = NULL
    /\ m_Lock' = r
    /\ \E n \in Lens(r) :
          Moves(r, [thread[r] EXCEPT !.pc = "copy", !.len = n])
    /\ UNCHANGED <<threadLoop, m_uIn, m_uOut, m_pBuffer, got>>

(* ReadData: the lock is waited for, and len is cut to the bytes there are. *)
ReadLocks(r) ==
    /\ thread[r].pc = "lock" /\ m_Lock = NULL
    /\ m_Lock' = r
    /\ \E n \in Lens(r) :
          Moves(r, [thread[r] EXCEPT !.pc = "copy",
                                     !.len = Smaller(GetLen(m_uIn, m_uOut), n)])
    /\ UNCHANGED <<threadLoop, m_uIn, m_uOut, m_pBuffer, got>>

ReadCopies(r) ==
    /\ thread[r].pc = "copy"
    /\ Moves(r, [thread[r] EXCEPT !.pc = "store",
           !.data = [i \in 1..thread[r].len |-> m_pBuffer[Slot(m_uOut, i - 1)]]])
    /\ UNCHANGED <<threadLoop, ringVars, got>>

ReadStores(r) ==
    /\ thread[r].pc = "store"
    /\ m_uOut' = Advance(m_uOut, thread[r].len)
    /\ m_Lock' = NULL
    /\ got' = IF thread[r].len = 0 THEN got ELSE thread[r].data
    /\ Moves(r, Passed(r))
    /\ UNCHANGED <<threadLoop, m_uIn, m_pBuffer>>

-----------------------------------------------------------------------------
Writer(w) == WriteLocks(w) \/ WriteCopies(w) \/ WriteStores(w)
Reader(r) == ReadLocks(r) \/ ReadCopies(r) \/ ReadStores(r)

Run(t) ==
    \/ LoadsFirst(t) \/ LoadsSecond(t)
    \/ t \in Writers /\ Writer(t)
    \/ t \in Readers /\ Reader(t)

StartsAndJoins == \E t \in Thread : Start(t) \/ Join(t)

Resets == ResetOutPosition \/ ResetOut

Next == StartsAndJoins \/ Resets \/ ResetInPosition \/ \E t \in Thread : Run(t)

(* Every thread is scheduled. Nothing promises a thread that spins on the  *)
(* lock that it ever finds it free, and nothing makes the main thread      *)
(* reset the ring.                                                         *)
Fairness ==
    /\ WF_vars(StartsAndJoins) /\ WF_vars(ResetInPosition)
    /\ \A t \in Thread : WF_vars(Run(t))

Spec == Init /\ [][Next]_vars /\ Fairness

-----------------------------------------------------------------------------
(* Safety. *)

InCall(t) == thread[t].pc \in {"copy", "store"}

(***************************************************************************)
(* What a call found out under the lock holds until the call ends: the     *)
(* room that WriteData cut its len to is still free when it stores m_uIn,  *)
(* the bytes that ReadData copies are still there when it stores m_uOut,   *)
(* and except half-way through Reset the ring never counts more bytes than *)
(* it has - whatever IsFull and IsEmpty answered without the lock.         *)
(***************************************************************************)
RoomKept ==
    /\ main.at # "reset" => GetLen(m_uIn, m_uOut) <= m_uSize
    /\ \A w \in Writers : InCall(w) => thread[w].len <= GetAvail(m_uIn, m_uOut)
    /\ \A r \in Readers : InCall(r) => thread[r].len <= GetLen(m_uIn, m_uOut)

(***************************************************************************)
(* No thread is still in its loop, and so in the ring, when the main       *)
(* thread deletes the ring.                                                *)
(***************************************************************************)
NoUseAfterDelete ==
    main.at = "deleted" => \A t \in Thread : thread[t].pc = "done"

(***************************************************************************)
(* A ring that is asked for at most half of what BufferSize counts holds   *)
(* what it was asked for, and less than twice as much. Any other argument  *)
(* rounds to 0: the rings Finishes leaves out.                             *)
(***************************************************************************)
RoundsUp ==
    IF 2 * size \in 1..Modulus THEN size <= m_uSize /\ m_uSize < 2 * size
    ELSE m_uSize = 0

-----------------------------------------------------------------------------
(* Refinement. *)

(* Reset has dropped everything when it has stored m_uOut. *)
Fifo == INSTANCE BoundedFifo WITH
    Size <- Modulus,
    fifo <- IF main.at = "reset" THEN <<>>
            ELSE [i \in 1..GetLen(m_uIn, m_uOut) |-> m_pBuffer[Slot(m_uOut, i - 1)]],
    taken <- IF m_Lock \in Writers THEN thread[m_Lock].data ELSE <<>>

(***************************************************************************)
(* However many threads call, the ring is a queue: what a WriteData        *)
(* accepted is appended as a whole, ReadData takes off what it returns, in *)
(* order, Reset and ResetOut take off what is there, and the answers that  *)
(* IsFull and IsEmpty give without the lock do no harm.                    *)
(***************************************************************************)
ImplementsFifo == Fifo!Spec

-----------------------------------------------------------------------------
(* Liveness. *)

(***************************************************************************)
(* Unless someone resets it, every thread gets its bytes through a ring    *)
(* that has any, and the main thread joins them all: a wrong answer of     *)
(* IsFull or IsEmpty costs a round of the loop and no more, and those that *)
(* wait for room or for bytes leave the lock to those that bring them.     *)
(***************************************************************************)
Finishes == (m_uSize > 0 /\ [](resets = 0)) => <>(main.at = "deleted")
=============================================================================
