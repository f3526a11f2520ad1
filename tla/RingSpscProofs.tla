---------------------------- MODULE RingSpscProofs ----------------------------
(***************************************************************************)
(* Theorems of RingBufferSpsc, for every width of BufferSize, every size   *)
(* that divides its range, every byte and every length of a call.          *)
(*                                                                         *)
(* The reader's call never takes more than the ring holds (ReaderInv), and *)
(* the writer's bytes fit beside what the ring holds (WriterInv): each     *)
(* loads the other's position once, and the other's stores move the two    *)
(* further apart only in its favour. Places are counted modulo the size,   *)
(* so what fits beside is copied apart, and the positions wrap unnoticed.  *)
(***************************************************************************)
EXTENDS RingBufferSpsc, CommonLemmas, SequenceTheorems, TLAPS

(* The bytes in the ring, and how many they are. *)
Held == GetLen(m_uIn, m_uOut)
Queue == [i \in 1..GetLen(m_uIn, m_uOut) |-> m_pBuffer[Slot(m_uOut, i - 1)]]

StateInv ==
    /\ m_uIn \in Position /\ m_uOut \in Position
    /\ m_pBuffer \in [0..(Size - 1) -> Byte]
    /\ writing \in [data : Seq(Byte), copied : Nat]
    /\ reading \in [op : {"none", "ReadData", "ResetOut"}, upto : Position, data : Seq(Byte)]
    /\ got \in Seq(Byte)

(* The bytes of a WriteData call fit, and those copied are where they go. *)
WriterInv ==
    /\ Held + Len(writing.data) <= Size
    /\ writing.copied <= Len(writing.data)
    /\ \A i \in 0..(writing.copied - 1) :
          m_pBuffer[Slot(m_uIn, i)] = writing.data[i + 1]

(* What a ReadData call takes off is in the ring, and was copied as it is. *)
ReaderInv ==
    /\ reading.op # "none" => ReadLen <= Held
    /\ reading.op = "ReadData" => ReadLen >= 1 /\ Len(reading.data) <= ReadLen
    /\ reading.op # "ReadData" => reading.data = <<>>
    /\ \A i \in 1..Len(reading.data) : reading.data[i] = m_pBuffer[Slot(m_uOut, i - 1)]

(* An answer is kept only as long as its caller does nothing else. *)
AnswerInv ==
    /\ roomSeen \in BOOLEAN /\ dataSeen \in BOOLEAN
    /\ roomSeen => Idle /\ Held < Size
    /\ dataSeen => reading.op = "none" /\ Held > 0

IInv == StateInv /\ WriterInv /\ ReaderInv /\ AnswerInv

-----------------------------------------------------------------------------
(* Positions. *)

(* What the assumption on the constants says of the modulus. *)
LEMMA Constants ==
    /\ Size \in Nat \ {0} /\ Modulus \in Nat \ {0} /\ Size < Modulus
    /\ MaxLen \in Nat /\ 0 \in Position /\ Position = 0..(Modulus - 1)
  BY SizeAssumption DEF Position

(* The bytes between two positions. *)
LEMMA LenType ==
    ASSUME NEW a \in Position, NEW b \in Position
    PROVE  /\ GetLen(a, b) \in Nat /\ GetLen(a, b) < Modulus
           /\ GetLen(a, b) = 0 <=> a = b
           /\ a = Advance(b, GetLen(a, b))
  <1>1. GetLen(a, b) = IF a >= b THEN a - b ELSE a + Modulus - b
    BY Constants, LenExact DEF GetLen
  <1>2. a = Advance(b, GetLen(a, b))
    BY Constants, LaterExact DEF GetLen, Advance
  <1>3. a \in 0..(Modulus - 1) /\ b \in 0..(Modulus - 1) /\ Modulus \in Nat
    BY Constants
  <1>4. GetLen(a, b) \in Nat /\ GetLen(a, b) < Modulus /\ (GetLen(a, b) = 0 <=> a = b)
    BY <1>1, <1>3
  <1> QED
    BY <1>2, <1>4

(* The room beside them. *)
LEMMA AvailIs ==
    ASSUME NEW i \in Position, NEW o \in Position, GetLen(i, o) <= Size
    PROVE  GetAvail(i, o) = Size - GetLen(i, o)
  <1>1. Size \in 0..(Modulus - 1)
    BY Constants
  <1> QED
    BY <1>1, Constants, AvailExact DEF GetLen, GetAvail

(* A position n bytes on. *)
LEMMA AdvanceType ==
    ASSUME NEW p \in Position, NEW n \in Nat
    PROVE  Advance(p, n) \in Position
  <1>1. p + n \in Int
    BY Constants
  <1> QED
    BY <1>1, Constants, ModIn DEF Advance

(* The store of m_uIn. *)
LEMMA LenWritten ==
    ASSUME NEW i \in Position, NEW o \in Position, NEW n \in Nat, GetLen(i, o) + n <= Size
    PROVE  GetLen(Advance(i, n), o) = GetLen(i, o) + n
  <1>1. GetLen(i, o) + n < Modulus
    <2>1. GetLen(i, o) \in Nat
      BY LenType
    <2> QED
      BY <2>1, Constants
  <1> QED
    BY <1>1, Constants, LenAfterWrite DEF GetLen, Advance

(* The store of m_uOut. *)
LEMMA LenRead ==
    ASSUME NEW i \in Position, NEW o \in Position, NEW u \in Position,
           GetLen(u, o) <= GetLen(i, o)
    PROVE  GetLen(i, u) = GetLen(i, o) - GetLen(u, o)
  <1> DEFINE n == GetLen(u, o)
  <1>1. n \in Nat /\ u = Advance(o, n)
    BY LenType
  <1> HIDE DEF n
  <1>2. n <= GetLen(i, o)
    BY DEF n
  <1>3. GetLen(i, Advance(o, n)) = GetLen(i, o) - n
    <2>1. /\ i \in 0..(Modulus - 1) /\ o \in 0..(Modulus - 1) /\ Modulus \in Nat \ {0}
          /\ n <= (i + Modulus - o) % Modulus
      BY <1>2, Constants DEF GetLen
    <2>2. (i + Modulus - ((o + n) % Modulus)) % Modulus = ((i + Modulus - o) % Modulus) - n
      BY <1>1, <2>1, LenAfterRead
    <2> QED
      BY <2>2 DEF GetLen, Advance
  <1> QED
    BY <1>1, <1>3 DEF n

(* The position that ReadData is going to store. *)
LEMMA LenAhead ==
    ASSUME NEW o \in Position, NEW n \in Nat, n <= Size
    PROVE  GetLen(Advance(o, n), o) = n
  <1>1. GetLen(o, o) = 0
    BY LenType
  <1> QED
    BY <1>1, LenWritten

-----------------------------------------------------------------------------
(* Places. *)

(* The place of a byte, counted on from a position. *)
LEMMA SlotExact ==
    ASSUME NEW pos \in Position, NEW i \in 0..(Size - 1)
    PROVE  /\ Slot(pos, i) = (pos + i) % Size
           /\ Slot(pos, i) \in 0..(Size - 1)
  <1>1. pos \in Int /\ pos + i \in Int
    BY Constants
  <1>2. Slot(pos, i) = (pos + i) % Size
    BY <1>1, Constants, PlaceExact DEF Slot
  <1> QED
    BY <1>1, <1>2, Constants, ModIn

(* Counting from a position n on is counting n further. *)
LEMMA SlotAdvance ==
    ASSUME NEW pos \in Position, NEW n \in Nat, NEW i \in Nat, n + i < Size
    PROVE  Slot(Advance(pos, n), i) = Slot(pos, n + i)
  <1>1. i \in 0..(Size - 1) /\ n + i \in 0..(Size - 1)
    BY Constants
  <1>2. Slot(Advance(pos, n), i) = (Advance(pos, n) + i) % Size
    BY <1>1, AdvanceType, SlotExact
  <1>3. Slot(pos, n + i) = (pos + (n + i)) % Size
    BY <1>1, SlotExact
  <1>4. (((pos + n) % Modulus) + i) % Size = ((pos + n) + i) % Size
    <2>1. \A S, M \in Nat \ {0}, x, j \in Int :
             M % S = 0 => ((x % M) + j) % S = (x + j) % S
      BY ModAdd
    <2>2. pos + n \in Int /\ i \in Int
      BY Constants
    <2> QED
      BY <2>1, <2>2, SizeAssumption, Constants, Zenon
  <1>5. (pos + n) + i = pos + (n + i)
    BY Constants
  <1> QED
    BY <1>2, <1>3, <1>4, <1>5 DEF Advance

(* Different bytes of a stretch are at different places. *)
LEMMA SlotApart ==
    ASSUME NEW pos \in Position, NEW i \in 0..(Size - 1), NEW j \in 0..(Size - 1),
           Slot(pos, i) = Slot(pos, j)
    PROVE  i = j
  <1>1. (pos + i) % Size = (pos + j) % Size
    BY SlotExact
  <1>2. pos \in Int /\ pos + i \in Int /\ pos + j \in Int
    BY Constants
  <1>3. CASE i <= j
    <2>1. pos + i <= pos + j /\ (pos + j) - (pos + i) < Size
      BY <1>2, <1>3, Constants
    <2>2. pos + i = pos + j
      BY <1>1, <1>2, <2>1, Constants, ModSame
    <2> QED
      BY <1>2, <2>2
  <1>4. CASE j <= i
    <2>1. pos + j <= pos + i /\ (pos + i) - (pos + j) < Size
      BY <1>2, <1>4, Constants
    <2>2. pos + j = pos + i
      BY <1>1, <1>2, <2>1, Constants, ModSame
    <2> QED
      BY <1>2, <2>2
  <1> QED
    BY <1>3, <1>4

(* The sizes that an invariant state has to do with. *)
LEMMA Sizes ==
    ASSUME IInv
    PROVE  /\ Held \in Nat /\ Len(writing.data) \in Nat /\ writing.copied \in Nat
           /\ Held + Len(writing.data) <= Size /\ Held <= Size
           /\ ReadLen \in Nat /\ Len(reading.data) \in Nat
  <1>1. Held \in Nat /\ ReadLen \in Nat
    BY LenType DEF IInv, StateInv, Held, ReadLen
  <1>2. /\ Len(writing.data) \in Nat /\ writing.copied \in Nat
        /\ Len(reading.data) \in Nat
    BY DEF IInv, StateInv
  <1>3. Held + Len(writing.data) <= Size
    BY DEF IInv, WriterInv
  <1> QED
    BY <1>1, <1>2, <1>3, Constants

(* What the writer copies goes beyond what the ring holds. *)
LEMMA CopyIsBeyond ==
    ASSUME IInv, NEW i \in 0..(Held - 1), NEW k \in 0..(Len(writing.data) - 1)
    PROVE  /\ Slot(m_uIn, k) # Slot(m_uOut, i)
           /\ Slot(m_uIn, k) \in 0..(Size - 1) /\ Slot(m_uOut, i) \in 0..(Size - 1)
  <1>1. m_uIn \in Position /\ m_uOut \in Position /\ m_uIn = Advance(m_uOut, Held)
    BY LenType DEF IInv, StateInv, Held
  <1> HIDE DEF Held
  <1>2. /\ Held + k \in 0..(Size - 1) /\ i \in 0..(Size - 1) /\ k \in 0..(Size - 1)
        /\ Held \in Nat /\ k \in Nat /\ Held + k < Size /\ Held + k # i
    <2> DEFINE n == Len(writing.data)
    <2>1. Held \in Nat /\ n \in Nat /\ Held + n <= Size
      BY Sizes
    <2>2. i \in 0..(Held - 1) /\ k \in 0..(n - 1)
      OBVIOUS
    <2> HIDE DEF n
    <2> QED
      BY <2>1, <2>2, Constants
  <1>3. Slot(m_uIn, k) = Slot(m_uOut, Held + k)
    BY <1>1, <1>2, SlotAdvance
  <1>4. Slot(m_uOut, Held + k) # Slot(m_uOut, i)
    BY <1>1, <1>2, SlotApart
  <1> QED
    BY <1>1, <1>2, <1>3, <1>4, SlotExact

-----------------------------------------------------------------------------
(* The steps of the queue, by the names that the states have here. *)

(* A step that leaves all three as they are is a stutter. *)
LEMMA Stutters ==
    ASSUME UNCHANGED <<Queue, writing.data, got>>
    PROVE  UNCHANGED Fifo!vars
  BY DEF Fifo!vars, Queue

(* WriteData accepts bytes. *)
LEMMA Accepts ==
    ASSUME writing.data = <<>>, NEW n \in 1..(Size - Len(Queue)),
           writing'.data \in [1..n -> Byte], UNCHANGED <<Queue, got>>
    PROVE  Fifo!Next
  <1>1. Fifo!Accept
    BY DEF Fifo!Accept, Queue
  <1> QED
    BY <1>1 DEF Fifo!Next

(* WriteData appends them. *)
LEMMA Writes ==
    ASSUME writing.data # <<>>, Queue' = Queue \o writing.data, writing'.data = <<>>,
           UNCHANGED got
    PROVE  Fifo!Next
  <1>1. Fifo!Write
    BY DEF Fifo!Write, Queue
  <1> QED
    BY <1>1 DEF Fifo!Next

(* ReadData takes bytes off, and returns them. *)
LEMMA Reads ==
    ASSUME NEW n \in 1..Len(Queue), Queue' = SubSeq(Queue, n + 1, Len(Queue)),
           got' = SubSeq(Queue, 1, n), UNCHANGED writing
    PROVE  Fifo!Next
  <1>1. Fifo!Read
    BY DEF Fifo!Read, Fifo!TakeOff, Queue
  <1> QED
    BY <1>1 DEF Fifo!Next

(* ResetOut takes bytes off. *)
LEMMA Drops ==
    ASSUME NEW n \in 1..Len(Queue), Queue' = SubSeq(Queue, n + 1, Len(Queue)),
           UNCHANGED <<writing, got>>
    PROVE  Fifo!Next
  <1>1. Fifo!Drop
    BY DEF Fifo!Drop, Fifo!TakeOff, Queue
  <1> QED
    BY <1>1 DEF Fifo!Next

(* The bytes of the queue are bytes. *)
LEMMA QueueType ==
    ASSUME IInv
    PROVE  /\ Queue \in [1..Held -> Byte] /\ Queue \in Seq(Byte) /\ Len(Queue) = Held
           /\ \A i \in 1..Held : Queue[i] = m_pBuffer[Slot(m_uOut, i - 1)]
  <1>1. ASSUME NEW i \in 1..Held
        PROVE  m_pBuffer[Slot(m_uOut, i - 1)] \in Byte
    <2>1. i - 1 \in 0..(Size - 1)
      BY Sizes, Constants
    <2>2. m_uOut \in Position /\ m_pBuffer \in [0..(Size - 1) -> Byte]
      BY DEF IInv, StateInv
    <2>3. Slot(m_uOut, i - 1) \in 0..(Size - 1)
      BY <2>1, <2>2, SlotExact
    <2> QED
      BY <2>2, <2>3
  <1>2. Queue = [i \in 1..Held |-> m_pBuffer[Slot(m_uOut, i - 1)]]
    BY DEF Queue, Held
  <1>3. Held \in Nat
    BY Sizes
  <1> HIDE DEF Held
  <1>4. Queue \in [1..Held -> Byte]
    BY <1>1, <1>2
  <1>5. Queue \in Seq(Byte) /\ Len(Queue) = Held
    BY <1>3, <1>4, SeqDef
  <1> QED
    BY <1>2, <1>4, <1>5

(* A stretch of a queue, byte by byte. *)
LEMMA SubSeqIs ==
    ASSUME NEW q, NEW m \in Nat, NEW n \in Nat
    PROVE  SubSeq(q, m + 1, n) = [i \in 1..(n - m) |-> q[m + i]]
  OBVIOUS

(* A step that leaves the ring alone keeps the queue. *)
LEMMA RingKept ==
    ASSUME UNCHANGED <<m_uIn, m_uOut, m_pBuffer>>
    PROVE  Queue' = Queue /\ Held' = Held
  BY DEF Queue, Held

-----------------------------------------------------------------------------
(* The writer's steps. *)

(* IsFull() answers. *)
LEMMA CallIsFullMaps ==
    ASSUME IInv, CallIsFull
    PROVE  IInv' /\ [Fifo!Next]_(Fifo!vars)
  <1>1. /\ Idle /\ roomSeen' = ~(Size = Held)
        /\ UNCHANGED <<m_uIn, m_uOut, m_pBuffer, writing, reading, dataSeen, got>>
    BY DEF CallIsFull, readerVars, IsFull, Held
  <1>2. Queue' = Queue /\ Held' = Held /\ ReadLen' = ReadLen /\ Idle'
    BY <1>1, RingKept DEF ReadLen, Idle
  <1>3. StateInv' /\ WriterInv' /\ ReaderInv'
    BY <1>1, <1>2 DEF IInv, StateInv, WriterInv, ReaderInv
  <1>4. roomSeen' => Held < Size
    <2>1. Size # Held => Held < Size
      <3>1. Held \in Nat /\ Held <= Size
        BY Sizes
      <3> HIDE DEF Held
      <3> QED
        BY <3>1, Constants
    <2> QED
      BY <1>1, <2>1
  <1>5. AnswerInv'
    BY <1>1, <1>2, <1>4 DEF IInv, AnswerInv
  <1> QED
    BY <1>1, <1>2, <1>3, <1>5, Stutters DEF IInv

(* WriteData accepts what it has room for. *)
LEMMA WriteLoadsMaps ==
    ASSUME IInv, NEW n \in 0..MaxLen, NEW d \in [1..n -> Byte], WriteLoads(d)
    PROVE  IInv' /\ [Fifo!Next]_(Fifo!vars)
  <1> DEFINE len == Smaller(GetAvail(m_uIn, m_uOut), Len(d))
             s == SubSeq(d, 1, len)
  <1>1. /\ writing = NotWriting /\ writing' = [data |-> s, copied |-> 0]
        /\ roomSeen' = FALSE
        /\ UNCHANGED <<m_uIn, m_uOut, m_pBuffer, reading, dataSeen, got>>
    BY DEF WriteLoads, readerVars, Idle
  <1>2. n \in Nat /\ d \in Seq(Byte) /\ Len(d) = n
    <2>1. n \in Nat
      BY Constants
    <2> QED
      BY <2>1, SeqDef
  <1>3. GetAvail(m_uIn, m_uOut) = Size - Held /\ Held \in Nat /\ Held <= Size
    <2>1. m_uIn \in Position /\ m_uOut \in Position /\ Held \in Nat /\ Held <= Size
      BY Sizes DEF IInv, StateInv
    <2> QED
      BY <2>1, AvailIs DEF Held
  <1>4. len \in Nat /\ len <= n /\ Held + len <= Size
    <2> HIDE DEF Held
    <2> QED
      BY <1>2, <1>3, Constants DEF Smaller
  <1> HIDE DEF len
  <1>5. s \in [1..len -> Byte] /\ s \in Seq(Byte) /\ Len(s) = len
    <2>1. s = [i \in 1..len |-> d[i]]
      BY <1>2, <1>4, SubSeqIs
    <2>2. \A i \in 1..len : d[i] \in Byte
      BY <1>2, <1>4
    <2>3. s \in [1..len -> Byte]
      <3> HIDE DEF s
      <3> QED
        BY <2>1, <2>2
    <2> HIDE DEF s
    <2> QED
      BY <1>4, <2>3, SeqDef
  <1> HIDE DEF s
  <1>6. Queue' = Queue /\ Held' = Held /\ ReadLen' = ReadLen
    BY <1>1, RingKept DEF ReadLen
  <1>7. writing'.data = s /\ writing'.copied = 0
    BY <1>1
  <1>8. StateInv' /\ ReaderInv'
    BY <1>1, <1>5, <1>6 DEF IInv, StateInv, ReaderInv
  <1>9. WriterInv'
    BY <1>4, <1>5, <1>6, <1>7 DEF WriterInv
  <1>10. AnswerInv'
    BY <1>1, <1>6 DEF IInv, AnswerInv
  <1>11. writing.data = <<>>
    BY <1>1 DEF NotWriting
  <1>12. CASE len = 0
    <2>1. s = <<>>
      BY <1>5, <1>12
    <2> QED
      BY <1>1, <1>6, <1>7, <1>8, <1>9, <1>10, <1>11, <2>1, Stutters DEF IInv
  <1>13. CASE len # 0
    <2>1. len \in 1..(Size - Len(Queue))
      <3>1. Len(Queue) = Held
        BY QueueType
      <3> HIDE DEF Held
      <3> QED
        BY <1>3, <1>4, <1>13, <3>1, Constants
    <2> QED
      BY <1>1, <1>5, <1>6, <1>7, <1>8, <1>9, <1>10, <1>11, <2>1, Accepts DEF IInv
  <1> QED
    BY <1>12, <1>13

(* WriteData copies a byte beside those that the ring holds. *)
LEMMA WriteCopiesMaps ==
    ASSUME IInv, WriteCopies
    PROVE  IInv' /\ [Fifo!Next]_(Fifo!vars)
  <1> DEFINE k == writing.copied
             b == writing.data[k + 1]
             x == Slot(m_uIn, k)
  <1>1. /\ k < Len(writing.data) /\ m_pBuffer' = [m_pBuffer EXCEPT ![x] = b]
        /\ writing' = [writing EXCEPT !.copied = @ + 1]
        /\ UNCHANGED <<m_uIn, m_uOut, roomSeen, reading, dataSeen, got>>
    BY DEF WriteCopies, readerVars
  <1>2. /\ writing \in [data : Seq(Byte), copied : Nat] /\ k \in Nat
        /\ Len(writing.data) \in Nat /\ k \in 0..(Len(writing.data) - 1)
    BY <1>1 DEF IInv, StateInv
  <1>3. writing'.data = writing.data /\ writing'.copied = k + 1
        /\ writing' \in [data : Seq(Byte), copied : Nat]
    BY <1>1, <1>2
  <1>4. Held' = Held /\ ReadLen' = ReadLen
    BY <1>1 DEF Held, ReadLen
  <1>5. b \in Byte
    BY <1>2, ElementOfSeq
  <1>6. m_uIn \in Position /\ k \in 0..(Size - 1) /\ x \in 0..(Size - 1)
    <2>1. m_uIn \in Position
      BY DEF IInv, StateInv
    <2>2. k \in 0..(Size - 1)
      <3>1. Held + Len(writing.data) <= Size /\ Held \in Nat
        BY Sizes
      <3> HIDE DEF Held
      <3> QED
        BY <1>2, <3>1, Constants
    <2> QED
      BY <2>1, <2>2, SlotExact
  <1>7. /\ m_pBuffer \in [0..(Size - 1) -> Byte] /\ m_pBuffer'[x] = b
        /\ \A y \in 0..(Size - 1) : y # x => m_pBuffer'[y] = m_pBuffer[y]
        /\ m_pBuffer' \in [0..(Size - 1) -> Byte]
    BY <1>1, <1>5, <1>6 DEF IInv, StateInv
  <1> HIDE DEF b, x
  <1>8. \A i \in 1..Held : m_pBuffer'[Slot(m_uOut, i - 1)] = m_pBuffer[Slot(m_uOut, i - 1)]
    <2> SUFFICES ASSUME NEW i \in 1..Held
                 PROVE  m_pBuffer'[Slot(m_uOut, i - 1)] = m_pBuffer[Slot(m_uOut, i - 1)]
      OBVIOUS
    <2>1. i - 1 \in 0..(Held - 1)
      BY Sizes
    <2> QED
      BY <1>2, <1>7, <2>1, CopyIsBeyond DEF x
  <1>9. Queue' = Queue
    BY <1>1, <1>4, <1>8 DEF Queue, Held
  <1>10. StateInv'
    BY <1>1, <1>3, <1>7 DEF IInv, StateInv
  <1>11. WriterInv'
    <2>1. \A i \in 0..k : m_pBuffer'[Slot(m_uIn, i)] = writing.data[i + 1]
      <3> SUFFICES ASSUME NEW i \in 0..k
                   PROVE  m_pBuffer'[Slot(m_uIn, i)] = writing.data[i + 1]
        OBVIOUS
      <3>1. CASE i = k
        BY <1>7, <3>1 DEF x, b
      <3>2. CASE i # k
        <4>1. i \in 0..(k - 1) /\ i \in 0..(Size - 1)
          BY <1>2, <1>6, <3>2, Constants
        <4>2. Slot(m_uIn, i) # x /\ Slot(m_uIn, i) \in 0..(Size - 1)
          BY <1>6, <3>2, <4>1, SlotApart, SlotExact DEF x
        <4>3. m_pBuffer[Slot(m_uIn, i)] = writing.data[i + 1]
          BY <4>1 DEF IInv, WriterInv
        <4> QED
          BY <1>7, <4>2, <4>3
      <3> QED
        BY <3>1, <3>2
    <2>2. k + 1 <= Len(writing.data)
      BY <1>1, <1>2
    <2>3. 0..((k + 1) - 1) = 0..k
      BY <1>2
    <2>4. Held + Len(writing.data) <= Size
      BY Sizes
    <2> QED
      BY <1>1, <1>3, <1>4, <2>1, <2>2, <2>3, <2>4 DEF WriterInv
  <1>12. ReaderInv'
    <2>1. \A i \in 1..Len(reading.data) : m_pBuffer'[Slot(m_uOut, i - 1)] = reading.data[i]
      <3> SUFFICES ASSUME NEW i \in 1..Len(reading.data)
                   PROVE  m_pBuffer'[Slot(m_uOut, i - 1)] = reading.data[i]
        OBVIOUS
      <3>1. i \in 1..Held
        <4>1. Len(reading.data) <= Held
          <5>1. reading.op = "ReadData"
            BY DEF IInv, ReaderInv
          <5>2. Len(reading.data) <= ReadLen /\ ReadLen <= Held
            BY <5>1 DEF IInv, ReaderInv
          <5> QED
            BY <5>2, Sizes
        <4> QED
          BY <4>1, Sizes
      <3> QED
        BY <1>8, <3>1 DEF IInv, ReaderInv
    <2> QED
      BY <1>1, <1>4, <2>1 DEF IInv, ReaderInv
  <1>13. ~roomSeen
    <2>1. writing # NotWriting
      BY <1>2 DEF NotWriting
    <2> QED
      BY <2>1 DEF IInv, AnswerInv, Idle
  <1>14. AnswerInv'
    BY <1>1, <1>4, <1>13 DEF IInv, AnswerInv
  <1> QED
    BY <1>1, <1>3, <1>9, <1>10, <1>11, <1>12, <1>14, Stutters DEF IInv

(* Two queues one behind the other, byte by byte. *)
LEMMA ConcatIs ==
    ASSUME NEW q \in Seq(Byte), NEW d \in Seq(Byte)
    PROVE  q \o d = [i \in 1..(Len(q) + Len(d)) |->
                        IF i <= Len(q) THEN q[i] ELSE d[i - Len(q)]]
  <1> DEFINE L == Len(q)
             n == Len(d)
  <1>1. /\ q \o d \in Seq(Byte) /\ Len(q \o d) = L + n
        /\ \A i \in 1..(L + n) : (q \o d)[i] = IF i <= L THEN q[i] ELSE d[i - L]
    BY ConcatProperties
  <1>2. q \o d \in [1..(L + n) -> Byte]
    BY <1>1, LenProperties
  <1> HIDE DEF L, n
  <1>3. q \o d = [i \in 1..(L + n) |-> (q \o d)[i]]
    BY <1>2
  <1>4. q \o d = [i \in 1..(L + n) |-> IF i <= L THEN q[i] ELSE d[i - L]]
    BY <1>1, <1>3
  <1> QED
    BY <1>4 DEF L, n

(* WriteData stores m_uIn: what it accepted is appended. *)
LEMMA WriteStoresMaps ==
    ASSUME IInv, WriteStores
    PROVE  IInv' /\ [Fifo!Next]_(Fifo!vars)
  <1> DEFINE d == writing.data
             n == Len(d)
             L == GetLen(m_uIn, m_uOut)
  <1>1. /\ ~Idle /\ writing.copied = n /\ m_uIn' = Advance(m_uIn, n)
        /\ writing' = NotWriting
        /\ UNCHANGED <<m_pBuffer, m_uOut, roomSeen, reading, dataSeen, got>>
    BY DEF WriteStores, readerVars
  <1>2. /\ m_uIn \in Position /\ m_uOut \in Position /\ d \in Seq(Byte)
        /\ writing \in [data : Seq(Byte), copied : Nat]
    BY DEF IInv, StateInv
  <1>3. n \in Nat /\ L \in Nat /\ L + n <= Size /\ m_uIn = Advance(m_uOut, L)
    BY <1>2, Sizes, LenType DEF Held
  <1>4. m_uIn' \in Position /\ GetLen(m_uIn', m_uOut) = L + n
    <2> HIDE DEF n
    <2> QED
      BY <1>1, <1>2, <1>3, AdvanceType, LenWritten
  <1>5. Held' = L + n /\ Held = L /\ ReadLen' = ReadLen
    BY <1>1, <1>4 DEF Held, ReadLen
  <1>6. d # <<>>
    <2>1. d = <<>> => writing = NotWriting
      BY <1>1, <1>2 DEF NotWriting
    <2> QED
      BY <1>1, <2>1 DEF Idle
  <1>7. writing'.data = <<>> /\ writing'.copied = 0 /\ Idle' /\ Len(writing'.data) = 0
    BY <1>1 DEF NotWriting, Idle
  <1>8. ~roomSeen
    BY <1>1 DEF IInv, AnswerInv
  <1>9. StateInv'
    BY <1>1, <1>4, EmptySeq DEF IInv, StateInv, NotWriting
  <1>10. WriterInv'
    <2> HIDE DEF n, L
    <2>1. L + n + 0 <= Size
      BY <1>3, Constants
    <2> QED
      BY <1>1, <1>5, <1>7, <2>1 DEF WriterInv
  <1>11. ReaderInv'
    <2>1. ReadLen \in Nat /\ L <= L + n /\ (ReadLen <= L => ReadLen <= L + n)
      <3>1. ReadLen \in Nat
        BY Sizes
      <3> HIDE DEF n, L
      <3> QED
        BY <1>3, <3>1
    <2> QED
      BY <1>1, <1>5, <2>1 DEF IInv, ReaderInv
  <1>12. AnswerInv'
    <2>1. L > 0 => L + n > 0
      <3> HIDE DEF n, L
      <3> QED
        BY <1>3
    <2> QED
      BY <1>1, <1>5, <1>8, <2>1 DEF IInv, AnswerInv
  <1>13. /\ Queue \in Seq(Byte) /\ Len(Queue) = L
         /\ \A i \in 1..L : Queue[i] = m_pBuffer[Slot(m_uOut, i - 1)]
    BY <1>5, QueueType
  <1>14. Queue' = [i \in 1..(L + n) |-> m_pBuffer[Slot(m_uOut, i - 1)]]
    BY <1>1, <1>4 DEF Queue
  <1>15. ASSUME NEW i \in 0..(n - 1)
         PROVE  m_pBuffer[Slot(m_uOut, L + i)] = d[i + 1]
    <2>1. m_pBuffer[Slot(m_uIn, i)] = d[i + 1]
      BY <1>1, <1>15 DEF IInv, WriterInv
    <2>2. i \in Nat /\ L + i < Size
      <3> HIDE DEF n, L
      <3> QED
        BY <1>3, <1>15, Constants
    <2> HIDE DEF L
    <2>3. Slot(m_uIn, i) = Slot(m_uOut, L + i)
      BY <1>2, <1>3, <2>2, SlotAdvance
    <2> QED
      BY <2>1, <2>3
  <1>16. Queue' = Queue \o d
    <2>1. ASSUME NEW i \in 1..(L + n)
          PROVE  Queue'[i] = IF i <= L THEN Queue[i] ELSE d[i - L]
      <3>1. Queue'[i] = m_pBuffer[Slot(m_uOut, i - 1)]
        BY <1>14, <2>1
      <3> HIDE DEF n, L, d
      <3>2. CASE i <= L
        <4>1. i \in 1..L
          BY <1>3, <2>1, <3>2
        <4> QED
          BY <1>13, <3>1, <3>2, <4>1
      <3>3. CASE i > L
        <4>1. /\ i - 1 - L \in 0..(n - 1) /\ L + (i - 1 - L) = i - 1
              /\ (i - 1 - L) + 1 = i - L /\ ~(i <= L)
          BY <1>3, <2>1, <3>3
        <4>2. m_pBuffer[Slot(m_uOut, L + (i - 1 - L))] = d[(i - 1 - L) + 1]
          BY <1>15, <4>1
        <4> QED
          BY <3>1, <4>1, <4>2
      <3> QED
        BY <1>3, <2>1, <3>2, <3>3
    <2>2. Queue' = [i \in 1..(L + n) |-> Queue'[i]]
      BY <1>14
    <2>3. Queue \o d = [i \in 1..(L + n) |-> IF i <= L THEN Queue[i] ELSE d[i - L]]
      <3>1. Queue \o d = [i \in 1..(Len(Queue) + Len(d)) |->
                             IF i <= Len(Queue) THEN Queue[i] ELSE d[i - Len(Queue)]]
        BY <1>2, <1>13, ConcatIs
      <3>2. Len(Queue) = L /\ Len(d) = n
        BY <1>13
      <3> HIDE DEF n, L, d
      <3> QED
        BY <3>1, <3>2
    <2> HIDE DEF n, L, d
    <2> QED
      BY <2>1, <2>2, <2>3
  <1>17. Fifo!Next
    BY <1>1, <1>6, <1>7, <1>16, Writes
  <1> QED
    BY <1>9, <1>10, <1>11, <1>12, <1>17 DEF IInv

-----------------------------------------------------------------------------
(* The reader's steps. *)

(* A step that only looks at the ring. *)
LEMMA LookMaps ==
    ASSUME IInv, UNCHANGED <<m_uIn, m_uOut, m_pBuffer, writing, roomSeen, got>>,
           StateInv', ReaderInv', dataSeen' \in BOOLEAN,
           dataSeen' => reading'.op = "none" /\ Held > 0
    PROVE  IInv' /\ [Fifo!Next]_(Fifo!vars)
  <1>1. Queue' = Queue /\ Held' = Held /\ (Idle' <=> Idle)
    BY RingKept DEF Idle
  <1>2. WriterInv'
    BY <1>1 DEF IInv, WriterInv
  <1>3. AnswerInv'
    BY <1>1 DEF IInv, AnswerInv
  <1> QED
    BY <1>1, <1>2, <1>3, Stutters DEF IInv

(* IsEmpty() answers. *)
LEMMA CallIsEmptyMaps ==
    ASSUME IInv, CallIsEmpty
    PROVE  IInv' /\ [Fifo!Next]_(Fifo!vars)
  <1>1. /\ reading.op = "none" /\ dataSeen' = ~(m_uIn = m_uOut)
        /\ UNCHANGED <<m_uIn, m_uOut, m_pBuffer, writing, roomSeen, reading, got>>
    BY DEF CallIsEmpty, writerVars, IsEmpty
  <1>2. m_uIn # m_uOut => Held > 0
    <2>1. Held \in Nat /\ (Held = 0 <=> m_uIn = m_uOut)
      BY LenType DEF Held, IInv, StateInv
    <2> HIDE DEF Held
    <2> QED
      BY <2>1
  <1>3. StateInv' /\ ReaderInv'
    BY <1>1 DEF IInv, StateInv, ReaderInv, Held, ReadLen
  <1> QED
    BY <1>1, <1>2, <1>3, LookMaps

(* ReadData looks what there is, and takes no more. *)
LEMMA ReadLoadsMaps ==
    ASSUME IInv, NEW n \in 0..MaxLen, ReadLoads(n)
    PROVE  IInv' /\ [Fifo!Next]_(Fifo!vars)
  <1> DEFINE len == Smaller(GetLen(m_uIn, m_uOut), n)
  <1>1. /\ reading' = IF len = 0 THEN NotReading
                      ELSE [op |-> "ReadData", upto |-> Advance(m_uOut, len), data |-> <<>>]
        /\ dataSeen' = FALSE
        /\ UNCHANGED <<m_uIn, m_uOut, m_pBuffer, writing, roomSeen, got>>
    BY DEF ReadLoads, writerVars
  <1>2. m_uOut \in Position /\ Held \in Nat /\ Held <= Size
    BY Sizes DEF IInv, StateInv
  <1>3. len \in Nat /\ len <= Held
    <2>1. n \in Nat /\ Held = GetLen(m_uIn, m_uOut)
      BY Constants DEF Held
    <2> HIDE DEF Held
    <2> QED
      BY <1>2, <2>1 DEF Smaller
  <1> HIDE DEF len
  <1>4. Held' = Held
    BY <1>1, RingKept
  <1> HIDE DEF Held
  <1>5. Advance(m_uOut, len) \in Position /\ GetLen(Advance(m_uOut, len), m_uOut) = len
    <2>1. len <= Size
      BY <1>2, <1>3, Constants
    <2> QED
      BY <1>2, <1>3, <2>1, AdvanceType, LenAhead
  <1>6. <<>> \in Seq(Byte) /\ Len(<<>>) = 0
    BY EmptySeq
  <1>7. CASE len = 0
    <2>1. reading' = NotReading
      BY <1>1, <1>7
    <2>2. StateInv'
      <3>1. NotReading \in [op : {"none", "ReadData", "ResetOut"}, upto : Position,
                            data : Seq(Byte)]
        BY <1>6, Constants DEF NotReading
      <3> QED
        BY <1>1, <2>1, <3>1 DEF IInv, StateInv
    <2>3. ReaderInv'
      BY <1>6, <2>1 DEF ReaderInv, NotReading
    <2> QED
      BY <1>1, <2>2, <2>3, LookMaps
  <1>8. CASE len # 0
    <2>1. reading' = [op |-> "ReadData", upto |-> Advance(m_uOut, len), data |-> <<>>]
      BY <1>1, <1>8
    <2>2. StateInv'
      <3>1. reading' \in [op : {"none", "ReadData", "ResetOut"}, upto : Position,
                          data : Seq(Byte)]
        BY <1>5, <1>6, <2>1
      <3> QED
        BY <1>1, <3>1 DEF IInv, StateInv
    <2>3. ReadLen' = len
      BY <1>1, <1>5, <2>1 DEF ReadLen
    <2>4. len >= 1 /\ 0 <= len
      BY <1>3, <1>8
    <2>5. ReaderInv'
      BY <1>3, <1>4, <1>6, <2>1, <2>3, <2>4 DEF ReaderInv
    <2> QED
      BY <1>1, <2>2, <2>5, LookMaps
  <1> QED
    BY <1>7, <1>8

(* ReadData copies the next byte that it takes off. *)
LEMMA ReadCopiesMaps ==
    ASSUME IInv, ReadCopies
    PROVE  IInv' /\ [Fifo!Next]_(Fifo!vars)
  <1> DEFINE m == Len(reading.data)
             b == m_pBuffer[Slot(m_uOut, m)]
             data == Append(reading.data, b)
  <1>1. /\ reading.op = "ReadData" /\ m < ReadLen
        /\ reading' = [reading EXCEPT !.data = data]
        /\ UNCHANGED <<m_uIn, m_uOut, m_pBuffer, writing, roomSeen, dataSeen, got>>
    BY DEF ReadCopies, writerVars
  <1>2. /\ reading \in [op : {"none", "ReadData", "ResetOut"}, upto : Position,
                        data : Seq(Byte)]
        /\ m_uOut \in Position /\ m_pBuffer \in [0..(Size - 1) -> Byte] /\ m \in Nat
    BY DEF IInv, StateInv
  <1>3. b \in Byte
    <2>1. m \in 0..(Size - 1)
      <3>1. ReadLen \in Nat /\ ReadLen <= Held /\ Held \in Nat /\ Held <= Size
        BY <1>1, Sizes DEF IInv, ReaderInv
      <3> HIDE DEF m, Held
      <3> QED
        BY <1>1, <1>2, <3>1, Constants
    <2>2. Slot(m_uOut, m) \in 0..(Size - 1)
      BY <1>2, <2>1, SlotExact
    <2> QED
      BY <1>2, <2>2
  <1> HIDE DEF b
  <1>4. /\ data \in Seq(Byte) /\ Len(data) = m + 1 /\ data[m + 1] = b
        /\ \A i \in 1..m : data[i] = reading.data[i]
    BY <1>2, <1>3
  <1>5. \A i \in 1..(m + 1) : data[i] = m_pBuffer[Slot(m_uOut, i - 1)]
    <2> SUFFICES ASSUME NEW i \in 1..(m + 1)
                 PROVE  data[i] = m_pBuffer[Slot(m_uOut, i - 1)]
      OBVIOUS
    <2>1. CASE i = m + 1
      <3>1. i - 1 = m
        BY <1>2, <2>1
      <3> QED
        BY <1>4, <2>1, <3>1 DEF b
    <2>2. CASE i # m + 1
      <3>1. i \in 1..m
        BY <1>2, <2>2
      <3> QED
        BY <1>4, <3>1 DEF IInv, ReaderInv
    <2> QED
      BY <2>1, <2>2
  <1> HIDE DEF data
  <1>6. /\ reading'.data = data /\ reading'.op = reading.op
        /\ reading'.upto = reading.upto
        /\ reading' \in [op : {"none", "ReadData", "ResetOut"}, upto : Position,
                         data : Seq(Byte)]
    BY <1>1, <1>2, <1>4
  <1>7. Held' = Held /\ ReadLen' = ReadLen
    BY <1>1, <1>6 DEF Held, ReadLen
  <1>8. StateInv'
    BY <1>1, <1>6 DEF IInv, StateInv
  <1>9. m + 1 <= ReadLen
    <2>1. ReadLen \in Nat
      BY Sizes
    <2> HIDE DEF m
    <2> QED
      BY <1>1, <1>2, <2>1
  <1>10. ReaderInv'
    BY <1>1, <1>4, <1>5, <1>6, <1>7, <1>9 DEF IInv, ReaderInv
  <1>11. ~dataSeen /\ dataSeen \in BOOLEAN
    BY <1>1 DEF IInv, AnswerInv
  <1> QED
    BY <1>1, <1>8, <1>10, <1>11, LookMaps

(* ResetOut looks how far there is something to drop. *)
LEMMA ResetOutLoadsMaps ==
    ASSUME IInv, ResetOutLoads
    PROVE  IInv' /\ [Fifo!Next]_(Fifo!vars)
  <1>1. /\ reading' = [op |-> "ResetOut", upto |-> m_uIn, data |-> <<>>]
        /\ dataSeen' = FALSE
        /\ UNCHANGED <<m_uIn, m_uOut, m_pBuffer, writing, roomSeen, got>>
    BY DEF ResetOutLoads, writerVars
  <1>2. <<>> \in Seq(Byte) /\ Len(<<>>) = 0
    BY EmptySeq
  <1>3. StateInv'
    <2>1. reading' \in [op : {"none", "ReadData", "ResetOut"}, upto : Position,
                        data : Seq(Byte)]
      BY <1>1, <1>2 DEF IInv, StateInv
    <2> QED
      BY <1>1, <2>1 DEF IInv, StateInv
  <1>4. ReadLen' = Held /\ Held' = Held /\ Held \in Nat
    BY <1>1, Sizes DEF ReadLen, Held
  <1>5. Held <= Held
    <2> HIDE DEF Held
    <2> QED
      BY <1>4
  <1>6. ReaderInv'
    BY <1>1, <1>2, <1>4, <1>5 DEF ReaderInv
  <1> QED
    BY <1>1, <1>3, <1>6, LookMaps

(* The store of m_uOut takes the bytes up to it off the queue. *)
LEMMA TakesOff ==
    ASSUME IInv, reading.op # "none", m_uOut' = reading.upto, reading' = NotReading,
           UNCHANGED <<m_uIn, m_pBuffer, writing, roomSeen, dataSeen>>, got' \in Seq(Byte)
    PROVE  /\ IInv'
           /\ ReadLen \in 0..Len(Queue)
           /\ Queue' = SubSeq(Queue, ReadLen + 1, Len(Queue))
  <1> DEFINE n == ReadLen
             L == Held
  <1>1. /\ m_uIn \in Position /\ m_uOut \in Position /\ reading.upto \in Position
        /\ L = GetLen(m_uIn, m_uOut) /\ n = GetLen(reading.upto, m_uOut)
    BY DEF IInv, StateInv, Held, ReadLen
  <1>2. n \in Nat /\ L \in Nat /\ n <= L /\ L <= Size
    BY Sizes DEF IInv, ReaderInv
  <1>3. reading.upto = Advance(m_uOut, n)
    BY <1>1, LenType
  <1>4. GetLen(m_uIn, reading.upto) = L - n
    BY <1>1, <1>2, LenRead
  <1>5. Held' = L - n
    BY <1>4 DEF Held
  <1>6. Len(Queue) = L /\ \A i \in 1..L : Queue[i] = m_pBuffer[Slot(m_uOut, i - 1)]
    BY QueueType
  <1> HIDE DEF n, L
  <1>7. ASSUME NEW i \in 1..(L - n)
        PROVE  m_pBuffer[Slot(reading.upto, i - 1)] = Queue[n + i]
    <2>1. /\ i - 1 \in Nat /\ n + (i - 1) < Size /\ n + i \in 1..L
          /\ n + (i - 1) = (n + i) - 1
      BY <1>2, <1>7, Constants
    <2>2. Slot(reading.upto, i - 1) = Slot(m_uOut, n + (i - 1))
      BY <1>1, <1>2, <1>3, <2>1, SlotAdvance
    <2> QED
      BY <1>6, <2>1, <2>2
  <1>8. Queue' = [i \in 1..(L - n) |-> m_pBuffer[Slot(reading.upto, i - 1)]]
    BY <1>4 DEF Queue
  <1>9. SubSeq(Queue, n + 1, L) = [i \in 1..(L - n) |-> Queue[n + i]]
    BY <1>2, SubSeqIs
  <1>10. Queue' = SubSeq(Queue, n + 1, Len(Queue))
    BY <1>6, <1>7, <1>8, <1>9
  <1>11. n \in 0..Len(Queue)
    BY <1>2, <1>6
  <1>12. reading.op = "ReadData" \/ reading.op = "ResetOut"
    BY DEF IInv, StateInv
  <1>13. ~dataSeen /\ dataSeen \in BOOLEAN /\ roomSeen \in BOOLEAN
    BY DEF IInv, AnswerInv
  <1>14. NotReading \in [op : {"none", "ReadData", "ResetOut"}, upto : Position,
                         data : Seq(Byte)]
    BY EmptySeq, Constants DEF NotReading
  <1>15. StateInv'
    BY <1>1, <1>14 DEF IInv, StateInv
  <1>16. WriterInv'
    <2>1. Len(writing.data) \in Nat /\ L + Len(writing.data) <= Size
      BY Sizes DEF L
    <2>2. (L - n) + Len(writing.data) <= Size
      BY <1>2, <2>1, Constants
    <2> QED
      BY <1>5, <2>2 DEF IInv, WriterInv
  <1>17. ReaderInv'
    <2>1. NotReading.op = "none" /\ NotReading.data = <<>> /\ Len(<<>>) = 0
      BY EmptySeq DEF NotReading
    <2> QED
      BY <2>1 DEF ReaderInv
  <1>18. AnswerInv'
    <2>1. L < Size => L - n < Size
      BY <1>2, Constants
    <2>2. roomSeen => Idle /\ L < Size
      BY DEF IInv, AnswerInv, L
    <2> QED
      BY <1>5, <1>13, <2>1, <2>2 DEF AnswerInv, Idle
  <1> QED
    BY <1>10, <1>11, <1>15, <1>16, <1>17, <1>18 DEF IInv, n

(* ReadData stores m_uOut: what it copied is taken off, and returned. *)
LEMMA ReadStoresMaps ==
    ASSUME IInv, ReadStores
    PROVE  IInv' /\ [Fifo!Next]_(Fifo!vars)
  <1>1. /\ reading.op = "ReadData" /\ Len(reading.data) = ReadLen
        /\ m_uOut' = reading.upto /\ got' = reading.data /\ reading' = NotReading
        /\ UNCHANGED <<m_uIn, m_pBuffer, writing, roomSeen, dataSeen>>
    BY DEF ReadStores, writerVars
  <1>2. got' \in Seq(Byte)
    BY <1>1 DEF IInv, StateInv
  <1>3. /\ IInv' /\ ReadLen \in 0..Len(Queue)
        /\ Queue' = SubSeq(Queue, ReadLen + 1, Len(Queue))
    BY <1>1, <1>2, TakesOff
  <1>4. ReadLen \in Nat /\ ReadLen >= 1 /\ ReadLen <= Held /\ Held \in Nat
    BY <1>1, Sizes DEF IInv, ReaderInv
  <1>5. ReadLen \in 1..Len(Queue)
    <2>1. Len(Queue) = Held
      BY QueueType
    <2> HIDE DEF Held, ReadLen
    <2> QED
      BY <1>4, <2>1
  <1>6. got' = SubSeq(Queue, 1, ReadLen)
    <2>1. SubSeq(Queue, 0 + 1, ReadLen) = [i \in 1..(ReadLen - 0) |-> Queue[0 + i]]
      BY <1>4, SubSeqIs
    <2>2. reading.data = [i \in 1..ReadLen |-> reading.data[i]]
      <3>1. reading.data \in Seq(Byte)
        BY DEF IInv, StateInv
      <3>2. reading.data \in [1..ReadLen -> Byte]
        BY <1>1, <3>1, LenProperties
      <3> QED
        BY <3>2
    <2>3. ASSUME NEW i \in 1..ReadLen
          PROVE  reading.data[i] = Queue[0 + i]
      <3>1. reading.data[i] = m_pBuffer[Slot(m_uOut, i - 1)]
        BY <1>1 DEF IInv, ReaderInv
      <3>2. i \in 1..Held /\ 0 + i = i
        <4> HIDE DEF Held, ReadLen
        <4> QED
          BY <1>4
      <3>3. Queue[i] = m_pBuffer[Slot(m_uOut, i - 1)]
        BY <3>2, QueueType
      <3> QED
        BY <3>1, <3>2, <3>3
    <2>4. ReadLen - 0 = ReadLen /\ 0 + 1 = 1
      <3> HIDE DEF ReadLen
      <3> QED
        BY <1>4
    <2>5. SubSeq(Queue, 1, ReadLen) = reading.data
      <3> HIDE DEF ReadLen
      <3> QED
        BY <2>1, <2>2, <2>3, <2>4
    <2> QED
      BY <1>1, <2>5
  <1> QED
    BY <1>1, <1>3, <1>5, <1>6, Reads

(* ResetOut stores it: what was there when it looked is taken off. *)
LEMMA ResetOutStoresMaps ==
    ASSUME IInv, ResetOutStores
    PROVE  IInv' /\ [Fifo!Next]_(Fifo!vars)
  <1>1. /\ reading.op = "ResetOut" /\ m_uOut' = reading.upto /\ reading' = NotReading
        /\ UNCHANGED <<m_uIn, m_pBuffer, writing, roomSeen, dataSeen, got>>
    BY DEF ResetOutStores, writerVars
  <1>2. got' \in Seq(Byte)
    BY <1>1 DEF IInv, StateInv
  <1>3. /\ IInv' /\ ReadLen \in 0..Len(Queue)
        /\ Queue' = SubSeq(Queue, ReadLen + 1, Len(Queue))
    BY <1>1, <1>2, TakesOff
  <1>4. CASE ReadLen = 0
    <2>1. reading.upto = m_uOut
      BY <1>4, LenType DEF ReadLen, IInv, StateInv
    <2> QED
      BY <1>1, <1>3, <2>1, RingKept, Stutters
  <1>5. CASE ReadLen # 0
    <2>1. ReadLen \in 1..Len(Queue)
      <3>1. Len(Queue) \in Nat
        BY QueueType, Sizes
      <3> HIDE DEF ReadLen
      <3> QED
        BY <1>3, <1>5, <3>1
    <2> QED
      BY <1>1, <1>3, <2>1, Drops
  <1> QED
    BY <1>4, <1>5

-----------------------------------------------------------------------------
(* The invariant, and what it says. *)

(* The state that the constructor leaves. *)
LEMMA InitMaps == Init => IInv /\ Fifo!Init
  <1> SUFFICES ASSUME Init PROVE IInv /\ Fifo!Init
    OBVIOUS
  <1>1. Held = 0 /\ Queue = <<>>
    <2>1. GetLen(0, 0) = 0
      BY Constants, LenType
    <2> QED
      BY <2>1 DEF Init, Held, Queue
  <1>2. writing.data = <<>> /\ writing.copied = 0 /\ <<>> \in Seq(Byte) /\ Len(<<>>) = 0
    BY EmptySeq DEF Init, NotWriting
  <1>3. StateInv
    BY <1>2, Constants DEF Init, StateInv, NotWriting, NotReading
  <1>4. WriterInv
    BY <1>1, <1>2, Constants DEF WriterInv
  <1>5. ReaderInv /\ AnswerInv
    <2>1. reading.op = "none" /\ reading.data = <<>>
      BY DEF Init, NotReading
    <2>2. ReaderInv
      BY <1>2, <2>1 DEF ReaderInv
    <2>3. AnswerInv
      BY DEF Init, AnswerInv
    <2> QED
      BY <2>2, <2>3
  <1>6. Fifo!Init
    BY <1>1, <1>2 DEF Fifo!Init, Queue, Init
  <1> QED
    BY <1>3, <1>4, <1>5, <1>6 DEF IInv

(* Every step keeps the invariant, and is one of the queue or none. *)
LEMMA NextMaps ==
    ASSUME IInv, [Next]_vars
    PROVE  IInv' /\ [Fifo!Next]_(Fifo!vars)
  <1>1. CASE Writer
    BY <1>1, CallIsFullMaps, WriteLoadsMaps, WriteCopiesMaps, WriteStoresMaps DEF Writer
  <1>2. CASE Reader
    BY <1>2, CallIsEmptyMaps, ReadLoadsMaps, ReadCopiesMaps, ReadStoresMaps,
       ResetOutLoadsMaps, ResetOutStoresMaps DEF Reader
  <1>3. CASE UNCHANGED vars
    <2>1. StateInv' /\ ReaderInv'
      BY <1>3 DEF vars, IInv, StateInv, ReaderInv, Held, ReadLen
    <2>2. dataSeen' \in BOOLEAN /\ (dataSeen' => reading'.op = "none" /\ Held > 0)
      BY <1>3 DEF vars, IInv, AnswerInv
    <2> QED
      BY <1>3, <2>1, <2>2, LookMaps DEF vars
  <1> QED
    BY <1>1, <1>2, <1>3 DEF Next

(* What the runs check follows from the invariant. *)
LEMMA InvImplies ==
    ASSUME IInv
    PROVE  TypeOK /\ CopiesApart /\ AnswersHold
  <1>1. TypeOK
    <2>1. Len(writing.data) <= Size /\ writing.copied \in 0..Len(writing.data)
      <3>1. /\ Held \in Nat /\ Len(writing.data) \in Nat /\ writing.copied \in Nat
            /\ Held + Len(writing.data) <= Size
        BY Sizes
      <3>2. writing.copied <= Len(writing.data)
        BY DEF IInv, WriterInv
      <3> HIDE DEF Held
      <3> QED
        BY <3>1, <3>2, Constants
    <2>2. Len(reading.data) <= Size
      <3>1. CASE reading.op = "ReadData"
        <4>1. Len(reading.data) <= ReadLen /\ ReadLen <= Held
          BY <3>1 DEF IInv, ReaderInv
        <4>2. /\ Len(reading.data) \in Nat /\ ReadLen \in Nat /\ Held \in Nat
              /\ Held <= Size
          BY Sizes
        <4> HIDE DEF Held, ReadLen
        <4> QED
          BY <4>1, <4>2, Constants
      <3>2. CASE reading.op # "ReadData"
        <4>1. Len(reading.data) = 0
          BY <3>2, EmptySeq DEF IInv, ReaderInv
        <4> QED
          BY <4>1, Constants
      <3> QED
        BY <3>1, <3>2
    <2> QED
      BY <2>1, <2>2 DEF TypeOK, IInv, StateInv, AnswerInv
  <1>2. CopiesApart
    <2> SUFFICES ASSUME NEW k \in writing.copied..(Len(writing.data) - 1),
                        reading.op = "ReadData",
                        NEW i \in Len(reading.data)..(ReadLen - 1),
                        Slot(m_uIn, k) = Slot(m_uOut, i)
                 PROVE  FALSE
      BY DEF CopiesApart, WriterSlots, ReaderSlots
    <2>1. k \in 0..(Len(writing.data) - 1)
      BY Sizes
    <2>2. i \in 0..(Held - 1)
      <3>1. /\ ReadLen \in Nat /\ Held \in Nat /\ ReadLen <= Held
            /\ Len(reading.data) \in Nat
        BY Sizes DEF IInv, ReaderInv
      <3> HIDE DEF Held, ReadLen
      <3> QED
        BY <3>1
    <2> QED
      BY <2>1, <2>2, CopyIsBeyond
  <1>3. AnswersHold
    <2>1. GetAvail(m_uIn, m_uOut) = Size - Held /\ Held \in Nat /\ Held <= Size
      BY Sizes, AvailIs DEF IInv, StateInv, Held
    <2>2. (roomSeen => Held < Size) /\ (dataSeen => Held > 0)
      BY DEF IInv, AnswerInv
    <2>3. (Held < Size => Size - Held >= 1) /\ (Held > 0 => Held >= 1)
      <3> HIDE DEF Held
      <3> QED
        BY <2>1, Constants
    <2>4. Held = GetLen(m_uIn, m_uOut)
      BY DEF Held
    <2> HIDE DEF Held
    <2> QED
      BY <2>1, <2>2, <2>3, <2>4 DEF AnswersHold
  <1> QED
    BY <1>1, <1>2, <1>3

(***************************************************************************)
(* Positions stay in BufferSize, calls within the size of the storage.     *)
(***************************************************************************)
THEOREM Types == Spec => []TypeOK
  <1>1. Init => IInv
    BY InitMaps
  <1>2. IInv /\ [Next]_vars => IInv'
    BY NextMaps
  <1>3. IInv => TypeOK
    BY InvImplies
  <1> QED
    BY <1>1, <1>2, <1>3, PTL DEF Spec

(***************************************************************************)
(* The memcpy of WriteData and that of ReadData never work on one byte at  *)
(* once, whatever the size, wherever the positions wrap, and however far   *)
(* one thread runs on after the other loaded its position.                 *)
(***************************************************************************)
THEOREM NeverTheSameByte == Spec => []CopiesApart
  <1>1. Init => IInv
    BY InitMaps
  <1>2. IInv /\ [Next]_vars => IInv'
    BY NextMaps
  <1>3. IInv => CopiesApart
    BY InvImplies
  <1> QED
    BY <1>1, <1>2, <1>3, PTL DEF Spec

(***************************************************************************)
(* A false IsFull() promises the writer room for a byte, and a false       *)
(* IsEmpty() promises the reader a byte, until they use it.                *)
(***************************************************************************)
THEOREM AnswersAreKept == Spec => []AnswersHold
  <1>1. Init => IInv
    BY InitMaps
  <1>2. IInv /\ [Next]_vars => IInv'
    BY NextMaps
  <1>3. IInv => AnswersHold
    BY InvImplies
  <1> QED
    BY <1>1, <1>2, <1>3, PTL DEF Spec

(***************************************************************************)
(* Without a lock, RingBufferSpsc is a bounded first-in first-out queue:   *)
(* no byte is lost, repeated, reordered or torn between one thread that    *)
(* writes and one that reads.                                              *)
(***************************************************************************)
THEOREM IsAFifo == Spec => ImplementsFifo
  <1>1. Init => IInv /\ Fifo!Init
    BY InitMaps
  <1>2. IInv /\ [Next]_vars => IInv' /\ [Fifo!Next]_(Fifo!vars)
    BY NextMaps
  <1> QED
    BY <1>1, <1>2, PTL DEF Spec, ImplementsFifo, Fifo!Spec

=============================================================================
