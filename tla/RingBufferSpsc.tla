---------------------------- MODULE RingBufferSpsc ----------------------------
(***************************************************************************)
(* RingBufferSpsc (src/engine/net/ring_buffer_spsc.{h,cpp}): a ring buffer *)
(* without locks, for one thread that writes and one that reads.           *)
(*                                                                         *)
(* The positions m_uIn and m_uOut count bytes and wrap at the width of     *)
(* BufferSize, which the power of two m_uSize divides. The writer stores   *)
(* m_uIn alone and the reader m_uOut alone, so each loads its own position *)
(* as it left it; a load of the other's position, the copy of each byte    *)
(* and the store that publishes the copy are steps. The stores release and *)
(* the loads that lead to a copy acquire, so a byte is seen no later than  *)
(* the position behind it; a load that answers an older position is a load *)
(* that came earlier. Reset() is marked unsafe in the header, and left out.*)
(***************************************************************************)
EXTENDS Naturals, Sequences

CONSTANTS
    Size,      \* m_uSize
    Modulus,   \* 2 to the width of BufferSize (256)
    Byte,      \* the values of a byte
    MaxLen     \* bound: the longest len a caller passes

ASSUME SizeAssumption ==
    /\ Size \in Nat \ {0} /\ Modulus \in Nat
    /\ Size < Modulus /\ Modulus % Size = 0
    /\ MaxLen \in Nat

VARIABLES
    m_uIn, m_uOut, \* the atomic positions
    m_pBuffer,     \* the storage
    writing,       \* the writer's call: the bytes it accepted, those it copied
    reading,       \* the reader's call: the m_uOut it will store, what it copied
    roomSeen,      \* IsFull() answered the writer false, and it did not write
    dataSeen,      \* IsEmpty() answered the reader false, and it did not read
    got            \* what the last ReadData returned

vars == <<m_uIn, m_uOut, m_pBuffer, writing, reading, roomSeen, dataSeen, got>>

Position == 0..(Modulus - 1)
NotWriting == [data |-> <<>>, copied |-> 0]
NotReading == [op |-> "none", upto |-> 0, data |-> <<>>]

TypeOK ==
    /\ m_uIn \in Position /\ m_uOut \in Position
    /\ m_pBuffer \in [0..(Size - 1) -> Byte]
    /\ writing.data \in Seq(Byte) /\ Len(writing.data) <= Size
    /\ writing.copied \in 0..Len(writing.data)
    /\ reading.op \in {"none", "ReadData", "ResetOut"}
    /\ reading.upto \in Position
    /\ reading.data \in Seq(Byte) /\ Len(reading.data) <= Size
    /\ roomSeen \in BOOLEAN /\ dataSeen \in BOOLEAN
    /\ got \in Seq(Byte)

(* new char[] leaves the storage as it finds it; its bytes are never read. *)
Init ==
    /\ m_uIn = 0 /\ m_uOut = 0
    /\ \E b \in Byte : m_pBuffer = [i \in 0..(Size - 1) |-> b]
    /\ writing = NotWriting /\ reading = NotReading
    /\ roomSeen = FALSE /\ dataSeen = FALSE
    /\ got = <<>>

-----------------------------------------------------------------------------
(* Mutant: the position is kept in an int. *)
Advance_Unwrapped(pos, n) == pos + n

(* A position n bytes on, as BufferSize stores it. *)
Advance(pos, n) == (pos + n) % Modulus

(* The bytes between the positions, as BufferSize wraps the difference. *)
GetLen(inpos, outpos) == (inpos + Modulus - outpos) % Modulus

(* Mutant: the reader's position is taken modulo the size. *)
GetAvail_Masked(inpos, outpos) == (Size + Modulus - inpos + (outpos % Size)) % Modulus

GetAvail(inpos, outpos) == (Size + Modulus - inpos + outpos) % Modulus

IsEmpty(inpos, outpos) == inpos = outpos

(* Mutant: the difference is compared before it is converted to BufferSize. *)
IsFull_Promoted(inpos, outpos) == inpos = outpos + Size

IsFull(inpos, outpos) == Size = GetLen(inpos, outpos)

(* The place of byte i of a copy that starts at pos: memcpy from the       *)
(* offset to the end of the storage, then from its beginning.              *)
Slot(pos, i) ==
    LET off == pos % Size
        tail == Size - off
    IN  IF i < tail THEN off + i ELSE i - tail

Smaller(a, b) == IF a < b THEN a ELSE b

-----------------------------------------------------------------------------
(* The writer. *)

readerVars == <<m_uOut, reading, dataSeen, got>>

Idle == writing = NotWriting

CallIsFull ==
    /\ Idle
    /\ roomSeen' = ~IsFull(m_uIn, m_uOut)
    /\ UNCHANGED <<m_uIn, m_pBuffer, writing, readerVars>>

(* WriteData: load m_uOut; with no room for a byte, return. *)
WriteLoads(d) ==
    /\ Idle
    /\ LET len == Smaller(GetAvail(m_uIn, m_uOut), Len(d))
       IN  writing' = [data |-> SubSeq(d, 1, len), copied |-> 0]
    /\ roomSeen' = FALSE
    /\ UNCHANGED <<m_uIn, m_pBuffer, readerVars>>

WriteCopies ==
    /\ writing.copied < Len(writing.data)
    /\ m_pBuffer' = [m_pBuffer EXCEPT
           ![Slot(m_uIn, writing.copied)] = writing.data[writing.copied + 1]]
    /\ writing' = [writing EXCEPT !.copied = @ + 1]
    /\ UNCHANGED <<m_uIn, roomSeen, readerVars>>

(* Mutant: m_uIn is stored before the last byte is copied. *)
WriteStores_Early ==
    /\ ~Idle /\ writing.copied + 1 >= Len(writing.data)
    /\ m_uIn' = Advance(m_uIn, Len(writing.data))
    /\ writing' = NotWriting
    /\ UNCHANGED <<m_pBuffer, roomSeen, readerVars>>

WriteStores ==
    /\ ~Idle /\ writing.copied = Len(writing.data)
    /\ m_uIn' = Advance(m_uIn, Len(writing.data))
    /\ writing' = NotWriting
    /\ UNCHANGED <<m_pBuffer, roomSeen, readerVars>>

-----------------------------------------------------------------------------
(* The reader. *)

writerVars == <<m_uIn, m_pBuffer, writing, roomSeen>>

CallIsEmpty ==
    /\ reading.op = "none"
    /\ dataSeen' = ~IsEmpty(m_uIn, m_uOut)
    /\ UNCHANGED <<m_uOut, reading, got, writerVars>>

(* ReadData: load m_uIn; with no byte to read, return. *)
ReadLoads(n) ==
    /\ reading.op = "none"
    /\ LET len == Smaller(GetLen(m_uIn, m_uOut), n)
       IN  reading' = IF len = 0 THEN NotReading
                      ELSE [op |-> "ReadData", upto |-> Advance(m_uOut, len), data |-> <<>>]
    /\ dataSeen' = FALSE
    /\ UNCHANGED <<m_uOut, got, writerVars>>

(* How many bytes the read in progress takes. *)
ReadLen == GetLen(reading.upto, m_uOut)

ReadCopies ==
    /\ reading.op = "ReadData" /\ Len(reading.data) < ReadLen
    /\ reading' = [reading EXCEPT
           !.data = Append(@, m_pBuffer[Slot(m_uOut, Len(@))])]
    /\ UNCHANGED <<m_uOut, got, dataSeen, writerVars>>

ReadStores ==
    /\ reading.op = "ReadData" /\ Len(reading.data) = ReadLen
    /\ m_uOut' = reading.upto
    /\ got' = reading.data
    /\ reading' = NotReading
    /\ UNCHANGED <<dataSeen, writerVars>>

ResetOutLoads ==
    /\ reading.op = "none"
    /\ reading' = [op |-> "ResetOut", upto |-> m_uIn, data |-> <<>>]
    /\ dataSeen' = FALSE
    /\ UNCHANGED <<m_uOut, got, writerVars>>

ResetOutStores ==
    /\ reading.op = "ResetOut"
    /\ m_uOut' = reading.upto
    /\ reading' = NotReading
    /\ UNCHANGED <<got, dataSeen, writerVars>>

-----------------------------------------------------------------------------
Writer ==
    \/ CallIsFull
    \/ \E n \in 0..MaxLen : \E d \in [1..n -> Byte] : WriteLoads(d)
    \/ WriteCopies \/ WriteStores

Reader ==
    \/ CallIsEmpty
    \/ \E n \in 0..MaxLen : ReadLoads(n)
    \/ ReadCopies \/ ReadStores
    \/ ResetOutLoads \/ ResetOutStores

Next == Writer \/ Reader

Spec == Init /\ [][Next]_vars

-----------------------------------------------------------------------------
(* Safety. *)

(* The slots that the writer's memcpy may still touch, and the reader's. *)
WriterSlots == {Slot(m_uIn, i) : i \in writing.copied..(Len(writing.data) - 1)}
ReaderSlots ==
    IF reading.op = "ReadData"
    THEN {Slot(m_uOut, i) : i \in Len(reading.data)..(ReadLen - 1)}
    ELSE {}

(***************************************************************************)
(* The two memcpys never touch the same byte at once: WriteData's free     *)
(* space and ReadData's data stay apart however far either thread runs     *)
(* ahead after the other loaded its position, and across the wrap.         *)
(***************************************************************************)
CopiesApart == WriterSlots \cap ReaderSlots = {}

(***************************************************************************)
(* An answer stays true until its caller acts on it: when IsFull() said    *)
(* false WriteData has room for a byte, and when IsEmpty() said false      *)
(* ReadData has one, although the other thread went on meanwhile.          *)
(***************************************************************************)
AnswersHold ==
    /\ roomSeen => GetAvail(m_uIn, m_uOut) >= 1
    /\ dataSeen => GetLen(m_uIn, m_uOut) >= 1

-----------------------------------------------------------------------------
(* Refinement. *)

Fifo == INSTANCE BoundedFifo WITH
    fifo <- [i \in 1..GetLen(m_uIn, m_uOut) |-> m_pBuffer[Slot(m_uOut, i - 1)]],
    taken <- writing.data

(***************************************************************************)
(* The ring is a bounded queue: WriteData appends what it accepted at the  *)
(* store of m_uIn, ReadData takes off what it returns at the store of      *)
(* m_uOut, and no byte is lost, repeated, reordered or torn in between.    *)
(***************************************************************************)
ImplementsFifo == Fifo!Spec
=============================================================================
