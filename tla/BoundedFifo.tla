----------------------------- MODULE BoundedFifo -----------------------------
(***************************************************************************)
(* What a ring buffer (src/engine/net/ring_buffer_base.h:16-28) promises:  *)
(* a first-in first-out queue of at most Size bytes. What a WriteData call *)
(* accepts has room, and is appended in one step; what a ReadData call     *)
(* returns is taken off in one step, however the calls interleave.         *)
(***************************************************************************)
EXTENDS Naturals, Sequences

CONSTANTS Size, Byte

VARIABLES
    fifo,   \* the bytes that were written and not read, oldest first
    taken,  \* the bytes that the WriteData call in progress accepted
    got     \* what the last ReadData returned

vars == <<fifo, taken, got>>

Init == fifo = <<>> /\ taken = <<>> /\ got = <<>>

(* WriteData accepts bytes that there is room for. *)
Accept ==
    /\ taken = <<>>
    /\ \E n \in 1..(Size - Len(fifo)) : taken' \in [1..n -> Byte]
    /\ UNCHANGED <<fifo, got>>

(* WriteData: the bytes that it accepted are appended together. *)
Write ==
    /\ taken # <<>>
    /\ fifo' = fifo \o taken
    /\ taken' = <<>>
    /\ UNCHANGED got

(* The n oldest bytes are taken off. *)
TakeOff(n) == fifo' = SubSeq(fifo, n + 1, Len(fifo))

(* ReadData: the oldest bytes are returned, in order, and taken off. *)
Read ==
    /\ \E n \in 1..Len(fifo) : TakeOff(n) /\ got' = SubSeq(fifo, 1, n)
    /\ UNCHANGED taken

(* ResetOut: what was there when it looked is taken off, unread. *)
Drop ==
    /\ \E n \in 1..Len(fifo) : TakeOff(n)
    /\ UNCHANGED <<taken, got>>

Next == Accept \/ Write \/ Read \/ Drop

Spec == Init /\ [][Next]_vars
=============================================================================
