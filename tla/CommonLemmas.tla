----------------------------- MODULE CommonLemmas -----------------------------
(***************************************************************************)
(* Facts that the proofs of several components rest on: sequences, which   *)
(* are the queues, lists and backlogs of the models, and positions that    *)
(* wrap at M, as BufferSize (src/engine/net/ring_buffer_base.h) and the    *)
(* lists of WheelTimer count them.                                         *)
(***************************************************************************)
EXTENDS Integers, Sequences, WellFoundedInduction, TLAPS

(* Whether an element of the set M is in the sequence q. *)
Has(q, M) == \E i \in DOMAIN q : q[i] \in M

(* Whether no two elements of q are in M. *)
AtMostOne(q, M) == \A i, j \in DOMAIN q : q[i] \in M /\ q[j] \in M => i = j

(* A sequence of elements of S is one of elements of a larger set. *)
LEMMA SeqMore ==
    ASSUME NEW S, NEW T, S \subseteq T
    PROVE  Seq(S) \subseteq Seq(T)
  OBVIOUS

(* What is in q \o r is in one of them ... *)
LEMMA HasConcat ==
    ASSUME NEW S, NEW q \in Seq(S), NEW r \in Seq(S), NEW M
    PROVE  Has(q \o r, M) <=> Has(q, M) \/ Has(r, M)
  <1> DEFINE c == q \o r
  <1>1. /\ Len(q) \in Nat /\ Len(r) \in Nat
        /\ DOMAIN q = 1..Len(q) /\ DOMAIN r = 1..Len(r) /\ DOMAIN c = 1..(Len(q) + Len(r))
        /\ \A i \in 1..Len(q) : c[i] = q[i]
        /\ \A i \in 1..Len(r) : c[i + Len(q)] = r[i]
    OBVIOUS
  <1>2. ASSUME NEW i \in DOMAIN c PROVE c[i] \in M => Has(q, M) \/ Has(r, M)
    <2>1. CASE i \in 1..Len(q)
      BY <1>1, <2>1 DEF Has
    <2>2. CASE i \notin 1..Len(q)
      <3>1. i - Len(q) \in 1..Len(r) /\ i = (i - Len(q)) + Len(q)
        BY <1>1, <2>2
      <3> QED
        BY <1>1, <3>1 DEF Has
    <2> QED
      BY <2>1, <2>2
  <1>3. ASSUME NEW i \in DOMAIN q, q[i] \in M PROVE Has(c, M)
    BY <1>1, <1>3 DEF Has
  <1>4. ASSUME NEW i \in DOMAIN r, r[i] \in M PROVE Has(c, M)
    <2>1. i + Len(q) \in DOMAIN c /\ c[i + Len(q)] \in M
      BY <1>1, <1>4
    <2> QED
      BY <2>1 DEF Has
  <1> QED
    BY <1>2, <1>3, <1>4 DEF Has

(* ... and once, when it is once in one of them and not in the other. *)
LEMMA AtMostOneConcat ==
    ASSUME NEW S, NEW q \in Seq(S), NEW r \in Seq(S), NEW M,
           AtMostOne(q, M), AtMostOne(r, M), ~(Has(q, M) /\ Has(r, M))
    PROVE  AtMostOne(q \o r, M)
  <1> DEFINE c == q \o r
  <1>1. /\ Len(q) \in Nat /\ Len(r) \in Nat
        /\ DOMAIN q = 1..Len(q) /\ DOMAIN r = 1..Len(r) /\ DOMAIN c = 1..(Len(q) + Len(r))
        /\ \A i \in 1..Len(q) : c[i] = q[i]
        /\ \A i \in 1..Len(r) : c[i + Len(q)] = r[i]
    OBVIOUS
  <1>2. ASSUME NEW i \in DOMAIN c, NEW j \in DOMAIN c, c[i] \in M, c[j] \in M
        PROVE  i = j
    <2>1. CASE i \in 1..Len(q) /\ j \in 1..Len(q)
      BY <1>1, <1>2, <2>1 DEF AtMostOne
    <2>2. ASSUME NEW k \in DOMAIN c, k \notin 1..Len(q), c[k] \in M
          PROVE  /\ k - Len(q) \in DOMAIN r /\ r[k - Len(q)] \in M
                 /\ Has(r, M)
      <3>1. k - Len(q) \in 1..Len(r) /\ k = (k - Len(q)) + Len(q)
        BY <1>1, <2>2
      <3>2. r[k - Len(q)] = c[k]
        BY <1>1, <3>1
      <3> QED
        BY <1>1, <2>2, <3>1, <3>2 DEF Has
    <2>3. CASE i \notin 1..Len(q) /\ j \notin 1..Len(q)
      <3>1. i - Len(q) = j - Len(q)
        BY <1>2, <2>2, <2>3 DEF AtMostOne
      <3> QED
        BY <1>1, <1>2, <3>1
    <2>4. ASSUME NEW k \in DOMAIN c, k \in 1..Len(q), c[k] \in M PROVE Has(q, M)
      BY <1>1, <2>4 DEF Has
    <2> QED
      BY <1>2, <2>1, <2>2, <2>3, <2>4
  <1> QED
    BY <1>2 DEF AtMostOne

(* A sequence of one element. *)
LEMMA HasOne ==
    ASSUME NEW S, NEW e \in S, NEW M
    PROVE  <<e>> \in Seq(S) /\ (Has(<<e>>, M) <=> e \in M) /\ AtMostOne(<<e>>, M)
  BY DEF Has, AtMostOne

(* Append adds its element, and nothing else. *)
LEMMA AppendHas ==
    ASSUME NEW S, NEW q \in Seq(S), NEW e \in S, NEW M
    PROVE  /\ Append(q, e) \in Seq(S)
           /\ Has(Append(q, e), M) <=> Has(q, M) \/ e \in M
           /\ AtMostOne(q, M) /\ ~(Has(q, M) /\ e \in M) => AtMostOne(Append(q, e), M)
  <1>1. Append(q, e) = q \o <<e>> /\ Append(q, e) \in Seq(S)
    OBVIOUS
  <1>2. <<e>> \in Seq(S) /\ (Has(<<e>>, M) <=> e \in M) /\ AtMostOne(<<e>>, M)
    BY HasOne
  <1>3. Has(q \o <<e>>, M) <=> Has(q, M) \/ Has(<<e>>, M)
    BY <1>2, HasConcat
  <1>4. AtMostOne(q, M) /\ ~(Has(q, M) /\ Has(<<e>>, M)) => AtMostOne(q \o <<e>>, M)
    BY <1>2, AtMostOneConcat
  <1> QED
    BY <1>1, <1>2, <1>3, <1>4

(* Tail takes the first element away, and nothing else. *)
LEMMA TailHas ==
    ASSUME NEW S, NEW q \in Seq(S), q # <<>>, NEW M
    PROVE  /\ Tail(q) \in Seq(S) /\ Head(q) \in S
           /\ Has(q, M) <=> Has(Tail(q), M) \/ Head(q) \in M
           /\ AtMostOne(q, M) => /\ AtMostOne(Tail(q), M)
                                 /\ ~(Has(Tail(q), M) /\ Head(q) \in M)
  <1> DEFINE t == Tail(q)
  <1>1. /\ Len(q) \in Nat /\ Len(q) > 0 /\ DOMAIN q = 1..Len(q) /\ Head(q) = q[1]
        /\ t \in Seq(S) /\ Head(q) \in S
        /\ DOMAIN t = 1..(Len(q) - 1) /\ \A i \in 1..(Len(q) - 1) : t[i] = q[i + 1]
    OBVIOUS
  <1>2. ASSUME NEW i \in DOMAIN t, t[i] \in M PROVE Has(q, M)
    BY <1>1, <1>2 DEF Has
  <1>3. ASSUME Head(q) \in M PROVE Has(q, M)
    BY <1>1, <1>3 DEF Has
  <1>4. ASSUME NEW i \in DOMAIN q, q[i] \in M PROVE Has(t, M) \/ Head(q) \in M
    <2>1. CASE i = 1
      BY <1>1, <1>4, <2>1
    <2>2. CASE i # 1
      <3>1. i - 1 \in 1..(Len(q) - 1) /\ t[i - 1] = q[i]
        BY <1>1, <1>4, <2>2
      <3> QED
        BY <1>1, <1>4, <3>1 DEF Has
    <2> QED
      BY <2>1, <2>2
  <1>5. ASSUME AtMostOne(q, M) PROVE AtMostOne(t, M) /\ ~(Has(t, M) /\ Head(q) \in M)
    <2>1. \A i \in DOMAIN t : i + 1 \in DOMAIN q /\ i + 1 # 1 /\ t[i] = q[i + 1]
      BY <1>1
    <2>2. 1 \in DOMAIN q
      BY <1>1
    <2>3. AtMostOne(t, M)
      BY <1>1, <1>5, <2>1 DEF AtMostOne
    <2>4. ~(Has(t, M) /\ Head(q) \in M)
      BY <1>1, <1>5, <2>1, <2>2 DEF AtMostOne, Has
    <2> QED
      BY <2>3, <2>4
  <1> QED
    BY <1>1, <1>2, <1>3, <1>4, <1>5 DEF Has

-----------------------------------------------------------------------------
(* Positions that wrap at M. *)

(* A position that has not reached M is what it is. *)
LEMMA ModBelow ==
    ASSUME NEW M \in Nat \ {0}, NEW x \in 0..(M - 1)
    PROVE  x % M = x
  BY SMT

(* A position that went past M once comes back by M. *)
LEMMA ModOnce ==
    ASSUME NEW M \in Nat \ {0}, NEW x \in M..(2 * M - 1)
    PROVE  x % M = x - M
  BY SMT

(* A position that went past M twice comes back by twice M. *)
LEMMA ModTwice ==
    ASSUME NEW M \in Nat \ {0}, NEW x \in (2 * M)..(3 * M - 1)
    PROVE  x % M = x - 2 * M
  BY SMT

(* What is stored in a position is one. *)
LEMMA ModIn ==
    ASSUME NEW M \in Nat \ {0}, NEW x \in Int
    PROVE  x % M \in 0..(M - 1)
  BY SMT

(* The bytes between two positions, the second one ahead or behind. *)
LEMMA LenExact ==
    ASSUME NEW M \in Nat \ {0}, NEW i \in 0..(M - 1), NEW o \in 0..(M - 1)
    PROVE  (i + M - o) % M = IF i >= o THEN i - o ELSE i + M - o
  BY ModBelow, ModOnce

(* The room is the size less the bytes between the positions. *)
LEMMA AvailExact ==
    ASSUME NEW M \in Nat \ {0}, NEW i \in 0..(M - 1), NEW o \in 0..(M - 1),
           NEW S \in 0..(M - 1), (i + M - o) % M <= S
    PROVE  (S + M - i + o) % M = S - ((i + M - o) % M)
  <1>1. CASE i >= o
    <2>1. (i + M - o) % M = i - o
      BY <1>1, LenExact
    <2>2. S + M - i + o \in M..(2 * M - 1)
      BY <1>1, <2>1
    <2> QED
      BY <2>1, <2>2, ModOnce
  <1>2. CASE i < o
    <2>1. (i + M - o) % M = i + M - o
      BY <1>2, LenExact
    <2>2. S + M - i + o \in (2 * M)..(3 * M - 1)
      BY <1>2, <2>1
    <2>3. (S + M - i + o) % M = S + M - i + o - 2 * M
      BY <2>2, ModTwice
    <2> QED
      BY <2>1, <2>3
  <1> QED
    BY <1>1, <1>2

(* A position n on, when n is less than M. *)
LEMMA AdvanceExact ==
    ASSUME NEW M \in Nat \ {0}, NEW i \in 0..(M - 1), NEW n \in 0..(M - 1)
    PROVE  (i + n) % M = IF i + n < M THEN i + n ELSE i + n - M
  <1>1. CASE i + n < M
    BY <1>1, ModBelow
  <1>2. CASE i + n >= M
    <2>1. i + n \in M..(2 * M - 1)
      BY <1>2
    <2> QED
      BY <1>2, <2>1, ModOnce
  <1> QED
    BY <1>1, <1>2

(* A write of n bytes adds n to the bytes in the ring. *)
LEMMA LenAfterWrite ==
    ASSUME NEW M \in Nat \ {0}, NEW i \in 0..(M - 1), NEW o \in 0..(M - 1),
           NEW n \in Nat, ((i + M - o) % M) + n < M
    PROVE  (((i + n) % M) + M - o) % M = ((i + M - o) % M) + n
  <1> DEFINE j == (i + n) % M
  <1>1. (i + M - o) % M = IF i >= o THEN i - o ELSE i + M - o
    BY LenExact
  <1>2. n \in 0..(M - 1)
    BY <1>1
  <1>3. j = IF i + n < M THEN i + n ELSE i + n - M
    BY <1>2, AdvanceExact
  <1>4. j \in 0..(M - 1)
    BY <1>2, <1>3
  <1>5. (j + M - o) % M = IF j >= o THEN j - o ELSE j + M - o
    BY <1>4, LenExact
  <1> HIDE DEF j
  <1> QED
    BY <1>1, <1>2, <1>3, <1>5 DEF j

(* A read of n bytes takes n from the bytes in the ring. *)
LEMMA LenAfterRead ==
    ASSUME NEW M \in Nat \ {0}, NEW i \in 0..(M - 1), NEW o \in 0..(M - 1),
           NEW n \in Nat, n <= (i + M - o) % M
    PROVE  (i + M - ((o + n) % M)) % M = ((i + M - o) % M) - n
  <1> DEFINE p == (o + n) % M
  <1>1. (i + M - o) % M = IF i >= o THEN i - o ELSE i + M - o
    BY LenExact
  <1>2. n \in 0..(M - 1)
    BY <1>1
  <1>3. p = IF o + n < M THEN o + n ELSE o + n - M
    BY <1>2, AdvanceExact
  <1>4. p \in 0..(M - 1)
    BY <1>2, <1>3
  <1>5. (i + M - p) % M = IF i >= p THEN i - p ELSE i + M - p
    BY <1>4, LenExact
  <1> HIDE DEF p
  <1> QED
    BY <1>1, <1>2, <1>3, <1>5 DEF p

(* A set of naturals that has an element has a least one. *)
LEMMA Least ==
    ASSUME NEW T \in SUBSET Nat, NEW e \in T
    PROVE  \E x \in T : \A y \in T : x <= y
  <1> DEFINE R == OpToRel(<, Nat)
  <1>1. IsWellFoundedOn(R, Nat)
    BY NatLessThanWellFounded
  <1>2. \A x, y \in Nat : y < x => <<y, x>> \in R
    BY DEF OpToRel
  <1> HIDE DEF R
  <1>3. PICK x \in T : \A y \in T : ~(<<y, x>> \in R)
    BY <1>1, WFMin
  <1>4. ASSUME NEW y \in T
        PROVE  x <= y
    <2>1. y \in Nat /\ x \in Nat
      OBVIOUS
    <2>2. ~(y < x)
      BY <1>2, <1>3, <2>1
    <2> QED
      BY <2>1, <2>2
  <1> QED
    BY <1>4

-----------------------------------------------------------------------------
(* Places in a storage of S bytes. *)

(* There is one quotient and one remainder. *)
LEMMA DivUnique ==
    ASSUME NEW S \in Nat \ {0}, NEW q \in Int, NEW r \in 0..(S - 1)
    PROVE  (S * q + r) % S = r
  BY SMT

(* Division with remainder. *)
LEMMA DivMod ==
    ASSUME NEW S \in Nat \ {0}, NEW x \in Int
    PROVE  \E q \in Int, r \in 0..(S - 1) : x = S * q + r /\ x % S = r
  <1>1. x = S * (x \div S) + (x % S) /\ x \div S \in Int /\ x % S \in 0..(S - 1)
    BY SMT
  <1> QED
    BY <1>1

(* Going round the storage leads to the same place. *)
LEMMA ModShift ==
    ASSUME NEW S \in Nat \ {0}, NEW k \in Int, NEW x \in Int
    PROVE  (x + S * k) % S = x % S
  <1>1. PICK q \in Int, r \in 0..(S - 1) : x = S * q + r /\ x % S = r
    BY DivMod
  <1>2. q + k \in Int
    OBVIOUS
  <1>3. x + S * k = S * (q + k) + r
    BY <1>1
  <1>4. (S * (q + k) + r) % S = r
    BY <1>2, DivUnique
  <1> QED
    BY <1>1, <1>3, <1>4

(* The storage divides the modulus, so the wrap of a position does not     *)
(* move the places counted from it.                                        *)
LEMMA ModAdd ==
    ASSUME NEW S \in Nat \ {0}, NEW M \in Nat \ {0}, M % S = 0, NEW x \in Int,
           NEW i \in Int
    PROVE  ((x % M) + i) % S = (x + i) % S
  <1>1. PICK k \in Int, z \in 0..(S - 1) : M = S * k + z /\ M % S = z
    <2>1. M \in Int
      OBVIOUS
    <2> QED
      BY <2>1, DivMod
  <1>2. PICK q \in Int, r \in 0..(M - 1) : x = M * q + r /\ x % M = r
    BY DivMod
  <1>3. M = S * k
    BY <1>1
  <1>4. M * q = S * (k * q) /\ k * q \in Int
    BY <1>3
  <1> DEFINE n == k * q
  <1>5. x + i = (r + i) + S * n
    BY <1>2, <1>4
  <1>6. n \in Int /\ r + i \in Int
    BY <1>4
  <1> HIDE DEF n
  <1>7. ((r + i) + S * n) % S = (r + i) % S
    BY <1>6, ModShift
  <1> QED
    BY <1>2, <1>5, <1>7

(* Two places in a stretch no longer than the storage are not the same. *)
LEMMA ModSame ==
    ASSUME NEW S \in Nat \ {0}, NEW x \in Int, NEW y \in Int, x % S = y % S, x <= y,
           y - x < S
    PROVE  x = y
  <1>1. PICK q \in Int, r \in 0..(S - 1) : x = S * q + r /\ x % S = r
    BY DivMod
  <1>2. PICK k \in Int, t \in 0..(S - 1) : y = S * k + t /\ y % S = t
    BY DivMod
  <1>3. r = t
    BY <1>1, <1>2
  <1>4. y - x = S * (k - q)
    BY <1>1, <1>2, <1>3
  <1>5. k = q
    BY <1>4
  <1> QED
    BY <1>1, <1>2, <1>3, <1>5

(* The place i bytes on from a position: to the end of the storage, then   *)
(* from its beginning.                                                     *)
LEMMA PlaceExact ==
    ASSUME NEW S \in Nat \ {0}, NEW x \in Int, NEW i \in 0..(S - 1)
    PROVE  (x + i) % S = IF i < S - (x % S) THEN (x % S) + i ELSE i - (S - (x % S))
  <1>1. PICK q \in Int, r \in 0..(S - 1) : x = S * q + r /\ x % S = r
    BY DivMod
  <1>2. CASE i < S - r
    <2>1. r + i \in 0..(S - 1) /\ x + i = S * q + (r + i)
      BY <1>1, <1>2
    <2>2. (S * q + (r + i)) % S = r + i
      BY <2>1, DivUnique
    <2> QED
      BY <1>1, <1>2, <2>1, <2>2
  <1>3. CASE i >= S - r
    <2>1. /\ r + i - S \in 0..(S - 1) /\ q + 1 \in Int
          /\ x + i = S * (q + 1) + (r + i - S)
      BY <1>1, <1>3
    <2>2. (S * (q + 1) + (r + i - S)) % S = r + i - S
      BY <2>1, DivUnique
    <2> QED
      BY <1>1, <1>3, <2>1, <2>2
  <1> QED
    BY <1>2, <1>3

(* The later of two positions is the earlier one and the bytes between. *)
LEMMA LaterExact ==
    ASSUME NEW M \in Nat \ {0}, NEW i \in 0..(M - 1), NEW o \in 0..(M - 1)
    PROVE  i = (o + ((i + M - o) % M)) % M
  <1>1. CASE i >= o
    <2>1. (i + M - o) % M = i - o
      BY <1>1, LenExact
    <2>2. o + (i - o) = i
      OBVIOUS
    <2> QED
      BY <2>1, <2>2, ModBelow
  <1>2. CASE i < o
    <2>1. (i + M - o) % M = i + M - o
      BY <1>2, LenExact
    <2>2. o + (i + M - o) = i + M /\ i + M \in M..(2 * M - 1)
      OBVIOUS
    <2>3. (i + M) % M = i + M - M
      BY <2>2, ModOnce
    <2> QED
      BY <2>1, <2>2, <2>3
  <1> QED
    BY <1>1, <1>2

=============================================================================
