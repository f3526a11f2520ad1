----------------------------- MODULE WheelProofs -----------------------------
(***************************************************************************)
(* Theorems of WheelTimer, for every number of timers, near lists, lists   *)
(* of a level and delays: types, no timer linked twice, each one fired at  *)
(* its due time, and none of the same turn overdue.                        *)
(***************************************************************************)
EXTENDS WheelTimer, CommonLemmas

(* The lists by name: those of the wheel, and the one in hand. *)
Hand == <<"list", 0, 0>>
Linking ==
    ({"mNear"} \X {0} \X (0..(TIME_NEAR - 1)))
    \cup ({"mWheel"} \X (0..3) \X (0..(TIME_LEVEL - 1)))
Name == Linking \cup {Hand}

ListsOf(near, wheel, hand) ==
    [a \in Name |-> IF a[1] = "mNear" THEN near[a[3]]
                    ELSE IF a[1] = "mWheel" THEN wheel[a[2]][a[3]]
                    ELSE hand]

Lists == ListsOf(mNear, mWheel, list)

In(a, t) == Has(Lists[a], {t})

(* The list that AddNode links a timer to that is due at e. *)
Filed(e, now) ==
    IF GoesNear(e, now) THEN <<"mNear", 0, e % TIME_NEAR>>
    ELSE <<"mWheel", Level(e, now), Index(e, Level(e, now))>>

(* What the lock, the count and the list in hand are, by the program's place. *)
ThreadInv ==
    /\ m_Lock <=> pc \in {"first", "MoveList", "second"}
    /\ pc \notin {"UpdateTime", "Update"} => diff > 0
    /\ list # <<>> => pc = "MoveList" \/ Dispatching

(* Of the lists F, no two hold a timer, and none holds it twice. *)
Linked(F) ==
    /\ \A a \in Name, t \in Timer : AtMostOne(F[a], {t})
    /\ \A a, b \in Name, t \in Timer : Has(F[a], {t}) /\ Has(F[b], {t}) => a = b

(* Of the lists F, that called b gets t, which was in none ...             *)
Appended(F, G, b, t) ==
    \A a \in Name : ~Has(F[a], {t}) /\ G[a] = IF a = b THEN Append(F[a], t) ELSE F[a]

(* ... loses its first timer ...                                           *)
Shortened(F, G, b) ==
    F[b] # <<>> /\ \A a \in Name : G[a] = IF a = b THEN Tail(F[a]) ELSE F[a]

(* ... or becomes that called c, which was empty.                          *)
Moved(F, G, b, c) ==
    F[c] = <<>> /\ \A a \in Name : G[a] = IF a = b THEN <<>> ELSE IF a = c THEN F[b] ELSE F[a]

(* Whether a timer due at e is due in the turn of the first level of now. *)
SameTurn(e, now) == e \div Span(1) = now \div Span(1)

(* What a timer in a list of the wheel called a, of a turn or not, is due at. *)
InWheel(a, e, now, same) ==
    \/ a[1] = "mNear" /\ GoesNear(e, now) /\ e % TIME_NEAR = a[3] /\ e >= now
    \/ /\ a[1] = "mWheel" /\ a[2] = 0
       /\ SameTurn(e, now) /\ Index(e, 0) = a[3] /\ a[3] > Index(now, 0)
    \/ a[1] = "mWheel" /\ a[2] = 3 /\ ~same

(* What one in hand is due at: MoveList's at no time before, or in another *)
(* turn; those that are dispatched, now.                                   *)
InHand(e, now, same, at) ==
    IF at = "MoveList"
    THEN now % TIME_NEAR = 0 /\ (GoesNear(e, now) \/ (~same /\ now % Span(1) = 0))
    ELSE e = now

Fits(a, t) ==
    IF a = Hand THEN InHand(expire[t], m_uTime, sameTurn[t], pc)
    ELSE InWheel(a, expire[t], m_uTime, sameTurn[t])

(* A timer of the same turn is not due yet, and will be within its delay. *)
OnTime(t) ==
    sameTurn[t] => expire[t] >= m_uTime /\ \E d \in Delays : expire[t] - m_uTime <= d

FitsAll == \A a \in Name, t \in Timer : In(a, t) => Fits(a, t) /\ OnTime(t)

WheelInv == TypeOK /\ ThreadInv /\ Linked(Lists) /\ FitsAll

-----------------------------------------------------------------------------
(* Quotients. *)

LEMMA Quotient ==
    ASSUME NEW n \in Nat \ {0}, NEW x \in Nat
    PROVE  /\ x \div n \in Nat /\ x % n \in 0..(n - 1)
           /\ x = n * (x \div n) + (x % n)
  BY SMT

(* There is one quotient. *)
LEMMA QuotientIs ==
    ASSUME NEW n \in Nat \ {0}, NEW q \in Nat, NEW r \in 0..(n - 1)
    PROVE  (n * q + r) \div n = q /\ (n * q + r) % n = r
  BY SMT

(* A number is not before the multiple that its quotient is the quotient of. *)
LEMMA QuotientOrder ==
    ASSUME NEW n \in Nat \ {0}, NEW x \in Nat, NEW y \in Nat, x <= y
    PROVE  x \div n <= y \div n
  <1> DEFINE q == x \div n
             p == y \div n
  <1>1. /\ q \in Nat /\ x % n \in 0..(n - 1) /\ x = n * q + (x % n)
        /\ p \in Nat /\ y % n \in 0..(n - 1) /\ y = n * p + (y % n)
    BY Quotient
  <1> HIDE DEF q, p
  <1>2. ASSUME p < q PROVE FALSE
    <2>1. q - p \in Nat /\ q - p >= 1
      BY <1>1, <1>2
    <2>2. n * (q - p) >= n
      BY <2>1
    <2>3. n * (q - p) = n * q - n * p
      BY <1>1
    <2> QED
      BY <1>1, <2>2, <2>3
  <1> QED
    BY <1>1, <1>2 DEF q, p

LEMMA QuotientAndRest ==
    ASSUME NEW n \in Nat \ {0}, NEW x \in Nat, NEW y \in Nat, x \div n = y \div n
    PROVE  /\ x % n = y % n => x = y
           /\ x % n > y % n => x > y
           /\ x > y => x % n > y % n
           /\ y % n = 0 => x >= y
  <1> DEFINE q == y \div n
  <1>1. /\ x % n \in 0..(n - 1) /\ x = n * q + (x % n)
        /\ q \in Nat /\ y % n \in 0..(n - 1) /\ y = n * q + (y % n)
    BY Quotient
  <1> HIDE DEF q
  <1>2. n * q \in Nat
    BY <1>1
  <1> QED
    BY <1>1, <1>2

(* The quotient and the rest of the next number. *)
LEMMA NextQuotient ==
    ASSUME NEW n \in Nat \ {0}, NEW x \in Nat
    PROVE  /\ (x + 1) % n # 0 => (x + 1) \div n = x \div n
           /\ (x + 1) % n = 0 => x % n = n - 1 /\ (x + 1) \div n = (x \div n) + 1
  <1> DEFINE q == x \div n
             r == x % n
  <1>1. q \in Nat /\ r \in 0..(n - 1) /\ x = n * q + r
    BY Quotient
  <1> HIDE DEF q, r
  <1>2. CASE r < n - 1
    <2>1. x + 1 = n * q + (r + 1) /\ r + 1 \in 0..(n - 1)
      BY <1>1, <1>2
    <2>2. (n * q + (r + 1)) \div n = q /\ (n * q + (r + 1)) % n = r + 1
      BY <1>1, <2>1, QuotientIs
    <2> QED
      BY <1>1, <2>1, <2>2 DEF q
  <1>3. CASE r = n - 1
    <2>1. x + 1 = n * (q + 1) + 0 /\ 0 \in 0..(n - 1) /\ q + 1 \in Nat
      BY <1>1, <1>3
    <2>2. (n * (q + 1) + 0) \div n = q + 1 /\ (n * (q + 1) + 0) % n = 0
      BY <2>1, QuotientIs
    <2> QED
      BY <1>1, <1>3, <2>1, <2>2 DEF q, r
  <1> QED
    BY <1>1, <1>2, <1>3

(* To divide by a product is to divide by one factor, then by the other. *)
LEMMA QuotientTwice ==
    ASSUME NEW n \in Nat \ {0}, NEW m \in Nat \ {0}, NEW x \in Nat
    PROVE  /\ x \div (n * m) = (x \div n) \div m
           /\ x % (n * m) = n * ((x \div n) % m) + (x % n)
           /\ n * m \in Nat \ {0}
  <1> DEFINE q == x \div n
             r == x % n
             p == q \div m
             s == q % m
  <1>1. q \in Nat /\ r \in 0..(n - 1) /\ x = n * q + r
    BY Quotient
  <1>2. p \in Nat /\ s \in 0..(m - 1) /\ q = m * p + s
    <2> HIDE DEF q
    <2> QED
      BY <1>1, Quotient
  <1> HIDE DEF q, r, p, s
  <1>3. x = (n * m) * p + (n * s + r)
    <2>1. n * (m * p + s) = (n * m) * p + n * s
      BY <1>2
    <2> QED
      BY <1>1, <1>2, <2>1
  <1>4. n * s \in Nat /\ n * s <= n * (m - 1) /\ n * (m - 1) = n * m - n /\ n * m \in Nat
    BY <1>2
  <1>5. n * s + r \in 0..((n * m) - 1) /\ n * m \in Nat \ {0}
    BY <1>1, <1>4
  <1>6. /\ ((n * m) * p + (n * s + r)) \div (n * m) = p
        /\ ((n * m) * p + (n * s + r)) % (n * m) = n * s + r
    BY <1>2, <1>5, QuotientIs
  <1> QED
    BY <1>3, <1>5, <1>6 DEF q, r, p, s

-----------------------------------------------------------------------------
(* The times of the wheel. *)

LEMMA Spans ==
    /\ TIME_NEAR \in Nat \ {0} /\ TIME_LEVEL \in Nat \ {0} /\ TIME_NEAR > 1
    /\ Span(0) = TIME_NEAR /\ Span(1) = TIME_NEAR * TIME_LEVEL
    /\ Span(2) = Span(1) * TIME_LEVEL /\ Span(3) = Span(2) * TIME_LEVEL
    /\ TimeSpan = Span(3) * TIME_LEVEL
    /\ \A l \in 0..3 : Span(l) \in Nat \ {0}
    /\ TimeSpan \in Nat \ {0} /\ TimeSpan % TIME_NEAR = 0
    /\ TimeSpan >= 2 * Span(1)
  <1> DEFINE N == TIME_NEAR
             L == TIME_LEVEL
  <1>1. N \in Nat /\ L \in Nat /\ N > 1 /\ L > 1
    BY WheelAssumption
  <1>2. /\ Span(0) = N /\ Span(1) = N * L /\ Span(2) = N * L * L
        /\ Span(3) = N * L * L * L /\ TimeSpan = N * L * L * L * L
    BY DEF Span, TimeSpan
  <1> HIDE DEF N, L
  <1>3. N * L \in Nat \ {0}
    BY <1>1, QuotientTwice
  <1>4. (N * L) * L \in Nat \ {0} /\ (N * L) * L >= N * L * 2
    <2>1. ASSUME NEW x \in Nat PROVE x * L >= x * 2
      BY <1>1, <2>1
    <2> QED
      BY <1>1, <1>3, <2>1, QuotientTwice
  <1>5. (N * L * L) * L \in Nat \ {0} /\ (N * L * L) * L >= N * L * L
    <2>1. ASSUME NEW x \in Nat PROVE x * L >= x
      BY <1>1, <2>1
    <2> QED
      BY <1>1, <1>4, <2>1, QuotientTwice
  <1>6. (N * L * L * L) * L \in Nat \ {0} /\ (N * L * L * L) * L >= N * L * L * L
    <2>1. ASSUME NEW x \in Nat PROVE x * L >= x
      BY <1>1, <2>1
    <2> QED
      BY <1>1, <1>5, <2>1, QuotientTwice
  <1>7. \A l \in 0..3 : Span(l) \in Nat \ {0}
    <2>1. \A l \in 0..3 : l = 0 \/ l = 1 \/ l = 2 \/ l = 3
      OBVIOUS
    <2> QED
      BY <1>1, <1>2, <1>3, <1>4, <1>5, <2>1
  <1>8. TimeSpan % N = 0
    <2>1. L * L * L * L \in Nat /\ 0 \in 0..(N - 1)
      BY <1>1
    <2>2. (N * (L * L * L * L) + 0) % N = 0
      BY <1>1, <2>1, QuotientIs
    <2>3. N * L * L * L * L = N * (L * L * L * L) + 0
      BY <1>1
    <2> QED
      BY <1>2, <2>2, <2>3
  <1>9. TimeSpan >= 2 * Span(1)
    BY <1>2, <1>3, <1>4, <1>5, <1>6
  <1> QED
    BY <1>1, <1>2, <1>6, <1>7, <1>8, <1>9 DEF N, L

(* What the lists that a time belongs to come to. *)
LEMMA Turns ==
    ASSUME NEW x \in Time
    PROVE  /\ x \in Nat /\ x < TimeSpan
           /\ x \div TIME_NEAR \in Nat /\ x % TIME_NEAR \in 0..(TIME_NEAR - 1)
           /\ x \div Span(1) = (x \div TIME_NEAR) \div TIME_LEVEL
           /\ Index(x, 0) = (x \div TIME_NEAR) % TIME_LEVEL
           /\ \A l \in 0..3 : Index(x, l) \in 0..(TIME_LEVEL - 1)
  <1>1. x \in Nat /\ x < TimeSpan
    BY Spans DEF Time
  <1>2. x \div TIME_NEAR \in Nat /\ x % TIME_NEAR \in 0..(TIME_NEAR - 1)
    BY <1>1, Spans, Quotient
  <1>3. x \div Span(1) = (x \div TIME_NEAR) \div TIME_LEVEL
    <2>1. TIME_NEAR \in Nat \ {0} /\ TIME_LEVEL \in Nat \ {0}
      BY Spans
    <2>2. x \div (TIME_NEAR * TIME_LEVEL) = (x \div TIME_NEAR) \div TIME_LEVEL
      BY <1>1, <2>1, QuotientTwice
    <2> QED
      BY <2>2, Spans
  <1>4. ASSUME NEW l \in 0..3 PROVE Index(x, l) \in 0..(TIME_LEVEL - 1)
    <2>1. Span(l) \in Nat \ {0}
      BY Spans
    <2>2. x \div Span(l) \in Nat
      BY <1>1, <2>1, Quotient
    <2>3. (x \div Span(l)) % TIME_LEVEL \in 0..(TIME_LEVEL - 1)
      BY <2>2, Spans, Quotient
    <2> QED
      BY <2>3 DEF Index
  <1> QED
    BY <1>1, <1>2, <1>3, <1>4, Spans DEF Index

(* Two times of one turn of the near lists, and of the first level. *)
LEMMA NearTurns ==
    ASSUME NEW e \in Time, NEW now \in Time
    PROVE  /\ GoesNear(e, now) => SameTurn(e, now) /\ Index(e, 0) = Index(now, 0)
           /\ SameTurn(e, now) /\ Index(e, 0) = Index(now, 0) => GoesNear(e, now)
           /\ SameTurn(e, now) /\ Index(e, 0) > Index(now, 0) =>
                 e \div TIME_NEAR > now \div TIME_NEAR
           /\ SameTurn(e, now) /\ e >= now /\ ~GoesNear(e, now) => Index(e, 0) > Index(now, 0)
  <1> DEFINE q == e \div TIME_NEAR
             p == now \div TIME_NEAR
  <1>1. /\ q \in Nat /\ p \in Nat
        /\ SameTurn(e, now) <=> q \div TIME_LEVEL = p \div TIME_LEVEL
        /\ Index(e, 0) = q % TIME_LEVEL /\ Index(now, 0) = p % TIME_LEVEL
        /\ GoesNear(e, now) <=> q = p
    BY Turns DEF SameTurn, GoesNear
  <1>2. e >= now => q >= p
    BY Turns, Spans, QuotientOrder
  <1> HIDE DEF q, p
  <1>3. q \div TIME_LEVEL = p \div TIME_LEVEL =>
           /\ q % TIME_LEVEL = p % TIME_LEVEL => q = p
           /\ q % TIME_LEVEL > p % TIME_LEVEL => q > p
           /\ q > p => q % TIME_LEVEL > p % TIME_LEVEL
    BY <1>1, Spans, QuotientAndRest
  <1>4. q >= p /\ q # p => q > p
    BY <1>1
  <1> QED
    BY <1>1, <1>2, <1>3, <1>4 DEF q, p

(* Two times of one near list are the same. *)
LEMMA SameTime ==
    ASSUME NEW e \in Time, NEW now \in Time, GoesNear(e, now)
    PROVE  /\ e % TIME_NEAR = now % TIME_NEAR => e = now
           /\ now % TIME_NEAR = 0 => e >= now
           /\ e > now => now % TIME_NEAR # TIME_NEAR - 1
  <1>1. e \in Nat /\ now \in Nat /\ e % TIME_NEAR \in 0..(TIME_NEAR - 1)
    BY Turns
  <1>2. /\ e % TIME_NEAR = now % TIME_NEAR => e = now
        /\ e > now => e % TIME_NEAR > now % TIME_NEAR
        /\ now % TIME_NEAR = 0 => e >= now
    BY <1>1, Spans, QuotientAndRest DEF GoesNear
  <1> QED
    BY <1>1, <1>2, Spans

(* A timer that is added is due later, or in another turn. *)
LEMMA Due ==
    ASSUME NEW now \in Time, NEW time \in Delays
    PROVE  LET due == (time + now) % TimeSpan
           IN  /\ due \in Time
               /\ SameTurn(due, now) => due >= now /\ due - now = time
  <1> DEFINE due == (time + now) % TimeSpan
  <1>1. time \in 0..(TimeSpan \div 2) /\ now \in 0..(TimeSpan - 1) /\ TimeSpan \in Nat \ {0}
    BY WheelAssumption, Spans DEF Time
  <1>2. 2 * (TimeSpan \div 2) <= TimeSpan
    BY <1>1
  <1>3. due \in 0..(TimeSpan - 1)
    BY <1>1, ModIn
  <1>4. CASE time + now < TimeSpan
    <2>1. due = time + now
      BY <1>1, <1>4, ModBelow
    <2> QED
      BY <1>1, <1>3, <2>1 DEF Time
  <1>5. CASE time + now >= TimeSpan
    <2>1. due = time + now - TimeSpan
      <3>1. TimeSpan \div 2 \in Nat
        BY <1>1
      <3>2. time + now \in TimeSpan..(2 * TimeSpan - 1)
        BY <1>1, <1>2, <1>5, <3>1
      <3>3. (time + now) % TimeSpan = (time + now) - TimeSpan
        BY <1>1, <3>2, ModOnce
      <3> QED
        BY <1>1, <3>3
    <2>2. ASSUME SameTurn(due, now) PROVE FALSE
      <3> DEFINE S == Span(1)
                 q == now \div S
      <3>1. S \in Nat \ {0} /\ TimeSpan >= 2 * S
        BY Spans
      <3> HIDE DEF S
      <3>2. due \in Nat /\ now \in Nat
        BY <1>1, <1>3
      <3>3. /\ due % S \in 0..(S - 1) /\ due = S * (due \div S) + (due % S)
            /\ now % S \in 0..(S - 1) /\ now = S * q + (now % S) /\ q \in Nat
        BY <3>1, <3>2, Quotient
      <3>4. due \div S = q
        BY <2>2 DEF SameTurn, S
      <3> HIDE DEF q
      <3>5. now - due < S
        <4>1. S * q \in Nat
          BY <3>1, <3>3
        <4> QED
          BY <3>1, <3>2, <3>3, <3>4, <4>1
      <3> QED
        BY <1>1, <1>2, <2>1, <3>1, <3>5
    <2> QED
      BY <1>3, <2>2 DEF Time
  <1> QED
    BY <1>1, <1>4, <1>5

-----------------------------------------------------------------------------
(* The next tick. *)

LEMMA NextTime ==
    ASSUME NEW now \in Time, NEW next, next = (now + 1) % TimeSpan
    PROVE  /\ next \in Time
           /\ next % TIME_NEAR # 0 => next = now + 1 /\ next \div TIME_NEAR = now \div TIME_NEAR
           /\ next % TIME_NEAR = 0 => now % TIME_NEAR = TIME_NEAR - 1
           /\ \A e \in Time : e > now => next = now + 1 /\ e >= next
           /\ next = now + 1 /\ next % TIME_NEAR = 0 =>
                 next \div TIME_NEAR = (now \div TIME_NEAR) + 1
  <1>1. now \in 0..(TimeSpan - 1) /\ TimeSpan \in Nat \ {0} /\ TIME_NEAR \in Nat \ {0}
        /\ now \in Nat
    BY Spans DEF Time
  <1>2. CASE now + 1 < TimeSpan
    <2>1. next = now + 1
      BY <1>1, <1>2, ModBelow
    <2>2. /\ (now + 1) % TIME_NEAR # 0 => (now + 1) \div TIME_NEAR = now \div TIME_NEAR
          /\ (now + 1) % TIME_NEAR = 0 => now % TIME_NEAR = TIME_NEAR - 1
                             /\ (now + 1) \div TIME_NEAR = (now \div TIME_NEAR) + 1
      BY <1>1, NextQuotient
    <2> QED
      BY <1>1, <1>2, <2>1, <2>2 DEF Time
  <1>3. CASE now + 1 = TimeSpan
    <2>1. next = 0
      <3>1. TimeSpan % TimeSpan = TimeSpan - TimeSpan
        BY <1>1, ModOnce
      <3> QED
        BY <1>1, <1>3, <3>1
    <2>2. 0 % TIME_NEAR = 0
      BY <1>1
    <2>3. (now + 1) % TIME_NEAR = 0
      BY <1>3, Spans
    <2>4. now % TIME_NEAR = TIME_NEAR - 1
      BY <1>1, <2>3, NextQuotient
    <2>5. \A e \in Time : ~(e > now)
      BY <1>1, <1>3 DEF Time
    <2>6. next # now + 1 /\ next \in Time
      BY <1>1, <2>1 DEF Time
    <2> QED
      BY <2>1, <2>2, <2>4, <2>5, <2>6
  <1> QED
    BY <1>1, <1>2, <1>3

(* A tick that starts the near lists anew takes no timer of a later list   *)
(* of the same turn out of that turn.                                      *)
LEMMA NextTurn ==
    ASSUME NEW now \in Time, NEW next, next = (now + 1) % TimeSpan, next % TIME_NEAR = 0,
           NEW e \in Time, SameTurn(e, now), Index(e, 0) > Index(now, 0)
    PROVE  /\ next = now + 1 /\ e >= next
           /\ SameTurn(e, next) /\ Index(e, 0) >= Index(next, 0) /\ Index(next, 0) # 0
  <1> DEFINE L == TIME_LEVEL
             q == e \div TIME_NEAR
             p == now \div TIME_NEAR
             r == next \div TIME_NEAR
  <1>0. next \in Time /\ L \in Nat \ {0}
    BY NextTime, Spans
  <1>1. /\ q \in Nat /\ p \in Nat /\ q \div L = p \div L
        /\ Index(e, 0) = q % L /\ Index(now, 0) = p % L /\ Index(next, 0) = r % L
        /\ SameTurn(e, next) <=> q \div L = r \div L
    BY <1>0, Turns DEF SameTurn
  <1>2. q > p
    BY NearTurns
  <1>3. e > now
    <2>1. e <= now => q <= p
      BY Turns, Spans, QuotientOrder
    <2> QED
      BY <1>1, <1>2, <2>1, Turns
  <1>4. next = now + 1 /\ e >= next /\ r = p + 1
    BY <1>3, NextTime
  <1> HIDE DEF L, q, p, r
  <1>5. r \div L = p \div L
    <2>1. p \in Nat /\ r \in Nat /\ q \in Nat /\ p <= r /\ r <= q
      BY <1>1, <1>2, <1>4
    <2>2. p \div L <= r \div L /\ r \div L <= q \div L
      BY <1>0, <2>1, QuotientOrder
    <2>3. p \div L \in Nat /\ r \div L \in Nat
      BY <1>0, <2>1, Quotient
    <2> QED
      BY <1>1, <2>2, <2>3
  <1>6. r % L # 0
    <2>1. p \div L \in Nat
      BY <1>0, <1>1, Quotient
    <2>2. (p + 1) % L = 0 => (p + 1) \div L = (p \div L) + 1
      BY <1>0, <1>1, NextQuotient
    <2> QED
      BY <1>4, <1>5, <2>1, <2>2
  <1>7. q % L >= r % L
    <2>1. q = r \/ q > r
      BY <1>1, <1>2, <1>4
    <2>2. q \div L = r \div L /\ r \in Nat
      BY <1>1, <1>4, <1>5
    <2>3. q > r => q % L > r % L
      BY <1>0, <1>1, <2>2, QuotientAndRest
    <2>4. q % L \in Nat /\ r % L \in Nat
      BY <1>0, <1>1, <2>2, Quotient
    <2> QED
      BY <2>1, <2>3, <2>4
  <1> QED
    BY <1>1, <1>4, <1>5, <1>6, <1>7

(* A list of the next level spans TIME_LEVEL lists of the level. *)
LEMMA NextLevel ==
    ASSUME NEW x \in Nat, NEW n \in Nat \ {0}
    PROVE  x \div (n * TIME_LEVEL) = (x \div n) \div TIME_LEVEL
  <1>1. PICK m \in Nat \ {0} : m = TIME_LEVEL
    BY WheelAssumption
  <1>2. x \div (n * m) = (x \div n) \div m
    BY QuotientTwice
  <1> QED
    BY <1>1, <1>2

(* Which list TimerShift moves. *)
LEMMA Shifted ==
    ASSUME NEW next \in Time, next % TIME_NEAR = 0
    PROVE  LET from == ShiftedFrom(next)
           IN  /\ from = <<from[1], from[2]>>
               /\ from[1] \in 0..3 /\ from[2] \in 0..(TIME_LEVEL - 1)
               /\ Index(next, 0) # 0 => from = <<0, Index(next, 0)>>
               /\ from[1] # 0 => next % Span(1) = 0
  <1> DEFINE L == TIME_LEVEL
             N == TIME_NEAR
  <1>0. N \in Nat \ {0} /\ L \in Nat \ {0} /\ Span(1) = N * L
    BY Spans
  <1>1. Index(next, 0) \in 0..(L - 1) /\ Index(next, 1) \in 0..(L - 1)
        /\ Index(next, 2) \in 0..(L - 1) /\ Index(next, 3) \in 0..(L - 1) /\ next \in Nat
    BY Turns
  <1>2. Index(next, 0) = 0 => next % Span(1) = 0
    <2>1. next % (N * L) = N * ((next \div N) % L) + (next % N)
      BY <1>0, <1>1, QuotientTwice
    <2>2. Index(next, 0) = (next \div N) % L
      BY Turns
    <2> HIDE DEF N, L
    <2>3. ASSUME Index(next, 0) = 0 PROVE next % (N * L) = N * 0 + 0
      BY <2>1, <2>2, <2>3 DEF N
    <2> QED
      BY <1>0, <2>3
  <1>3. CASE next = 0
    <2>1. Index(next, 0) = 0
      <3>1. 0 \div N = 0 /\ 0 % L = 0
        BY <1>0
      <3> QED
        BY <1>3, <3>1, Turns
    <2>2. ShiftedFrom(next) = <<3, 0>>
      BY <1>3 DEF ShiftedFrom
    <2> QED
      BY <1>0, <1>2, <2>1, <2>2
  <1>4. CASE next # 0
    <2>1. \E l \in 0..3 : Index(next, l) # 0
      <3> SUFFICES ASSUME \A l \in 0..3 : Index(next, l) = 0 PROVE next = 0
        BY <1>4
      <3> DEFINE x0 == next \div N
                 x1 == x0 \div L
                 x2 == x1 \div L
                 x3 == x2 \div L
      <3>1. x0 \in Nat /\ next = N * x0 + (next % N)
        BY <1>0, <1>1, Quotient
      <3>2. /\ next \div Span(1) = x1 /\ next \div Span(2) = x2 /\ next \div Span(3) = x3
        <4>1. ASSUME NEW n \in Nat \ {0} PROVE next \div (n * L) = (next \div n) \div L
          BY <1>1, <4>1, NextLevel
        <4>2. N \in Nat \ {0} /\ Span(1) \in Nat \ {0} /\ Span(2) \in Nat \ {0}
              /\ Span(1) = N * L /\ Span(2) = Span(1) * L /\ Span(3) = Span(2) * L
          BY Spans
        <4> QED
          BY <4>1, <4>2
      <3>3. x0 % L = 0 /\ x1 % L = 0 /\ x2 % L = 0 /\ x3 % L = 0
        <4>1. /\ Index(next, 0) = x0 % L /\ Index(next, 1) = x1 % L
              /\ Index(next, 2) = x2 % L /\ Index(next, 3) = x3 % L
          BY <3>2, Spans DEF Index
        <4> QED
          BY <4>1
      <3>4. x1 \in Nat /\ x0 = L * x1 + (x0 % L)
        <4> HIDE DEF x0
        <4> QED
          BY <1>0, <3>1, Quotient
      <3>5. x2 \in Nat /\ x1 = L * x2 + (x1 % L)
        <4> HIDE DEF x1
        <4> QED
          BY <1>0, <3>4, Quotient
      <3>6. x3 \in Nat /\ x2 = L * x3 + (x2 % L)
        <4> HIDE DEF x2
        <4> QED
          BY <1>0, <3>5, Quotient
      <3>7. x3 < L
        <4> DEFINE S == Span(3)
        <4>1. S \in Nat \ {0} /\ TimeSpan = S * L /\ next < S * L
          BY Spans, Turns
        <4> HIDE DEF S
        <4>2. next = S * (next \div S) + (next % S) /\ next % S \in Nat
          <5>1. next \in Nat /\ S \in Nat \ {0}
            BY <1>1, <4>1
          <5>2. next = S * (next \div S) + (next % S) /\ next % S \in 0..(S - 1)
            BY <5>1, Quotient
          <5> QED
            BY <5>1, <5>2
        <4>3. next \div S = x3
          BY <3>2 DEF S
        <4> HIDE DEF x3, L
        <4>4. ASSUME x3 >= L PROVE FALSE
          <5>1. S * x3 >= S * L
            <6>1. x3 - L \in Nat /\ S * (x3 - L) \in Nat /\ S * (x3 - L) = S * x3 - S * L
              BY <1>0, <3>6, <4>1, <4>4
            <6>2. S * x3 \in Nat /\ S * L \in Nat
              BY <1>0, <3>6, <4>1
            <6> QED
              BY <6>1, <6>2
          <5>2. S * x3 \in Nat /\ S * L \in Nat
            BY <1>0, <3>6, <4>1
          <5> QED
            BY <1>1, <4>1, <4>2, <4>3, <5>1, <5>2
        <4> QED
          BY <1>0, <3>6, <4>4
      <3> HIDE DEF x0, x1, x2, x3, N, L
      <3>8. x3 = 0
        <4>1. x3 % L = x3
          BY <1>0, <3>6, <3>7, ModBelow
        <4> QED
          BY <3>3, <4>1
      <3>9. x2 = 0
        BY <1>0, <3>3, <3>6, <3>8
      <3>10. x1 = 0
        BY <1>0, <3>3, <3>5, <3>9
      <3>11. x0 = 0
        BY <1>0, <3>3, <3>4, <3>10
      <3> QED
        BY <1>0, <3>1, <3>11 DEF N
    <2>2. \E l \in 0..3 : Index(next, l) # 0 /\ \A m \in 0..(l - 1) : Index(next, m) = 0
      <3>1. \A l \in 0..3 : l = 0 \/ l = 1 \/ l = 2 \/ l = 3
        OBVIOUS
      <3>2. Index(next, 0) # 0 \/ Index(next, 1) # 0 \/ Index(next, 2) # 0 \/ Index(next, 3) # 0
        BY <2>1, <3>1
      <3>3. /\ \A m \in 0..(0 - 1) : FALSE
            /\ \A m \in 0..(1 - 1) : m = 0
            /\ \A m \in 0..(2 - 1) : m = 0 \/ m = 1
            /\ \A m \in 0..(3 - 1) : m = 0 \/ m = 1 \/ m = 2
        OBVIOUS
      <3>4. CASE Index(next, 0) # 0
        BY <3>3, <3>4
      <3>5. CASE Index(next, 0) = 0 /\ Index(next, 1) # 0
        BY <3>3, <3>5
      <3>6. CASE Index(next, 0) = 0 /\ Index(next, 1) = 0 /\ Index(next, 2) # 0
        BY <3>3, <3>6
      <3>7. CASE Index(next, 0) = 0 /\ Index(next, 1) = 0 /\ Index(next, 2) = 0
                 /\ Index(next, 3) # 0
        BY <3>3, <3>7
      <3> QED
        BY <3>2, <3>4, <3>5, <3>6, <3>7
    <2> DEFINE level == CHOOSE l \in 0..3 :
                            Index(next, l) # 0 /\ \A m \in 0..(l - 1) : Index(next, m) = 0
    <2>3. level \in 0..3 /\ Index(next, level) # 0
          /\ \A m \in 0..(level - 1) : Index(next, m) = 0
      BY <2>2
    <2>4. ShiftedFrom(next) = <<level, Index(next, level)>>
      BY <1>4 DEF ShiftedFrom
    <2> HIDE DEF level
    <2>5. level # 0 => Index(next, 0) = 0
      BY <2>3
    <2>6. Index(next, level) \in 0..(L - 1)
      BY <2>3, Turns
    <2> QED
      BY <1>2, <2>3, <2>4, <2>5, <2>6
  <1> QED
    BY <1>3, <1>4

-----------------------------------------------------------------------------
(* Lists. *)

(* A timer that is in no list is linked to one. *)
LEMMA LinkedAppend ==
    ASSUME NEW F \in [Name -> Seq(Timer)], NEW G, NEW b \in Name, NEW t \in Timer,
           Linked(F), Appended(F, G, b, t)
    PROVE  /\ Linked(G)
           /\ \A a \in Name, u \in Timer : Has(G[a], {u}) <=> Has(F[a], {u}) \/ (a = b /\ u = t)
  <1>0. \A a \in Name : ~Has(F[a], {t}) /\ G[a] = IF a = b THEN Append(F[a], t) ELSE F[a]
    BY DEF Appended
  <1>1. ASSUME NEW a \in Name, NEW u \in Timer
        PROVE  /\ Has(G[a], {u}) <=> Has(F[a], {u}) \/ (a = b /\ u = t)
               /\ AtMostOne(G[a], {u})
    <2>1. F[a] \in Seq(Timer) /\ AtMostOne(F[a], {u})
      BY DEF Linked
    <2>2. CASE a = b
      <3>1. /\ Has(Append(F[a], t), {u}) <=> Has(F[a], {u}) \/ t \in {u}
            /\ AtMostOne(F[a], {u}) /\ ~(Has(F[a], {u}) /\ t \in {u})
               => AtMostOne(Append(F[a], t), {u})
        BY <2>1, AppendHas
      <3>2. t = u => ~Has(F[a], {u})
        BY <1>0
      <3> QED
        BY <1>0, <2>1, <2>2, <3>1, <3>2
    <2> QED
      BY <1>0, <2>1, <2>2
  <1>2. ASSUME NEW a \in Name, NEW c \in Name, NEW u \in Timer, Has(G[a], {u}), Has(G[c], {u})
        PROVE  a = c
    BY <1>0, <1>1, <1>2 DEF Linked
  <1> QED
    BY <1>1, <1>2 DEF Linked

(* The first timer of a list is taken off it. *)
LEMMA LinkedTail ==
    ASSUME NEW F \in [Name -> Seq(Timer)], NEW G, NEW b \in Name,
           Linked(F), Shortened(F, G, b)
    PROVE  /\ Linked(G) /\ Head(F[b]) \in Timer /\ Has(F[b], {Head(F[b])})
           /\ \A a \in Name, u \in Timer : Has(G[a], {u}) <=> Has(F[a], {u}) /\ u # Head(F[b])
  <1> DEFINE h == Head(F[b])
  <1>0. F[b] # <<>> /\ \A a \in Name : G[a] = IF a = b THEN Tail(F[a]) ELSE F[a]
    BY DEF Shortened
  <1>1. F[b] \in Seq(Timer) /\ h \in Timer
    BY <1>0
  <1>2. Has(F[b], {h})
    BY <1>0, <1>1, TailHas
  <1> HIDE DEF h
  <1>3. ASSUME NEW a \in Name, NEW u \in Timer
        PROVE  /\ Has(G[a], {u}) <=> Has(F[a], {u}) /\ u # h
               /\ AtMostOne(G[a], {u})
    <2>1. F[a] \in Seq(Timer) /\ AtMostOne(F[a], {u})
      BY DEF Linked
    <2>2. CASE a = b
      <3>1. /\ Has(F[a], {u}) <=> Has(Tail(F[a]), {u}) \/ Head(F[a]) \in {u}
            /\ AtMostOne(F[a], {u}) => /\ AtMostOne(Tail(F[a]), {u})
                                       /\ ~(Has(Tail(F[a]), {u}) /\ Head(F[a]) \in {u})
        BY <1>0, <2>1, <2>2, TailHas
      <3> QED
        BY <1>0, <2>1, <2>2, <3>1 DEF h
    <2>3. CASE a # b
      <3>1. u = h => ~Has(F[a], {u})
        BY <1>1, <1>2, <2>3 DEF Linked
      <3> QED
        BY <1>0, <2>1, <2>3, <3>1
    <2> QED
      BY <2>2, <2>3
  <1>4. Linked(G)
    BY <1>3 DEF Linked
  <1> QED
    BY <1>1, <1>2, <1>3, <1>4 DEF h

(* A list is taken off as a whole, and put where none is. *)
LEMMA LinkedMove ==
    ASSUME NEW F, NEW G, NEW b \in Name, NEW c \in Name, b # c,
           Linked(F), Moved(F, G, b, c)
    PROVE  /\ Linked(G)
           /\ \A a \in Name, u \in Timer :
                 Has(G[a], {u}) <=> IF a = c THEN Has(F[b], {u}) ELSE a # b /\ Has(F[a], {u})
  <1>0. F[c] = <<>> /\ \A a \in Name :
            G[a] = IF a = b THEN <<>> ELSE IF a = c THEN F[b] ELSE F[a]
    BY DEF Moved
  <1>1. \A u : ~Has(<<>>, {u}) /\ AtMostOne(<<>>, {u})
    BY DEF Has, AtMostOne
  <1>2. ASSUME NEW a \in Name, NEW u \in Timer
        PROVE  /\ Has(G[a], {u}) <=> IF a = c THEN Has(F[b], {u}) ELSE a # b /\ Has(F[a], {u})
               /\ AtMostOne(G[a], {u})
    BY <1>1, <1>0 DEF Linked
  <1>3. ASSUME NEW a \in Name, NEW d \in Name, NEW u \in Timer, Has(G[a], {u}), Has(G[d], {u})
        PROVE  a = d
    BY <1>2, <1>3 DEF Linked
  <1> QED
    BY <1>2, <1>3 DEF Linked

(* The lists that the names are of. *)
LEMMA HandIs ==
    ASSUME NEW near, NEW wheel, NEW hand
    PROVE  Hand \in Name /\ Hand \notin Linking /\ ListsOf(near, wheel, hand)[Hand] = hand
  <1>1. Hand \in Name /\ ListsOf(near, wheel, hand)[Hand] = hand
    BY DEF Name, Hand, ListsOf
  <1>2. Hand \notin Linking
    BY DEF Hand, Linking
  <1> QED
    BY <1>1, <1>2

LEMMA NearIs ==
    ASSUME NEW near, NEW wheel, NEW hand, NEW i \in 0..(TIME_NEAR - 1)
    PROVE  /\ <<"mNear", 0, i>> \in Linking
           /\ ListsOf(near, wheel, hand)[<<"mNear", 0, i>>] = near[i]
  BY DEF Name, Linking, ListsOf

LEMMA LevelIs ==
    ASSUME NEW near, NEW wheel, NEW hand, NEW l \in 0..3, NEW i \in 0..(TIME_LEVEL - 1)
    PROVE  /\ <<"mWheel", l, i>> \in Linking
           /\ ListsOf(near, wheel, hand)[<<"mWheel", l, i>>] = wheel[l][i]
  BY DEF Name, Linking, ListsOf

(* Each name is that of a near list, of a list of a level, or the hand. *)
LEMMA Names ==
    /\ \A a \in Linking :
          \/ \E i \in 0..(TIME_NEAR - 1) : a = <<"mNear", 0, i>>
          \/ \E l \in 0..3, i \in 0..(TIME_LEVEL - 1) : a = <<"mWheel", l, i>>
    /\ Name = Linking \cup {Hand}
  BY DEF Linking, Name

LEMMA ListTypes ==
    ASSUME NEW near \in [0..(TIME_NEAR - 1) -> Seq(Timer)],
           NEW wheel \in [0..3 -> [0..(TIME_LEVEL - 1) -> Seq(Timer)]],
           NEW hand \in Seq(Timer)
    PROVE  ListsOf(near, wheel, hand) \in [Name -> Seq(Timer)]
  <1>1. ASSUME NEW a \in Name PROVE ListsOf(near, wheel, hand)[a] \in Seq(Timer)
    <2>1. CASE a = Hand
      BY <2>1, HandIs, NearIs
    <2>2. ASSUME NEW i \in 0..(TIME_NEAR - 1), a = <<"mNear", 0, i>>
          PROVE  ListsOf(near, wheel, hand)[a] \in Seq(Timer)
      <3>1. ListsOf(near, wheel, hand)[a] = near[i]
        BY <2>2, NearIs
      <3> QED
        BY <3>1
    <2>3. ASSUME NEW l \in 0..3, NEW i \in 0..(TIME_LEVEL - 1), a = <<"mWheel", l, i>>
          PROVE  ListsOf(near, wheel, hand)[a] \in Seq(Timer)
      <3>1. ListsOf(near, wheel, hand)[a] = wheel[l][i]
        BY <2>3, LevelIs
      <3> QED
        BY <3>1
    <2> QED
      BY <2>1, <2>2, <2>3, Names
  <1> QED
    BY <1>1 DEF ListsOf

LEMMA TypedLists ==
    ASSUME TypeOK
    PROVE  Lists \in [Name -> Seq(Timer)]
  BY ListTypes DEF TypeOK, Lists

(* The lists of the wheel do not depend on the one in hand. *)
LEMMA OtherHand ==
    ASSUME NEW near, NEW wheel, NEW hand, NEW next
    PROVE  /\ \A a \in Linking : a \in Name /\ a # Hand
                   /\ ListsOf(near, wheel, hand)[a] = ListsOf(near, wheel, next)[a]
           /\ ListsOf(near, wheel, next)[Hand] = next
  <1>1. ASSUME NEW a \in Linking
        PROVE  ListsOf(near, wheel, hand)[a] = ListsOf(near, wheel, next)[a]
    <2>1. ASSUME NEW i \in 0..(TIME_NEAR - 1), a = <<"mNear", 0, i>>
          PROVE  ListsOf(near, wheel, hand)[a] = ListsOf(near, wheel, next)[a]
      BY <2>1, HandIs, NearIs
    <2>2. ASSUME NEW l \in 0..3, NEW i \in 0..(TIME_LEVEL - 1), a = <<"mWheel", l, i>>
          PROVE  ListsOf(near, wheel, hand)[a] = ListsOf(near, wheel, next)[a]
      BY <2>2, LevelIs
    <2> QED
      BY <2>1, <2>2, Names
  <1>2. \A a \in Linking : a \in Name /\ a # Hand
    BY HandIs, Names
  <1> QED
    BY <1>1, <1>2, HandIs

(* One near list is set to another sequence. *)
LEMMA NearSet ==
    ASSUME NEW i \in 0..(TIME_NEAR - 1), UNCHANGED mWheel,
           \A j \in 0..(TIME_NEAR - 1) : j # i => mNear'[j] = mNear[j]
    PROVE  \A a \in Linking :
               Lists'[a] = IF a = <<"mNear", 0, i>> THEN mNear'[i] ELSE Lists[a]
  <1> DEFINE F == ListsOf(mNear, mWheel, list)
             G == ListsOf(mNear', mWheel', list')
  <1>1. ASSUME NEW j \in 0..(TIME_NEAR - 1)
        PROVE  G[<<"mNear", 0, j>>] = mNear'[j] /\ F[<<"mNear", 0, j>>] = mNear[j]
    <2>1. G[<<"mNear", 0, j>>] = mNear'[j]
      BY NearIs
    <2>2. F[<<"mNear", 0, j>>] = mNear[j]
      BY NearIs
    <2> QED
      BY <2>1, <2>2
  <1>2. ASSUME NEW l \in 0..3, NEW j \in 0..(TIME_LEVEL - 1)
        PROVE  G[<<"mWheel", l, j>>] = mWheel'[l][j] /\ F[<<"mWheel", l, j>>] = mWheel[l][j]
    <2>1. G[<<"mWheel", l, j>>] = mWheel'[l][j]
      BY LevelIs
    <2>2. F[<<"mWheel", l, j>>] = mWheel[l][j]
      BY LevelIs
    <2> QED
      BY <2>1, <2>2
  <1> HIDE DEF F, G
  <1>3. ASSUME NEW a \in Linking
        PROVE  G[a] = IF a = <<"mNear", 0, i>> THEN mNear'[i] ELSE F[a]
    <2>1. ASSUME NEW j \in 0..(TIME_NEAR - 1), a = <<"mNear", 0, j>>
          PROVE  G[a] = IF a = <<"mNear", 0, i>> THEN mNear'[i] ELSE F[a]
      BY <1>1, <2>1
    <2>2. ASSUME NEW l \in 0..3, NEW j \in 0..(TIME_LEVEL - 1), a = <<"mWheel", l, j>>
          PROVE  G[a] = IF a = <<"mNear", 0, i>> THEN mNear'[i] ELSE F[a]
      BY <1>2, <2>2
    <2> QED
      BY <2>1, <2>2, Names
  <1> QED
    BY <1>3 DEF F, G, Lists

(* One list of a level is set to another sequence. *)
LEMMA WheelSet ==
    ASSUME NEW l \in 0..3, NEW i \in 0..(TIME_LEVEL - 1), UNCHANGED mNear,
           \A m \in 0..3, j \in 0..(TIME_LEVEL - 1) :
              m # l \/ j # i => mWheel'[m][j] = mWheel[m][j]
    PROVE  \A a \in Linking :
               Lists'[a] = IF a = <<"mWheel", l, i>> THEN mWheel'[l][i] ELSE Lists[a]
  <1> DEFINE F == ListsOf(mNear, mWheel, list)
             G == ListsOf(mNear', mWheel', list')
  <1>1. ASSUME NEW j \in 0..(TIME_NEAR - 1)
        PROVE  G[<<"mNear", 0, j>>] = mNear'[j] /\ F[<<"mNear", 0, j>>] = mNear[j]
    <2>1. G[<<"mNear", 0, j>>] = mNear'[j]
      BY NearIs
    <2>2. F[<<"mNear", 0, j>>] = mNear[j]
      BY NearIs
    <2> QED
      BY <2>1, <2>2
  <1>2. ASSUME NEW m \in 0..3, NEW j \in 0..(TIME_LEVEL - 1)
        PROVE  G[<<"mWheel", m, j>>] = mWheel'[m][j] /\ F[<<"mWheel", m, j>>] = mWheel[m][j]
    <2>1. G[<<"mWheel", m, j>>] = mWheel'[m][j]
      BY LevelIs
    <2>2. F[<<"mWheel", m, j>>] = mWheel[m][j]
      BY LevelIs
    <2> QED
      BY <2>1, <2>2
  <1> HIDE DEF F, G
  <1>3. ASSUME NEW a \in Linking
        PROVE  G[a] = IF a = <<"mWheel", l, i>> THEN mWheel'[l][i] ELSE F[a]
    <2>1. ASSUME NEW j \in 0..(TIME_NEAR - 1), a = <<"mNear", 0, j>>
          PROVE  G[a] = IF a = <<"mWheel", l, i>> THEN mWheel'[l][i] ELSE F[a]
      BY <1>1, <2>1
    <2>2. ASSUME NEW m \in 0..3, NEW j \in 0..(TIME_LEVEL - 1), a = <<"mWheel", m, j>>
          PROVE  G[a] = IF a = <<"mWheel", l, i>> THEN mWheel'[l][i] ELSE F[a]
      BY <1>2, <2>2
    <2> QED
      BY <2>1, <2>2, Names
  <1> QED
    BY <1>3 DEF F, G, Lists

(* AddNode links the timer to one list. *)
LEMMA AddNodeLinks ==
    ASSUME TypeOK, NEW t \in Timer, NEW e \in Time, AddNode(t, e)
    PROVE  /\ Filed(e, m_uTime) \in Linking
           /\ mNear' \in [0..(TIME_NEAR - 1) -> Seq(Timer)]
           /\ mWheel' \in [0..3 -> [0..(TIME_LEVEL - 1) -> Seq(Timer)]]
           /\ \A a \in Linking :
                 Lists'[a] = IF a = Filed(e, m_uTime) THEN Append(Lists[a], t) ELSE Lists[a]
  <1> DEFINE level == Level(e, m_uTime)
             i == Index(e, level)
             n == e % TIME_NEAR
  <1>1. /\ m_uTime \in Time /\ level \in 0..3 /\ i \in 0..(TIME_LEVEL - 1)
        /\ n \in 0..(TIME_NEAR - 1)
        /\ mNear \in [0..(TIME_NEAR - 1) -> Seq(Timer)]
        /\ mWheel \in [0..3 -> [0..(TIME_LEVEL - 1) -> Seq(Timer)]]
    <2>1. level \in 0..3
      BY DEF Level
    <2> QED
      BY <2>1, Turns DEF TypeOK
  <1>2. CASE GoesNear(e, m_uTime)
    <2>1. /\ mNear' = [mNear EXCEPT ![n] = Append(mNear[n], t)] /\ mWheel' = mWheel
          /\ Filed(e, m_uTime) = <<"mNear", 0, n>>
      BY <1>2 DEF AddNode, Filed
    <2> DEFINE q == Append(mNear[n], t)
    <2>2. q \in Seq(Timer) /\ mNear' = [mNear EXCEPT ![n] = q]
      <3>1. mNear[n] \in Seq(Timer)
        BY <1>1
      <3> QED
        BY <2>1, <3>1
    <2> HIDE DEF n, q
    <2>3. /\ mNear' \in [0..(TIME_NEAR - 1) -> Seq(Timer)]
          /\ \A j \in 0..(TIME_NEAR - 1) : j # n => mNear'[j] = mNear[j]
          /\ mNear'[n] = q
      BY <1>1, <2>2
    <2>4. \A a \in Linking :
              Lists'[a] = IF a = <<"mNear", 0, n>> THEN mNear'[n] ELSE Lists[a]
      BY <1>1, <2>1, <2>3, NearSet
    <2>5. <<"mNear", 0, n>> \in Linking /\ Lists[<<"mNear", 0, n>>] = mNear[n]
      BY <1>1, NearIs DEF Lists
    <2> QED
      BY <1>1, <2>1, <2>3, <2>4, <2>5 DEF q
  <1>3. CASE ~GoesNear(e, m_uTime)
    <2>1. /\ mWheel' = [mWheel EXCEPT ![level][i] = Append(mWheel[level][i], t)]
          /\ mNear' = mNear
          /\ Filed(e, m_uTime) = <<"mWheel", level, i>>
      BY <1>3 DEF AddNode, Filed
    <2> DEFINE q == Append(mWheel[level][i], t)
    <2>2. q \in Seq(Timer) /\ mWheel' = [mWheel EXCEPT ![level][i] = q]
      <3>1. mWheel[level] \in [0..(TIME_LEVEL - 1) -> Seq(Timer)]
        BY <1>1
      <3>2. mWheel[level][i] \in Seq(Timer)
        BY <1>1, <3>1
      <3> QED
        BY <2>1, <3>2
    <2> HIDE DEF level, i, q
    <2>3. /\ mWheel' \in [0..3 -> [0..(TIME_LEVEL - 1) -> Seq(Timer)]]
          /\ \A m \in 0..3, j \in 0..(TIME_LEVEL - 1) :
                m # level \/ j # i => mWheel'[m][j] = mWheel[m][j]
          /\ mWheel'[level][i] = q
      BY <1>1, <2>2
    <2>4. \A a \in Linking :
              Lists'[a] = IF a = <<"mWheel", level, i>> THEN mWheel'[level][i] ELSE Lists[a]
      BY <1>1, <2>1, <2>3, WheelSet
    <2>5. /\ <<"mWheel", level, i>> \in Linking
          /\ Lists[<<"mWheel", level, i>>] = mWheel[level][i]
      BY <1>1, LevelIs DEF Lists
    <2> QED
      BY <1>1, <2>1, <2>3, <2>4, <2>5 DEF q
  <1> QED
    BY <1>2, <1>3

(* A timer fits the list that AddNode links it to. *)
LEMMA FiledFits ==
    ASSUME NEW e \in Time, NEW now \in Time, NEW same,
           SameTurn(e, now) => e >= now, ~SameTurn(e, now) => ~same
    PROVE  InWheel(Filed(e, now), e, now, same)
  <1>1. CASE GoesNear(e, now)
    <2>1. Filed(e, now) = <<"mNear", 0, e % TIME_NEAR>> /\ e >= now
      BY <1>1, NearTurns DEF Filed
    <2> QED
      BY <1>1, <2>1 DEF InWheel
  <1>2. CASE ~GoesNear(e, now) /\ SameTurn(e, now)
    <2>1. Filed(e, now) = <<"mWheel", 0, Index(e, 0)>>
      BY <1>2 DEF Filed, Level, SameTurn
    <2>2. Index(e, 0) > Index(now, 0)
      BY <1>2, NearTurns
    <2> QED
      BY <1>2, <2>1, <2>2 DEF InWheel
  <1>3. CASE ~GoesNear(e, now) /\ ~SameTurn(e, now)
    <2>1. Filed(e, now) = <<"mWheel", 3, Index(e, 3)>>
      BY <1>3 DEF Filed, Level, SameTurn
    <2> QED
      BY <1>3, <2>1 DEF InWheel
  <1> QED
    BY <1>1, <1>2, <1>3

-----------------------------------------------------------------------------
(* The steps. *)

LEMMA InitWheel == Init => WheelInv
  <1> SUFFICES ASSUME Init PROVE WheelInv
    OBVIOUS
  <1>1. 0 \in Time /\ 0 \in (-MaxBack)..MaxAhead /\ 0 \in 0..MaxInt
    BY WheelAssumption, Spans DEF Time
  <1>2. TypeOK
    <2>1. /\ mNear \in [0..(TIME_NEAR - 1) -> Seq(Timer)]
          /\ mWheel \in [0..3 -> [0..(TIME_LEVEL - 1) -> Seq(Timer)]]
          /\ list \in Seq(Timer)
      BY DEF Init
    <2>2. m_uTime \in Time /\ ahead \in (-MaxBack)..MaxAhead /\ diff \in 0..MaxInt
          /\ m_Lock \in BOOLEAN
      BY <1>1 DEF Init
    <2>3. expire \in [Timer -> Time] /\ sameTurn \in [Timer -> BOOLEAN]
      BY <1>1 DEF Init
    <2>4. pc = "UpdateTime"
      BY DEF Init
    <2> QED
      BY <2>1, <2>2, <2>3, <2>4 DEF TypeOK
  <1>3. ThreadInv
    BY DEF Init, ThreadInv
  <1>4. ASSUME NEW a \in Name PROVE Lists[a] = <<>>
    <2>1. CASE a = Hand
      BY <2>1, HandIs DEF Lists, Init
    <2>2. ASSUME NEW i \in 0..(TIME_NEAR - 1), a = <<"mNear", 0, i>> PROVE Lists[a] = <<>>
      <3>1. Lists[a] = mNear[i]
        BY <2>2, NearIs DEF Lists
      <3> QED
        BY <3>1 DEF Init
    <2>3. ASSUME NEW l \in 0..3, NEW i \in 0..(TIME_LEVEL - 1), a = <<"mWheel", l, i>>
          PROVE  Lists[a] = <<>>
      <3>1. Lists[a] = mWheel[l][i]
        BY <2>3, LevelIs DEF Lists
      <3> QED
        BY <3>1 DEF Init
    <2> QED
      BY <2>1, <2>2, <2>3, Names
  <1>5. \A t : ~Has(<<>>, {t}) /\ AtMostOne(<<>>, {t})
    BY DEF Has, AtMostOne
  <1>6. Linked(Lists) /\ FitsAll
    BY <1>4, <1>5 DEF Linked, FitsAll, In
  <1> QED
    BY <1>2, <1>3, <1>6 DEF WheelInv

(* A step that leaves the timers and the time alone. *)
LEMMA QuietSteps ==
    ASSUME WheelInv, UNCHANGED <<m_uTime, wheelVars, list>>, UNCHANGED pc \/ list = <<>>,
           TypeOK', ThreadInv'
    PROVE  WheelInv'
  <1>1. UNCHANGED <<m_uTime, mNear, mWheel, expire, sameTurn, list>>
    BY DEF wheelVars
  <1>2. Lists' = Lists
    BY <1>1 DEF Lists
  <1>3. Linked(Lists)'
    BY <1>2 DEF WheelInv, Linked
  <1>4. ASSUME NEW a \in Name, NEW t \in Timer, In(a, t)'
        PROVE  Fits(a, t)' /\ OnTime(t)'
    <2>1. In(a, t) /\ Fits(a, t) /\ OnTime(t)
      BY <1>2, <1>4 DEF In, WheelInv, FitsAll
    <2>2. a = Hand => list # <<>>
      <3>1. Lists[Hand] = list /\ ~Has(<<>>, {t})
        BY HandIs DEF Lists, Has
      <3> QED
        BY <2>1, <3>1 DEF In
    <2> QED
      BY <1>1, <2>1, <2>2 DEF Fits, OnTime
  <1> QED
    BY <1>3, <1>4 DEF WheelInv, FitsAll

LEMMA ClockStep ==
    ASSUME WheelInv, Clock
    PROVE  WheelInv'
  <1>1. TypeOK' /\ ThreadInv'
    <2>1. ahead' \in (-MaxBack)..MaxAhead
      <3>1. ahead \in (-MaxBack)..MaxAhead /\ MaxBack \in Nat /\ MaxAhead \in Nat
        BY WheelAssumption DEF WheelInv, TypeOK
      <3>2. (ahead < MaxAhead /\ ahead' = ahead + 1) \/ (ahead > -MaxBack /\ ahead' = ahead - 1)
        BY DEF Clock, ClockTicks, ClockSetBack
      <3> QED
        BY <3>1, <3>2
    <2> QED
      BY <2>1 DEF WheelInv, TypeOK, ThreadInv, Clock, wheelVars, Dispatching
  <1> QED
    BY <1>1, QuietSteps DEF Clock

(* What a conversion to int answers is an int. *)
LEMMA IntFits ==
    ASSUME NEW x \in Int
    PROVE  ToInt(x) \in Int /\ ToInt(x) <= MaxInt
  <1>1. MaxInt \in Nat
    BY WheelAssumption
  <1> DEFINE y == x + MaxInt + 1
             m == 2 * (MaxInt + 1)
  <1>2. y \in Int /\ m \in Nat \ {0} /\ m = MaxInt + 1 + MaxInt + 1
    BY <1>1
  <1>3. y % m \in 0..(m - 1)
    <2> HIDE DEF y, m
    <2> QED
      BY <1>2
  <1>4. ToInt(x) = (y % m) - (MaxInt + 1)
    BY DEF ToInt
  <1> HIDE DEF y, m
  <1> QED
    BY <1>1, <1>2, <1>3, <1>4

LEMMA UpdateSteps ==
    ASSUME WheelInv, UpdateTime \/ UpdateTimeReturns \/ UpdateLocks \/ TimerRelocks
                     \/ UpdateUnlocks
    PROVE  WheelInv'
  <1>0. TypeOK /\ ThreadInv
    BY DEF WheelInv
  <1>1. CASE UpdateTime
    <2>1. TypeOK'
      <3>1. ahead \in (-MaxBack)..MaxAhead /\ MaxBack \in Nat /\ MaxAhead \in Nat
        BY <1>0, WheelAssumption DEF TypeOK
      <3>2. ahead' = 0 /\ diff' = IF ahead > 0 /\ ToInt(ahead) > 0 THEN ToInt(ahead) ELSE 0
        BY <1>1 DEF UpdateTime
      <3>3. ToInt(ahead) \in Int /\ ToInt(ahead) <= MaxInt /\ MaxInt \in Nat
        BY <3>1, IntFits, WheelAssumption
      <3>4. ahead' \in (-MaxBack)..MaxAhead /\ diff' \in 0..MaxInt
        BY <3>1, <3>2, <3>3
      <3> QED
        BY <1>0, <1>1, <3>4 DEF TypeOK, UpdateTime, wheelVars
    <2>2. ThreadInv'
      BY <1>0, <1>1 DEF ThreadInv, UpdateTime, wheelVars, Dispatching
    <2>3. list = <<>>
      BY <1>0, <1>1 DEF ThreadInv, UpdateTime, Dispatching
    <2> QED
      BY <1>1, <2>1, <2>2, <2>3, QuietSteps DEF UpdateTime
  <1>2. CASE UpdateTimeReturns
    <2>1. TypeOK'
      BY <1>0, <1>2 DEF TypeOK, UpdateTimeReturns, wheelVars
    <2>2. ThreadInv'
      BY <1>0, <1>2 DEF ThreadInv, UpdateTimeReturns, wheelVars, Dispatching
    <2>3. list = <<>>
      BY <1>0, <1>2 DEF ThreadInv, UpdateTimeReturns, Dispatching
    <2> QED
      BY <1>2, <2>1, <2>2, <2>3, QuietSteps DEF UpdateTimeReturns
  <1>3. CASE UpdateLocks
    <2>1. TypeOK'
      BY <1>0, <1>3 DEF TypeOK, UpdateLocks, wheelVars
    <2>2. ThreadInv'
      BY <1>0, <1>3 DEF ThreadInv, UpdateLocks, wheelVars, Dispatching
    <2>3. list = <<>>
      BY <1>0, <1>3 DEF ThreadInv, UpdateLocks, Dispatching
    <2> QED
      BY <1>3, <2>1, <2>2, <2>3, QuietSteps DEF UpdateLocks
  <1>4. CASE TimerRelocks
    <2>1. TypeOK'
      BY <1>0, <1>4 DEF TypeOK, TimerRelocks, wheelVars
    <2>2. ThreadInv'
      BY <1>0, <1>4 DEF ThreadInv, TimerRelocks, wheelVars, Dispatching
    <2> QED
      BY <1>4, <2>1, <2>2, QuietSteps DEF TimerRelocks
  <1>5. CASE UpdateUnlocks
    <2>1. TypeOK'
      <3>1. diff \in 0..MaxInt /\ MaxInt \in Nat /\ diff > 0 /\ diff' = diff - 1
        BY <1>0, <1>5, WheelAssumption DEF TypeOK, ThreadInv, UpdateUnlocks
      <3>2. diff' \in 0..MaxInt
        BY <3>1
      <3> QED
        BY <1>0, <1>5, <3>2 DEF TypeOK, UpdateUnlocks, wheelVars
    <2>2. ThreadInv'
      BY <1>0, <1>5 DEF ThreadInv, UpdateUnlocks, wheelVars, Dispatching
    <2>3. list = <<>>
      BY <1>0, <1>5 DEF ThreadInv, UpdateUnlocks, Dispatching
    <2> QED
      BY <1>5, <2>1, <2>2, <2>3, QuietSteps DEF UpdateUnlocks
  <1> QED
    BY <1>1, <1>2, <1>3, <1>4, <1>5

(* A timer that is not armed is in no list. *)
LEMMA NotArmed ==
    ASSUME TypeOK, NEW t \in Timer
    PROVE  Armed(t) <=> \E a \in Name : In(a, t)
  <1>0. \A q : Holds(q, t) <=> Has(q, {t})
    BY DEF Holds, Has
  <1>1. ASSUME NEW a \in Name PROVE Lists[a] \in AllLists
    <2>1. CASE a = Hand
      BY <2>1, HandIs DEF Lists, AllLists
    <2>2. ASSUME NEW i \in 0..(TIME_NEAR - 1), a = <<"mNear", 0, i>>
          PROVE  Lists[a] \in AllLists
      <3>1. Lists[a] = mNear[i]
        BY <2>2, NearIs DEF Lists
      <3>2. DOMAIN mNear = 0..(TIME_NEAR - 1)
        BY DEF TypeOK
      <3> QED
        BY <3>1, <3>2 DEF AllLists
    <2>3. ASSUME NEW l \in 0..3, NEW i \in 0..(TIME_LEVEL - 1), a = <<"mWheel", l, i>>
          PROVE  Lists[a] \in AllLists
      <3>1. Lists[a] = mWheel[l][i]
        BY <2>3, LevelIs DEF Lists
      <3> QED
        BY <3>1 DEF AllLists
    <2> QED
      BY <2>1, <2>2, <2>3, Names
  <1>2. ASSUME NEW q \in AllLists PROVE \E a \in Name : Lists[a] = q
    <2>1. CASE q = list
      BY <2>1, HandIs DEF Lists
    <2>2. ASSUME NEW i \in 0..(TIME_NEAR - 1), q = mNear[i]
          PROVE  \E a \in Name : Lists[a] = q
      <3>1. Lists[<<"mNear", 0, i>>] = mNear[i] /\ <<"mNear", 0, i>> \in Linking
        BY NearIs DEF Lists
      <3> QED
        BY <2>2, <3>1, Names
    <2>3. ASSUME NEW l \in 0..3, NEW i \in 0..(TIME_LEVEL - 1), q = mWheel[l][i]
          PROVE  \E a \in Name : Lists[a] = q
      <3>1. Lists[<<"mWheel", l, i>>] = mWheel[l][i] /\ <<"mWheel", l, i>> \in Linking
        BY LevelIs DEF Lists
      <3> QED
        BY <2>3, <3>1, Names
    <2>4. DOMAIN mNear = 0..(TIME_NEAR - 1)
      BY DEF TypeOK
    <2> QED
      BY <2>1, <2>2, <2>3, <2>4 DEF AllLists
  <1> QED
    BY <1>0, <1>1, <1>2 DEF Armed, In

(* AddTimer: the timer was in no list, and is in one then. *)
LEMMA AddTimerStep ==
    ASSUME WheelInv, NEW t \in Timer, NEW time \in Delays, AddTimer(t, time)
    PROVE  WheelInv'
  <1> DEFINE due == (time + m_uTime) % TimeSpan
  <1>0. TypeOK /\ ThreadInv /\ Linked(Lists) /\ FitsAll /\ m_uTime \in Time
        /\ Lists \in [Name -> Seq(Timer)]
    BY TypedLists DEF WheelInv, TypeOK
  <1>1. /\ ~m_Lock /\ ~Armed(t) /\ AddNode(t, due)
        /\ expire' = [expire EXCEPT ![t] = due]
        /\ sameTurn' = [sameTurn EXCEPT ![t] = due \div Span(1) = m_uTime \div Span(1)]
        /\ UNCHANGED <<m_uTime, ahead, m_Lock, pc, diff, list>>
    BY DEF AddTimer
  <1>2. due \in Time /\ (SameTurn(due, m_uTime) => due >= m_uTime /\ due - m_uTime = time)
    BY <1>0, Due
  <1> HIDE DEF due
  <1> DEFINE b == Filed(due, m_uTime)
  <1>3. /\ b \in Linking
        /\ mNear' \in [0..(TIME_NEAR - 1) -> Seq(Timer)]
        /\ mWheel' \in [0..3 -> [0..(TIME_LEVEL - 1) -> Seq(Timer)]]
        /\ \A a \in Linking : Lists'[a] = IF a = b THEN Append(Lists[a], t) ELSE Lists[a]
    BY <1>0, <1>1, <1>2, AddNodeLinks
  <1>4. InWheel(b, due, m_uTime, SameTurn(due, m_uTime))
    BY <1>0, <1>2, FiledFits
  <1> HIDE DEF b
  <1>5. Lists'[Hand] = Lists[Hand] /\ Hand # b
    BY <1>1, <1>3, HandIs DEF Lists
  <1>6. /\ Linked(Lists)'
        /\ \A a \in Name, u \in Timer : In(a, u)' <=> In(a, u) \/ (a = b /\ u = t)
    <2>1. \A a \in Name : ~Has(Lists[a], {t})
      BY <1>0, <1>1, NotArmed DEF In
    <2>2. \A a \in Name : Lists'[a] = IF a = b THEN Append(Lists[a], t) ELSE Lists[a]
      BY <1>3, <1>5, Names
    <2>3. b \in Name
      BY <1>3, Names
    <2>4. /\ Linked(Lists')
          /\ \A a \in Name, u \in Timer :
                Has(Lists'[a], {u}) <=> Has(Lists[a], {u}) \/ (a = b /\ u = t)
      <3>1. Appended(Lists, Lists', b, t)
        BY <2>1, <2>2 DEF Appended
      <3> QED
        BY <1>0, <2>3, <3>1, LinkedAppend
    <2> QED
      BY <2>4 DEF In, Linked
  <1>7. expire' \in [Timer -> Time] /\ sameTurn' \in [Timer -> BOOLEAN]
        /\ expire'[t] = due /\ sameTurn'[t] = SameTurn(due, m_uTime)
        /\ \A u \in Timer : u # t => expire'[u] = expire[u] /\ sameTurn'[u] = sameTurn[u]
    BY <1>0, <1>1, <1>2 DEF TypeOK, SameTurn
  <1>8. TypeOK' /\ ThreadInv'
    <2>1. TypeOK'
      BY <1>0, <1>1, <1>3, <1>7 DEF TypeOK
    <2> QED
      BY <1>0, <1>1, <2>1 DEF ThreadInv, Dispatching
  <1>9. ASSUME NEW a \in Name, NEW u \in Timer, In(a, u)'
        PROVE  Fits(a, u)' /\ OnTime(u)'
    <2>1. CASE u # t
      <3>1. In(a, u)
        BY <1>6, <1>9, <2>1
      <3>2. Fits(a, u) /\ OnTime(u)
        BY <1>0, <3>1 DEF FitsAll
      <3> QED
        BY <1>1, <1>7, <2>1, <3>2 DEF Fits, OnTime
    <2>2. CASE u = t
      <3>1. a = b /\ a # Hand
        <4>1. ~In(a, t)
          BY <1>0, <1>1, NotArmed
        <4> QED
          BY <1>5, <1>6, <1>9, <2>2, <4>1
      <3>2. Fits(a, t)'
        BY <1>1, <1>4, <1>7, <3>1 DEF Fits
      <3>3. OnTime(t)'
        BY <1>1, <1>2, <1>7, WheelAssumption, Turns DEF OnTime, TimeSpan
      <3> QED
        BY <2>2, <3>2, <3>3
    <2> QED
      BY <2>1, <2>2
  <1> QED
    BY <1>6, <1>8, <1>9 DEF WheelInv, FitsAll

(* OnTimeOut: the timer that fires is in no list then. *)
LEMMA OnTimeOutStep ==
    ASSUME WheelInv, OnTimeOut
    PROVE  WheelInv'
  <1> DEFINE t == Head(list)
  <1>0. TypeOK /\ ThreadInv /\ Linked(Lists) /\ FitsAll
        /\ Lists \in [Name -> Seq(Timer)] /\ Lists[Hand] = list /\ list \in Seq(Timer)
    BY TypedLists, HandIs DEF WheelInv, TypeOK, Lists
  <1>1. /\ Dispatching /\ list # <<>> /\ list' = Tail(list)
        /\ expire' = [expire EXCEPT ![t] = 0] /\ sameTurn' = [sameTurn EXCEPT ![t] = FALSE]
        /\ UNCHANGED <<m_uTime, ahead, mNear, mWheel, m_Lock, pc, diff>>
    BY DEF OnTimeOut
  <1>2. t \in Timer /\ Tail(list) \in Seq(Timer)
    BY <1>0, <1>1
  <1> HIDE DEF t
  <1>3. \A a \in Name : Lists'[a] = IF a = Hand THEN Tail(Lists[a]) ELSE Lists[a]
    <2>1. \A a \in Linking : Lists'[a] = Lists[a] /\ a # Hand
      BY <1>1, OtherHand DEF Lists
    <2>2. Lists'[Hand] = list'
      BY HandIs DEF Lists
    <2> QED
      BY <1>0, <1>1, <2>1, <2>2, Names
  <1>4. /\ Linked(Lists)'
        /\ \A a \in Name, u \in Timer : In(a, u)' <=> In(a, u) /\ u # t
    <2>1. Hand \in Name /\ Lists[Hand] # <<>> /\ Head(Lists[Hand]) = t
      BY <1>0, <1>1, Names DEF t
    <2>2. /\ Linked(Lists')
          /\ \A a \in Name, u \in Timer :
                Has(Lists'[a], {u}) <=> Has(Lists[a], {u}) /\ u # Head(Lists[Hand])
      <3>1. Shortened(Lists, Lists', Hand)
        BY <1>3, <2>1 DEF Shortened
      <3> QED
        BY <1>0, <2>1, <3>1, LinkedTail
    <2> QED
      BY <2>1, <2>2 DEF In, Linked
  <1>5. expire' \in [Timer -> Time] /\ sameTurn' \in [Timer -> BOOLEAN]
        /\ \A u \in Timer : u # t => expire'[u] = expire[u] /\ sameTurn'[u] = sameTurn[u]
    <2>1. 0 \in Time
      BY Spans DEF Time
    <2> QED
      BY <1>0, <1>1, <1>2, <2>1 DEF TypeOK
  <1>6. TypeOK' /\ ThreadInv'
    <2>1. TypeOK'
      BY <1>0, <1>1, <1>2, <1>5 DEF TypeOK
    <2> QED
      BY <1>0, <1>1, <2>1 DEF ThreadInv, Dispatching
  <1>7. ASSUME NEW a \in Name, NEW u \in Timer, In(a, u)'
        PROVE  Fits(a, u)' /\ OnTime(u)'
    <2>1. In(a, u) /\ u # t
      BY <1>4, <1>7
    <2>2. Fits(a, u) /\ OnTime(u)
      BY <1>0, <2>1 DEF FitsAll
    <2> QED
      BY <1>1, <1>5, <2>1, <2>2 DEF Fits, OnTime
  <1> QED
    BY <1>4, <1>6, <1>7 DEF WheelInv, FitsAll

(* MoveList: a timer goes from the list in hand to that for its due time. *)
LEMMA MoveListStep ==
    ASSUME WheelInv, MoveList
    PROVE  WheelInv'
  <1> DEFINE t == Head(list)
             e == expire[t]
             M == ListsOf(mNear, mWheel, Tail(list))
  <1>0. TypeOK /\ ThreadInv /\ Linked(Lists) /\ FitsAll /\ m_uTime \in Time
        /\ Lists \in [Name -> Seq(Timer)] /\ Lists[Hand] = list /\ list \in Seq(Timer)
    BY TypedLists, HandIs DEF WheelInv, TypeOK, Lists
  <1>1. pc = "MoveList" /\ UNCHANGED <<m_uTime, ahead, expire, sameTurn, m_Lock, diff>>
    BY DEF MoveList
  <1>2. CASE list = <<>>
    <2>1. pc' = "second" /\ UNCHANGED <<list, mNear, mWheel>>
      BY <1>2 DEF MoveList
    <2>2. TypeOK'
      BY <1>0, <1>1, <2>1 DEF TypeOK
    <2>3. ThreadInv'
      BY <1>0, <1>1, <1>2, <2>1 DEF ThreadInv, Dispatching
    <2> QED
      BY <1>1, <1>2, <2>1, <2>2, <2>3, QuietSteps DEF wheelVars
  <1>3. CASE list # <<>>
    <2>1. list' = Tail(list) /\ AddNode(t, e) /\ pc' = pc
      BY <1>3 DEF MoveList
    <2>2. t \in Timer /\ Tail(list) \in Seq(Timer) /\ e \in Time
      <3>1. t \in Timer /\ Tail(list) \in Seq(Timer)
        BY <1>0, <1>3
      <3> HIDE DEF t
      <3> QED
        BY <1>0, <3>1 DEF TypeOK
    <2>3. t = Head(Lists[Hand]) /\ Lists[Hand] # <<>>
      BY <1>0, <1>3
    <2> HIDE DEF t
    <2>4. M \in [Name -> Seq(Timer)]
      BY <1>0, <2>2, ListTypes DEF TypeOK
    <2>5. \A a \in Name : M[a] = IF a = Hand THEN Tail(Lists[a]) ELSE Lists[a]
      <3>1. \A a \in Linking : M[a] = Lists[a] /\ a # Hand
        BY OtherHand DEF Lists
      <3>2. M[Hand] = Tail(list)
        BY HandIs
      <3> QED
        BY <1>0, <3>1, <3>2, Names
    <2> HIDE DEF M
    <2>6. /\ Linked(M) /\ In(Hand, t)
          /\ \A a \in Name, u \in Timer : Has(M[a], {u}) <=> In(a, u) /\ u # t
      <3>1. Hand \in Name
        BY Names
      <3>2. /\ Linked(M) /\ Has(Lists[Hand], {Head(Lists[Hand])})
            /\ \A a \in Name, u \in Timer :
                  Has(M[a], {u}) <=> Has(Lists[a], {u}) /\ u # Head(Lists[Hand])
        <4>1. Shortened(Lists, M, Hand)
          BY <2>3, <2>5 DEF Shortened
        <4> QED
          BY <1>0, <3>1, <4>1, LinkedTail
      <3> QED
        BY <2>3, <3>2 DEF In
    <2> HIDE DEF e
    <2> DEFINE b == Filed(e, m_uTime)
    <2>7. /\ b \in Linking
          /\ mNear' \in [0..(TIME_NEAR - 1) -> Seq(Timer)]
          /\ mWheel' \in [0..3 -> [0..(TIME_LEVEL - 1) -> Seq(Timer)]]
          /\ \A a \in Linking : Lists'[a] = IF a = b THEN Append(Lists[a], t) ELSE Lists[a]
      BY <1>0, <2>1, <2>2, AddNodeLinks
    <2>8. InWheel(b, e, m_uTime, sameTurn[t])
      <3>1. Fits(Hand, t)
        BY <1>0, <2>2, <2>6, Names DEF FitsAll
      <3>2. m_uTime % TIME_NEAR = 0
            /\ (GoesNear(e, m_uTime) \/ (~sameTurn[t] /\ m_uTime % Span(1) = 0))
        BY <1>1, <3>1 DEF Fits, InHand, e
      <3>3. GoesNear(e, m_uTime) => SameTurn(e, m_uTime) /\ e >= m_uTime
        BY <1>0, <2>2, <3>2, NearTurns, SameTime
      <3>4. SameTurn(e, m_uTime) /\ m_uTime % Span(1) = 0 => e >= m_uTime
        <4>1. e \in Nat /\ m_uTime \in Nat /\ Span(1) \in Nat \ {0}
          BY <1>0, <2>2, Spans, Turns
        <4> QED
          BY <4>1, QuotientAndRest DEF SameTurn
      <3> QED
        BY <1>0, <2>2, <3>2, <3>3, <3>4, FiledFits
    <2> HIDE DEF b
    <2>9. /\ Linked(Lists)'
          /\ \A a \in Name, u \in Timer : In(a, u)' <=> (In(a, u) /\ u # t) \/ (a = b /\ u = t)
      <3>1. \A a \in Name : ~Has(M[a], {t})
        BY <2>2, <2>6
      <3>2. Lists'[Hand] = M[Hand] /\ Hand # b
        <4>1. Lists'[Hand] = list'
          BY HandIs DEF Lists
        <4> QED
          BY <1>0, <2>1, <2>5, <2>7, <4>1, HandIs
      <3>3. \A a \in Name : Lists'[a] = IF a = b THEN Append(M[a], t) ELSE M[a]
        <4>1. \A a \in Linking : a \in Name /\ a # Hand
          BY HandIs, Names
        <4> QED
          BY <2>5, <2>7, <3>2, <4>1, Names
      <3>4. b \in Name
        BY <2>7, Names
      <3>5. /\ Linked(Lists')
            /\ \A a \in Name, u \in Timer :
                  Has(Lists'[a], {u}) <=> Has(M[a], {u}) \/ (a = b /\ u = t)
        <4>1. Appended(M, Lists', b, t)
          BY <3>1, <3>3 DEF Appended
        <4> QED
          BY <2>2, <2>4, <2>6, <3>4, <4>1, LinkedAppend
      <3> QED
        BY <2>6, <3>5 DEF In, Linked
    <2>10. TypeOK' /\ ThreadInv'
      <3>1. TypeOK'
        BY <1>0, <1>1, <2>1, <2>2, <2>7 DEF TypeOK
      <3> QED
        BY <1>0, <1>1, <2>1, <3>1 DEF ThreadInv, Dispatching
    <2>11. ASSUME NEW a \in Name, NEW u \in Timer, In(a, u)'
           PROVE  Fits(a, u)' /\ OnTime(u)'
      <3>1. CASE In(a, u) /\ u # t
        <4>1. Fits(a, u) /\ OnTime(u)
          BY <1>0, <3>1 DEF FitsAll
        <4> QED
          BY <1>1, <2>1, <4>1 DEF Fits, OnTime
      <3>2. CASE a = b /\ u = t
        <4>1. a # Hand
          BY <2>7, <3>2, HandIs
        <4>2. Fits(a, u)'
          BY <1>1, <2>8, <3>2, <4>1 DEF Fits, e
        <4>3. OnTime(t)
          BY <1>0, <2>2, <2>6, Names DEF FitsAll
        <4> QED
          BY <1>1, <3>2, <4>2, <4>3 DEF OnTime
      <3> QED
        BY <2>9, <2>11, <3>1, <3>2
    <2> QED
      BY <2>9, <2>10, <2>11 DEF WheelInv, FitsAll
  <1> QED
    BY <1>2, <1>3

(* TimerExecute: a near list goes in hand, its timers due now. *)
LEMMA TimerExecuteStep ==
    ASSUME WheelInv, NEW turn \in {"first", "second"}, TimerExecute(turn)
    PROVE  WheelInv'
  <1> DEFINE i == DueIndex
             b == <<"mNear", 0, i>>
  <1>0. TypeOK /\ ThreadInv /\ Linked(Lists) /\ FitsAll /\ m_uTime \in Time
        /\ Lists \in [Name -> Seq(Timer)] /\ Lists[Hand] = list
        /\ mNear \in [0..(TIME_NEAR - 1) -> Seq(Timer)] /\ Hand \in Name
    BY TypedLists, HandIs DEF WheelInv, TypeOK, Lists
  <1>1. /\ pc = turn /\ list' = mNear[i] /\ mNear' = [mNear EXCEPT ![i] = <<>>] /\ m_Lock' = FALSE
        /\ pc' = IF turn = "first" THEN "dispatch first" ELSE "dispatch second"
        /\ UNCHANGED <<m_uTime, ahead, mWheel, expire, sameTurn, diff>>
    BY DEF TimerExecute
  <1>2. i \in 0..(TIME_NEAR - 1) /\ i = m_uTime % TIME_NEAR
    BY <1>0, Turns DEF DueIndex
  <1>3. b \in Linking /\ Lists[b] = mNear[i] /\ b \in Name /\ b # Hand
    BY <1>2, NearIs, HandIs, Names DEF Lists
  <1> HIDE DEF i
  <1>4. /\ mNear' \in [0..(TIME_NEAR - 1) -> Seq(Timer)] /\ mNear'[i] = <<>>
        /\ \A j \in 0..(TIME_NEAR - 1) : j # i => mNear'[j] = mNear[j]
        /\ mNear[i] \in Seq(Timer)
    <2>1. <<>> \in Seq(Timer) /\ mNear[i] \in Seq(Timer)
      BY <1>0, <1>2
    <2> QED
      BY <1>0, <1>1, <1>2, <2>1
  <1>5. \A a \in Linking : Lists'[a] = IF a = b THEN <<>> ELSE Lists[a]
    BY <1>1, <1>2, <1>4, NearSet
  <1> HIDE DEF b
  <1>6. Moved(Lists, Lists', b, Hand)
    <2>1. list = <<>>
      BY <1>0, <1>1 DEF ThreadInv, Dispatching
    <2>2. Lists'[Hand] = list'
      BY HandIs DEF Lists
    <2> QED
      BY <1>0, <1>1, <1>3, <1>5, <2>1, <2>2, Names, HandIs DEF Moved
  <1>7. /\ Linked(Lists)'
        /\ \A a \in Name, u \in Timer :
              In(a, u)' <=> IF a = Hand THEN In(b, u) ELSE a # b /\ In(a, u)
    <2>1. /\ Linked(Lists')
          /\ \A a \in Name, u \in Timer : Has(Lists'[a], {u}) <=>
                IF a = Hand THEN Has(Lists[b], {u}) ELSE a # b /\ Has(Lists[a], {u})
      BY <1>0, <1>3, <1>6, LinkedMove
    <2> QED
      BY <2>1 DEF In, Linked
  <1>8. TypeOK' /\ ThreadInv'
    <2>1. TypeOK'
      BY <1>0, <1>1, <1>4 DEF TypeOK
    <2> QED
      BY <1>0, <1>1, <2>1 DEF ThreadInv, Dispatching
  <1>9. ASSUME NEW a \in Name, NEW u \in Timer, In(a, u)'
        PROVE  Fits(a, u)' /\ OnTime(u)'
    <2>1. CASE a = Hand
      <3>1. Fits(b, u) /\ OnTime(u)
        BY <1>0, <1>3, <1>7, <1>9, <2>1 DEF FitsAll
      <3>2. GoesNear(expire[u], m_uTime) /\ expire[u] % TIME_NEAR = i
        BY <1>3, <3>1 DEF Fits, InWheel, b
      <3>3. expire[u] = m_uTime
        <4>1. expire[u] \in Time
          BY <1>0 DEF TypeOK
        <4> QED
          BY <1>0, <1>2, <3>2, <4>1, SameTime
      <3> QED
        BY <1>1, <2>1, <3>1, <3>3 DEF Fits, InHand, OnTime
    <2>2. CASE a # Hand
      <3>1. Fits(a, u) /\ OnTime(u)
        BY <1>0, <1>7, <1>9, <2>2 DEF FitsAll
      <3> QED
        BY <1>1, <2>2, <3>1 DEF Fits, OnTime
    <2> QED
      BY <2>1, <2>2
  <1> QED
    BY <1>7, <1>8, <1>9 DEF WheelInv, FitsAll

(* No timer is due now once the near list of now is empty. *)
LEMMA NoneDue ==
    ASSUME WheelInv, mNear[DueIndex] = <<>>, NEW a \in Linking, NEW t \in Timer, In(a, t)
    PROVE  /\ InWheel(a, expire[t], m_uTime, sameTurn[t])
           /\ a[1] = "mNear" => expire[t] > m_uTime
           /\ sameTurn[t] => expire[t] > m_uTime
  <1> DEFINE e == expire[t]
  <1>1. TypeOK /\ m_uTime \in Time /\ e \in Time
    BY DEF WheelInv, TypeOK
  <1>2. InWheel(a, e, m_uTime, sameTurn[t]) /\ OnTime(t)
    <2>1. a \in Name /\ a # Hand
      BY HandIs, Names
    <2> QED
      BY <2>1 DEF WheelInv, FitsAll, Fits
  <1>3. e \in Int /\ m_uTime \in Int
    BY <1>1, Turns
  <1>4. ASSUME e = m_uTime PROVE a[1] # "mNear" /\ ~sameTurn[t]
    <2>1. ASSUME a[1] = "mNear" PROVE FALSE
      <3>1. PICK i \in 0..(TIME_NEAR - 1) : a = <<"mNear", 0, i>>
        BY <2>1, Names
      <3>2. i = DueIndex
        BY <1>2, <1>4, <3>1 DEF InWheel, DueIndex
      <3>3. Lists[a] = mNear[i]
        BY <3>1, NearIs DEF Lists
      <3> QED
        BY <3>2, <3>3 DEF In, Has
    <2>2. ~(a[1] = "mWheel" /\ a[2] = 0 /\ Index(e, 0) = a[3] /\ a[3] > Index(m_uTime, 0))
      <3>1. Index(m_uTime, 0) \in Nat
        BY <1>1, Turns
      <3> QED
        BY <1>4, <3>1
    <2> QED
      BY <1>2, <2>1, <2>2 DEF InWheel
  <1> HIDE DEF e
  <1>5. a[1] = "mNear" => e >= m_uTime
    BY <1>2 DEF InWheel
  <1>6. sameTurn[t] => e >= m_uTime
    BY <1>2 DEF OnTime, e
  <1> QED
    BY <1>2, <1>3, <1>4, <1>5, <1>6 DEF e

(* TimerShift: the time goes on, and the list that starts a new turn of   *)
(* the near lists goes in hand.                                           *)
LEMMA TimerShiftStep ==
    ASSUME WheelInv, TimerShift
    PROVE  WheelInv'
  <1> DEFINE now == m_uTime
             next == Ticked
  <1>0. TypeOK /\ ThreadInv /\ Linked(Lists) /\ FitsAll /\ now \in Time
        /\ Lists \in [Name -> Seq(Timer)] /\ Lists[Hand] = list /\ Hand \in Name
        /\ mWheel \in [0..3 -> [0..(TIME_LEVEL - 1) -> Seq(Timer)]]
    BY TypedLists, HandIs DEF WheelInv, TypeOK, Lists
  <1>1. /\ pc = "first" /\ mNear[DueIndex] = <<>> /\ m_uTime' = next
        /\ UNCHANGED <<ahead, mNear, expire, sameTurn, m_Lock, diff>>
    BY DEF TimerShift
  <1>2. list = <<>>
    BY <1>0, <1>1 DEF ThreadInv, Dispatching
  <1>3. /\ next \in Time /\ next = (now + 1) % TimeSpan
        /\ next % TIME_NEAR # 0 => next = now + 1 /\ next \div TIME_NEAR = now \div TIME_NEAR
        /\ next % TIME_NEAR = 0 => now % TIME_NEAR = TIME_NEAR - 1
        /\ \A e \in Time : e > now => next = now + 1 /\ e >= next
    BY <1>0, NextTime DEF Ticked
  <1>4. ASSUME NEW a \in Linking, NEW t \in Timer, In(a, t)
        PROVE  /\ InWheel(a, expire[t], now, sameTurn[t]) /\ expire[t] \in Time
               /\ a[1] = "mNear" => expire[t] > now
               /\ sameTurn[t] => expire[t] > now
               /\ OnTime(t)'
    <2> DEFINE e == expire[t]
    <2>1. /\ InWheel(a, e, now, sameTurn[t])
          /\ a[1] = "mNear" => e > now
          /\ sameTurn[t] => e > now
      BY <1>1, <1>4, NoneDue
    <2>2. e \in Time
      BY <1>0 DEF TypeOK
    <2>3. OnTime(t)
      BY <1>0, <1>4, Names DEF FitsAll
    <2>4. ASSUME sameTurn[t]
          PROVE  e >= next /\ \E d \in Delays : e - next <= d
      <3>1. PICK d \in Delays : e - now <= d
        BY <2>3, <2>4 DEF OnTime
      <3>2. next = now + 1 /\ e >= next
        BY <1>3, <2>1, <2>2, <2>4
      <3>3. e \in Nat /\ now \in Nat /\ d \in Nat
        <4>1. d \in 0..(TimeSpan \div 2)
          BY WheelAssumption
        <4>2. e \in Nat /\ now \in Nat
          BY <1>0, <2>2, Turns
        <4>3. d \in Nat
          BY <4>1
        <4> QED
          BY <4>2, <4>3
      <3>4. e - next <= d
        BY <3>1, <3>2, <3>3
      <3> QED
        BY <3>2, <3>4
    <2> QED
      BY <1>1, <2>1, <2>2, <2>4 DEF OnTime
  <1> HIDE DEF next
  <1>5. CASE next % TIME_NEAR # 0
    <2>1. pc' = "second" /\ UNCHANGED <<list, mWheel>>
      BY <1>5 DEF TimerShift, next
    <2>2. Lists' = Lists
      BY <1>1, <2>1 DEF Lists
    <2>3. TypeOK'
      BY <1>0, <1>1, <1>3, <2>1 DEF TypeOK
    <2>4. ThreadInv'
      BY <1>0, <1>1, <1>2, <2>1 DEF ThreadInv, Dispatching
    <2>5. Linked(Lists)'
      BY <1>0, <2>2 DEF Linked
    <2>6. ASSUME NEW a \in Name, NEW t \in Timer, In(a, t)'
          PROVE  Fits(a, t)' /\ OnTime(t)'
      <3> DEFINE e == expire[t]
      <3>1. In(a, t)
        BY <2>2, <2>6 DEF In
      <3>2. a \in Linking /\ a # Hand
        <4>1. ~Has(<<>>, {t})
          BY DEF Has
        <4>2. a # Hand
          BY <1>0, <1>2, <3>1, <4>1 DEF In
        <4> QED
          BY <4>2, Names
      <3>3. /\ InWheel(a, e, now, sameTurn[t]) /\ e \in Time
            /\ a[1] = "mNear" => e > now
            /\ OnTime(t)'
        BY <1>4, <3>1, <3>2
      <3> HIDE DEF e
      <3>4. InWheel(a, e, next, sameTurn[t])
        <4>1. GoesNear(next, now) /\ SameTurn(next, now) /\ Index(next, 0) = Index(now, 0)
          <5>1. GoesNear(next, now)
            BY <1>3, <1>5 DEF GoesNear
          <5> QED
            BY <1>0, <1>3, <5>1, NearTurns
        <4>2. /\ GoesNear(e, now) => GoesNear(e, next)
              /\ SameTurn(e, now) => SameTurn(e, next)
          BY <4>1 DEF GoesNear, SameTurn
        <4>3. e > now => e >= next
          BY <1>3, <3>3
        <4> QED
          BY <3>3, <4>1, <4>2, <4>3 DEF InWheel
      <3> QED
        BY <1>1, <3>2, <3>3, <3>4 DEF Fits, e
    <2> QED
      BY <2>3, <2>4, <2>5, <2>6 DEF WheelInv, FitsAll
  <1>6. CASE next % TIME_NEAR = 0
    <2> DEFINE from == ShiftedFrom(next)
               l == from[1]
               i == from[2]
               b == <<"mWheel", l, i>>
    <2>1. /\ list' = mWheel[l][i] /\ mWheel' = [mWheel EXCEPT ![l][i] = <<>>]
          /\ pc' = "MoveList"
      BY <1>6 DEF TimerShift, next
    <2>2. /\ from = <<l, i>> /\ l \in 0..3 /\ i \in 0..(TIME_LEVEL - 1)
          /\ Index(next, 0) # 0 => from = <<0, Index(next, 0)>>
          /\ l # 0 => next % Span(1) = 0
      BY <1>3, <1>6, Shifted
    <2>3. Index(next, 0) # 0 => l = 0 /\ i = Index(next, 0)
      BY <2>2
    <2> HIDE DEF from, l, i
    <2>4. b \in Linking /\ Lists[b] = mWheel[l][i] /\ b \in Name /\ b # Hand
      BY <2>2, LevelIs, HandIs, Names DEF Lists
    <2>5. mWheel[l][i] \in Seq(Timer) /\ <<>> \in Seq(Timer)
      <3>1. mWheel[l] \in [0..(TIME_LEVEL - 1) -> Seq(Timer)]
        BY <1>0, <2>2
      <3>2. mWheel[l][i] \in Seq(Timer)
        BY <2>2, <3>1
      <3> QED
        BY <3>2
    <2>6. /\ mWheel' \in [0..3 -> [0..(TIME_LEVEL - 1) -> Seq(Timer)]]
          /\ mWheel'[l][i] = <<>>
          /\ \A m \in 0..3, j \in 0..(TIME_LEVEL - 1) :
                m # l \/ j # i => mWheel'[m][j] = mWheel[m][j]
      BY <1>0, <2>1, <2>2, <2>5
    <2>7. \A a \in Linking : Lists'[a] = IF a = b THEN <<>> ELSE Lists[a]
      BY <1>1, <2>2, <2>6, WheelSet
    <2> HIDE DEF b
    <2>8. Moved(Lists, Lists', b, Hand)
      <3>1. Lists'[Hand] = list'
        BY HandIs DEF Lists
      <3> QED
        BY <1>0, <1>2, <2>1, <2>4, <2>7, <3>1, Names, HandIs DEF Moved
    <2>9. /\ Linked(Lists)'
          /\ \A a \in Name, u \in Timer :
                In(a, u)' <=> IF a = Hand THEN In(b, u) ELSE a # b /\ In(a, u)
      <3>1. /\ Linked(Lists')
            /\ \A a \in Name, u \in Timer : Has(Lists'[a], {u}) <=>
                  IF a = Hand THEN Has(Lists[b], {u}) ELSE a # b /\ Has(Lists[a], {u})
        BY <1>0, <2>4, <2>8, LinkedMove
      <3> QED
        BY <3>1 DEF In, Linked
    <2>10. TypeOK' /\ ThreadInv'
      <3>1. TypeOK'
        BY <1>0, <1>1, <1>3, <2>1, <2>5, <2>6 DEF TypeOK
      <3> QED
        BY <1>0, <1>1, <2>1, <3>1 DEF ThreadInv, Dispatching
    <2>11. ASSUME NEW e \in Time, SameTurn(e, now), Index(e, 0) > Index(now, 0)
           PROVE  /\ SameTurn(e, next) /\ Index(e, 0) >= Index(next, 0)
                  /\ Index(next, 0) # 0 /\ l = 0 /\ i = Index(next, 0)
      BY <1>0, <1>3, <1>6, <2>3, <2>11, NextTurn
    <2>12. ASSUME NEW a \in Name, NEW t \in Timer, In(a, t)'
           PROVE  Fits(a, t)' /\ OnTime(t)'
      <3> DEFINE e == expire[t]
      <3>1. CASE a = Hand
        <4>1. In(b, t)
          BY <1>0, <2>9, <2>12, <3>1
        <4>2. InWheel(b, e, now, sameTurn[t]) /\ e \in Time /\ OnTime(t)'
          BY <1>4, <2>4, <4>1
        <4> HIDE DEF e
        <4>3. GoesNear(e, next) \/ (~sameTurn[t] /\ next % Span(1) = 0)
          <5>1. CASE l = 0 /\ SameTurn(e, now) /\ Index(e, 0) = i /\ i > Index(now, 0)
            <6>1. SameTurn(e, next) /\ Index(e, 0) = Index(next, 0)
              BY <2>11, <4>2, <5>1
            <6> QED
              BY <1>3, <4>2, <6>1, NearTurns
          <5>2. CASE l = 3 /\ ~sameTurn[t]
            BY <2>2, <5>2
          <5> QED
            BY <4>2, <5>1, <5>2 DEF InWheel, b
        <4> QED
          BY <1>1, <1>6, <2>1, <3>1, <4>2, <4>3 DEF Fits, InHand, e
      <3>2. CASE a # Hand
        <4>1. In(a, t) /\ a # b /\ a \in Linking
          BY <2>9, <2>12, <3>2, Names
        <4>2. /\ InWheel(a, e, now, sameTurn[t]) /\ e \in Time /\ OnTime(t)'
              /\ a[1] = "mNear" => e > now
          BY <1>4, <4>1
        <4> HIDE DEF e
        <4>3. a[1] # "mNear"
          <5> SUFFICES ASSUME a[1] = "mNear" PROVE FALSE
            OBVIOUS
          <5>1. GoesNear(e, now) /\ e > now
            BY <4>2 DEF InWheel
          <5> QED
            BY <1>0, <1>3, <1>6, <4>2, <5>1, SameTime
        <4>4. ASSUME a[1] = "mWheel", a[2] = 0, SameTurn(e, now), Index(e, 0) = a[3],
                     a[3] > Index(now, 0)
              PROVE  SameTurn(e, next) /\ a[3] > Index(next, 0)
          <5>1. /\ SameTurn(e, next) /\ a[3] >= Index(next, 0)
                /\ l = 0 /\ i = Index(next, 0)
            BY <2>11, <4>2, <4>4
          <5>2. PICK m \in 0..3, j \in 0..(TIME_LEVEL - 1) : a = <<"mWheel", m, j>>
            BY <4>1, <4>3, Names
          <5>3. a[3] # i
            BY <4>1, <4>4, <5>1, <5>2 DEF b
          <5>4. a[3] \in Int /\ i \in Int
            BY <2>2, <5>2
          <5> QED
            BY <5>1, <5>3, <5>4
        <4>5. InWheel(a, e, next, sameTurn[t])
          BY <4>2, <4>3, <4>4 DEF InWheel
        <4> QED
          BY <1>1, <3>2, <4>2, <4>5 DEF Fits, e
      <3> QED
        BY <3>1, <3>2
    <2> QED
      BY <2>9, <2>10, <2>12 DEF WheelInv, FitsAll
  <1> QED
    BY <1>5, <1>6

-----------------------------------------------------------------------------
(* The theorems. *)

LEMMA NextWheel ==
    ASSUME WheelInv, [Next]_vars
    PROVE  WheelInv'
  <1>1. CASE UNCHANGED vars
    <2>1. UNCHANGED <<m_uTime, ahead, wheelVars, m_Lock, pc, diff, list>>
          /\ UNCHANGED <<mNear, mWheel, expire, sameTurn>>
      BY <1>1 DEF vars, wheelVars
    <2>2. TypeOK' /\ ThreadInv'
      BY <2>1 DEF WheelInv, TypeOK, ThreadInv, Dispatching
    <2> QED
      BY <2>1, <2>2, QuietSteps
  <1>2. CASE UpdateTime \/ UpdateTimeReturns \/ UpdateLocks \/ TimerRelocks \/ UpdateUnlocks
    BY <1>2, UpdateSteps
  <1>3. ASSUME NEW turn \in {"first", "second"}, TimerExecute(turn) PROVE WheelInv'
    BY <1>3, TimerExecuteStep
  <1>4. CASE OnTimeOut
    BY <1>4, OnTimeOutStep
  <1>5. CASE TimerShift
    BY <1>5, TimerShiftStep
  <1>6. CASE MoveList
    BY <1>6, MoveListStep
  <1>7. ASSUME NEW t \in Timer, NEW time \in Delays, AddTimer(t, time) PROVE WheelInv'
    BY <1>7, AddTimerStep
  <1>8. CASE Clock
    BY <1>8, ClockStep
  <1> QED
    BY <1>1, <1>2, <1>3, <1>4, <1>5, <1>6, <1>7, <1>8 DEF Next, Updater

(***************************************************************************)
(* Between two steps of UpdateTime's thread, and whatever the others add,  *)
(* each timer is in one list, which AddNode's rule puts it in at the       *)
(* wheel's time, or is in hand and due; and one that AddTimer found in its *)
(* own turn of the first level is not overdue.                             *)
(***************************************************************************)
THEOREM WheelSafe == Spec => []WheelInv
  <1>1. Init => WheelInv
    BY InitWheel
  <1>2. WheelInv /\ [Next]_vars => WheelInv'
    BY NextWheel
  <1> QED
    BY <1>1, <1>2, PTL DEF Spec

(* Every index is one of its array's: that of TimerExecute, of TimerShift  *)
(* and of AddNode; the time stays within 32 bits, and so does the count.   *)
THEOREM WheelTypes == Spec => []TypeOK
  <1>1. WheelInv => TypeOK
    BY DEF WheelInv
  <1> QED
    BY <1>1, WheelSafe, PTL

(* A place of a timer is one of the list that a name is of. *)
LEMMA PlacesAre ==
    ASSUME NEW t \in Timer, NEW p \in Places(t)
    PROVE  \E a \in Name : p \in PlacesIn(Lists[a], a, t)
  <1>1. CASE p \in PlacesIn(list, Hand, t)
    BY <1>1, HandIs DEF Lists
  <1>2. ASSUME NEW i \in 0..(TIME_NEAR - 1), p \in PlacesIn(mNear[i], <<"mNear", 0, i>>, t)
        PROVE  \E a \in Name : p \in PlacesIn(Lists[a], a, t)
    <2>1. Lists[<<"mNear", 0, i>>] = mNear[i] /\ <<"mNear", 0, i>> \in Linking
      BY NearIs DEF Lists
    <2> QED
      BY <1>2, <2>1, Names
  <1>3. ASSUME NEW w \in (0..3) \X (0..(TIME_LEVEL - 1)),
               p \in PlacesIn(mWheel[w[1]][w[2]], <<"mWheel", w[1], w[2]>>, t)
        PROVE  \E a \in Name : p \in PlacesIn(Lists[a], a, t)
    <2>1. PICK l \in 0..3, i \in 0..(TIME_LEVEL - 1) : w[1] = l /\ w[2] = i
      OBVIOUS
    <2>2. Lists[<<"mWheel", l, i>>] = mWheel[l][i] /\ <<"mWheel", l, i>> \in Linking
      BY LevelIs DEF Lists
    <2> QED
      BY <1>3, <2>1, <2>2, Names
  <1>4. \/ \E i \in 0..(TIME_NEAR - 1) : p \in PlacesIn(mNear[i], <<"mNear", 0, i>>, t)
        \/ \E w \in (0..3) \X (0..(TIME_LEVEL - 1)) :
              p \in PlacesIn(mWheel[w[1]][w[2]], <<"mWheel", w[1], w[2]>>, t)
        \/ p \in PlacesIn(list, Hand, t)
    <2>1. p \in NearPlaces(t) \/ p \in LevelPlaces(t) \/ p \in PlacesIn(list, Hand, t)
      BY DEF Places, Hand
    <2>2. p \in NearPlaces(t) =>
              \E i \in 0..(TIME_NEAR - 1) : p \in PlacesIn(mNear[i], <<"mNear", 0, i>>, t)
      BY DEF NearPlaces
    <2>3. p \in LevelPlaces(t) => \E w \in (0..3) \X (0..(TIME_LEVEL - 1)) :
              p \in PlacesIn(mWheel[w[1]][w[2]], <<"mWheel", w[1], w[2]>>, t)
      BY DEF LevelPlaces
    <2> QED
      BY <2>1, <2>2, <2>3
  <1> QED
    BY <1>1, <1>2, <1>3, <1>4

(* Link, MoveList and DispatchList hand each node on once: none is in two  *)
(* lists, or twice in one, so none is freed twice.                         *)
THEOREM OneListEach == Spec => []LinkedOnce
  <1>1. ASSUME WheelInv, NEW t \in Timer, NEW p \in Places(t), NEW q \in Places(t)
        PROVE  p = q
    <2>1. PICK a \in Name : p \in PlacesIn(Lists[a], a, t)
      BY PlacesAre
    <2>2. PICK b \in Name : q \in PlacesIn(Lists[b], b, t)
      BY PlacesAre
    <2>3. PICK i \in DOMAIN Lists[a] : Lists[a][i] = t /\ p = <<a, i>>
      BY <2>1 DEF PlacesIn
    <2>4. PICK j \in DOMAIN Lists[b] : Lists[b][j] = t /\ q = <<b, j>>
      BY <2>2 DEF PlacesIn
    <2>5. Linked(Lists)
      BY <1>1 DEF WheelInv
    <2>6. a = b
      BY <2>3, <2>4, <2>5 DEF Linked, Has
    <2>7. AtMostOne(Lists[a], {t})
      BY <2>5 DEF Linked
    <2> QED
      BY <2>3, <2>4, <2>6, <2>7 DEF AtMostOne
  <1>2. WheelInv => LinkedOnce
    BY <1>1 DEF LinkedOnce
  <1> QED
    BY <1>2, WheelSafe, PTL

(* A timer of the turn of the first level it was added in is never left    *)
(* behind: TimerShift moves its list down when its time comes near, though *)
(* timers are added while the lock is given up to dispatch others.         *)
THEOREM NoneLeftBehind == Spec => []SameTurnOnTime
  <1>1. ASSUME WheelInv, NEW t \in Timer, sameTurn[t], Armed(t)
        PROVE  \E d \in Delays : Remaining(t) <= d
    <2>1. TypeOK /\ m_uTime \in Time /\ expire[t] \in Time
      BY <1>1 DEF WheelInv, TypeOK
    <2>2. OnTime(t)
      BY <1>1, <2>1, NotArmed DEF WheelInv, FitsAll
    <2>3. PICK d \in Delays : expire[t] >= m_uTime /\ expire[t] - m_uTime <= d
      BY <1>1, <2>2 DEF OnTime
    <2>4. Remaining(t) = expire[t] - m_uTime
      <3>1. expire[t] - m_uTime \in 0..(TimeSpan - 1) /\ TimeSpan \in Nat \ {0}
        BY <2>1, <2>3, Spans DEF Time
      <3> QED
        BY <3>1, ModBelow DEF Remaining
    <2> QED
      BY <2>3, <2>4
  <1>2. \A t \in Timer : TypeOK => Remaining(t) \in Int
    <2>1. ASSUME NEW t \in Timer, TypeOK PROVE Remaining(t) \in Int
      <3>1. expire[t] \in 0..(TimeSpan - 1) /\ m_uTime \in 0..(TimeSpan - 1)
            /\ TimeSpan \in Nat \ {0}
        BY <2>1, Spans DEF TypeOK, Time
      <3>2. expire[t] - m_uTime \in Int
        BY <3>1
      <3>3. (expire[t] - m_uTime) % TimeSpan \in 0..(TimeSpan - 1)
        BY <3>1, <3>2, ModIn
      <3> QED
        BY <3>1, <3>3 DEF Remaining
    <2> QED
      BY <2>1
  <1>3. WheelInv => SameTurnOnTime
    <2> SUFFICES ASSUME WheelInv, NEW t \in Timer, sameTurn[t], Overdue(t) PROVE FALSE
      BY DEF SameTurnOnTime
    <2>1. PICK d \in Delays : Remaining(t) <= d
      BY <1>1 DEF Overdue
    <2>2. Remaining(t) > d /\ d \in Int
      <3>1. d \in 0..(TimeSpan \div 2)
        BY WheelAssumption
      <3> QED
        BY <3>1 DEF Overdue
    <2> QED
      BY <1>2, <2>1, <2>2 DEF WheelInv
  <1> QED
    BY <1>3, WheelSafe, PTL

(* DispatchList calls OnTimeOut for a timer at its due time, to the tick:  *)
(* what TimerExecute takes off was put there for now, by whichever thread. *)
THEOREM DueWhenFired == Spec => FiresWhenDue
  <1>1. WheelInv /\ [Next]_vars => [OnTimeOut => expire[Head(list)] = m_uTime]_vars
    <2> SUFFICES ASSUME WheelInv, OnTimeOut PROVE expire[Head(list)] = m_uTime
      OBVIOUS
    <2> DEFINE t == Head(list)
    <2>1. Dispatching /\ list # <<>> /\ list \in Seq(Timer)
      BY DEF OnTimeOut, WheelInv, TypeOK
    <2>2. t \in Timer /\ Has(list, {t})
      BY <2>1, TailHas
    <2> HIDE DEF t
    <2>3. In(Hand, t) /\ Hand \in Name
      BY <2>2, HandIs DEF In, Lists
    <2>4. Fits(Hand, t)
      BY <2>2, <2>3 DEF WheelInv, FitsAll
    <2> QED
      BY <2>1, <2>4 DEF Fits, InHand, Dispatching, t
  <1> QED
    BY <1>1, WheelSafe, PTL DEF Spec, FiresWhenDue
=============================================================================
