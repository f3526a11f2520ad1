------------------------------ MODULE WheelTimer ------------------------------
(***************************************************************************)
(* WheelTimer and TimerCallBack (src/engine/timer): a hierarchical timer   *)
(* wheel. One thread calls UpdateTime, which runs Update once for each     *)
(* centisecond that passed since it looked at the clock last; any thread,  *)
(* and any callback, calls AddTimer.                                       *)
(*                                                                         *)
(* A list is the sequence of its timers. AddTimer, TimerShift, each turn   *)
(* of MoveList's loop and the head of TimerExecute's run under m_Lock, so  *)
(* each is one step; TimerExecute gives the lock up for every list that it *)
(* dispatches, and a step of another thread may come in there.             *)
(***************************************************************************)
EXTENDS Integers, Sequences, FiniteSets

CONSTANTS
    Timer,       \* the timers (a fired one may be added anew)
    TIME_NEAR,   \* lists of mNear (256)
    TIME_LEVEL,  \* lists of a level of mWheel (64)
    MaxInt,      \* the greatest int (2^31 - 1)
    Delays,      \* the delays AddTimer is called with
    MaxAhead,    \* bound: how far the clock runs ahead of UpdateTime
    MaxBack      \* bound: how far the clock is set back

(* m_uTime and expire are 32 bits wide: the near lists and four levels. *)
TimeSpan == TIME_NEAR * TIME_LEVEL * TIME_LEVEL * TIME_LEVEL * TIME_LEVEL
Time == 0..(TimeSpan - 1)

ASSUME WheelAssumption ==
    /\ TIME_NEAR \in Nat \ {0, 1} /\ TIME_LEVEL \in Nat \ {0, 1}
    /\ MaxInt \in Nat \ {0}
    /\ Delays \subseteq 0..(TimeSpan \div 2)
    /\ MaxAhead \in Nat /\ MaxBack \in Nat

VARIABLES
    m_uTime,   \* the wheel's time; the constructor leaves it uninitialised
    ahead,     \* GetTime() - m_uCurrentPoint
    mNear,     \* the timers of this turn of the near lists, by due time
    mWheel,    \* the timers of later turns, by level and index
    m_Lock,    \* whether the thread in UpdateTime holds the lock
    pc,        \* where that thread is
    diff,      \* Update calls it still has to make
    list,      \* the timers it is moving or dispatching
    expire,    \* each timer's due time
    sameTurn   \* whether AddTimer found it in this turn of the first level

wheelVars == <<mNear, mWheel, expire, sameTurn>>
vars == <<m_uTime, ahead, wheelVars, m_Lock, pc, diff, list>>

TypeOK ==
    /\ m_uTime \in Time
    /\ ahead \in (-MaxBack)..MaxAhead
    /\ mNear \in [0..(TIME_NEAR - 1) -> Seq(Timer)]
    /\ mWheel \in [0..3 -> [0..(TIME_LEVEL - 1) -> Seq(Timer)]]
    /\ m_Lock \in BOOLEAN
    /\ pc \in {"UpdateTime", "Update", "first", "MoveList", "second",
               "dispatch first", "dispatch second"}
    /\ diff \in 0..MaxInt
    /\ list \in Seq(Timer)
    /\ expire \in [Timer -> Time]
    /\ sameTurn \in [Timer -> BOOLEAN]

Init ==
    /\ m_uTime \in Time
    /\ ahead = 0
    /\ mNear = [i \in 0..(TIME_NEAR - 1) |-> <<>>]
    /\ mWheel = [l \in 0..3 |-> [i \in 0..(TIME_LEVEL - 1) |-> <<>>]]
    /\ m_Lock = FALSE
    /\ pc = "UpdateTime"
    /\ diff = 0
    /\ list = <<>>
    /\ expire = [t \in Timer |-> 0]
    /\ sameTurn = [t \in Timer |-> FALSE]

-----------------------------------------------------------------------------
(* The lists. *)

(* How many units of time a list of a level spans. *)
Span(level) ==
    <<TIME_NEAR, TIME_NEAR * TIME_LEVEL, TIME_NEAR * TIME_LEVEL * TIME_LEVEL,
      TIME_NEAR * TIME_LEVEL * TIME_LEVEL * TIME_LEVEL>>[level + 1]

(* AddNode: whether a timer due at e goes to a near list at time now. *)
GoesNear(e, now) == e \div TIME_NEAR = now \div TIME_NEAR

(***************************************************************************)
(* AddNode's loop over the levels never shifts its mask: it finds level 0, *)
(* or runs to its end at level 3.                                          *)
(***************************************************************************)
Level(e, now) == IF e \div Span(1) = now \div Span(1) THEN 0 ELSE 3

Index(e, level) == (e \div Span(level)) % TIME_LEVEL

(* AddNode: the timer t, due at e, is linked to the list for e. *)
AddNode(t, e) ==
    IF GoesNear(e, m_uTime)
    THEN /\ mNear' = [mNear EXCEPT ![e % TIME_NEAR] = Append(@, t)]
         /\ UNCHANGED mWheel
    ELSE LET level == Level(e, m_uTime) IN
         /\ mWheel' = [mWheel EXCEPT ![level][Index(e, level)] = Append(@, t)]
         /\ UNCHANGED mNear

AllLists == {mNear[i] : i \in DOMAIN mNear} \cup {list}
            \cup UNION {{mWheel[l][i] : i \in 0..(TIME_LEVEL - 1)} : l \in 0..3}

Holds(seq, t) == \E i \in DOMAIN seq : seq[i] = t

(* A timer that was added and has not fired. *)
Armed(t) == \E seq \in AllLists : Holds(seq, t)

-----------------------------------------------------------------------------
(* AddTimer(call_back, time), by any thread. *)
AddTimer(t, time) ==
    /\ ~m_Lock
    /\ ~Armed(t)
    /\ LET due == (time + m_uTime) % TimeSpan IN
       /\ expire' = [expire EXCEPT ![t] = due]
       /\ sameTurn' = [sameTurn EXCEPT ![t] = due \div Span(1) = m_uTime \div Span(1)]
       /\ AddNode(t, due)
    /\ UNCHANGED <<m_uTime, ahead, m_Lock, pc, diff, list>>

(* The clock goes on, or is set back. *)
ClockTicks == ahead < MaxAhead /\ ahead' = ahead + 1
ClockSetBack == ahead > -MaxBack /\ ahead' = ahead - 1

Clock ==
    /\ ClockTicks \/ ClockSetBack
    /\ UNCHANGED <<m_uTime, wheelVars, m_Lock, pc, diff, list>>

-----------------------------------------------------------------------------
(* UpdateTime and Update. *)

(* The uint64 x as an int, which keeps its low 32 bits. *)
ToInt(x) == ((x + MaxInt + 1) % (2 * (MaxInt + 1))) - (MaxInt + 1)

(* Mutant: only cur_time != m_uCurrentPoint is tested. *)
UpdateTime_AnyDiff ==
    /\ pc = "UpdateTime"
    /\ diff' = ahead
    /\ ahead' = 0
    /\ pc' = IF ahead # 0 THEN "Update" ELSE "UpdateTime"
    /\ UNCHANGED <<m_uTime, wheelVars, m_Lock, list>>

(***************************************************************************)
(* A clock that was set back makes no tick, nor does one that has jumped   *)
(* so far ahead that the difference turns negative.                        *)
(***************************************************************************)
UpdateTime ==
    /\ pc = "UpdateTime"
    /\ diff' = IF ahead > 0 /\ ToInt(ahead) > 0 THEN ToInt(ahead) ELSE 0
    /\ ahead' = 0
    /\ pc' = IF ahead > 0 THEN "Update" ELSE "UpdateTime"
    /\ UNCHANGED <<m_uTime, wheelVars, m_Lock, list>>

UpdateTimeReturns ==
    /\ pc = "Update" /\ diff = 0
    /\ pc' = "UpdateTime"
    /\ UNCHANGED <<m_uTime, ahead, wheelVars, m_Lock, diff, list>>

UpdateLocks ==
    /\ pc = "Update" /\ diff > 0
    /\ m_Lock' = TRUE
    /\ pc' = "first"
    /\ UNCHANGED <<m_uTime, ahead, wheelVars, diff, list>>

(* Mutant: the list is looked for one tick ahead. *)
DueIndex_Next == (m_uTime + 1) % TIME_NEAR

(* The near list that TimerExecute works on. *)
DueIndex == m_uTime % TIME_NEAR

(* Mutant: ClearLink is forgotten. *)
TimerExecute_NoClear(turn) ==
    /\ pc = turn /\ mNear[DueIndex] # <<>>
    /\ list' = mNear[DueIndex]
    /\ m_Lock' = FALSE
    /\ pc' = IF turn = "first" THEN "dispatch first" ELSE "dispatch second"
    /\ UNCHANGED <<m_uTime, ahead, wheelVars, diff>>

(* TimerExecute: the list is taken off and the lock given up. *)
TimerExecute(turn) ==
    /\ pc = turn /\ mNear[DueIndex] # <<>>
    /\ list' = mNear[DueIndex]
    /\ mNear' = [mNear EXCEPT ![DueIndex] = <<>>]
    /\ m_Lock' = FALSE
    /\ pc' = IF turn = "first" THEN "dispatch first" ELSE "dispatch second"
    /\ UNCHANGED <<m_uTime, ahead, mWheel, expire, sameTurn, diff>>

Dispatching == pc \in {"dispatch first", "dispatch second"}

(* DispatchList: OnTimeOut(), and the callback and its node are deleted. *)
OnTimeOut ==
    /\ Dispatching /\ list # <<>>
    /\ list' = Tail(list)
    /\ expire' = [expire EXCEPT ![Head(list)] = 0]
    /\ sameTurn' = [sameTurn EXCEPT ![Head(list)] = FALSE]
    /\ UNCHANGED <<m_uTime, ahead, mNear, mWheel, m_Lock, pc, diff>>

(* The list is done: TimerExecute takes the lock and looks again. *)
TimerRelocks ==
    /\ Dispatching /\ list = <<>>
    /\ m_Lock' = TRUE
    /\ pc' = IF pc = "dispatch first" THEN "first" ELSE "second"
    /\ UNCHANGED <<m_uTime, ahead, wheelVars, diff, list>>

(* Mutant: the time is shifted once more before the loop. *)
ShiftedFrom_Late(now) ==
    IF now = 0 THEN <<3, 0>>
    ELSE LET level == CHOOSE l \in 0..3 :
                 /\ Index(now, l) # 0
                 /\ \A m \in 0..(l - 1) : Index(now, m) = 0
         IN  <<IF level < 3 THEN level + 1 ELSE 3, Index(now, level)>>

(***************************************************************************)
(* The list that TimerShift moves at time now, when the near lists start   *)
(* anew: that of the first level whose index is not 0. Its loop goes on to *)
(* the next level only when the index is 0, so it moves no other.          *)
(***************************************************************************)
ShiftedFrom(now) ==
    IF now = 0 THEN <<3, 0>>
    ELSE LET level == CHOOSE l \in 0..3 :
                 /\ Index(now, l) # 0
                 /\ \A m \in 0..(l - 1) : Index(now, m) = 0
         IN  <<level, Index(now, level)>>

(* Mutant: the time is not stored. *)
Ticked_NotStored == m_uTime

(* ++m_uTime *)
Ticked == (m_uTime + 1) % TimeSpan

(* TimerShift: when the near lists start anew, MoveList takes a list off. *)
TimerShift ==
    /\ pc = "first" /\ mNear[DueIndex] = <<>>
    /\ m_uTime' = Ticked
    /\ IF Ticked % TIME_NEAR = 0
       THEN LET from == ShiftedFrom(Ticked) IN
            /\ list' = mWheel[from[1]][from[2]]
            /\ mWheel' = [mWheel EXCEPT ![from[1]][from[2]] = <<>>]
            /\ pc' = "MoveList"
       ELSE pc' = "second" /\ UNCHANGED <<list, mWheel>>
    /\ UNCHANGED <<ahead, mNear, expire, sameTurn, m_Lock, diff>>

(* MoveList: each timer of the list is added anew. *)
MoveList ==
    /\ pc = "MoveList"
    /\ IF list = <<>>
       THEN pc' = "second" /\ UNCHANGED <<list, mNear, mWheel>>
       ELSE list' = Tail(list) /\ AddNode(Head(list), expire[Head(list)]) /\ UNCHANGED pc
    /\ UNCHANGED <<m_uTime, ahead, expire, sameTurn, m_Lock, diff>>

(* Mutant: the loop of UpdateTime does not count. *)
UpdateUnlocks_NoCount ==
    /\ pc = "second" /\ mNear[DueIndex] = <<>>
    /\ m_Lock' = FALSE
    /\ pc' = "Update"
    /\ UNCHANGED <<m_uTime, ahead, wheelVars, diff, list>>

(* Update returns, and UpdateTime's loop goes on. *)
UpdateUnlocks ==
    /\ pc = "second" /\ mNear[DueIndex] = <<>>
    /\ m_Lock' = FALSE
    /\ diff' = diff - 1
    /\ pc' = "Update"
    /\ UNCHANGED <<m_uTime, ahead, wheelVars, list>>

-----------------------------------------------------------------------------
Updater ==
    \/ UpdateTime \/ UpdateTimeReturns \/ UpdateLocks
    \/ \E turn \in {"first", "second"} : TimerExecute(turn)
    \/ OnTimeOut \/ TimerRelocks \/ TimerShift \/ MoveList \/ UpdateUnlocks

Next ==
    \/ Updater
    \/ \E t \in Timer, time \in Delays : AddTimer(t, time)
    \/ Clock

Spec == Init /\ [][Next]_vars

(* A thread calls UpdateTime again and again, and is scheduled. *)
FairSpec == Spec /\ WF_vars(Updater)

-----------------------------------------------------------------------------
(* Safety. *)

(* The places of the timer t in the list called name. *)
PlacesIn(seq, name, t) == {name} \X {j \in DOMAIN seq : seq[j] = t}

NearPlaces(t) ==
    UNION {PlacesIn(mNear[i], <<"mNear", 0, i>>, t) : i \in 0..(TIME_NEAR - 1)}

LevelPlaces(t) ==
    UNION {PlacesIn(mWheel[w[1]][w[2]], <<"mWheel", w[1], w[2]>>, t) :
              w \in (0..3) \X (0..(TIME_LEVEL - 1))}

Places(t) == NearPlaces(t) \cup LevelPlaces(t) \cup PlacesIn(list, <<"list", 0, 0>>, t)

(***************************************************************************)
(* A timer is never linked twice and never in two lists: MoveList, Link    *)
(* and DispatchList hand each node on exactly once, whichever thread adds  *)
(* timers while the lock is given up, so no node is freed twice.           *)
(***************************************************************************)
LinkedOnce == \A t \in Timer : \A p, q \in Places(t) : p = q

(* How long until a timer is due; a time that has passed is far ahead. *)
Remaining(t) == (expire[t] - m_uTime) % TimeSpan

Overdue(t) == Armed(t) /\ \A d \in Delays : Remaining(t) > d

(***************************************************************************)
(* No due time passes by: the wheel never gets past the due time of a      *)
(* timer that was added in the same turn of the first level (163.84 s),    *)
(* though UpdateTime falls behind the clock, the clock is set back, and    *)
(* timers are added while others are dispatched.                           *)
(***************************************************************************)
SameTurnOnTime == \A t \in Timer : sameTurn[t] => ~Overdue(t)

(***************************************************************************)
(* OnTimeOut is called for a timer at its due time, to the tick: not when  *)
(* its slot comes round in an earlier turn, and not one Update late.       *)
(***************************************************************************)
FiresWhenDue == [][OnTimeOut => expire[Head(list)] = m_uTime]_vars

-----------------------------------------------------------------------------
(* Liveness, under FairSpec. *)

(***************************************************************************)
(* As long as UpdateTime keeps seeing time pass, and keeps returning, each *)
(* timer of the same turn fires.                                           *)
(***************************************************************************)
SameTurnFires ==
    []<>(pc = "UpdateTime") /\ []<>(diff > 0)
        => \A t \in Timer : Armed(t) /\ sameTurn[t] ~> ~Armed(t)

(***************************************************************************)
(* An UpdateTime that never returns is kept busy: timers keep being added  *)
(* that are due at once. Nothing else holds it, the lock included.         *)
(***************************************************************************)
OnlyDueTimersKeepIt ==
    <>[](pc # "UpdateTime") => []<>(\E t \in Timer : Armed(t) /\ expire[t] = m_uTime)

-----------------------------------------------------------------------------
(***************************************************************************)
(* Every timer fires when its delay has passed, as test_timer.h:17 expects *)
(* of a delay of 100. AddNode puts one whose delay reaches into another    *)
(* turn of the first level where TimerShift does not look for it in time.  *)
(***************************************************************************)
NeverOverdue == \A t \in Timer : ~Overdue(t)
=============================================================================
