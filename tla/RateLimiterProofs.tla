-------------------------- MODULE RateLimiterProofs --------------------------
(***************************************************************************)
(* Proofs about RateLimiter, for every set of callers, rate, burst and     *)
(* bound on time.                                                          *)
(*                                                                         *)
(* Everything rests on three facts about Level, what a caller may spend: a *)
(* sweep does not change it, a tick adds the rate to it up to the burst,   *)
(* and a call takes one token of its own key at most.                      *)
(***************************************************************************)
EXTENDS RateLimiter, TLAPS

LEMMA FullType == Full \in Nat /\ PerS <= Full
  BY LimitAssumption DEF Full

\* What a stored bucket has refilled to.
LEMMA RefilledType ==
  ASSUME now \in Nat, NEW b \in Buckets, b.at <= now
  PROVE  Refilled(b) \in Nat /\ b.fill <= Refilled(b)
  <1>1. b.fill \in Nat /\ b.at \in Nat
    BY FullType DEF Buckets, Times
  <1>2. (now - b.at) \in Nat /\ Calls \in Nat
    BY <1>1, LimitAssumption
  <1>3. (now - b.at) * Calls \in Nat
    BY <1>2
  <1> QED  BY <1>1, <1>3 DEF Refilled

\* A table of buckets, none of which is of the future.
Table(t) == t \in [Keys -> Buckets \cup {NoBucket}]
            /\ \A k \in Keys : t[k] # NoBucket => t[k].at <= now

LEMMA LevelType ==
  ASSUME now \in Nat, NEW t, Table(t), NEW k \in Keys
  PROVE  LevelIn(t, k) \in 0 .. Full
  <1>1. CASE t[k] = NoBucket
    BY <1>1, FullType DEF LevelIn
  <1>2. CASE t[k] # NoBucket
    <2>1. t[k] \in Buckets /\ t[k].at <= now
      BY <1>2 DEF Table
    <2>2. Refilled(t[k]) \in Nat
      BY <2>1, RefilledType
    <2> QED  BY <1>2, <2>2, FullType DEF LevelIn, AtMostFull
  <1> QED  BY <1>1, <1>2

\* A sweep drops only what a missing bucket stands for.
LEMMA SweepKeepsLevels ==
  ASSUME now \in Nat, Table(buckets)
  PROVE  Table(Swept) /\ \A k \in Keys : LevelIn(Swept, k) = Level(k)
  <1>1. Table(Swept)
    BY DEF Table, Swept
  <1>2. ASSUME NEW k \in Keys PROVE LevelIn(Swept, k) = Level(k)
    <2>1. CASE Swept[k] = buckets[k]
      BY <2>1 DEF LevelIn, Level
    <2>2. CASE Swept[k] # buckets[k]
      <3>1. Swept[k] = NoBucket /\ buckets[k] # NoBucket /\ Refilled(buckets[k]) >= Full
        BY <2>2 DEF Swept, IsFull
      <3>2. Refilled(buckets[k]) \in Nat
        BY <3>1, RefilledType DEF Table
      <3> QED  BY <3>1, <3>2, FullType DEF LevelIn, Level, AtMostFull
    <2> QED  BY <2>1, <2>2
  <1> QED  BY <1>1, <1>2

\* The rounding to the nearest takes half a unit at most.
LEMMA RoundedBounds ==
  ASSUME NEW x \in Nat, NEW y \in Nat \ {0}
  PROVE  /\ Rounded(x, y) \in Nat
         /\ 2 * (Rounded(x, y) * y) + y >= 2 * x
         /\ x <= y => Rounded(x, y) <= 1
  <1> DEFINE q == x \div y
             r == x % y
  <1>1. q \in Nat /\ r \in 0 .. (y - 1) /\ x = q * y + r
    OBVIOUS
  <1>2. Rounded(x, y) = IF 2 * r < y \/ (2 * r = y /\ q % 2 = 0) THEN q ELSE q + 1
    BY DEF Rounded
  <1>3. x <= y => q <= 1 /\ (q = 1 => r = 0)
    <2> SUFFICES ASSUME x <= y PROVE q <= 1 /\ (q = 1 => r = 0)
      OBVIOUS
    <2>1. CASE x < y
      BY <1>1, <2>1
    <2>2. CASE x = y
      BY <1>1, <2>2
    <2> QED  BY <2>1, <2>2
  <1> HIDE DEF q, r
  <1>4. q * y \in Nat /\ (q + 1) * y = q * y + y
    BY <1>1
  <1>5. CASE 2 * r < y \/ (2 * r = y /\ q % 2 = 0)
    <2>1. Rounded(x, y) = q /\ 2 * r <= y
      BY <1>1, <1>2, <1>5
    <2> QED  BY <1>1, <1>3, <1>4, <2>1
  <1>6. CASE ~(2 * r < y \/ (2 * r = y /\ q % 2 = 0))
    <2>1. Rounded(x, y) = q + 1 /\ 2 * r >= y
      BY <1>1, <1>2, <1>6
    <2>2. x <= y => q = 0
      BY <1>1, <1>3, <2>1
    <2> QED  BY <1>1, <1>4, <2>1, <2>2
  <1> QED  BY <1>5, <1>6

\* Rounding up gives at least what is rounded, and one for what is no more than one.
LEMMA RoundedUpBounds ==
  ASSUME NEW x \in Nat, NEW y \in Nat \ {0}
  PROVE  /\ RoundedUp(x, y) \in Nat
         /\ RoundedUp(x, y) * y >= x
         /\ x <= 1 => RoundedUp(x, y) <= 1
  <1> DEFINE q == (x + y - 1) \div y
  <1>1. q \in Nat /\ (x <= 1 => q <= 1)
    <2>1. x + y - 1 \in Nat
      OBVIOUS
    <2>2. q \in Nat
      BY <2>1
    <2>3. x <= 1 => q <= 1
      BY <2>1
    <2> QED  BY <2>2, <2>3
  <1>2. x + y - 1 = q * y + ((x + y - 1) % y) /\ (x + y - 1) % y \in 0 .. (y - 1)
    OBVIOUS
  <1> HIDE DEF q
  <1>3. q * y \in Nat
    BY <1>1
  <1>4. q * y >= x
    BY <1>2, <1>3
  <1> QED  BY <1>1, <1>4 DEF RoundedUp, q

\* The least wait is what a caller is told for whom less than a grain is missing.
LEMMA WaitType ==
  ASSUME NEW level \in Nat, level < PerS
  PROVE  /\ Wait(level) \in Nat \ {0}
         /\ (PerS - level) * Grain <= Calls * Second => Wait(level) = 1
  <1> DEFINE x == (PerS - level) * Grain
             y == Calls * Second
             g == Rounded(x, y)
             u == RoundedUp(g, Grain)
  <1>1. x \in Nat /\ y \in Nat \ {0} /\ Grain \in Nat \ {0}
    <2>1. PerS - level \in Nat
      BY LimitAssumption
    <2> QED  BY <2>1, LimitAssumption
  <1>2. Wait(level) = AtLeastOne(u)
    BY DEF Wait
  <1> HIDE DEF x, y
  <1>3. g \in Nat /\ (x <= y => g <= 1)
    BY <1>1, RoundedBounds
  <1> HIDE DEF g
  <1>4. u \in Nat /\ (g <= 1 => u <= 1)
    BY <1>1, <1>3, RoundedUpBounds
  <1> HIDE DEF u
  <1>5. AtLeastOne(u) \in Nat \ {0} /\ (x <= y => AtLeastOne(u) = 1)
    BY <1>3, <1>4 DEF AtLeastOne
  <1> QED  BY <1>2, <1>5 DEF x, y

LEMMA KeyOfType == \A caller \in Callers : KeyOf(caller) \in Keys
  BY DEF Callers, KeyOf, Keys

-----------------------------------------------------------------------------
(* Types                                                                   *)

LEMMA InitTypeOK == Init => TypeOK
  BY LimitAssumption DEF Init, TypeOK, Times

LEMMA TypeOKTable == TypeOK => Table(buckets) /\ now \in Nat
  BY DEF TypeOK, Table, Times

\* What the two outcomes of a call leave in the bucket of the caller.
LEMMA StoredType ==
  ASSUME TypeOK, NEW k \in Keys, NEW fill \in 0 .. Full
  PROVE  /\ [Swept EXCEPT ![k] = [fill |-> fill, at |-> now]]
               \in [Keys -> Buckets \cup {NoBucket}]
         /\ \A j \in Keys : [Swept EXCEPT ![k] = [fill |-> fill, at |-> now]][j] # NoBucket
              => [Swept EXCEPT ![k] = [fill |-> fill, at |-> now]][j].at <= now
  <1>1. Table(Swept) /\ now \in Nat
    BY TypeOKTable, SweepKeepsLevels
  <1>2. [fill |-> fill, at |-> now] \in Buckets
    BY DEF TypeOK, Buckets
  <1> QED  BY <1>1, <1>2 DEF Table

LEMMA StepTypeOK == TypeOK /\ [Next]_vars => TypeOK'
  <1> SUFFICES ASSUME TypeOK, [Next]_vars PROVE TypeOK'
    OBVIOUS
  <1>1. CASE Tick
    <2>1. now \in Nat /\ now' = now + 1 /\ now' \in Times
      BY <1>1, LimitAssumption DEF TypeOK, Tick, Times
    <2>2. \A k \in Keys : buckets'[k] # NoBucket => buckets'[k].at <= now'
      <3> SUFFICES ASSUME NEW k \in Keys, buckets[k] # NoBucket
                   PROVE  buckets[k].at <= now + 1
        BY <1>1, <2>1 DEF Tick
      <3>1. buckets[k].at \in Nat /\ buckets[k].at <= now
        BY DEF TypeOK, Buckets, Times
      <3> QED  BY <2>1, <3>1
    <2> QED  BY <1>1, <2>1, <2>2 DEF TypeOK, Tick
  <1>2. ASSUME NEW k \in Keys, Take(k) PROVE TypeOK'
    <2>0. Table(Swept) /\ now \in Nat /\ LevelIn(Swept, k) \in 0 .. Full
      BY TypeOKTable, SweepKeepsLevels, LevelType
    <2>1. swept' \in Times \cup {Never}
      BY <1>2 DEF TypeOK, Take, Spend, Refuse
    <2>2. CASE Spend(k)
      <3>1. LevelIn(Swept, k) - PerS \in 0 .. Full
        BY <2>0, <2>2, FullType, LimitAssumption DEF Spend
      <3>2. buckets' \in [Keys -> Buckets \cup {NoBucket}]
            /\ \A j \in Keys : buckets'[j] # NoBucket => buckets'[j].at <= now
        BY <2>2, <3>1, StoredType DEF Spend
      <3>3. passed' \in [Keys -> Nat]
        BY <2>2 DEF Spend, TypeOK
      <3>4. promised' \in [Keys -> Nat \cup {Never}]
        BY <2>2 DEF Spend, TypeOK
      <3> QED  BY <2>1, <2>2, <3>2, <3>3, <3>4 DEF Spend, TypeOK
    <2>3. CASE Refuse(k)
      <3>1. Wait(LevelIn(Swept, k)) \in Nat
        BY <2>0, <2>3, FullType, WaitType DEF Refuse
      <3>2. buckets' \in [Keys -> Buckets \cup {NoBucket}]
            /\ \A j \in Keys : buckets'[j] # NoBucket => buckets'[j].at <= now
        BY <2>0, <2>3, StoredType DEF Refuse
      <3>3. now + Wait(LevelIn(Swept, k)) * Second \in Nat
        BY <2>0, <3>1, LimitAssumption
      <3>4. promised' \in [Keys -> Nat \cup {Never}]
        BY <2>3, <3>3 DEF Refuse, TypeOK
      <3> QED  BY <2>1, <2>3, <3>1, <3>2, <3>4 DEF Refuse, TypeOK
    <2> QED  BY <1>2, <2>2, <2>3 DEF Take
  <1>3. CASE UNCHANGED vars
    BY <1>3 DEF TypeOK, vars
  <1> QED  BY <1>1, <1>2, <1>3, KeyOfType DEF Next

\* Type correctness: no bucket holds more than the burst or less than nothing,
\* and every wait is a number of seconds.
THEOREM TypeCorrect == Spec => []TypeOK
  BY InitTypeOK, StepTypeOK, PTL DEF Spec

-----------------------------------------------------------------------------
(* What the steps do to Level                                              *)

LEMMA TickFills ==
  ASSUME TypeOK, Tick, NEW k \in Keys
  PROVE  Level(k)' = AtMostFull(Level(k) + Calls)
  <1>0. now \in Nat /\ now' = now + 1 /\ buckets' = buckets /\ Calls \in Nat
    BY LimitAssumption DEF TypeOK, Tick, Times
  <1>1. CASE buckets[k] = NoBucket
    BY <1>0, <1>1, FullType DEF Level, LevelIn, AtMostFull
  <1>2. CASE buckets[k] # NoBucket
    <2>1. buckets[k] \in Buckets /\ buckets[k].at <= now
      BY <1>2 DEF TypeOK
    <2>2. buckets[k].at \in Nat /\ buckets[k].fill \in Nat /\ Refilled(buckets[k]) \in Nat
      BY <1>0, <2>1, FullType, RefilledType DEF Buckets, Times
    <2>3. Level(k)' = AtMostFull(buckets[k].fill + (now + 1 - buckets[k].at) * Calls)
      <3>1. Refilled(buckets[k])' = buckets[k].fill + (now + 1 - buckets[k].at) * Calls
        <4>1. Refilled(buckets[k])' = buckets'[k].fill + (now' - buckets'[k].at) * Calls
          BY DEF Refilled
        <4>2. now' - buckets'[k].at = now + 1 - buckets[k].at
          BY <1>0, <2>2
        <4>3. buckets'[k].fill = buckets[k].fill
          BY <1>0
        <4> QED  BY <4>1, <4>2, <4>3, Zenon
      <3>2. Level(k)' = AtMostFull(Refilled(buckets[k])')
        BY <1>0, <1>2 DEF Level, LevelIn, AtMostFull
      <3> QED  BY <3>1, <3>2
    <2>4. buckets[k].fill + (now + 1 - buckets[k].at) * Calls = Refilled(buckets[k]) + Calls
      BY <1>0, <2>2 DEF Refilled
    <2> QED  BY <1>0, <1>2, <2>2, <2>3, <2>4, FullType DEF Level, LevelIn, AtMostFull
  <1> QED  BY <1>1, <1>2

\* A call changes the level of its own key only, by what it stores.
LEMMA StoredLevel ==
  ASSUME TypeOK, NEW k \in Keys, NEW fill \in 0 .. Full, now' = now,
         buckets' = [Swept EXCEPT ![k] = [fill |-> fill, at |-> now]],
         NEW j \in Keys
  PROVE  Level(j)' = IF j = k THEN fill ELSE Level(j)
  <1>0. Table(Swept) /\ now \in Nat /\ LevelIn(Swept, j) = Level(j)
    BY TypeOKTable, SweepKeepsLevels
  <1>1. CASE j = k
    <2>1. buckets'[k] = [fill |-> fill, at |-> now]
      BY <1>0 DEF Table
    <2>2. [fill |-> fill, at |-> now] \in Buckets
      BY DEF TypeOK, Buckets
    <2>3. buckets'[k] # NoBucket /\ buckets'[k].fill = fill /\ buckets'[k].at = now
      BY <2>1, <2>2, NoBucketAssumption
    <2>4. fill + (now - now) * Calls = fill
      BY <1>0, FullType, LimitAssumption
    <2> QED  BY <1>1, <2>3, <2>4, FullType DEF Level, LevelIn, Refilled, AtMostFull
  <1>2. CASE j # k
    <2>1. buckets'[j] = Swept[j]
      BY <1>0, <1>2 DEF Table
    <2> QED  BY <1>0, <1>2, <2>1 DEF Level, LevelIn, Refilled
  <1> QED  BY <1>1, <1>2

LEMMA SpendTakesOne ==
  ASSUME TypeOK, NEW k \in Keys, Spend(k), NEW j \in Keys
  PROVE  /\ Level(k) >= PerS
         /\ Level(j)' = IF j = k THEN Level(k) - PerS ELSE Level(j)
  <1>1. LevelIn(Swept, k) = Level(k) /\ Level(k) \in 0 .. Full
    BY TypeOKTable, SweepKeepsLevels, LevelType DEF Level
  <1>2. Level(k) >= PerS /\ Level(k) - PerS \in 0 .. Full
    BY <1>1, FullType, LimitAssumption DEF Spend
  <1> QED  BY <1>1, <1>2, StoredLevel DEF Spend

LEMMA RefuseTakesNothing ==
  ASSUME TypeOK, NEW k \in Keys, Refuse(k), NEW j \in Keys
  PROVE  Level(k) < PerS /\ Level(j)' = Level(j)
  <1>1. LevelIn(Swept, k) = Level(k) /\ Level(k) \in 0 .. Full
    BY TypeOKTable, SweepKeepsLevels, LevelType DEF Level
  <1>2. Level(j)' = IF j = k THEN LevelIn(Swept, k) ELSE Level(j)
    BY <1>1, StoredLevel DEF Refuse
  <1> QED  BY <1>1, <1>2 DEF Refuse

-----------------------------------------------------------------------------
(* The bound on a window                                                   *)

\* What was let through since start and what is still in the bucket came from a
\* full bucket and the inflow.
WindowInv ==
  \A k \in Keys :
    /\ start <= now => passed[k] * PerS + Level(k) <= Full + Calls * (now - start)
    /\ now < start => passed[k] = 0

LEMMA InitWindow == Init => WindowInv
  <1> SUFFICES ASSUME Init, NEW k \in Keys
               PROVE  /\ start <= now => passed[k] * PerS + Level(k) <= Full + Calls * (now - start)
                      /\ passed[k] = 0
    BY DEF WindowInv
  <1>1. passed[k] = 0 /\ Level(k) = Full /\ now = 0 /\ start \in Nat
    BY DEF Init, Level, LevelIn, Times
  <1> QED  BY <1>1, FullType, LimitAssumption

LEMMA StepWindow == TypeOK /\ WindowInv /\ [Next]_vars => WindowInv'
  <1> SUFFICES ASSUME TypeOK, WindowInv, [Next]_vars, NEW j \in Keys
               PROVE  (/\ start <= now => passed[j] * PerS + Level(j) <= Full + Calls * (now - start)
                       /\ now < start => passed[j] = 0)'
    BY DEF WindowInv
  <1>0. /\ now \in Nat /\ start \in Nat /\ passed[j] \in Nat
        /\ Level(j) \in 0 .. Full
        /\ PerS \in Nat /\ Calls \in Nat /\ Full \in Nat
    BY TypeOKTable, LevelType, FullType, LimitAssumption DEF TypeOK, Level, Times
  <1>a. /\ start <= now => passed[j] * PerS + Level(j) <= Full + Calls * (now - start)
        /\ now < start => passed[j] = 0
    BY DEF WindowInv
  <1>1. CASE Tick
    <2>1. now' = now + 1 /\ start' = start /\ passed' = passed
      BY <1>1 DEF Tick
    <2>2. Level(j)' \in Nat /\ Level(j)' <= Full /\ Level(j)' <= Level(j) + Calls
      BY <1>0, <1>1, TickFills DEF AtMostFull
    <2>3. CASE start <= now
      <3>1. Calls * (now + 1 - start) = Calls * (now - start) + Calls
        BY <1>0
      <3> QED  BY <1>0, <1>a, <2>1, <2>2, <2>3, <3>1
    <2>4. CASE now < start
      <3>1. passed[j] * PerS = 0 /\ (start <= now + 1 => Calls * (now + 1 - start) = 0)
        BY <1>0, <1>a, <2>4
      <3>2. Full + 0 = Full /\ 0 + Level(j)' = Level(j)'
        BY <1>0, <2>2
      <3>3. start <= now + 1 =>
              passed[j] * PerS + Level(j)' <= Full + Calls * (now + 1 - start)
        BY <2>2, <3>1, <3>2
      <3>4. now + 1 < start => passed[j] = 0
        BY <1>0, <1>a, <2>4
      <3> QED  BY <1>0, <2>1, <3>3, <3>4
    <2> QED  BY <1>0, <2>3, <2>4
  <1>2. ASSUME NEW k \in Keys, Spend(k)
        PROVE  (/\ start <= now => passed[j] * PerS + Level(j) <= Full + Calls * (now - start)
                /\ now < start => passed[j] = 0)'
    <2>1. now' = now /\ start' = start
      BY <1>2 DEF Spend
    <2>2. Level(j)' = IF j = k THEN Level(j) - PerS ELSE Level(j)
      BY <1>2, SpendTakesOne
    <2>3. passed'[j] = IF now >= start /\ j = k THEN passed[j] + 1 ELSE passed[j]
      BY <1>0, <1>2 DEF Spend, TypeOK
    <2>4. (passed[j] + 1) * PerS = passed[j] * PerS + PerS
      BY <1>0
    <2>5. CASE start <= now /\ j = k
      BY <1>0, <1>a, <2>1, <2>2, <2>3, <2>4, <2>5
    <2>6. CASE start <= now /\ j # k
      BY <1>0, <1>a, <2>1, <2>2, <2>3, <2>6
    <2>7. CASE now < start
      BY <1>0, <1>a, <2>1, <2>2, <2>3, <2>7
    <2> QED  BY <1>0, <2>5, <2>6, <2>7
  <1>3. ASSUME NEW k \in Keys, Refuse(k)
        PROVE  (/\ start <= now => passed[j] * PerS + Level(j) <= Full + Calls * (now - start)
                /\ now < start => passed[j] = 0)'
    <2>1. now' = now /\ start' = start /\ passed' = passed
      BY <1>3 DEF Refuse
    <2>2. Level(j)' = Level(j)
      BY <1>3, RefuseTakesNothing
    <2> QED  BY <1>a, <2>1, <2>2
  <1>4. CASE UNCHANGED vars
    BY <1>4, <1>a DEF vars, Level, LevelIn, Refilled
  <1> QED  BY <1>1, <1>2, <1>3, <1>4, KeyOfType DEF Next, Take

\* In no stretch of time, wherever it begins, does a caller get through more
\* calls than a full bucket and the rate allow (RateLimiter.take).
THEOREM WindowBound == Spec => []WindowIsBounded
  <1>1. TypeOK /\ WindowInv => WindowIsBounded
    <2> SUFFICES ASSUME TypeOK, WindowInv, start <= now, NEW k \in Keys
                 PROVE  passed[k] * PerS <= Full + Calls * (now - start)
      BY DEF WindowIsBounded
    <2>1. passed[k] \in Nat /\ now \in Nat /\ start \in Nat /\ Level(k) \in Nat
      BY TypeOKTable, LevelType, FullType DEF TypeOK, Level, Times
    <2>2. passed[k] * PerS + Level(k) <= Full + Calls * (now - start)
      BY DEF WindowInv
    <2>3. passed[k] * PerS \in Nat /\ Calls * (now - start) \in Nat /\ Full \in Nat
      BY <2>1, LimitAssumption, FullType
    <2> QED  BY <2>1, <2>2, <2>3
  <1> QED  BY <1>1, InitWindow, StepWindow, TypeCorrect, PTL DEF Spec

-----------------------------------------------------------------------------
(* The wait that is told is enough, but for the rounding                   *)

\* The parts that flow in during a grain.
Slack == (Calls * Second) \div Grain

LEMMA SlackType ==
  /\ Slack \in Nat
  /\ \A x \in Nat : x * Grain <= Calls * Second <=> x <= Slack
  <1> DEFINE y == Calls * Second
             q == y \div Grain
             r == y % Grain
  <1>1. y \in Nat /\ Grain \in Nat \ {0}
    BY LimitAssumption
  <1> HIDE DEF y
  <1>2. q \in Nat /\ r \in 0 .. (Grain - 1) /\ y = q * Grain + r
    BY <1>1
  <1> HIDE DEF q, r
  <1>3. ASSUME NEW x \in Nat PROVE x * Grain <= y <=> x <= q
    <2>1. CASE x <= q
      <3>1. PICK d \in Nat : q = x + d
        <4>1. q - x \in Nat /\ q = x + (q - x)
          BY <1>2, <2>1
        <4> QED  BY <4>1
      <3>2. q * Grain = x * Grain + d * Grain /\ d * Grain \in Nat /\ x * Grain \in Nat
        BY <1>1, <3>1
      <3> QED  BY <1>1, <1>2, <2>1, <3>2
    <2>2. CASE x > q
      <3>1. PICK d \in Nat : x = q + 1 + d
        <4>1. x - q - 1 \in Nat /\ x = q + 1 + (x - q - 1)
          BY <1>2, <2>2
        <4> QED  BY <4>1
      <3>2. x * Grain = q * Grain + Grain + d * Grain /\ d * Grain \in Nat /\ q * Grain \in Nat
        BY <1>1, <1>2, <3>1
      <3> QED  BY <1>1, <1>2, <2>2, <3>2
    <2> QED  BY <1>2, <2>1, <2>2
  <1>4. Slack = q
    BY DEF Slack, q, y
  <1> QED  BY <1>2, <1>3, <1>4 DEF y

\* What a bucket still lacks has flowed in when the promised time comes, but for
\* a grain's inflow.
PromiseInv ==
  \A k \in Keys : promised[k] # Never =>
    IF now < promised[k]
    THEN Level(k) + Calls * (promised[k] - now) + Slack >= PerS
    ELSE Level(k) + Slack >= PerS

\* A wait brings what is missing, but for a grain's inflow.
LEMMA WaitCovers ==
  ASSUME NEW level \in Nat, level < PerS
  PROVE  level + Wait(level) * (Calls * Second) + Slack >= PerS
  <1> DEFINE m == PerS - level
             y == Calls * Second
             x == m * Grain
             g == Rounded(x, y)
             u == RoundedUp(g, Grain)
             w == Wait(level)
  <1>1. m \in Nat /\ y \in Nat \ {0} /\ Grain \in Nat \ {0} /\ level + m = PerS
    BY LimitAssumption
  <1>2. w = AtLeastOne(u)
    BY DEF Wait
  <1> HIDE DEF m, y, w
  <1>3. x \in Nat
    BY <1>1
  <1>4. g \in Nat /\ 2 * (g * y) + y >= 2 * x
    BY <1>1, <1>3, RoundedBounds
  <1>5. u \in Nat /\ u * Grain >= g
    BY <1>1, <1>3, <1>4, RoundedUpBounds
  <1> HIDE DEF g, u
  <1>6. w \in Nat /\ w >= u
    BY <1>2, <1>5 DEF AtLeastOne
  <1>7. (w * y) * Grain >= g * y
    <2>1. w * Grain >= u * Grain
      BY <1>1, <1>5, <1>6
    <2>2. w * Grain >= g /\ w * Grain \in Nat
      BY <1>1, <1>4, <1>5, <1>6, <2>1
    <2>3. (w * Grain) * y >= g * y
      BY <1>1, <1>4, <2>2
    <2>4. (w * Grain) * y = (w * y) * Grain
      BY <1>1, <1>6
    <2> QED  BY <2>3, <2>4
  <1>8. w * y \in Nat
    BY <1>1, <1>6
  <1> DEFINE v == w * y
  <1> HIDE DEF v
  <1>9. v \in Nat /\ v * Grain >= g * y
    BY <1>7, <1>8 DEF v
  <1>10. m <= v + Slack
    <2>1. CASE m <= v
      BY <1>1, <1>9, <2>1, SlackType
    <2>2. CASE m > v
      <3>1. PICK d \in Nat : m = v + d
        <4>1. m - v \in Nat /\ m = v + (m - v)
          BY <1>1, <1>9, <2>2
        <4> QED  BY <4>1
      <3>2. x = v * Grain + d * Grain /\ d * Grain \in Nat
        BY <1>1, <1>9, <3>1
      <3>3. d * Grain <= y
        <4>1. g * y \in Nat /\ v * Grain \in Nat
          BY <1>1, <1>4, <1>9
        <4> HIDE DEF x
        <4> QED  BY <1>1, <1>3, <1>4, <1>9, <3>2, <4>1
      <3>4. d <= Slack
        BY <3>1, <3>3, SlackType DEF y
      <3> QED  BY <1>9, <3>1, <3>4, SlackType
    <2> QED  BY <1>1, <1>9, <2>1, <2>2
  <1> QED  BY <1>1, <1>9, <1>10, SlackType DEF v, w, y

\* What flows in never falls short of what was promised.
LEMMA StepPromise == TypeOK /\ PromiseInv /\ [Next]_vars => PromiseInv'
  <1> SUFFICES ASSUME TypeOK, PromiseInv, [Next]_vars, NEW j \in Keys, promised'[j] # Never
               PROVE  IF now' < promised'[j]
                      THEN Level(j)' + Calls * (promised'[j] - now') + Slack >= PerS
                      ELSE Level(j)' + Slack >= PerS
    BY DEF PromiseInv
  <1>0. /\ now \in Nat /\ Level(j) \in 0 .. Full /\ promised[j] \in Nat \cup {Never}
        /\ PerS \in Nat /\ Calls \in Nat \ {0} /\ Full \in Nat /\ PerS <= Full
        /\ Second \in Nat \ {0} /\ Slack \in Nat
    BY TypeOKTable, LevelType, FullType, SlackType, LimitAssumption DEF TypeOK, Level, Times
  <1>a. promised[j] # Never =>
          /\ now < promised[j] => Level(j) + Calls * (promised[j] - now) + Slack >= PerS
          /\ ~(now < promised[j]) => Level(j) + Slack >= PerS
    BY DEF PromiseInv
  <1>1. CASE Tick
    <2> DEFINE p == promised[j]
    <2>1. now' = now + 1 /\ promised' = promised
      BY <1>1 DEF Tick
    <2>2. Level(j)' = AtMostFull(Level(j) + Calls)
      BY <1>1, TickFills
    <2>3. p \in Nat
      BY <1>0, <2>1
    <2>4. CASE now < p
      <3>1. Calls * (p - now) = Calls * (p - (now + 1)) + Calls
        BY <1>0, <2>3
      <3>2. Calls * (p - (now + 1)) \in Nat
        BY <1>0, <2>3, <2>4
      <3>3. p = now + 1 => Calls * (p - (now + 1)) = 0
        BY <1>0
      <3>4. Level(j) + Calls * (p - (now + 1)) + Calls + Slack >= PerS
        BY <1>0, <1>a, <2>1, <2>4, <3>1, <3>2
      <3> DEFINE rest == Calls * (p - (now + 1))
      <3> HIDE DEF rest
      <3>5. Level(j)' + rest + Slack >= PerS
        BY <1>0, <2>2, <3>2, <3>4 DEF AtMostFull, rest
      <3>6. Level(j)' \in Nat
        BY <1>0, <2>2 DEF AtMostFull
      <3>7. CASE now + 1 < p
        <4>1. now' < promised'[j] /\ promised'[j] - now' = p - (now + 1)
          BY <2>1, <3>7
        <4>2. Calls * (promised'[j] - now') = rest
          BY <4>1 DEF rest
        <4> QED  BY <3>5, <4>1, <4>2
      <3>8. CASE ~(now + 1 < p)
        <4>1. rest = 0
          BY <1>0, <2>3, <2>4, <3>3, <3>8 DEF rest
        <4> QED  BY <2>1, <3>5, <3>6, <3>8, <4>1
      <3> QED  BY <3>7, <3>8
    <2>5. CASE ~(now < p)
      <3>1. Level(j) + Slack >= PerS /\ ~(now + 1 < p)
        BY <1>0, <1>a, <2>1, <2>3, <2>5
      <3> QED  BY <1>0, <2>1, <2>2, <3>1 DEF AtMostFull
    <2> QED  BY <2>4, <2>5
  <1>2. ASSUME NEW k \in Keys, Spend(k)
        PROVE  IF now' < promised'[j]
               THEN Level(j)' + Calls * (promised'[j] - now') + Slack >= PerS
               ELSE Level(j)' + Slack >= PerS
    <2>1. now' = now /\ promised' = [promised EXCEPT ![k] = Never]
      BY <1>2 DEF Spend
    <2>2. j # k /\ promised'[j] = promised[j]
      BY <2>1 DEF TypeOK
    <2>3. Level(j)' = Level(j)
      BY <1>2, <2>2, SpendTakesOne
    <2> QED  BY <1>a, <2>1, <2>2, <2>3
  <1>3. ASSUME NEW k \in Keys, Refuse(k)
        PROVE  IF now' < promised'[j]
               THEN Level(j)' + Calls * (promised'[j] - now') + Slack >= PerS
               ELSE Level(j)' + Slack >= PerS
    <2> DEFINE w == Wait(LevelIn(Swept, k))
    <2>1. /\ now' = now
          /\ promised' = [promised EXCEPT ![k] = IF @ = Never THEN now + w * Second ELSE @]
      BY <1>3 DEF Refuse
    <2>2. Level(j)' = Level(j)
      BY <1>3, RefuseTakesNothing
    <2>3. CASE j # k \/ promised[j] # Never
      <3>1. promised'[j] = promised[j]
        BY <2>1, <2>3 DEF TypeOK
      <3> QED  BY <1>a, <2>1, <2>2, <3>1
    <2>4. CASE j = k /\ promised[j] = Never
      <3>1. LevelIn(Swept, k) = Level(j) /\ Level(j) < PerS
        BY <1>3, <2>4, TypeOKTable, SweepKeepsLevels, RefuseTakesNothing
      <3>3. Level(j) \in Nat /\ w = Wait(Level(j))
        BY <1>0, <3>1
      <3>4. w \in Nat \ {0} /\ Level(j) + w * (Calls * Second) + Slack >= PerS
        BY <3>1, <3>3, WaitType, WaitCovers
      <3> HIDE DEF w
      <3>5. w * (Calls * Second) = Calls * (w * Second)
        BY <1>0, <3>4
      <3>6. w * Second \in Nat /\ w * Second > 0
        BY <1>0, <3>4
      <3>7. promised'[j] = now + w * Second
        BY <2>1, <2>4 DEF TypeOK
      <3> DEFINE d == w * Second
      <3> HIDE DEF d
      <3>8. d \in Nat /\ d > 0
        BY <3>6 DEF d
      <3>9. Level(j) + Calls * d + Slack >= PerS
        BY <3>4, <3>5 DEF d
      <3>10. promised'[j] = now + d
        BY <3>7 DEF d
      <3>11. now' < promised'[j] /\ promised'[j] - now' = d
        BY <1>0, <2>1, <3>8, <3>10
      <3>12. Level(j)' + Calls * (promised'[j] - now') + Slack >= PerS
        BY <2>2, <3>9, <3>11, Zenon
      <3> QED  BY <3>11, <3>12
    <2> QED  BY <2>3, <2>4
  <1>4. CASE UNCHANGED vars
    BY <1>4, <1>a DEF vars, Level, LevelIn, Refilled
  <1> QED  BY <1>1, <1>2, <1>3, <1>4, KeyOfType DEF Next, Take

\* A caller that was refused and comes back no earlier than it was told to is
\* refused again only if less than a grain of refill is missing, and then told to
\* wait a second, for every rate, burst and grain, whatever sweeps and other calls
\* come between (__call__, retry_after_s).
THEOREM WaitNearlyEnough == Spec => WaitIsNearlyEnough
  <1>1. Init => PromiseInv
    BY DEF Init, PromiseInv
  <1>2. TypeOK /\ PromiseInv /\ [Next]_vars =>
          [\A k \in Keys : promised[k] # Never /\ now >= promised[k] /\ Refuse(k) =>
             (PerS - Level(k)) * Grain <= Calls * Second /\ answer'.wait = 1]_vars
    <2> SUFFICES ASSUME TypeOK, PromiseInv, NEW k \in Keys, promised[k] # Never,
                        now >= promised[k], Refuse(k)
                 PROVE  (PerS - Level(k)) * Grain <= Calls * Second /\ answer'.wait = 1
      OBVIOUS
    <2>1. /\ now \in Nat /\ promised[k] \in Nat /\ PerS \in Nat /\ Full \in Nat
          /\ Level(k) \in 0 .. Full /\ Slack \in Nat
      BY TypeOKTable, LevelType, FullType, SlackType, LimitAssumption DEF TypeOK, Level
    <2>2. Level(k) + Slack >= PerS
      BY <2>1 DEF PromiseInv
    <2>3. Level(k) < PerS /\ LevelIn(Swept, k) = Level(k)
      BY RefuseTakesNothing, TypeOKTable, SweepKeepsLevels
    <2>4. PerS - Level(k) \in Nat /\ PerS - Level(k) <= Slack
      BY <2>1, <2>2, <2>3
    <2>5. (PerS - Level(k)) * Grain <= Calls * Second
      BY <2>4, SlackType
    <2>6. answer'.wait = Wait(Level(k))
      BY <2>3 DEF Refuse
    <2>7. Wait(Level(k)) = 1
      BY <2>1, <2>3, <2>5, WaitType
    <2> QED  BY <2>5, <2>6, <2>7
  <1> QED  BY <1>1, <1>2, StepPromise, TypeCorrect, PTL DEF Spec, WaitIsNearlyEnough

-----------------------------------------------------------------------------
(* The limiter implements a bucket per caller                              *)

LEMMA InitRefines == Init => TheBucket!Init
  <1> SUFFICES ASSUME Init PROVE TheBucket!Init
    OBVIOUS
  <1>1. \A k \in Keys : Level(k) = Full
    BY DEF Init, Level, LevelIn
  <1>2. [k \in Keys |-> Level(k)] = [k \in Keys |-> TheBucket!Full]
    BY <1>1 DEF Full, TheBucket!Full
  <1>3. PICK k \in Keys : answer = [key |-> k, wait |-> 0]
    BY DEF Init
  <1>4. [key |-> answer.key, allowed |-> answer.wait = 0] = [key |-> k, allowed |-> TRUE]
    BY <1>3
  <1> QED  BY <1>2, <1>4 DEF TheBucket!Init

LEMMA StepRefines == TypeOK /\ [Next]_vars => [TheBucket!Next]_(TheBucket!vars)
  <1> DEFINE levels == [k \in Keys |-> Level(k)]
             allowed == answer.wait = 0
             told == [key |-> answer.key, allowed |-> allowed]
  <1> SUFFICES ASSUME TypeOK, [Next]_vars PROVE [TheBucket!Next]_(TheBucket!vars)
    OBVIOUS
  <1>0. ASSUME NEW k \in Keys PROVE Level(k) \in 0 .. Full
    BY TypeOKTable, LevelType DEF Level
  <1>1. CASE Tick
    <2>1. levels' = [k \in Keys |-> TheBucket!AtMostFull(levels[k] + Calls)]
      BY <1>1, TickFills DEF AtMostFull, Full, TheBucket!AtMostFull, TheBucket!Full
    <2>2. told' = told
      BY <1>1 DEF Tick
    <2> QED  BY <2>1, <2>2 DEF TheBucket!Next, TheBucket!Tick
  <1>2. ASSUME NEW k \in Keys, Spend(k) PROVE TheBucket!Allow(k)
    <2>1. levels[k] >= PerS
      BY <1>2, SpendTakesOne
    <2>2. \A j \in Keys : Level(j)' = IF j = k THEN Level(k) - PerS ELSE Level(j)
      BY <1>2, SpendTakesOne
    <2>3. levels' = [levels EXCEPT ![k] = @ - PerS]
      BY <2>2
    <2>4. answer' = [key |-> k, wait |-> 0]
      BY <1>2 DEF Spend
    <2>5. told' = [key |-> k, allowed |-> TRUE]
      BY <2>4
    <2> QED  BY <2>1, <2>3, <2>5 DEF TheBucket!Allow
  <1>3. ASSUME NEW k \in Keys, Refuse(k) PROVE TheBucket!Refuse(k)
    <2>1. levels[k] < PerS
      BY <1>3, RefuseTakesNothing
    <2>2. levels' = levels
      BY <1>3, RefuseTakesNothing
    <2>3. LevelIn(Swept, k) \in Nat /\ LevelIn(Swept, k) < PerS
      BY <1>0, <1>3, TypeOKTable, SweepKeepsLevels, FullType DEF Refuse
    <2>4. answer'.key = k /\ answer'.wait # 0
      BY <1>3, <2>3, WaitType DEF Refuse
    <2>5. told' = [key |-> k, allowed |-> FALSE]
      BY <2>4
    <2> QED  BY <2>1, <2>2, <2>5 DEF TheBucket!Refuse
  <1>4. CASE UNCHANGED vars
    BY <1>4 DEF vars, TheBucket!vars, Level, LevelIn, Refilled
  <1> QED  BY <1>1, <1>2, <1>3, <1>4, KeyOfType DEF Next, Take, TheBucket!Next

\* Buckets that are dropped when full and refilled when looked at are, for every
\* caller and at every call, a bucket that is always there (take, _sweep).
THEOREM Refinement == Spec => ImplementsTokenBucket
  BY InitRefines, StepRefines, TypeCorrect, PTL DEF Spec, ImplementsTokenBucket, TheBucket!Spec

=============================================================================
