----------------------------- MODULE RateLimiter -----------------------------
(***************************************************************************)
(* The rate limiter of one surface, gates.RateLimiter: a bucket per caller *)
(* that is stored only from a caller's first call until a sweep finds it   *)
(* full again, and refilled only when it is looked at.                     *)
(*                                                                         *)
(* Time is counted in ticks, Second of them in a second; per_s is PerS     *)
(* ticks.  Tokens are counted in parts, PerS of them a token, so that the  *)
(* rate, calls / per_s tokens per tick, is the integer Calls.  The wait is *)
(* rounded as the code rounds it, to the nearest grain, Grain of them in a *)
(* second (10^6 by round(wait, 6)), and then up to a second.  The floats'  *)
(* own error is not modelled, some 10^-16 of a token at every call: what a *)
(* property grants the rounding is twice what it needs, to hold for both.  *)
(* take() has no await, so a call is one step.                             *)
(***************************************************************************)
EXTENDS Naturals

CONSTANTS
  Subjects,  \* subs of verified callers
  Shared,    \* SHARED_KEY
  NoBucket,  \* a key that is not in _buckets
  Never,     \* _swept before the first sweep
  Calls, PerS, Burst,
  Second,
  Grain,     \* what a wait is rounded to, as a part of a second
  MaxNow     \* bound: ticks

ASSUME LimitAssumption ==
  /\ Calls \in Nat \ {0} /\ PerS \in Nat \ {0} /\ Burst \in Nat \ {0}
  /\ Second \in Nat \ {0} /\ Grain \in Nat \ {0} /\ MaxNow \in Nat
ASSUME KeyAssumption == Shared \notin Subjects

Keys == Subjects \cup {Shared}
Times == 0 .. MaxNow
Full == Burst * PerS
AtMostFull(fill) == IF fill < Full THEN fill ELSE Full

VARIABLES
  now,
  buckets,  \* _buckets: what is left, and when that was
  swept,    \* _swept
  answer,   \* the last call: its key and the wait it was told, in seconds
  start,    \* history: the beginning of a window, any time
  passed,   \* history: passed[k], the calls of k let through since start
  promised  \* history: promised[k], the time at which k was told it may call

vars == <<now, buckets, swept, answer, start, passed, promised>>

Buckets == [fill : 0 .. Full, at : Times]
ASSUME NoBucketAssumption == NoBucket \notin Buckets
ASSUME NeverAssumption == Never \notin Nat

TypeOK ==
  /\ now \in Times
  /\ buckets \in [Keys -> Buckets \cup {NoBucket}]
  /\ \A k \in Keys : buckets[k] # NoBucket => buckets[k].at <= now
  /\ swept \in Times \cup {Never}
  /\ answer \in [key : Keys, wait : Nat]
  /\ start \in Times
  /\ passed \in [Keys -> Nat]
  /\ promised \in [Keys -> Nat \cup {Never}]

Init ==
  /\ now = 0
  /\ buckets = [k \in Keys |-> NoBucket]
  /\ swept = Never
  /\ \E k \in Keys : answer = [key |-> k, wait |-> 0]
  /\ start \in Times
  /\ passed = [k \in Keys |-> 0]
  /\ promised = [k \in Keys |-> Never]

Tick ==
  /\ now < MaxNow
  /\ now' = now + 1
  /\ UNCHANGED <<buckets, swept, answer, start, passed, promised>>

-----------------------------------------------------------------------------
(* take()                                                                  *)

Refilled(b) == b.fill + (now - b.at) * Calls

\* Mutant: the refill is not capped at the burst.
LevelInUncapped(table, k) == IF table[k] = NoBucket THEN Full ELSE Refilled(table[k])

\* What k may spend now.
LevelIn(table, k) == IF table[k] = NoBucket THEN Full ELSE AtMostFull(Refilled(table[k]))
Level(k) == LevelIn(buckets, k)

\* Mutant: the sweep drops every bucket that has a token.
IsFullEnough(b) == b # NoBucket /\ Refilled(b) >= PerS

IsFull(b) == b # NoBucket /\ Refilled(b) >= Full

SweepIsDue == swept = Never \/ now - swept >= PerS

\* _sweep: the buckets that have refilled completely are dropped.
Swept ==
  IF SweepIsDue THEN [k \in Keys |-> IF IsFull(buckets[k]) THEN NoBucket ELSE buckets[k]]
  ELSE buckets

\* Mutant: the wait is rounded down.
WaitRoundedDown(level) == (PerS - level) \div (Calls * Second)

RoundedUp(x, y) == (x + y - 1) \div y
AtLeastOne(x) == IF x < 1 THEN 1 ELSE x

\* round() of x / y: the nearest integer, and of two the even one.
Rounded(x, y) ==
  LET q == x \div y
      r == x % y
  IN IF 2 * r < y \/ (2 * r = y /\ q % 2 = 0) THEN q ELSE q + 1

\* The seconds the caller is told to wait: what is missing, to the nearest grain,
\* then up to a second, and one at least.
Wait(level) ==
  AtLeastOne(RoundedUp(Rounded((PerS - level) * Grain, Calls * Second), Grain))

Spend(k) ==
  /\ LevelIn(Swept, k) >= PerS
  /\ buckets' = [Swept EXCEPT ![k] = [fill |-> LevelIn(Swept, k) - PerS, at |-> now]]
  /\ swept' = IF SweepIsDue THEN now ELSE swept
  /\ answer' = [key |-> k, wait |-> 0]
  /\ passed' = IF now < start THEN passed ELSE [passed EXCEPT ![k] = @ + 1]
  /\ promised' = [promised EXCEPT ![k] = Never]
  /\ UNCHANGED <<now, start>>

Refuse(k) ==
  /\ LevelIn(Swept, k) < PerS
  /\ buckets' = [Swept EXCEPT ![k] = [fill |-> LevelIn(Swept, k), at |-> now]]
  /\ swept' = IF SweepIsDue THEN now ELSE swept
  /\ answer' = [key |-> k, wait |-> Wait(LevelIn(Swept, k))]
  /\ promised' = [promised EXCEPT ![k] =
                    IF @ = Never THEN now + Wait(LevelIn(Swept, k)) * Second ELSE @]
  /\ UNCHANGED <<now, start, passed>>

Take(k) == Spend(k) \/ Refuse(k)

\* The callers a surface may have.
Callers == [auth : {"oidc"}, sub : Subjects] \cup [auth : {"shared", "anonymous"}, sub : {Shared}]

\* Every caller that is not a verified user shares one bucket.
KeyOf(caller) == IF caller.auth = "oidc" THEN caller.sub ELSE Shared

Next == Tick \/ \E caller \in Callers : Take(KeyOf(caller))

Spec == Init /\ [][Next]_vars

-----------------------------------------------------------------------------
(* Properties                                                              *)

\* Over every stretch of time, a caller gets through no more calls than a full
\* bucket and what flows in meanwhile (take, _sweep).
WindowIsBounded ==
  start <= now => \A k \in Keys : passed[k] * PerS <= Full + Calls * (now - start)

\* A refused caller that waits as long as it was told gets through, whatever the
\* other callers and its own impatience do meanwhile, but for what the rounding of
\* the wait takes: it is refused again only if less than a grain of refill is
\* missing, and then told the least wait there is (__call__: retry_after_s).
WaitIsNearlyEnough ==
  [][\A k \in Keys : promised[k] # Never /\ now >= promised[k] /\ Refuse(k) =>
       (PerS - Level(k)) * Grain <= Calls * Second /\ answer'.wait = 1]_vars

\* What is dropped by a sweep and computed on demand behaves like a bucket per
\* caller that is always there and fills all the time.
TheBucket == INSTANCE TokenBucket WITH
  level <- [k \in Keys |-> Level(k)],
  answer <- [key |-> answer.key, allowed |-> answer.wait = 0]

ImplementsTokenBucket == TheBucket!Spec

=============================================================================
