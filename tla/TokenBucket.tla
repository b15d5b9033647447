----------------------------- MODULE TokenBucket -----------------------------
(***************************************************************************)
(* What a rate limit promises (docs/DEPLOYMENT.md, "rate_limit"; the       *)
(* docstring of gates.RateLimiter): every key has a bucket of its own that *)
(* starts full, fills at a constant rate and pays one token per call.      *)
(* Nothing here is swept, stored or computed on demand.                    *)
(*                                                                         *)
(* Fill is counted in parts of a token: PerS of them are a token, and a    *)
(* tick of the clock adds Calls of them.                                   *)
(***************************************************************************)
EXTENDS Naturals

CONSTANTS
  Keys,   \* the callers told apart
  Calls,  \* calls per PerS ticks
  PerS,
  Burst   \* tokens in a full bucket

Full == Burst * PerS
AtMostFull(fill) == IF fill < Full THEN fill ELSE Full

VARIABLES
  level,  \* level[k]: the fill of the bucket of k
  answer  \* the last call: its key, and whether it was let through

vars == <<level, answer>>

Init ==
  /\ level = [k \in Keys |-> Full]
  /\ \E k \in Keys : answer = [key |-> k, allowed |-> TRUE]

Tick ==
  /\ level' = [k \in Keys |-> AtMostFull(level[k] + Calls)]
  /\ UNCHANGED answer

Allow(k) ==
  /\ level[k] >= PerS
  /\ level' = [level EXCEPT ![k] = @ - PerS]
  /\ answer' = [key |-> k, allowed |-> TRUE]

Refuse(k) ==
  /\ level[k] < PerS
  /\ answer' = [key |-> k, allowed |-> FALSE]
  /\ UNCHANGED level

Next == Tick \/ \E k \in Keys : Allow(k) \/ Refuse(k)

Spec == Init /\ [][Next]_vars

=============================================================================
