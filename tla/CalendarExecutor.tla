-------------------------- MODULE CalendarExecutor --------------------------
(***************************************************************************)
(* The executor of a calendar surface: providers cached per caller, least  *)
(* recently used first, retired when evicted and closed once no call uses  *)
(* them (plugins/calendar/executor.py), and the refresh of the access      *)
(* token that each provider holds (plugins/calendar/oauth.py).             *)
(*                                                                         *)
(* A step runs from one await to the next.  The verbs are abstracted to    *)
(* one request that is answered or fails; arguments that are refused       *)
(* before a provider is acquired change nothing and are left out.          *)
(* The retired providers, and those that a call or aclose() has to close,  *)
(* are sets: they are closed one after the other, in any order.            *)
(***************************************************************************)
EXTENDS Naturals, Sequences, SequencesExt, FiniteSets

CONSTANTS
  Users,       \* cache keys of the identities that call
  Calls,       \* run()s at the same time
  Deployment,  \* the provider of the deployment credential, _provider
  Built,       \* bound: providers that the factory may build
  CacheSize,   \* _cache_size
  Rotates,     \* does the identity provider rotate refresh tokens?
  MaxRefresh,  \* bound: rotations of one grant
  MaxLost      \* bound: cancellations, failing closes, lost or unreadable answers

ASSUME CacheAssumption == CacheSize \in Nat /\ MaxRefresh \in Nat /\ MaxLost \in Nat
ASSUME CallsAssumption == IsFiniteSet(Calls)
ASSUME ProviderAssumption == Deployment \notin Built /\ Deployment \notin Users
ASSUME RotatesAssumption == Rotates \in BOOLEAN

Providers == Built \cup {Deployment}
Grants == Users \cup {Deployment}  \* a refresh token that was granted once

VARIABLES
  life,      \* life[p]: free, open, half (its own client closed), closed
  grant,     \* grant[p]: whose refresh token p was built with
  rt,        \* _refresh_token: which rotation of it p holds
  access,    \* _access_token: none, valid or expired
  cache,     \* _providers, the least recently used first
  retired,   \* _retired
  inflight,  \* _inflight
  call,      \* the calls
  shut,      \* aclose(): whether it runs, and what it has still to close
  current,   \* the identity provider: the rotation of a grant it accepts
  dropped,   \* history: providers whose close was abandoned
  unheard,   \* history: grants with a rotation whose answer nobody could take
  lost       \* count, for the bound

pools == <<cache, retired, inflight>>
oauth == <<rt, access, current, unheard>>
vars == <<life, grant, pools, call, shut, oauth, dropped, lost>>

Out == [at |-> "out", p |-> Deployment, sent |-> 0, todo |-> {}]
Waiting == {"refreshing", "granted", "refused", "asking"}
NotShut == [at |-> "no", todo |-> {}]

TypeOK ==
  /\ life \in [Providers -> {"free", "open", "half", "closed"}]
  /\ grant \in [Providers -> Grants]
  /\ rt \in [Providers -> 0 .. MaxRefresh]
  /\ access \in [Providers -> {"none", "valid", "expired"}]
  /\ cache \in Seq(Built) /\ retired \subseteq Built
  /\ inflight \in [Providers -> 0 .. Cardinality(Calls)]
  /\ call \in [Calls -> [at : {"out", "sweeping", "leaving"} \cup Waiting,
                         p : Providers, sent : 0 .. MaxRefresh, todo : SUBSET Built]]
  /\ shut \in [at : {"no", "closing", "done"}, todo : SUBSET Providers]
  /\ current \in [Grants -> 0 .. MaxRefresh]
  /\ dropped \subseteq Providers /\ unheard \subseteq Grants
  /\ lost \in 0 .. MaxLost

Init ==
  /\ life = [p \in Providers |-> IF p = Deployment THEN "open" ELSE "free"]
  /\ grant = [p \in Providers |-> Deployment]
  /\ rt = [p \in Providers |-> 0]
  /\ access = [p \in Providers |-> "none"]
  /\ cache = <<>> /\ retired = {}
  /\ inflight = [p \in Providers |-> 0]
  /\ call = [c \in Calls |-> Out]
  /\ shut = NotShut
  /\ current = [g \in Grants |-> 0]
  /\ dropped = {} /\ unheard = {} /\ lost = 0

-----------------------------------------------------------------------------
(* Taking and giving back a provider                                       *)

\* Mutant: every retired provider is closed, also one that a call uses.
AllRetired(gone, count) == gone

\* Mutant: the list is not detached before it is worked through.
StillListed(gone, count) == gone

\* _close_idle_retired() detaches the idle ones before it awaits.
Idle(gone, count) == {p \in gone : count[p] = 0}
Busy(gone, count) == {p \in gone : count[p] # 0}

\* access_token(): the request goes out, or first the refresh.
Begins(c, p, tokens) ==
  [at |-> IF access[p] = "valid" THEN "asking" ELSE "refreshing",
   p |-> p, sent |-> tokens[p], todo |-> {}]

\* _acquire() and the start of run(), with lru the cache that holds p last.
Enter(c, p, lru) ==
  LET full == Len(lru) > CacheSize
      gone == IF full THEN retired \cup {Head(lru)} ELSE retired
      count == [inflight EXCEPT ![p] = @ + 1]
      idle == Idle(gone, count)
  IN /\ cache' = IF full THEN Tail(lru) ELSE lru
     /\ inflight' = count
     /\ retired' = Busy(gone, count)
     /\ call' = [call EXCEPT ![c] =
                   IF idle = {} THEN Begins(c, p, rt)
                   ELSE [Begins(c, p, rt) EXCEPT !.at = "sweeping", !.todo = idle]]

\* Where the cache has the provider of u.
Cached(u) == {i \in DOMAIN cache : grant[cache[i]] = u}

\* _provider_for(): a call without an identity of its own.
RunShared(c) ==
  /\ call[c] = Out /\ shut = NotShut
  /\ Enter(c, Deployment, cache)
  /\ UNCHANGED <<life, grant, shut, oauth, dropped, lost>>

\* A hit: move_to_end().
RunCached(c, u) ==
  /\ call[c] = Out /\ shut = NotShut
  /\ \E i \in Cached(u) : Enter(c, cache[i], Append(RemoveAt(cache, i), cache[i]))
  /\ UNCHANGED <<life, grant, shut, oauth, dropped, lost>>

\* A miss: a provider is built with the refresh token of the identity.
RunBuilt(c, u) ==
  /\ call[c] = Out /\ shut = NotShut
  /\ Cached(u) = {}
  /\ \E p \in {q \in Built : life[q] = "free"} :
       /\ life' = [life EXCEPT ![p] = "open"]
       /\ grant' = [grant EXCEPT ![p] = u]
       /\ Enter(c, p, Append(cache, p))
  /\ UNCHANGED <<shut, oauth, dropped, lost>>

\* The finally of run(): _release() and what is idle by it.
Leave(c) ==
  LET count == [inflight EXCEPT ![call[c].p] = @ - 1]
      idle == Idle(retired, count)
  IN /\ inflight' = count
     /\ retired' = Busy(retired, count)
     /\ call' = [call EXCEPT ![c] =
                   IF idle = {} THEN Out ELSE [Out EXCEPT !.at = "leaving", !.todo = idle]]
     /\ UNCHANGED cache

\* A provider has two clients to close: whose close has begun is next.
NextToClose(todo) ==
  LET begun == {p \in todo : life[p] = "half"}
  IN IF begun = {} THEN todo ELSE begun

\* One close of a provider: its own client, the client of its token
\* refresher; or one of them raises.
Closes(p, failed) ==
  IF failed THEN /\ lost < MaxLost /\ lost' = lost + 1
                 /\ dropped' = dropped \cup {p} /\ UNCHANGED life
  ELSE /\ life' = [life EXCEPT ![p] = IF @ = "open" THEN "half" ELSE "closed"]
       /\ UNCHANGED <<dropped, lost>>

\* A close of _close_idle_retired().  _close_quietly() keeps a failure from
\* the call.
Sweep(c, failed) ==
  /\ \E p \in NextToClose(call[c].todo) :
       LET rest == IF failed \/ life[p] = "half" THEN call[c].todo \ {p} ELSE call[c].todo
       IN /\ Closes(p, failed)
          /\ call' = [call EXCEPT ![c] =
               CASE rest # {} -> [@ EXCEPT !.todo = rest]
                 [] rest = {} /\ @.at = "leaving" -> Out
                 [] OTHER -> Begins(c, @.p, rt)]
  /\ UNCHANGED <<grant, pools, shut, oauth>>

-----------------------------------------------------------------------------
(* The call                                                                *)

Rotated(g) == IF Rotates THEN current[g] + 1 ELSE current[g]

\* The identity provider answers a refresh: the token it was sent is the
\* one it accepts, which it rotates, or it is not.
Answers(c) ==
  LET g == grant[call[c].p] IN
  /\ call[c].at = "refreshing"
  /\ IF call[c].sent = current[g]
     THEN /\ Rotated(g) <= MaxRefresh
          /\ current' = [current EXCEPT ![g] = Rotated(g)]
          /\ call' = [call EXCEPT ![c].at = "granted", ![c].sent = Rotated(g)]
     ELSE /\ call' = [call EXCEPT ![c].at = "refused"]
          /\ UNCHANGED current
  /\ UNCHANGED <<life, grant, pools, shut, rt, access, dropped, unheard, lost>>

\* Mutant: the rotation is discarded.
TakesAccessOnly(p, token) == access' = [access EXCEPT ![p] = "valid"] /\ UNCHANGED rt

\* _refresh() takes the answer.
Takes(p, token) ==
  /\ access' = [access EXCEPT ![p] = "valid"]
  /\ rt' = [rt EXCEPT ![p] = token]

Refreshed(c) ==
  /\ call[c].at = "granted"
  /\ Takes(call[c].p, call[c].sent)
  /\ call' = [call EXCEPT ![c].at = "asking", ![c].sent = 0]
  /\ UNCHANGED <<life, grant, pools, shut, current, dropped, unheard, lost>>

\* The grants whose rotation is lost with what call c was waiting for.
Unheard(c) ==
  IF call[c].at = "granted" /\ Rotates THEN unheard \cup {grant[call[c].p]} ELSE unheard

\* The answer to a refresh is lost on its way, or one that _refresh() cannot read: not
\* JSON, no object or without an access token.  It raises Unavailable.
Unread(c) ==
  /\ call[c].at = "granted"
  /\ lost < MaxLost /\ lost' = lost + 1
  /\ unheard' = Unheard(c)
  /\ Leave(c)
  /\ UNCHANGED <<life, grant, shut, rt, access, current, dropped>>

\* The request is answered, or the refresh or the request fails: AuthError,
\* Unavailable or what the provider said.
Returns(c) ==
  /\ call[c].at \in {"refreshing", "refused", "asking"}
  /\ Leave(c)
  /\ UNCHANGED <<life, grant, shut, oauth, dropped, lost>>

\* The call is cancelled where it waits: by its timeout or its client.
\* CancelledError passes _close_quietly(), so what was detached is dropped.
Cancel(c) ==
  /\ call[c] # Out
  /\ lost < MaxLost /\ lost' = lost + 1
  /\ dropped' = dropped \cup call[c].todo
  /\ unheard' = Unheard(c)
  /\ IF call[c].at = "leaving"
     THEN call' = [call EXCEPT ![c] = Out] /\ UNCHANGED pools
     ELSE Leave(c)
  /\ UNCHANGED <<life, grant, shut, rt, access, current>>

\* An access token is past its lifetime but for the skew.  That of a closed
\* provider is of no use either way.
Expire(p) ==
  /\ access[p] = "valid" /\ life[p] # "closed"
  /\ access' = [access EXCEPT ![p] = "expired"]
  /\ UNCHANGED <<life, grant, pools, call, shut, rt, current, dropped, unheard, lost>>

-----------------------------------------------------------------------------
(* aclose(), by whoever drops the backend: the surface takes no more calls *)

Shut ==
  /\ shut = NotShut
  /\ shut' = [at |-> "closing", todo |-> {Deployment} \cup ToSet(cache) \cup retired]
  /\ cache' = <<>> /\ retired' = {}
  /\ UNCHANGED <<life, grant, inflight, call, oauth, dropped, lost>>

\* A close that raises ends aclose(): the rest is not closed.
ShutSweep(failed) ==
  /\ shut.at = "closing"
  /\ \E p \in NextToClose(shut.todo) :
       LET rest == IF life[p] = "half" THEN shut.todo \ {p} ELSE shut.todo
       IN IF failed
          THEN /\ lost < MaxLost /\ lost' = lost + 1
               /\ dropped' = dropped \cup shut.todo
               /\ shut' = [at |-> "done", todo |-> {}]
               /\ UNCHANGED life
          ELSE /\ Closes(p, FALSE)
               /\ shut' = [at |-> IF rest = {} THEN "done" ELSE "closing", todo |-> rest]
  /\ UNCHANGED <<grant, pools, call, oauth>>

Run(c) ==
  \/ RunShared(c)
  \/ \E u \in Users : RunCached(c, u) \/ RunBuilt(c, u)

Next ==
  \/ \E c \in Calls :
       \/ Run(c) \/ Answers(c) \/ Refreshed(c) \/ Unread(c) \/ Returns(c) \/ Cancel(c)
       \/ \E failed \in BOOLEAN : Sweep(c, failed)
  \/ \E p \in Providers : Expire(p)
  \/ Shut
  \/ \E failed \in BOOLEAN : ShutSweep(failed)

Spec == Init /\ [][Next]_vars

-----------------------------------------------------------------------------

\* While the surface serves, no client of a provider is closed that a call
\* uses or a later call will be given.  aclose() closes them under its calls.
NeverClosedInUse ==
  shut = NotShut =>
    \A p \in Providers :
      (inflight[p] > 0 \/ p = Deployment \/ p \in ToSet(cache)) => life[p] = "open"

\* A provider that is not closed and not in the cache is kept open by a call
\* that uses it, or exactly one call or aclose() has its close to do.  Not so
\* one whose close raised, or was left undone when its call was cancelled or
\* another close of aclose() raised: it leaks (executor.py:118, :131), and
\* where nothing was cancelled or failed, none does.
Closers(p) == {c \in Calls : p \in call[c].todo}
               \cup {s \in {"aclose"} : p \in shut.todo}
EvictedAreClosed ==
  \A p \in Built :
    /\ Cardinality(Closers(p)) <= 1
    /\ p \in dropped => lost > 0
    /\ (life[p] \in {"open", "half"} /\ p \notin dropped) =>
         \/ p \in ToSet(cache)
         \/ p \in retired /\ inflight[p] > 0
         \/ Closers(p) # {}

\* The only provider of a grant holds the refresh token that the identity
\* provider accepts, or the answer that brings it is on its way: nothing
\* but an answer that was lost, unreadable or to a cancelled call discards a
\* rotation.
OnlyProviderOf(p) ==
  \A q \in Providers : (q # p /\ life[q] # "free") => grant[q] # grant[p]
RotationIsKept ==
  \A p \in Providers :
    (life[p] # "free" /\ OnlyProviderOf(p) /\ grant[p] \notin unheard) =>
      \/ rt[p] = current[grant[p]]
      \/ \E c \in Calls : call[c].at = "granted" /\ call[c].p = p
                           /\ call[c].sent = current[grant[p]]

=============================================================================
