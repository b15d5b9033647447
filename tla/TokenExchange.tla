---------------------------- MODULE TokenExchange ----------------------------
(***************************************************************************)
(* The token exchange of one surface (tokenexchange.py): exchanger_for,    *)
(* TokenExchanger.token, _exchange and _settled.  Calls share exchanges in *)
(* flight and a bounded LRU cache of the tokens issued.                    *)
(*                                                                         *)
(* A call runs to its await in one step.  The identity provider issues a   *)
(* token at one moment, the gateway reads its own clock at a later one.    *)
(*                                                                         *)
(* Abstractions: a subject is a caller's inbound token, and its cache key. *)
(* Of a response only issue, lifetime and failure are told apart.  The     *)
(* cache of a replaced exchanger is left out: only its waiters know it.    *)
(***************************************************************************)
EXTENDS Naturals, FiniteSets, SequencesExt

CONSTANTS
  Calls,       \* calls to the surface that are served at once
  Subjects,
  Configs,     \* [surface.identity] tables
  Lifetimes,   \* expires_in
  Skew,        \* SKEW_S
  MaxEntries,  \* MAX_ENTRIES
  MaxDelay,    \* bound: from issue to receipt of a token
  MaxGen,      \* bound: exchangers, one after the other
  MaxClock     \* bound: ticks

ASSUME TimeAssumption ==
  /\ Lifetimes \subseteq Nat /\ Skew \in Nat /\ MaxEntries \in Nat \ {0}
  /\ MaxDelay \in Nat /\ MaxGen \in Nat \ {0} /\ MaxClock \in Nat
ASSUME DelayAssumption == MaxDelay <= Skew

Times == 0 .. MaxClock
Gens == 1 .. MaxGen
Expiries == UNION {{t + l : t \in Times} : l \in Lifetimes}

\* An access token: for whom, for which target, and when it really expires.
Tokens == [subject : Subjects, config : Configs, expires : Expiries]

VARIABLES
  clock,
  exchanger,  \* _EXCHANGERS[surface]: its config and which one it is
  cache,      \* its _cache, least recently used first
  task,       \* task[g][s]: what _inflight of exchanger g holds for s
  call,
  hungup      \* history: the calls whose client has gone

vars == <<clock, exchanger, cache, task, call, hungup>>

NoTask == [pc |-> "none"]

\* "asked": no token issued yet; "issued": on its way; "done" and "failed": over,
\* and not yet taken out of _inflight.
TaskStates ==
  {NoTask}
    \cup [pc : {"asked", "failed"}, config : Configs]
    \cup [pc : {"issued"}, config : Configs, token : Tokens, at : Times, lifetime : Lifetimes]
    \cup [pc : {"done"}, token : Tokens]

\* The cache keeps at most one token of each subject.
Entries == [token : Tokens, until : Nat]
OneEach(entries) ==
  \A m, n \in DOMAIN entries :
    entries[m].token.subject = entries[n].token.subject => m = n

Idle == [pc |-> "idle"]
CallStates ==
  {Idle}
    \cup [pc : {"wait"}, subject : Subjects, config : Configs, gen : Gens]
    \cup [pc : {"got"}, subject : Subjects, config : Configs, token : Tokens]
    \cup [pc : {"failed", "cancelled"}]

TypeOK ==
  /\ clock \in Times
  /\ exchanger \in [config : Configs, gen : Gens]
  /\ cache \in Seq(Entries) /\ Len(cache) <= MaxEntries /\ OneEach(cache)
  /\ task \in [Gens -> [Subjects -> TaskStates]]
  /\ call \in [Calls -> CallStates]
  /\ hungup \in SUBSET Calls

Init ==
  /\ clock = 0
  /\ exchanger \in [config : Configs, gen : {1}]
  /\ cache = <<>>
  /\ task = [g \in Gens |-> [s \in Subjects |-> NoTask]]
  /\ call = [c \in Calls |-> Idle]
  /\ hungup = {}

Tick ==
  /\ clock < MaxClock
  /\ \A g \in Gens, s \in Subjects :
       task[g][s].pc = "issued" => clock < task[g][s].at + MaxDelay
  /\ clock' = clock + 1
  /\ UNCHANGED <<exchanger, cache, task, call, hungup>>

-----------------------------------------------------------------------------
(* exchanger_for() and token()                                             *)

Without(entries, s) ==
  IF \E n \in DOMAIN entries : entries[n].token.subject = s
  THEN RemoveAt(entries, CHOOSE n \in DOMAIN entries : entries[n].token.subject = s)
  ELSE entries
Of(entries, s) == {e \in ToSet(entries) : e.token.subject = s}

Hits(entries, s) == {e \in Of(entries, s) : e.until > clock}

\* Mutant: the exchanger of a surface is never replaced.
ExchangerKept(config) == exchanger

\* exchanger_for: a new one, with nothing in it, when the config is another.
ExchangerFor(config) ==
  IF exchanger.config = config THEN exchanger
  ELSE [config |-> config, gen |-> exchanger.gen + 1]

CacheOf(x) == IF x = exchanger THEN cache ELSE <<>>

Ready(c, s, config) ==
  /\ call[c].pc # "wait"
  /\ ExchangerFor(config).gen \in Gens
  /\ exchanger' = ExchangerFor(config)
  /\ hungup' = hungup \ {c}

Hit(c, s, config) ==
  LET x == ExchangerFor(config) IN
  /\ Ready(c, s, config)
  /\ \E e \in Hits(CacheOf(x), s) :
       /\ cache' = Append(Without(CacheOf(x), s), e)
       /\ call' = [call EXCEPT ![c] = [pc |-> "got", subject |-> s, config |-> config,
                                       token |-> e.token]]
  /\ UNCHANGED <<clock, task>>

\* An expired entry goes; the call joins the exchange in flight or starts one.
Miss(c, s, config) ==
  LET x == ExchangerFor(config) IN
  /\ Ready(c, s, config)
  /\ Hits(CacheOf(x), s) = {}
  /\ cache' = Without(CacheOf(x), s)
  /\ task' = IF task[x.gen][s] = NoTask
             THEN [task EXCEPT ![x.gen][s] = [pc |-> "asked", config |-> x.config]]
             ELSE task
  /\ call' = [call EXCEPT ![c] = [pc |-> "wait", subject |-> s, config |-> config, gen |-> x.gen]]
  /\ UNCHANGED clock

-----------------------------------------------------------------------------
(* _exchange() and _settled()                                              *)

Issues(g, s, lifetime) ==
  /\ task[g][s].pc = "asked"
  /\ task' = [task EXCEPT ![g][s] =
        [pc |-> "issued", config |-> @.config, at |-> clock, lifetime |-> lifetime,
         token |-> [subject |-> s, config |-> @.config, expires |-> clock + lifetime]]]
  /\ UNCHANGED <<clock, exchanger, cache, call, hungup>>

Newest(entries) ==
  IF Len(entries) > MaxEntries THEN SubSeq(entries, Len(entries) - MaxEntries + 1, Len(entries))
  ELSE entries

\* A token that outlives the skew is kept, the least recently used one evicted.
Kept(g, s, t) ==
  IF g = exchanger.gen /\ t.lifetime > Skew
  THEN cache' = Newest(Append(Without(cache, s), [token |-> t.token, until |-> clock + t.lifetime - Skew]))
  ELSE UNCHANGED cache

Receives(g, s) ==
  /\ task[g][s].pc = "issued"
  /\ Kept(g, s, task[g][s])
  /\ task' = [task EXCEPT ![g][s] = [pc |-> "done", token |-> @.token]]
  /\ UNCHANGED <<clock, exchanger, call, hungup>>

\* An unset secret, a refusal, a timeout, an answer that is no token.
Fails(g, s) ==
  /\ task[g][s].pc \in {"asked", "issued"}
  /\ task' = [task EXCEPT ![g][s] = [pc |-> "failed", config |-> @.config]]
  /\ UNCHANGED <<clock, exchanger, cache, call, hungup>>

WaitsFor(c, g, s) == call[c].pc = "wait" /\ call[c].gen = g /\ call[c].subject = s

Answer(c, t) ==
  IF t.pc = "failed" THEN [pc |-> "failed"]
  ELSE [pc |-> "got", subject |-> call[c].subject, config |-> call[c].config,
        token |-> t.token]

\* The callbacks of a finished exchange: it leaves _inflight, its waiters resume.
Settles(g, s) ==
  /\ task[g][s].pc \in {"done", "failed"}
  /\ task' = [task EXCEPT ![g][s] = NoTask]
  /\ call' = [c \in Calls |-> IF WaitsFor(c, g, s) THEN Answer(c, task[g][s]) ELSE call[c]]
  /\ UNCHANGED <<clock, exchanger, cache, hungup>>

\* Mutant: the wait is not shielded, and cancels the exchange.
HangsUpUnshielded(c) ==
  /\ call[c].pc = "wait"
  /\ task' = [task EXCEPT ![call[c].gen][call[c].subject] = NoTask]
  /\ call' = [d \in Calls |-> IF WaitsFor(d, call[c].gen, call[c].subject)
                              THEN [pc |-> "cancelled"] ELSE call[d]]
  /\ hungup' = hungup \cup {c}
  /\ UNCHANGED <<clock, exchanger, cache>>

\* The client of a call goes: the call is cancelled, the exchange is not.
HangsUp(c) ==
  /\ call[c].pc = "wait"
  /\ call' = [call EXCEPT ![c] = [pc |-> "cancelled"]]
  /\ hungup' = hungup \cup {c}
  /\ UNCHANGED <<clock, exchanger, cache, task>>

ExchangeStep(g, s) ==
  \/ \E lifetime \in Lifetimes : Issues(g, s, lifetime)
  \/ Receives(g, s)
  \/ Fails(g, s)
  \/ Settles(g, s)

Next ==
  \/ Tick
  \/ \E c \in Calls :
       \/ \E s \in Subjects, config \in Configs : Hit(c, s, config) \/ Miss(c, s, config)
       \/ HangsUp(c)
  \/ \E g \in Gens, s \in Subjects : ExchangeStep(g, s)

Spec == Init /\ [][Next]_vars

-----------------------------------------------------------------------------
(* Properties                                                              *)

\* A call carries a token issued for its own caller and for the target that its
\* surface is configured with, whoever shares the exchanger and whatever reload
\* happens while it waits (token, exchanger_for); and what the cache would hand out
\* has not expired, although the gateway counts from its receipt and the provider
\* from its issue (SKEW_S).
OwnToken ==
  /\ \A c \in Calls : call[c].pc = "got" =>
       call[c].token.subject = call[c].subject /\ call[c].token.config = call[c].config
  /\ \A s \in Subjects : \A e \in Hits(cache, s) : e.token.expires > clock

\* Calls that share an exchange do not disturb each other (asyncio.shield): a call is
\* cancelled by nobody but its own client, and whoever waits has an exchange that will
\* settle, also when the call that started it hung up, when it failed, and when the
\* exchanger was replaced meanwhile.
WaitersAreIndependent ==
  \A c \in Calls :
    /\ call[c].pc = "cancelled" => c \in hungup
    /\ call[c].pc = "wait" => task[call[c].gen][call[c].subject] # NoTask

=============================================================================
