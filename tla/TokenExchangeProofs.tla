------------------------- MODULE TokenExchangeProofs ------------------------
(***************************************************************************)
(* Proofs about TokenExchange, for any calls, subjects, configurations,    *)
(* lifetimes, skew and size of the cache.                                  *)
(***************************************************************************)
EXTENDS TokenExchange, SequenceTheorems, TLAPS

-----------------------------------------------------------------------------
(* The cache                                                               *)

\* What is left without the entry of a subject.
LEMMA WithoutOne ==
  ASSUME NEW S, NEW entries \in Seq(S), NEW s, OneEach(entries)
  PROVE  /\ Without(entries, s) \in Seq(S)
         /\ OneEach(Without(entries, s))
         /\ Len(Without(entries, s)) <= Len(entries)
         /\ (\E n \in DOMAIN entries : entries[n].token.subject = s)
              => Len(Without(entries, s)) = Len(entries) - 1
         /\ \A m \in DOMAIN Without(entries, s) :
              /\ Without(entries, s)[m].token.subject # s
              /\ \E n \in DOMAIN entries : Without(entries, s)[m] = entries[n]
<1> DEFINE Has == \E n \in DOMAIN entries : entries[n].token.subject = s
           W == Without(entries, s)
<1>0. Len(entries) \in Nat /\ DOMAIN entries = 1 .. Len(entries)
  BY LenProperties
<1>1. CASE ~Has
  <2>1. W = entries
    BY <1>1 DEF Without
  <2>2. \A m \in DOMAIN entries :
          entries[m].token.subject # s /\ \E n \in DOMAIN entries : entries[m] = entries[n]
    BY <1>1
  <2> HIDE DEF W
  <2>3. /\ W \in Seq(S) /\ OneEach(W) /\ Len(W) <= Len(entries)
        /\ \A m \in DOMAIN W : W[m].token.subject # s /\ \E n \in DOMAIN entries : W[m] = entries[n]
    BY <1>0, <2>1, <2>2
  <2> QED  BY <1>1, <2>3 DEF W
<1>2. CASE Has
  <2> DEFINE k == CHOOSE n \in DOMAIN entries : entries[n].token.subject = s
             A == SubSeq(entries, 1, k - 1)
             B == SubSeq(entries, k + 1, Len(entries))
  <2>1. k \in 1 .. Len(entries) /\ entries[k].token.subject = s
    BY <1>0, <1>2
  <2>2. W = A \o B
    BY <1>2 DEF Without, RemoveAt
  <2> HIDE DEF k, W
  <2>3. /\ A \in Seq(S) /\ Len(A) = k - 1
        /\ \A i \in 1 .. k - 1 : A[i] = entries[i]
    <3>1. \A i \in 1 .. k - 1 : entries[i] \in S
      BY <1>0, <2>1, ElementOfSeq
    <3>2. k - 1 \in Int
      BY <1>0, <2>1
    <3> QED  BY <1>0, <2>1, <3>1, <3>2, SubSeqProperties
  <2>4. /\ B \in Seq(S) /\ Len(B) = Len(entries) - k
        /\ \A i \in 1 .. Len(entries) - k : B[i] = entries[k + i]
    <3>1. \A i \in k + 1 .. Len(entries) : entries[i] \in S
      BY <1>0, <2>1, ElementOfSeq
    <3>2. k + 1 \in Int /\ Len(entries) \in Int
      BY <1>0, <2>1
    <3>3. /\ B \in Seq(S)
          /\ Len(B) = IF k + 1 <= Len(entries) THEN Len(entries) - (k + 1) + 1 ELSE 0
          /\ \A i \in 1 .. Len(entries) - (k + 1) + 1 : B[i] = entries[k + 1 + i - 1]
      BY <3>1, <3>2, SubSeqProperties
    <3> HIDE DEF B
    <3>4. Len(B) = Len(entries) - k
      <4>1. Len(B) = IF k + 1 <= Len(entries) THEN Len(entries) - (k + 1) + 1 ELSE 0
        BY <3>3
      <4>2. k \in Int /\ k <= Len(entries) /\ Len(entries) \in Int
        BY <1>0, <2>1
      <4> QED  BY <4>1, <4>2
    <3>5. \A i \in 1 .. Len(entries) - k : i \in 1 .. Len(entries) - (k + 1) + 1 /\ k + 1 + i - 1 = k + i
      BY <1>0, <2>1
    <3> QED  BY <3>3, <3>4, <3>5
  <2> HIDE DEF A, B
  <2>5. /\ W \in Seq(S) /\ Len(W) = Len(entries) - 1
        /\ \A i \in 1 .. Len(entries) - 1 :
             W[i] = IF i < k THEN entries[i] ELSE entries[i + 1]
    <3>1. /\ W \in Seq(S) /\ Len(W) = Len(A) + Len(B)
          /\ \A i \in 1 .. Len(A) + Len(B) : W[i] = IF i <= Len(A) THEN A[i] ELSE B[i - Len(A)]
      BY <2>2, <2>3, <2>4, ConcatProperties
    <3>2. Len(A) + Len(B) = Len(entries) - 1
      BY <1>0, <2>1, <2>3, <2>4
    <3>3. ASSUME NEW i \in 1 .. Len(entries) - 1, i < k
          PROVE  W[i] = entries[i]
      <4>1. i \in 1 .. k - 1 /\ i <= Len(A)
        BY <1>0, <2>1, <2>3, <3>3
      <4> QED  BY <2>3, <3>1, <3>2, <4>1
    <3>4. ASSUME NEW i \in 1 .. Len(entries) - 1, ~(i < k)
          PROVE  W[i] = entries[i + 1]
      <4>1. i - Len(A) \in 1 .. Len(entries) - k /\ k + (i - Len(A)) = i + 1 /\ ~(i <= Len(A))
        BY <1>0, <2>1, <2>3, <3>4
      <4> QED  BY <2>4, <3>1, <3>2, <4>1
    <3> QED  BY <3>1, <3>2, <3>3, <3>4
  <2>6. DOMAIN W = 1 .. Len(entries) - 1
    BY <2>5, LenProperties
  <2>7. \A m \in DOMAIN W : \E n \in DOMAIN entries : n # k /\ W[m] = entries[n]
    BY <1>0, <2>1, <2>5, <2>6
  <2>8. \A m, n \in DOMAIN W : W[m].token.subject = W[n].token.subject => m = n
    <3> SUFFICES ASSUME NEW m \in DOMAIN W, NEW n \in DOMAIN W,
                        W[m].token.subject = W[n].token.subject
                 PROVE  m = n
      OBVIOUS
    <3> DEFINE Old(i) == IF i < k THEN i ELSE i + 1
    <3>1. /\ Old(m) \in DOMAIN entries /\ W[m] = entries[Old(m)]
          /\ Old(n) \in DOMAIN entries /\ W[n] = entries[Old(n)]
      BY <1>0, <2>1, <2>5, <2>6
    <3>2. Old(m) = Old(n)
      <4> HIDE DEF Old
      <4> QED  BY <3>1 DEF OneEach
    <3> QED  BY <1>0, <2>1, <2>6, <3>2
  <2>9. \A m \in DOMAIN W : W[m].token.subject # s
    BY <1>0, <2>1, <2>7 DEF OneEach
  <2> QED  BY <1>0, <2>5, <2>7, <2>8, <2>9 DEF W, OneEach
<1> QED  BY <1>1, <1>2

\* What a cache is for the target it was filled for: tokens of that target, each
\* believed no longer than it lives.
Honest(entries, config) ==
  /\ entries \in Seq(Entries) /\ OneEach(entries)
  /\ \A n \in DOMAIN entries :
       entries[n].token.config = config /\ entries[n].until <= entries[n].token.expires

LEMMA WithoutHonest ==
  ASSUME NEW entries, NEW config, NEW s, Honest(entries, config)
  PROVE  /\ Honest(Without(entries, s), config)
         /\ Len(Without(entries, s)) <= Len(entries)
         /\ (\E n \in DOMAIN entries : entries[n].token.subject = s)
              => Len(Without(entries, s)) = Len(entries) - 1
         /\ \A m \in DOMAIN Without(entries, s) : Without(entries, s)[m].token.subject # s
<1> DEFINE W == Without(entries, s)
<1>1. entries \in Seq(Entries) /\ OneEach(entries)
  BY DEF Honest
<1>2. /\ W \in Seq(Entries) /\ OneEach(W)
      /\ Len(W) <= Len(entries)
      /\ (\E n \in DOMAIN entries : entries[n].token.subject = s) => Len(W) = Len(entries) - 1
      /\ \A m \in DOMAIN W :
           W[m].token.subject # s /\ \E n \in DOMAIN entries : W[m] = entries[n]
  BY <1>1, WithoutOne
<1> HIDE DEF W
<1>3. Honest(W, config)
  BY <1>2 DEF Honest
<1> QED  BY <1>2, <1>3 DEF W

LEMMA AppendHonest ==
  ASSUME NEW entries, NEW config, Honest(entries, config),
         NEW e \in Entries, e.token.config = config, e.until <= e.token.expires,
         \A m \in DOMAIN entries : entries[m].token.subject # e.token.subject
  PROVE  Honest(Append(entries, e), config) /\ Len(Append(entries, e)) = Len(entries) + 1
<1> DEFINE A == Append(entries, e)
<1>1. /\ entries \in Seq(Entries) /\ Len(entries) \in Nat
      /\ DOMAIN entries = 1 .. Len(entries)
  BY LenProperties DEF Honest
<1>2. /\ A \in Seq(Entries) /\ Len(A) = Len(entries) + 1
      /\ \A i \in 1 .. Len(entries) : A[i] = entries[i]
      /\ A[Len(entries) + 1] = e
  BY <1>1, AppendProperties
<1>3. DOMAIN A = 1 .. Len(entries) + 1
  BY <1>2, LenProperties
<1> HIDE DEF A
<1>4. \A n \in DOMAIN A : A[n] = e \/ (n \in DOMAIN entries /\ A[n] = entries[n])
  BY <1>1, <1>2, <1>3
<1>5. \A n \in DOMAIN A : n \notin DOMAIN entries => n = Len(entries) + 1
  BY <1>1, <1>3
<1>6. OneEach(A)
  <2> SUFFICES ASSUME NEW m \in DOMAIN A, NEW n \in DOMAIN A,
                      A[m].token.subject = A[n].token.subject
               PROVE  m = n
    BY DEF OneEach
  <2>1. CASE m \in DOMAIN entries /\ n \in DOMAIN entries
    BY <1>1, <1>2, <2>1 DEF Honest, OneEach
  <2>2. CASE m \in DOMAIN entries /\ n \notin DOMAIN entries
    BY <1>1, <1>2, <1>5, <2>2
  <2>3. CASE m \notin DOMAIN entries /\ n \in DOMAIN entries
    BY <1>1, <1>2, <1>5, <2>3
  <2>4. CASE m \notin DOMAIN entries /\ n \notin DOMAIN entries
    BY <1>5, <2>4
  <2> QED  BY <2>1, <2>2, <2>3, <2>4
<1>7. Honest(A, config)
  BY <1>2, <1>4, <1>6 DEF Honest
<1> QED  BY <1>2, <1>7 DEF A

\* Eviction keeps the last entries, and as many as are allowed.
LEMMA NewestHonest ==
  ASSUME NEW entries, NEW config, Honest(entries, config)
  PROVE  Honest(Newest(entries), config) /\ Len(Newest(entries)) <= MaxEntries
<1> USE TimeAssumption
<1>1. /\ entries \in Seq(Entries) /\ Len(entries) \in Nat
      /\ DOMAIN entries = 1 .. Len(entries)
  BY LenProperties DEF Honest
<1>2. CASE ~(Len(entries) > MaxEntries)
  <2>1. Newest(entries) = entries
    BY <1>2 DEF Newest
  <2> QED  BY <1>1, <1>2, <2>1
<1>3. CASE Len(entries) > MaxEntries
  <2> DEFINE from == Len(entries) - MaxEntries + 1
             N == SubSeq(entries, from, Len(entries))
  <2>1. Newest(entries) = N
    BY <1>3 DEF Newest
  <2>2. from \in 1 .. Len(entries) /\ Len(entries) - from + 1 = MaxEntries
    BY <1>1, <1>3
  <2> HIDE DEF from
  <2>3. \A i \in from .. Len(entries) : entries[i] \in Entries
    BY <1>1, <2>2, ElementOfSeq
  <2>4. /\ N \in Seq(Entries)
        /\ Len(N) = IF from <= Len(entries) THEN Len(entries) - from + 1 ELSE 0
        /\ \A i \in 1 .. Len(entries) - from + 1 : N[i] = entries[from + i - 1]
    BY <1>1, <2>2, <2>3, SubSeqProperties
  <2>5. DOMAIN N = 1 .. MaxEntries /\ Len(N) = MaxEntries
    BY <1>1, <2>2, <2>4, LenProperties
  <2> HIDE DEF N
  <2>6. \A i \in DOMAIN N : from + i - 1 \in DOMAIN entries /\ N[i] = entries[from + i - 1]
    BY <1>1, <2>2, <2>4, <2>5
  <2>7. OneEach(N)
    <3> SUFFICES ASSUME NEW m \in DOMAIN N, NEW n \in DOMAIN N,
                        N[m].token.subject = N[n].token.subject
                 PROVE  m = n
      BY DEF OneEach
    <3>1. from + m - 1 = from + n - 1
      BY <2>6 DEF Honest, OneEach
    <3> QED  BY <1>1, <2>2, <2>5, <3>1
  <2>8. Honest(N, config)
    BY <2>4, <2>6, <2>7 DEF Honest
  <2> QED  BY <2>1, <2>5, <2>8
<1> QED  BY <1>2, <1>3

-----------------------------------------------------------------------------
(* The invariant                                                           *)

ConfigOf(t) == IF t.pc = "done" THEN t.token.config ELSE t.config

\* What is known of the exchange of s in exchanger g.
Exchange(g, s, t) ==
  /\ g > exchanger.gen => t = NoTask
  /\ g = exchanger.gen /\ t # NoTask => ConfigOf(t) = exchanger.config
  /\ t.pc \in {"issued", "done"} => t.token.subject = s
  /\ t.pc = "issued" =>
       /\ t.token.config = t.config
       /\ t.token.expires = t.at + t.lifetime
       /\ t.at <= clock /\ clock <= t.at + MaxDelay

Exchanges == \A g \in Gens, s \in Subjects : Exchange(g, s, task[g][s])

\* Who waits, waits for an exchange for the target he asked for; who has a
\* token, has his own; who was cancelled, went.
Served(r, c) ==
  /\ r.pc = "wait" =>
       task[r.gen][r.subject] # NoTask /\ ConfigOf(task[r.gen][r.subject]) = r.config
  /\ r.pc = "got" => r.token.subject = r.subject /\ r.token.config = r.config
  /\ r.pc = "cancelled" => c \in hungup

AllServed == \A c \in Calls : Served(call[c], c)

Inv == TypeOK /\ Honest(cache, exchanger.config) /\ Exchanges /\ AllServed

LEMMA TaskForms ==
  ASSUME NEW t \in TaskStates
  PROVE  /\ t.pc \in {"none", "asked", "failed", "issued", "done"}
         /\ t = NoTask <=> t.pc = "none"
         /\ t.pc \in {"asked", "failed", "issued"} => t.config \in Configs
         /\ t.pc \in {"issued", "done"} => t.token \in Tokens
         /\ t.pc = "issued" => t.at \in Times /\ t.lifetime \in Lifetimes
BY DEF TaskStates, NoTask

LEMMA CallForms ==
  ASSUME NEW r \in CallStates
  PROVE  /\ r.pc \in {"idle", "wait", "got", "failed", "cancelled"}
         /\ r.pc \in {"wait", "got"} => r.subject \in Subjects /\ r.config \in Configs
         /\ r.pc = "wait" => r.gen \in Gens
         /\ r.pc = "got" => r.token \in Tokens
BY DEF CallStates, Idle

LEMMA TaskMembers ==
  /\ NoTask \in TaskStates
  /\ \A config \in Configs :
       /\ [pc |-> "asked", config |-> config] \in TaskStates
       /\ [pc |-> "failed", config |-> config] \in TaskStates
       /\ \A tok \in Tokens, at \in Times, lifetime \in Lifetimes :
            [pc |-> "issued", config |-> config, at |-> at, lifetime |-> lifetime, token |-> tok]
              \in TaskStates
  /\ \A tok \in Tokens : [pc |-> "done", token |-> tok] \in TaskStates
BY DEF TaskStates, NoTask

LEMMA CallMembers ==
  /\ [pc |-> "failed"] \in CallStates /\ [pc |-> "cancelled"] \in CallStates
  /\ \A s \in Subjects, config \in Configs :
       /\ \A g \in Gens :
            [pc |-> "wait", subject |-> s, config |-> config, gen |-> g] \in CallStates
       /\ \A tok \in Tokens :
            [pc |-> "got", subject |-> s, config |-> config, token |-> tok] \in CallStates
BY DEF CallStates

\* The times of a token are numbers.
LEMMA TokenTimes ==
  ASSUME NEW tok \in Tokens
  PROVE  tok.expires \in Nat /\ tok.subject \in Subjects /\ tok.config \in Configs
BY TimeAssumption DEF Tokens, Expiries, Times

\* One exchange changes.
LEMMA TaskChanges ==
  ASSUME TypeOK, NEW g \in Gens, NEW s \in Subjects, NEW new \in TaskStates,
         task' = [task EXCEPT ![g][s] = new]
  PROVE  /\ task' \in [Gens -> [Subjects -> TaskStates]]
         /\ \A h \in Gens, u \in Subjects :
              task'[h][u] = IF h = g /\ u = s THEN new ELSE task[h][u]
BY DEF TypeOK

\* One call changes.
LEMMA CallChanges ==
  ASSUME TypeOK, NEW c \in Calls, NEW new \in CallStates, call' = [call EXCEPT ![c] = new]
  PROVE  /\ call' \in [Calls -> CallStates]
         /\ \A d \in Calls : call'[d] = IF d = c THEN new ELSE call[d]
BY DEF TypeOK

\* A call is served as before while its exchange goes on, for the same target.
LEMMA StaysServed ==
  ASSUME NEW c \in Calls, Served(call[c], c), call'[c] = call[c],
         c \in hungup => c \in hungup',
         call[c].pc = "wait" =>
           /\ task'[call[c].gen][call[c].subject] # NoTask
           /\ ConfigOf(task'[call[c].gen][call[c].subject])
                = ConfigOf(task[call[c].gen][call[c].subject])
  PROVE  Served(call[c], c)'
BY DEF Served, ConfigOf

LEMMA EmptyIsHonest ==
  ASSUME NEW config
  PROVE  Honest(<<>>, config) /\ Len(<<>>) = 0
<1>1. <<>> \in Seq(Entries) /\ Len(<<>>) = 0 /\ DOMAIN <<>> = 1 .. 0
  OBVIOUS
<1> QED  BY <1>1 DEF Honest, OneEach

\* The exchanger that a call of some configuration finds.
LEMMA ExchangerFits ==
  ASSUME Inv, NEW config \in Configs, ExchangerFor(config).gen \in Gens
  PROVE  LET x == ExchangerFor(config) IN
         /\ x \in [config : Configs, gen : Gens] /\ x.config = config
         /\ Honest(CacheOf(x), config) /\ Len(CacheOf(x)) <= MaxEntries
         /\ x.gen >= exchanger.gen
         /\ \A g \in Gens : g > x.gen => g > exchanger.gen
         /\ \A s \in Subjects : task[x.gen][s] # NoTask => ConfigOf(task[x.gen][s]) = config
<1> DEFINE x == ExchangerFor(config)
<1> USE TimeAssumption
<1>1. exchanger.config \in Configs /\ exchanger.gen \in Gens /\ Len(cache) <= MaxEntries
  BY DEF Inv, TypeOK
<1>2. exchanger.gen \in Int /\ \A g \in Gens : g \in Int
  BY <1>1 DEF Gens
<1>3. CASE exchanger.config = config
  <2>1. x = exchanger /\ CacheOf(x) = cache
    BY <1>3 DEF ExchangerFor, CacheOf
  <2>2. x \in [config : Configs, gen : Gens] /\ x.config = config /\ x.gen = exchanger.gen
    BY <1>3, <2>1 DEF Inv, TypeOK
  <2>3. Honest(CacheOf(x), config) /\ Len(CacheOf(x)) <= MaxEntries
    BY <1>1, <1>3, <2>1 DEF Inv
  <2>4. \A s \in Subjects : task[x.gen][s] # NoTask => ConfigOf(task[x.gen][s]) = config
    BY <1>1, <1>3, <2>2 DEF Inv, Exchanges, Exchange
  <2> HIDE DEF x
  <2>5. x.gen >= exchanger.gen /\ \A g \in Gens : g > x.gen => g > exchanger.gen
    BY <1>2, <2>2
  <2> QED  BY <2>2, <2>3, <2>4, <2>5 DEF x
<1>4. CASE exchanger.config # config
  <2>1. x = [config |-> config, gen |-> exchanger.gen + 1]
    BY <1>4 DEF ExchangerFor
  <2>2. x.config = config /\ x.gen = exchanger.gen + 1 /\ x # exchanger
    BY <1>4, <2>1
  <2>3. x \in [config : Configs, gen : Gens]
    BY <2>1, <2>2
  <2>4. CacheOf(x) = <<>>
    BY <2>2 DEF CacheOf
  <2> HIDE DEF x
  <2>5. /\ x.gen > exchanger.gen /\ x.gen >= exchanger.gen
        /\ \A g \in Gens : g > x.gen => g > exchanger.gen
    BY <1>2, <2>2
  <2>6. \A s \in Subjects : task[x.gen][s] = NoTask
    BY <2>3, <2>5 DEF Inv, Exchanges, Exchange
  <2>7. Honest(CacheOf(x), config) /\ Len(CacheOf(x)) <= MaxEntries
    BY <2>4, EmptyIsHonest
  <2> QED  BY <2>2, <2>3, <2>5, <2>6, <2>7 DEF x
<1> QED  BY <1>3, <1>4

-----------------------------------------------------------------------------
(* The steps                                                               *)

LEMMA InitInv ==
  ASSUME Init
  PROVE  Inv
<1> USE TimeAssumption DEF Init
<1>1. exchanger.config \in Configs /\ exchanger.gen \in Gens
  BY DEF Gens
<1>2. cache \in Seq(Entries) /\ Len(cache) = 0 /\ OneEach(cache)
  BY EmptyIsHonest DEF Honest
<1>3. TypeOK
  BY <1>1, <1>2, TaskMembers DEF TypeOK, Gens, Times, CallStates, Idle
<1>4. Exchanges
  BY DEF Exchanges, Exchange, NoTask
<1>5. AllServed
  BY DEF AllServed, Served, Idle
<1> QED  BY <1>3, <1>4, <1>5, EmptyIsHonest DEF Inv

LEMMA TickStep ==
  ASSUME Inv, Tick
  PROVE  Inv'
<1> USE TimeAssumption DEF Tick
<1>1. TypeOK'
  BY DEF Inv, TypeOK, Times, OneEach
<1>2. Honest(cache, exchanger.config)'
  BY DEF Inv, Honest, OneEach
<1>3. Exchanges'
  <2> SUFFICES ASSUME NEW g \in Gens, NEW s \in Subjects
               PROVE  Exchange(g, s, task[g][s])'
    BY DEF Exchanges
  <2>1. Exchange(g, s, task[g][s]) /\ task[g][s] \in TaskStates
    BY DEF Inv, Exchanges, TypeOK
  <2>2. ASSUME task[g][s].pc = "issued"
        PROVE  task[g][s].at <= clock + 1 /\ clock + 1 <= task[g][s].at + MaxDelay
    <3>1. task[g][s].at \in Nat /\ clock \in Nat /\ task[g][s].at <= clock
      BY <2>1, <2>2, TaskForms DEF Times, Exchange, Inv, TypeOK
    <3>2. clock < task[g][s].at + MaxDelay
      BY <2>2
    <3> QED  BY <3>1, <3>2
  <2> QED  BY <2>1, <2>2 DEF Exchange, ConfigOf
<1>4. AllServed'
  BY DEF Inv, AllServed, Served, ConfigOf
<1> QED  BY <1>1, <1>2, <1>3, <1>4 DEF Inv

LEMMA HitStep ==
  ASSUME Inv, NEW c \in Calls, NEW s \in Subjects, NEW config \in Configs, Hit(c, s, config)
  PROVE  Inv'
<1> DEFINE x == ExchangerFor(config)
           W == Without(CacheOf(x), s)
<1>1. PICK e \in Hits(CacheOf(x), s) :
        /\ cache' = Append(W, e)
        /\ call' = [call EXCEPT ![c] = [pc |-> "got", subject |-> s, config |-> config,
                                        token |-> e.token]]
  BY DEF Hit
<1>2. /\ exchanger' = x /\ x.gen \in Gens /\ clock' = clock /\ task' = task
      /\ hungup' = hungup \ {c} /\ call[c].pc # "wait"
  BY DEF Hit, Ready
<1>3. /\ x \in [config : Configs, gen : Gens] /\ x.config = config
      /\ Honest(CacheOf(x), config) /\ Len(CacheOf(x)) <= MaxEntries
      /\ \A g \in Gens : g > x.gen => g > exchanger.gen
      /\ \A u \in Subjects : task[x.gen][u] # NoTask => ConfigOf(task[x.gen][u]) = config
  BY <1>2, ExchangerFits
<1> HIDE DEF x
<1>4. PICK n \in DOMAIN CacheOf(x) : e = CacheOf(x)[n] /\ e.token.subject = s
  BY DEF Hits, Of, ToSet
<1>5. /\ e \in Entries /\ e.token.config = config /\ e.until <= e.token.expires
      /\ Len(CacheOf(x)) \in Nat
  BY <1>3, <1>4, ElementOfSeq, LenProperties DEF Honest
<1>6. /\ Honest(W, config) /\ Len(W) = Len(CacheOf(x)) - 1
      /\ \A m \in DOMAIN W : W[m].token.subject # s
  BY <1>3, <1>4, WithoutHonest
<1> HIDE DEF W
<1>7. Honest(cache', config) /\ Len(cache') = Len(W) + 1
  BY <1>1, <1>4, <1>5, <1>6, AppendHonest
<1>8. e.token \in Tokens
  BY <1>5 DEF Entries
<1>9. /\ call' \in [Calls -> CallStates]
      /\ \A d \in Calls : call'[d] = IF d = c
           THEN [pc |-> "got", subject |-> s, config |-> config, token |-> e.token] ELSE call[d]
  BY <1>1, <1>8, CallMembers, CallChanges DEF Inv
<1>10. TypeOK'
  <2>1. Len(cache') <= MaxEntries
    BY <1>3, <1>5, <1>6, <1>7
  <2> QED  BY <1>2, <1>3, <1>7, <1>9, <2>1 DEF Inv, TypeOK, Honest
<1>11. Exchanges'
  <2> SUFFICES ASSUME NEW g \in Gens, NEW u \in Subjects
               PROVE  Exchange(g, u, task[g][u])'
    BY DEF Exchanges
  <2>1. Exchange(g, u, task[g][u])
    BY DEF Inv, Exchanges
  <2> QED  BY <1>2, <1>3, <2>1 DEF Exchange, ConfigOf
<1>12. AllServed'
  <2> SUFFICES ASSUME NEW d \in Calls
               PROVE  Served(call[d], d)'
    BY DEF AllServed
  <2>1. Served(call[d], d)
    BY DEF Inv, AllServed
  <2>2. CASE d = c
    BY <1>4, <1>5, <1>9, <2>2 DEF Served
  <2>3. CASE d # c
    BY <1>2, <1>9, <2>1, <2>3 DEF Served, ConfigOf
  <2> QED  BY <2>2, <2>3
<1> QED  BY <1>2, <1>3, <1>7, <1>10, <1>11, <1>12 DEF Inv

LEMMA MissStep ==
  ASSUME Inv, NEW c \in Calls, NEW s \in Subjects, NEW config \in Configs, Miss(c, s, config)
  PROVE  Inv'
<1> DEFINE x == ExchangerFor(config)
           new == [pc |-> "asked", config |-> x.config]
           waits == [pc |-> "wait", subject |-> s, config |-> config, gen |-> x.gen]
<1>1. /\ exchanger' = x /\ x.gen \in Gens /\ clock' = clock
      /\ hungup' = hungup \ {c} /\ call[c].pc # "wait"
      /\ cache' = Without(CacheOf(x), s)
      /\ call' = [call EXCEPT ![c] = waits]
      /\ task' = IF task[x.gen][s] = NoTask THEN [task EXCEPT ![x.gen][s] = new] ELSE task
  BY DEF Miss, Ready
<1>2. /\ x \in [config : Configs, gen : Gens] /\ x.config = config
      /\ Honest(CacheOf(x), config) /\ Len(CacheOf(x)) <= MaxEntries
      /\ \A g \in Gens : g > x.gen => g > exchanger.gen
      /\ \A u \in Subjects : task[x.gen][u] # NoTask => ConfigOf(task[x.gen][u]) = config
  BY <1>1, ExchangerFits
<1> HIDE DEF x
<1>3. Honest(cache', config) /\ Len(cache') <= Len(CacheOf(x))
  BY <1>1, <1>2, WithoutHonest
<1>4. waits \in CallStates /\ new \in TaskStates
  BY <1>2, CallMembers, TaskMembers
<1>5. /\ call' \in [Calls -> CallStates]
      /\ \A d \in Calls : call'[d] = IF d = c THEN waits ELSE call[d]
  BY <1>1, <1>4, CallChanges DEF Inv
<1>6. /\ task' \in [Gens -> [Subjects -> TaskStates]]
      /\ \A h \in Gens, u \in Subjects :
           \/ task'[h][u] = task[h][u] /\ (h = x.gen /\ u = s => task[h][u] # NoTask)
           \/ h = x.gen /\ u = s /\ task[h][u] = NoTask /\ task'[h][u] = new
  <2>1. CASE task[x.gen][s] = NoTask
    BY <1>1, <1>4, <2>1, TaskChanges DEF Inv
  <2>2. CASE task[x.gen][s] # NoTask
    BY <1>1, <2>2 DEF Inv, TypeOK
  <2> QED  BY <2>1, <2>2
<1>7. TypeOK'
  <2>1. Len(cache') <= MaxEntries
    <3>1. Len(cache') \in Nat /\ Len(CacheOf(x)) \in Nat
      BY <1>2, <1>3, LenProperties DEF Honest
    <3> QED  BY <1>2, <1>3, <3>1, TimeAssumption
  <2> QED  BY <1>1, <1>2, <1>3, <1>5, <1>6, <2>1 DEF Inv, TypeOK, Honest
<1>8. Exchanges'
  <2> SUFFICES ASSUME NEW g \in Gens, NEW u \in Subjects
               PROVE  Exchange(g, u, task[g][u])'
    BY DEF Exchanges
  <2>1. Exchange(g, u, task[g][u])
    BY DEF Inv, Exchanges
  <2>2. CASE task'[g][u] = task[g][u]
    BY <1>1, <1>2, <2>1, <2>2 DEF Exchange, ConfigOf
  <2>3. CASE g = x.gen /\ u = s /\ task'[g][u] = new
    <3>1. ~(x.gen > x.gen)
      BY <1>1 DEF Gens
    <3> QED  BY <1>1, <1>2, <2>3, <3>1 DEF Exchange, ConfigOf
  <2> QED  BY <1>6, <2>2, <2>3
<1>9. AllServed'
  <2> SUFFICES ASSUME NEW d \in Calls
               PROVE  Served(call[d], d)'
    BY DEF AllServed
  <2>1. Served(call[d], d) /\ call[d] \in CallStates
    BY DEF Inv, AllServed, TypeOK
  <2>2. CASE d = c
    <3>1. task'[x.gen][s] # NoTask /\ ConfigOf(task'[x.gen][s]) = config
      BY <1>1, <1>2, <1>6 DEF ConfigOf, NoTask
    <3> QED  BY <1>5, <2>2, <3>1 DEF Served, ConfigOf
  <2>3. CASE d # c
    <3>1. call'[d] = call[d] /\ (d \in hungup => d \in hungup')
      BY <1>1, <1>5, <2>3
    <3>2. call[d].pc = "wait" =>
            task'[call[d].gen][call[d].subject] = task[call[d].gen][call[d].subject]
      BY <1>6, <2>1, CallForms DEF Served
    <3> QED  BY <2>1, <3>1, <3>2, StaysServed DEF Served
  <2> QED  BY <2>2, <2>3
<1> QED  BY <1>1, <1>2, <1>3, <1>7, <1>8, <1>9 DEF Inv

LEMMA HangsUpStep ==
  ASSUME Inv, NEW c \in Calls, HangsUp(c)
  PROVE  Inv'
<1>1. /\ call' \in [Calls -> CallStates]
      /\ \A d \in Calls : call'[d] = IF d = c THEN [pc |-> "cancelled"] ELSE call[d]
  BY CallMembers, CallChanges DEF Inv, HangsUp
<1>2. TypeOK'
  BY <1>1 DEF Inv, TypeOK, HangsUp, OneEach
<1>3. Exchanges' /\ Honest(cache, exchanger.config)'
  BY DEF Inv, Exchanges, Exchange, ConfigOf, Honest, OneEach, HangsUp
<1>4. AllServed'
  BY <1>1 DEF Inv, AllServed, Served, ConfigOf, HangsUp
<1> QED  BY <1>2, <1>3, <1>4 DEF Inv

\* An exchange goes on, for the same target.
LEMMA ExchangeGoesOn ==
  ASSUME Inv, NEW g \in Gens, NEW s \in Subjects, task[g][s] # NoTask,
         NEW new \in TaskStates, new # NoTask, ConfigOf(new) = ConfigOf(task[g][s]),
         task' = [task EXCEPT ![g][s] = new], Exchange(g, s, new),
         UNCHANGED <<clock, exchanger, call, hungup>>
  PROVE  /\ task' \in [Gens -> [Subjects -> TaskStates]]
         /\ Exchanges' /\ AllServed'
<1>1. /\ task' \in [Gens -> [Subjects -> TaskStates]]
      /\ \A h \in Gens, u \in Subjects :
           task'[h][u] = IF h = g /\ u = s THEN new ELSE task[h][u]
  BY TaskChanges DEF Inv
<1>2. Exchanges'
  <2> SUFFICES ASSUME NEW h \in Gens, NEW u \in Subjects
               PROVE  Exchange(h, u, task[h][u])'
    BY DEF Exchanges
  <2>1. Exchange(h, u, task'[h][u])
    BY <1>1 DEF Inv, Exchanges
  <2> QED  BY <2>1 DEF Exchange, ConfigOf
<1>3. AllServed'
  <2> SUFFICES ASSUME NEW c \in Calls
               PROVE  Served(call[c], c)'
    BY DEF AllServed
  <2>1. Served(call[c], c) /\ call[c] \in CallStates
    BY DEF Inv, AllServed, TypeOK
  <2>2. call[c].pc = "wait" =>
          /\ task'[call[c].gen][call[c].subject] # NoTask
          /\ ConfigOf(task'[call[c].gen][call[c].subject])
               = ConfigOf(task[call[c].gen][call[c].subject])
    BY <1>1, <2>1, CallForms DEF Served
  <2> QED  BY <2>1, <2>2, StaysServed
<1> QED  BY <1>1, <1>2, <1>3

LEMMA IssuesStep ==
  ASSUME Inv, NEW g \in Gens, NEW s \in Subjects, NEW lifetime \in Lifetimes,
         Issues(g, s, lifetime)
  PROVE  Inv'
<1> DEFINE t == task[g][s]
           tok == [subject |-> s, config |-> t.config, expires |-> clock + lifetime]
           new == [pc |-> "issued", config |-> t.config, at |-> clock, lifetime |-> lifetime,
                   token |-> tok]
<1>1. /\ t.pc = "asked" /\ task' = [task EXCEPT ![g][s] = new]
      /\ UNCHANGED <<clock, exchanger, cache, call, hungup>>
  BY DEF Issues
<1>2. t \in TaskStates /\ Exchange(g, s, t) /\ clock \in Times
  BY DEF Inv, TypeOK, Exchanges
<1>3. t.config \in Configs /\ t # NoTask
  BY <1>1, <1>2, TaskForms
<1>4. tok \in Tokens
  BY <1>2, <1>3 DEF Tokens, Expiries
<1>5. new \in TaskStates
  BY <1>2, <1>3, <1>4, TaskMembers
<1>6. new # NoTask /\ ConfigOf(new) = ConfigOf(t)
  BY <1>1 DEF ConfigOf, NoTask
<1>7. Exchange(g, s, new)
  <2>1. clock \in Nat /\ MaxDelay \in Nat /\ lifetime \in Nat
    BY <1>2, TimeAssumption DEF Times
  <2>2. clock <= clock /\ clock <= clock + MaxDelay
    BY <2>1
  <2> QED  BY <1>2, <1>3, <1>6, <2>2 DEF Exchange
<1>8. task' \in [Gens -> [Subjects -> TaskStates]] /\ Exchanges' /\ AllServed'
  BY <1>1, <1>3, <1>5, <1>6, <1>7, ExchangeGoesOn
<1>9. TypeOK'
  BY <1>1, <1>8 DEF Inv, TypeOK, OneEach
<1> QED  BY <1>1, <1>8, <1>9 DEF Inv, Honest, OneEach

\* What is kept of a token is believed no longer than the token lives: it was
\* under way for less than the skew.
LEMMA KeptHonest ==
  ASSUME Inv, NEW g \in Gens, NEW s \in Subjects, task[g][s].pc = "issued",
         Kept(g, s, task[g][s])
  PROVE  Honest(cache', exchanger.config) /\ Len(cache') <= MaxEntries
<1> DEFINE t == task[g][s]
           e == [token |-> t.token, until |-> clock + t.lifetime - Skew]
<1>1. /\ t \in TaskStates /\ Exchange(g, s, t)
      /\ Honest(cache, exchanger.config) /\ Len(cache) <= MaxEntries
      /\ clock \in Times /\ exchanger \in [config : Configs, gen : Gens]
  BY DEF Inv, TypeOK, Exchanges
<1>2. CASE ~(g = exchanger.gen /\ t.lifetime > Skew)
  BY <1>1, <1>2 DEF Kept
<1>3. CASE g = exchanger.gen /\ t.lifetime > Skew
  <2>1. cache' = Newest(Append(Without(cache, s), e))
    BY <1>3 DEF Kept
  <2>2. /\ t.token \in Tokens /\ t.at \in Nat /\ t.lifetime \in Nat /\ clock \in Nat
        /\ Skew \in Nat /\ MaxDelay \in Nat /\ MaxDelay <= Skew
    <3>1. t.token \in Tokens /\ t.at \in Times /\ t.lifetime \in Lifetimes
      BY <1>1, TaskForms
    <3>2. Times \subseteq Nat /\ Lifetimes \subseteq Nat /\ Skew \in Nat /\ MaxDelay \in Nat
      BY TimeAssumption DEF Times
    <3> HIDE DEF t
    <3> QED  BY <1>1, <3>1, <3>2, DelayAssumption
  <2>3. /\ t.token.config = exchanger.config /\ t.token.subject = s
        /\ t.token.expires = t.at + t.lifetime /\ clock <= t.at + MaxDelay
    BY <1>1, <1>3, TaskForms DEF Exchange, ConfigOf
  <2>4. clock + t.lifetime - Skew \in Nat /\ clock + t.lifetime - Skew <= t.token.expires
    BY <1>3, <2>2, <2>3
  <2>5. e \in Entries
    BY <2>2, <2>4 DEF Entries
  <2>6. e.token.config = exchanger.config /\ e.until <= e.token.expires /\ e.token.subject = s
    BY <2>3, <2>4
  <2> HIDE DEF e
  <2>7. /\ Honest(Without(cache, s), exchanger.config)
        /\ \A m \in DOMAIN Without(cache, s) : Without(cache, s)[m].token.subject # s
    BY <1>1, WithoutHonest
  <2>8. Honest(Append(Without(cache, s), e), exchanger.config)
    BY <2>5, <2>6, <2>7, AppendHonest
  <2> QED  BY <2>1, <2>8, NewestHonest
<1> QED  BY <1>2, <1>3

LEMMA ReceivesStep ==
  ASSUME Inv, NEW g \in Gens, NEW s \in Subjects, Receives(g, s)
  PROVE  Inv'
<1> DEFINE t == task[g][s]
           new == [pc |-> "done", token |-> t.token]
<1>1. /\ t.pc = "issued" /\ Kept(g, s, t) /\ task' = [task EXCEPT ![g][s] = new]
      /\ UNCHANGED <<clock, exchanger, call, hungup>>
  BY DEF Receives
<1>2. t \in TaskStates /\ Exchange(g, s, t)
  BY DEF Inv, TypeOK, Exchanges
<1>3. t.token \in Tokens /\ t # NoTask
  BY <1>1, <1>2, TaskForms
<1>4. new \in TaskStates /\ new # NoTask
  BY <1>3, TaskMembers DEF NoTask
<1>5. ConfigOf(new) = ConfigOf(t) /\ Exchange(g, s, new)
  BY <1>1, <1>2, <1>3 DEF Exchange, ConfigOf
<1>6. task' \in [Gens -> [Subjects -> TaskStates]] /\ Exchanges' /\ AllServed'
  BY <1>1, <1>3, <1>4, <1>5, ExchangeGoesOn
<1>7. Honest(cache', exchanger.config) /\ Len(cache') <= MaxEntries
  BY <1>1, KeptHonest
<1>8. TypeOK'
  BY <1>1, <1>6, <1>7 DEF Inv, TypeOK, Honest
<1> QED  BY <1>1, <1>6, <1>7, <1>8 DEF Inv

LEMMA FailsStep ==
  ASSUME Inv, NEW g \in Gens, NEW s \in Subjects, Fails(g, s)
  PROVE  Inv'
<1> DEFINE t == task[g][s]
           new == [pc |-> "failed", config |-> t.config]
<1>1. /\ t.pc \in {"asked", "issued"} /\ task' = [task EXCEPT ![g][s] = new]
      /\ UNCHANGED <<clock, exchanger, cache, call, hungup>>
  BY DEF Fails
<1>2. t \in TaskStates /\ Exchange(g, s, t)
  BY DEF Inv, TypeOK, Exchanges
<1>3. t.config \in Configs /\ t # NoTask
  BY <1>1, <1>2, TaskForms
<1>4. new \in TaskStates /\ new # NoTask
  BY <1>3, TaskMembers DEF NoTask
<1>5. ConfigOf(new) = ConfigOf(t) /\ Exchange(g, s, new)
  BY <1>1, <1>2, <1>3 DEF Exchange, ConfigOf
<1>6. task' \in [Gens -> [Subjects -> TaskStates]] /\ Exchanges' /\ AllServed'
  BY <1>1, <1>3, <1>4, <1>5, ExchangeGoesOn
<1>7. TypeOK'
  BY <1>1, <1>6 DEF Inv, TypeOK, OneEach
<1> QED  BY <1>1, <1>6, <1>7 DEF Inv, Honest, OneEach

LEMMA SettlesStep ==
  ASSUME Inv, NEW g \in Gens, NEW s \in Subjects, Settles(g, s)
  PROVE  Inv'
<1> DEFINE t == task[g][s]
<1>1. /\ t.pc \in {"done", "failed"} /\ task' = [task EXCEPT ![g][s] = NoTask]
      /\ call' = [c \in Calls |-> IF WaitsFor(c, g, s) THEN Answer(c, t) ELSE call[c]]
      /\ UNCHANGED <<clock, exchanger, cache, hungup>>
  BY DEF Settles
<1>2. t \in TaskStates /\ Exchange(g, s, t)
  BY DEF Inv, TypeOK, Exchanges
<1>3. /\ task' \in [Gens -> [Subjects -> TaskStates]]
      /\ \A h \in Gens, u \in Subjects :
           task'[h][u] = IF h = g /\ u = s THEN NoTask ELSE task[h][u]
  BY <1>1, TaskMembers, TaskChanges DEF Inv
<1>4. ASSUME NEW c \in Calls
      PROVE  /\ call[c] \in CallStates /\ Served(call[c], c)
             /\ call'[c] = IF WaitsFor(c, g, s) THEN Answer(c, t) ELSE call[c]
  BY <1>1 DEF Inv, TypeOK, AllServed
<1>5. ASSUME NEW c \in Calls, WaitsFor(c, g, s)
      PROVE  call'[c] \in CallStates /\ Served(call[c], c)'
  <2>1. call[c].subject = s /\ call[c].config \in Configs /\ ConfigOf(t) = call[c].config
    BY <1>4, <1>5, CallForms DEF WaitsFor, Served
  <2>2. CASE t.pc = "failed"
    <3>1. call'[c] = [pc |-> "failed"]
      BY <1>4, <1>5, <2>2 DEF Answer
    <3> QED  BY <3>1, CallMembers DEF Served
  <2>3. CASE t.pc = "done"
    <3>1. call'[c] = [pc |-> "got", subject |-> s, config |-> call[c].config, token |-> t.token]
      BY <1>4, <1>5, <2>1, <2>3 DEF Answer
    <3>2. t.token \in Tokens /\ t.token.subject = s /\ t.token.config = call[c].config
      BY <1>2, <2>1, <2>3, TaskForms DEF Exchange, ConfigOf
    <3> QED  BY <2>1, <3>1, <3>2, CallMembers DEF Served
  <2> QED  BY <1>1, <2>2, <2>3
<1>6. ASSUME NEW c \in Calls, ~WaitsFor(c, g, s)
      PROVE  call'[c] \in CallStates /\ Served(call[c], c)'
  <2>1. call'[c] = call[c] /\ call[c] \in CallStates /\ Served(call[c], c)
    BY <1>4, <1>6
  <2>2. call[c].pc = "wait" =>
          task'[call[c].gen][call[c].subject] = task[call[c].gen][call[c].subject]
    BY <1>3, <1>6, <2>1, CallForms DEF WaitsFor
  <2>3. Served(call[c], c)'
    BY <1>1, <2>1, <2>2, StaysServed DEF Served
  <2> QED  BY <2>1, <2>3
<1>7. TypeOK'
  <2>1. call' \in [Calls -> CallStates]
    BY <1>1, <1>5, <1>6
  <2> QED  BY <1>1, <1>3, <2>1 DEF Inv, TypeOK, OneEach
<1>8. Exchanges'
  <2> SUFFICES ASSUME NEW h \in Gens, NEW u \in Subjects
               PROVE  Exchange(h, u, task[h][u])'
    BY DEF Exchanges
  <2>1. Exchange(h, u, task[h][u])
    BY DEF Inv, Exchanges
  <2> QED  BY <1>1, <1>3, <2>1 DEF Exchange, ConfigOf, NoTask
<1>9. AllServed'
  BY <1>5, <1>6 DEF AllServed
<1> QED  BY <1>1, <1>7, <1>8, <1>9 DEF Inv, Honest, OneEach

LEMMA StepInv ==
  ASSUME Inv, [Next]_vars
  PROVE  Inv'
<1>1. CASE Tick
  BY <1>1, TickStep
<1>2. ASSUME NEW c \in Calls, NEW s \in Subjects, NEW config \in Configs,
             Hit(c, s, config) \/ Miss(c, s, config)
      PROVE  Inv'
  BY <1>2, HitStep, MissStep
<1>3. ASSUME NEW c \in Calls, HangsUp(c)
      PROVE  Inv'
  BY <1>3, HangsUpStep
<1>4. ASSUME NEW g \in Gens, NEW s \in Subjects, ExchangeStep(g, s)
      PROVE  Inv'
  BY <1>4, IssuesStep, ReceivesStep, FailsStep, SettlesStep DEF ExchangeStep
<1>5. CASE UNCHANGED vars
  BY <1>5 DEF vars, Inv, TypeOK, OneEach, Honest, Exchanges, Exchange, ConfigOf, AllServed, Served
<1> QED  BY <1>1, <1>2, <1>3, <1>4, <1>5 DEF Next

LEMMA Invariance == Spec => []Inv
<1>1. Init => Inv
  BY InitInv
<1>2. Inv /\ [Next]_vars => Inv'
  BY StepInv
<1> QED  BY <1>1, <1>2, PTL DEF Spec

-----------------------------------------------------------------------------
(* The theorems                                                            *)

\* The exchanger, its cache, the exchanges in flight and the calls have their
\* types; the cache is within its bound, with one token of each subject.
THEOREM TypeCorrect == Spec => []TypeOK
<1>1. Inv => TypeOK
  BY DEF Inv
<1> QED  BY <1>1, Invariance, PTL

\* A call is given the token of its own caller, for the target it was configured
\* with when it began, whatever reload replaces the exchanger meanwhile; and no token
\* that its issuer has let expire is in the cache as alive, if none is under way
\* for longer than the skew (DelayAssumption).
THEOREM TokensAreOwn == Spec => []OwnToken
<1>1. Inv => OwnToken
  <2> SUFFICES ASSUME Inv
               PROVE  OwnToken
    OBVIOUS
  <2>1. ASSUME NEW c \in Calls, call[c].pc = "got"
        PROVE  call[c].token.subject = call[c].subject /\ call[c].token.config = call[c].config
    BY <2>1 DEF Inv, AllServed, Served
  <2>2. ASSUME NEW s \in Subjects, NEW e \in Hits(cache, s)
        PROVE  e.token.expires > clock
    <3>1. PICK n \in DOMAIN cache : e = cache[n] /\ e.until > clock
      BY <2>2 DEF Hits, Of, ToSet
    <3>2. e \in Entries /\ e.until <= e.token.expires
      BY <3>1, ElementOfSeq, LenProperties DEF Inv, Honest
    <3>3. e.until \in Nat /\ e.token.expires \in Nat /\ clock \in Nat
      BY <3>2, TokenTimes DEF Entries, Inv, TypeOK, Times
    <3> QED  BY <3>1, <3>2, <3>3
  <2> QED  BY <2>1, <2>2 DEF OwnToken
<1> QED  BY <1>1, Invariance, PTL

\* Nobody but its own client cancels a call, and whoever waits has an exchange that
\* goes on, whoever started it and whichever exchanger it belongs to.
THEOREM WaitersAreSafe == Spec => []WaitersAreIndependent
<1>1. Inv => WaitersAreIndependent
  BY DEF Inv, AllServed, Served, WaitersAreIndependent
<1> QED  BY <1>1, Invariance, PTL

=============================================================================
