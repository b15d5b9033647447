--------------------------- MODULE CalendarProofs ---------------------------
(***************************************************************************)
(* Proofs about the calendar plugin: its executor (CalendarExecutor), for  *)
(* any users, calls, providers, cache size and bounds, and the map that    *)
(* its consent runs write (IdentityMap), for any runs, subjects, surfaces  *)
(* and names.                                                              *)
(***************************************************************************)
EXTENDS CalendarExecutor, IdentityMap, FiniteSetTheorems, SequenceTheorems, TLAPS

USE DEF pools, oauth

-----------------------------------------------------------------------------
(* The invariant: who holds a provider, and who closes it                  *)

\* Call c is counted in the calls of p.
Uses(c, p) == call[c].at \notin {"out", "leaving"} /\ call[c].p = p
UsersOf(p) == {c \in Calls : Uses(c, p)}

Counted == \A p \in Providers : inflight[p] = Cardinality(UsersOf(p))

\* What a call has to close is only there while it closes.
Tidy ==
  \A c \in Calls : /\ call[c].at \in {"out", "leaving"} => call[c].p = Deployment
                   /\ call[c].at = "out" => call[c] = Out
                   /\ call[c].at \in Waiting => call[c].todo = {}

Stocked == ToSet(cache) \cup retired

CallRecords == [at : {"out", "sweeping", "leaving"} \cup Waiting,
                p : Providers, sent : 0 .. MaxRefresh, todo : SUBSET Built]

\* A provider is in one place.
Apart ==
  /\ IsInjective(cache)
  /\ ToSet(cache) \cap retired = {}
  /\ \A c \in Calls : call[c].todo \cap (Stocked \cup shut.todo) = {}
  /\ \A c, d \in Calls : c # d => call[c].todo \cap call[d].todo = {}
  /\ shut.todo \cap Stocked = {}

Begun(p) == life[p] \in {"open", "half"}

\* What is known of a provider in each place; and one that is open is in one.
Placed ==
  /\ \A p \in Stocked : life[p] = "open"
  /\ \A p \in retired : UsersOf(p) # {}
  /\ \A c \in Calls : \A p \in call[c].todo : Begun(p)
  /\ \A p \in shut.todo : Begun(p)
  /\ \A p \in Built : Begun(p) /\ p \notin dropped =>
       p \in Stocked \cup shut.todo \/ \E c \in Calls : p \in call[c].todo

\* What a call uses has been built, and is not closed before aclose().
Usable ==
  /\ life[Deployment] # "free"
  /\ \A c \in Calls : life[call[c].p] # "free"
  /\ shut = NotShut =>
       /\ life[Deployment] = "open"
       /\ \A c \in Calls, p \in Built : Uses(c, p) => p \in Stocked

Sound == TypeOK /\ Counted /\ Tidy /\ Apart /\ Placed /\ Usable

-----------------------------------------------------------------------------
(* Sequences and counts                                                    *)

LEMMA UsersFinite ==
  ASSUME NEW p
  PROVE  IsFiniteSet(UsersOf(p)) /\ Cardinality(UsersOf(p)) \in 0 .. Cardinality(Calls)
<1>1. UsersOf(p) \subseteq Calls
  BY DEF UsersOf
<1> QED  BY <1>1, CallsAssumption, FS_Subset, FS_CardinalityType

LEMMA NoneInFlight ==
  ASSUME Counted, NEW p \in Providers
  PROVE  inflight[p] = 0 <=> UsersOf(p) = {}
BY UsersFinite, FS_EmptySet DEF Counted

LEMMA TailKeeps ==
  ASSUME NEW S, NEW s \in Seq(S), s # <<>>, IsInjective(s)
  PROVE  /\ Tail(s) \in Seq(S) /\ IsInjective(Tail(s))
         /\ Head(s) \in S
         /\ ToSet(Tail(s)) = ToSet(s) \ {Head(s)}
         /\ Head(s) \in ToSet(s)
<1>1. /\ Len(s) \in Nat /\ Len(s) > 0 /\ DOMAIN s = 1 .. Len(s)
      /\ Tail(s) \in Seq(S) /\ Len(Tail(s)) = Len(s) - 1 /\ DOMAIN Tail(s) = 1 .. Len(s) - 1
      /\ \A i \in 1 .. Len(s) - 1 : Tail(s)[i] = s[i + 1]
      /\ Head(s) = s[1] /\ Head(s) \in S
  OBVIOUS
<1>2. IsInjective(Tail(s))
  BY <1>1 DEF IsInjective
<1>3. ASSUME NEW x PROVE x \in ToSet(Tail(s)) <=> x \in ToSet(s) \ {Head(s)}
  <2>1. ASSUME NEW i \in 1 .. Len(s) - 1, x = Tail(s)[i] PROVE x \in ToSet(s) /\ x # Head(s)
    BY <1>1, <2>1 DEF ToSet, IsInjective
  <2>2. ASSUME NEW i \in 1 .. Len(s), x = s[i], x # Head(s) PROVE x \in ToSet(Tail(s))
    <3>1. i # 1 /\ i - 1 \in 1 .. Len(s) - 1 /\ Tail(s)[i - 1] = x
      BY <1>1, <2>2
    <3> QED  BY <3>1, <1>1 DEF ToSet
  <2> QED  BY <2>1, <2>2, <1>1 DEF ToSet
<1>4. Head(s) \in ToSet(s)
  BY <1>1 DEF ToSet
<1> QED  BY <1>1, <1>2, <1>3, <1>4

LEMMA AppendKeeps ==
  ASSUME NEW S, NEW s \in Seq(S), IsInjective(s), NEW e \in S, e \notin ToSet(s)
  PROVE  /\ Append(s, e) \in Seq(S) /\ IsInjective(Append(s, e))
         /\ ToSet(Append(s, e)) = ToSet(s) \cup {e}
<1>1. /\ Append(s, e) \in Seq(S) /\ DOMAIN s = 1 .. Len(s) /\ Len(s) \in Nat
      /\ DOMAIN Append(s, e) = 1 .. Len(s) + 1
      /\ Append(s, e)[Len(s) + 1] = e
      /\ \A i \in 1 .. Len(s) : Append(s, e)[i] = s[i]
  OBVIOUS
<1>2. \A i \in 1 .. Len(s) : s[i] # e
  BY <1>1 DEF ToSet
<1>3. IsInjective(Append(s, e))
  BY <1>1, <1>2 DEF IsInjective
<1>4. ToSet(Append(s, e)) = ToSet(s) \cup {e}
  BY <1>1 DEF ToSet
<1> QED  BY <1>1, <1>3, <1>4

LEMMA RemoveKeeps ==
  ASSUME NEW S, NEW s \in Seq(S), IsInjective(s), NEW k \in DOMAIN s
  PROVE  /\ RemoveAt(s, k) \in Seq(S) /\ IsInjective(RemoveAt(s, k))
         /\ ToSet(RemoveAt(s, k)) = ToSet(s) \ {s[k]}
         /\ s[k] \in S
<1> DEFINE r == RemoveAt(s, k)
           A == SubSeq(s, 1, k - 1)
           B == SubSeq(s, k + 1, Len(s))
<1>0. /\ Len(s) \in Nat /\ DOMAIN s = 1 .. Len(s) /\ k \in 1 .. Len(s) /\ s[k] \in S
      /\ \A i \in 1 .. Len(s) : s[i] \in S
  BY LenProperties, ElementOfSeq
<1>a. /\ A \in Seq(S) /\ Len(A) = k - 1
      /\ \A i \in 1 .. k - 1 : A[i] = s[i]
  <2>1. \A i \in 1 .. k - 1 : s[i] \in S
    BY <1>0
  <2>2. k - 1 \in Int
    BY <1>0
  <2> QED  BY <1>0, <2>1, <2>2, SubSeqProperties
<1>b. /\ B \in Seq(S) /\ Len(B) = Len(s) - k
      /\ \A i \in 1 .. Len(s) - k : B[i] = s[k + i]
  <2>1. \A i \in k + 1 .. Len(s) : s[i] \in S
    BY <1>0
  <2>2. k + 1 \in Int /\ Len(s) \in Int
    BY <1>0
  <2>3. /\ B \in Seq(S)
        /\ Len(B) = IF k + 1 <= Len(s) THEN Len(s) - (k + 1) + 1 ELSE 0
        /\ \A i \in 1 .. Len(s) - (k + 1) + 1 : B[i] = s[k + 1 + i - 1]
    BY <2>1, <2>2, SubSeqProperties
  <2> HIDE DEF B
  <2>4. \A i \in 1 .. Len(s) - k : i \in 1 .. Len(s) - (k + 1) + 1 /\ k + 1 + i - 1 = k + i
    BY <1>0
  <2>5. Len(B) = Len(s) - k
    <3>1. Len(s) \in Int /\ k \in Int /\ k <= Len(s)
      BY <1>0
    <3> QED  BY <2>3, <3>1
  <2> QED  BY <2>3, <2>4, <2>5
<1>c. r = A \o B
  BY DEF RemoveAt
<1> HIDE DEF A, B, r
<1>1. /\ Len(s) \in Nat /\ DOMAIN s = 1 .. Len(s) /\ k \in 1 .. Len(s) /\ s[k] \in S
  BY <1>0
<1>2. /\ r \in Seq(S) /\ DOMAIN r = 1 .. Len(s) - 1
      /\ \A i \in 1 .. k - 1 : r[i] = s[i]
      /\ \A i \in k .. Len(s) - 1 : r[i] = s[i + 1]
  <2>1. /\ r \in Seq(S) /\ Len(r) = Len(A) + Len(B)
        /\ \A i \in 1 .. Len(A) + Len(B) : r[i] = IF i <= Len(A) THEN A[i] ELSE B[i - Len(A)]
    BY <1>a, <1>b, <1>c, ConcatProperties
  <2>2. Len(A) + Len(B) = Len(s) - 1
    BY <1>0, <1>a, <1>b
  <2>3. DOMAIN r = 1 .. Len(s) - 1
    BY <2>1, <2>2, LenProperties
  <2>4. ASSUME NEW i \in 1 .. k - 1 PROVE r[i] = s[i]
    <3>1. i \in 1 .. Len(A) + Len(B) /\ i <= Len(A)
      BY <1>0, <1>a, <2>2
    <3> QED  BY <3>1, <2>1, <1>a
  <2>5. ASSUME NEW i \in k .. Len(s) - 1 PROVE r[i] = s[i + 1]
    <3>1. /\ i \in 1 .. Len(A) + Len(B) /\ ~(i <= Len(A)) /\ i - Len(A) \in 1 .. Len(s) - k
          /\ k + (i - Len(A)) = i + 1
      BY <1>0, <1>a, <2>2
    <3> QED  BY <3>1, <2>1, <1>b
  <2> QED  BY <2>1, <2>3, <2>4, <2>5
<1>3. \A i \in 1 .. Len(s) - 1 : i \in 1 .. k - 1 \/ i \in k .. Len(s) - 1
  BY <1>1
<1>4. IsInjective(r)
  <2> DEFINE Was(i) == IF i < k THEN i ELSE i + 1
  <2>1. \A i \in DOMAIN r : i \in Int /\ Was(i) \in DOMAIN s /\ r[i] = s[Was(i)]
    BY <1>1, <1>2, <1>3
  <2>2. \A i, j \in Int : Was(i) = Was(j) => i = j
    BY <1>1
  <2> HIDE DEF Was
  <2> QED  BY <2>1, <2>2 DEF IsInjective
<1>5. ASSUME NEW x PROVE x \in ToSet(r) <=> x \in ToSet(s) \ {s[k]}
  <2>1. ASSUME NEW i \in 1 .. Len(s) - 1, x = r[i] PROVE x \in ToSet(s) /\ x # s[k]
    BY <1>1, <1>2, <1>3, <2>1 DEF ToSet, IsInjective
  <2>2. ASSUME NEW i \in 1 .. Len(s), x = s[i], x # s[k] PROVE x \in ToSet(r)
    <3>1. CASE i < k
      BY <1>1, <1>2, <2>2, <3>1 DEF ToSet
    <3>2. CASE i > k
      <4>1. i - 1 \in k .. Len(s) - 1 /\ r[i - 1] = x
        BY <1>1, <1>2, <2>2, <3>2
      <4> QED  BY <4>1, <1>1, <1>2 DEF ToSet
    <3> QED  BY <3>1, <3>2, <1>1, <2>2
  <2> QED  BY <2>1, <2>2, <1>1, <1>2 DEF ToSet
<1>6. ToSet(r) = ToSet(s) \ {s[k]}
  BY <1>5
<1> QED  BY <1>1, <1>2, <1>4, <1>6 DEF r

-----------------------------------------------------------------------------
(* Each step keeps the invariant                                           *)

LEMMA InitSound == ASSUME Init PROVE Sound
<1>1. /\ cache \in Seq(Built) /\ ToSet(cache) = {} /\ IsInjective(cache)
  BY DEF Init, ToSet, IsInjective
<1>2. Cardinality(Calls) \in Nat
  BY CallsAssumption, FS_CardinalityType
<1>3. TypeOK
  BY <1>1, <1>2, CacheAssumption DEF Init, TypeOK, Out, NotShut, Providers, Grants
<1>4. Counted
  <2>1. \A p \in Providers : UsersOf(p) = {}
    BY DEF Init, UsersOf, Uses, Out
  <2> QED  BY <2>1, FS_EmptySet DEF Counted, Init
<1>5. Tidy
  BY DEF Tidy, Init, Out, Waiting
<1>6. Apart
  BY <1>1 DEF Apart, Stocked, Init, Out, NotShut
<1>7. Placed
  BY <1>1, ProviderAssumption DEF Placed, Stocked, Init, Out, NotShut, Begun, Providers
<1>8. Usable
  BY DEF Usable, Uses, Init, Out, Providers
<1> QED  BY <1>3, <1>4, <1>5, <1>6, <1>7, <1>8 DEF Sound

\* The start of a call: its provider is in the cache, or that of the deployment.
LEMMA Enters ==
  ASSUME Sound, NEW c \in Calls, call[c] = Out, shut = NotShut,
         NEW p \in Providers, NEW lru \in Seq(Built), IsInjective(lru),
         ToSet(lru) = ToSet(cache) \cup ({p} \ {Deployment}),
         p \notin retired, \A d \in Calls : p \notin call[d].todo,
         Enter(c, p, lru), life' = [life EXCEPT ![p] = "open"],
         grant' \in [Providers -> Grants], UNCHANGED <<shut, oauth, dropped, lost>>
  PROVE  Sound'
<1> DEFINE gone == IF Len(lru) > CacheSize THEN retired \cup {Head(lru)} ELSE retired
           count == [inflight EXCEPT ![p] = @ + 1]
           idle == {q \in gone : count[q] = 0}
<1>1. /\ cache' \in Seq(Built) /\ IsInjective(cache')
      /\ ToSet(cache') \cup gone = ToSet(lru) \cup retired
      /\ ToSet(cache') \cap gone = {} /\ gone \subseteq Built
  <2>1. ToSet(lru) \cap retired = {} /\ retired \subseteq Built
    BY DEF Sound, Apart, TypeOK
  <2>2. CASE Len(lru) > CacheSize
    <3>1. lru # <<>>
      BY <2>2, CacheAssumption
    <3>2. cache' = Tail(lru)
      BY <2>2 DEF Enter
    <3> QED  BY <2>1, <2>2, <3>1, <3>2, TailKeeps
  <2>3. CASE ~(Len(lru) > CacheSize)
    <3>1. cache' = lru
      BY <2>3 DEF Enter
    <3> QED  BY <2>1, <2>3, <3>1
  <2> QED  BY <2>2, <2>3
<1>2. /\ inflight' = count /\ retired' = gone \ idle
      /\ call' = [call EXCEPT ![c] =
                    IF idle = {} THEN Begins(c, p, rt)
                    ELSE [Begins(c, p, rt) EXCEPT !.at = "sweeping", !.todo = idle]]
  BY DEF Enter, Idle, Busy
<1>3. /\ call'[c].at \in {"sweeping", "asking", "refreshing"} /\ call'[c].p = p
      /\ call'[c].todo = idle /\ (call'[c].at # "sweeping" => idle = {})
      /\ \A d \in Calls \ {c} : call'[d] = call[d]
      /\ call' \in [Calls -> [at : {"out", "sweeping", "leaving"} \cup Waiting,
                             p : Providers, sent : 0 .. MaxRefresh, todo : SUBSET Built]]
  <2>1. call \in [Calls -> [at : {"out", "sweeping", "leaving"} \cup Waiting,
                           p : Providers, sent : 0 .. MaxRefresh, todo : SUBSET Built]]
    BY DEF Sound, TypeOK
  <2>2. idle \subseteq Built /\ rt[p] \in 0 .. MaxRefresh
    BY <1>1 DEF Sound, TypeOK
  <2> HIDE DEF idle
  <2> QED  BY <1>2, <2>1, <2>2 DEF Begins, Waiting
<1> HIDE DEF gone, idle
<1>4. /\ UsersOf(p)' = UsersOf(p) \cup {c} /\ c \notin UsersOf(p)
      /\ \A q \in Providers \ {p} : UsersOf(q)' = UsersOf(q)
  <2>1. call[c].at = "out"
    BY DEF Out
  <2>2. \A d \in Calls, q \in Providers : Uses(d, q)' <=> Uses(d, q) \/ (d = c /\ q = p)
    BY <1>3, <2>1 DEF Uses
  <2> QED  BY <2>1, <2>2 DEF UsersOf, Uses
<1>5. Counted'
  <2>1. Cardinality(UsersOf(p) \cup {c}) = Cardinality(UsersOf(p)) + 1
    BY <1>4, UsersFinite, FS_AddElement
  <2> QED  BY <1>2, <1>4, <2>1 DEF Counted, Sound, TypeOK
<1>6. \A q \in gone : q \in idle <=> UsersOf(q)' = {}
  <2>1. \A q \in Providers : inflight[q] = 0 <=> UsersOf(q) = {}
    BY NoneInFlight DEF Sound
  <2>2. count[p] # 0
    BY DEF Sound, TypeOK
  <2> QED  BY <1>1, <1>4, <2>1, <2>2 DEF idle, Sound, TypeOK, Providers
<1>7. TypeOK'
  <2>1. inflight' \in [Providers -> 0 .. Cardinality(Calls)]
    <3>1. \A q \in Providers : Cardinality(UsersOf(q)') \in 0 .. Cardinality(Calls)
      BY <1>4, CallsAssumption, FS_Subset, FS_CardinalityType DEF UsersOf
    <3>2. DOMAIN inflight' = Providers /\ inflight' = [q \in Providers |-> inflight'[q]]
      BY <1>2 DEF Sound, TypeOK
    <3> QED  BY <1>5, <3>1, <3>2 DEF Counted
  <2>2. life' \in [Providers -> {"free", "open", "half", "closed"}]
    BY DEF Sound, TypeOK
  <2> QED  BY <1>1, <1>2, <1>3, <2>1, <2>2 DEF Sound, TypeOK
<1>8. Tidy'
  BY <1>3 DEF Tidy, Sound, Waiting
<1>9. Apart'
  <2>1. Stocked' \cup idle = ToSet(lru) \cup retired /\ Stocked' \cap idle = {}
        /\ ToSet(cache') \cap retired' = {} /\ shut'.todo = {}
    BY <1>1, <1>2 DEF Stocked, idle, NotShut
  <2>2. \A d \in Calls : call[d].todo \cap (Stocked' \cup idle) = {}
    BY <2>1 DEF Sound, Apart, Stocked
  <2>3. \A d \in Calls : call'[d].todo \cap Stocked' = {}
    BY <1>3, <2>1, <2>2
  <2>4. \A d, f \in Calls : d # f => call'[d].todo \cap call'[f].todo = {}
    BY <1>3, <2>2 DEF Sound, Apart
  <2> QED  BY <1>1, <2>1, <2>3, <2>4 DEF Apart
<1>10. Placed'
  <2>1. \A q \in Stocked' : life'[q] = "open"
    BY <1>1, <1>2 DEF Stocked, Sound, Placed, TypeOK
  <2>2. \A q \in retired' : UsersOf(q)' # {}
    BY <1>2, <1>6
  <2>3. \A d \in Calls : \A q \in call'[d].todo : Begun(q)'
    <3>1. \A q \in idle : life'[q] = "open"
      BY <1>1 DEF Sound, Placed, Stocked, TypeOK, idle
    <3>2. \A d \in Calls : \A q \in call[d].todo : Begun(q)'
      BY DEF Sound, Placed, TypeOK, Begun
    <3> QED  BY <1>3, <3>1, <3>2 DEF Begun
  <2>4. ASSUME NEW q \in Built, Begun(q)', q \notin dropped'
        PROVE  q \in Stocked' \cup shut'.todo \/ \E d \in Calls : q \in call'[d].todo
    <3>1. CASE q \in ToSet(lru) \cup retired
      BY <1>1, <1>2, <1>3, <3>1 DEF Stocked
    <3>2. CASE q \notin ToSet(lru) \cup retired
      <4>1. q # p /\ life[q] = life'[q] /\ q \notin Stocked
        BY <3>2, ProviderAssumption DEF Stocked, Sound, TypeOK
      <4>2. PICK d \in Calls : q \in call[d].todo
        BY <2>4, <4>1 DEF Sound, Placed, Begun, NotShut
      <4>3. d # c
        BY <4>2 DEF Out
      <4> QED  BY <4>2, <4>3, <1>3
    <3> QED  BY <3>1, <3>2
  <2> QED  BY <2>1, <2>2, <2>3, <2>4 DEF Placed, NotShut
<1>11. Usable'
  <2>1. ASSUME NEW d \in Calls, NEW q \in Built, Uses(d, q)' PROVE q \in Stocked'
    <3>1. q \in ToSet(cache') \cup gone
      BY <1>1, <1>3, <2>1, ProviderAssumption DEF Sound, Usable, Uses, Stocked
    <3>2. d \in UsersOf(q)'
      BY <2>1 DEF UsersOf
    <3> QED  BY <3>1, <3>2, <1>2, <1>6 DEF Stocked
  <2>2. \A q \in Providers : life[q] # "free" => life'[q] # "free"
    BY DEF Sound, TypeOK
  <2>3. \A d \in Calls : call[d].p \in Providers
    BY DEF Sound, TypeOK
  <2>4. life'[p] = "open" /\ Deployment \in Providers
    BY DEF Sound, TypeOK, Providers
  <2>5. life'[Deployment] = "open"
    BY <2>4 DEF Sound, Usable, TypeOK
  <2>6. \A d \in Calls : life'[call'[d].p] # "free"
    BY <1>3, <2>2, <2>3, <2>4 DEF Sound, Usable
  <2> QED  BY <2>1, <2>5, <2>6 DEF Usable
<1> QED  BY <1>5, <1>7, <1>8, <1>9, <1>10, <1>11 DEF Sound

LEMMA RunKeepsSound == ASSUME Sound, NEW c \in Calls, Run(c) PROVE Sound'
<1>0. /\ cache \in Seq(Built) /\ IsInjective(cache) /\ ToSet(cache) \cap retired = {}
      /\ life \in [Providers -> {"free", "open", "half", "closed"}]
      /\ grant \in [Providers -> Grants] /\ Deployment \in Providers /\ Built \subseteq Providers
      /\ Deployment \notin Built
  BY ProviderAssumption DEF Sound, TypeOK, Apart, Providers
<1>1. CASE RunShared(c)
  <2>1. /\ call[c] = Out /\ shut = NotShut /\ Enter(c, Deployment, cache)
        /\ life' = life /\ grant' = grant /\ UNCHANGED <<shut, oauth, dropped, lost>>
    BY <1>1 DEF RunShared
  <2>2. life[Deployment] = "open"
    BY <2>1 DEF Sound, Usable
  <2>3. life' = [life EXCEPT ![Deployment] = "open"]
    BY <1>0, <2>1, <2>2
  <2>4. Deployment \notin retired /\ \A d \in Calls : Deployment \notin call[d].todo
    BY <1>0 DEF Sound, TypeOK
  <2>5. ToSet(cache) = ToSet(cache) \cup ({Deployment} \ {Deployment})
    OBVIOUS
  <2> QED  BY <1>0, <2>1, <2>3, <2>4, <2>5, Enters
<1>2. ASSUME NEW u \in Users, RunCached(c, u) PROVE Sound'
  <2>1. PICK k \in DOMAIN cache : Enter(c, cache[k], Append(RemoveAt(cache, k), cache[k]))
    BY <1>2 DEF RunCached, Cached
  <2> DEFINE p == cache[k]
             kept == RemoveAt(cache, k)
  <2>2. /\ call[c] = Out /\ shut = NotShut
        /\ life' = life /\ grant' = grant /\ UNCHANGED <<shut, oauth, dropped, lost>>
    BY <1>2 DEF RunCached
  <2>3. /\ kept \in Seq(Built) /\ IsInjective(kept) /\ ToSet(kept) = ToSet(cache) \ {p}
        /\ p \in Built
    BY <1>0, RemoveKeeps
  <2>4. p \in ToSet(cache)
    BY DEF ToSet
  <2> HIDE DEF kept, p
  <2>5. /\ Append(kept, p) \in Seq(Built) /\ IsInjective(Append(kept, p))
        /\ ToSet(Append(kept, p)) = ToSet(kept) \cup {p}
    BY <2>3, AppendKeeps
  <2>6. ToSet(Append(kept, p)) = ToSet(cache) \cup ({p} \ {Deployment})
    BY <1>0, <2>3, <2>4, <2>5
  <2>7. p \notin retired /\ life[p] = "open" /\ \A d \in Calls : p \notin call[d].todo
    BY <2>4, <1>0 DEF Sound, Apart, Placed, Stocked
  <2>8. life' = [life EXCEPT ![p] = "open"]
    BY <1>0, <2>2, <2>7
  <2>9. Enter(c, p, Append(kept, p))
    BY <2>1 DEF p, kept
  <2>10. p \in Providers /\ grant' \in [Providers -> Grants]
    BY <1>0, <2>2, <2>3
  <2> QED  BY <2>2, <2>5, <2>6, <2>7, <2>8, <2>9, <2>10, Enters
<1>3. ASSUME NEW u \in Users, RunBuilt(c, u) PROVE Sound'
  <2>1. PICK p \in Built : /\ life[p] = "free" /\ life' = [life EXCEPT ![p] = "open"]
                            /\ grant' = [grant EXCEPT ![p] = u]
                            /\ Enter(c, p, Append(cache, p))
    BY <1>3 DEF RunBuilt
  <2>2. call[c] = Out /\ shut = NotShut /\ UNCHANGED <<shut, oauth, dropped, lost>>
    BY <1>3 DEF RunBuilt
  <2>3. p \notin Stocked /\ \A d \in Calls : p \notin call[d].todo
    BY <2>1 DEF Sound, Placed, Begun
  <2>4. /\ Append(cache, p) \in Seq(Built) /\ IsInjective(Append(cache, p))
        /\ ToSet(Append(cache, p)) = ToSet(cache) \cup {p}
    BY <1>0, <2>3, AppendKeeps DEF Stocked
  <2>5. ToSet(Append(cache, p)) = ToSet(cache) \cup ({p} \ {Deployment})
    BY <1>0, <2>4
  <2>6. p \in Providers /\ grant' \in [Providers -> Grants] /\ p \notin retired
    BY <1>0, <2>1, <2>3 DEF Grants, Stocked
  <2> QED  BY <2>1, <2>2, <2>3, <2>4, <2>5, <2>6, Enters
<1> QED  BY <1>1, <1>2, <1>3 DEF Run

\* The end of a call, which drops what it still had to close.
LEMMA Leaves ==
  ASSUME Sound, NEW c \in Calls, call[c].at \notin {"out", "leaving"}, Leave(c),
         dropped' = dropped \cup call[c].todo, unheard' \subseteq Grants, lost' \in 0 .. MaxLost,
         UNCHANGED <<life, grant, shut, rt, access, current>>
  PROVE  Sound'
<1>p. PICK p \in Providers : p = call[c].p
  BY DEF Sound, TypeOK
<1> DEFINE count == [inflight EXCEPT ![p] = @ - 1]
           idle == {q \in retired : count[q] = 0}
<1>0. retired \subseteq Built /\ Built \subseteq Providers
  BY DEF Sound, TypeOK, Providers
<1>1. /\ inflight' = count /\ retired' = retired \ idle /\ cache' = cache
      /\ call' = [call EXCEPT ![c] =
                   IF idle = {} THEN Out ELSE [Out EXCEPT !.at = "leaving", !.todo = idle]]
  BY <1>p DEF Leave, Idle, Busy
<1>2. /\ call'[c].at \in {"out", "leaving"} /\ call'[c].p = Deployment
      /\ call'[c].todo = idle /\ (call'[c].at = "out" => call'[c] = Out)
      /\ \A d \in Calls \ {c} : call'[d] = call[d]
      /\ call' \in [Calls -> [at : {"out", "sweeping", "leaving"} \cup Waiting,
                             p : Providers, sent : 0 .. MaxRefresh, todo : SUBSET Built]]
  <2>1. call \in [Calls -> [at : {"out", "sweeping", "leaving"} \cup Waiting,
                           p : Providers, sent : 0 .. MaxRefresh, todo : SUBSET Built]]
    BY DEF Sound, TypeOK
  <2>2. idle \subseteq Built /\ 0 \in 0 .. MaxRefresh /\ Deployment \in Providers
    BY CacheAssumption DEF Sound, TypeOK, Providers
  <2> HIDE DEF idle
  <2> QED  BY <1>1, <2>1, <2>2 DEF Out
<1> HIDE DEF idle
<1>3. /\ UsersOf(p)' = UsersOf(p) \ {c} /\ c \in UsersOf(p)
      /\ \A q \in Providers \ {p} : UsersOf(q)' = UsersOf(q)
  <2>1. \A d \in Calls, q \in Providers : Uses(d, q)' <=> Uses(d, q) /\ d # c
    BY <1>2 DEF Uses
  <2>2. \A q \in Providers : Uses(c, q) <=> q = p
    BY <1>p DEF Uses
  <2> QED  BY <1>0, <2>1, <2>2 DEF UsersOf
<1>4. Counted'
  <2>1. Cardinality(UsersOf(p) \ {c}) = Cardinality(UsersOf(p)) - 1
    BY <1>3, UsersFinite, FS_RemoveElement
  <2> QED  BY <1>1, <1>3, <2>1 DEF Counted, Sound, TypeOK
<1>5. \A q \in retired : q \in idle <=> UsersOf(q)' = {}
  <2>1. \A q \in Providers : Cardinality(UsersOf(q)') = 0 <=> UsersOf(q)' = {}
    <3>1. ASSUME NEW q \in Providers PROVE IsFiniteSet(UsersOf(q)')
      BY CallsAssumption, FS_Subset DEF UsersOf
    <3> QED  BY <3>1, FS_EmptySet
  <2> QED  BY <1>0, <1>1, <1>4, <2>1 DEF idle, Counted
<1>6. TypeOK'
  <2>1. inflight' \in [Providers -> 0 .. Cardinality(Calls)]
    <3>1. \A q \in Providers : Cardinality(UsersOf(q)') \in 0 .. Cardinality(Calls)
      BY CallsAssumption, FS_Subset, FS_CardinalityType DEF UsersOf
    <3>2. DOMAIN inflight' = Providers /\ inflight' = [q \in Providers |-> inflight'[q]]
      BY <1>1 DEF Sound, TypeOK
    <3> QED  BY <1>4, <3>1, <3>2 DEF Counted
  <2>2. dropped' \subseteq Providers
    BY <1>0 DEF Sound, TypeOK
  <2> QED  BY <1>1, <1>2, <2>1, <2>2 DEF Sound, TypeOK
<1>7. Tidy'
  BY <1>2 DEF Tidy, Sound, Waiting
<1>8. Stocked' \cup idle = Stocked /\ Stocked' \cap idle = {}
  BY <1>1 DEF Stocked, idle, Sound, Apart
<1>9. Apart'
  <2>1. \A d \in Calls \ {c} : call'[d].todo = call[d].todo
    BY <1>2
  <2>2. call'[c].todo = idle
    BY <1>2
  <2>3. /\ \A d \in Calls : call[d].todo \cap (Stocked \cup shut.todo) = {}
        /\ \A d, f \in Calls : d # f => call[d].todo \cap call[f].todo = {}
        /\ shut.todo \cap Stocked = {}
    BY DEF Sound, Apart
  <2>4. \A d \in Calls : call'[d].todo \cap (Stocked' \cup shut'.todo) = {}
    BY <1>8, <2>1, <2>2, <2>3
  <2>5. \A d, f \in Calls : d # f => call'[d].todo \cap call'[f].todo = {}
    BY <1>8, <2>1, <2>2, <2>3
  <2>6. ToSet(cache') \cap retired' = {} /\ IsInjective(cache')
    BY <1>1 DEF Sound, Apart
  <2> QED  BY <1>8, <2>3, <2>4, <2>5, <2>6 DEF Apart
<1>10. Placed'
  <2>1. \A q \in Stocked' : life'[q] = "open"
    BY <1>8 DEF Sound, Placed
  <2>2. \A q \in retired' : UsersOf(q)' # {}
    BY <1>1, <1>5
  <2>3. \A d \in Calls : \A q \in call'[d].todo : Begun(q)'
    BY <1>2, <1>8 DEF Sound, Placed, Begun
  <2>4. ASSUME NEW q \in Built, Begun(q)', q \notin dropped'
        PROVE  q \in Stocked' \cup shut'.todo \/ \E d \in Calls : q \in call'[d].todo
    BY <1>2, <1>8, <2>4 DEF Sound, Placed, Begun
  <2>5. \A q \in shut'.todo : Begun(q)'
    BY DEF Sound, Placed, Begun
  <2> QED  BY <2>1, <2>2, <2>3, <2>4, <2>5 DEF Placed
<1>11. Usable'
  <2>1. ASSUME NEW d \in Calls, NEW q \in Built, Uses(d, q)', shut = NotShut PROVE q \in Stocked'
    <3>1. q \in Stocked
      BY <1>2, <2>1 DEF Sound, Usable, Uses
    <3>2. d \in UsersOf(q)'
      BY <2>1 DEF UsersOf
    <3> QED  BY <3>1, <3>2, <1>1, <1>5 DEF Stocked
  <2> QED  BY <1>2, <2>1 DEF Sound, Usable
<1> QED  BY <1>4, <1>6, <1>7, <1>9, <1>10, <1>11 DEF Sound

\* A step of a call between its requests.
LEMMA Waits ==
  ASSUME Sound, NEW c \in Calls, call[c].at \in Waiting,
         NEW e \in CallRecords, call' = [call EXCEPT ![c] = e],
         e.at \in Waiting, e.p = call[c].p, e.todo = call[c].todo,
         rt' \in [Providers -> 0 .. MaxRefresh], current' \in [Grants -> 0 .. MaxRefresh],
         access' \in [Providers -> {"none", "valid", "expired"}],
         UNCHANGED <<life, grant, pools, shut, dropped, unheard, lost>>
  PROVE  Sound'
<1>1. /\ call \in [Calls -> CallRecords] /\ call' \in [Calls -> CallRecords]
      /\ call[c].todo = {} /\ e.todo = {}
  BY DEF Sound, TypeOK, CallRecords, Tidy
<1>2. /\ \A d \in Calls : call'[d].p = call[d].p /\ call'[d].todo = call[d].todo
      /\ \A d \in Calls : d = c \/ call'[d] = call[d]
      /\ call'[c] = e
  BY <1>1
<1>3. \A d \in Calls : \A p : Uses(d, p)' <=> Uses(d, p)
  BY <1>2 DEF Uses, Waiting
<1>4. \A p : UsersOf(p)' = UsersOf(p)
  BY <1>3 DEF UsersOf
<1>5. TypeOK'
  BY <1>1 DEF Sound, TypeOK, CallRecords
<1>6. Counted'
  BY <1>4 DEF Sound, Counted
<1>7. Tidy'
  BY <1>1, <1>2 DEF Sound, Tidy, Waiting
<1>8. Stocked' = Stocked
  BY DEF Stocked
<1>9. Apart'
  BY <1>2, <1>8 DEF Sound, Apart
<1>10. Placed'
  BY <1>2, <1>4, <1>8 DEF Sound, Placed, Begun
<1>11. Usable'
  BY <1>2, <1>3, <1>8 DEF Sound, Usable
<1> QED  BY <1>5, <1>6, <1>7, <1>9, <1>10, <1>11 DEF Sound

LEMMA AnswersKeepsSound == ASSUME Sound, NEW c \in Calls, Answers(c) PROVE Sound'
<1> DEFINE g == grant[call[c].p]
<1>0. /\ call[c].at = "refreshing" /\ call[c].at \in Waiting /\ call[c] \in CallRecords
      /\ DOMAIN call = Calls
      /\ rt \in [Providers -> 0 .. MaxRefresh] /\ access \in [Providers -> {"none", "valid", "expired"}]
      /\ current \in [Grants -> 0 .. MaxRefresh] /\ g \in Grants
  BY DEF Answers, Waiting, Sound, TypeOK, CallRecords
<1>1. UNCHANGED <<life, grant, pools, shut, rt, access, dropped, unheard, lost>>
  BY DEF Answers
<1>2. CASE call[c].sent = current[g]
  <2> DEFINE e == [call[c] EXCEPT !.at = "granted", !.sent = Rotated(g)]
  <2>1. /\ Rotated(g) \in 0 .. MaxRefresh /\ current' = [current EXCEPT ![g] = Rotated(g)]
        /\ call' = [call EXCEPT ![c] = e]
    <3>1. Rotated(g) <= MaxRefresh /\ current' = [current EXCEPT ![g] = Rotated(g)]
      BY <1>2 DEF Answers
    <3>2. call' = [call EXCEPT ![c].at = "granted", ![c].sent = Rotated(g)]
      BY <1>2 DEF Answers
    <3>3. current[g] \in 0 .. MaxRefresh
      BY <1>0
    <3> HIDE DEF g
    <3>4. Rotated(g) \in 0 .. MaxRefresh
      BY <3>1, <3>3, CacheAssumption DEF Rotated
    <3> QED  BY <1>0, <3>1, <3>2, <3>4
  <2>2. e \in CallRecords /\ e.at \in Waiting /\ e.p = call[c].p /\ e.todo = call[c].todo
    BY <1>0, <2>1 DEF CallRecords, Waiting
  <2>3. current' \in [Grants -> 0 .. MaxRefresh]
    BY <1>0, <2>1
  <2> HIDE DEF e, g
  <2> QED  BY <1>0, <1>1, <2>1, <2>2, <2>3, Waits
<1>3. CASE call[c].sent # current[g]
  <2> DEFINE e == [call[c] EXCEPT !.at = "refused"]
  <2>1. current' = current /\ call' = [call EXCEPT ![c] = e]
    BY <1>3 DEF Answers
  <2>2. e \in CallRecords /\ e.at \in Waiting /\ e.p = call[c].p /\ e.todo = call[c].todo
    BY <1>0 DEF CallRecords, Waiting
  <2> HIDE DEF e, g
  <2> QED  BY <1>0, <1>1, <2>1, <2>2, Waits
<1> QED  BY <1>2, <1>3

LEMMA RefreshedKeepsSound == ASSUME Sound, NEW c \in Calls, Refreshed(c) PROVE Sound'
<1> DEFINE e == [call[c] EXCEPT !.at = "asking", !.sent = 0]
<1>0. /\ call[c].at = "granted" /\ call[c].at \in Waiting /\ call[c] \in CallRecords
      /\ DOMAIN call = Calls
      /\ rt \in [Providers -> 0 .. MaxRefresh] /\ access \in [Providers -> {"none", "valid", "expired"}]
      /\ current \in [Grants -> 0 .. MaxRefresh]
  BY DEF Refreshed, Waiting, Sound, TypeOK, CallRecords
<1>1. /\ call' = [call EXCEPT ![c] = e]
      /\ rt' = [rt EXCEPT ![call[c].p] = call[c].sent]
      /\ access' = [access EXCEPT ![call[c].p] = "valid"]
      /\ UNCHANGED <<life, grant, pools, shut, current, dropped, unheard, lost>>
  BY DEF Refreshed, Takes
<1>2. e \in CallRecords /\ e.at \in Waiting /\ e.p = call[c].p /\ e.todo = call[c].todo
  <2>1. 0 \in 0 .. MaxRefresh
    BY CacheAssumption
  <2> QED  BY <1>0, <2>1 DEF CallRecords, Waiting
<1>3. rt' \in [Providers -> 0 .. MaxRefresh] /\ access' \in [Providers -> {"none", "valid", "expired"}]
  BY <1>0, <1>1 DEF CallRecords
<1> HIDE DEF e
<1> QED  BY <1>0, <1>1, <1>2, <1>3, Waits

LEMMA ReturnsKeepsSound == ASSUME Sound, NEW c \in Calls, Returns(c) PROVE Sound'
<1>1. /\ call[c].at \in Waiting /\ call[c].at \notin {"out", "leaving"} /\ Leave(c)
      /\ UNCHANGED <<life, grant, shut, rt, access, current>> /\ UNCHANGED <<dropped, unheard, lost>>
  BY DEF Returns, Waiting
<1>2. /\ dropped' = dropped \cup call[c].todo /\ unheard' \subseteq Grants
      /\ lost' \in 0 .. MaxLost
  BY <1>1 DEF Sound, Tidy, TypeOK
<1> QED  BY <1>1, <1>2, Leaves

LEMMA UnreadKeepsSound == ASSUME Sound, NEW c \in Calls, Unread(c) PROVE Sound'
<1>1. /\ call[c].at \in Waiting /\ call[c].at \notin {"out", "leaving"} /\ Leave(c)
      /\ UNCHANGED <<life, grant, shut, rt, access, current, dropped>>
      /\ lost < MaxLost /\ lost' = lost + 1
  BY DEF Unread, Waiting
<1>2. unheard' \subseteq Grants
  <2>1. grant[call[c].p] \in Grants /\ unheard \subseteq Grants
    BY DEF Sound, TypeOK
  <2> QED  BY <2>1 DEF Unread, Unheard
<1>3. dropped' = dropped \cup call[c].todo
  BY <1>1 DEF Sound, Tidy
<1>4. lost' \in 0 .. MaxLost
  BY <1>1, CacheAssumption DEF Sound, TypeOK
<1> QED  BY <1>1, <1>2, <1>3, <1>4, Leaves

LEMMA CancelKeepsSound == ASSUME Sound, NEW c \in Calls, Cancel(c) PROVE Sound'
<1>0. /\ call \in [Calls -> CallRecords] /\ grant \in [Providers -> Grants]
      /\ unheard \subseteq Grants /\ lost \in 0 .. MaxLost
  BY DEF Sound, TypeOK, CallRecords
<1>1. /\ unheard' \subseteq Grants /\ lost' \in 0 .. MaxLost
      /\ dropped' = dropped \cup call[c].todo
      /\ UNCHANGED <<life, grant, shut, rt, access, current>> /\ call[c] # Out
  <2>1. lost' \in 0 .. MaxLost
    BY <1>0, CacheAssumption DEF Cancel
  <2>2. grant[call[c].p] \in Grants
    BY <1>0 DEF CallRecords
  <2> QED  BY <1>0, <2>1, <2>2 DEF Cancel, Unheard
<1>2. CASE call[c].at # "leaving"
  <2>1. call[c].at \notin {"out", "leaving"} /\ Leave(c)
    BY <1>1, <1>2 DEF Sound, Tidy, Cancel
  <2> QED  BY <1>1, <2>1, Leaves
<1>3. CASE call[c].at = "leaving"
  <2>1. call' = [call EXCEPT ![c] = Out] /\ UNCHANGED pools
    BY <1>3 DEF Cancel
  <2>2. call[c].p = Deployment /\ Out \in CallRecords
    BY <1>3, CacheAssumption DEF Sound, Tidy, Out, CallRecords, Providers
  <2>3. /\ \A d \in Calls : call'[d].p = call[d].p /\ (d = c \/ call'[d] = call[d])
        /\ call'[c] = Out /\ call'[c].todo = {} /\ call' \in [Calls -> CallRecords]
    BY <1>0, <2>1, <2>2 DEF Out
  <2>4. \A d \in Calls : \A p : Uses(d, p)' <=> Uses(d, p)
    BY <1>3, <2>3 DEF Uses, Out
  <2>5. \A p : UsersOf(p)' = UsersOf(p)
    BY <2>4 DEF UsersOf
  <2>6. TypeOK'
    <3>1. dropped' \subseteq Providers
      BY <1>0, <1>1 DEF Sound, TypeOK, CallRecords, Providers
    <3> QED  BY <1>1, <2>1, <2>3, <3>1 DEF Sound, TypeOK, CallRecords
  <2>7. Counted'
    BY <2>1, <2>5 DEF Sound, Counted
  <2>8. Tidy'
    BY <2>3 DEF Sound, Tidy, Waiting, Out
  <2>9. Stocked' = Stocked
    BY <2>1 DEF Stocked
  <2>10. Apart'
    BY <1>1, <2>1, <2>3, <2>9 DEF Sound, Apart
  <2>11. Placed'
    <3>1. ASSUME NEW q \in Built, Begun(q), q \notin dropped', NEW d \in Calls, q \in call[d].todo
          PROVE  q \in call'[d].todo
      BY <1>1, <2>3, <3>1
    <3> QED  BY <1>1, <2>1, <2>3, <2>5, <2>9, <3>1 DEF Sound, Placed, Begun
  <2>12. Usable'
    BY <1>1, <2>3, <2>4, <2>9 DEF Sound, Usable
  <2> QED  BY <2>6, <2>7, <2>8, <2>10, <2>11, <2>12 DEF Sound
<1> QED  BY <1>2, <1>3

LEMMA ExpireKeepsSound == ASSUME Sound, NEW p \in Providers, Expire(p) PROVE Sound'
<1>1. /\ access' \in [Providers -> {"none", "valid", "expired"}]
      /\ UNCHANGED <<life, grant, pools, call, shut, rt, current, dropped, unheard, lost>>
  BY DEF Expire, Sound, TypeOK
<1> QED  BY <1>1 DEF Sound, TypeOK, Counted, UsersOf, Uses, Tidy, Apart, Stocked, Placed, Begun, Usable

LEMMA NextIsThere == ASSUME NEW todo, NEW p \in NextToClose(todo) PROVE p \in todo
BY DEF NextToClose

LEMMA SweepKeepsSound ==
  ASSUME Sound, NEW c \in Calls, NEW failed \in BOOLEAN, Sweep(c, failed)
  PROVE  Sound'
<1>0. PICK p \in NextToClose(call[c].todo) :
         LET rest == IF failed \/ life[p] = "half" THEN call[c].todo \ {p} ELSE call[c].todo
         IN /\ Closes(p, failed)
            /\ call' = [call EXCEPT ![c] =
                 CASE rest # {} -> [@ EXCEPT !.todo = rest]
                   [] rest = {} /\ @.at = "leaving" -> Out
                   [] OTHER -> Begins(c, @.p, rt)]
  BY DEF Sweep
<1> DEFINE rest == IF failed \/ life[p] = "half" THEN call[c].todo \ {p} ELSE call[c].todo
<1>1. /\ Closes(p, failed)
      /\ call' = [call EXCEPT ![c] =
                   CASE rest # {} -> [@ EXCEPT !.todo = rest]
                     [] rest = {} /\ @.at = "leaving" -> Out
                     [] OTHER -> Begins(c, @.p, rt)]
      /\ UNCHANGED <<grant, pools, shut, oauth>>
  BY <1>0 DEF Sweep
<1>2. /\ call \in [Calls -> CallRecords] /\ rt \in [Providers -> 0 .. MaxRefresh]
      /\ life \in [Providers -> {"free", "open", "half", "closed"}]
      /\ dropped \subseteq Providers /\ lost \in 0 .. MaxLost /\ Built \subseteq Providers
  BY DEF Sound, TypeOK, CallRecords, Providers
<1>3. /\ p \in call[c].todo /\ p \in Built /\ p # Deployment /\ Begun(p)
      /\ p \notin Stocked /\ p \notin shut.todo /\ \A d \in Calls \ {c} : p \notin call[d].todo
      /\ call[c].at \in {"sweeping", "leaving"}
  <2>1. p \in call[c].todo
    BY <1>0, NextIsThere
  <2>2. p \in Built
    BY <1>2, <2>1 DEF CallRecords
  <2>3. call[c].at \in {"sweeping", "leaving"}
    BY <1>2, <2>1 DEF CallRecords, Sound, Tidy, Out
  <2> QED  BY <2>1, <2>2, <2>3, ProviderAssumption DEF Sound, Apart, Placed
<1>4. /\ rest \subseteq call[c].todo /\ call[c].todo \subseteq rest \cup {p}
      /\ p \in rest => ~failed /\ life[p] = "open"
      /\ p \notin rest => failed \/ life[p] = "half"
  BY <1>3 DEF Begun
<1> HIDE DEF rest
<1>5. /\ life' \in [Providers -> {"free", "open", "half", "closed"}]
      /\ dropped' \subseteq Providers /\ dropped \subseteq dropped' /\ lost' \in 0 .. MaxLost
      /\ \A q \in Providers \ {p} : life'[q] = life[q]
      /\ life'[p] # "free"
      /\ p \in rest => life'[p] = "half"
      /\ p \notin rest => life'[p] = "closed" \/ p \in dropped'
  <2>1. CASE failed
    <3>1. life' = life /\ dropped' = dropped \cup {p} /\ lost < MaxLost /\ lost' = lost + 1
      BY <1>1, <2>1 DEF Closes
    <3> QED  BY <1>2, <1>3, <1>4, <2>1, <3>1, CacheAssumption DEF Begun
  <2>2. CASE ~failed
    <3>1. /\ life' = [life EXCEPT ![p] = IF @ = "open" THEN "half" ELSE "closed"]
          /\ dropped' = dropped /\ lost' = lost
      BY <1>1, <2>2 DEF Closes
    <3> QED  BY <1>2, <1>3, <1>4, <2>2, <3>1 DEF Begun
  <2> QED  BY <2>1, <2>2
<1>6. /\ call' \in [Calls -> CallRecords] /\ \A d \in Calls \ {c} : call'[d] = call[d]
      /\ call'[c].p = call[c].p /\ call'[c].todo = rest
      /\ call'[c].at \in {"out", "leaving"} <=> call[c].at = "leaving"
      /\ call'[c].at = "out" => call'[c] = Out
      /\ call'[c].at \in Waiting => rest = {}
  <2>1. CASE rest # {}
    <3>1. call' = [call EXCEPT ![c] = [@ EXCEPT !.todo = rest]]
      BY <1>1, <2>1
    <3>2. call[c].todo \subseteq Built
      BY <1>2 DEF CallRecords
    <3> QED  BY <1>2, <1>3, <1>4, <3>1, <3>2 DEF CallRecords, Waiting
  <2>2. CASE rest = {} /\ call[c].at = "leaving"
    <3>1. call' = [call EXCEPT ![c] = Out]
      BY <1>1, <2>2
    <3>2. Out \in CallRecords /\ call[c].p = Deployment
      BY <2>2, CacheAssumption DEF Out, CallRecords, Providers, Sound, Tidy
    <3> QED  BY <1>2, <2>2, <3>1, <3>2 DEF Out, Waiting
  <2>3. CASE rest = {} /\ call[c].at # "leaving"
    <3>1. call' = [call EXCEPT ![c] = Begins(c, call[c].p, rt)]
      BY <1>1, <2>3
    <3>2. call[c].p \in Providers
      BY <1>2 DEF CallRecords
    <3>3. Begins(c, call[c].p, rt) \in CallRecords
      BY <1>2, <3>2 DEF Begins, CallRecords, Waiting
    <3> QED  BY <1>2, <2>3, <3>1, <3>3 DEF Begins, Waiting
  <2> QED  BY <2>1, <2>2, <2>3
<1>7. \A d \in Calls : \A q : Uses(d, q)' <=> Uses(d, q)
  BY <1>3, <1>6 DEF Uses
<1>8. \A q : UsersOf(q)' = UsersOf(q)
  BY <1>7 DEF UsersOf
<1>9. Stocked' = Stocked
  BY <1>1 DEF Stocked
<1>10. TypeOK'
  BY <1>1, <1>5, <1>6 DEF Sound, TypeOK, CallRecords
<1>11. Counted'
  BY <1>1, <1>8 DEF Sound, Counted
<1>12. Tidy'
  BY <1>6 DEF Sound, Tidy
<1>13. Apart'
  BY <1>1, <1>4, <1>6, <1>9 DEF Sound, Apart
<1>14. Placed'
  <2>1. \A q \in Stocked' : life'[q] = "open"
    <3>1. Stocked \subseteq Providers
      BY <1>2 DEF Sound, TypeOK, Stocked, ToSet
    <3> QED  BY <1>3, <1>5, <1>9, <3>1 DEF Sound, Placed
  <2>2. \A q \in retired' : UsersOf(q)' # {}
    BY <1>1, <1>8 DEF Sound, Placed
  <2>3. \A d \in Calls : \A q \in call'[d].todo : Begun(q)'
    <3>1. \A d \in Calls : call[d].todo \subseteq Providers
      BY <1>2 DEF CallRecords
    <3>2. \A d \in Calls : \A q \in call[d].todo \ {p} : Begun(q)'
      BY <1>5, <3>1 DEF Sound, Placed, Begun
    <3> QED  BY <1>3, <1>4, <1>5, <1>6, <3>2 DEF Begun
  <2>4. \A q \in shut'.todo : Begun(q)'
    BY <1>1, <1>3, <1>5 DEF Sound, Placed, Begun, TypeOK
  <2>5. ASSUME NEW q \in Built, Begun(q)', q \notin dropped'
        PROVE  q \in Stocked' \cup shut'.todo \/ \E d \in Calls : q \in call'[d].todo
    <3>1. CASE q = p
      BY <1>5, <1>6, <2>5, <3>1 DEF Begun
    <3>2. CASE q # p
      <4>1. Begun(q) /\ q \notin dropped
        BY <1>2, <1>5, <2>5, <3>2 DEF Begun
      <4> QED  BY <1>1, <1>4, <1>6, <1>9, <3>2, <4>1 DEF Sound, Placed
    <3> QED  BY <3>1, <3>2
  <2> QED  BY <2>1, <2>2, <2>3, <2>4, <2>5 DEF Placed
<1>15. Usable'
  <2>1. \A q \in Providers : life[q] # "free" => life'[q] # "free"
    BY <1>5
  <2>2. \A d \in Calls : call[d].p \in Providers /\ call'[d].p = call[d].p
    BY <1>2, <1>6 DEF CallRecords
  <2>3. Deployment \in Providers /\ life'[Deployment] = life[Deployment]
    BY <1>3, <1>5 DEF Providers
  <2> QED  BY <1>1, <1>7, <1>9, <2>1, <2>2, <2>3 DEF Sound, Usable
<1> QED  BY <1>10, <1>11, <1>12, <1>13, <1>14, <1>15 DEF Sound

LEMMA ShutKeepsSound == ASSUME Sound, Shut PROVE Sound'
<1>1. /\ shut = NotShut /\ shut' = [at |-> "closing", todo |-> {Deployment} \cup Stocked]
      /\ cache' = <<>> /\ retired' = {}
      /\ UNCHANGED <<life, grant, inflight, call, oauth, dropped, lost>>
  BY DEF Shut, Stocked
<1>2. /\ cache' \in Seq(Built) /\ IsInjective(cache') /\ ToSet(cache') = {} /\ Stocked' = {}
  BY <1>1 DEF IsInjective, ToSet, Stocked
<1>3. Stocked \subseteq Built
  BY DEF Stocked, ToSet, Sound, TypeOK
<1>4. \A q : UsersOf(q)' = UsersOf(q)
  BY <1>1 DEF UsersOf, Uses
<1>5. TypeOK'
  <2>1. shut' \in [at : {"no", "closing", "done"}, todo : SUBSET Providers]
    BY <1>1, <1>3 DEF Providers
  <2> QED  BY <1>1, <1>2, <2>1 DEF Sound, TypeOK
<1>6. Counted' /\ Tidy'
  BY <1>1, <1>4 DEF Sound, Counted, Tidy
<1>7. Apart'
  <2>1. \A c \in Calls : call[c].todo \subseteq Built /\ call[c].todo \cap Stocked = {}
    BY DEF Sound, TypeOK, Apart
  <2> QED  BY <1>1, <1>2, <2>1, ProviderAssumption DEF Sound, Apart
<1>8. Placed'
  BY <1>1, <1>2 DEF Sound, Placed, Begun, NotShut, Usable
<1>9. Usable'
  BY <1>1 DEF Sound, Usable, NotShut
<1> QED  BY <1>5, <1>6, <1>7, <1>8, <1>9 DEF Sound

LEMMA ShutSweepKeepsSound ==
  ASSUME Sound, NEW failed \in BOOLEAN, ShutSweep(failed)
  PROVE  Sound'
<1>0. PICK p \in NextToClose(shut.todo) :
         LET rest == IF life[p] = "half" THEN shut.todo \ {p} ELSE shut.todo
         IN IF failed
            THEN /\ lost < MaxLost /\ lost' = lost + 1
                 /\ dropped' = dropped \cup shut.todo
                 /\ shut' = [at |-> "done", todo |-> {}]
                 /\ UNCHANGED life
            ELSE /\ Closes(p, FALSE)
                 /\ shut' = [at |-> IF rest = {} THEN "done" ELSE "closing", todo |-> rest]
  BY DEF ShutSweep
<1>1. shut.at = "closing" /\ UNCHANGED <<grant, pools, call, oauth>>
  BY DEF ShutSweep
<1>2. /\ life \in [Providers -> {"free", "open", "half", "closed"}]
      /\ shut.todo \subseteq Providers /\ dropped \subseteq Providers /\ lost \in 0 .. MaxLost
      /\ \A c \in Calls : call[c].p \in Providers /\ call[c].todo \subseteq Providers
      /\ Stocked \subseteq Providers /\ Deployment \in Providers /\ Built \subseteq Providers
  BY DEF Sound, TypeOK, Providers, Stocked, ToSet
<1>3. /\ p \in shut.todo /\ Begun(p) /\ p \notin Stocked /\ \A c \in Calls : p \notin call[c].todo
  <2>1. p \in shut.todo
    BY <1>0, NextIsThere
  <2> QED  BY <2>1 DEF Sound, Apart, Placed
<1>4. /\ shut' \in [at : {"no", "closing", "done"}, todo : SUBSET Providers]
      /\ shut'.todo \subseteq shut.todo /\ shut' # NotShut
      /\ life' \in [Providers -> {"free", "open", "half", "closed"}]
      /\ dropped' \subseteq Providers /\ dropped \subseteq dropped' /\ lost' \in 0 .. MaxLost
      /\ \A q \in Providers \ {p} : life'[q] = life[q]
      /\ life'[p] # "free"
      /\ p \in shut'.todo => life'[p] = "half"
      /\ p \notin shut'.todo => life'[p] = "closed" \/ p \in dropped'
      /\ \A q \in shut.todo \ {p} : q \in shut'.todo \/ q \in dropped'
  <2>1. CASE failed
    <3>1. /\ lost < MaxLost /\ lost' = lost + 1 /\ dropped' = dropped \cup shut.todo
          /\ shut' = [at |-> "done", todo |-> {}] /\ life' = life
      BY <1>0, <2>1
    <3> QED  BY <1>2, <1>3, <3>1, CacheAssumption DEF Begun, NotShut
  <2>2. CASE ~failed
    <3> DEFINE rest == IF life[p] = "half" THEN shut.todo \ {p} ELSE shut.todo
    <3>1. /\ life' = [life EXCEPT ![p] = IF @ = "open" THEN "half" ELSE "closed"]
          /\ dropped' = dropped /\ lost' = lost
          /\ shut' = [at |-> IF rest = {} THEN "done" ELSE "closing", todo |-> rest]
      BY <1>0, <2>2 DEF Closes
    <3>2. /\ rest \subseteq shut.todo /\ shut.todo \subseteq rest \cup {p}
          /\ p \in rest => life[p] = "open"
          /\ p \notin rest => life[p] = "half"
      BY <1>3 DEF Begun
    <3> HIDE DEF rest
    <3> QED  BY <1>2, <1>3, <3>1, <3>2 DEF Begun, NotShut
  <2> QED  BY <2>1, <2>2
<1>5. \A q : UsersOf(q)' = UsersOf(q)
  BY <1>1 DEF UsersOf, Uses
<1>6. Stocked' = Stocked
  BY <1>1 DEF Stocked
<1>7. TypeOK'
  BY <1>1, <1>4 DEF Sound, TypeOK
<1>8. Counted' /\ Tidy'
  BY <1>1, <1>5 DEF Sound, Counted, Tidy
<1>9. Apart'
  BY <1>1, <1>4, <1>6 DEF Sound, Apart
<1>10. Placed'
  <2>1. \A q \in Stocked' : life'[q] = "open"
    BY <1>2, <1>3, <1>4, <1>6 DEF Sound, Placed
  <2>2. \A q \in retired' : UsersOf(q)' # {}
    BY <1>1, <1>5 DEF Sound, Placed
  <2>3. \A c \in Calls : \A q \in call'[c].todo : Begun(q)'
    BY <1>1, <1>2, <1>3, <1>4 DEF Sound, Placed, Begun
  <2>4. \A q \in shut'.todo : Begun(q)'
    BY <1>2, <1>4 DEF Sound, Placed, Begun
  <2>5. ASSUME NEW q \in Built, Begun(q)', q \notin dropped'
        PROVE  q \in Stocked' \cup shut'.todo \/ \E c \in Calls : q \in call'[c].todo
    BY <1>1, <1>2, <1>4, <1>6, <2>5 DEF Sound, Placed, Begun
  <2> QED  BY <2>1, <2>2, <2>3, <2>4, <2>5 DEF Placed
<1>11. Usable'
  <2>1. \A q \in Providers : life[q] # "free" => life'[q] # "free"
    BY <1>4
  <2> QED  BY <1>1, <1>2, <1>4, <2>1 DEF Sound, Usable
<1> QED  BY <1>7, <1>8, <1>9, <1>10, <1>11 DEF Sound

LEMMA StepSound == ASSUME Sound, [Next]_vars PROVE Sound'
<1>1. CASE UNCHANGED vars
  BY <1>1 DEF vars, Sound, TypeOK, Counted, UsersOf, Uses, Tidy, Apart, Stocked, Placed, Begun, Usable
<1>2. CASE Next
  BY <1>2, RunKeepsSound, AnswersKeepsSound, RefreshedKeepsSound, ReturnsKeepsSound,
     UnreadKeepsSound, CancelKeepsSound, SweepKeepsSound, ExpireKeepsSound, ShutKeepsSound, ShutSweepKeepsSound
     DEF Next
<1> QED  BY <1>1, <1>2

LEMMA SoundAlways == Spec => []Sound
BY InitSound, StepSound, PTL DEF Spec

\* Type correctness: in particular no more calls are counted than there are.
THEOREM TypeCorrect == Spec => []TypeOK
<1>1. Sound => TypeOK
  BY DEF Sound
<1> QED  BY <1>1, SoundAlways, PTL

\* While the surface serves, nothing closes a client of a provider that a call uses
\* or that the cache will hand to a later one: eviction waits for the last call of
\* whoever it evicts (_acquire, _release, _close_idle_retired).  Nothing is said of
\* aclose(), which closes the providers under the calls that use them.
THEOREM ClosedOnlyIdle == Spec => []NeverClosedInUse
<1>1. Sound => NeverClosedInUse
  <2> SUFFICES ASSUME Sound, shut = NotShut, NEW p \in Providers,
                      inflight[p] > 0 \/ p = Deployment \/ p \in ToSet(cache)
               PROVE  life[p] = "open"
    BY DEF NeverClosedInUse
  <2>1. CASE p = Deployment
    BY <2>1 DEF Sound, Usable
  <2>2. CASE p \in ToSet(cache)
    BY <2>2 DEF Sound, Placed, Stocked
  <2>3. CASE inflight[p] > 0 /\ p # Deployment
    <3>1. UsersOf(p) # {} /\ p \in Built
      BY <2>3, NoneInFlight DEF Sound, Providers
    <3> QED  BY <3>1 DEF UsersOf, Sound, Usable, Placed
  <2> QED  BY <2>1, <2>2, <2>3
<1> QED  BY <1>1, SoundAlways, PTL

\* Nothing is given up where no call was cancelled and nothing failed.
LossDrops == dropped # {} => lost > 0

LEMMA LossDropsStep == ASSUME Sound, LossDrops, [Next]_vars PROVE LossDrops'
<1>1. lost \in Nat
  BY CacheAssumption DEF Sound, TypeOK
<1>2. \/ dropped' = dropped /\ lost' = lost
      \/ lost' = lost + 1
  <2>1. ASSUME NEW c \in Calls, Run(c) PROVE dropped' = dropped /\ lost' = lost
    BY <2>1 DEF Run, RunShared, RunCached, RunBuilt
  <2>2. ASSUME NEW c \in Calls, Answers(c) \/ Refreshed(c) \/ Returns(c)
        PROVE  dropped' = dropped /\ lost' = lost
    BY <2>2 DEF Answers, Refreshed, Returns
  <2>3. ASSUME NEW c \in Calls, Cancel(c) \/ Unread(c) PROVE lost' = lost + 1
    BY <2>3 DEF Cancel, Unread
  <2>4. ASSUME NEW c \in Calls, NEW failed \in BOOLEAN, Sweep(c, failed)
        PROVE  (dropped' = dropped /\ lost' = lost) \/ lost' = lost + 1
    BY <2>4 DEF Sweep, Closes
  <2>5. ASSUME NEW failed \in BOOLEAN, ShutSweep(failed)
        PROVE  (dropped' = dropped /\ lost' = lost) \/ lost' = lost + 1
    BY <2>5 DEF ShutSweep, Closes
  <2>6. CASE Shut \/ (\E p \in Providers : Expire(p)) \/ UNCHANGED vars
    BY <2>6 DEF Shut, Expire, vars
  <2> QED  BY <2>1, <2>2, <2>3, <2>4, <2>5, <2>6 DEF Next
<1> QED  BY <1>1, <1>2 DEF LossDrops

\* An evicted provider has one closer at most: it is kept for a call that uses it or is
\* exactly one call's or aclose()'s to close, or it was given up, by a call cancelled while
\* it closed or a close that raised, and leaks: where neither came about, none does.
THEOREM OneCloser == Spec => []EvictedAreClosed
<1>1. Sound /\ LossDrops => EvictedAreClosed
  <2> SUFFICES ASSUME Sound, LossDrops, NEW p \in Built
               PROVE  /\ Cardinality(Closers(p)) <= 1
                      /\ p \in dropped => lost > 0
                      /\ (life[p] \in {"open", "half"} /\ p \notin dropped) =>
                           \/ p \in ToSet(cache)
                           \/ p \in retired /\ inflight[p] > 0
                           \/ Closers(p) # {}
    BY DEF EvictedAreClosed
  <2>1. \A x, y \in Closers(p) : x = y
    BY DEF Closers, Sound, Apart
  <2>2. Cardinality(Closers(p)) <= 1
    <3>1. CASE Closers(p) = {}
      BY <3>1, FS_EmptySet
    <3>2. CASE Closers(p) # {}
      <4>1. PICK x \in Closers(p) : Closers(p) = {x}
        BY <2>1, <3>2
      <4>2. Cardinality({x}) = 1
        BY FS_Singleton
      <4> QED  BY <4>1, <4>2
    <3> QED  BY <3>1, <3>2
  <2>3. ASSUME life[p] \in {"open", "half"}, p \notin dropped
        PROVE  \/ p \in ToSet(cache)
               \/ p \in retired /\ inflight[p] > 0
               \/ Closers(p) # {}
    <3>1. p \in Stocked \cup shut.todo \/ \E c \in Calls : p \in call[c].todo
      BY <2>3 DEF Sound, Placed, Begun
    <3>2. p \in retired => inflight[p] > 0
      <4>1. p \in Providers /\ inflight[p] \in Nat
        BY DEF Sound, TypeOK, Providers
      <4> QED  BY <4>1, NoneInFlight DEF Sound, Placed
    <3> QED  BY <3>1, <3>2 DEF Stocked, Closers
  <2> QED  BY <2>2, <2>3 DEF LossDrops
<1>2. Init => LossDrops
  BY DEF Init, LossDrops
<1> QED  BY <1>1, <1>2, LossDropsStep, SoundAlways, PTL DEF Spec

-----------------------------------------------------------------------------
(* The rotations of a refresh token                                        *)

Sole(p) == life[p] # "free" /\ OnlyProviderOf(p) /\ grant[p] \notin unheard
Grantees(p) == {c \in Calls : call[c].at = "granted" /\ call[c].p = p}

\* p is a rotation behind only while one call of it has the answer, and no
\* request that is under way carries a later token than p holds.
Fresh(p) ==
  /\ \A c \in Calls : call[c].at = "refreshing" /\ call[c].p = p => call[c].sent <= rt[p]
  /\ \/ rt[p] = current[grant[p]] /\ Grantees(p) = {}
     \/ /\ rt[p] < current[grant[p]]
        /\ \E c \in Calls : Grantees(p) = {c} /\ call[c].sent = current[grant[p]]

Rotating ==
  /\ \A p \in Providers : life[p] = "free" => rt[p] = 0
  /\ \A g \in Grants : current[g] # 0 =>
       \E p \in Providers : life[p] # "free" /\ grant[p] = g
  /\ Rotates => \A p \in Providers : Sole(p) => Fresh(p)
  /\ ~Rotates => /\ \A g \in Grants : current[g] = 0
                 /\ \A p \in Providers : rt[p] = 0
                 /\ \A c \in Calls : call[c].sent = 0

\* What a call may do that neither brings a rotation nor takes one.
Passes(d) ==
  \/ call'[d].at = call[d].at /\ call'[d].p = call[d].p /\ call'[d].sent = call[d].sent
  \/ call[d].at # "granted" /\ call'[d].at = "refreshing" /\ call'[d].sent = rt[call'[d].p]
  \/ /\ call'[d].at \notin {"refreshing", "granted"}
     /\ call[d].at = "granted" => grant[call[d].p] \in unheard'

LEMMA RotatingTypes ==
  ASSUME Sound
  PROVE  /\ rt \in [Providers -> Nat] /\ current \in [Grants -> Nat]
         /\ grant \in [Providers -> Grants] /\ call \in [Calls -> CallRecords]
         /\ \A c \in Calls : call[c].sent \in Nat /\ call[c].p \in Providers
         /\ \A c \in Calls : life[call[c].p] # "free"
BY CacheAssumption DEF Sound, TypeOK, CallRecords, Usable

LEMMA FreshStays ==
  ASSUME Sound, NEW p \in Providers, Fresh(p), \A d \in Calls : Passes(d),
         rt'[p] = rt[p], current'[grant[p]] = current[grant[p]],
         grant'[p] = grant[p], grant[p] \notin unheard'
  PROVE  Fresh(p)'
<1>1. Grantees(p)' = Grantees(p)
  <2>1. \A d \in Calls : call'[d].at = "granted" /\ call'[d].p = p
                         <=> call[d].at = "granted" /\ call[d].p = p
    BY DEF Passes
  <2> QED  BY <2>1 DEF Grantees
<1>2. \A d \in Grantees(p) : call'[d].sent = call[d].sent
  BY <1>1 DEF Passes, Grantees
<1>3. \A d \in Calls : call'[d].at = "refreshing" /\ call'[d].p = p => call'[d].sent <= rt'[p]
  <2>1. rt[p] <= rt[p]
    BY RotatingTypes
  <2> QED  BY <2>1 DEF Fresh, Passes
<1>4. CASE rt[p] = current[grant[p]] /\ Grantees(p) = {}
  BY <1>1, <1>3, <1>4 DEF Fresh
<1>5. CASE /\ rt[p] < current[grant[p]]
           /\ \E c \in Calls : Grantees(p) = {c} /\ call[c].sent = current[grant[p]]
  <2>1. PICK c \in Calls : Grantees(p) = {c} /\ call[c].sent = current[grant[p]]
    BY <1>5
  <2>2. Grantees(p)' = {c} /\ call'[c].sent = current'[grant'[p]]
    BY <1>1, <1>2, <2>1
  <2>3. rt'[p] < current'[grant'[p]]
    BY <1>5
  <2> QED  BY <1>3, <2>2, <2>3 DEF Fresh
<1> QED  BY <1>4, <1>5 DEF Fresh

LEMMA Quiet ==
  ASSUME Sound, Rotating, rt' = rt, current' = current, grant' = grant,
         unheard \subseteq unheard',
         \A p \in Providers : life'[p] = "free" <=> life[p] = "free",
         Rotates => \A d \in Calls : Passes(d),
         ~Rotates => \A d \in Calls : call'[d].sent = 0
  PROVE  Rotating'
<1>1. \A p \in Providers : life'[p] = "free" => rt'[p] = 0
  BY DEF Rotating
<1>2. \A g \in Grants : current'[g] # 0 =>
        \E p \in Providers : life'[p] # "free" /\ grant'[p] = g
  BY DEF Rotating
<1>3. ASSUME Rotates, NEW p \in Providers, Sole(p)' PROVE Fresh(p)'
  <2>1. Sole(p) /\ grant[p] \notin unheard'
    BY <1>3 DEF Sole, OnlyProviderOf
  <2> QED  BY <1>3, <2>1, FreshStays DEF Rotating
<1>4. ~Rotates => /\ \A g \in Grants : current'[g] = 0
                  /\ \A p \in Providers : rt'[p] = 0
                  /\ \A c \in Calls : call'[c].sent = 0
  BY DEF Rotating
<1> QED  BY <1>1, <1>2, <1>3, <1>4 DEF Rotating

\* A call that begins holds the token of its provider.
LEMMA EnterBegins ==
  ASSUME Sound, NEW c \in Calls, NEW p \in Providers, NEW lru, Enter(c, p, lru)
  PROVE  /\ call'[c].p = p /\ call'[c].sent = rt[p]
         /\ call'[c].at \in {"sweeping", "asking", "refreshing"}
         /\ \A d \in Calls \ {c} : call'[d] = call[d]
<1> DEFINE gone == IF Len(lru) > CacheSize THEN retired \cup {Head(lru)} ELSE retired
           idle == Idle(gone, [inflight EXCEPT ![p] = @ + 1])
<1>1. call' = [call EXCEPT ![c] =
                IF idle = {} THEN Begins(c, p, rt)
                ELSE [Begins(c, p, rt) EXCEPT !.at = "sweeping", !.todo = idle]]
  BY DEF Enter
<1> HIDE DEF idle
<1> QED  BY <1>1, RotatingTypes DEF Begins

LEMMA RunKeepsRotating == ASSUME Sound, Rotating, NEW c \in Calls, Run(c) PROVE Rotating'
<1>0. call[c].at # "granted" /\ UNCHANGED oauth
  BY DEF Run, RunShared, RunCached, RunBuilt, Out
<1>1. ASSUME NEW p \in Providers, NEW lru, Enter(c, p, lru)
      PROVE  /\ \A d \in Calls : Passes(d)
             /\ ~Rotates => \A d \in Calls : call'[d].sent = 0
  BY <1>0, <1>1, EnterBegins DEF Passes, Rotating
<1>2. ASSUME NEW p \in Providers, NEW lru, Enter(c, p, lru), life' = life, grant' = grant
      PROVE  Rotating'
  BY <1>0, <1>1, <1>2, Quiet
<1>3. CASE RunShared(c)
  <2>1. Enter(c, Deployment, cache) /\ life' = life /\ grant' = grant /\ Deployment \in Providers
    BY <1>3 DEF RunShared, Providers
  <2> QED  BY <1>2, <2>1
<1>4. ASSUME NEW u \in Users, RunCached(c, u) PROVE Rotating'
  <2>1. PICK k \in DOMAIN cache : Enter(c, cache[k], Append(RemoveAt(cache, k), cache[k]))
    BY <1>4 DEF RunCached, Cached
  <2>2. cache[k] \in Providers /\ life' = life /\ grant' = grant
    BY <1>4 DEF RunCached, Providers, Sound, TypeOK
  <2> QED  BY <1>2, <2>1, <2>2
<1>5. ASSUME NEW u \in Users, RunBuilt(c, u) PROVE Rotating'
  <2>1. PICK p \in Built : /\ life[p] = "free" /\ life' = [life EXCEPT ![p] = "open"]
                            /\ grant' = [grant EXCEPT ![p] = u]
                            /\ Enter(c, p, Append(cache, p))
    BY <1>5 DEF RunBuilt
  <2>2. /\ p \in Providers /\ life'[p] = "open" /\ grant'[p] = u
        /\ \A q \in Providers \ {p} : life'[q] = life[q] /\ grant'[q] = grant[q]
    BY <2>1 DEF Providers, Sound, TypeOK
  <2>3. /\ \A d \in Calls : Passes(d)
        /\ ~Rotates => \A d \in Calls : call'[d].sent = 0
    BY <1>1, <2>1, <2>2
  <2>4. \A q \in Providers : life'[q] = "free" => rt'[q] = 0
    BY <1>0, <2>2 DEF Rotating
  <2>5. \A g \in Grants : current'[g] # 0 =>
          \E q \in Providers : life'[q] # "free" /\ grant'[q] = g
    <3>1. ASSUME NEW g \in Grants, current'[g] # 0
          PROVE  \E q \in Providers : life'[q] # "free" /\ grant'[q] = g
      <4>1. PICK q \in Providers : life[q] # "free" /\ grant[q] = g
        BY <1>0, <3>1 DEF Rotating
      <4> QED  BY <2>1, <2>2, <4>1
    <3> QED  BY <3>1
  <2>6. ASSUME Rotates, NEW q \in Providers, Sole(q)' PROVE Fresh(q)'
    <3>1. CASE q # p
      <4>1. OnlyProviderOf(q)
        <5>1. ASSUME NEW o \in Providers, o # q, life[o] # "free" PROVE grant[o] # grant[q]
          BY <2>1, <2>2, <2>6, <3>1, <5>1 DEF Sole, OnlyProviderOf
        <5> QED  BY <5>1 DEF OnlyProviderOf
      <4>2. Sole(q) /\ grant[q] \notin unheard'
        BY <1>0, <2>2, <2>6, <3>1, <4>1 DEF Sole
      <4> QED  BY <1>0, <2>2, <2>3, <2>6, <3>1, <4>2, FreshStays DEF Rotating
    <3>2. CASE q = p
      <4>1. u \in Grants /\ current[u] = 0
        <5>1. u \in Grants
          BY DEF Grants
        <5>2. ASSUME current[u] # 0 PROVE FALSE
          <6>1. PICK o \in Providers : life[o] # "free" /\ grant[o] = u
            BY <5>1, <5>2 DEF Rotating
          <6> QED  BY <2>1, <2>2, <2>6, <3>2, <6>1 DEF Sole, OnlyProviderOf
        <5> QED  BY <5>1, <5>2
      <4>2. rt[p] = 0
        BY <2>1, <2>2 DEF Rotating
      <4>3. \A d \in Calls \ {c} : call'[d] = call[d] /\ call[d].p # p
        BY <2>1, <2>2, EnterBegins, RotatingTypes
      <4>4. call'[c].at # "granted" /\ call'[c].sent = rt[p]
        BY <2>1, <2>2, EnterBegins
      <4>5. Grantees(p)' = {}
        BY <4>3, <4>4 DEF Grantees
      <4>6. \A d \in Calls : call'[d].at = "refreshing" /\ call'[d].p = p => call'[d].sent <= rt'[p]
        BY <1>0, <4>2, <4>3, <4>4
      <4> QED  BY <1>0, <2>2, <3>2, <4>1, <4>2, <4>5, <4>6 DEF Fresh
    <3> QED  BY <3>1, <3>2
  <2> QED  BY <1>0, <2>3, <2>4, <2>5, <2>6 DEF Rotating
<1> QED  BY <1>3, <1>4, <1>5 DEF Run

LEMMA AnswersKeepsRotating == ASSUME Sound, Rotating, NEW c \in Calls, Answers(c) PROVE Rotating'
<1>0. PICK o \in Providers : o = call[c].p
  BY RotatingTypes
<1>1. PICK g \in Grants : g = grant[o]
  BY RotatingTypes
<1>2. /\ call[c].at = "refreshing" /\ life[o] # "free" /\ rt' = rt /\ life' = life
      /\ grant' = grant /\ unheard' = unheard
  BY <1>0, RotatingTypes DEF Answers
<1>3. CASE call[c].sent # current[g]
  <2>1. call' = [call EXCEPT ![c].at = "refused"] /\ current' = current
    BY <1>0, <1>1, <1>3 DEF Answers
  <2>2. /\ \A d \in Calls : Passes(d)
        /\ \A d \in Calls : call'[d].sent = call[d].sent
    BY <1>2, <2>1, RotatingTypes DEF Passes, CallRecords
  <2> QED  BY <1>2, <2>1, <2>2, Quiet DEF Rotating
<1>4. CASE call[c].sent = current[g]
  <2>1. /\ call' = [call EXCEPT ![c].at = "granted", ![c].sent = Rotated(g)]
        /\ current' = [current EXCEPT ![g] = Rotated(g)]
    BY <1>0, <1>1, <1>4 DEF Answers
  <2>2. /\ call'[c].at = "granted" /\ call'[c].sent = Rotated(g) /\ call'[c].p = o
        /\ \A d \in Calls \ {c} : call'[d] = call[d]
        /\ current'[g] = Rotated(g) /\ \A h \in Grants \ {g} : current'[h] = current[h]
    BY <1>0, <2>1, RotatingTypes DEF CallRecords
  <2>3. \A p \in Providers : life'[p] = "free" => rt'[p] = 0
    BY <1>2 DEF Rotating
  <2>4. \A h \in Grants : current'[h] # 0 =>
          \E p \in Providers : life'[p] # "free" /\ grant'[p] = h
    BY <1>1, <1>2, <2>2 DEF Rotating
  <2>5. CASE ~Rotates
    <3>1. Rotated(g) = 0
      BY <2>5 DEF Rotated, Rotating
    <3> QED  BY <1>2, <2>2, <2>3, <2>4, <2>5, <3>1 DEF Rotating
  <2>6. CASE Rotates
    <3>1. ASSUME NEW p \in Providers, Sole(p)' PROVE Fresh(p)'
      <4>1. Sole(p) /\ Fresh(p)
        BY <1>2, <2>6, <3>1 DEF Sole, OnlyProviderOf, Rotating
      <4>2. CASE p = o
        <5>1. call[c].sent <= rt[p]
          BY <1>0, <1>2, <4>1, <4>2 DEF Fresh
        <5>2. rt[p] \in Nat /\ current[g] \in Nat /\ current'[g] = current[g] + 1
          BY <2>2, <2>6, RotatingTypes DEF Rotated
        <5>3. rt[p] = current[g] /\ Grantees(p) = {}
          <6>1. ~(rt[p] < current[g])
            BY <1>4, <5>1, <5>2
          <6> QED  BY <1>1, <4>1, <4>2, <6>1 DEF Fresh
        <5>4. Grantees(p)' = {c}
          BY <2>2, <4>2, <5>3 DEF Grantees
        <5>5. \A d \in Calls : call'[d].at = "refreshing" /\ call'[d].p = p => call'[d].sent <= rt'[p]
          BY <1>2, <2>2, <4>1 DEF Fresh
        <5>6. rt'[p] < current'[grant'[p]] /\ call'[c].sent = current'[grant'[p]]
          BY <1>1, <1>2, <2>2, <4>2, <5>2, <5>3
        <5> QED  BY <5>4, <5>5, <5>6 DEF Fresh
      <4>3. CASE p # o
        <5>1. grant[p] \in Grants \ {g}
          BY <1>1, <1>2, <4>1, <4>3, RotatingTypes DEF Sole, OnlyProviderOf
        <5>2. Grantees(p)' = Grantees(p)
          BY <1>0, <2>2, <4>3 DEF Grantees
        <5>3. \A d \in Calls : call'[d].at = "refreshing" /\ call'[d].p = p => call'[d].sent <= rt'[p]
          BY <1>2, <2>2, <4>1 DEF Fresh
        <5>4. current'[grant'[p]] = current[grant[p]] /\ rt'[p] = rt[p]
          BY <1>2, <2>2, <5>1
        <5>5. \A d \in Calls : Grantees(p) = {d} => call'[d].sent = call[d].sent
          BY <1>0, <2>2, <4>3 DEF Grantees
        <5>6. CASE rt[p] = current[grant[p]] /\ Grantees(p) = {}
          BY <5>2, <5>3, <5>4, <5>6 DEF Fresh
        <5>7. CASE /\ rt[p] < current[grant[p]]
                   /\ \E d \in Calls : Grantees(p) = {d} /\ call[d].sent = current[grant[p]]
          <6>1. PICK d \in Calls : Grantees(p) = {d} /\ call[d].sent = current[grant[p]]
            BY <5>7
          <6>2. Grantees(p)' = {d} /\ call'[d].sent = current'[grant'[p]]
            BY <5>2, <5>4, <5>5, <6>1
          <6>3. rt'[p] < current'[grant'[p]]
            BY <5>4, <5>7
          <6> QED  BY <5>3, <6>2, <6>3 DEF Fresh
        <5> QED  BY <4>1, <5>6, <5>7 DEF Fresh
      <4> QED  BY <4>2, <4>3
    <3> QED  BY <2>3, <2>4, <2>6, <3>1 DEF Rotating
  <2> QED  BY <2>5, <2>6
<1> QED  BY <1>3, <1>4

LEMMA RefreshedKeepsRotating == ASSUME Sound, Rotating, NEW c \in Calls, Refreshed(c) PROVE Rotating'
<1>0. PICK o \in Providers : o = call[c].p
  BY RotatingTypes
<1>1. /\ call[c].at = "granted" /\ life[o] # "free" /\ current' = current /\ life' = life
      /\ grant' = grant /\ unheard' = unheard
      /\ rt' = [rt EXCEPT ![o] = call[c].sent]
      /\ call' = [call EXCEPT ![c].at = "asking", ![c].sent = 0]
  BY <1>0, RotatingTypes DEF Refreshed, Takes
<1>2. /\ call'[c].at = "asking" /\ call'[c].sent = 0
      /\ \A d \in Calls \ {c} : call'[d] = call[d]
      /\ rt'[o] = call[c].sent /\ \A p \in Providers \ {o} : rt'[p] = rt[p]
  BY <1>1, RotatingTypes DEF CallRecords
<1>3. /\ \A p \in Providers : life'[p] = "free" => rt'[p] = 0
      /\ \A h \in Grants : current'[h] # 0 =>
           \E p \in Providers : life'[p] # "free" /\ grant'[p] = h
  BY <1>1, <1>2 DEF Rotating
<1>4. CASE ~Rotates
  <2>1. /\ \A g \in Grants : current'[g] = 0
        /\ \A d \in Calls : call'[d].sent = 0
    <3>1. /\ \A g \in Grants : current[g] = 0
          /\ \A d \in Calls : call[d].sent = 0
      BY <1>4 DEF Rotating
    <3>2. \A d \in Calls \ {c} : call'[d].sent = 0
      BY <1>2, <3>1
    <3>3. \A g \in Grants : current'[g] = 0
      BY <1>1, <3>1
    <3> QED  BY <1>2, <3>2, <3>3
  <2>2. \A p \in Providers : rt'[p] = 0
    BY <1>2, <1>4 DEF Rotating
  <2> QED  BY <1>3, <1>4, <2>1, <2>2 DEF Rotating
<1>5. CASE Rotates
  <2>1. ASSUME NEW p \in Providers, Sole(p)' PROVE Fresh(p)'
    <3>1. Sole(p) /\ Fresh(p)
      BY <1>1, <1>5, <2>1 DEF Sole, OnlyProviderOf, Rotating
    <3>2. CASE p = o
      <4>1. c \in Grantees(p)
        BY <1>0, <1>1, <3>2 DEF Grantees
      <4>2. /\ rt[p] < current[grant[p]] /\ Grantees(p) = {c}
            /\ call[c].sent = current[grant[p]]
        BY <3>1, <4>1 DEF Fresh
      <4>3. rt'[p] = current'[grant'[p]]
        BY <1>1, <1>2, <3>2, <4>2
      <4>4. Grantees(p)' = {}
        <5>1. ASSUME NEW d \in Calls, call'[d].at = "granted", call'[d].p = p PROVE FALSE
          <6>1. d # c /\ d \in Grantees(p)
            BY <1>2, <5>1 DEF Grantees
          <6> QED  BY <4>2, <6>1
        <5> QED  BY <5>1 DEF Grantees
      <4>5. ASSUME NEW d \in Calls, call'[d].at = "refreshing", call'[d].p = p
            PROVE  call'[d].sent <= rt'[p]
        <5>1. call'[d] = call[d] /\ call[d].sent <= rt[p]
          BY <1>2, <3>1, <4>5 DEF Fresh
        <5>2. call[d].sent \in Nat /\ rt[p] \in Nat /\ call[c].sent \in Nat
          BY RotatingTypes
        <5> QED  BY <1>2, <3>2, <4>2, <5>1, <5>2
      <4> QED  BY <4>3, <4>4, <4>5 DEF Fresh
    <3>3. CASE p # o
      <4>1. \A d \in Calls : call'[d].at = "granted" /\ call'[d].p = p
                             <=> call[d].at = "granted" /\ call[d].p = p
        BY <1>0, <1>1, <1>2, <3>3 DEF Grantees
      <4>2. Grantees(p)' = Grantees(p)
        BY <4>1 DEF Grantees
      <4>3. \A d \in Calls : call'[d].at = "refreshing" /\ call'[d].p = p => call'[d].sent <= rt'[p]
        BY <1>2, <3>1, <3>3 DEF Fresh
      <4>4. \A d \in Grantees(p) : call'[d].sent = call[d].sent
        BY <1>0, <1>2, <3>3 DEF Grantees
      <4>5. rt'[p] = rt[p] /\ current'[grant'[p]] = current[grant[p]]
        BY <1>1, <1>2, <3>3
      <4>6. CASE rt[p] = current[grant[p]] /\ Grantees(p) = {}
        BY <4>2, <4>3, <4>5, <4>6 DEF Fresh
      <4>7. CASE /\ rt[p] < current[grant[p]]
                 /\ \E d \in Calls : Grantees(p) = {d} /\ call[d].sent = current[grant[p]]
        <5>1. PICK d \in Calls : Grantees(p) = {d} /\ call[d].sent = current[grant[p]]
          BY <4>7
        <5>2. Grantees(p)' = {d} /\ call'[d].sent = current'[grant'[p]]
          BY <4>2, <4>4, <4>5, <5>1
        <5>3. rt'[p] < current'[grant'[p]]
          BY <4>5, <4>7
        <5> QED  BY <4>3, <5>2, <5>3 DEF Fresh
      <4> QED  BY <3>1, <4>6, <4>7 DEF Fresh
    <3> QED  BY <3>2, <3>3
  <2> QED  BY <1>3, <1>5, <2>1 DEF Rotating
<1> QED  BY <1>4, <1>5

\* A call that ends asks for nothing more, and has nothing more to take.
LEMMA LeaveEnds ==
  ASSUME Sound, NEW c \in Calls, Leave(c)
  PROVE  /\ call'[c].at \in {"out", "leaving"} /\ call'[c].sent = 0
         /\ \A d \in Calls \ {c} : call'[d] = call[d]
<1> DEFINE idle == Idle(retired, [inflight EXCEPT ![call[c].p] = @ - 1])
<1>1. call' = [call EXCEPT ![c] =
                IF idle = {} THEN Out ELSE [Out EXCEPT !.at = "leaving", !.todo = idle]]
  BY DEF Leave
<1> HIDE DEF idle
<1> QED  BY <1>1, RotatingTypes DEF Out

LEMMA CallEndsKeepsRotating ==
  ASSUME Sound, Rotating, NEW c \in Calls,
         \/ Returns(c)
         \/ Unread(c)
         \/ Cancel(c)
         \/ \E failed \in BOOLEAN : Sweep(c, failed)
  PROVE  Rotating'
<1>1. CASE Returns(c)
  <2>1. call[c].at # "granted" /\ Leave(c) /\ UNCHANGED <<life, grant, oauth>>
    BY <1>1 DEF Returns
  <2>2. /\ \A d \in Calls : Passes(d)
        /\ ~Rotates => \A d \in Calls : call'[d].sent = 0
    BY <2>1, LeaveEnds DEF Passes, Rotating
  <2> QED  BY <2>1, <2>2, Quiet
<1>2. CASE Cancel(c)
  <2>1. /\ UNCHANGED <<life, grant, rt, current>> /\ unheard \subseteq unheard'
        /\ Rotates /\ call[c].at = "granted" => grant[call[c].p] \in unheard'
    BY <1>2 DEF Cancel, Unheard
  <2>2. /\ call'[c].at \in {"out", "leaving"} /\ call'[c].sent = 0
        /\ \A d \in Calls \ {c} : call'[d] = call[d]
    <3>1. CASE call[c].at = "leaving"
      <4>1. call' = [call EXCEPT ![c] = Out]
        BY <1>2, <3>1 DEF Cancel
      <4> QED  BY <4>1, RotatingTypes DEF Out
    <3>2. CASE call[c].at # "leaving"
      BY <1>2, <3>2, LeaveEnds DEF Cancel
    <3> QED  BY <3>1, <3>2
  <2>3. /\ Rotates => \A d \in Calls : Passes(d)
        /\ ~Rotates => \A d \in Calls : call'[d].sent = 0
    BY <2>1, <2>2 DEF Passes, Rotating
  <2> QED  BY <2>1, <2>3, Quiet
<1>u. CASE Unread(c)
  <2>1. /\ UNCHANGED <<life, grant, rt, current>> /\ unheard \subseteq unheard' /\ Leave(c)
        /\ Rotates => grant[call[c].p] \in unheard'
    BY <1>u DEF Unread, Unheard
  <2>2. /\ Rotates => \A d \in Calls : Passes(d)
        /\ ~Rotates => \A d \in Calls : call'[d].sent = 0
    BY <2>1, LeaveEnds DEF Passes, Rotating
  <2> QED  BY <2>1, <2>2, Quiet
<1>3. ASSUME NEW failed \in BOOLEAN, Sweep(c, failed) PROVE Rotating'
  <2>1. PICK p \in NextToClose(call[c].todo) :
          LET rest == IF failed \/ life[p] = "half" THEN call[c].todo \ {p} ELSE call[c].todo
          IN /\ Closes(p, failed)
             /\ call' = [call EXCEPT ![c] =
                  CASE rest # {} -> [@ EXCEPT !.todo = rest]
                    [] rest = {} /\ @.at = "leaving" -> Out
                    [] OTHER -> Begins(c, @.p, rt)]
    BY <1>3 DEF Sweep
  <2> DEFINE rest == IF failed \/ life[p] = "half" THEN call[c].todo \ {p} ELSE call[c].todo
  <2>2. /\ Closes(p, failed) /\ UNCHANGED <<grant, oauth>>
        /\ call' = [call EXCEPT ![c] =
             CASE rest # {} -> [@ EXCEPT !.todo = rest]
               [] rest = {} /\ @.at = "leaving" -> Out
               [] OTHER -> Begins(c, @.p, rt)]
    BY <1>3, <2>1 DEF Sweep
  <2> HIDE DEF rest
  <2>3. \A q \in Providers : life'[q] = "free" <=> life[q] = "free"
    <3>1. p \in call[c].todo /\ life[p] # "free"
      BY <2>1, NextIsThere DEF Sound, Placed, Begun
    <3> QED  BY <2>2, <3>1 DEF Closes, Sound, TypeOK
  <2>4. call[c].at \in {"sweeping", "leaving"}
    <3>1. call[c].todo # {}
      BY <2>1, NextIsThere
    <3>2. call[c].at \in {"out", "sweeping", "leaving"} \cup Waiting
      BY RotatingTypes DEF CallRecords
    <3>3. call[c].at # "out" /\ call[c].at \notin Waiting
      BY <3>1 DEF Sound, Tidy, Out
    <3> QED  BY <3>2, <3>3
  <2>5. /\ \/ call'[c].at = call[c].at /\ call'[c].p = call[c].p /\ call'[c].sent = call[c].sent
           \/ call'[c].at \in {"out", "asking"} /\ call'[c].sent \in {0, rt[call[c].p]}
           \/ /\ call'[c].at = "refreshing" /\ call'[c].p = call[c].p
              /\ call'[c].sent = rt[call'[c].p]
        /\ \A d \in Calls \ {c} : call'[d] = call[d]
    <3>1. CASE rest # {}
      BY <2>2, <3>1, RotatingTypes DEF CallRecords
    <3>2. CASE rest = {} /\ call[c].at = "leaving"
      BY <2>2, <3>2, RotatingTypes DEF Out
    <3>3. CASE rest = {} /\ call[c].at # "leaving"
      <4>1. call' = [call EXCEPT ![c] = Begins(c, call[c].p, rt)]
        BY <2>2, <3>3
      <4> QED  BY <4>1, RotatingTypes DEF Begins
    <3> QED  BY <3>1, <3>2, <3>3
  <2>6. /\ \A d \in Calls : Passes(d)
        /\ ~Rotates => \A d \in Calls : call'[d].sent = 0
    <3>1. \A d \in Calls : Passes(d)
      BY <2>4, <2>5 DEF Passes
    <3>2. ~Rotates => rt[call[c].p] = 0 /\ \A d \in Calls : call[d].sent = 0
      BY RotatingTypes DEF Rotating
    <3> QED  BY <2>5, <3>1, <3>2, RotatingTypes
  <2> QED  BY <2>2, <2>3, <2>6, Quiet
<1> QED  BY <1>1, <1>u, <1>2, <1>3

LEMMA OthersKeepRotating ==
  ASSUME Sound, Rotating,
         \/ \E p \in Providers : Expire(p)
         \/ Shut
         \/ \E failed \in BOOLEAN : ShutSweep(failed)
  PROVE  Rotating'
<1>1. CASE (\E p \in Providers : Expire(p)) \/ Shut
  <2>1. UNCHANGED <<life, grant, call, rt, current, unheard>>
    BY <1>1 DEF Expire, Shut
  <2>2. /\ \A d \in Calls : Passes(d)
        /\ ~Rotates => \A d \in Calls : call'[d].sent = 0
    BY <2>1 DEF Passes, Rotating
  <2> QED  BY <2>1, <2>2, Quiet
<1>2. ASSUME NEW failed \in BOOLEAN, ShutSweep(failed) PROVE Rotating'
  <2>1. PICK p \in NextToClose(shut.todo) : life' = life \/ Closes(p, FALSE)
    BY <1>2 DEF ShutSweep
  <2>2. p \in shut.todo /\ life[p] # "free"
    BY <2>1, NextIsThere DEF Sound, Placed, Begun
  <2>3. \A q \in Providers : life'[q] = "free" <=> life[q] = "free"
    BY <2>1, <2>2 DEF Closes, Sound, TypeOK
  <2>4. UNCHANGED <<grant, call, rt, current, unheard>>
    BY <1>2 DEF ShutSweep
  <2>5. /\ \A d \in Calls : Passes(d)
        /\ ~Rotates => \A d \in Calls : call'[d].sent = 0
    BY <2>4 DEF Passes, Rotating
  <2> QED  BY <2>3, <2>4, <2>5, Quiet
<1> QED  BY <1>1, <1>2

LEMMA InitRotating == ASSUME Init PROVE Rotating
<1>1. Sound
  BY InitSound
<1>2. \A p \in Providers : Fresh(p)
  BY <1>1, RotatingTypes DEF Init, Fresh, Grantees, Out
<1> QED  BY <1>2 DEF Init, Rotating, Out

LEMMA StepRotating == ASSUME Sound, Rotating, [Next]_vars PROVE Rotating'
<1>1. CASE UNCHANGED vars
  <2>1. /\ UNCHANGED <<life, grant, call, rt, current, unheard>>
        /\ \A d \in Calls : Passes(d)
        /\ ~Rotates => \A d \in Calls : call'[d].sent = 0
    BY <1>1 DEF vars, Passes, Rotating
  <2> QED  BY <2>1, Quiet
<1>2. CASE Next
  BY <1>2, RunKeepsRotating, AnswersKeepsRotating, RefreshedKeepsRotating,
     CallEndsKeepsRotating, OthersKeepRotating DEF Next
<1> QED  BY <1>1, <1>2

\* Whoever is the only provider of a grant has the refresh token that the identity
\* provider accepts, or a call of it brings it: a rotation is lost with an answer that
\* nobody received and in no other way (_refresh).
THEOREM RotationKept == Spec => []RotationIsKept
<1>1. Sound /\ Rotating => RotationIsKept
  <2> SUFFICES ASSUME Sound, Rotating, NEW p \in Providers, Sole(p)
               PROVE  \/ rt[p] = current[grant[p]]
                      \/ \E c \in Calls : call[c].at = "granted" /\ call[c].p = p
                                           /\ call[c].sent = current[grant[p]]
    BY DEF RotationIsKept, Sole
  <2>1. CASE Rotates
    BY <2>1 DEF Rotating, Fresh, Grantees
  <2>2. CASE ~Rotates
    BY <2>2, RotatingTypes DEF Rotating
  <2> QED  BY <2>1, <2>2
<1>2. Sound /\ Rotating /\ [Next]_vars => Rotating'
  BY StepRotating
<1> QED  BY <1>1, <1>2, InitRotating, SoundAlways, PTL DEF Spec

-----------------------------------------------------------------------------
(* The identity map                                                        *)

Versions == [form : Forms, table : Tables, mtime : 0 .. MaxClock]

RunRecords == [at : {"new", "asking", "revoking", "locking", "locked", "writing",
                     "unlocking", "ended"},
               op : {"none", "grant", "revoke"},
               s : Subjects \cup {NoValue}, f : Surfaces \cup {NoValue},
               saw : Tokens \cup {NoValue}, doc : Tables \cup {<<>>}]

\* The lock is with whoever is between taking and releasing it.
Guarded ==
  \A r \in Runs : lock = r <=> run[r].at \in {"locked", "writing", "unlocking"}

\* What a run was asked to do; what it is about to write is what the file is now,
\* but for its own change.
Asked ==
  \A r \in Runs :
    /\ run[r].at \in {"new", "ended"} => run[r].op = "none"
    /\ run[r].at \notin {"new", "ended"} =>
         run[r].op # "none" /\ run[r].s \in Subjects /\ run[r].f \in Surfaces
    /\ run[r].at = "asking" => run[r].op = "grant"
    /\ run[r].at = "revoking" => run[r].op = "revoke"
    /\ run[r].at = "writing" =>
         run[r].doc = IF run[r].op = "grant" THEN Upserted(File.table, r)
                                            ELSE Removed(File.table, r)

\* A token is nowhere before it is issued.
Unissued ==
  \A r \in Runs : run[r].at \in {"new", "asking"} =>
    /\ \A s \in Subjects, f \in Surfaces : Held(s, f) # r
    /\ \A q \in Runs : run[q].saw # r

\* Where a surface looks up its token there is a token or nothing.
HoldsTokens ==
  \A s \in Subjects, f \in Surfaces : Held(s, f) \in Tokens \cup {NoValue}

\* A revoke that is past its provider left no live token behind; and unless a grant
\* crossed it, the token that it read is the one that it will remove.
Revoked ==
  \A r \in Runs : run[r].op = "revoke" =>
    /\ run[r].saw \in Tokens
    /\ run[r].at \in {"locking", "locked", "writing"} => run[r].saw \notin live \ strays
    /\ run[r].at \in {"revoking", "locking", "locked", "writing"} /\ r \notin crossed =>
         Held(run[r].s, run[r].f) = run[r].saw

Kept(t) ==
  \/ \E s \in Subjects, f \in Surfaces : Held(s, f) = t
  \/ t \in Runs /\ run[t].op = "grant" /\ run[t].at \in {"locking", "locked", "writing"}

\* What the gateway has of the file.
Readers == [at : {"idle", "reading", "answered"}, cached : {<<>>} \cup Stamps,
            data : Tables, from : 1 .. Len(versions),
            answer : {"none", "served", "unavailable"}]

Consented ==
  /\ MapTypeOK /\ Guarded /\ Asked /\ Unissued /\ HoldsTokens /\ Revoked
  /\ NoStrayGrants

LEMMA MapTypes ==
  ASSUME MapTypeOK
  PROVE  /\ versions \in Seq(Versions) /\ Len(versions) \in Nat /\ Len(versions) >= 1
         /\ File = versions[Len(versions)] /\ File \in Versions
         /\ File.table \in Tables
         /\ run \in [Runs -> RunRecords]
         /\ \A r \in Runs : run[r] \in RunRecords
<1>1. versions \in Seq(Versions) /\ versions # <<>> /\ run \in [Runs -> RunRecords]
  BY DEF MapTypeOK, Versions, RunRecords
<1>2. Len(versions) \in Nat /\ Len(versions) >= 1
  BY <1>1
<1>3. File = versions[Len(versions)]
  BY DEF File, Last
<1>4. versions[Len(versions)] \in Versions
  BY <1>1, <1>2, ElementOfSeq
<1>5. \A v \in Versions : v.table \in Tables
  BY DEF Versions
<1> QED  BY <1>1, <1>2, <1>3, <1>4, <1>5

LEMMA SlotNames == ASSUME NEW f \in Surfaces PROVE RefreshName[f] \in Names
BY DEF Names

\* What a change does to the tokens of the file.
LEMMA ChangedSlots ==
  ASSUME NEW table \in Tables, NEW r \in Runs,
         run[r].s \in Subjects, run[r].f \in Surfaces,
         NEW doc, doc = IF run[r].op = "grant" THEN Upserted(table, r)
                                               ELSE Removed(table, r)
  PROVE  /\ doc \in Tables
         /\ \A s \in Subjects, f \in Surfaces :
              doc[s][RefreshName[f]] =
                IF s = run[r].s /\ RefreshName[f] = RefreshName[run[r].f]
                THEN IF run[r].op = "grant" THEN r ELSE NoValue
                ELSE table[s][RefreshName[f]]
<1> DEFINE Values == Tokens \cup {ClientId, NoValue}
<1>1. /\ table \in [Subjects -> [Names -> Values]]
      /\ r \in Values /\ NoValue \in Values /\ ClientId \in Values
      /\ ClientName \in Names /\ \A f \in Surfaces : RefreshName[f] \in Names
      /\ \A f \in Surfaces : RefreshName[f] # ClientName
  BY NameAssumption DEF Tables, Tokens, Names
<1>2. PICK s0 \in Subjects : s0 = run[r].s
  OBVIOUS
<1>3. PICK n0 \in Names : n0 = RefreshName[run[r].f] /\ n0 # ClientName
  BY <1>1
<1> HIDE DEF Values
<1>4. CASE run[r].op = "grant"
  <2>1. doc = [table EXCEPT ![s0][n0] = r, ![s0][ClientName] = ClientId]
    BY <1>2, <1>3, <1>4 DEF Upserted
  <2>2. /\ doc \in [Subjects -> [Names -> Values]]
        /\ \A s \in Subjects, n \in Names : n # ClientName =>
             doc[s][n] = IF s = s0 /\ n = n0 THEN r ELSE table[s][n]
    <3> DEFINE one == [table EXCEPT ![s0][n0] = r]
    <3>1. /\ one \in [Subjects -> [Names -> Values]]
          /\ \A s \in Subjects, n \in Names :
               one[s][n] = IF s = s0 /\ n = n0 THEN r ELSE table[s][n]
      BY <1>1
    <3>2. PICK n1 \in Names, v1 \in Values : n1 = ClientName /\ v1 = ClientId
      BY <1>1
    <3>3. doc = [one EXCEPT ![s0][n1] = v1]
      BY <2>1, <3>2
    <3> HIDE DEF one
    <3>4. /\ doc \in [Subjects -> [Names -> Values]]
          /\ \A s \in Subjects, n \in Names :
               doc[s][n] = IF s = s0 /\ n = n1 THEN v1 ELSE one[s][n]
      BY <3>1, <3>3
    <3> QED  BY <3>1, <3>2, <3>4
  <2> QED  BY <1>1, <1>2, <1>3, <1>4, <2>2 DEF Tables, Values
<1>5. CASE run[r].op # "grant"
  <2>1. doc = [table EXCEPT ![s0][n0] = NoValue]
    BY <1>2, <1>3, <1>5 DEF Removed
  <2>2. /\ doc \in [Subjects -> [Names -> Values]]
        /\ \A s \in Subjects, n \in Names :
             doc[s][n] = IF s = s0 /\ n = n0 THEN NoValue ELSE table[s][n]
    BY <1>1, <2>1
  <2> QED  BY <1>1, <1>2, <1>3, <1>5, <2>2 DEF Tables, Values
<1> QED  BY <1>4, <1>5

LEMMA InitConsented == ASSUME MapInit PROVE Consented
<1>1. PICK form \in Forms, table \in Tables :
         /\ \A s \in Subjects, n \in Names : table[s][n] \in {OldToken, NoValue}
         /\ \A s \in Subjects : table[s][ClientName] = NoValue
         /\ versions = <<[form |-> form, table |-> table, mtime |-> 0]>>
         /\ live = IF SizeOf(table) = 0 THEN {} ELSE {OldToken}
  BY DEF MapInit
<1>2. /\ strays = {} /\ lock = Nobody /\ crossed = {} /\ clock = 0
      /\ run = [r \in Runs |-> NewRun]
      /\ reader = [at |-> "idle", cached |-> <<>>, data |-> File.table,
                   from |-> 1, answer |-> "none"]
  BY DEF MapInit
<1>3. /\ versions \in Seq(Versions) /\ versions # <<>> /\ Len(versions) = 1
      /\ File.table = table
  <2>1. [form |-> form, table |-> table, mtime |-> 0] \in Versions
    BY ClockAssumption DEF Versions
  <2>2. versions \in Seq(Versions) /\ Len(versions) = 1 /\ versions # <<>>
    BY <1>1, <2>1
  <2>3. File = versions[1]
    BY <2>2 DEF File, Last
  <2> QED  BY <1>1, <2>2, <2>3
<1>4. run \in [Runs -> RunRecords]
  <2>1. NewRun \in RunRecords
    BY DEF NewRun, RunRecords
  <2> QED  BY <1>2, <2>1
<1>5. MapTypeOK
  <2>1. live \subseteq Tokens
    BY <1>1 DEF Tokens
  <2>2. 0 \in 0 .. MaxClock
    BY ClockAssumption
  <2>3. reader \in Readers
    BY <1>2, <1>3 DEF Readers
  <2> QED  BY <1>2, <1>3, <1>4, <2>1, <2>2, <2>3 DEF MapTypeOK, Versions, RunRecords, Readers
<1>6. \A s \in Subjects, f \in Surfaces : Held(s, f) = table[s][RefreshName[f]]
  BY <1>3 DEF Held
<1>7. HoldsTokens
  BY <1>1, <1>6, SlotNames DEF HoldsTokens, Tokens
<1>8. \A r \in Runs : run[r] = NewRun
  BY <1>2
<1>9. Guarded /\ Asked /\ Revoked
  BY <1>2, <1>8, NobodyAssumption DEF Guarded, Asked, Revoked, NewRun
<1>10. Unissued
  BY <1>1, <1>6, <1>8, SlotNames, NobodyAssumption DEF Unissued, NewRun
<1>11. NoStrayGrants
  <2> SUFFICES ASSUME NEW t \in live
               PROVE  \E s \in Subjects, f \in Surfaces : Held(s, f) = t
    BY DEF NoStrayGrants
  <2>1. t = OldToken /\ SizeOf(table) # 0
    BY <1>1
  <2>2. {e \in Subjects \X Names : table[e[1]][e[2]] # NoValue} # {}
    <3> DEFINE Set == {e \in Subjects \X Names : table[e[1]][e[2]] # NoValue}
    <3>1. SizeOf(table) = Cardinality(Set)
      BY DEF SizeOf, Cardinality
    <3> HIDE DEF Set
    <3>2. Set # {}
      BY <2>1, <3>1, FS_EmptySet
    <3> QED  BY <3>2 DEF Set
  <2>3. PICK s \in Subjects, n \in Names : table[s][n] # NoValue
    BY <2>2
  <2>4. table[s][n] = OldToken /\ n # ClientName
    BY <1>1, <2>3
  <2>5. PICK f \in Surfaces : n = RefreshName[f]
    BY <2>4 DEF Names
  <2> QED  BY <1>6, <2>1, <2>4, <2>5
<1> QED  BY <1>5, <1>7, <1>9, <1>10, <1>11 DEF Consented

\* A step of run r that leaves the file alone.
LEMMA RunSteps ==
  ASSUME Consented, NEW r \in Runs, NEW e \in RunRecords,
         run' = [run EXCEPT ![r] = e], UNCHANGED <<versions, crossed, clock, reader>>,
         lock' \in Runs \cup {Nobody}, Guarded',
         strays \subseteq strays', strays' \subseteq Tokens,
         live' \subseteq live \/ (live' = live \cup {r} /\ run[r].at = "asking"
                               /\ e.at = "locking" /\ e.op = "grant"),
         \* what r is now at
         e.at = "ended" => e.op = "none",
         e.at # "ended" =>
           e.at # "new" /\ e.op # "none" /\ e.s \in Subjects /\ e.f \in Surfaces,
         e.at = "asking" => e.op = "grant" /\ run[r].at = "new",
         e.at = "revoking" => e.op = "revoke",
         e.at = "writing" =>
           /\ e.op = run[r].op /\ e.s = run[r].s /\ e.f = run[r].f
           /\ e.doc = IF run[r].op = "grant" THEN Upserted(File.table, r)
                                             ELSE Removed(File.table, r),
         e.saw = NoValue \/ e.saw = run[r].saw
           \/ \E s \in Subjects, f \in Surfaces : e.saw = Held(s, f),
         \* what it leaves behind
         e.op = "revoke" =>
           /\ e.saw \in Tokens
           /\ e.at \in {"locking", "locked", "writing"} => e.saw \notin live' \ strays'
           /\ e.at \in {"revoking", "locking", "locked", "writing"} /\ r \notin crossed =>
                Held(e.s, e.f) = e.saw,
         \/ r \in strays'
         \/ ~(run[r].op = "grant" /\ run[r].at \in {"locking", "locked", "writing"})
         \/ e.op = "grant" /\ e.at \in {"locking", "locked", "writing"}
  PROVE  Consented'
<1>1. /\ MapTypeOK /\ Guarded /\ Asked /\ Unissued /\ HoldsTokens /\ Revoked
      /\ NoStrayGrants
  BY DEF Consented
<1>2. /\ run \in [Runs -> RunRecords] /\ run' \in [Runs -> RunRecords] /\ run'[r] = e
      /\ \A d \in Runs \ {r} : run'[d] = run[d]
  BY <1>1, MapTypes
<1>3. /\ File' = File
      /\ \A s, f : Held(s, f)' = Held(s, f)
  BY DEF File, Last, Held
<1>4. live' \subseteq Tokens
  BY <1>1 DEF MapTypeOK, Tokens
<1>5. MapTypeOK'
  <2>1. Stamps' = Stamps
    BY DEF Stamps
  <2> QED  BY <1>1, <1>2, <1>4, <2>1 DEF MapTypeOK, RunRecords
<1>6. Asked'
  <2>1. ASSUME NEW d \in Runs, d # r
        PROVE  /\ Upserted(File.table, d)' = Upserted(File.table, d)
               /\ Removed(File.table, d)' = Removed(File.table, d)
    BY <1>2, <1>3, <2>1 DEF Upserted, Removed
  <2>2. ASSUME e.at = "writing"
        PROVE  /\ Upserted(File.table, r)' = Upserted(File.table, r)
               /\ Removed(File.table, r)' = Removed(File.table, r)
    BY <1>2, <1>3, <2>2 DEF Upserted, Removed
  <2>3. ASSUME NEW d \in Runs
        PROVE  /\ run'[d].at \in {"new", "ended"} => run'[d].op = "none"
               /\ run'[d].at \notin {"new", "ended"} =>
                    run'[d].op # "none" /\ run'[d].s \in Subjects /\ run'[d].f \in Surfaces
               /\ run'[d].at = "asking" => run'[d].op = "grant"
               /\ run'[d].at = "revoking" => run'[d].op = "revoke"
    BY <1>1, <1>2 DEF Asked
  <2>4. ASSUME NEW d \in Runs, run'[d].at = "writing"
        PROVE  run'[d].doc = IF run'[d].op = "grant" THEN Upserted(File.table, d)'
                                                    ELSE Removed(File.table, d)'
    <3>1. CASE d = r
      BY <1>2, <2>2, <2>4, <3>1
    <3>2. CASE d # r
      BY <1>1, <1>2, <2>1, <2>4, <3>2 DEF Asked
    <3> QED  BY <3>1, <3>2
  <2> QED  BY <2>3, <2>4 DEF Asked
<1>7. Unissued'
  <2> SUFFICES ASSUME NEW d \in Runs, run'[d].at \in {"new", "asking"}
               PROVE  /\ \A s \in Subjects, f \in Surfaces : Held(s, f)' # d
                      /\ \A q \in Runs : run'[q].saw # d
    BY DEF Unissued
  <2>1. run[d].at \in {"new", "asking"}
    BY <1>2
  <2>2. /\ \A s \in Subjects, f \in Surfaces : Held(s, f) # d
        /\ \A q \in Runs : run[q].saw # d
    BY <1>1, <2>1 DEF Unissued
  <2>3. e.saw # d
    BY <2>2, NobodyAssumption
  <2> QED  BY <1>2, <1>3, <2>2, <2>3
<1>8. HoldsTokens'
  BY <1>1, <1>3 DEF HoldsTokens
<1>9. Revoked'
  <2> SUFFICES ASSUME NEW d \in Runs, run'[d].op = "revoke"
               PROVE  /\ run'[d].saw \in Tokens
                      /\ run'[d].at \in {"locking", "locked", "writing"} =>
                           run'[d].saw \notin live' \ strays'
                      /\ run'[d].at \in {"revoking", "locking", "locked", "writing"}
                           /\ d \notin crossed =>
                         Held(run[d].s, run[d].f)' = run'[d].saw
    BY DEF Revoked
  <2>1. CASE d = r
    BY <1>2, <1>3, <2>1
  <2>2. CASE d # r
    <3>1. run'[d] = run[d]
      BY <1>2, <2>2
    <3>2. run[r].at = "asking" => run[d].saw # r
      BY <1>1 DEF Unissued
    <3> QED  BY <1>1, <1>3, <3>1, <3>2 DEF Revoked
  <2> QED  BY <2>1, <2>2
<1>10. NoStrayGrants'
  <2> SUFFICES ASSUME NEW t \in live' \ strays' PROVE Kept(t)'
    BY DEF NoStrayGrants, Kept
  <2>1. CASE t \in live
    <3>1. Kept(t)
      BY <1>1, <2>1 DEF NoStrayGrants, Kept
    <3>2. CASE \E s \in Subjects, f \in Surfaces : Held(s, f) = t
      BY <1>3, <3>2 DEF Kept
    <3>3. CASE t \in Runs /\ run[t].op = "grant" /\ run[t].at \in {"locking", "locked", "writing"}
      BY <1>2, <3>3 DEF Kept
    <3> QED  BY <3>1, <3>2, <3>3 DEF Kept
  <2>2. CASE t \notin live
    BY <1>2, <2>2 DEF Kept
  <2> QED  BY <2>1, <2>2
<1> QED  BY <1>5, <1>6, <1>7, <1>8, <1>9, <1>10 DEF Consented

LEMMA EndedRecord ==
  [NewRun EXCEPT !.at = "ended"] \in RunRecords /\ [NewRun EXCEPT !.at = "ended"].at = "ended"
    /\ [NewRun EXCEPT !.at = "ended"].op = "none" /\ [NewRun EXCEPT !.at = "ended"].saw = NoValue
BY DEF NewRun, RunRecords

\* A run that ends, wherever it was: it gives up the lock, and a token of its own
\* that is not in the file is one it knew of.
LEMMA RunEnds ==
  ASSUME Consented, NEW r \in Runs, Ends(r),
         lock' = Release(r), UNCHANGED <<versions, live, crossed, clock, reader>>,
         strays \subseteq strays', strays' \subseteq strays \cup {r},
         r \in strays' \/ ~(run[r].op = "grant" /\ run[r].at \in {"locking", "locked", "writing"})
  PROVE  Consented'
<1> DEFINE e == [NewRun EXCEPT !.at = "ended"]
<1>1. run' = [run EXCEPT ![r] = e] /\ e \in RunRecords
  BY EndedRecord DEF Ends
<1>2. e.at = "ended" /\ e.op = "none" /\ e.saw = NoValue
  BY EndedRecord
<1> HIDE DEF e
<1>3. Guarded'
  <2>1. \A d \in Runs \ {r} : run'[d] = run[d]
    BY <1>1, MapTypes DEF Consented
  <2>2. run'[r].at = "ended"
    BY <1>1, <1>2, MapTypes DEF Consented
  <2> QED  BY <2>1, <2>2, NobodyAssumption DEF Release, Consented, Guarded
<1>4. /\ lock' \in Runs \cup {Nobody} /\ strays \subseteq strays' /\ strays' \subseteq Tokens
  BY DEF Release, Consented, MapTypeOK, Tokens
<1>5. \/ r \in strays'
      \/ ~(run[r].op = "grant" /\ run[r].at \in {"locking", "locked", "writing"})
  OBVIOUS
<1> QED  BY <1>1, <1>2, <1>3, <1>4, <1>5, RunSteps

LEMMA RecordOf ==
  ASSUME Consented, NEW r \in Runs
  PROVE  /\ run[r] \in RunRecords /\ run[r].saw \in Tokens \cup {NoValue}
         /\ live \subseteq Tokens /\ strays \subseteq Tokens /\ lock \in Runs \cup {Nobody}
<1>1. run[r] \in RunRecords
  BY MapTypes DEF Consented
<1>2. run[r].saw \in Tokens \cup {NoValue}
  BY <1>1 DEF RunRecords
<1> QED  BY <1>1, <1>2 DEF Consented, MapTypeOK

\* Who has the lock is not changed by a run that neither had it nor takes it.
LEMMA StaysGuarded ==
  ASSUME Consented, NEW r \in Runs, NEW e, run' = [run EXCEPT ![r] = e], lock' = lock,
         e.at \in {"locked", "writing", "unlocking"} <=>
           run[r].at \in {"locked", "writing", "unlocking"}
  PROVE  Guarded'
<1>1. \A d \in Runs \ {r} : run'[d] = run[d]
  BY MapTypes DEF Consented
<1>2. run'[r] = e
  BY MapTypes DEF Consented
<1> QED  BY <1>1, <1>2 DEF Guarded, Consented

LEMMA StartGrantKeeps ==
  ASSUME Consented, NEW r \in Runs, NEW s \in Subjects, NEW f \in Surfaces,
         StartGrant(r, s, f)
  PROVE  Consented'
<1>1. run[r].at = "new" /\ UNCHANGED <<versions, lock, live, strays, crossed, clock, reader>>
  BY DEF StartGrant
<1>2. CASE Writable
  <2> DEFINE e == [run[r] EXCEPT !.at = "asking", !.op = "grant", !.s = s, !.f = f]
  <2>1. run' = [run EXCEPT ![r] = e]
    BY <1>2 DEF StartGrant
  <2>2. /\ e \in RunRecords /\ e.at = "asking" /\ e.op = "grant" /\ e.s = s /\ e.f = f
        /\ e.saw = run[r].saw
    BY RecordOf DEF RunRecords
  <2> HIDE DEF e
  <2>3. Guarded'
    BY <1>1, <2>1, <2>2, StaysGuarded
  <2>4. lock' \in Runs \cup {Nobody} /\ strays' \subseteq Tokens
    BY <1>1, RecordOf
  <2> QED  BY <1>1, <2>1, <2>2, <2>3, <2>4, RunSteps
<1>3. CASE ~Writable
  <2>1. Ends(r)
    BY <1>3 DEF StartGrant
  <2>2. lock' = Release(r)
    BY <1>1 DEF Release, Consented, Guarded
  <2> QED  BY <1>1, <2>1, <2>2, RunEnds
<1> QED  BY <1>2, <1>3

LEMMA IssuedKeeps ==
  ASSUME Consented, NEW r \in Runs, Issued(r)
  PROVE  Consented'
<1> DEFINE e == [run[r] EXCEPT !.at = "locking"]
<1>1. /\ run[r].at = "asking" /\ live' = live \cup {r} /\ run' = [run EXCEPT ![r] = e]
      /\ UNCHANGED <<versions, lock, strays, crossed, clock, reader>>
  BY DEF Issued
<1>2. run[r].op = "grant" /\ run[r].s \in Subjects /\ run[r].f \in Surfaces
  BY <1>1 DEF Consented, Asked
<1>3. /\ e \in RunRecords /\ e.at = "locking" /\ e.op = "grant" /\ e.s \in Subjects
      /\ e.f \in Surfaces /\ e.saw = run[r].saw
  BY <1>2, RecordOf DEF RunRecords
<1> HIDE DEF e
<1>4. Guarded'
  BY <1>1, <1>3, StaysGuarded
<1>5. lock' \in Runs \cup {Nobody} /\ strays' \subseteq Tokens
  BY <1>1, RecordOf
<1> QED  BY <1>1, <1>3, <1>4, <1>5, RunSteps

LEMMA NotGrantedKeeps ==
  ASSUME Consented, NEW r \in Runs, NotGranted(r)
  PROVE  Consented'
<1>1. /\ run[r].at = "asking" /\ Ends(r)
      /\ UNCHANGED <<versions, lock, live, strays, crossed, clock, reader>>
  BY DEF NotGranted
<1>2. lock' = Release(r)
  BY <1>1 DEF Release, Consented, Guarded
<1> QED  BY <1>1, <1>2, RunEnds

LEMMA StartRevokeKeeps ==
  ASSUME Consented, NEW r \in Runs, NEW s \in Subjects, NEW f \in Surfaces,
         StartRevoke(r, s, f)
  PROVE  Consented'
<1>1. /\ run[r].at = "new" /\ UNCHANGED <<versions, lock, live, crossed, clock, reader>>
      /\ strays' = IF run'[r].at = "locking" THEN strays \cup {Held(s, f)} ELSE strays
  BY DEF StartRevoke
<1>2. CASE File.form # "plain" \/ Held(s, f) = NoValue
  <2>1. Ends(r)
    BY <1>2 DEF StartRevoke
  <2>2. run'[r].at = "ended"
    BY <2>1, EndedRecord, MapTypes DEF Ends, Consented
  <2>3. lock' = Release(r)
    BY <1>1 DEF Release, Consented, Guarded
  <2> QED  BY <1>1, <2>1, <2>2, <2>3, RunEnds
<1>3. CASE ~(File.form # "plain" \/ Held(s, f) = NoValue)
  <2> DEFINE at == IF f \in CanRevoke THEN "revoking" ELSE "locking"
             e == [run[r] EXCEPT !.at = at, !.op = "revoke", !.s = s, !.f = f, !.saw = Held(s, f)]
  <2>1. run' = [run EXCEPT ![r] = e]
    BY <1>3 DEF StartRevoke
  <2>2. Held(s, f) \in Tokens
    BY <1>3 DEF Consented, HoldsTokens
  <2>3. /\ e \in RunRecords /\ e.at \in {"revoking", "locking"} /\ e.op = "revoke"
        /\ e.s = s /\ e.f = f /\ e.saw = Held(s, f)
    BY <2>2, RecordOf DEF RunRecords
  <2> HIDE DEF e
  <2>4. Guarded'
    BY <1>1, <2>1, <2>3, StaysGuarded
  <2>5. run'[r] = e
    BY <2>1, MapTypes DEF Consented
  <2>6. /\ lock' \in Runs \cup {Nobody} /\ strays \subseteq strays' /\ strays' \subseteq Tokens
        /\ e.at = "locking" => e.saw \in strays'
    BY <1>1, <2>2, <2>3, <2>5, RecordOf
  <2>7. e.op = "revoke" =>
          /\ e.saw \in Tokens
          /\ e.at \in {"locking", "locked", "writing"} => e.saw \notin live' \ strays'
          /\ e.at \in {"revoking", "locking", "locked", "writing"} /\ r \notin crossed =>
               Held(e.s, e.f) = e.saw
    BY <2>2, <2>3, <2>6
  <2>8. \E q \in Subjects, g \in Surfaces : e.saw = Held(q, g)
    BY <2>3
  <2>9. live' \subseteq live
    BY <1>1
  <2> QED  BY <1>1, <2>1, <2>3, <2>4, <2>6, <2>7, <2>8, <2>9, RunSteps
<1> QED  BY <1>2, <1>3

LEMMA UpstreamKeeps ==
  ASSUME Consented, NEW r \in Runs, NEW reached \in BOOLEAN,
         Upstream(r, reached)
  PROVE  Consented'
<1> DEFINE e == [run[r] EXCEPT !.at = "locking"]
<1>1. /\ run[r].at = "revoking" /\ run' = [run EXCEPT ![r] = e]
      /\ live' = (IF reached THEN live \ {run[r].saw} ELSE live)
      /\ strays' = (IF reached THEN strays ELSE strays \cup {run[r].saw})
      /\ UNCHANGED <<versions, lock, crossed, clock, reader>>
  BY DEF Upstream, Revokes
<1>2. run[r].op = "revoke" /\ run[r].s \in Subjects /\ run[r].f \in Surfaces
  BY <1>1 DEF Consented, Asked
<1>3. /\ e \in RunRecords /\ e.at = "locking" /\ e.op = "revoke" /\ e.s = run[r].s
      /\ e.f = run[r].f /\ e.saw = run[r].saw
  BY <1>2, RecordOf DEF RunRecords
<1> HIDE DEF e
<1>4. Guarded'
  BY <1>1, <1>3, StaysGuarded
<1>5. e.saw \in Tokens /\ (r \notin crossed => Held(e.s, e.f) = e.saw)
  BY <1>1, <1>2, <1>3 DEF Consented, Revoked
<1>6. /\ lock' \in Runs \cup {Nobody} /\ strays \subseteq strays' /\ strays' \subseteq Tokens
      /\ live' \subseteq live /\ e.saw \notin live' \ strays'
  BY <1>1, <1>3, <1>5, RecordOf
<1> QED  BY <1>1, <1>2, <1>3, <1>4, <1>5, <1>6, RunSteps

LEMMA LockKeeps ==
  ASSUME Consented, NEW r \in Runs, Lock(r)
  PROVE  Consented'
<1> DEFINE e == [run[r] EXCEPT !.at = "locked"]
<1>1. /\ run[r].at = "locking" /\ lock = Nobody /\ lock' = r /\ run' = [run EXCEPT ![r] = e]
      /\ UNCHANGED <<versions, live, strays, crossed, clock, reader>>
  BY DEF Lock, Unlocked
<1>2. run[r].op # "none" /\ run[r].s \in Subjects /\ run[r].f \in Surfaces
  BY <1>1 DEF Consented, Asked
<1>3. /\ e \in RunRecords /\ e.at = "locked" /\ e.op = run[r].op /\ e.s = run[r].s
      /\ e.f = run[r].f /\ e.saw = run[r].saw
  BY <1>2, RecordOf DEF RunRecords
<1> HIDE DEF e
<1>4. Guarded'
  <2>1. run'[r] = e /\ \A d \in Runs \ {r} : run'[d] = run[d]
    BY <1>1, MapTypes DEF Consented
  <2> QED  BY <1>1, <1>3, <2>1, NobodyAssumption DEF Guarded, Consented
<1>5. e.op = "revoke" =>
        /\ e.saw \in Tokens
        /\ e.at \in {"locking", "locked", "writing"} => e.saw \notin live' \ strays'
        /\ e.at \in {"revoking", "locking", "locked", "writing"} /\ r \notin crossed =>
             Held(e.s, e.f) = e.saw
  BY <1>1, <1>3 DEF Consented, Revoked
<1>6. /\ lock' \in Runs \cup {Nobody} /\ strays \subseteq strays' /\ strays' \subseteq Tokens
      /\ live' \subseteq live
  BY <1>1, RecordOf
<1>7. \/ r \in strays'
      \/ ~(run[r].op = "grant" /\ run[r].at \in {"locking", "locked", "writing"})
      \/ e.op = "grant" /\ e.at \in {"locking", "locked", "writing"}
  BY <1>3
<1> QED  BY <1>1, <1>2, <1>3, <1>4, <1>5, <1>6, <1>7, RunSteps

LEMMA ChangeKeeps ==
  ASSUME Consented, NEW r \in Runs, Change(r)
  PROVE  Consented'
<1> DEFINE doc == IF run[r].op = "grant" THEN Upserted(File.table, r)
                                         ELSE Removed(File.table, r)
           stops == File.form = "malformed" \/ doc = File.table
<1>1. run[r].at = "locked" /\ UNCHANGED <<versions, live, crossed, clock, reader>>
  BY DEF Change
<1>2. CASE stops
  <2>1. lock' = Release(r) /\ strays' = strays \cup {r} /\ Ends(r)
    BY <1>2 DEF Change
  <2> HIDE DEF doc, stops
  <2>2. strays \subseteq strays' /\ strays' \subseteq strays \cup {r} /\ r \in strays'
    BY <2>1
  <2> QED  BY <1>1, <2>1, <2>2, RunEnds
<1>3. CASE ~stops
  <2> DEFINE e == [run[r] EXCEPT !.at = "writing", !.doc = doc]
  <2>1. run' = [run EXCEPT ![r] = [@ EXCEPT !.at = "writing", !.doc = doc]] /\ lock' = lock /\ strays' = strays
    BY <1>3 DEF Change
  <2>2. run' = [run EXCEPT ![r] = e]
    BY <2>1
  <2>3. run[r].op # "none" /\ run[r].s \in Subjects /\ run[r].f \in Surfaces
    BY <1>1 DEF Consented, Asked
  <2>4. doc \in Tables
    BY <2>3, MapTypes, ChangedSlots DEF Consented
  <2> HIDE DEF doc
  <2>5. /\ e \in RunRecords /\ e.at = "writing" /\ e.op = run[r].op /\ e.s = run[r].s
        /\ e.f = run[r].f /\ e.saw = run[r].saw /\ e.doc = doc
    BY <2>3, <2>4, RecordOf DEF RunRecords
  <2> HIDE DEF e
  <2>6. Guarded'
    BY <1>1, <2>1, <2>2, <2>5, StaysGuarded
  <2>7. e.op = "revoke" =>
          /\ e.saw \in Tokens
          /\ e.at \in {"locking", "locked", "writing"} => e.saw \notin live' \ strays'
          /\ e.at \in {"revoking", "locking", "locked", "writing"} /\ r \notin crossed =>
               Held(e.s, e.f) = e.saw
    BY <1>1, <2>1, <2>5 DEF Consented, Revoked
  <2>8. /\ lock' \in Runs \cup {Nobody} /\ strays \subseteq strays' /\ strays' \subseteq Tokens
        /\ live' \subseteq live
    BY <1>1, <2>1, RecordOf
  <2>10. \/ r \in strays'
         \/ ~(run[r].op = "grant" /\ run[r].at \in {"locking", "locked", "writing"})
         \/ e.op = "grant" /\ e.at \in {"locking", "locked", "writing"}
    BY <2>5
  <2>9. e.doc = IF run[r].op = "grant" THEN Upserted(File.table, r)
                                       ELSE Removed(File.table, r)
    BY <2>5 DEF doc
  <2> QED  BY <1>1, <2>1, <2>2, <2>3, <2>5, <2>6, <2>7, <2>8, <2>9, <2>10, RunSteps
<1> QED  BY <1>2, <1>3

LEMMA UnlockKeeps ==
  ASSUME Consented, NEW r \in Runs, Unlock(r) \/ Crash(r)
  PROVE  Consented'
<1>1. /\ lock' = Release(r) /\ Ends(r)
      /\ UNCHANGED <<versions, live, crossed, clock, reader>>
      /\ \/ run[r].at = "unlocking" /\ strays' = strays
         \/ strays' = strays \cup {r}
  BY DEF Unlock, Crash
<1>2. /\ strays \subseteq strays' /\ strays' \subseteq strays \cup {r}
      /\ r \in strays' \/ ~(run[r].op = "grant" /\ run[r].at \in {"locking", "locked", "writing"})
  BY <1>1
<1> QED  BY <1>1, <1>2, RunEnds

\* The rename: a run that has the lock puts its change, and nothing but that, in
\* the place of the file.
LEMMA ReplaceKeeps ==
  ASSUME Consented, NEW r \in Runs, Replace(r)
  PROVE  Consented'
<1> DEFINE sr == run[r].s
           fr == run[r].f
<1>1. /\ run[r].at = "writing" /\ UNCHANGED <<lock, live, clock, reader>>
      /\ versions' = Append(versions, [form |-> "plain", table |-> run[r].doc, mtime |-> clock])
      /\ strays' = IF run[r].op = "grant" \/ r \in crossed
                   THEN strays \cup ({Held(run[r].s, run[r].f)} \cap Tokens)
                   ELSE strays
      /\ crossed' = crossed \cup Crosses(r)
      /\ run' = [run EXCEPT ![r].at = "unlocking"]
  BY DEF Replace
<1>2. /\ MapTypeOK /\ Guarded /\ Asked /\ Unissued /\ HoldsTokens /\ Revoked
      /\ NoStrayGrants
  BY DEF Consented
<1>3. /\ run[r].op # "none" /\ run[r].s \in Subjects /\ run[r].f \in Surfaces
      /\ run[r].doc = IF run[r].op = "grant" THEN Upserted(File.table, r)
                                             ELSE Removed(File.table, r)
  BY <1>1, <1>2 DEF Asked
<1>4. /\ run[r].doc \in Tables
      /\ \A s \in Subjects, f \in Surfaces :
           run[r].doc[s][RefreshName[f]] =
             IF s = run[r].s /\ RefreshName[f] = RefreshName[run[r].f]
             THEN IF run[r].op = "grant" THEN r ELSE NoValue
             ELSE Held(s, f)
  <2>1. File.table \in Tables
    BY <1>2, MapTypes
  <2> QED  BY <1>3, <2>1, ChangedSlots DEF Held
<1>5. /\ versions' \in Seq(Versions) /\ Len(versions') = Len(versions) + 1
      /\ Len(versions) \in Nat /\ versions' # <<>>
      /\ File' = [form |-> "plain", table |-> run[r].doc, mtime |-> clock]
  <2>1. [form |-> "plain", table |-> run[r].doc, mtime |-> clock] \in Versions
    BY <1>2, <1>4 DEF MapTypeOK, Versions, Forms
  <2>2. versions \in Seq(Versions) /\ Len(versions) \in Nat
    BY <1>2, MapTypes
  <2>3. /\ versions' \in Seq(Versions) /\ Len(versions') = Len(versions) + 1
        /\ versions'[Len(versions) + 1] = [form |-> "plain", table |-> run[r].doc, mtime |-> clock]
    BY <1>1, <2>1, <2>2
  <2>4. File' = versions'[Len(versions')]
    BY DEF File, Last
  <2> QED  BY <2>2, <2>3, <2>4
<1>6. \A s \in Subjects, f \in Surfaces :
        Held(s, f)' = IF s = run[r].s /\ RefreshName[f] = RefreshName[run[r].f]
                          THEN IF run[r].op = "grant" THEN r ELSE NoValue
                          ELSE Held(s, f)
  BY <1>4, <1>5 DEF Held
<1>7. /\ run' \in [Runs -> RunRecords] /\ run'[r].at = "unlocking" /\ run'[r].op = run[r].op
      /\ run'[r].s = run[r].s /\ run'[r].f = run[r].f /\ run'[r].saw = run[r].saw
      /\ \A d \in Runs \ {r} : run'[d] = run[d]
  <2>1. run \in [Runs -> RunRecords]
    BY <1>2, MapTypes
  <2> QED  BY <1>1, <2>1 DEF RunRecords
<1>8. MapTypeOK'
  <2>1. reader' \in Readers'
    <3>1. \A i \in 1 .. Len(versions) : i \in 1 .. Len(versions') /\ versions'[i] = versions[i]
      BY <1>1, <1>2, <1>5, MapTypes
    <3>2. Stamps \subseteq Stamps'
      BY <3>1 DEF Stamps
    <3>3. 1 .. Len(versions) \subseteq 1 .. Len(versions')
      BY <3>1
    <3>4. reader \in Readers
      BY <1>2 DEF MapTypeOK, Readers
    <3> QED  BY <1>1, <3>2, <3>3, <3>4 DEF Readers
  <2>2. strays' \subseteq Tokens /\ crossed' \subseteq Runs
    BY <1>1, <1>2 DEF MapTypeOK, Crosses
  <2> QED  BY <1>1, <1>2, <1>5, <1>7, <2>1, <2>2 DEF MapTypeOK, Versions, RunRecords, Readers
<1>9. Guarded'
  BY <1>1, <1>2, <1>7 DEF Guarded
<1>10. Asked'
  <2>1. \A d \in Runs \ {r} : run[d].at # "writing"
    BY <1>1, <1>2 DEF Guarded
  <2> QED  BY <1>2, <1>3, <1>7, <2>1 DEF Asked
<1>11. Unissued'
  <2> SUFFICES ASSUME NEW d \in Runs, run'[d].at \in {"new", "asking"}
               PROVE  /\ \A s \in Subjects, f \in Surfaces : Held(s, f)' # d
                      /\ \A q \in Runs : run'[q].saw # d
    BY DEF Unissued
  <2>1. d # r /\ run[d].at \in {"new", "asking"}
    BY <1>7
  <2>2. /\ \A s \in Subjects, f \in Surfaces : Held(s, f) # d
        /\ \A q \in Runs : run[q].saw # d
    BY <1>2, <2>1 DEF Unissued
  <2>3. NoValue # d
    BY NobodyAssumption
  <2> QED  BY <1>6, <1>7, <2>1, <2>2, <2>3
<1>12. HoldsTokens'
  BY <1>2, <1>6 DEF HoldsTokens, Tokens
<1>13. Revoked'
  <2> SUFFICES ASSUME NEW d \in Runs, run'[d].op = "revoke"
               PROVE  /\ run'[d].saw \in Tokens
                      /\ run'[d].at \in {"locking", "locked", "writing"} =>
                           run'[d].saw \notin live' \ strays'
                      /\ run'[d].at \in {"revoking", "locking", "locked", "writing"}
                           /\ d \notin crossed' =>
                         Held(run[d].s, run[d].f)' = run'[d].saw
    BY DEF Revoked
  <2>1. CASE d = r
    BY <1>2, <1>7, <2>1 DEF Revoked
  <2>2. CASE d # r
    <3>1. run'[d] = run[d] /\ strays \subseteq strays' /\ live' = live /\ crossed \subseteq crossed'
      BY <1>1, <1>7, <2>2
    <3>2. ASSUME run[d].at \in {"revoking", "locking", "locked", "writing"}, d \notin crossed'
          PROVE  Held(run[d].s, run[d].f)' = run[d].saw
      <4>1. run[d].s \in Subjects /\ run[d].f \in Surfaces
        BY <1>2, <3>1, <3>2 DEF Asked
      <4>2. PICK s \in Subjects, f \in Surfaces : s = run[d].s /\ f = run[d].f
        BY <4>1
      <4>3. Held(s, f) = run[d].saw
        <5>1. Held(run[d].s, run[d].f) = run[d].saw
          BY <1>2, <3>1, <3>2 DEF Revoked
        <5> QED  BY <4>2, <5>1 DEF Held
      <4>4. ~(s = run[r].s /\ RefreshName[f] = RefreshName[run[r].f])
        BY <1>1, <2>2, <3>1, <3>2, <4>2 DEF Crosses
      <4>5. Held(s, f)' = run[d].saw
        BY <1>6, <4>3, <4>4
      <4>6. s = run'[d].s /\ f = run'[d].f
        BY <3>1, <4>2
      <4> QED  BY <4>5, <4>6 DEF Held
    <3> QED  BY <1>2, <3>1, <3>2 DEF Revoked
  <2> QED  BY <2>1, <2>2
<1>14. NoStrayGrants'
  <2> SUFFICES ASSUME NEW t \in live' \ strays' PROVE Kept(t)'
    BY DEF NoStrayGrants, Kept
  <2>1. t \in live \ strays /\ t \in Tokens
    BY <1>1, <1>2 DEF MapTypeOK
  <2>2. Kept(t)
    BY <1>2, <2>1 DEF NoStrayGrants, Kept
  <2>3. CASE t \in Runs /\ run[t].op = "grant" /\ run[t].at \in {"locking", "locked", "writing"}
    <3>1. CASE t = r
      BY <1>3, <1>6, <2>3, <3>1 DEF Kept
    <3>2. CASE t # r
      BY <1>7, <2>3, <3>2 DEF Kept
    <3> QED  BY <3>1, <3>2
  <2>4. ASSUME NEW s \in Subjects, NEW f \in Surfaces, Held(s, f) = t PROVE Kept(t)'
    <3>1. CASE ~(s = run[r].s /\ RefreshName[f] = RefreshName[run[r].f])
      BY <1>6, <2>4, <3>1 DEF Kept
    <3>2. CASE s = run[r].s /\ RefreshName[f] = RefreshName[run[r].f]
      <4>1. Held(run[r].s, run[r].f) = t
        BY <2>4, <3>2 DEF Held
      <4>2. ~(run[r].op = "grant" \/ r \in crossed)
        BY <1>1, <2>1, <4>1
      <4>3. run[r].op = "revoke" /\ r \notin crossed
        BY <1>2, <1>3, <4>2, MapTypes DEF RunRecords
      <4>4. t = run[r].saw /\ run[r].saw \notin live \ strays
        BY <1>1, <1>2, <4>1, <4>3 DEF Revoked
      <4> QED  BY <2>1, <4>4
    <3> QED  BY <3>1, <3>2
  <2> QED  BY <2>2, <2>3, <2>4 DEF Kept
<1> QED  BY <1>8, <1>9, <1>10, <1>11, <1>12, <1>13, <1>14 DEF Consented

\* A step of the gateway or of the clock.
LEMMA OthersKeep ==
  ASSUME Consented, UNCHANGED <<versions, lock, run, live, strays, crossed>>,
         clock' \in 0 .. MaxClock, reader' \in Readers
  PROVE  Consented'
<1>1. /\ MapTypeOK /\ Guarded /\ Asked /\ Unissued /\ HoldsTokens /\ Revoked
      /\ NoStrayGrants
  BY DEF Consented
<1>2. /\ File' = File
      /\ \A s, f : Held(s, f)' = Held(s, f)
      /\ \A r \in Runs :
           /\ Upserted(File.table, r)' = Upserted(File.table, r)
           /\ Removed(File.table, r)' = Removed(File.table, r)
  BY DEF File, Last, Held, Upserted, Removed
<1>3. MapTypeOK'
  <2>1. Stamps' = Stamps
    BY DEF Stamps
  <2> QED  BY <1>1, <2>1 DEF MapTypeOK, Readers
<1>4. Guarded' /\ HoldsTokens' /\ Unissued'
  BY <1>1, <1>2 DEF Guarded, HoldsTokens, Unissued
<1>5. Asked'
  BY <1>1, <1>2 DEF Asked
<1>6. Revoked'
  BY <1>1, <1>2 DEF Revoked, Held
<1>7. NoStrayGrants'
  BY <1>1, <1>2 DEF NoStrayGrants
<1> QED  BY <1>1, <1>3, <1>4, <1>5, <1>6, <1>7 DEF Consented

\* What a look at the file does to what the gateway has.
LEMMA Stats ==
  ASSUME Consented, Stat
  PROVE  /\ UNCHANGED <<versions, lock, run, live, strays, crossed, clock>>
         /\ reader' \in Readers /\ reader'.from = Len(versions)
         /\ reader'.cached = reader.cached /\ reader'.data = reader.data
         /\ reader'.at = "answered" /\ reader'.answer = "served" =>
              reader.cached = StampOf(File)
<1>1. reader \in Readers /\ Len(versions) \in 1 .. Len(versions)
  BY MapTypes DEF Consented, MapTypeOK, Readers
<1>2. \/ reader' = [reader EXCEPT !.at = "answered", !.from = Len(versions), !.answer = "unavailable"]
      \/ /\ reader.cached = StampOf(File)
         /\ reader' = [reader EXCEPT !.at = "answered", !.from = Len(versions), !.answer = "served"]
      \/ reader' = [reader EXCEPT !.at = "reading", !.from = Len(versions)]
  <2> DEFINE absent == File.form = "absent"
             hit == File.form # "absent" /\ SameStamp(reader.cached, StampOf(File))
  <2>1. reader' = CASE absent ->
                         [reader EXCEPT !.at = "answered", !.from = Len(versions), !.answer = "unavailable"]
                    [] hit ->
                         [reader EXCEPT !.at = "answered", !.from = Len(versions), !.answer = "served"]
                    [] OTHER -> [reader EXCEPT !.at = "reading", !.from = Len(versions)]
    BY DEF Stat
  <2>2. ~(absent /\ hit) /\ (hit => reader.cached = StampOf(File))
    BY DEF SameStamp
  <2> HIDE DEF absent, hit
  <2>3. CASE absent
    BY <2>1, <2>2, <2>3
  <2>4. CASE hit
    BY <2>1, <2>2, <2>4
  <2>5. CASE ~absent /\ ~hit
    BY <2>1, <2>5
  <2> QED  BY <2>3, <2>4, <2>5
<1>3. UNCHANGED <<versions, lock, run, live, strays, crossed, clock>>
  BY DEF Stat
<1> QED  BY <1>1, <1>2, <1>3 DEF Readers

LEMMA Parses ==
  ASSUME Consented, Parse
  PROVE  /\ UNCHANGED <<versions, lock, run, live, strays, crossed, clock>>
         /\ reader' \in Readers /\ reader'.at = "answered" /\ reader'.from = reader.from
         /\ \/ /\ reader'.answer # "served"
               /\ reader'.cached = reader.cached /\ reader'.data = reader.data
            \/ /\ File.form # "malformed" /\ reader'.data = File.table
               /\ reader'.cached = StampOf(versions[reader.from])
<1>1. /\ reader \in Readers /\ File.table \in Tables
      /\ StampOf(versions[reader.from]) \in Stamps
  BY MapTypes DEF Consented, MapTypeOK, Readers, Stamps
<1>2. CASE File.form = "malformed"
  <2>1. reader' = [reader EXCEPT !.at = "answered", !.answer = "unavailable"]
    BY <1>2 DEF Parse
  <2> QED  BY <1>1, <2>1 DEF Parse, Readers
<1>3. CASE File.form # "malformed"
  <2> DEFINE stamp == StampOf(versions[reader.from])
  <2>1. reader' = [reader EXCEPT !.at = "answered", !.answer = "served", !.data = File.table,
                                 !.cached = stamp]
    BY <1>3 DEF Parse
  <2> HIDE DEF stamp
  <2>2. UNCHANGED <<versions, lock, run, live, strays, crossed, clock>>
    BY DEF Parse
  <2>3. stamp \in Stamps
    BY <1>1 DEF stamp
  <2>4. /\ reader' \in Readers /\ reader'.at = "answered" /\ reader'.from = reader.from
        /\ reader'.data = File.table /\ reader'.cached = stamp
    BY <1>1, <2>1, <2>3 DEF Readers
  <2> QED  BY <1>3, <2>2, <2>4 DEF stamp
<1> QED  BY <1>2, <1>3

LEMMA MapStep ==
  ASSUME Consented, [MapNext]_mapVars
  PROVE  Consented'
<1>1. CASE UNCHANGED mapVars
  <2>1. UNCHANGED <<versions, lock, run, live, strays, crossed, clock, reader>>
    BY <1>1 DEF mapVars
  <2>2. clock' \in 0 .. MaxClock /\ reader' \in Readers
    BY <2>1 DEF Consented, MapTypeOK, Readers
  <2> QED  BY <2>1, <2>2, OthersKeep
<1>2. CASE Tick
  <2>1. /\ UNCHANGED <<versions, lock, run, live, strays, crossed, reader>>
        /\ clock < MaxClock /\ clock' = clock + 1
    BY <1>2 DEF Tick
  <2>2. clock' \in 0 .. MaxClock /\ reader' \in Readers
    BY <2>1, ClockAssumption DEF Consented, MapTypeOK, Readers
  <2> QED  BY <2>1, <2>2, OthersKeep
<1>3. CASE Stat \/ Parse
  <2>1. /\ UNCHANGED <<versions, lock, run, live, strays, crossed, clock>>
        /\ reader' \in Readers
    BY <1>3, Stats, Parses
  <2>2. clock' \in 0 .. MaxClock
    BY <2>1 DEF Consented, MapTypeOK
  <2> QED  BY <2>1, <2>2, OthersKeep
<1>4. CASE \E r \in Runs :
             \/ \E s \in Subjects, f \in Surfaces : StartGrant(r, s, f) \/ StartRevoke(r, s, f)
             \/ \E reached \in BOOLEAN : Upstream(r, reached)
             \/ Issued(r) \/ NotGranted(r)
             \/ Lock(r) \/ Change(r) \/ Replace(r) \/ Unlock(r) \/ Crash(r)
  BY <1>4, StartGrantKeeps, StartRevokeKeeps, UpstreamKeeps, IssuedKeeps, NotGrantedKeeps,
     LockKeeps, ChangeKeeps, ReplaceKeeps, UnlockKeeps
<1> QED  BY <1>1, <1>2, <1>3, <1>4 DEF MapNext

LEMMA ConsentedAlways == MapSpec => []Consented
<1>1. MapInit => Consented
  BY InitConsented
<1>2. Consented /\ [MapNext]_mapVars => Consented'
  BY MapStep
<1> QED  BY <1>1, <1>2, PTL DEF MapSpec

\* Type correctness of the consent runs, the map and the gateway that reads it.
THEOREM MapTypeCorrect == MapSpec => []MapTypeOK
<1>1. Consented => MapTypeOK
  BY DEF Consented
<1> QED  BY <1>1, ConsentedAlways, PTL

\* A token that its provider would still refresh is in the map, or with the run
\* that writes it, or one that a run knew it left: whatever the processes of consent
\* do to one another's entries (grant, revoke, upsert_subject, remove_names).
THEOREM NoneStray == MapSpec => []NoStrayGrants
<1>1. Consented => NoStrayGrants
  BY DEF Consented
<1> QED  BY <1>1, ConsentedAlways, PTL

-----------------------------------------------------------------------------
(* What the gateway serves from the map.                                   *)

\* The data that are cached are of a file no older than the one whose stamp they
\* are cached under.
NoOlder ==
  reader.cached # <<>> =>
    \E k \in 1 .. Len(versions) :
      /\ reader.data = versions[k].table /\ versions[k].form # "malformed"
      /\ \E j \in 1 .. k : reader.cached = StampOf(versions[j])

\* The file only ever gets a new version.
LEMMA VersionsGrow ==
  ASSUME Consented, [MapNext]_mapVars
  PROVE  /\ Len(versions) \in Nat /\ Len(versions') \in Nat /\ Len(versions) <= Len(versions')
         /\ \A i \in 1 .. Len(versions) : versions'[i] = versions[i]
         /\ versions' # versions => reader' = reader
<1>1. versions \in Seq(Versions) /\ Len(versions) \in Nat
  BY MapTypes DEF Consented
<1>2. CASE versions' = versions
  BY <1>1, <1>2
<1>3. CASE versions' # versions
  <2>1. \E r \in Runs : Replace(r)
    BY <1>3 DEF MapNext, mapVars, StartGrant, Issued, NotGranted,
       StartRevoke, Upstream, Lock, Change, Unlock, Crash, Tick,
       Stat, Parse
  <2>2. PICK r \in Runs : /\ reader' = reader
          /\ versions' = Append(versions, [form |-> "plain", table |-> run[r].doc, mtime |-> clock])
    BY <2>1 DEF Replace
  <2> DEFINE new == [form |-> "plain", table |-> run[r].doc, mtime |-> clock]
  <2> HIDE DEF new
  <2>3. versions' = Append(versions, new)
    BY <2>2 DEF new
  <2>4. \A i \in 1 .. Len(versions) : versions'[i] = versions[i]
    BY <1>1, <2>3, AppendProperties
  <2>5. Len(versions') = Len(versions) + 1
    BY <1>1, <2>3
  <2> QED  BY <1>1, <2>2, <2>4, <2>5
<1> QED  BY <1>2, <1>3

LEMMA NoOlderStep ==
  ASSUME Consented, [MapNext]_mapVars, NoOlder
  PROVE  NoOlder'
<1>1. /\ Len(versions) \in Nat /\ Len(versions') \in Nat /\ Len(versions) <= Len(versions')
      /\ \A i \in 1 .. Len(versions) : versions'[i] = versions[i] /\ i \in 1 .. Len(versions')
      /\ versions' # versions => reader' = reader
  BY VersionsGrow
<1>2. CASE reader'.cached = reader.cached /\ reader'.data = reader.data
  <2> SUFFICES ASSUME reader.cached # <<>> PROVE NoOlder'
    BY <1>2 DEF NoOlder
  <2>1. PICK k \in 1 .. Len(versions) :
          /\ reader.data = versions[k].table /\ versions[k].form # "malformed"
          /\ \E j \in 1 .. k : reader.cached = StampOf(versions[j])
    BY DEF NoOlder
  <2>2. PICK j \in 1 .. k : reader.cached = StampOf(versions[j])
    BY <2>1
  <2>3. versions'[j] = versions[j] /\ versions'[k] = versions[k] /\ k \in 1 .. Len(versions')
    BY <1>1
  <2>4. reader'.cached = StampOf(versions'[j])
    BY <1>2, <2>2, <2>3
  <2> QED  BY <1>2, <2>1, <2>3, <2>4 DEF NoOlder
<1>3. CASE Parse
  <2>1. CASE reader'.cached = reader.cached /\ reader'.data = reader.data
    BY <1>2, <2>1
  <2>2. CASE ~(reader'.cached = reader.cached /\ reader'.data = reader.data)
    <3>1. /\ File.form # "malformed" /\ reader'.data = File.table
          /\ reader'.cached = StampOf(versions[reader.from]) /\ versions' = versions
      BY <1>3, <2>2, Parses
    <3>2. /\ File = versions[Len(versions)] /\ Len(versions) \in 1 .. Len(versions)
          /\ reader.from \in 1 .. Len(versions)
      BY MapTypes DEF Consented, MapTypeOK
    <3>3. reader'.cached = StampOf(versions'[reader.from])
      BY <3>1
    <3> QED  BY <3>1, <3>2, <3>3 DEF NoOlder
  <2> QED  BY <2>1, <2>2
<1>4. CASE Stat
  BY <1>2, <1>4, Stats
<1>5. CASE ~(Parse \/ Stat)
  <2>1. reader' = reader
    BY <1>5 DEF MapNext, mapVars, StartGrant, Issued, NotGranted,
       StartRevoke, Upstream, Lock, Change, Replace, Unlock,
       Crash, Tick
  <2> QED  BY <1>2, <2>1
<1> QED  BY <1>3, <1>4, <1>5

LEMMA ServedStep ==
  ASSUME Consented, [MapNext]_mapVars, NoOlder, ServedIsFresh
  PROVE  ServedIsFresh'
<1>1. /\ Len(versions) \in Nat /\ Len(versions') \in Nat /\ Len(versions) <= Len(versions')
      /\ \A i \in 1 .. Len(versions) : versions'[i] = versions[i] /\ i \in 1 .. Len(versions')
      /\ versions' # versions => reader' = reader
  BY VersionsGrow
<1>2. /\ File = versions[Len(versions)] /\ Len(versions) \in 1 .. Len(versions)
      /\ reader.from \in 1 .. Len(versions)
  BY MapTypes DEF Consented, MapTypeOK
<1> SUFFICES ASSUME reader'.at = "answered", reader'.answer = "served"
             PROVE  \E i \in 1 .. Len(versions') :
                      /\ versions'[i].table = reader'.data /\ versions'[i].form # "malformed"
                      /\ \/ i >= reader'.from
                         \/ \E j \in 1 .. reader'.from - 1 :
                              StampOf(versions'[j]) = StampOf(versions'[reader'.from])
  BY DEF ServedIsFresh
<1>3. CASE Stat
  <2>1. /\ versions' = versions /\ reader'.from = Len(versions) /\ reader'.data = reader.data
        /\ reader.cached = StampOf(File)
    BY <1>3, Stats
  <2>2. reader.cached # <<>>
    BY <2>1 DEF StampOf
  <2>3. PICK k \in 1 .. Len(versions) :
          /\ reader.data = versions[k].table /\ versions[k].form # "malformed"
          /\ \E j \in 1 .. k : reader.cached = StampOf(versions[j])
    BY <2>2 DEF NoOlder
  <2>4. PICK j \in 1 .. k : reader.cached = StampOf(versions[j])
    BY <2>3
  <2>5. StampOf(versions'[j]) = StampOf(versions'[Len(versions)])
    BY <1>2, <2>1, <2>4
  <2>6. k >= Len(versions) \/ j \in 1 .. Len(versions) - 1
    BY <1>1
  <2>7. versions'[k].table = reader'.data /\ versions'[k].form # "malformed" /\ k \in 1 .. Len(versions')
    BY <2>1, <2>3
  <2>8. \/ k >= reader'.from
        \/ \E i \in 1 .. reader'.from - 1 :
             StampOf(versions'[i]) = StampOf(versions'[reader'.from])
    BY <2>1, <2>5, <2>6
  <2> QED  BY <2>7, <2>8
<1>4. CASE Parse
  <2>1. /\ versions' = versions /\ reader'.from = reader.from
        /\ File.form # "malformed" /\ reader'.data = File.table
    BY <1>4, Parses
  <2>2. Len(versions) >= reader'.from
    BY <1>1, <1>2, <2>1
  <2> QED  BY <1>2, <2>1, <2>2
<1>5. CASE ~(Parse \/ Stat)
  <2>1. reader' = reader
    BY <1>5 DEF MapNext, mapVars, StartGrant, Issued, NotGranted,
       StartRevoke, Upstream, Lock, Change, Replace, Unlock,
       Crash, Tick
  <2>2. PICK i \in 1 .. Len(versions) :
          /\ versions[i].table = reader.data /\ versions[i].form # "malformed"
          /\ \/ i >= reader.from
             \/ \E j \in 1 .. reader.from - 1 :
                  StampOf(versions[j]) = StampOf(versions[reader.from])
    BY <2>1 DEF ServedIsFresh
  <2>3. versions'[i] = versions[i] /\ i \in 1 .. Len(versions')
        /\ versions'[reader.from] = versions[reader.from]
    BY <1>1, <1>2
  <2>4. \A j \in 1 .. reader.from - 1 : versions'[j] = versions[j]
    BY <1>1, <1>2
  <2>5. \/ i >= reader.from
        \/ \E j \in 1 .. reader.from - 1 :
             StampOf(versions'[j]) = StampOf(versions'[reader.from])
    BY <2>2, <2>3, <2>4
  <2> QED  BY <2>1, <2>2, <2>3, <2>5
<1> QED  BY <1>3, <1>4, <1>5

\* A call is served what the file held since the call looked at it, also when the file
\* is replaced between the stat and the read, but for a file that has the mtime and the
\* size of an earlier one (SecretMap._load).
THEOREM ServedFresh == MapSpec => []ServedIsFresh
<1>1. MapInit => NoOlder /\ ServedIsFresh
  BY DEF MapInit, NoOlder, ServedIsFresh
<1>2. Consented /\ NoOlder /\ ServedIsFresh /\ [MapNext]_mapVars
        => (NoOlder /\ ServedIsFresh)'
  BY NoOlderStep, ServedStep
<1> QED  BY <1>1, <1>2, ConsentedAlways, PTL DEF MapSpec

=============================================================================
