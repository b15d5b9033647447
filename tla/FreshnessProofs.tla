--------------------------- MODULE FreshnessProofs ---------------------------
(***************************************************************************)
(* Proofs about two caches that the gateway asks on every call, and that   *)
(* must not go on telling what is over: the kill switch with the stamp of  *)
(* its file (KillSwitch), for any items and admin requests, and any number *)
(* of writes, crashes and cancellations; and the catalogue with its TTL    *)
(* (Catalogue), for any tools and calls.                                   *)
(***************************************************************************)
EXTENDS KillSwitch, Catalogue, TLAPS

USE DEF vars, bounds, history

-----------------------------------------------------------------------------
(* Types                                                                   *)

LEMMA StampsAreNumbers == Stamps \subseteq Nat /\ NoStamp \in Stamps /\ NoBad \in Nat /\ NoBad \notin Stamps
BY BoundsAssumption DEF Stamps, NoStamp, NoBad

LEMMA InitTypes == Init => TypeOK
BY BoundsAssumption, StampsAreNumbers
   DEF Init, TypeOK, FreshCache, NoReader, Readers, Requests, Changes, Promises, Contents, Stamps, NoStamp

LEMMA WriteTypes ==
  ASSUME TypeOK, NEW c \in Contents, Replaces(c)
  PROVE  file' \in [stamp : Stamps, content : Contents] /\ written' \in Stamps /\ held' \in SUBSET Contents
BY BoundsAssumption DEF TypeOK, Replaces, Stamps, NoStamp, Contents

LEMMA StatTypes ==
  ASSUME TypeOK, NEW who \in Admins \cup {"call"}, Stats(who)
  PROVE  reader' \in Readers /\ held' \in SUBSET Contents
BY DEF TypeOK, Stats, Readers, Promises, Contents

LEMMA AfterStatTypes ==
  ASSUME TypeOK
  PROVE  AfterStat \in [stamp : Stamps, good : {NoState} \cup States,
                        bad : Stamps \cup {NoBad}, stale : BOOLEAN]
BY DEF TypeOK, AfterStat, Good, Bad, Parses, Contents, States, Readers

LEMMA ReturnTypes ==
  ASSUME TypeOK, Returns
  PROVE  /\ cache' \in [stamp : Stamps, good : {NoState} \cup States,
                        bad : Stamps \cup {NoBad}, stale : BOOLEAN]
         /\ answer' \in [who : Admins \cup {"call", Nobody}, state : {NoState} \cup States,
                         since : [Items -> Promises]]
         /\ reader' \in Readers
         /\ held' \in SUBSET Contents
BY AfterStatTypes, StampsAreNumbers DEF TypeOK, Returns, Readers, NoReader, Promises

LEMMA ReaderStepTypes ==
  ASSUME TypeOK,
         \/ BootStat \/ BootRead \/ CallStat \/ CallRead
         \/ \E a \in Admins : UpdateStat(a) \/ UpdateRead(a)
  PROVE  TypeOK'
<1>1. CASE BootStat \/ CallStat
  BY <1>1, StatTypes DEF BootStat, CallStat, TypeOK
<1>2. CASE BootRead \/ CallRead
  BY <1>2, ReturnTypes DEF BootRead, CallRead, TypeOK
<1>3. ASSUME NEW a \in Admins, UpdateStat(a) PROVE TypeOK'
  BY <1>3, StatTypes DEF UpdateStat, TypeOK
<1>4. ASSUME NEW a \in Admins, UpdateRead(a) PROVE TypeOK'
  <2>1. req' \in [Admins -> Requests]
    BY <1>4 DEF UpdateRead, TypeOK, Requests
  <2>2. acked' \in SUBSET Items
    BY <1>4 DEF UpdateRead, TypeOK, Requests, Changes
  <2>3. QED
    BY <1>4, <2>1, <2>2, ReturnTypes DEF UpdateRead, TypeOK
<1>5. QED
  BY <1>1, <1>2, <1>3, <1>4

LEMMA RequestTypes ==
  ASSUME TypeOK, NEW a \in Admins, \E change \in Changes : Request(a, change)
  PROVE  TypeOK'
<1>1. PICK change \in Changes : Request(a, change)
  OBVIOUS
<1>2. req' \in [Admins -> Requests]
  BY <1>1 DEF Request, TypeOK, Requests, Contents
<1>3. promised' \in [Items -> Promises] /\ acked' \in SUBSET Items
  BY <1>1 DEF Request, TypeOK, Promises
<1>4. QED
  BY <1>1, <1>2, <1>3 DEF Request, TypeOK

LEMMA UpdateTypes ==
  ASSUME TypeOK, NEW a \in Admins,
         \/ Acquire(a) \/ ThreadLoads(a) \/ LoadedConflict(a) \/ Change(a)
         \/ ThreadReplaces(a) \/ ThreadFails(a) \/ CancelRequest(a)
  PROVE  TypeOK'
<1> USE DEF TypeOK
<1>1. CASE Acquire(a) \/ LoadedConflict(a) \/ ThreadFails(a)
  <2>1. req' \in [Admins -> Requests] /\ lock' \in Admins \cup {Nobody}
    BY <1>1 DEF Acquire, LoadedConflict, ThreadFails, Requests
  <2>2. \A b \in Admins : /\ req'[b].pc = "loaded" => req'[b].raw # Missing
                          /\ req'[b].pc = "write" => req'[b].raw \in States
    BY <1>1 DEF Acquire, LoadedConflict, ThreadFails, Requests
  <2>3. QED
    BY <1>1, <2>1, <2>2 DEF Acquire, LoadedConflict, ThreadFails
<1>2. CASE ThreadLoads(a)
  <2> DEFINE raw == IF file.content = Missing THEN {} ELSE file.content
  <2>1. raw \in Contents /\ raw # Missing
    BY ContentsAssumption DEF Contents, States
  <2>2. req' = [req EXCEPT ![a] = [pc |-> "loaded", change |-> req[a].change, raw |-> raw]]
    BY <1>2 DEF ThreadLoads
  <2> HIDE DEF raw
  <2>3. req' \in [Admins -> Requests]
    BY <2>1, <2>2 DEF Requests
  <2>4. \A b \in Admins : /\ req'[b].pc = "loaded" => req'[b].raw # Missing
                          /\ req'[b].pc = "write" => req'[b].raw \in States
    BY <2>1, <2>2 DEF Requests
  <2>5. QED
    BY <1>2, <2>3, <2>4 DEF ThreadLoads
<1>3. CASE Change(a)
  <2>0. req' = [req EXCEPT ![a] = [pc |-> "write", change |-> req[a].change,
                                  raw |-> Changed(req[a].raw, req[a].change)]]
    BY <1>3 DEF Change
  <2>1. req[a].raw \in States /\ req[a].change \in Changes
    <3>1. req[a].pc = "loaded" /\ req[a].raw # Malformed
      BY <1>3 DEF Change
    <3>2. QED
      BY <3>1 DEF Requests, Contents
  <2>2. Changed(req[a].raw, req[a].change) \in States
    BY <2>1 DEF Changed, Changes, States
  <2>3. req' \in [Admins -> Requests]
    BY <2>0, <2>1, <2>2 DEF Requests, Contents
  <2>4. \A b \in Admins : /\ req'[b].pc = "loaded" => req'[b].raw # Missing
                          /\ req'[b].pc = "write" => req'[b].raw \in States
    BY <2>0, <2>2 DEF Requests
  <2>5. QED
    BY <1>3, <2>3, <2>4 DEF Change
<1>4. CASE ThreadReplaces(a)
  <2>1. req[a].raw \in Contents
    BY DEF Requests
  <2>2. req' \in [Admins -> Requests]
    BY <1>4 DEF ThreadReplaces, Requests
  <2>3. promised' \in [Items -> Promises]
    BY <1>4 DEF ThreadReplaces, Promises
  <2>4. QED
    BY <1>4, <2>1, <2>2, <2>3, WriteTypes DEF ThreadReplaces
<1>5. CASE CancelRequest(a)
  <2>1. req' \in [Admins -> Requests] /\ lock' \in Admins \cup {Nobody}
    BY <1>5 DEF CancelRequest, Requests
  <2>2. orphans' \in SUBSET States
    BY <1>5 DEF CancelRequest, Requests
  <2>3. QED
    BY <1>5, <2>1, <2>2, BoundsAssumption DEF CancelRequest
<1>6. QED
  BY <1>1, <1>2, <1>3, <1>4, <1>5

LEMMA OutsideTypes ==
  ASSUME TypeOK,
         (\E c \in orphans : OrphanReplaces(c)) \/ (\E c \in Contents : Edit(c)) \/ Restart
  PROVE  TypeOK'
<1> USE DEF TypeOK
<1>1. ASSUME NEW c \in orphans, OrphanReplaces(c) PROVE TypeOK'
  <2>1. c \in Contents
    BY DEF Contents
  <2>2. QED
    BY <1>1, <2>1, WriteTypes DEF OrphanReplaces, Promises
<1>2. ASSUME NEW c \in Contents, Edit(c) PROVE TypeOK'
  BY <1>2, WriteTypes DEF Edit, Promises
<1>3. CASE Restart
  <2>1. req' \in [Admins -> Requests]
    BY <1>3 DEF Restart, Requests
  <2>2. cache' \in [stamp : Stamps, good : {NoState} \cup States,
                    bad : Stamps \cup {NoBad}, stale : BOOLEAN]
    BY <1>3, StampsAreNumbers DEF Restart, FreshCache
  <2>3. reader' \in Readers
    BY <1>3, StampsAreNumbers DEF Restart, NoReader, Readers, Promises
  <2>4. QED
    BY <1>3, <2>1, <2>2, <2>3, BoundsAssumption DEF Restart
<1>4. QED
  BY <1>1, <1>2, <1>3

\* Type correctness of the kill switch (killswitch.py, admin.py).
THEOREM TypeCorrect == Spec => []TypeOK
<1>1. TypeOK /\ [Next]_vars => TypeOK'
  <2>1. ASSUME TypeOK, Next PROVE TypeOK'
    BY <2>1, ReaderStepTypes, RequestTypes, UpdateTypes, OutsideTypes DEF Next, UpdateStep
  <2>2. ASSUME TypeOK, UNCHANGED vars PROVE TypeOK'
    BY <2>2 DEF TypeOK
  <2>3. QED
    BY <2>1, <2>2
<1>2. QED
  BY <1>1, InitTypes, PTL DEF Spec

-----------------------------------------------------------------------------
(* The cache against the file                                              *)

\* A stamp is used once, so one that was seen before is that of the same file.
Stamped ==
  /\ file.stamp = NoStamp <=> file.content = Missing
  /\ file.stamp <= written /\ cache.stamp <= written /\ reader.stamp <= written
  /\ cache.bad <= written \/ cache.bad = NoBad
  /\ cache.bad # NoStamp

\* What state() keeps for the stamp of the file is what the file says.
Cached ==
  /\ cache.good # NoState /\ cache.stamp = file.stamp /\ file.stamp # NoStamp
       => cache.good = file.content
  /\ cache.bad = file.stamp => file.content = Malformed
  /\ process = "up" => cache.good # NoState

\* A promise is what the file says.
Kept ==
  \A i \in Items : promised[i] # "none" =>
    Parses(file.content) /\ (i \in file.content <=> promised[i] = "on")

\* Between the stat and the rest of state(): a promise that held at the stat is not
\* answered from an older cache.
Reading ==
  reader.who # Nobody =>
    /\ file.content \in held
    /\ reader.stamp = NoStamp => Missing \in held
    /\ \A i \in Items : reader.since[i] # "none" =>
         /\ reader.stamp # NoStamp
         /\ reader.stamp # cache.bad
         /\ cache.good # NoState /\ reader.stamp = cache.stamp =>
              (i \in cache.good <=> reader.since[i] = "on")

Sound == Stamped /\ Cached /\ Reading

LEMMA WriteKeepsSound ==
  ASSUME TypeOK, Sound, NEW c \in Contents, Replaces(c), UNCHANGED <<process, cache, reader>>
  PROVE  Sound'
<1> USE DEF Sound
<1>1. file' = [stamp |-> IF c = Missing THEN NoStamp ELSE written + 1, content |-> c]
  BY DEF Replaces
<1>2. written' = written + 1 /\ written \in Nat /\ written < MaxStamp
  BY StampsAreNumbers DEF Replaces, TypeOK
<1>3. /\ file.stamp \in Nat /\ cache.stamp \in Nat /\ cache.bad \in Nat /\ reader.stamp \in Nat
  BY StampsAreNumbers DEF TypeOK, Readers
<1>4. Stamped'
  BY <1>1, <1>2, <1>3, BoundsAssumption DEF Stamped, NoStamp, NoBad
<1>5. Cached'
  BY <1>1, <1>2, <1>3, BoundsAssumption DEF Stamped, Cached, NoStamp, NoBad
<1>6. Reading'
  BY <1>1 DEF Reading, Replaces
<1>7. QED
  BY <1>4, <1>5, <1>6

LEMMA StatKeepsSound ==
  ASSUME TypeOK, Sound, Kept, NEW who \in Admins \cup {"call"}, Stats(who),
         UNCHANGED <<process, file, written, cache>>
  PROVE  Sound'
<1> USE DEF Sound
<1>1. Stamped' /\ Cached'
  BY DEF Stamped, Cached, Stats
<1>2. reader'.who = who /\ reader'.stamp = file.stamp /\ held' = {file.content}
  BY DEF Stats
<1>3. ASSUME NEW i \in Items, reader'.since[i] # "none"
      PROVE  reader'.since[i] = promised[i] /\ promised[i] # "none"
  BY <1>3 DEF Stats
<1>4. Reading'
  BY <1>2, <1>3, ContentsAssumption DEF Reading, Kept, Stamped, Cached, Parses
<1>5. QED
  BY <1>1, <1>4

\* The rest of state(), case by case.
LEMMA AfterStatCases ==
  ASSUME TypeOK, Sound
  PROVE  \/ reader.stamp = NoStamp /\ AfterStat = Good({})
         \/ /\ reader.stamp # NoStamp /\ reader.stamp = cache.stamp /\ cache.good # NoState
            /\ AfterStat = Good(cache.good)
         \/ /\ reader.stamp # NoStamp /\ reader.stamp = cache.bad /\ cache.good # NoState
            /\ AfterStat = Bad
         \/ reader.stamp # NoStamp /\ Parses(file.content) /\ AfterStat = Good(file.content)
         \/ reader.stamp # NoStamp /\ ~Parses(file.content) /\ AfterStat = Bad
BY DEF AfterStat

LEMMA BadFields ==
  ASSUME TypeOK
  PROVE  Bad.stamp = cache.stamp /\ Bad.good = cache.good /\ Bad.bad = reader.stamp /\ Bad.stale
BY DEF TypeOK, Bad

LEMMA ReturnKeepsSound ==
  ASSUME TypeOK, Sound, Returns, reader.who # Nobody, UNCHANGED <<file, written>>,
         process' = "up" => AfterStat.good # NoState
  PROVE  Sound'
<1> USE DEF Sound
<1>1. /\ file.stamp \in Nat /\ cache.stamp \in Nat /\ cache.bad \in Nat
      /\ reader.stamp \in Nat /\ written \in Nat /\ written <= MaxStamp
  BY StampsAreNumbers, BoundsAssumption DEF TypeOK, Readers, Stamps, NoStamp
<1>2. reader' = NoReader /\ held' = {}
  BY DEF Returns
<1>3. Reading'
  BY <1>2 DEF Reading, NoReader
<1>4. CASE AfterStat.good = NoState
  BY <1>1, <1>2, <1>4 DEF Returns, Stamped, Cached, NoReader, NoStamp, Reading
<1>5. CASE AfterStat.good # NoState
  <2>1. cache' = AfterStat
    BY <1>5 DEF Returns
  <2>2. Stamped'
    <3>1. \/ cache'.stamp = reader.stamp /\ cache'.bad = NoBad
          \/ cache'.stamp = cache.stamp /\ cache'.bad = reader.stamp /\ reader.stamp # NoStamp
      BY <2>1, AfterStatCases, BadFields DEF Good
    <3>2. reader'.stamp = NoStamp
      BY <1>2 DEF NoReader
    <3>3. QED
      BY <1>1, <3>1, <3>2, BoundsAssumption DEF Stamped, NoStamp, NoBad
  <2>3. Cached'
    <3>1. file.stamp # NoBad
      BY <1>1, BoundsAssumption DEF Stamped, NoBad
    <3>2. CASE AfterStat = Good({}) /\ reader.stamp = NoStamp
      BY <1>5, <2>1, <3>1, <3>2 DEF Cached, Good
    <3>3. CASE AfterStat = Good(cache.good) /\ reader.stamp = cache.stamp /\ cache.good # NoState
      BY <1>5, <2>1, <3>1, <3>3 DEF Cached, Good
    <3>4. CASE AfterStat = Bad /\ reader.stamp = cache.bad
      BY <1>5, <2>1, <3>4 DEF Cached, Bad
    <3>5. CASE AfterStat = Good(file.content)
      BY <1>5, <2>1, <3>1, <3>5 DEF Cached, Good
    <3>6. CASE AfterStat = Bad /\ ~Parses(file.content) /\ reader.stamp # NoStamp
      BY <1>5, <2>1, <3>6, ContentsAssumption DEF Cached, Bad, Parses, Stamped, TypeOK
    <3>7. QED
      BY <3>2, <3>3, <3>4, <3>5, <3>6, AfterStatCases
  <2>4. QED
    BY <1>3, <2>2, <2>3
<1>6. QED
  BY <1>4, <1>5

-----------------------------------------------------------------------------
(* One request at a time                                                   *)

Updating == {"load", "loaded", "write", "written"}

\* The request that state() answers is still there: nothing else of the loop runs meanwhile.
Resuming == \A a \in Admins : reader.who = a => req[a].pc = "written"

LEMMA ResumingStep == ASSUME TypeOK, Resuming, Next PROVE Resuming'
<1>1. CASE BootStat \/ BootRead \/ CallStat \/ CallRead
  BY <1>1, AdminsAssumption
     DEF BootStat, BootRead, CallStat, CallRead, Stats, Returns, NoReader, Resuming
<1>2. ASSUME NEW a \in Admins, UpdateStat(a) \/ UpdateRead(a) PROVE Resuming'
  BY <1>2, AdminsAssumption DEF UpdateStat, UpdateRead, Stats, Returns, NoReader, Resuming
<1>3. ASSUME NEW a \in Admins,
             \/ \E change \in Changes : Request(a, change)
             \/ Acquire(a) \/ LoadedConflict(a) \/ Change(a) \/ ThreadFails(a) \/ CancelRequest(a)
      PROVE  Resuming'
  <2>1. reader' = reader /\ reader.who = Nobody
    BY <1>3 DEF Request, Acquire, LoadedConflict, Change, ThreadFails, CancelRequest, LoopFree
  <2>2. QED
    BY <2>1, AdminsAssumption DEF Resuming
<1>4. ASSUME NEW a \in Admins, ThreadLoads(a) \/ ThreadReplaces(a) PROVE Resuming'
  <2>1. reader' = reader /\ req[a].pc \in {"load", "write"}
    BY <1>4 DEF ThreadLoads, ThreadReplaces
  <2>2. \A b \in Admins \ {a} : req'[b] = req[b]
    BY <1>4 DEF ThreadLoads, ThreadReplaces, TypeOK
  <2>3. QED
    BY <2>1, <2>2 DEF Resuming
<1>5. CASE (\E c \in orphans : OrphanReplaces(c)) \/ (\E c \in Contents : Edit(c))
  BY <1>5 DEF OrphanReplaces, Edit, Resuming
<1>6. CASE Restart
  BY <1>6, AdminsAssumption DEF Restart, NoReader, Resuming
<1>7. QED
  BY <1>1, <1>2, <1>3, <1>4, <1>5, <1>6 DEF Next, UpdateStep

\* Between its read and its write a request holds the lock, and what it has read has
\* what is promised; what it is to write has its own change as well.
Mine ==
  \A a \in Admins :
    /\ req[a].pc \in Updating => lock = a
    /\ req[a].pc = "loaded" => \A i \in Items : promised[i] # "none" =>
         req[a].raw # Malformed /\ (i \in req[a].raw <=> promised[i] = "on")
    /\ req[a].pc = "write" =>
         /\ req[a].change.item \in req[a].raw <=> req[a].change.on
         /\ \A i \in Items \ {req[a].change.item} : promised[i] # "none" =>
              (i \in req[a].raw <=> promised[i] = "on")

\* A step that promises nothing new, leaves the file and gives no request a new content.
LEMMA QuietStep ==
  ASSUME TypeOK, Mine, Kept, file' = file,
         \A i \in Items : promised'[i] \in {promised[i], "none"},
         \A a \in Admins : req'[a].pc \in Updating =>
            /\ lock' = a
            /\ req'[a].pc \in {"loaded", "write"} => req'[a] = req[a]
  PROVE  Mine' /\ Kept'
<1>1. Kept'
  BY DEF Kept
<1>2. SUFFICES ASSUME NEW a \in Admins, req'[a].pc \in {"loaded", "write"}
               PROVE  /\ req'[a].pc = "loaded" => \A i \in Items : promised'[i] # "none" =>
                           req'[a].raw # Malformed /\ (i \in req'[a].raw <=> promised'[i] = "on")
                      /\ req'[a].pc = "write" =>
                           /\ req'[a].change.item \in req'[a].raw <=> req'[a].change.on
                           /\ \A i \in Items \ {req'[a].change.item} : promised'[i] # "none" =>
                                (i \in req'[a].raw <=> promised'[i] = "on")
  BY <1>1 DEF Mine, Updating
<1>3. req'[a] = req[a]
  BY <1>2 DEF Updating
<1>4. QED
  BY <1>2, <1>3 DEF Mine

\* A step of somebody who writes without the lock takes every promise back.
LEMMA ForeignWrite ==
  ASSUME Mine, UNCHANGED <<req, lock>>, promised' = [i \in Items |-> "none"],
         \A a \in Admins : req[a].pc = "write" =>
           (req[a].change.item \in req[a].raw <=> req[a].change.on)
  PROVE  Mine' /\ Kept'
BY DEF Mine, Kept

LEMMA RequestKeeps ==
  ASSUME TypeOK, Mine, Kept, NEW a \in Admins, NEW change \in Changes, Request(a, change)
  PROVE  Mine' /\ Kept'
<1>1. \A b \in Admins : b # a => req'[b] = req[b]
  BY DEF Request, TypeOK
<1>2. req'[a].pc = "wait"
  BY DEF Request, TypeOK
<1>3. \A i \in Items : promised'[i] \in {promised[i], "none"}
  BY DEF Request, TypeOK
<1>4. \A b \in Admins : req'[b].pc \in Updating =>
         lock' = b /\ (req'[b].pc \in {"loaded", "write"} => req'[b] = req[b])
  BY <1>1, <1>2 DEF Request, Mine, Updating
<1>5. QED
  BY <1>3, <1>4, QuietStep DEF Request

LEMMA UpdateKeeps ==
  ASSUME TypeOK, Resuming, Mine, Kept, NEW a \in Admins,
         \/ Acquire(a) \/ ThreadLoads(a) \/ LoadedConflict(a) \/ Change(a)
         \/ ThreadReplaces(a) \/ ThreadFails(a) \/ UpdateStat(a) \/ UpdateRead(a)
         \/ CancelRequest(a)
  PROVE  Mine' /\ Kept'
<1>1. \A b \in Admins : b # a => req'[b] = req[b]
  BY DEF Acquire, ThreadLoads, LoadedConflict, Change, ThreadReplaces, ThreadFails,
         UpdateStat, UpdateRead, CancelRequest, TypeOK
<1>2. CASE Acquire(a)
  <2>1. req'[a].pc = "load" /\ lock' = a /\ lock = Nobody
    BY <1>2 DEF Acquire, TypeOK, Requests
  <2>2. \A b \in Admins : req'[b].pc \in Updating =>
           lock' = b /\ (req'[b].pc \in {"loaded", "write"} => req'[b] = req[b])
    BY <1>1, <2>1, AdminsAssumption DEF Mine, Updating
  <2>3. QED
    BY <1>2, <2>2, QuietStep DEF Acquire
<1>3. CASE ThreadLoads(a)
  <2> DEFINE raw == IF file.content = Missing THEN {} ELSE file.content
  <2>1. /\ req[a].pc = "load" /\ UNCHANGED <<file, lock, promised>>
        /\ req'[a].pc = "loaded" /\ req'[a].raw = raw
    BY <1>3 DEF ThreadLoads, TypeOK
  <2>2. lock = a /\ \A b \in Admins \ {a} : req[b].pc \notin Updating
    BY <2>1 DEF Mine, Updating
  <2>3. ASSUME NEW i \in Items, promised[i] # "none"
        PROVE  raw # Malformed /\ (i \in raw <=> promised[i] = "on")
    BY <2>3 DEF Kept, Parses
  <2>4. Kept'
    BY <2>1 DEF Kept
  <2> HIDE DEF raw
  <2>5. Mine'
    BY <1>1, <2>1, <2>2, <2>3 DEF Mine, Updating
  <2>6. QED
    BY <2>4, <2>5
<1>4. CASE Change(a)
  <2>1. /\ req[a].pc = "loaded" /\ req[a].raw # Malformed /\ UNCHANGED <<file, lock, promised>>
        /\ req'[a].pc = "write" /\ req'[a].change = req[a].change
        /\ req'[a].raw = Changed(req[a].raw, req[a].change)
    BY <1>4 DEF Change, TypeOK
  <2>2. lock = a /\ \A b \in Admins \ {a} : req[b].pc \notin Updating
    BY <2>1 DEF Mine, Updating
  <2>3. req[a].change.item \in Changed(req[a].raw, req[a].change) <=> req[a].change.on
    BY DEF Changed, TypeOK, Requests, Changes
  <2>4. \A i \in Items \ {req[a].change.item} :
          i \in Changed(req[a].raw, req[a].change) <=> i \in req[a].raw
    BY DEF Changed
  <2>5. Mine'
    BY <1>1, <2>1, <2>2, <2>3, <2>4 DEF Mine, Updating
  <2>6. QED
    BY <2>1, <2>5 DEF Kept
<1>5. CASE ThreadReplaces(a)
  <2>1. /\ req[a].pc = "write" /\ UNCHANGED lock /\ req'[a].pc = "written"
        /\ promised' = [promised EXCEPT ![req[a].change.item] =
                          IF req[a].change.on THEN "on" ELSE "off"]
    BY <1>5 DEF ThreadReplaces, TypeOK
  <2>2. lock = a /\ \A b \in Admins \ {a} : req[b].pc \notin Updating
    BY <2>1 DEF Mine, Updating
  <2>3. Mine'
    BY <1>1, <2>1, <2>2 DEF Mine, Updating
  <2>4. req[a].raw \in States
    BY <2>1 DEF TypeOK
  <2>5. file'.content = req[a].raw /\ Parses(req[a].raw)
    BY <1>5, <2>4, ContentsAssumption DEF ThreadReplaces, Replaces, Parses, States
  <2>6. ASSUME NEW i \in Items, promised'[i] # "none"
        PROVE  i \in req[a].raw <=> promised'[i] = "on"
    BY <2>1, <2>6 DEF Mine, TypeOK
  <2>7. Kept'
    BY <2>5, <2>6 DEF Kept, Parses
  <2>8. QED
    BY <2>3, <2>7
<1>6. CASE LoadedConflict(a) \/ ThreadFails(a) \/ UpdateRead(a)
  <2>1. /\ req'[a].pc \notin Updating /\ req[a].pc \in Updating
        /\ UNCHANGED <<file, promised>>
    <3>1. CASE LoadedConflict(a) \/ ThreadFails(a)
      <4>1. req[a].pc \in {"loaded", "write"} /\ UNCHANGED <<file, promised>>
        BY <3>1 DEF LoadedConflict, ThreadFails
      <4>2. req'[a].pc = "conflict"
        BY <3>1 DEF LoadedConflict, ThreadFails, TypeOK, Requests
      <4>3. QED
        BY <4>1, <4>2 DEF Updating
    <3>2. CASE UpdateRead(a)
      <4>1. req[a].pc = "written" /\ UNCHANGED <<file, promised>>
        BY <3>2 DEF UpdateRead, Resuming
      <4>2. req'[a].pc = "ok"
        BY <3>2 DEF UpdateRead, TypeOK
      <4>3. QED
        BY <4>1, <4>2 DEF Updating
    <3>3. QED
      BY <1>6, <3>1, <3>2
  <2>2. \A b \in Admins \ {a} : req[b].pc \notin Updating
    BY <2>1 DEF Mine
  <2>3. QED
    BY <1>1, <2>1, <2>2, QuietStep
<1>7. CASE UpdateStat(a)
  BY <1>7 DEF UpdateStat, Mine, Kept
<1>8. CASE CancelRequest(a)
  <2>1. req'[a].pc \notin Updating /\ UNCHANGED <<file, promised>>
    BY <1>8 DEF CancelRequest, TypeOK, Updating
  <2>2. \A b \in Admins \ {a} : req[b].pc \in Updating => lock' = b
    BY <1>8 DEF CancelRequest, Mine
  <2>3. QED
    BY <1>1, <2>1, <2>2, QuietStep
<1>9. QED
  BY <1>2, <1>3, <1>4, <1>5, <1>6, <1>7, <1>8

LEMMA OutsideKeeps ==
  ASSUME TypeOK, Mine, Kept,
         (\E c \in orphans : OrphanReplaces(c)) \/ (\E c \in Contents : Edit(c)) \/ Restart
  PROVE  Mine' /\ Kept'
<1>1. CASE (\E c \in orphans : OrphanReplaces(c)) \/ (\E c \in Contents : Edit(c))
  BY <1>1, ForeignWrite DEF OrphanReplaces, Edit, Mine
<1>2. CASE Restart
  <2>1. \A a \in Admins : req'[a].pc \notin Updating
    BY <1>2 DEF Restart, TypeOK, Requests, Updating
  <2>2. QED
    BY <1>2, <2>1, QuietStep DEF Restart
<1>3. QED
  BY <1>1, <1>2

-----------------------------------------------------------------------------
(* The theorems                                                            *)

\* What the boot, a call and an update leave behind when state() returns.
LEMMA ReturnAnswers ==
  ASSUME TypeOK, Sound, Kept, Returns, reader.who # Nobody, UNCHANGED promised
  PROVE  AcknowledgedTakesEffect'
<1> SUFFICES ASSUME NEW i \in Items, AfterStat.good # NoState, answer'.since[i] # "none"
             PROVE  i \in AfterStat.good <=> answer'.since[i] = "on"
  BY DEF Returns, AcknowledgedTakesEffect
<1>1. /\ reader.since[i] = promised[i] /\ promised[i] # "none" /\ answer'.since[i] = promised[i]
  BY DEF Returns
<1>2. reader.stamp # NoStamp /\ reader.stamp # cache.bad
  BY <1>1 DEF Sound, Reading
<1>3. Parses(file.content)
  BY <1>1 DEF Kept
<1>4. CASE AfterStat = Good(cache.good) /\ reader.stamp = cache.stamp /\ cache.good # NoState
  BY <1>1, <1>4 DEF Sound, Reading, Good
<1>5. CASE AfterStat = Good(file.content)
  BY <1>1, <1>5 DEF Kept, Good
<1>6. QED
  BY <1>2, <1>3, <1>4, <1>5, AfterStatCases

Inv == TypeOK /\ Resuming /\ Mine /\ Kept /\ Sound /\ AcknowledgedTakesEffect

LEMMA Reads ==
  ASSUME Inv, \/ BootRead \/ CallRead \/ \E a \in Admins : UpdateRead(a)
  PROVE  /\ Returns /\ reader.who # Nobody /\ UNCHANGED <<file, written, promised>>
         /\ process' = "up" => AfterStat.good # NoState
<1>1. CASE BootRead
  BY <1>1 DEF BootRead
<1>2. CASE CallRead \/ \E a \in Admins : UpdateRead(a)
  <2>1. /\ Returns /\ reader.who # Nobody /\ UNCHANGED <<file, written, promised>>
        /\ process = "up"
    BY <1>2, AdminsAssumption DEF CallRead, UpdateRead, Nobody
  <2>2. cache.good # NoState
    BY <2>1 DEF Inv, Sound, Cached
  <2>3. AfterStat.good # NoState
    BY <2>2, AfterStatCases, BadFields, ContentsAssumption DEF Inv, Good, Parses, Contents, TypeOK, States
  <2>4. QED
    BY <2>1, <2>3
<1>3. QED
  BY <1>1, <1>2

LEMMA Quiet ==
  ASSUME Sound, AcknowledgedTakesEffect,
         UNCHANGED <<process, file, written, cache, reader, held, answer>>
  PROVE  Sound' /\ AcknowledgedTakesEffect'
BY DEF Sound, Stamped, Cached, Reading, AcknowledgedTakesEffect

LEMMA SoundStep ==
  ASSUME Inv, Next
  PROVE  Sound' /\ AcknowledgedTakesEffect'
<1> USE DEF Inv
<1>1. CASE BootStat \/ CallStat \/ \E a \in Admins : UpdateStat(a)
  <2>1. PICK who \in Admins \cup {"call"} : Stats(who)
    BY <1>1 DEF BootStat, CallStat, UpdateStat
  <2>2. UNCHANGED <<process, file, written, cache, answer>>
    BY <1>1 DEF BootStat, CallStat, UpdateStat
  <2>3. QED
    BY <2>1, <2>2, StatKeepsSound DEF AcknowledgedTakesEffect
<1>2. CASE BootRead \/ CallRead \/ \E a \in Admins : UpdateRead(a)
  BY <1>2, Reads, ReturnKeepsSound, ReturnAnswers
<1>3. ASSUME NEW a \in Admins,
             \/ \E change \in Changes : Request(a, change)
             \/ Acquire(a) \/ ThreadLoads(a) \/ LoadedConflict(a) \/ Change(a)
             \/ ThreadFails(a) \/ CancelRequest(a)
      PROVE  Sound' /\ AcknowledgedTakesEffect'
  BY <1>3, Quiet
     DEF Request, Acquire, ThreadLoads, LoadedConflict, Change, ThreadFails, CancelRequest
<1>4. CASE \/ \E a \in Admins : ThreadReplaces(a)
           \/ (\E c \in orphans : OrphanReplaces(c)) \/ (\E c \in Contents : Edit(c))
  <2>1. PICK c \in Contents : Replaces(c)
    BY <1>4 DEF ThreadReplaces, OrphanReplaces, Edit, TypeOK, Requests, Contents
  <2>2. UNCHANGED <<process, cache, reader, answer>>
    BY <1>4 DEF ThreadReplaces, OrphanReplaces, Edit
  <2>3. QED
    BY <2>1, <2>2, WriteKeepsSound DEF AcknowledgedTakesEffect
<1>5. CASE Restart
  <2>1. Stamped'
    BY <1>5, StampsAreNumbers, BoundsAssumption
       DEF Restart, FreshCache, NoReader, Sound, Stamped, TypeOK, NoStamp, NoBad
  <2>2. Cached'
    BY <1>5, BoundsAssumption, StampsAreNumbers DEF Restart, FreshCache, Cached, TypeOK
  <2>3. Reading' /\ AcknowledgedTakesEffect'
    BY <1>5 DEF Restart, NoReader, Reading, AcknowledgedTakesEffect
  <2>4. QED
    BY <2>1, <2>2, <2>3 DEF Sound
<1>6. QED
  BY <1>1, <1>2, <1>3, <1>4, <1>5 DEF Next, UpdateStep

LEMMA InitInv == Init => Inv
<1> SUFFICES ASSUME Init PROVE Inv
  OBVIOUS
<1>1. TypeOK
  BY InitTypes
<1>2. Resuming /\ Mine /\ Kept /\ AcknowledgedTakesEffect
  BY AdminsAssumption
     DEF Init, Resuming, Mine, Updating, Kept, AcknowledgedTakesEffect, NoReader
<1>3. Stamped
  BY BoundsAssumption, ContentsAssumption
     DEF Init, Stamped, FreshCache, NoReader, NoStamp, NoBad, Contents, States
<1>4. Cached
  BY BoundsAssumption DEF Init, Cached, FreshCache, NoStamp, NoBad
<1>5. Reading
  BY DEF Init, Reading, NoReader
<1>6. QED
  BY <1>1, <1>2, <1>3, <1>4, <1>5 DEF Inv, Sound

LEMMA InvStep == Inv /\ [Next]_vars => Inv'
<1>1. ASSUME Inv, Next PROVE Inv'
  <2> USE DEF Inv
  <2>1. Mine' /\ Kept'
    <3>1. CASE BootStat \/ BootRead \/ CallStat \/ CallRead
      BY <1>1, <3>1 DEF BootStat, BootRead, CallStat, CallRead, Mine, Kept
    <3>2. QED
      BY <1>1, <3>1, RequestKeeps, UpdateKeeps, OutsideKeeps DEF Next, UpdateStep
  <2>2. TypeOK'
    BY <1>1, ReaderStepTypes, RequestTypes, UpdateTypes, OutsideTypes DEF Next, UpdateStep
  <2>3. QED
    BY <1>1, <2>1, <2>2, ResumingStep, SoundStep
<1>2. ASSUME Inv, UNCHANGED vars PROVE Inv'
  BY <1>2 DEF Inv, TypeOK, Resuming, Mine, Kept, Sound, Stamped, Cached, Reading,
              AcknowledgedTakesEffect
<1>3. QED
  BY <1>1, <1>2

LEMMA Invariant == Spec => []Inv
BY InitInv, InvStep, PTL DEF Spec

\* update() of killswitch.py, for the routes of admin.py: what is acknowledged is in the
\* file, for any number of requests, cancellations and crashes, until the same item is
\* changed again or somebody writes without the lock.
THEOREM AcknowledgedStays == Spec => []AcknowledgedIsKept
<1>1. Inv => AcknowledgedIsKept
  BY DEF Inv, Kept, AcknowledgedIsKept, TypeOK
<1>2. QED
  BY <1>1, Invariant, PTL

\* state() of killswitch.py: whatever its cache holds, a call that begins after the
\* acknowledgement is answered with the change.
THEOREM AcknowledgedIsSeen == Spec => []AcknowledgedTakesEffect
<1>1. Inv => AcknowledgedTakesEffect
  BY DEF Inv
<1>2. QED
  BY <1>1, Invariant, PTL

\* state() of killswitch.py: neither a crash nor a malformed file puts a state in force
\* that the file did not have.
THEOREM StateIsOfTheFile == Spec => OnlyWhatTheFileSaid
<1>1. ASSUME Inv, [Next]_vars, cache'.good # cache.good, cache'.good # NoState
      PROVE  \/ cache'.good \in held
             \/ cache'.good = {} /\ Missing \in held
  <2>1. \/ Returns /\ reader.who # Nobody
        \/ cache' = FreshCache
        \/ cache' = cache
    BY <1>1, Reads DEF Next, UpdateStep, BootStat, CallStat, Request, Acquire, ThreadLoads,
       LoadedConflict, Change, ThreadReplaces, ThreadFails, UpdateStat, CancelRequest,
       OrphanReplaces, Edit, Restart
  <2>2. CASE Returns /\ reader.who # Nobody
    <3>1. cache' = AfterStat
      BY <1>1, <2>2 DEF Returns
    <3>2. file.content \in held /\ (reader.stamp = NoStamp => Missing \in held)
      BY <1>1, <2>2 DEF Inv, Sound, Reading
    <3>3. AfterStat.good # cache.good
      BY <1>1, <3>1
    <3>4. \/ reader.stamp = NoStamp /\ AfterStat.good = {}
          \/ AfterStat.good = file.content
      BY <1>1, <3>3, AfterStatCases, BadFields DEF Inv, Good
    <3>5. QED
      BY <3>1, <3>2, <3>4
  <2>3. QED
    BY <1>1, <2>1, <2>2 DEF FreshCache
<1>2. QED
  BY <1>1, Invariant, PTL DEF Spec, OnlyWhatTheFileSaid

\* state() and /healthz: whatever the cache holds, the flag is set exactly when the file
\* does not parse, unless somebody writes it during the call.
THEOREM StaleIsTheTruth == Spec => StaleTellsTruth
<1>1. ASSUME Inv, [Next]_vars, reader.who # Nobody, reader'.who = Nobody, process' = "up",
             reader.stamp = file.stamp
      PROVE  cache'.stale <=> file.content = Malformed
  <2>1. Returns /\ AfterStat.good # NoState
    BY <1>1, Reads DEF Next, UpdateStep, BootStat, CallStat, Request, Acquire, ThreadLoads,
       LoadedConflict, Change, ThreadReplaces, ThreadFails, UpdateStat, CancelRequest,
       OrphanReplaces, Edit, Restart, LoopFree
  <2>2. cache' = AfterStat
    BY <2>1 DEF Returns
  <2>3. CASE reader.stamp = NoStamp
    BY <1>1, <2>2, <2>3, ContentsAssumption DEF AfterStat, Good, Inv, Sound, Stamped
  <2>4. CASE AfterStat = Good(cache.good) /\ reader.stamp = cache.stamp /\ cache.good # NoState
             /\ reader.stamp # NoStamp
    BY <1>1, <2>2, <2>4, ContentsAssumption DEF Good, Inv, Sound, Cached, TypeOK, States
  <2>5. CASE AfterStat = Bad /\ reader.stamp = cache.bad
    BY <1>1, <2>2, <2>5, BadFields DEF Inv, Sound, Cached
  <2>6. CASE AfterStat = Good(file.content) /\ Parses(file.content)
    BY <2>2, <2>6 DEF Good, Parses
  <2>7. CASE AfterStat = Bad /\ ~Parses(file.content) /\ reader.stamp # NoStamp
    BY <1>1, <2>2, <2>7, BadFields DEF Inv, Sound, Stamped, Parses, TypeOK
  <2>8. QED
    BY <1>1, <2>3, <2>4, <2>5, <2>6, <2>7, AfterStatCases DEF Inv
<1>2. QED
  BY <1>1, Invariant, PTL DEF Spec, StaleTellsTruth

-----------------------------------------------------------------------------
(* The catalogue                                                           *)

\* Type correctness of the catalogue.
THEOREM CatTypeCorrect == CatSpec => []CatTypeOK
<1>1. CatInit => CatTypeOK
  <2> SUFFICES ASSUME CatInit PROVE CatTypeOK
    OBVIOUS
  <2>1. [pc |-> "idle"] \in CallStates /\ NoDrift \in Drifts /\ 0 \in Times
    BY TimeAssumption DEF CallStates, Drifts, NoDrift, Times
  <2>2. descriptors \in SUBSET Tools /\ pinned \in SUBSET Tools
    BY DEF CatInit
  <2> QED  BY <2>1, <2>2 DEF CatInit, CatTypeOK
<1>2. CatTypeOK /\ [CatNext]_catVars => CatTypeOK'
  <2> SUFFICES ASSUME CatTypeOK, [CatNext]_catVars PROVE CatTypeOK'
    OBVIOUS
  <2>0. [pc |-> "idle"] \in CallStates /\ [pc |-> "relist"] \in CallStates
    BY DEF CallStates
  <2>1. CASE UNCHANGED catVars \/ Tick \/ BackendChanges
    BY <2>1, TimeAssumption DEF CatTypeOK, catVars, catalogue, Tick, BackendChanges, Times
  <2>2. ASSUME NEW c \in Calls, Relist(c) PROVE CatTypeOK'
    BY <2>0, <2>2 DEF CatTypeOK, Relist, catalogue
  <2>3. ASSUME NEW c \in Calls, Answers(c) PROVE CatTypeOK'
    <3>1. [pc |-> "answered", tools |-> backend] \in CallStates
      BY DEF CatTypeOK, CallStates
    <3> QED  BY <2>3, <3>1 DEF CatTypeOK, Answers, catalogue
  <2>4. ASSUME NEW c \in Calls, Installs(c) PROVE CatTypeOK'
    <3>1. call[c].tools \in SUBSET Tools
      BY <2>4 DEF CatTypeOK, CallStates, Installs
    <3>2. Diff(call[c].tools) \in Drifts
      BY <3>1 DEF CatTypeOK, Diff, Drifts
    <3> QED  BY <2>0, <2>4, <3>1, <3>2 DEF CatTypeOK, Installs
  <2>5. ASSUME NEW c \in Calls, Fails(c) PROVE CatTypeOK'
    BY <2>0, <2>5 DEF CatTypeOK, Fails
  <2>6. ASSUME NEW c \in Calls, Cancelled(c) PROVE CatTypeOK'
    BY <2>0, <2>6 DEF CatTypeOK, Cancelled, catalogue
  <2> QED  BY <2>1, <2>2, <2>3, <2>4, <2>5, <2>6 DEF CatNext
<1> QED  BY <1>1, <1>2, PTL DEF CatSpec

\* One call fetches at a time, and only what was past its TTL when it began and is so
\* still; the catalogue was fetched no earlier than it was last asked for, and a drift
\* is of the last fetch.
Paced ==
  /\ now \in Nat /\ fetchedAt \in Nat /\ installedAt \in Nat /\ askedAt \in Nat \cup {Never}
  /\ call \in [Calls -> CallStates] /\ backend \subseteq Tools
  /\ fetchedAt <= now
  /\ \A c \in Calls : call[c].pc # "idle" => refreshing
  /\ \A c, d \in Calls : call[c].pc # "idle" /\ call[d].pc # "idle" => c = d
  /\ refreshing => now - fetchedAt >= TTL
  /\ askedAt # Never => askedAt <= IF refreshing THEN now ELSE fetchedAt
  /\ status = "drift" => installedAt = fetchedAt

\* A call that has done with its fetch, which was the only one.
LEMMA FetchEnds ==
  ASSUME Paced, NEW c \in Calls, call[c].pc # "idle",
         call' = [call EXCEPT ![c] = [pc |-> "idle"]]
  PROVE  /\ call' \in [Calls -> CallStates]
         /\ \A d \in Calls : call'[d].pc = "idle"
<1>1. [pc |-> "idle"] \in CallStates
  BY DEF CallStates
<1> QED  BY <1>1 DEF Paced

LEMMA PacedStep ==
  ASSUME Paced, [CatNext]_catVars
  PROVE  Paced'
<1>1. CASE UNCHANGED catVars \/ Tick \/ BackendChanges
  BY <1>1, TimeAssumption, NeverAssumption DEF Paced, catVars, catalogue, Tick, BackendChanges
<1>2. ASSUME NEW c \in Calls, Relist(c) PROVE Paced'
  <2>1. /\ now - fetchedAt >= TTL /\ ~refreshing /\ refreshing' = TRUE /\ askedAt' = now
        /\ call' = [call EXCEPT ![c] = [pc |-> "relist"]]
        /\ UNCHANGED <<now, backend, fetchedAt, status, installedAt>>
    BY <1>2 DEF Relist, MustRelist, catalogue
  <2>2. [pc |-> "relist"] \in CallStates
    BY DEF CallStates
  <2>3. call' \in [Calls -> CallStates] /\ \A d \in Calls \ {c} : call'[d].pc = "idle"
    BY <2>1, <2>2 DEF Paced
  <2> QED  BY <2>1, <2>3, TimeAssumption, NeverAssumption DEF Paced
<1>3. ASSUME NEW c \in Calls, Answers(c) PROVE Paced'
  <2> DEFINE e == [pc |-> "answered", tools |-> backend]
  <2>1. /\ call[c].pc = "relist" /\ call' = [call EXCEPT ![c] = e]
        /\ UNCHANGED <<now, backend, fetchedAt, status, installedAt, refreshing, askedAt>>
    BY <1>3 DEF Answers, catalogue
  <2>2. e \in CallStates
    <3>1. backend \in SUBSET Tools
      BY DEF Paced
    <3> QED  BY <3>1 DEF CallStates
  <2> HIDE DEF e
  <2>3. /\ call' \in [Calls -> CallStates]
        /\ \A d \in Calls : call'[d].pc # "idle" => call[d].pc # "idle"
    BY <2>1, <2>2 DEF Paced
  <2> QED  BY <2>1, <2>3 DEF Paced
<1>4. ASSUME NEW c \in Calls, Installs(c) \/ Fails(c) \/ Cancelled(c) PROVE Paced'
  <2>1. /\ call[c].pc # "idle" /\ refreshing' = FALSE /\ now' = now /\ backend' = backend
        /\ call' = [call EXCEPT ![c] = [pc |-> "idle"]]
        /\ \/ fetchedAt' = fetchedAt /\ status' = status /\ installedAt' = installedAt
              /\ askedAt' = Never
           \/ fetchedAt' = now /\ installedAt' = now /\ askedAt' = askedAt
           \/ /\ fetchedAt' = now /\ installedAt' = installedAt /\ askedAt' = askedAt
              /\ status' = "stale"
    <3>1. CASE Installs(c)
      BY <3>1 DEF Installs
    <3>2. CASE Fails(c)
      BY <3>2 DEF Fails
    <3>3. CASE Cancelled(c)
      BY <3>3 DEF Cancelled, catalogue
    <3> QED  BY <1>4, <3>1, <3>2, <3>3
  <2>2. refreshing
    BY <2>1 DEF Paced
  <2>3. call' \in [Calls -> CallStates] /\ \A d \in Calls : call'[d].pc = "idle"
    BY <2>1, FetchEnds
  <2>4. /\ now' \in Nat /\ fetchedAt' \in Nat /\ installedAt' \in Nat /\ backend' \subseteq Tools
        /\ askedAt' \in Nat \cup {Never} /\ fetchedAt' <= now'
    BY <2>1 DEF Paced
  <2>5. askedAt' # Never => askedAt' <= fetchedAt'
    BY <2>1, <2>2 DEF Paced
  <2>6. status' = "drift" => installedAt' = fetchedAt'
    BY <2>1 DEF Paced
  <2> QED  BY <2>1, <2>3, <2>4, <2>5, <2>6 DEF Paced
<1> QED  BY <1>1, <1>2, <1>3, <1>4 DEF CatNext

\* The backend is asked once per TTL, however many calls come, and a drift stays on report
\* for a whole one: no second call overwrites it with a diff against what the first has
\* installed (ensure_fresh).
THEOREM OncePerTTL == CatSpec => OneRelistPerTTL
<1>1. CatInit => Paced
  <2> SUFFICES ASSUME CatInit PROVE Paced
    OBVIOUS
  <2>1. [pc |-> "idle"] \in CallStates
    BY DEF CallStates
  <2>2. call = [c \in Calls |-> [pc |-> "idle"]]
    BY DEF CatInit
  <2>3. call \in [Calls -> CallStates] /\ \A c \in Calls : call[c].pc = "idle"
    BY <2>1, <2>2
  <2>4. /\ now = 0 /\ fetchedAt = 0 /\ installedAt = 0 /\ askedAt = Never /\ refreshing = FALSE
        /\ status = "ok" /\ backend \subseteq Tools
    BY DEF CatInit
  <2> QED  BY <2>3, <2>4 DEF Paced
<1>2. Paced /\ [CatNext]_catVars => Paced'
  BY PacedStep
<1>3. ASSUME Paced, CatNext
      PROVE  /\ askedAt # Never /\ askedAt' \notin {askedAt, Never} => askedAt' - askedAt >= TTL
             /\ status = "drift" /\ status' # "drift" => now - installedAt >= TTL
  <2>1. CASE Tick \/ BackendChanges
    BY <2>1 DEF catalogue, Tick, BackendChanges
  <2>2. ASSUME NEW c \in Calls, Relist(c)
        PROVE  /\ askedAt # Never => askedAt' - askedAt >= TTL
               /\ status' = status
    <3>1. /\ now - fetchedAt >= TTL /\ ~refreshing /\ askedAt' = now /\ status' = status
      BY <2>2 DEF Relist, MustRelist, catalogue
    <3> QED  BY <1>3, <3>1, TimeAssumption, NeverAssumption DEF Paced
  <2>3. ASSUME NEW c \in Calls,
               Answers(c) \/ Installs(c) \/ Fails(c) \/ Cancelled(c)
        PROVE  /\ askedAt' \in {askedAt, Never}
               /\ status = "drift" => now - installedAt >= TTL
    <3>1. call[c].pc # "idle" /\ askedAt' \in {askedAt, Never}
      <4>1. CASE Answers(c)
        BY <4>1 DEF Answers
      <4>2. CASE Installs(c)
        BY <4>2 DEF Installs
      <4>3. CASE Fails(c)
        BY <4>3 DEF Fails
      <4>4. CASE Cancelled(c)
        BY <4>4 DEF Cancelled
      <4> QED  BY <2>3, <4>1, <4>2, <4>3, <4>4
    <3> QED  BY <1>3, <3>1 DEF Paced
  <2> QED  BY <1>3, <2>1, <2>2, <2>3 DEF CatNext
<1>4. Paced /\ [CatNext]_catVars =>
        [/\ askedAt # Never /\ askedAt' \notin {askedAt, Never} => askedAt' - askedAt >= TTL
         /\ status = "drift" /\ status' # "drift" => now - installedAt >= TTL]_catVars
  BY <1>3
<1> QED  BY <1>1, <1>2, <1>4, PTL DEF CatSpec, OneRelistPerTTL

=============================================================================
