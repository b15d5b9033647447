------------------------- MODULE RegistryWatchProofs -------------------------
(***************************************************************************)
(* Proofs about Reloader, and about RegistryWatch, which extends it: for   *)
(* any secrets and requesters and any number of writes.                    *)
(***************************************************************************)
EXTENDS RegistryWatch, TLAPS

USE DEF vars, wvars, ext

-----------------------------------------------------------------------------
(* Reloader.                                                               *)

\* Type correctness of the Reloader of reload.py: the base of the proofs below.
THEOREM TypeCorrect == Spec => []TypeOK
<1>1. Init => TypeOK
  BY DEF Init, TypeOK, TaskStates, RequesterStates
<1>2. TypeOK /\ [Next]_vars => TypeOK'
  <2> SUFFICES ASSUME TypeOK, [Next]_vars PROVE TypeOK'
    OBVIOUS
  <2> USE DEF TypeOK, TaskStates, RequesterStates
  <2>1. ASSUME NEW r \in Requesters,
               RequestClosed(r) \/ RequestBusy(r) \/ RequestIdle(r) \/ RequesterCancelled(r)
        PROVE  TypeOK'
    BY <2>1 DEF RequestClosed, RequestBusy, RequestIdle, RequesterCancelled, Calls
  <2>2. CASE FirstStep
    BY <2>2 DEF FirstStep, ApplyStarts
  <2>3. ASSUME NEW o \in {"ok", "error"}, ApplyEnds(o)
        PROVE  TypeOK'
    <3>1. Answer(o, next) \in [Requesters -> RequesterStates]
      BY DEF Answer
    <3>2. pc' \in [Requesters -> RequesterStates]
      BY <2>3, <3>1 DEF ApplyEnds
    <3>3. seen' \in [Requesters -> BOOLEAN]
      BY <2>3 DEF ApplyEnds, ApplyStarts
    <3>4. QED
      BY <2>3, <3>2, <3>3 DEF ApplyEnds
  <2>4. CASE Unwound
    BY <2>4 DEF Unwound
  <2>5. CASE Cancel
    BY <2>5 DEF Cancel
  <2>6. CASE UNCHANGED vars
    BY <2>6
  <2>7. QED
    BY <2>1, <2>2, <2>3, <2>4, <2>5, <2>6 DEF Next
<1>3. QED
  BY <1>1, <1>2, PTL DEF Spec

-----------------------------------------------------------------------------

\* A result is only handed out by an apply in progress, so freshness is
\* inductive once it is also known of whoever waits on that apply.
Fresh ==
  /\ AnswersAreFresh
  /\ \A r \in Requesters : pc[r] = "cur" /\ task = "applying" => seen[r]

\* request() and _run(), reload.py: a result always comes from an apply that
\* started after it was asked for, whatever is cancelled or raises.
THEOREM ReloadsAreFresh == Spec => []AnswersAreFresh
<1>1. Init => Fresh
  BY DEF Init, Fresh, AnswersAreFresh
<1>2. TypeOK /\ Fresh /\ [Next]_vars => Fresh'
  <2> SUFFICES ASSUME TypeOK, Fresh, [Next]_vars, NEW q \in Requesters
               PROVE  /\ pc'[q] = "ok" => seen'[q]
                      /\ pc'[q] = "cur" /\ task' = "applying" => seen'[q]
    BY DEF Fresh, AnswersAreFresh
  <2> USE DEF TypeOK, Fresh, AnswersAreFresh
  <2>1. ASSUME NEW r \in Requesters,
               RequestClosed(r) \/ RequestBusy(r) \/ RequestIdle(r) \/ RequesterCancelled(r)
        PROVE  /\ pc'[q] = "ok" => seen'[q]
               /\ pc'[q] = "cur" /\ task' = "applying" => seen'[q]
    BY <2>1 DEF RequestClosed, RequestBusy, RequestIdle, RequesterCancelled, Calls, Waiting
  <2>2. CASE FirstStep
    BY <2>2 DEF FirstStep, ApplyStarts
  <2>3. ASSUME NEW o \in {"ok", "error"}, ApplyEnds(o)
        PROVE  /\ pc'[q] = "ok" => seen'[q]
               /\ pc'[q] = "cur" /\ task' = "applying" => seen'[q]
    BY <2>3 DEF ApplyEnds, ApplyStarts, Answer
  <2>4. CASE Unwound
    BY <2>4 DEF Unwound, Waiting
  <2>5. CASE Cancel
    BY <2>5 DEF Cancel
  <2>6. CASE UNCHANGED vars
    BY <2>6
  <2>7. QED
    BY <2>1, <2>2, <2>3, <2>4, <2>5, <2>6 DEF Next
<1>3. Fresh => AnswersAreFresh
  BY DEF Fresh
<1>4. QED
  BY <1>1, <1>2, <1>3, TypeCorrect, PTL DEF Spec

-----------------------------------------------------------------------------

\* The finally clause of _run, reload.py: when cancel() never catches the task
\* before its first step, whoever waits always has a task that will answer.
THEOREM WaitersAreServed ==
  ASSUME CancelBeforeFirstStep = FALSE
  PROVE  Spec => []NoWaiterIsStranded
<1>1. Init => NoWaiterIsStranded
  BY DEF Init, NoWaiterIsStranded, Waiting
<1>2. TypeOK /\ NoWaiterIsStranded /\ [Next]_vars => NoWaiterIsStranded'
  <2> SUFFICES ASSUME TypeOK, NoWaiterIsStranded, [Next]_vars, NEW q \in Requesters
               PROVE  /\ Waiting(q)' => ~Idle'
                      /\ pc'[q] = "next" => next'
    BY DEF NoWaiterIsStranded
  <2> USE DEF TypeOK, NoWaiterIsStranded, Waiting, Idle
  <2>1. ASSUME NEW r \in Requesters,
               RequestClosed(r) \/ RequestBusy(r) \/ RequestIdle(r) \/ RequesterCancelled(r)
        PROVE  /\ Waiting(q)' => ~Idle'
               /\ pc'[q] = "next" => next'
    BY <2>1 DEF RequestClosed, RequestBusy, RequestIdle, RequesterCancelled, Calls
  <2>2. CASE FirstStep
    BY <2>2 DEF FirstStep
  <2>3. ASSUME NEW o \in {"ok", "error"}, ApplyEnds(o)
        PROVE  /\ Waiting(q)' => ~Idle'
               /\ pc'[q] = "next" => next'
    <3>1. CASE next
      BY <2>3, <3>1 DEF ApplyEnds, Answer
    <3>2. CASE ~next
      BY <2>3, <3>2 DEF ApplyEnds, Answer
    <3>3. QED
      BY <3>1, <3>2
  <2>4. CASE Unwound
    BY <2>4 DEF Unwound
  <2>5. CASE Cancel
    BY <2>5, CancelBeforeFirstStep = FALSE DEF Cancel
  <2>6. CASE UNCHANGED vars
    BY <2>6
  <2>7. QED
    BY <2>1, <2>2, <2>3, <2>4, <2>5, <2>6 DEF Next
<1>3. QED
  BY <1>1, <1>2, TypeCorrect, PTL DEF Spec

-----------------------------------------------------------------------------
(* RegistryWatch.                                                          *)

\* What RegistryWatch adds to Reloader leaves the Reloader what it is (reload.py): each of
\* its steps is one of Reloader or none.
THEOREM WatchRefinesReloader == WSpec => Spec
<1>1. WInit => Init
  BY DEF WInit
<1>2. [WNext]_wvars => [Next]_vars
  <2> SUFFICES ASSUME [WNext]_wvars PROVE [Next]_vars
    OBVIOUS
  <2>1. CASE Writes \/ SaveEnds
    BY <2>1 DEF Writes, SaveBegins, Edit, Rotate, SaveEnds
  <2>2. CASE Applies
    BY <2>2 DEF Applies, Load, Diff, Restarts, Boots, BootStamps, Reloads, Refuses, WFirstStep,
                WUnwound, Fingerprint, BootStamp, Attach, Next
  <2>3. CASE Raises \/ WCancel
    BY <2>3 DEF Raises, WCancel, Next
  <2>4. CASE \E r \in Requesters : Asks(r)
    BY <2>4 DEF Asks, Next
  <2>5. CASE Watches
    BY <2>5, WatchAssumption DEF Watches, Ticks, SeesNothing, SeesChange, Sleeps, Stats, Next
  <2>6. CASE UNCHANGED wvars
    BY <2>6
  <2>7. QED
    BY <2>1, <2>2, <2>3, <2>4, <2>5, <2>6 DEF WNext
<1>3. QED
  BY <1>1, <1>2, PTL DEF WSpec, Spec

\* reload.py, with the watch as one of those who ask and reload() as what is applied: no
\* edit that the watch saw is answered by a reload that had begun before.
COROLLARY WatchIsAnsweredFreshly == WSpec => []AnswersAreFresh
BY WatchRefinesReloader, ReloadsAreFresh, PTL

\* The watch is not left waiting by a shutdown, as long as it comes after the first step.
COROLLARY WatchIsAnswered ==
  ASSUME CancelBeforeFirstStep = FALSE
  PROVE  WSpec => []NoWaiterIsStranded
BY WatchRefinesReloader, WaitersAreServed, PTL

-----------------------------------------------------------------------------
(* Fingerprints                                                            *)

Written == Nat \cup {NoEntry}

\* No file has a later write than the last one.
Disk ==
  /\ disk \in [Paths -> Nat] /\ writes \in Nat
  /\ \A p \in Paths : disk[p] <= writes + 1
  /\ toml.entries \subseteq Secrets /\ saving.entries \subseteq Secrets
  /\ {"entries"} \subseteq DOMAIN toml /\ {"entries"} \subseteq DOMAIN saving

\* A fingerprint that a boot or a reload has taken is of a write that has been; when it
\* attaches, what it leaves alone runs on what its fingerprint says, or later.
Worked ==
  /\ {"at", "entries", "todo", "prints"} = DOMAIN work
  /\ work.entries \subseteq Secrets /\ work.todo \subseteq work.entries
  /\ work.at # "none" /\ work.at # "load" => work.prints \in [Secrets -> Written]
  /\ \A s \in Secrets : work.at \in {"print", "stamp", "attach"} =>
       /\ s \notin work.entries => work.prints[s] = NoEntry
       /\ s \in work.entries /\ (work.at = "print" => s \notin work.todo) =>
            work.prints[s] \in Nat /\ work.prints[s] <= disk[s]
       /\ work.at = "attach" /\ s \in work.entries \ work.todo =>
            running[s] \in Nat /\ running[s] >= work.prints[s]

\* The same of what is in force.
Forced ==
  /\ {"entries", "prints"} = DOMAIN force
  /\ force.entries \subseteq Secrets /\ force.prints \in [Secrets -> Written]
  /\ running \in [Secrets -> Written]
  /\ \A s \in Secrets :
       /\ s \notin force.entries => force.prints[s] = NoEntry
       /\ s \in force.entries =>
            /\ force.prints[s] \in Nat /\ force.prints[s] <= disk[s]
            /\ running[s] \in Nat /\ running[s] >= force.prints[s]

Printed == Disk /\ Worked /\ Forced

LEMMA PrintedInit == WInit => Printed
BY PathAssumption DEF WInit, Printed, Disk, Worked, Forced, Starting, NoWork, NoPrints, Paths,
   NotSaving, Missing, Written

LEMMA PrintedStep == Printed /\ [WNext]_wvars => Printed'
<1> SUFFICES ASSUME Printed, [WNext]_wvars PROVE Printed'
  OBVIOUS
<1> USE BoundAssumption, PathAssumption DEF Printed, Written
<1>1. CASE Writes \/ SaveEnds
  <2>1. UNCHANGED <<work, force, running>>
    BY <1>1 DEF Writes, SaveBegins, Edit, Rotate, SaveEnds
  <2>2. Disk' /\ \A s \in Secrets : disk'[s] >= disk[s]
    <3> USE DEF Disk, Paths, Wrote
    <3>1. ASSUME NEW p \in Paths, Wrote(p)
          PROVE  /\ disk' \in [Paths -> Nat] /\ writes' \in Nat
                 /\ \A q \in Paths : disk'[q] <= writes' + 1 /\ disk'[q] >= disk[q]
      BY <3>1
    <3>2. CASE Writes
      BY <3>1, <3>2 DEF Writes, SaveBegins, Edit, Rotate
    <3>3. CASE SaveEnds
      BY <3>1, <3>3 DEF SaveEnds, NotSaving
    <3>4. QED
      BY <1>1, <3>2, <3>3
  <2>3. \A s \in Secrets : disk[s] \in Nat /\ disk'[s] \in Nat
    BY <2>2 DEF Disk, Paths
  <2>4. Worked'
    BY <2>1, <2>2, <2>3 DEF Worked
  <2>5. Forced'
    BY <2>1, <2>2, <2>3 DEF Forced
  <2>6. QED
    BY <2>2, <2>4, <2>5
<1>2. CASE Load
  BY <1>2 DEF Load, Disk, Worked, Forced, NoPrints
<1>3. ASSUME NEW s \in Secrets, Fingerprint(s) PROVE Printed'
  BY <1>3 DEF Fingerprint, Disk, Worked, Forced, Paths
<1>4. CASE BootStamps
  BY <1>4 DEF BootStamps, Disk, Worked, Forced
<1>5. ASSUME NEW s \in Secrets, BootStamp(s) PROVE Printed'
  BY <1>5 DEF BootStamp, Disk, Worked, Forced
<1>6. CASE Diff
  <2>1. Disk' /\ Forced'
    BY <1>6 DEF Diff, Disk, Forced
  <2>2. \A s \in work.entries \ Targets : running[s] \in Nat /\ running[s] >= work.prints[s]
    BY <1>6 DEF Diff, Worked, Forced, Targets
  <2>3. Worked'
    BY <1>6, <2>2 DEF Diff, Worked, Targets
  <2>4. QED
    BY <2>1, <2>3
<1>7. ASSUME NEW s \in Secrets, Attach(s) PROVE Printed'
  BY <1>7 DEF Attach, Disk, Worked, Forced, Paths
<1>8. Attached /\ Commits /\ UNCHANGED ext => Forced'
  BY DEF Attached, Commits, Disk, Worked, Forced, Paths
<1>9. NextWork \/ work' = NoWork \/ work' = Starting => Worked'
  BY DEF NextWork, NoWork, Starting, Worked
<1>10. CASE Boots
  BY <1>10, <1>8, <1>9 DEF Boots, Disk
<1>11. CASE Reloads
  BY <1>11, <1>8, <1>9 DEF Reloads, Disk
<1>12. CASE Restarts \/ Refuses \/ Raises \/ WFirstStep \/ WCancel
  BY <1>12, <1>9 DEF Restarts, Refuses, Raises, WFirstStep, WCancel, Disk, Forced
<1>13. ASSUME UNCHANGED <<ext, work, force, running>> PROVE Printed'
  BY <1>13 DEF Disk, Worked, Forced
<1>14. CASE WUnwound \/ Watches \/ (\E r \in Requesters : Asks(r)) \/ UNCHANGED wvars
  BY <1>13, <1>14 DEF WUnwound, Watches, Ticks, Stats, SeesNothing, SeesChange, Sleeps, Asks
<1>15. QED
  BY <1>1, <1>2, <1>3, <1>4, <1>5, <1>6, <1>7, <1>10, <1>11, <1>12, <1>14 DEF WNext, Applies

\* boot() and reload(), runtime.py: whatever is written at whatever moment, an app that a
\* later reload leaves alone does not run on an older secret than its fingerprint says.
THEOREM FingerprintsAreHonest == WSpec => []FingerprintsAreNotNewer
<1>1. Printed => FingerprintsAreNotNewer
  BY BoundAssumption DEF Printed, Forced, FingerprintsAreNotNewer
<1>2. QED
  BY PrintedInit, PrintedStep, <1>1, PTL DEF WSpec

-----------------------------------------------------------------------------
(* Types                                                                   *)

Registries == [entries : SUBSET Secrets, lints : BOOLEAN]

\* What WTypeOK says, and where its bounds come from: nothing that was read is of a
\* later write than the disk has, and a save that has begun ends with one more.
Typed ==
  /\ toml \in Registries /\ saving \in Registries
  /\ writes <= MaxWrites \/ (writes = MaxWrites + 1 /\ saving = NotSaving)
  /\ work.at \in {"none", "load", "print", "stamp", "diff", "attach"}
  /\ \A s \in Secrets : running[s] # NoEntry => running[s] \in Nat /\ running[s] <= disk[s]
  /\ {"at", "last", "stamp", "todo"} = DOMAIN watch
  /\ watch.at \in {"boot", "asleep", "stat", "asking"}

LEMMA TypedInit == WInit => Typed
BY PathAssumption, BoundAssumption DEF WInit, Typed, Registries, NotSaving, Starting, NoWork, NoPrints

LEMMA TypedStep == Printed /\ Typed /\ [WNext]_wvars => Typed'
<1> SUFFICES ASSUME Printed, Typed, [WNext]_wvars PROVE Typed'
  OBVIOUS
<1> USE BoundAssumption DEF Typed
<1>1. /\ disk \in [Paths -> Nat] /\ writes \in Nat /\ \A p \in Paths : disk[p] <= writes + 1
      /\ {"at", "entries", "todo", "prints"} = DOMAIN work
      /\ running \in [Secrets -> Nat \cup {NoEntry}]
  BY DEF Printed, Disk, Worked, Forced, Written
<1>2. CASE Writes \/ SaveEnds
  <2>1. UNCHANGED <<work, force, running, watch>>
    BY <1>2 DEF Writes, SaveBegins, Edit, Rotate, SaveEnds
  <2>2. /\ toml' \in Registries /\ saving' \in Registries
        /\ writes' <= MaxWrites \/ (writes' = MaxWrites + 1 /\ saving' = NotSaving)
    <3>1. CASE Writes
      <4>1. writes' <= MaxWrites
        BY <1>1, <3>1 DEF Writes, SaveBegins, Edit, Rotate, Wrote
      <4>2. \A es \in SUBSET Secrets, lints \in BOOLEAN : [entries |-> es, lints |-> lints] \in Registries
        BY DEF Registries
      <4>3. ASSUME NEW es \in SUBSET Secrets, SaveBegins(es)
            PROVE  toml' \in Registries /\ saving' \in Registries
        <5>1. {} \in SUBSET Secrets /\ TRUE \in BOOLEAN
          OBVIOUS
        <5>2. [entries |-> {}, lints |-> TRUE] \in Registries
          BY <4>2, <5>1
        <5> QED  BY <4>2, <4>3, <5>2 DEF SaveBegins
      <4>4. ASSUME NEW es \in SUBSET Secrets, NEW lints \in BOOLEAN, Edit(es, lints)
            PROVE  toml' \in Registries /\ saving' \in Registries
        BY <4>2, <4>4 DEF Edit
      <4>5. ASSUME NEW s \in Secrets, Rotate(s)
            PROVE  toml' \in Registries /\ saving' \in Registries
        BY <4>5 DEF Rotate
      <4> QED  BY <3>1, <4>1, <4>3, <4>4, <4>5 DEF Writes
    <3>2. CASE SaveEnds
      BY <1>1, <3>2 DEF SaveEnds, Wrote, Registries, NotSaving
    <3> QED  BY <1>2, <3>1, <3>2
  <2>3. \E p \in Paths : Wrote(p)
    BY <1>2 DEF Writes, SaveBegins, Edit, Rotate, SaveEnds, Paths
  <2>4. \A s \in Secrets : disk'[s] \in Nat /\ disk[s] \in Nat /\ disk[s] <= disk'[s]
    BY <1>1, <2>3 DEF Wrote, Paths
  <2>5. \A s \in Secrets : running'[s] # NoEntry => running'[s] \in Nat /\ running'[s] <= disk'[s]
    BY <2>1, <2>4
  <2> QED  BY <2>1, <2>2, <2>5
<1>3. CASE Load
  BY <1>3 DEF Load
<1>4. ASSUME NEW s \in Secrets, Fingerprint(s) PROVE Typed'
  BY <1>1, <1>4 DEF Fingerprint
<1>5. CASE BootStamps \/ Diff
  BY <1>1, <1>5 DEF BootStamps, Diff
<1>6. ASSUME NEW s \in Secrets, BootStamp(s) PROVE Typed'
  BY <1>1, <1>6 DEF BootStamp
<1>7. ASSUME NEW s \in Secrets, Attach(s) PROVE Typed'
  BY <1>1, <1>7 DEF Attach, Paths
<1>8. ASSUME Commits, UNCHANGED ext
      PROVE  \A s \in Secrets : running'[s] # NoEntry => running'[s] \in Nat /\ running'[s] <= disk'[s]
  BY <1>8 DEF Commits
<1>9. NextWork \/ work' = NoWork \/ work' = Starting => work'.at \in {"none", "load"}
  BY DEF NextWork, NoWork, Starting
<1>10. CASE Boots
  BY <1>8, <1>9, <1>10 DEF Boots
<1>11. CASE Reloads
  BY <1>8, <1>9, <1>11 DEF Reloads
<1>12. CASE Restarts \/ Refuses \/ Raises \/ WFirstStep \/ WCancel
  BY <1>9, <1>12 DEF Restarts, Refuses, Raises, WFirstStep, WCancel
<1>13. CASE WUnwound \/ Watches \/ (\E r \in Requesters : Asks(r)) \/ UNCHANGED wvars
  BY <1>13 DEF WUnwound, Watches, Ticks, Stats, SeesNothing, SeesChange, Sleeps, Asks
<1> QED  BY <1>2, <1>3, <1>4, <1>5, <1>6, <1>7, <1>10, <1>11, <1>12, <1>13 DEF WNext, Applies

\* Type correctness of the watch, of boot() and of reload(), and of what they have read.
THEOREM WatchTypeCorrect == WSpec => []WTypeOK
<1>1. TypeOK /\ Printed /\ Typed => WTypeOK
  <2> SUFFICES ASSUME TypeOK, Printed, Typed PROVE WTypeOK
    OBVIOUS
  <2> USE BoundAssumption DEF Typed
  <2>1. /\ disk \in [Paths -> Nat] /\ writes \in Nat /\ \A p \in Paths : disk[p] <= writes + 1
        /\ running \in [Secrets -> Nat \cup {NoEntry}]
        /\ force.entries \subseteq Secrets /\ force.prints \in [Secrets -> Nat \cup {NoEntry}]
    BY DEF Printed, Disk, Forced, Written
  <2>2. \A n \in Nat, p \in Paths : n <= disk[p] => n \in 0 .. MaxWrites + 2
    BY <2>1
  <2>3. disk \in [Paths -> 0 .. MaxWrites + 2] /\ writes \in 0 .. MaxWrites + 1
    BY <2>1
  <2>4. \A s \in Secrets : running[s] \in 0 .. MaxWrites + 2 \cup {NoEntry}
    BY <2>1, <2>2 DEF Paths
  <2>5. \A s \in Secrets : force.prints[s] \in 0 .. MaxWrites + 2 \cup {NoEntry}
    BY <2>2 DEF Printed, Forced, Paths
  <2>6. running \in Prints /\ force.prints \in Prints
    BY <2>1, <2>4, <2>5 DEF Prints
  <2> QED  BY <2>1, <2>3, <2>6 DEF WTypeOK, Registries
<1>2. WSpec => []TypeOK
  BY WatchRefinesReloader, TypeCorrect, PTL
<1>3. QED
  BY <1>1, <1>2, PrintedInit, PrintedStep, TypedInit, TypedStep, PTL DEF WSpec

=============================================================================
