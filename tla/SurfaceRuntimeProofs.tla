------------------------ MODULE SurfaceRuntimeProofs ------------------------
(***************************************************************************)
(* Proofs about SurfaceRuntime, for any surfaces, entries and bounds.      *)
(***************************************************************************)
EXTENDS SurfaceRuntime, TLAPS

USE DEF vars, health, bounds

-----------------------------------------------------------------------------
(* Types of the helpers                                                    *)

\* Retiring a supervisor keeps the supervisors of a surface well formed.
LEMMA RetireType ==
  ASSUME NEW ss \in [SupIds -> Sups], NEW u \in SupIds \cup {None}
  PROVE  Retire(ss, u) \in [SupIds -> Sups]
BY DEF Retire, Sups, SupStates

\* Cancelling the retry of a slot keeps supervisors and retries well formed.
LEMMA CancelType ==
  ASSUME TypeOK, NEW n \in Names
  PROVE  /\ CancelledSups(n) \in [SupIds -> Sups]
         /\ CancelledRetries(n) \in [RetryIds -> Retries]
<1>1. /\ slot[n].retry \in RetryIds \cup {None}
      /\ sups[n] \in [SupIds -> Sups]
      /\ retries[n] \in [RetryIds -> Retries]
  BY DEF TypeOK, Slots
<1>2. CancelledSups(n) \in [SupIds -> Sups]
  <2>1. CASE slot[n].retry = None
    BY <1>1, <2>1 DEF CancelledSups
  <2>2. CASE slot[n].retry # None
    <3>1. retries[n][slot[n].retry].sup \in SupIds \cup {None}
      BY <1>1, <2>2 DEF Retries
    <3> QED BY <1>1, <2>2, <3>1, RetireType DEF CancelledSups
  <2> QED BY <2>1, <2>2
<1>3. FreeRetry \in Retries
  BY DEF FreeRetry, Retries
<1>4. CancelledRetries(n) \in [RetryIds -> Retries]
  BY <1>1, <1>3 DEF CancelledRetries
<1> QED BY <1>2, <1>4

\* Starting, stopping or closing one supervisor keeps them all well formed.
LEMMA SupsType ==
  ASSUME TypeOK, NEW n \in Names, NEW ss \in [SupIds -> Sups]
  PROVE  [sups EXCEPT ![n] = ss] \in [Names -> [SupIds -> Sups]]
BY DEF TypeOK

\* The lowest elements of a set of identifiers are identifiers.
LEMMA LowestType ==
  ASSUME NEW S
  PROVE  Lowest(S) \subseteq S
BY DEF Lowest

\* An idle driver is a driver.
LEMMA IdleDriverType == IdleDriver \in Drivers
BY DEF IdleDriver, Drivers, Registries, Outcomes

\* The installing half of boot and reload keeps supervisors and driver typed.
LEMMA DriverInstallsType ==
  ASSUME TypeOK, NEW n \in Names, DriverInstalls(n)
  PROVE  /\ sups' \in [Names -> [SupIds -> Sups]]
         /\ driver' \in Drivers
<1>1. PICK u \in Lowest(FreeSups(n)) :
        /\ sups' = [sups EXCEPT ![n] =
             [CancelledSups(n) EXCEPT ![u] = [st |-> "starting", entry |-> driver.new[n]]]]
        /\ driver' = [driver EXCEPT !.st = "start", !.todo = @ \ {n}, !.cur = n, !.sup = u]
  BY DEF DriverInstalls
<1>2. u \in SupIds
  BY LowestType DEF FreeSups
<1>3. [st |-> "starting", entry |-> driver.new[n]] \in Sups
  BY DEF Sups, SupStates, TypeOK, Drivers, Registries
<1>4. [CancelledSups(n) EXCEPT ![u] = [st |-> "starting", entry |-> driver.new[n]]]
        \in [SupIds -> Sups]
  BY <1>2, <1>3, CancelType
<1>5. driver' \in Drivers
  BY <1>1, <1>2 DEF TypeOK, Drivers
<1> QED BY <1>1, <1>4, <1>5, SupsType

\* _install after its await keeps slots, supervisors and series well formed.
LEMMA InstalledType ==
  ASSUME TypeOK, NEW n \in Names, NEW u \in SupIds \cup {None}, Installed(n, u)
  PROVE  /\ slot' \in [Names -> Slots]
         /\ sups' \in [Names -> [SupIds -> Sups]]
         /\ series' \in [Names -> SupIds \cup {None}]
<1>1. slot[n] \in Slots /\ sups[n] \in [SupIds -> Sups] /\ slot[n].sup \in SupIds \cup {None}
  BY DEF TypeOK, Slots
<1>2. [slot[n] EXCEPT !.sup = u, !.fault = FALSE] \in Slots
  BY <1>1 DEF Slots
<1>3. slot' \in [Names -> Slots]
  BY <1>2 DEF Installed, TypeOK
<1>4. [sups[n] EXCEPT ![u].st = "serving"] \in [SupIds -> Sups]
  BY <1>1 DEF Sups, SupStates
<1>5. sups' \in [Names -> [SupIds -> Sups]]
  BY <1>1, <1>4, RetireType, SupsType DEF Installed
<1> QED BY <1>3, <1>5 DEF Installed, TypeOK

\* _attach_failed keeps slots, retries and the health sets well formed.
LEMMA AttachFailedType ==
  ASSUME TypeOK, NEW n \in Names, NEW s \in Slots, NEW rs \in [RetryIds -> Retries],
         NEW fault \in BOOLEAN, AttachFailed(n, s, rs, fault)
  PROVE  /\ slot' \in [Names -> Slots]
         /\ retries' \in [Names -> [RetryIds -> Retries]]
         /\ failed' \in SUBSET Names
         /\ configFaults' \in SUBSET Names
         /\ reloadFailed' \in SUBSET Names
<1> DEFINE marked == [s EXCEPT !.fault = IF s.sup = None THEN fault ELSE @]
<1>1. marked \in Slots
  BY DEF Slots
<1>2. NewRetry(driver.new[n]) \in Retries
  BY DEF NewRetry, Retries, TypeOK, Drivers, Registries
<1>3. ASSUME NEW k \in Lowest(FreeRetries(rs)),
             slot' = [slot EXCEPT ![n] = [marked EXCEPT !.retry = k]],
             retries' = [retries EXCEPT ![n] = [rs EXCEPT ![k] = NewRetry(driver.new[n])]]
      PROVE  slot' \in [Names -> Slots] /\ retries' \in [Names -> [RetryIds -> Retries]]
  <2> HIDE DEF marked
  <2>1. k \in RetryIds
    BY LowestType DEF FreeRetries
  <2>2. [marked EXCEPT !.retry = k] \in Slots
    BY <1>1, <2>1 DEF Slots
  <2>3. [rs EXCEPT ![k] = NewRetry(driver.new[n])] \in [RetryIds -> Retries]
    BY <1>2, <2>1
  <2> QED BY <1>3, <2>2, <2>3 DEF TypeOK
<1>4. ASSUME fault, slot' = [slot EXCEPT ![n] = marked],
             retries' = [retries EXCEPT ![n] = rs]
      PROVE  slot' \in [Names -> Slots] /\ retries' \in [Names -> [RetryIds -> Retries]]
  <2> HIDE DEF marked
  <2> QED BY <1>1, <1>4 DEF TypeOK
<1>5. slot' \in [Names -> Slots] /\ retries' \in [Names -> [RetryIds -> Retries]]
  BY <1>3, <1>4, Zenon DEF AttachFailed
<1>6. /\ failed' \in SUBSET Names
      /\ configFaults' \in SUBSET Names
      /\ reloadFailed' \in SUBSET Names
  <2>1. CASE s.sup = None
    BY <2>1 DEF AttachFailed, TypeOK
  <2>2. CASE s.sup # None
    <3>1. /\ reloadFailed' = reloadFailed \cup {n}
          /\ failed' = failed
          /\ configFaults' = configFaults
      BY <2>2, Zenon DEF AttachFailed
    <3> QED BY <3>1 DEF TypeOK
  <2> QED BY <2>1, <2>2
<1> QED BY <1>5, <1>6

-----------------------------------------------------------------------------
(* Type correctness                                                        *)

\* Type correctness of boot: start() installs, fails or finishes.
LEMMA BootType ==
  ASSUME TypeOK, NEW n \in Names, BootInstall(n) \/ BootStartFails(n) \/ DriverStartOk(n)
  PROVE  TypeOK'
<1>1. CASE BootInstall(n)
  <2>1. DriverInstalls(n)
    BY <1>1 DEF BootInstall
  <2> QED BY <1>1, <2>1, DriverInstallsType DEF BootInstall, TypeOK
<1>2. CASE BootStartFails(n)
  <2>1. driver.sup \in SupIds \cup {None} /\ sups[n] \in [SupIds -> Sups]
    BY DEF TypeOK, Drivers
  <2>2. FreeSup \in Sups
    BY DEF FreeSup, Sups, SupStates
  <2>3. [sups[n] EXCEPT ![driver.sup] = FreeSup] \in [SupIds -> Sups]
    BY <2>1, <2>2
  <2>4. sups' = [sups EXCEPT ![n] = [sups[n] EXCEPT ![driver.sup] = FreeSup]]
    BY <1>2, Zenon DEF BootStartFails
  <2>5. sups' \in [Names -> [SupIds -> Sups]]
    BY <2>3, <2>4, SupsType
  <2> QED BY <1>2, <2>5, IdleDriverType DEF BootStartFails, TypeOK, Phases
<1>3. CASE DriverStartOk(n)
  <2>1. n = driver.cur /\ driver.st = "start" /\ Installed(n, driver.sup)
    BY <1>3 DEF DriverStartOk
  <2>2. driver.sup \in SupIds \cup {None}
    BY DEF TypeOK, Drivers
  <2>3. driver' \in Drivers
    BY <1>3 DEF DriverStartOk, TypeOK, Drivers
  <2>4. /\ slot' \in [Names -> Slots]
        /\ sups' \in [Names -> [SupIds -> Sups]]
        /\ series' \in [Names -> SupIds \cup {None}]
    BY <2>1, <2>2, InstalledType
  <2>5. /\ failed' \in SUBSET Names
        /\ configFaults' \in SUBSET Names
        /\ reloadFailed' \in SUBSET Names
    <3>1. CASE phase = "up"
      BY <1>3, <3>1 DEF DriverStartOk, Cleared, TypeOK
    <3>2. CASE phase # "up"
      BY <1>3, <3>2 DEF DriverStartOk, TypeOK
    <3> QED BY <3>1, <3>2
  <2> QED BY <1>3, <2>3, <2>4, <2>5 DEF DriverStartOk, TypeOK
<1> QED BY <1>1, <1>2, <1>3

\* Type correctness of the end of start().
LEMMA BootDoneType ==
  ASSUME TypeOK, BootDone
  PROVE  TypeOK'
<1>1. PICK ks \in [Names -> RetryIds] :
     LET retried == failed \ configFaults IN
     /\ slot' = [x \in Names |->
          IF x \in retried THEN [slot[x] EXCEPT !.retry = ks[x]] ELSE slot[x]]
     /\ retries' = [x \in Names |->
          IF x \in retried THEN [retries[x] EXCEPT ![ks[x]] = NewRetry(registry[x])]
          ELSE retries[x]]
  BY Zenon DEF BootDone
<1>2. \A x \in Names : [slot[x] EXCEPT !.retry = ks[x]] \in Slots /\ slot[x] \in Slots
  BY DEF TypeOK, Slots
<1>3. slot' \in [Names -> Slots]
  BY <1>1, <1>2
<1>4. ASSUME NEW x \in Names
      PROVE  [retries[x] EXCEPT ![ks[x]] = NewRetry(registry[x])] \in [RetryIds -> Retries]
  <2>1. NewRetry(registry[x]) \in Retries
    BY DEF NewRetry, Retries, TypeOK, Registries
  <2>2. retries[x] \in [RetryIds -> Retries]
    BY DEF TypeOK
  <2> QED BY <2>1, <2>2
<1>5. retries' \in [Names -> [RetryIds -> Retries]]
  BY <1>1, <1>4 DEF TypeOK
<1> QED BY <1>3, <1>5, IdleDriverType DEF BootDone, TypeOK, Phases

\* Type correctness of the beginning of reload(): the diff and the attaches.
LEMMA ReloadAttachType ==
  ASSUME TypeOK, NEW new \in Registries, NEW res \in [Names -> Outcomes],
         ReloadStart(new) \/ ReloadAttached(res)
  PROVE  TypeOK'
<1>1. CASE ReloadStart(new)
  <2>1. Added(new) \cup Changed(new) \in SUBSET Names
    BY DEF Added, Changed
  <2>2. driver' \in Drivers
    BY <1>1, <2>1, IdleDriverType DEF ReloadStart, Drivers
  <2>3. reloads' \in 0 .. MaxReloads
    BY <1>1, BoundsAssumption DEF ReloadStart, TypeOK
  <2> QED BY <1>1, <2>2, <2>3 DEF ReloadStart, TypeOK
<1>2. CASE ReloadAttached(res)
  <2>1. driver' \in Drivers
    BY <1>2 DEF ReloadAttached, TypeOK, Drivers
  <2> QED BY <1>2, <2>1 DEF ReloadAttached, TypeOK
<1> QED BY <1>1, <1>2

\* Type correctness of reload(), its loop over the targets.
LEMMA ReloadType ==
  ASSUME TypeOK, NEW n \in Names,
         ReloadInstall(n) \/ ReloadTargetFailed(n) \/ ReloadStartFails(n)
  PROVE  TypeOK'
<1>3. slot[n] \in Slots /\ TargetSlot(n) \in Slots
  BY DEF TypeOK, TargetSlot, Slots
<1>4. CASE ReloadInstall(n)
  <2>1. DriverInstalls(n)
    BY <1>4 DEF ReloadInstall
  <2>2. slot' \in [Names -> Slots]
    BY <1>3, <1>4 DEF ReloadInstall, TypeOK
  <2>3. retries' \in [Names -> [RetryIds -> Retries]]
    BY <1>4, CancelType DEF ReloadInstall, TypeOK
  <2> QED BY <1>4, <2>1, <2>2, <2>3, DriverInstallsType DEF ReloadInstall, TypeOK
<1>5. CASE ReloadTargetFailed(n)
  <2> DEFINE fault == driver.res[n] = "fault"
  <2>1. AttachFailed(n, TargetSlot(n), CancelledRetries(n), fault) /\ fault \in BOOLEAN
    BY <1>5 DEF ReloadTargetFailed
  <2>2. driver' \in Drivers
    BY <1>5 DEF ReloadTargetFailed, TypeOK, Drivers
  <2>3. sups' \in [Names -> [SupIds -> Sups]]
    BY <1>5, CancelType, SupsType DEF ReloadTargetFailed
  <2> HIDE DEF fault
  <2>4. /\ slot' \in [Names -> Slots]
        /\ retries' \in [Names -> [RetryIds -> Retries]]
        /\ failed' \in SUBSET Names
        /\ configFaults' \in SUBSET Names
        /\ reloadFailed' \in SUBSET Names
    BY <2>1, <1>3, CancelType, AttachFailedType
  <2> QED BY <1>5, <2>2, <2>3, <2>4 DEF ReloadTargetFailed, TypeOK
<1>6. CASE ReloadStartFails(n)
  <2>1. PICK fault \in BOOLEAN : AttachFailed(n, slot[n], retries[n], fault)
    BY <1>6 DEF ReloadStartFails
  <2>7. retries[n] \in [RetryIds -> Retries]
    BY DEF TypeOK
  <2>2. driver' \in Drivers /\ driver.sup \in SupIds \cup {None}
    BY <1>6 DEF ReloadStartFails, TypeOK, Drivers
  <2>3. [sups[n] EXCEPT ![driver.sup] = FreeSup] \in [SupIds -> Sups]
    BY <2>2 DEF FreeSup, Sups, SupStates, TypeOK
  <2>4. sups' = [sups EXCEPT ![n] = [sups[n] EXCEPT ![driver.sup] = FreeSup]]
    BY <1>6, Zenon DEF ReloadStartFails
  <2>5. sups' \in [Names -> [SupIds -> Sups]]
    BY <2>3, <2>4, SupsType
  <2>6. /\ slot' \in [Names -> Slots]
        /\ retries' \in [Names -> [RetryIds -> Retries]]
        /\ failed' \in SUBSET Names
        /\ configFaults' \in SUBSET Names
        /\ reloadFailed' \in SUBSET Names
    BY <2>1, <2>7, <1>3, AttachFailedType
  <2> QED BY <1>6, <2>2, <2>5, <2>6 DEF ReloadStartFails, TypeOK
<1> QED BY <1>4, <1>5, <1>6

\* What _remove leaves of the retry tasks of a surface is well formed.
LEMMA OrphanedType ==
  ASSUME TypeOK, NEW n \in Names
  PROVE  Orphaned(n) \in [RetryIds -> Retries]
<1>1. ASSUME NEW k \in RetryIds
      PROVE  [retries[n][k] EXCEPT
                !.slot = IF slot[n].sup = None THEN "gonePending" ELSE "goneServing"] \in Retries
  <2>1. retries[n][k] \in Retries
    BY DEF TypeOK
  <2>2. \A r \in Retries, at \in {"gonePending", "goneServing"} :
          [r EXCEPT !.slot = at] \in Retries
    BY DEF Retries
  <2> QED BY <2>1, <2>2
<1> QED BY <1>1, CancelType DEF Orphaned

\* Type correctness of the end of reload().
LEMMA ReloadDoneType ==
  ASSUME TypeOK, ReloadDone
  PROVE  TypeOK'
<1> DEFINE gone == Removed(driver.new)
<1>1. /\ slot' = [n \in Names |-> IF n \in gone THEN NoSlot ELSE slot[n]]
      /\ sups' = [n \in Names |->
           IF n \in gone THEN Retire(CancelledSups(n), slot[n].sup) ELSE sups[n]]
      /\ retries' = [n \in Names |-> IF n \in gone THEN Orphaned(n) ELSE retries[n]]
      /\ series' = [n \in Names |-> IF n \in gone THEN None ELSE series[n]]
      /\ Cleared(gone)
      /\ registry' = driver.new
      /\ driver' = IdleDriver
  BY Zenon DEF ReloadDone
<1> HIDE DEF gone
<1>2. NoSlot \in Slots
  BY DEF NoSlot, Slots
<1>3. ASSUME NEW n \in Names
      PROVE  Retire(CancelledSups(n), slot[n].sup) \in [SupIds -> Sups]
  <2>1. slot[n].sup \in SupIds \cup {None}
    BY DEF TypeOK, Slots
  <2> QED BY <2>1, CancelType, RetireType
<1>4. slot' \in [Names -> Slots] /\ registry' \in Registries
  BY <1>1, <1>2 DEF TypeOK, Drivers
<1>5. sups' \in [Names -> [SupIds -> Sups]]
  <2>1. \A n \in Names : sups[n] \in [SupIds -> Sups]
    BY DEF TypeOK
  <2> QED BY <1>1, <1>3, <2>1
<1>6. retries' \in [Names -> [RetryIds -> Retries]]
  BY <1>1, OrphanedType DEF TypeOK
<1>7. series' \in [Names -> SupIds \cup {None}]
  BY <1>1 DEF TypeOK
<1> QED BY <1>1, <1>4, <1>5, <1>6, <1>7, IdleDriverType DEF ReloadDone, Cleared, TypeOK

\* Type correctness of one step of a retry task.
LEMMA RetryType ==
  ASSUME TypeOK, NEW n \in Names, NEW k \in RetryIds,
         \/ RetryWakes(n, k) \/ RetryAttachOk(n, k) \/ RetryStartOk(n, k)
         \/ RetryFails(n, k)
  PROVE  TypeOK'
<1>1. /\ retries[n] \in [RetryIds -> Retries] /\ retries[n][k] \in Retries
      /\ sups[n] \in [SupIds -> Sups]
      /\ slot[n] \in Slots /\ slot[n].sup \in SupIds \cup {None}
  BY DEF TypeOK, Slots
<1>2. ASSUME NEW r \in Retries, retries' = [retries EXCEPT ![n] = [retries[n] EXCEPT ![k] = r]]
      PROVE  retries' \in [Names -> [RetryIds -> Retries]]
  <2>1. [retries[n] EXCEPT ![k] = r] \in [RetryIds -> Retries]
    BY <1>1
  <2> QED BY <1>2, <2>1 DEF TypeOK
<1>3. /\ FreeRetry \in Retries
      /\ FreeSup \in Sups
      /\ \A st \in {"sleep", "attach", "start"}, u \in SupIds \cup {None} :
           /\ [retries[n][k] EXCEPT !.st = st] \in Retries
           /\ [retries[n][k] EXCEPT !.st = st, !.sup = u] \in Retries
  BY <1>1 DEF Retries, FreeRetry, FreeSup, Sups, SupStates
<1>4. retries[n][k].sup \in SupIds \cup {None} /\ retries[n][k].entry \in Entries \cup {NoEntry}
  BY <1>1 DEF Retries
<1>5. /\ RetryDone(n, k, slot[n]) \in Slots
      /\ \A u \in SupIds \cup {None} :
           [RetryDone(n, k, slot[n]) EXCEPT !.sup = u, !.fault = FALSE] \in Slots
      /\ \A b \in BOOLEAN : [RetryDone(n, k, slot[n]) EXCEPT !.fault = b] \in Slots
  BY <1>1 DEF Slots, RetryDone
<1>6. CASE RetryWakes(n, k)
  <2>1. retries' = [retries EXCEPT ![n] =
                      [retries[n] EXCEPT ![k] = [retries[n][k] EXCEPT !.st = "attach"]]]
    BY <1>6, Zenon DEF RetryWakes
  <2>2. retries' \in [Names -> [RetryIds -> Retries]]
    BY <1>2, <1>3, <2>1
  <2> QED BY <1>6, <2>2 DEF RetryWakes, TypeOK
<1>7. CASE RetryAttachOk(n, k)
  <2>1. PICK u \in Lowest(FreeSups(n)) :
       /\ sups' = [sups EXCEPT ![n] =
            [sups[n] EXCEPT ![u] = [st |-> "starting", entry |-> retries[n][k].entry]]]
       /\ retries' = [retries EXCEPT ![n] =
            [retries[n] EXCEPT ![k] = [retries[n][k] EXCEPT !.st = "start", !.sup = u]]]
    BY <1>7, Zenon DEF RetryAttachOk
  <2>2. u \in SupIds
    BY LowestType DEF FreeSups
  <2>3. [sups[n] EXCEPT ![u] = [st |-> "starting", entry |-> retries[n][k].entry]]
          \in [SupIds -> Sups]
    BY <1>1, <1>4, <2>2 DEF Sups, SupStates
  <2>4. sups' \in [Names -> [SupIds -> Sups]]
    BY <2>1, <2>3, SupsType
  <2>5. retries' \in [Names -> [RetryIds -> Retries]]
    BY <1>2, <1>3, <2>1, <2>2
  <2> QED BY <1>7, <2>4, <2>5 DEF RetryAttachOk, TypeOK
<1>8. CASE RetryStartOk(n, k)
  <2> DEFINE u == retries[n][k].sup
  <2>1. retries' = [retries EXCEPT ![n] = [retries[n] EXCEPT ![k] = FreeRetry]]
    BY <1>8, Zenon DEF RetryStartOk
  <2>2. retries' \in [Names -> [RetryIds -> Retries]]
    BY <1>2, <1>3, <2>1
  <2>3. /\ slot' \in [Names -> Slots]
        /\ sups' \in [Names -> [SupIds -> Sups]]
        /\ series' \in [Names -> SupIds \cup {None}]
    <3>1. CASE retries[n][k].slot = "table"
      <4>1. /\ slot' = [slot EXCEPT ![n] =
                          [RetryDone(n, k, slot[n]) EXCEPT !.sup = u, !.fault = FALSE]]
            /\ sups' = [sups EXCEPT ![n] =
                          Retire([sups[n] EXCEPT ![u].st = "serving"], slot[n].sup)]
            /\ series' = [series EXCEPT ![n] = u]
        BY <1>8, <3>1, Zenon DEF RetryStartOk
      <4> HIDE DEF u
      <4>2. [sups[n] EXCEPT ![u].st = "serving"] \in [SupIds -> Sups]
        BY <1>1 DEF Sups, SupStates
      <4>3. Retire([sups[n] EXCEPT ![u].st = "serving"], slot[n].sup) \in [SupIds -> Sups]
        BY <1>1, <4>2, RetireType
      <4>4. sups' \in [Names -> [SupIds -> Sups]]
        BY <4>1, <4>3, SupsType
      <4> QED BY <1>4, <1>5, <4>1, <4>4 DEF TypeOK, u
    <3>2. CASE retries[n][k].slot # "table"
      <4>1. /\ slot' = slot
            /\ sups' = [sups EXCEPT ![n] = Retire(sups[n], u)]
            /\ series' = series
        BY <1>8, <3>2, Zenon DEF RetryStartOk
      <4>2. Retire(sups[n], u) \in [SupIds -> Sups]
        BY <1>1, <1>4, RetireType
      <4>3. sups' \in [Names -> [SupIds -> Sups]]
        BY <4>1, <4>2, SupsType
      <4> QED BY <4>1, <4>3 DEF TypeOK
    <3> QED BY <3>1, <3>2
  <2> QED BY <1>8, <2>2, <2>3 DEF RetryStartOk, Cleared, TypeOK
<1>9. CASE RetryAttachTransient(n, k)
  <2>1. retries' = [retries EXCEPT ![n] =
                      [retries[n] EXCEPT ![k] = [retries[n][k] EXCEPT !.st = "sleep"]]]
    BY <1>9, Zenon DEF RetryAttachTransient
  <2>2. retries' \in [Names -> [RetryIds -> Retries]]
    BY <1>2, <1>3, <2>1
  <2> QED BY <1>9, <2>2 DEF RetryAttachTransient, TypeOK
<1>10. CASE RetryAttachFault(n, k)
  <2>1. retries' = [retries EXCEPT ![n] = [retries[n] EXCEPT ![k] = FreeRetry]]
    BY <1>10, Zenon DEF RetryAttachFault
  <2>2. retries' \in [Names -> [RetryIds -> Retries]]
    BY <1>2, <1>3, <2>1
  <2>3. slot' \in [Names -> Slots]
    <3> DEFINE s == [RetryDone(n, k, slot[n]) EXCEPT !.fault = slot[n].fault \/ slot[n].sup = None]
    <3>1. s \in Slots
      <4>1. slot[n].fault \in BOOLEAN
        BY <1>1 DEF Slots
      <4> QED BY <1>5, <4>1
    <3>2. CASE retries[n][k].slot = "table"
      <4>1. slot' = [slot EXCEPT ![n] = s]
        BY <1>10, <3>2, Zenon DEF RetryAttachFault
      <4> HIDE DEF s
      <4> QED BY <3>1, <4>1 DEF TypeOK
    <3>3. CASE retries[n][k].slot # "table"
      BY <1>10, <3>3 DEF RetryAttachFault, TypeOK
    <3> QED BY <3>2, <3>3
  <2>4. failed' \in SUBSET Names /\ configFaults' \in SUBSET Names
    <3>1. CASE SlotPending(n, k)
      BY <1>10, <3>1 DEF RetryAttachFault, TypeOK
    <3>2. CASE ~SlotPending(n, k)
      BY <1>10, <3>2 DEF RetryAttachFault, TypeOK
    <3> QED BY <3>1, <3>2
  <2> QED BY <1>10, <2>2, <2>3, <2>4 DEF RetryAttachFault, TypeOK
<1>11. CASE RetryStartFails(n, k)
  <2>1. /\ sups' = [sups EXCEPT ![n] = [sups[n] EXCEPT ![retries[n][k].sup] = FreeSup]]
        /\ retries' = [retries EXCEPT ![n] =
             [retries[n] EXCEPT ![k] = [retries[n][k] EXCEPT !.st = "sleep", !.sup = None]]]
    BY <1>11, Zenon DEF RetryStartFails
  <2>2. [sups[n] EXCEPT ![retries[n][k].sup] = FreeSup] \in [SupIds -> Sups]
    BY <1>1, <1>3
  <2>3. sups' \in [Names -> [SupIds -> Sups]]
    BY <2>1, <2>2, SupsType
  <2>4. retries' \in [Names -> [RetryIds -> Retries]]
    BY <1>2, <1>3, <2>1
  <2> QED BY <1>11, <2>3, <2>4 DEF RetryStartFails, TypeOK
<1> QED BY <1>6, <1>7, <1>8, <1>9, <1>10, <1>11 DEF RetryFails

\* Type correctness of an app that dies while serving, and of one that closes.
LEMMA AppType ==
  ASSUME TypeOK, NEW n \in Names, NEW u \in SupIds, AppDies(n, u) \/ SupCloses(n, u)
  PROVE  TypeOK'
<1>1. /\ sups[n] \in [SupIds -> Sups] /\ slot[n] \in Slots
      /\ retries[n] \in [RetryIds -> Retries]
  BY DEF TypeOK
<1>2. CASE AppDies(n, u)
  <2>1. sups' = [sups EXCEPT ![n] = [sups[n] EXCEPT ![u].st = "dying"]]
    BY <1>2, Zenon DEF AppDies
  <2>2. [sups[n] EXCEPT ![u].st = "dying"] \in [SupIds -> Sups]
    BY <1>1 DEF Sups, SupStates
  <2>3. sups' \in [Names -> [SupIds -> Sups]]
    BY <2>1, <2>2, SupsType
  <2>4. deaths' \in 0 .. MaxDeaths
    BY <1>2, BoundsAssumption DEF AppDies, TypeOK
  <2>5. /\ slot' \in [Names -> Slots]
        /\ retries' \in [Names -> [RetryIds -> Retries]]
        /\ failed' \in SUBSET Names
        /\ series' \in [Names -> SupIds \cup {None}]
    <3>1. CASE ServingFailed(n)
      <4>1. failed' \in SUBSET Names /\ series' \in [Names -> SupIds \cup {None}]
        BY <3>1 DEF ServingFailed, TypeOK
      <4>2. /\ NewRetry(registry[n]) \in Retries
            /\ [slot[n] EXCEPT !.sup = None] \in Slots
            /\ \A k \in RetryIds : [slot[n] EXCEPT !.sup = None, !.retry = k] \in Slots
        BY <1>1 DEF NewRetry, Retries, Slots, TypeOK, Registries
      <4>3. ASSUME NEW k \in Lowest(FreeRetries(retries[n])),
                   slot' = [slot EXCEPT ![n] =
                              [slot[n] EXCEPT !.sup = None, !.retry = k]],
                   retries' = [retries EXCEPT ![n] =
                                [retries[n] EXCEPT ![k] = NewRetry(registry[n])]]
            PROVE  slot' \in [Names -> Slots] /\ retries' \in [Names -> [RetryIds -> Retries]]
        <5>1. k \in RetryIds
          BY LowestType DEF FreeRetries
        <5>2. [retries[n] EXCEPT ![k] = NewRetry(registry[n])] \in [RetryIds -> Retries]
          BY <1>1, <4>2, <5>1
        <5> QED BY <4>2, <4>3, <5>1, <5>2 DEF TypeOK
      <4>4. ASSUME slot' = [slot EXCEPT ![n] = [slot[n] EXCEPT !.sup = None]],
                   retries' = retries
            PROVE  slot' \in [Names -> Slots] /\ retries' \in [Names -> [RetryIds -> Retries]]
        BY <4>2, <4>4 DEF TypeOK
      <4>5. slot' \in [Names -> Slots] /\ retries' \in [Names -> [RetryIds -> Retries]]
        BY <3>1, <4>3, <4>4, Zenon DEF ServingFailed
      <4> QED BY <4>1, <4>5
    <3>2. CASE UNCHANGED <<slot, retries, failed, series>>
      BY <3>2 DEF TypeOK
    <3> QED BY <1>2, <3>1, <3>2 DEF AppDies
  <2> QED BY <1>2, <2>3, <2>4, <2>5 DEF AppDies, TypeOK
<1>3. CASE SupCloses(n, u)
  <2>1. sups' = [sups EXCEPT ![n] = [sups[n] EXCEPT ![u] = FreeSup]]
    BY <1>3, Zenon DEF SupCloses
  <2>2. [sups[n] EXCEPT ![u] = FreeSup] \in [SupIds -> Sups]
    BY <1>1 DEF FreeSup, Sups, SupStates
  <2>3. sups' \in [Names -> [SupIds -> Sups]]
    BY <2>1, <2>2, SupsType
  <2> QED BY <1>3, <2>3 DEF SupCloses, TypeOK
<1> QED BY <1>2, <1>3

\* Type correctness of shutdown().
LEMMA ShutdownType ==
  ASSUME TypeOK, StopReload \/ ShutdownStep
  PROVE  TypeOK'
<1>1. CASE StopReload
  <2>1. sups' \in [Names -> [SupIds -> Sups]] /\ stopping' \in SUBSET (Names \X SupIds)
    <3>1. CASE driver.st = "start"
      <4>1. /\ sups' = [sups EXCEPT ![driver.cur] = Retire(sups[driver.cur], driver.sup)]
            /\ stopping' = {p \in Names \X SupIds : p = <<driver.cur, driver.sup>>}
        BY <1>1, <3>1, Zenon DEF StopReload
      <4>2. ASSUME driver.cur \in Names
            PROVE  Retire(sups[driver.cur], driver.sup) \in [SupIds -> Sups]
        <5>1. sups[driver.cur] \in [SupIds -> Sups] /\ driver.sup \in SupIds \cup {None}
          BY <4>2 DEF TypeOK, Drivers
        <5> QED BY <5>1, RetireType
      <4>3. sups' \in [Names -> [SupIds -> Sups]]
        BY <4>1, <4>2 DEF TypeOK
      <4> QED BY <4>1, <4>3
    <3>2. CASE driver.st # "start"
      BY <1>1, <3>2 DEF StopReload, TypeOK
    <3> QED BY <3>1, <3>2
  <2> QED BY <1>1, <2>1, IdleDriverType DEF StopReload, TypeOK, Phases
<1>2. CASE StopRetries
  <2>1. sups' \in [Names -> [SupIds -> Sups]]
    BY <1>2, CancelType DEF StopRetries
  <2>2. ASSUME NEW n \in Names, NEW k \in RetryIds
        PROVE  /\ [FreeRetry EXCEPT !.st = "dead"] \in Retries
               /\ retries[n][k] \in Retries
    BY DEF FreeRetry, Retries, TypeOK
  <2>3. retries' \in [Names -> [RetryIds -> Retries]]
    BY <1>2, <2>2 DEF StopRetries
  <2>4. stopping' \in SUBSET (Names \X SupIds)
    BY <1>2 DEF StopRetries
  <2> QED BY <1>2, <2>1, <2>3, <2>4 DEF StopRetries, TypeOK, Phases
<1>3. CASE StopApps
  <2>1. ASSUME NEW n \in Names PROVE Retire(sups[n], slot[n].sup) \in [SupIds -> Sups]
    <3>1. sups[n] \in [SupIds -> Sups] /\ slot[n].sup \in SupIds \cup {None}
      BY DEF TypeOK, Slots
    <3> QED BY <3>1, RetireType
  <2>2. sups' \in [Names -> [SupIds -> Sups]]
    BY <1>3, <2>1 DEF StopApps
  <2>3. stopping' \in SUBSET (Names \X SupIds)
    BY <1>3 DEF StopApps
  <2> QED BY <1>3, <2>2, <2>3 DEF StopApps, TypeOK, Phases
<1>4. CASE Down
  BY <1>4 DEF Down, TypeOK, Phases
<1> QED BY <1>1, <1>2, <1>3, <1>4 DEF ShutdownStep

\* Type correctness of GatewayRuntime: boot, reload, retries, failing apps and
\* shutdown keep the table, the tasks and the health sets well formed.
THEOREM TypeCorrect == Spec => []TypeOK
<1>1. Init => TypeOK
  <2> SUFFICES ASSUME Init PROVE TypeOK
    OBVIOUS
  <2>1. PICK reg \in Registries, res \in [Names -> Outcomes] : Booted(reg, res)
    BY DEF Init
  <2>2. /\ registry \in Registries
        /\ failed \in SUBSET Names
        /\ configFaults \in SUBSET Names
    BY <2>1 DEF Booted
  <2>3. slot \in [Names -> Slots]
    <3>1. ASSUME NEW n \in Names
          PROVE  [NoSlot EXCEPT !.in = reg[n] # NoEntry, !.fault = n \in configFaults] \in Slots
      <4>1. NoSlot \in Slots
        BY DEF NoSlot, Slots
      <4>2. \A s \in Slots, b, c \in BOOLEAN : [s EXCEPT !.in = b, !.fault = c] \in Slots
        BY DEF Slots
      <4> DEFINE b == reg[n] # NoEntry
                 c == n \in configFaults
      <4>3. b \in BOOLEAN /\ c \in BOOLEAN
        OBVIOUS
      <4> HIDE DEF b, c
      <4>4. [NoSlot EXCEPT !.in = b, !.fault = c] \in Slots
        BY <4>1, <4>2, <4>3
      <4> QED BY <4>4 DEF b, c
    <3> QED BY <2>1, <3>1 DEF Booted
  <2>4. driver \in Drivers
    BY <2>1, IdleDriverType DEF Booted, Drivers
  <2>5. FreeSup \in Sups /\ FreeRetry \in Retries
    BY DEF FreeSup, Sups, SupStates, FreeRetry, Retries
  <2>6. 0 \in 0 .. MaxReloads /\ 0 \in 0 .. MaxDeaths
    BY BoundsAssumption
  <2> QED BY <2>2, <2>3, <2>4, <2>5, <2>6 DEF Init, TypeOK, Phases
<1>2. TypeOK /\ [Next]_vars => TypeOK'
  <2> SUFFICES ASSUME TypeOK, [Next]_vars PROVE TypeOK'
    OBVIOUS
  <2>1. CASE \E n \in Names : BootInstall(n) \/ BootStartFails(n) \/ DriverStartOk(n)
    BY <2>1, BootType
  <2>2. CASE BootDone
    BY <2>2, BootDoneType
  <2>3. ASSUME NEW new \in Registries, ReloadStart(new)
        PROVE  TypeOK'
    <3>1. [n \in Names |-> "ok"] \in [Names -> Outcomes]
      BY DEF Outcomes
    <3> QED BY <2>3, <3>1, ReloadAttachType
  <2>4. ASSUME NEW res \in [Names -> Outcomes], ReloadAttached(res)
        PROVE  TypeOK'
    <3>1. registry \in Registries
      BY DEF TypeOK
    <3> QED BY <2>4, <3>1, ReloadAttachType
  <2>5. CASE \E n \in Names :
               ReloadInstall(n) \/ ReloadTargetFailed(n) \/ ReloadStartFails(n)
    BY <2>5, ReloadType
  <2>6. CASE ReloadDone
    BY <2>6, ReloadDoneType
  <2>7. CASE \E n \in Names, k \in RetryIds :
               RetryWakes(n, k) \/ RetryAttachOk(n, k) \/ RetryStartOk(n, k) \/ RetryFails(n, k)
    BY <2>7, RetryType
  <2>8. CASE \E n \in Names, u \in SupIds : AppDies(n, u) \/ SupCloses(n, u)
    BY <2>8, AppType
  <2>9. CASE StopReload \/ ShutdownStep
    BY <2>9, ShutdownType
  <2>10. CASE UNCHANGED vars
    BY <2>10 DEF TypeOK
  <2> QED BY <2>1, <2>2, <2>3, <2>4, <2>5, <2>6, <2>7, <2>8, <2>9, <2>10
          DEF Next, DriverStep
<1> QED BY <1>1, <1>2, PTL DEF Spec

-----------------------------------------------------------------------------
(* The session series                                                      *)

\* _attach_failed leaves the app of the slot alone.
LEMMA AttachFailedKeepsApp ==
  ASSUME TypeOK, NEW n \in Names, NEW s \in Slots, s.sup = slot[n].sup,
         NEW rs, NEW fault \in BOOLEAN, AttachFailed(n, s, rs, fault), NEW q \in Names
  PROVE  slot'[q].sup = slot[q].sup
<1> DEFINE marked == [s EXCEPT !.fault = IF s.sup = None THEN fault ELSE @]
<1>1. marked \in Slots /\ marked.sup = slot[n].sup
  BY DEF Slots
<1>2. \A k : [marked EXCEPT !.retry = k].sup = slot[n].sup
  <2> HIDE DEF marked
  <2> QED BY <1>1 DEF Slots
<1>3. \/ slot' = [slot EXCEPT ![n] = marked]
      \/ \E k \in Lowest(FreeRetries(rs)) : slot' = [slot EXCEPT ![n] = [marked EXCEPT !.retry = k]]
  BY Zenon DEF AttachFailed
<1> HIDE DEF marked
<1> QED BY <1>1, <1>2, <1>3 DEF TypeOK

\* active_sessions{surface=n} is always the one of the app in the slot of n:
\* whatever installs, dies, is removed or cancelled, and in whatever order.
THEOREM SeriesCorrect == Spec => []SeriesFollowSlot
<1>1. Init => SeriesFollowSlot
  <2> SUFFICES ASSUME Init, NEW n \in Names PROVE series[n] = slot[n].sup
    BY DEF SeriesFollowSlot
  <2>1. PICK reg \in Registries, res \in [Names -> Outcomes] : Booted(reg, res)
    BY DEF Init
  <2>2. slot[n] = [NoSlot EXCEPT !.in = reg[n] # NoEntry, !.fault = n \in configFaults]
    BY <2>1 DEF Booted
  <2>3. \A b, c : [NoSlot EXCEPT !.in = b, !.fault = c].sup = None
    BY DEF NoSlot
  <2>4. slot[n].sup = None
    <3> DEFINE b == reg[n] # NoEntry
               c == n \in configFaults
    <3>1. slot[n] = [NoSlot EXCEPT !.in = b, !.fault = c]
      BY <2>2
    <3> HIDE DEF b, c
    <3> QED BY <2>3, <3>1
  <2> QED BY <2>4 DEF Init
<1>2. TypeOK /\ SeriesFollowSlot /\ [Next]_vars => SeriesFollowSlot'
  <2> SUFFICES ASSUME TypeOK, SeriesFollowSlot, [Next]_vars, NEW q \in Names
               PROVE  series'[q] = slot'[q].sup
    BY DEF SeriesFollowSlot
  <2>0. /\ series[q] = slot[q].sup
        /\ \A n \in Names : slot[n] \in Slots
    BY DEF SeriesFollowSlot, TypeOK
  <2>1. ASSUME NEW n \in Names, NEW u \in SupIds \cup {None}, Installed(n, u)
        PROVE  series'[q] = slot'[q].sup
    <3>1. [slot[n] EXCEPT !.sup = u, !.fault = FALSE].sup = u
      BY <2>0 DEF Slots
    <3> QED BY <2>0, <2>1, <3>1 DEF Installed, TypeOK
  <2>2. ASSUME NEW n \in Names, BootInstall(n) \/ BootStartFails(n)
        PROVE  series'[q] = slot'[q].sup
    BY <2>0, <2>2 DEF BootInstall, BootStartFails
  <2>3. ASSUME NEW n \in Names, DriverStartOk(n)
        PROVE  series'[q] = slot'[q].sup
    <3>1. driver.sup \in SupIds \cup {None}
      BY DEF TypeOK, Drivers
    <3> QED BY <2>1, <2>3, <3>1 DEF DriverStartOk
  <2>4. CASE BootDone
    <3>1. PICK ks \in [Names -> RetryIds] :
            slot' = [n \in Names |->
              IF n \in failed \ configFaults THEN [slot[n] EXCEPT !.retry = ks[n]] ELSE slot[n]]
      BY <2>4, Zenon DEF BootDone
    <3>2. [slot[q] EXCEPT !.retry = ks[q]].sup = slot[q].sup
      BY <2>0 DEF Slots
    <3> QED BY <2>0, <2>4, <3>1, <3>2 DEF BootDone
  <2>5. ASSUME NEW new \in Registries, ReloadStart(new)
        PROVE  series'[q] = slot'[q].sup
    BY <2>0, <2>5 DEF ReloadStart
  <2>6. ASSUME NEW res \in [Names -> Outcomes], ReloadAttached(res)
        PROVE  series'[q] = slot'[q].sup
    BY <2>0, <2>6 DEF ReloadAttached
  <2>7. \A n \in Names : TargetSlot(n) \in Slots /\ TargetSlot(n).sup = slot[n].sup
    BY <2>0 DEF TargetSlot, Slots
  <2>8. ASSUME NEW n \in Names, ReloadInstall(n)
        PROVE  series'[q] = slot'[q].sup
    BY <2>0, <2>7, <2>8 DEF ReloadInstall, TypeOK
  <2>9. ASSUME NEW n \in Names, ReloadTargetFailed(n)
        PROVE  series'[q] = slot'[q].sup
    <3> DEFINE fault == driver.res[n] = "fault"
    <3>1. AttachFailed(n, TargetSlot(n), CancelledRetries(n), fault) /\ fault \in BOOLEAN
      BY <2>9 DEF ReloadTargetFailed
    <3> HIDE DEF fault
    <3> QED BY <2>0, <2>7, <2>9, <3>1, AttachFailedKeepsApp DEF ReloadTargetFailed
  <2>10. ASSUME NEW n \in Names, ReloadStartFails(n)
         PROVE  series'[q] = slot'[q].sup
    <3>1. PICK fault \in BOOLEAN : AttachFailed(n, slot[n], retries[n], fault)
      BY <2>10 DEF ReloadStartFails
    <3> QED BY <2>0, <2>10, <3>1, AttachFailedKeepsApp DEF ReloadStartFails
  <2>11. CASE ReloadDone
    <3>1. /\ slot' = [n \in Names |-> IF n \in Removed(driver.new) THEN NoSlot ELSE slot[n]]
          /\ series' = [n \in Names |-> IF n \in Removed(driver.new) THEN None ELSE series[n]]
      BY <2>11, Zenon DEF ReloadDone
    <3> QED BY <2>0, <3>1 DEF NoSlot
  <2>12. ASSUME NEW n \in Names, NEW k \in RetryIds, RetryStartOk(n, k)
         PROVE  series'[q] = slot'[q].sup
    <3> DEFINE u == retries[n][k].sup
    <3>1. CASE retries[n][k].slot = "table"
      <4>1. /\ slot' = [slot EXCEPT ![n] =
                          [RetryDone(n, k, slot[n]) EXCEPT !.sup = u, !.fault = FALSE]]
            /\ series' = [series EXCEPT ![n] = u]
        BY <2>12, <3>1, Zenon DEF RetryStartOk
      <4>2. RetryDone(n, k, slot[n]) \in Slots
        BY <2>0 DEF RetryDone, Slots
      <4>3. [RetryDone(n, k, slot[n]) EXCEPT !.sup = u, !.fault = FALSE].sup = u
        BY <4>2 DEF Slots
      <4> HIDE DEF u
      <4> QED BY <2>0, <4>1, <4>3 DEF TypeOK
    <3>2. CASE retries[n][k].slot # "table"
      BY <2>0, <2>12, <3>2 DEF RetryStartOk
    <3> QED BY <3>1, <3>2
  <2>13. ASSUME NEW n \in Names, NEW k \in RetryIds,
                \/ RetryWakes(n, k) \/ RetryAttachOk(n, k)
                \/ RetryAttachTransient(n, k) \/ RetryStartFails(n, k)
         PROVE  series'[q] = slot'[q].sup
    BY <2>0, <2>13 DEF RetryWakes, RetryAttachOk, RetryAttachTransient, RetryStartFails
  <2>14. ASSUME NEW n \in Names, NEW k \in RetryIds, RetryAttachFault(n, k)
         PROVE  series'[q] = slot'[q].sup
    <3> DEFINE s == [RetryDone(n, k, slot[n]) EXCEPT !.fault = slot[n].fault \/ slot[n].sup = None]
    <3>1. s.sup = slot[n].sup
      BY <2>0 DEF RetryDone, Slots
    <3>2. slot' = [slot EXCEPT ![n] = s] \/ slot' = slot
      BY <2>14 DEF RetryAttachFault
    <3>3. series' = series
      BY <2>14 DEF RetryAttachFault
    <3> HIDE DEF s
    <3> QED BY <2>0, <3>1, <3>2, <3>3 DEF TypeOK
  <2>15. ASSUME NEW n \in Names, NEW u \in SupIds, AppDies(n, u)
         PROVE  series'[q] = slot'[q].sup
    <3>1. CASE ServingFailed(n)
      <4>1. [slot[n] EXCEPT !.sup = None].sup = None
        BY <2>0 DEF Slots
      <4>2. \A k : [slot[n] EXCEPT !.sup = None, !.retry = k].sup = None
        BY <2>0 DEF Slots
      <4>3. \/ slot' = [slot EXCEPT ![n] = [slot[n] EXCEPT !.sup = None]]
            \/ \E k : slot' = [slot EXCEPT ![n] = [slot[n] EXCEPT !.sup = None, !.retry = k]]
        BY <3>1, Zenon DEF ServingFailed
      <4>4. series' = [series EXCEPT ![n] = None]
        BY <3>1 DEF ServingFailed
      <4> QED BY <2>0, <4>1, <4>2, <4>3, <4>4 DEF TypeOK
    <3>2. CASE UNCHANGED <<slot, retries, failed, series>>
      BY <2>0, <3>2
    <3> QED BY <2>15, <3>1, <3>2 DEF AppDies
  <2>16. ASSUME NEW n \in Names, NEW u \in SupIds, SupCloses(n, u)
         PROVE  series'[q] = slot'[q].sup
    BY <2>0, <2>16 DEF SupCloses
  <2>17. CASE StopReload \/ ShutdownStep
    BY <2>0, <2>17 DEF StopReload, ShutdownStep, StopRetries, StopApps, Down
  <2>18. CASE UNCHANGED vars
    BY <2>0, <2>18
  <2> QED BY <2>2, <2>3, <2>4, <2>5, <2>6, <2>8, <2>9, <2>10, <2>11, <2>12, <2>13, <2>14,
             <2>15, <2>16, <2>17, <2>18 DEF Next, DriverStep, RetryFails
<1> QED BY <1>1, <1>2, TypeCorrect, PTL DEF Spec

-----------------------------------------------------------------------------
(* Who owns an app                                                         *)

\* What is known of one surface: its slot s, its supervisors ss, its retry tasks
\* rs, and the supervisor that boot or reload is starting for it, if any.
Kept(s, ss, rs, held) ==
  /\ \A u \in SupIds : ss[u].st = "serving" <=> s.in /\ s.sup = u
  /\ \A u \in SupIds : ss[u].st = "starting" =>
       u = held \/ \E k \in RetryIds : rs[k].st = "start" /\ rs[k].sup = u
  /\ ~s.in => s.sup = None
  /\ \A k \in RetryIds :
       /\ rs[k].st # "start" => rs[k].sup = None
       /\ rs[k].st = "start" =>
            rs[k].sup \in SupIds /\ ss[rs[k].sup].st = "starting" /\ rs[k].sup # held
       /\ Live(rs[k]) /\ rs[k].slot = "table" => s.in
  /\ \A k, l \in RetryIds :
       rs[k].st = "start" /\ rs[l].st = "start" /\ rs[k].sup = rs[l].sup => k = l
  /\ held # None => held \in SupIds /\ ss[held].st = "starting" /\ s.in

\* The supervisor that boot or reload awaits, if it is one of surface n.
Held(n) == IF driver.st = "start" /\ driver.cur = n THEN driver.sup ELSE None

\* Shutdown has not yet come to the apps.
Early == phase \in {"boot", "up", "stopReload", "stopRetries"}

\* A surface that boot has still to install has nothing of its own yet.
Untouched ==
  phase = "boot" =>
    /\ \A n \in driver.todo : slot[n].in /\ slot[n].sup = None /\ slot[n].retry = None
    /\ \A n \in driver.todo, k \in RetryIds : ~Live(retries[n][k])
    /\ \A n \in failed : slot[n].in
    /\ \A n \in Names, k \in RetryIds : Live(retries[n][k]) => retries[n][k].slot = "table"

\* The inductive invariant: each surface is as Kept says, until the apps are closed.
Owners ==
  Early =>
    /\ \A n \in Names : Kept(slot[n], sups[n], retries[n], Held(n))
    /\ driver.st = "start" => driver.cur \in Names \ driver.todo /\ driver.sup # None
    /\ Untouched

\* Telling a supervisor to stop changes no other one.
LEMMA RetireAt ==
  ASSUME NEW ss \in [SupIds -> Sups], NEW u \in SupIds \cup {None}, NEW v \in SupIds
  PROVE  Retire(ss, u)[v].st = IF v = u THEN "retiring" ELSE ss[v].st
BY DEF Retire, Sups, None, SupIds

\* No supervisor is called None.
LEMMA NoneIsNoSup == None \notin SupIds
BY DEF None, SupIds

\* The entry, the retry and the fault of a slot do not matter, nor does a slot
\* that is put into the table.
LEMMA KeptSlot ==
  ASSUME NEW s, NEW ss, NEW rs, NEW h, Kept(s, ss, rs, h),
         NEW t, t.sup = s.sup, t.in \/ (t.in <=> s.in)
  PROVE  Kept(t, ss, rs, h)
BY NoneIsNoSup DEF Kept

\* A supervisor is started by boot or reload.
LEMMA KeptBegins ==
  ASSUME NEW s, NEW ss \in [SupIds -> Sups], NEW rs, Kept(s, ss, rs, None), s.in,
         NEW u \in SupIds, ss[u].st = "free",
         NEW new \in Sups, new.st = "starting"
  PROVE  Kept(s, [ss EXCEPT ![u] = new], rs, u)
BY NoneIsNoSup DEF Kept

\* It fails, or is told to stop.
LEMMA KeptGivesUp ==
  ASSUME NEW s, NEW ss, NEW rs, NEW h \in SupIds, Kept(s, ss, rs, h),
         NEW ss2, ss2[h].st \in {"free", "retiring"},
         \A v \in SupIds : v # h => ss2[v].st = ss[v].st
  PROVE  Kept(s, ss2, rs, None)
BY NoneIsNoSup DEF Kept

\* It serves, and the app it replaces is told to stop.
LEMMA KeptServes ==
  ASSUME NEW s, NEW ss \in [SupIds -> Sups], NEW rs, NEW h \in SupIds, Kept(s, ss, rs, h),
         s.sup \in SupIds \cup {None}, NEW t, t.in, t.sup = h
  PROVE  Kept(t, Retire([ss EXCEPT ![h].st = "serving"], s.sup), rs, None)
<1> DEFINE ss2 == [ss EXCEPT ![h].st = "serving"]
           ss3 == Retire(ss2, s.sup)
<1>1. /\ ss2 \in [SupIds -> Sups]
      /\ \A v \in SupIds : ss2[v].st = IF v = h THEN "serving" ELSE ss[v].st
  BY DEF Sups, SupStates
<1> HIDE DEF ss2
<1>2. \A v \in SupIds : ss3[v].st = IF v = s.sup THEN "retiring" ELSE ss2[v].st
  BY <1>1, RetireAt
<1> HIDE DEF ss3
<1>3. s.sup # h
  <2>1. h # None
    BY NoneIsNoSup
  <2>2. ss[h].st = "starting" /\ s.in
    BY <2>1 DEF Kept
  <2> QED  BY <2>2 DEF Kept
<1>4. \A v \in SupIds : ss3[v].st = "serving" <=> t.in /\ t.sup = v
  BY <1>1, <1>2, <1>3, NoneIsNoSup DEF Kept
<1>5. \A v \in SupIds : (v # h /\ ss[v].st = "starting") <=> ss3[v].st = "starting"
  BY <1>1, <1>2, <1>3 DEF Kept
<1>6. Kept(t, ss3, rs, None)
  BY <1>4, <1>5, NoneIsNoSup DEF Kept
<1> QED  BY <1>6 DEF ss2, ss3

\* A retry is cancelled, with the supervisor that it was starting.
LEMMA KeptCancels ==
  ASSUME NEW s, NEW ss \in [SupIds -> Sups], NEW rs \in [RetryIds -> Retries], NEW h,
         Kept(s, ss, rs, h), NEW k \in RetryIds,
         NEW rs2, rs2[k].st \in {"free", "dead"}, rs2[k].sup = None,
         \A l \in RetryIds : l # k => rs2[l] = rs[l]
  PROVE  /\ Kept(s, Retire(ss, rs[k].sup), rs2, h)
         /\ \A v \in SupIds : ss[v].st = "free" => Retire(ss, rs[k].sup)[v].st = "free"
<1> DEFINE ss2 == Retire(ss, rs[k].sup)
<1>1. rs[k].sup \in SupIds \cup {None}
  BY DEF Retries
<1>2. \A v \in SupIds : ss2[v].st = IF v = rs[k].sup THEN "retiring" ELSE ss[v].st
  BY <1>1, RetireAt
<1> HIDE DEF ss2
<1>3. \A v \in SupIds : v = rs[k].sup => rs[k].st = "start" /\ ss[v].st = "starting"
  BY NoneIsNoSup DEF Kept
<1>4. \A v \in SupIds : ss2[v].st = "serving" <=> ss[v].st = "serving"
  BY <1>2, <1>3
<1>5. \A v \in SupIds : ss2[v].st = "starting" => ss[v].st = "starting" /\ v # rs[k].sup
  BY <1>2
<1>6. \A l \in RetryIds : l # k /\ rs[l].st = "start" =>
        rs[l].sup \in SupIds /\ ss2[rs[l].sup].st = "starting" /\ rs[l].sup # h
  <2> SUFFICES ASSUME NEW l \in RetryIds, l # k, rs[l].st = "start"
               PROVE  rs[l].sup \in SupIds /\ ss2[rs[l].sup].st = "starting" /\ rs[l].sup # h
    OBVIOUS
  <2>1. rs[l].sup \in SupIds /\ ss[rs[l].sup].st = "starting" /\ rs[l].sup # h
    BY DEF Kept
  <2>2. rs[l].sup # rs[k].sup
    BY <1>3, <2>1 DEF Kept
  <2> QED  BY <1>2, <2>1, <2>2
<1>7. h # None => h \in SupIds /\ ss2[h].st = "starting" /\ s.in
  BY <1>2, <1>3 DEF Kept
<1>8. \A v \in SupIds : ss2[v].st = "starting" =>
        v = h \/ \E l \in RetryIds : rs2[l].st = "start" /\ rs2[l].sup = v
  <2> SUFFICES ASSUME NEW v \in SupIds, ss2[v].st = "starting", v # h
               PROVE  \E l \in RetryIds : rs2[l].st = "start" /\ rs2[l].sup = v
    OBVIOUS
  <2>1. PICK l \in RetryIds : rs[l].st = "start" /\ rs[l].sup = v
    BY <1>5 DEF Kept
  <2>2. l # k
    BY <1>5, <2>1
  <2> QED  BY <2>1, <2>2
<1>9. \A l \in RetryIds :
        /\ rs2[l].st # "start" => rs2[l].sup = None
        /\ rs2[l].st = "start" =>
             rs2[l].sup \in SupIds /\ ss2[rs2[l].sup].st = "starting" /\ rs2[l].sup # h
        /\ Live(rs2[l]) /\ rs2[l].slot = "table" => s.in
  BY <1>6 DEF Kept, Live
<1>10. \A l, m \in RetryIds :
         rs2[l].st = "start" /\ rs2[m].st = "start" /\ rs2[l].sup = rs2[m].sup => l = m
  BY DEF Kept
<1>11. Kept(s, ss2, rs2, h)
  BY <1>4, <1>7, <1>8, <1>9, <1>10 DEF Kept
<1>12. \A v \in SupIds : ss[v].st = "free" => ss2[v].st = "free"
  BY <1>2, <1>3
<1> QED  BY <1>11, <1>12 DEF ss2

\* A retry that has no supervisor sleeps, attaches, ends or is new.
LEMMA KeptSleeps ==
  ASSUME NEW s, NEW ss, NEW rs \in [RetryIds -> Retries], NEW h, Kept(s, ss, rs, h),
         NEW k \in RetryIds, rs[k].st # "start",
         NEW r, r.st # "start", r.sup = None, Live(r) /\ r.slot = "table" => s.in
  PROVE  Kept(s, ss, [rs EXCEPT ![k] = r], h)
BY DEF Kept

\* A retry starts a supervisor.
LEMMA KeptRetryBegins ==
  ASSUME NEW s, NEW ss \in [SupIds -> Sups], NEW rs \in [RetryIds -> Retries], NEW h,
         Kept(s, ss, rs, h), NEW k \in RetryIds, rs[k].st = "attach",
         NEW u \in SupIds, ss[u].st = "free", NEW new \in Sups, new.st = "starting",
         NEW r, r.st = "start", r.sup = u, r.slot = rs[k].slot
  PROVE  Kept(s, [ss EXCEPT ![u] = new], [rs EXCEPT ![k] = r], h)
<1> DEFINE ss2 == [ss EXCEPT ![u] = new]
           rs2 == [rs EXCEPT ![k] = r]
<1>1. /\ \A v \in SupIds : ss2[v].st = IF v = u THEN "starting" ELSE ss[v].st
      /\ \A l \in RetryIds : rs2[l] = IF l = k THEN r ELSE rs[l]
  OBVIOUS
<1> HIDE DEF ss2, rs2
<1>2. \A l \in RetryIds : rs[l].st = "start" => rs[l].sup # u
  BY DEF Kept
<1>3. h # u
  BY NoneIsNoSup DEF Kept
<1>4. Live(rs[k])
  BY DEF Live
<1>5. \A l \in RetryIds :
        /\ rs2[l].st # "start" => rs2[l].sup = None
        /\ rs2[l].st = "start" =>
             rs2[l].sup \in SupIds /\ ss2[rs2[l].sup].st = "starting" /\ rs2[l].sup # h
        /\ Live(rs2[l]) /\ rs2[l].slot = "table" => s.in
  BY <1>1, <1>2, <1>3, <1>4 DEF Kept
<1>6. \A v \in SupIds : ss2[v].st = "starting" =>
        v = h \/ \E l \in RetryIds : rs2[l].st = "start" /\ rs2[l].sup = v
  <2> SUFFICES ASSUME NEW v \in SupIds, ss2[v].st = "starting", v # h, v # u
               PROVE  \E l \in RetryIds : rs2[l].st = "start" /\ rs2[l].sup = v
    BY <1>1
  <2>1. PICK l \in RetryIds : rs[l].st = "start" /\ rs[l].sup = v
    BY <1>1 DEF Kept
  <2>2. l # k
    BY <2>1
  <2> QED  BY <1>1, <2>1, <2>2
<1>7. \A v \in SupIds : ss2[v].st = "serving" <=> ss[v].st = "serving"
  BY <1>1
<1>8. \A l, m \in RetryIds :
         rs2[l].st = "start" /\ rs2[m].st = "start" /\ rs2[l].sup = rs2[m].sup => l = m
  BY <1>1, <1>2 DEF Kept
<1>9. h # None => h \in SupIds /\ ss2[h].st = "starting" /\ s.in
  BY <1>1, <1>3 DEF Kept
<1>10. Kept(s, ss2, rs2, h)
  BY <1>5, <1>6, <1>7, <1>8, <1>9 DEF Kept
<1> QED  BY <1>10 DEF ss2, rs2

\* The supervisor of a retry fails to start.
LEMMA KeptRetryFails ==
  ASSUME NEW s, NEW ss \in [SupIds -> Sups], NEW rs \in [RetryIds -> Retries], NEW h,
         Kept(s, ss, rs, h), NEW k \in RetryIds, rs[k].st = "start",
         NEW r, r.st = "sleep", r.sup = None, r.slot = rs[k].slot
  PROVE  Kept(s, [ss EXCEPT ![rs[k].sup] = FreeSup], [rs EXCEPT ![k] = r], h)
<1> DEFINE u == rs[k].sup
           ss2 == [ss EXCEPT ![u] = FreeSup]
           rs2 == [rs EXCEPT ![k] = r]
<1>1. u \in SupIds /\ ss[u].st = "starting" /\ u # h /\ Live(rs[k])
  BY DEF Kept, Live
<1>2. \A l \in RetryIds : l # k /\ rs[l].st = "start" => rs[l].sup # u
  BY DEF Kept
<1> HIDE DEF u
<1>3. /\ \A v \in SupIds : ss2[v].st = IF v = u THEN "free" ELSE ss[v].st
      /\ \A l \in RetryIds : rs2[l] = IF l = k THEN r ELSE rs[l]
  BY <1>1 DEF FreeSup
<1> HIDE DEF ss2, rs2
<1>4. \A l \in RetryIds :
        /\ rs2[l].st # "start" => rs2[l].sup = None
        /\ rs2[l].st = "start" =>
             rs2[l].sup \in SupIds /\ ss2[rs2[l].sup].st = "starting" /\ rs2[l].sup # h
        /\ Live(rs2[l]) /\ rs2[l].slot = "table" => s.in
  BY <1>1, <1>2, <1>3 DEF Kept
<1>5. \A v \in SupIds : ss2[v].st = "starting" =>
        v = h \/ \E l \in RetryIds : rs2[l].st = "start" /\ rs2[l].sup = v
  <2> SUFFICES ASSUME NEW v \in SupIds, ss2[v].st = "starting", v # h
               PROVE  \E l \in RetryIds : rs2[l].st = "start" /\ rs2[l].sup = v
    OBVIOUS
  <2>1. v # u /\ ss[v].st = "starting"
    BY <1>3
  <2>2. PICK l \in RetryIds : rs[l].st = "start" /\ rs[l].sup = v
    BY <2>1 DEF Kept
  <2>3. l # k
    BY <2>1, <2>2 DEF u
  <2> QED  BY <1>3, <2>2, <2>3
<1>6. \A v \in SupIds : ss2[v].st = "serving" <=> ss[v].st = "serving"
  BY <1>1, <1>3
<1>7. \A l, m \in RetryIds :
         rs2[l].st = "start" /\ rs2[m].st = "start" /\ rs2[l].sup = rs2[m].sup => l = m
  BY <1>3 DEF Kept
<1>8. h # None => h \in SupIds /\ ss2[h].st = "starting" /\ s.in
  BY <1>1, <1>3 DEF Kept
<1>9. Kept(s, ss2, rs2, h)
  BY <1>4, <1>5, <1>6, <1>7, <1>8 DEF Kept
<1> QED  BY <1>9 DEF ss2, rs2, u

\* The supervisor of a retry serves, and the app it replaces is told to stop.
LEMMA KeptRetryServes ==
  ASSUME NEW s, NEW ss \in [SupIds -> Sups], NEW rs \in [RetryIds -> Retries], NEW h,
         Kept(s, ss, rs, h), s.sup \in SupIds \cup {None},
         NEW k \in RetryIds, rs[k].st = "start", rs[k].slot = "table",
         NEW t, t.in, t.sup = rs[k].sup
  PROVE  Kept(t, Retire([ss EXCEPT ![rs[k].sup].st = "serving"], s.sup),
              [rs EXCEPT ![k] = FreeRetry], h)
<1> DEFINE u == rs[k].sup
           ss2 == [ss EXCEPT ![u].st = "serving"]
           ss3 == Retire(ss2, s.sup)
           rs2 == [rs EXCEPT ![k] = FreeRetry]
<1>1. u \in SupIds /\ ss[u].st = "starting" /\ u # h /\ s.in
  BY DEF Kept, Live
<1>2. \A l \in RetryIds : l # k /\ rs[l].st = "start" => rs[l].sup # u
  BY DEF Kept
<1>3. t.sup = u
  OBVIOUS
<1> HIDE DEF u
<1>4. /\ ss2 \in [SupIds -> Sups]
      /\ \A v \in SupIds : ss2[v].st = IF v = u THEN "serving" ELSE ss[v].st
  BY <1>1 DEF Sups, SupStates
<1>5. /\ rs2[k].st = "free" /\ rs2[k].sup = None
      /\ \A l \in RetryIds : l # k => rs2[l] = rs[l]
  BY DEF FreeRetry
<1> HIDE DEF ss2, rs2
<1>6. \A v \in SupIds : ss3[v].st = IF v = s.sup THEN "retiring" ELSE ss2[v].st
  BY <1>4, RetireAt
<1> HIDE DEF ss3
<1>7. s.sup # u
  BY <1>1 DEF Kept
<1>8. \A v \in SupIds : ss3[v].st = "serving" <=> t.in /\ t.sup = v
  BY <1>1, <1>3, <1>4, <1>6, <1>7 DEF Kept
<1>9. \A v \in SupIds : (v # u /\ ss[v].st = "starting") <=> ss3[v].st = "starting"
  BY <1>1, <1>4, <1>6, <1>7 DEF Kept
<1>10. \A v \in SupIds : ss3[v].st = "starting" =>
         v = h \/ \E l \in RetryIds : rs2[l].st = "start" /\ rs2[l].sup = v
  <2> SUFFICES ASSUME NEW v \in SupIds, ss3[v].st = "starting", v # h
               PROVE  \E l \in RetryIds : rs2[l].st = "start" /\ rs2[l].sup = v
    OBVIOUS
  <2>1. PICK l \in RetryIds : rs[l].st = "start" /\ rs[l].sup = v
    BY <1>9 DEF Kept
  <2>2. l # k
    BY <1>9, <2>1 DEF u
  <2> QED  BY <1>5, <2>1, <2>2
<1>11. \A l \in RetryIds :
         /\ rs2[l].st # "start" => rs2[l].sup = None
         /\ rs2[l].st = "start" =>
              rs2[l].sup \in SupIds /\ ss3[rs2[l].sup].st = "starting" /\ rs2[l].sup # h
         /\ Live(rs2[l]) /\ rs2[l].slot = "table" => t.in
  BY <1>2, <1>5, <1>9 DEF Kept
<1>12. \A l, m \in RetryIds :
         rs2[l].st = "start" /\ rs2[m].st = "start" /\ rs2[l].sup = rs2[m].sup => l = m
  BY <1>5 DEF Kept
<1>13. h # None => h \in SupIds /\ ss3[h].st = "starting" /\ t.in
  BY <1>1, <1>9 DEF Kept
<1>14. Kept(t, ss3, rs2, h)
  BY <1>8, <1>10, <1>11, <1>12, <1>13 DEF Kept
<1> QED  BY <1>14 DEF ss3, ss2, rs2, u

\* An app that serves dies: its slot, which names it, is pending again.
LEMMA KeptDies ==
  ASSUME NEW s, NEW ss \in [SupIds -> Sups], NEW rs, NEW h, Kept(s, ss, rs, h),
         NEW u \in SupIds, ss[u].st = "serving",
         NEW t, t.in, t.sup = None
  PROVE  s.in /\ s.sup = u /\ Kept(t, [ss EXCEPT ![u].st = "dying"], rs, h)
<1> DEFINE ss2 == [ss EXCEPT ![u].st = "dying"]
<1>1. \A v \in SupIds : ss2[v].st = IF v = u THEN "dying" ELSE ss[v].st
  BY DEF Sups
<1> HIDE DEF ss2
<1>2. Kept(t, ss2, rs, h)
  BY <1>1, NoneIsNoSup DEF Kept
<1> QED  BY <1>2 DEF Kept, ss2

\* One that was told to stop or has died is closed.
LEMMA KeptCloses ==
  ASSUME NEW s, NEW ss \in [SupIds -> Sups], NEW rs, NEW h, Kept(s, ss, rs, h),
         NEW u \in SupIds, ss[u].st \in {"retiring", "dying"}
  PROVE  Kept(s, [ss EXCEPT ![u] = FreeSup], rs, h)
<1> DEFINE ss2 == [ss EXCEPT ![u] = FreeSup]
<1>1. \A v \in SupIds : ss2[v].st = IF v = u THEN "free" ELSE ss[v].st
  BY DEF FreeSup
<1> HIDE DEF ss2
<1>2. Kept(s, ss2, rs, h)
  BY <1>1 DEF Kept
<1> QED  BY <1>2 DEF ss2

\* A surface is removed: its app is told to stop, its other retries have a slot
\* that is in no table.
LEMMA KeptRemoved ==
  ASSUME NEW s, NEW ss \in [SupIds -> Sups], NEW rs, Kept(s, ss, rs, None),
         s.sup \in SupIds \cup {None}, NEW rs2,
         \A k \in RetryIds : rs2[k].st = rs[k].st /\ rs2[k].sup = rs[k].sup,
         \A k \in RetryIds : ~(Live(rs2[k]) /\ rs2[k].slot = "table")
  PROVE  Kept(NoSlot, Retire(ss, s.sup), rs2, None)
<1> DEFINE ss2 == Retire(ss, s.sup)
<1>1. \A v \in SupIds : ss2[v].st = IF v = s.sup THEN "retiring" ELSE ss[v].st
  BY RetireAt
<1> HIDE DEF ss2
<1>2. \A v \in SupIds : v = s.sup => ss[v].st = "serving"
  BY NoneIsNoSup DEF Kept
<1>3. NoSlot.in = FALSE /\ NoSlot.sup = None
  BY DEF NoSlot
<1>4. \A v \in SupIds : ss2[v].st = "starting" <=> ss[v].st = "starting"
  BY <1>1, <1>2
<1>5. \A v \in SupIds : ss2[v].st # "serving"
  BY <1>1 DEF Kept
<1>6. Kept(NoSlot, ss2, rs2, None)
  BY <1>3, <1>4, <1>5 DEF Kept
<1> QED  BY <1>6 DEF ss2

\* A step of a retry, of an app or of closing one is about one surface: it keeps
\* the invariant when it keeps it there, and a surface that boot has still to
\* install is not touched.
LEMMA LocalStep ==
  ASSUME TypeOK, Owners, Early, NEW n \in Names, phase' = phase, driver' = driver,
         \A q \in Names \ {n} :
           slot'[q] = slot[q] /\ sups'[q] = sups[q] /\ retries'[q] = retries[q],
         Kept(slot'[n], sups'[n], retries'[n], Held(n)),
         phase = "boot" =>
           /\ n \in driver.todo => slot'[n] = slot[n] /\ retries'[n] = retries[n]
           /\ \A k \in RetryIds : Live(retries'[n][k]) => retries'[n][k].slot = "table"
           /\ failed' \subseteq failed \cup {n}
           /\ n \in failed' => slot'[n].in
  PROVE  Owners'
<1>1. \A q \in Names : Held(q)' = Held(q)
  BY DEF Held
<1>2. \A q \in Names : Kept(slot'[q], sups'[q], retries'[q], Held(q)')
  BY <1>1 DEF Owners
<1>3. driver'.st = "start" => driver'.cur \in Names \ driver'.todo /\ driver'.sup # None
  BY DEF Owners
<1>4. ASSUME phase = "boot"
      PROVE  /\ \A q \in driver.todo :
                  slot'[q].in /\ slot'[q].sup = None /\ slot'[q].retry = None
             /\ \A q \in driver.todo, k \in RetryIds : ~Live(retries'[q][k])
             /\ \A q \in failed' : slot'[q].in
             /\ \A q \in Names, k \in RetryIds :
                  Live(retries'[q][k]) => retries'[q][k].slot = "table"
  <2>1. driver.todo \subseteq Names /\ failed \subseteq Names
    BY DEF TypeOK, Drivers
  <2>2. Untouched
    BY DEF Owners
  <2>3. \A q \in driver.todo : slot'[q] = slot[q] /\ retries'[q] = retries[q]
    BY <1>4, <2>1
  <2>4. \A q \in failed' : slot'[q].in
    <3> SUFFICES ASSUME NEW q \in failed', q # n PROVE slot'[q].in
      BY <1>4
    <3> QED  BY <1>4, <2>1, <2>2 DEF Untouched
  <2>5. ASSUME NEW q \in Names, NEW k \in RetryIds, Live(retries'[q][k])
        PROVE  retries'[q][k].slot = "table"
    <3>1. CASE q = n
      BY <1>4, <2>5, <3>1
    <3>2. CASE q # n
      BY <1>4, <2>2, <2>5, <3>2 DEF Untouched
    <3> QED  BY <3>1, <3>2
  <2> QED  BY <1>4, <2>2, <2>3, <2>4, <2>5 DEF Untouched
<1>5. Untouched'
  BY <1>4 DEF Untouched, Live
<1> QED  BY <1>2, <1>3, <1>5 DEF Owners, Kept, Live

\* What is read of one surface, with its type.
LEMMA OneSurface ==
  ASSUME TypeOK, Owners, Early, NEW n \in Names
  PROVE  /\ slot[n] \in Slots
         /\ slot[n].sup \in SupIds \cup {None}
         /\ slot[n].retry \in RetryIds \cup {None}
         /\ sups[n] \in [SupIds -> Sups]
         /\ retries[n] \in [RetryIds -> Retries]
         /\ Kept(slot[n], sups[n], retries[n], Held(n))
BY DEF TypeOK, Slots, Owners

\* A new retry is a sleeping one.
LEMMA NewRetryIs ==
  ASSUME NEW e
  PROVE  NewRetry(e).st = "sleep" /\ NewRetry(e).sup = None /\ NewRetry(e).slot = "table"
BY DEF NewRetry

\* An ended one is not alive and starts nothing.
LEMMA FreeRetryIs ==
  FreeRetry.st = "free" /\ FreeRetry.sup = None /\ ~Live(FreeRetry)
BY DEF FreeRetry, Live

\* A retry wakes, and its attach succeeds or fails.
LEMMA OwnersRetryWakes ==
  ASSUME TypeOK, Owners, Early, NEW n \in Names, NEW k \in RetryIds,
         RetryWakes(n, k) \/ RetryAttachTransient(n, k)
  PROVE  Owners'
<1> DEFINE s == slot[n]
           ss == sups[n]
           rs == retries[n]
<1>1. PICK x \in {"sleep", "attach"} : retries' = [retries EXCEPT ![n][k].st = x]
  BY DEF RetryWakes, RetryAttachTransient
<1> DEFINE r == [rs[k] EXCEPT !.st = x]
<1>2. rs[k].st \in {"sleep", "attach"} /\ Live(rs[k])
  BY DEF RetryWakes, RetryAttachTransient, Live
<1>3. r.st = x /\ r.sup = rs[k].sup /\ r.slot = rs[k].slot
  BY OneSurface DEF Retries
<1>4. retries' = [retries EXCEPT ![n] = [rs EXCEPT ![k] = r]]
  BY <1>1
<1>5. rs[k].sup = None /\ (rs[k].slot = "table" => s.in)
  BY <1>2, OneSurface DEF Kept
<1> HIDE DEF r
<1>6. Kept(s, ss, [rs EXCEPT ![k] = r], Held(n))
  BY <1>2, <1>3, <1>5, OneSurface, KeptSleeps
<1>7. phase = "boot" =>
        /\ n \notin driver.todo
        /\ s.in
        /\ \A l \in RetryIds :
             Live([rs EXCEPT ![k] = r][l]) => [rs EXCEPT ![k] = r][l].slot = "table"
  BY <1>2, <1>3, <1>5, OneSurface DEF Owners, Untouched
<1>8. /\ slot' = slot /\ sups' = sups /\ phase' = phase /\ driver' = driver
      /\ failed' \subseteq failed \cup {n}
  BY DEF RetryWakes, RetryAttachTransient
<1>9. retries'[n] = [rs EXCEPT ![k] = r] /\ \A q \in Names \ {n} : retries'[q] = retries[q]
  BY <1>4 DEF TypeOK
<1> QED  BY <1>6, <1>7, <1>8, <1>9, LocalStep

\* The attach of a retry succeeds: it starts a supervisor.
LEMMA OwnersRetryAttachOk ==
  ASSUME TypeOK, Owners, Early, NEW n \in Names, NEW k \in RetryIds, RetryAttachOk(n, k)
  PROVE  Owners'
<1> DEFINE s == slot[n]
           ss == sups[n]
           rs == retries[n]
           new == [st |-> "starting", entry |-> rs[k].entry]
<1>1. PICK u \in Lowest(FreeSups(n)) :
        /\ sups' = [sups EXCEPT ![n][u] = new]
        /\ retries' = [retries EXCEPT ![n][k] = [@ EXCEPT !.st = "start", !.sup = u]]
  BY Zenon DEF RetryAttachOk
<1>2. u \in SupIds /\ ss[u].st = "free"
  BY DEF Lowest, FreeSups
<1>3. rs[k].st = "attach" /\ Live(rs[k])
  BY DEF RetryAttachOk, Live
<1> DEFINE r == [rs[k] EXCEPT !.st = "start", !.sup = u]
<1>4. r.st = "start" /\ r.sup = u /\ r.slot = rs[k].slot
  BY OneSurface DEF Retries
<1>5. new \in Sups /\ new.st = "starting"
  BY OneSurface DEF Sups, SupStates, Retries
<1> DEFINE ss2 == [ss EXCEPT ![u] = new]
           rs2 == [rs EXCEPT ![k] = r]
<1>6. /\ retries'[n] = rs2 /\ sups'[n] = ss2
      /\ \A q \in Names \ {n} : retries'[q] = retries[q] /\ sups'[q] = sups[q]
  BY <1>1 DEF TypeOK
<1> HIDE DEF r, new
<1>7. Kept(s, ss2, rs2, Held(n))
  BY <1>2, <1>3, <1>4, <1>5, OneSurface, KeptRetryBegins
<1>8. phase = "boot" =>
        /\ n \notin driver.todo
        /\ s.in
        /\ \A l \in RetryIds : Live(rs2[l]) => rs2[l].slot = "table"
  <2>1. phase = "boot" => rs[k].slot = "table" /\ n \notin driver.todo
    BY <1>3 DEF Owners, Untouched
  <2>2. phase = "boot" => s.in
    BY <1>3, <2>1, OneSurface DEF Kept
  <2> QED  BY <1>3, <1>4, <2>1, <2>2, OneSurface DEF Owners, Untouched
<1>9. slot' = slot /\ phase' = phase /\ driver' = driver /\ failed' = failed
  BY DEF RetryAttachOk
<1> HIDE DEF ss2, rs2
<1> QED  BY <1>6, <1>7, <1>8, <1>9, LocalStep

\* A configuration fault ends the retry.
LEMMA OwnersRetryAttachFault ==
  ASSUME TypeOK, Owners, Early, NEW n \in Names, NEW k \in RetryIds, RetryAttachFault(n, k)
  PROVE  Owners'
<1> DEFINE s == slot[n]
           ss == sups[n]
           rs == retries[n]
           b == s.fault \/ s.sup = None
           t == [RetryDone(n, k, s) EXCEPT !.fault = b]
           rs2 == [rs EXCEPT ![k] = FreeRetry]
<1>1. rs[k].st = "attach" /\ Live(rs[k])
  BY DEF RetryAttachFault, Live
<1>2. retries'[n] = rs2 /\ \A q \in Names \ {n} : retries'[q] = retries[q]
  BY DEF RetryAttachFault, TypeOK
<1>3. /\ sups' = sups /\ phase' = phase /\ driver' = driver
      /\ failed' \subseteq failed \cup {n}
  BY DEF RetryAttachFault
<1>4. slot' = [slot EXCEPT ![n] = t] \/ slot' = slot
  BY DEF RetryAttachFault
<1> HIDE DEF b
<1>5. t.sup = s.sup /\ t.in = s.in
  BY OneSurface DEF RetryDone, Slots
<1> HIDE DEF t
<1>6. slot'[n] \in {s, t} /\ \A q \in Names \ {n} : slot'[q] = slot[q]
  BY <1>4 DEF TypeOK
<1>7. Kept(s, ss, rs2, Held(n))
  BY <1>1, FreeRetryIs, OneSurface, KeptSleeps
<1>8. Kept(slot'[n], ss, rs2, Held(n))
  BY <1>5, <1>6, <1>7, KeptSlot
<1>9. phase = "boot" =>
        /\ n \notin driver.todo
        /\ slot'[n].in
        /\ \A l \in RetryIds : Live(rs2[l]) => rs2[l].slot = "table"
  <2>1. phase = "boot" => rs[k].slot = "table" /\ n \notin driver.todo
    BY <1>1 DEF Owners, Untouched
  <2>2. phase = "boot" => slot'[n].in
    BY <1>1, <1>5, <1>6, <2>1, OneSurface DEF Kept
  <2> QED  BY <2>1, <2>2, FreeRetryIs, OneSurface DEF Owners, Untouched
<1> HIDE DEF rs2
<1> QED  BY <1>2, <1>3, <1>6, <1>8, <1>9, LocalStep

\* The app of a retry does not start: the retry sleeps again.
LEMMA OwnersRetryStartFails ==
  ASSUME TypeOK, Owners, Early, NEW n \in Names, NEW k \in RetryIds, RetryStartFails(n, k)
  PROVE  Owners'
<1> DEFINE s == slot[n]
           ss == sups[n]
           rs == retries[n]
           r == [rs[k] EXCEPT !.st = "sleep", !.sup = None]
           ss2 == [ss EXCEPT ![rs[k].sup] = FreeSup]
           rs2 == [rs EXCEPT ![k] = r]
<1>1. rs[k].st = "start" /\ Live(rs[k])
  BY DEF RetryStartFails, Live
<1>2. /\ retries'[n] = rs2 /\ sups'[n] = ss2
      /\ \A q \in Names \ {n} : retries'[q] = retries[q] /\ sups'[q] = sups[q]
  BY DEF RetryStartFails, TypeOK
<1>3. slot' = slot /\ phase' = phase /\ driver' = driver /\ failed' = failed
  BY DEF RetryStartFails
<1>4. r.st = "sleep" /\ r.sup = None /\ r.slot = rs[k].slot
  BY OneSurface DEF Retries
<1> HIDE DEF r
<1>5. Kept(s, ss2, rs2, Held(n))
  BY <1>1, <1>4, OneSurface, KeptRetryFails
<1>6. phase = "boot" =>
        /\ n \notin driver.todo
        /\ s.in
        /\ \A l \in RetryIds : Live(rs2[l]) => rs2[l].slot = "table"
  <2>1. phase = "boot" => rs[k].slot = "table" /\ n \notin driver.todo
    BY <1>1 DEF Owners, Untouched
  <2>2. phase = "boot" => s.in
    BY <1>1, <2>1, OneSurface DEF Kept
  <2> QED  BY <1>4, <2>1, <2>2, OneSurface DEF Owners, Untouched
<1> HIDE DEF rs2, ss2
<1> QED  BY <1>2, <1>3, <1>5, <1>6, LocalStep

\* The app of a retry serves: in the slot, or it is retired at once.
LEMMA OwnersRetryStartOk ==
  ASSUME TypeOK, Owners, Early, NEW n \in Names, NEW k \in RetryIds, RetryStartOk(n, k)
  PROVE  Owners'
<1> DEFINE s == slot[n]
           ss == sups[n]
           rs == retries[n]
           u == rs[k].sup
           t == [RetryDone(n, k, s) EXCEPT !.sup = u, !.fault = FALSE]
           rs2 == [rs EXCEPT ![k] = FreeRetry]
<1>1. rs[k].st = "start" /\ Live(rs[k])
  BY DEF RetryStartOk, Live
<1>2. retries'[n] = rs2 /\ \A q \in Names \ {n} : retries'[q] = retries[q]
  BY DEF RetryStartOk, TypeOK
<1>3. phase' = phase /\ driver' = driver /\ failed' \subseteq failed
  BY DEF RetryStartOk, Cleared
<1>4. phase = "boot" =>
        /\ n \notin driver.todo
        /\ rs[k].slot = "table"
        /\ \A l \in RetryIds : Live(rs2[l]) => rs2[l].slot = "table"
  BY <1>1, FreeRetryIs, OneSurface DEF Owners, Untouched
<1>5. CASE rs[k].slot = "table"
  <2>1. /\ slot' = [slot EXCEPT ![n] = t]
        /\ sups' = [sups EXCEPT ![n] = Retire([ss EXCEPT ![u].st = "serving"], s.sup)]
    BY <1>5 DEF RetryStartOk
  <2>2. t.sup = u /\ t.in = s.in
    BY OneSurface DEF RetryDone, Slots
  <2>3. s.in
    BY <1>1, <1>5, OneSurface DEF Kept
  <2> HIDE DEF t
  <2>4. Kept(t, Retire([ss EXCEPT ![u].st = "serving"], s.sup), rs2, Held(n))
    BY <1>1, <1>5, <2>2, <2>3, OneSurface, KeptRetryServes
  <2>5. /\ slot'[n] = t /\ sups'[n] = Retire([ss EXCEPT ![u].st = "serving"], s.sup)
        /\ \A q \in Names \ {n} : slot'[q] = slot[q] /\ sups'[q] = sups[q]
    BY <2>1 DEF TypeOK
  <2> HIDE DEF rs2
  <2> QED  BY <1>2, <1>3, <1>4, <2>2, <2>3, <2>4, <2>5, LocalStep
<1>6. CASE rs[k].slot # "table"
  <2>1. slot' = slot /\ sups' = [sups EXCEPT ![n] = Retire(ss, u)]
    BY <1>6 DEF RetryStartOk
  <2>2. rs2[k] = FreeRetry /\ \A l \in RetryIds : l # k => rs2[l] = rs[l]
    BY OneSurface
  <2> HIDE DEF rs2
  <2>3. Kept(s, Retire(ss, u), rs2, Held(n))
    BY <2>2, FreeRetryIs, OneSurface, KeptCancels
  <2>4. sups'[n] = Retire(ss, u) /\ \A q \in Names \ {n} : sups'[q] = sups[q]
    BY <2>1 DEF TypeOK
  <2> QED  BY <1>2, <1>3, <1>4, <1>6, <2>1, <2>3, <2>4, LocalStep
<1> QED  BY <1>5, <1>6

\* An app dies while it serves.
LEMMA OwnersAppDies ==
  ASSUME TypeOK, Owners, Early, NEW n \in Names, NEW u \in SupIds, AppDies(n, u)
  PROVE  Owners'
<1> DEFINE s == slot[n]
           ss == sups[n]
           rs == retries[n]
           ss2 == [ss EXCEPT ![u].st = "dying"]
<1>1. ss[u].st = "serving"
  BY DEF AppDies
<1>2. s.in /\ s.sup = u /\ s.sup # None
  BY <1>1, OneSurface, NoneIsNoSup DEF Kept
<1>3. /\ phase' = phase /\ driver' = driver /\ ServingFailed(n)
      /\ sups'[n] = ss2 /\ \A q \in Names \ {n} : sups'[q] = sups[q]
  BY <1>2 DEF AppDies, TypeOK
<1>4. failed' = failed \cup {n}
  BY <1>3 DEF ServingFailed
<1>5. phase = "boot" => n \notin driver.todo
  BY <1>2 DEF Owners, Untouched
<1>6. \A t : t.in /\ t.sup = None => Kept(t, ss2, rs, Held(n))
  BY <1>1, OneSurface, KeptDies
<1> HIDE DEF ss2
<1>7. ASSUME NEW k \in Lowest(FreeRetries(rs)),
             slot' = [slot EXCEPT ![n] = [@ EXCEPT !.sup = None, !.retry = k]],
             retries' = [retries EXCEPT ![n][k] = NewRetry(registry[n])]
      PROVE  Owners'
  <2> DEFINE t == [s EXCEPT !.sup = None, !.retry = k]
             rs2 == [rs EXCEPT ![k] = NewRetry(registry[n])]
  <2>1. k \in RetryIds /\ rs[k].st = "free"
    BY DEF Lowest, FreeRetries
  <2>2. t.in /\ t.sup = None
    BY <1>2, OneSurface DEF Slots
  <2>3. /\ slot'[n] = t /\ retries'[n] = rs2
        /\ \A q \in Names \ {n} : slot'[q] = slot[q] /\ retries'[q] = retries[q]
    BY <1>7 DEF TypeOK
  <2> HIDE DEF t
  <2>4. Kept(t, ss2, rs2, Held(n))
    BY <1>6, <2>1, <2>2, NewRetryIs, OneSurface, KeptSleeps
  <2>5. phase = "boot" => \A l \in RetryIds : Live(rs2[l]) => rs2[l].slot = "table"
    BY <2>1, NewRetryIs, OneSurface DEF Owners, Untouched
  <2> HIDE DEF rs2
  <2> QED  BY <1>3, <1>4, <1>5, <2>2, <2>3, <2>4, <2>5, LocalStep
<1>8. ASSUME slot' = [slot EXCEPT ![n].sup = None], retries' = retries
      PROVE  Owners'
  <2>1. /\ slot'[n].in /\ slot'[n].sup = None
        /\ \A q \in Names \ {n} : slot'[q] = slot[q]
    BY <1>2, <1>8, OneSurface DEF TypeOK, Slots
  <2>2. Kept(slot'[n], ss2, rs, Held(n))
    BY <1>6, <2>1
  <2>3. phase = "boot" => \A l \in RetryIds : Live(rs[l]) => rs[l].slot = "table"
    BY DEF Owners, Untouched
  <2> QED  BY <1>3, <1>4, <1>5, <1>8, <2>1, <2>2, <2>3, LocalStep
<1> QED  BY <1>3, <1>7, <1>8, Zenon DEF ServingFailed

\* A closing app is closed.
LEMMA OwnersSupCloses ==
  ASSUME TypeOK, Owners, Early, NEW n \in Names, NEW u \in SupIds, SupCloses(n, u)
  PROVE  Owners'
<1>1. /\ sups'[n] = [sups[n] EXCEPT ![u] = FreeSup]
      /\ \A q \in Names \ {n} : sups'[q] = sups[q]
  BY DEF SupCloses, TypeOK
<1>2. /\ phase' = phase /\ driver' = driver /\ slot' = slot /\ retries' = retries
      /\ failed' = failed
  BY DEF SupCloses
<1>3. Kept(slot[n], [sups[n] EXCEPT ![u] = FreeSup], retries[n], Held(n))
  BY OneSurface, KeptCloses DEF SupCloses
<1>4. phase = "boot" =>
        /\ \A k \in RetryIds : Live(retries[n][k]) => retries[n][k].slot = "table"
        /\ n \in failed => slot[n].in
  BY DEF Owners, Untouched
<1> QED  BY <1>1, <1>2, <1>3, <1>4, LocalStep

\* _attach_failed changes the retry of one surface, and nothing of its app.
LEMMA AttachFailedKept ==
  ASSUME TypeOK, NEW n \in Names, NEW s \in Slots, NEW rs \in [RetryIds -> Retries],
         NEW fault \in BOOLEAN, AttachFailed(n, s, rs, fault),
         NEW ss, NEW h, Kept(s, ss, rs, h), s.in
  PROVE  /\ Kept(slot'[n], ss, retries'[n], h)
         /\ \A q \in Names \ {n} : slot'[q] = slot[q] /\ retries'[q] = retries[q]
<1> DEFINE marked == [s EXCEPT !.fault = IF s.sup = None THEN fault ELSE @]
           new == NewRetry(driver.new[n])
<1>1. marked \in Slots /\ marked.sup = s.sup /\ marked.in
  BY DEF Slots
<1>2. \A k : /\ [marked EXCEPT !.retry = k].sup = s.sup
             /\ [marked EXCEPT !.retry = k].in
  <2> HIDE DEF marked
  <2> QED  BY <1>1 DEF Slots
<1>3. \/ /\ slot' = [slot EXCEPT ![n] = marked]
         /\ retries' = [retries EXCEPT ![n] = rs]
      \/ \E k \in Lowest(FreeRetries(rs)) :
           /\ slot' = [slot EXCEPT ![n] = [marked EXCEPT !.retry = k]]
           /\ retries' = [retries EXCEPT ![n] = [rs EXCEPT ![k] = new]]
  BY Zenon DEF AttachFailed
<1>4. new.st = "sleep" /\ new.sup = None
  BY NewRetryIs
<1> HIDE DEF marked, new
<1>5. ASSUME slot' = [slot EXCEPT ![n] = marked], retries' = [retries EXCEPT ![n] = rs]
      PROVE  Kept(slot'[n], ss, retries'[n], h)
  BY <1>1, <1>5, KeptSlot DEF TypeOK
<1>6. ASSUME NEW k \in Lowest(FreeRetries(rs)),
             slot' = [slot EXCEPT ![n] = [marked EXCEPT !.retry = k]],
             retries' = [retries EXCEPT ![n] = [rs EXCEPT ![k] = new]]
      PROVE  Kept(slot'[n], ss, retries'[n], h)
  <2> DEFINE t == [marked EXCEPT !.retry = k]
             rs2 == [rs EXCEPT ![k] = new]
  <2>1. k \in RetryIds /\ rs[k].st = "free"
    BY DEF Lowest, FreeRetries
  <2>2. slot'[n] = t /\ retries'[n] = rs2
    BY <1>6 DEF TypeOK
  <2>3. t.sup = s.sup /\ t.in
    BY <1>2
  <2> HIDE DEF t
  <2>4. Kept(s, ss, rs2, h)
    BY <1>4, <2>1, KeptSleeps
  <2> HIDE DEF rs2
  <2> QED  BY <2>2, <2>3, <2>4, KeptSlot
<1> QED  BY <1>3, <1>5, <1>6 DEF TypeOK

\* _cancel_retry, whether the slot has a retry or none.
LEMMA CancelKept ==
  ASSUME TypeOK, Owners, Early, NEW n \in Names
  PROVE  /\ CancelledSups(n) \in [SupIds -> Sups]
         /\ CancelledRetries(n) \in [RetryIds -> Retries]
         /\ Kept(slot[n], CancelledSups(n), CancelledRetries(n), Held(n))
         /\ \A u \in SupIds : sups[n][u].st = "free" => CancelledSups(n)[u].st = "free"
<1> DEFINE k == slot[n].retry
<1>1. CASE k = None
  BY <1>1, OneSurface DEF CancelledSups, CancelledRetries
<1>2. CASE k # None
  <2> DEFINE rs2 == [retries[n] EXCEPT ![k] = FreeRetry]
  <2>1. k \in RetryIds
    BY <1>2, OneSurface
  <2>2. rs2[k] = FreeRetry /\ \A l \in RetryIds : l # k => rs2[l] = retries[n][l]
    BY <2>1, OneSurface
  <2>3. /\ CancelledSups(n) = Retire(sups[n], retries[n][k].sup)
        /\ CancelledRetries(n) = rs2
    BY <1>2 DEF CancelledSups, CancelledRetries
  <2> HIDE DEF rs2, k
  <2>5. rs2[k].st \in {"free", "dead"} /\ rs2[k].sup = None
    BY <2>2, FreeRetryIs
  <2>6. /\ sups[n] \in [SupIds -> Sups] /\ retries[n] \in [RetryIds -> Retries]
        /\ Kept(slot[n], sups[n], retries[n], Held(n))
    BY OneSurface
  <2>4. /\ Kept(slot[n], Retire(sups[n], retries[n][k].sup), rs2, Held(n))
        /\ \A v \in SupIds :
             sups[n][v].st = "free" => Retire(sups[n], retries[n][k].sup)[v].st = "free"
    BY <2>1, <2>2, <2>5, <2>6, KeptCancels
  <2> QED  BY <2>3, <2>4, CancelType
<1> QED  BY <1>1, <1>2

\* The driver, outside of boot, does something about one surface.
LEMMA DriverLocalStep ==
  ASSUME TypeOK, Owners, phase = "up", phase' = "up", NEW n \in Names,
         \A q \in Names \ {n} :
           /\ slot'[q] = slot[q] /\ sups'[q] = sups[q] /\ retries'[q] = retries[q]
           /\ Held(q) = None /\ Held(q)' = None,
         Kept(slot'[n], sups'[n], retries'[n], Held(n)'),
         driver'.st = "start" => driver'.cur \in Names \ driver'.todo /\ driver'.sup # None
  PROVE  Owners'
<1>1. \A q \in Names : Kept(slot'[q], sups'[q], retries'[q], Held(q)')
  BY DEF Owners, Early
<1>2. Untouched'
  BY DEF Untouched
<1> QED  BY <1>1, <1>2 DEF Owners, Kept, Live

\* _install of boot and of reload: a supervisor is started.
LEMMA InstallKept ==
  ASSUME TypeOK, Owners, Early, NEW n \in Names, driver.st = "step", n \in driver.todo,
         DriverInstalls(n),
         NEW s, NEW rs, Kept(s, CancelledSups(n), rs, None), s.in
  PROVE  /\ Kept(s, sups'[n], rs, Held(n)')
         /\ \A q \in Names \ {n} : sups'[q] = sups[q] /\ Held(q) = None /\ Held(q)' = None
         /\ driver'.cur = n /\ driver'.cur \notin driver'.todo /\ driver'.sup # None
         /\ driver'.todo = driver.todo \ {n}
<1> DEFINE new == [st |-> "starting", entry |-> driver.new[n]]
<1>1. PICK u \in Lowest(FreeSups(n)) :
        /\ sups' = [sups EXCEPT ![n] = [CancelledSups(n) EXCEPT ![u] = new]]
        /\ driver' = [driver EXCEPT !.st = "start", !.todo = @ \ {n}, !.cur = n, !.sup = u]
  BY DEF DriverInstalls
<1>2. u \in SupIds /\ CancelledSups(n)[u].st = "free"
  BY CancelKept DEF Lowest, FreeSups
<1>3. new \in Sups /\ new.st = "starting"
  BY DEF Sups, SupStates, TypeOK, Drivers, Registries
<1> HIDE DEF new
<1>4. /\ driver'.st = "start" /\ driver'.cur = n /\ driver'.sup = u
      /\ driver'.todo = driver.todo \ {n}
  BY <1>1 DEF TypeOK, Drivers
<1>5. Held(n)' = u /\ \A q \in Names \ {n} : Held(q) = None /\ Held(q)' = None
  BY <1>4 DEF Held
<1>6. /\ sups'[n] = [CancelledSups(n) EXCEPT ![u] = new]
      /\ \A q \in Names \ {n} : sups'[q] = sups[q]
  BY <1>1 DEF TypeOK
<1>7. Kept(s, [CancelledSups(n) EXCEPT ![u] = new], rs, u)
  BY <1>2, <1>3, CancelKept, KeptBegins
<1> QED  BY <1>2, <1>4, <1>5, <1>6, <1>7, NoneIsNoSup

\* Boot installs a surface.
LEMMA OwnersBootInstall ==
  ASSUME TypeOK, Owners, NEW n \in Names, BootInstall(n)
  PROVE  Owners'
<1>1. /\ phase = "boot" /\ phase' = phase /\ driver.st = "step" /\ n \in driver.todo
      /\ slot' = slot /\ retries' = retries /\ failed' = failed /\ DriverInstalls(n)
  BY DEF BootInstall
<1>2. Early
  BY <1>1 DEF Early
<1>3. slot[n].in /\ slot[n].retry = None /\ Untouched
  BY <1>1, <1>2 DEF Owners, Untouched
<1>4. CancelledSups(n) = sups[n] /\ Held(n) = None
  BY <1>1, <1>3 DEF CancelledSups, Held
<1>5. Kept(slot[n], CancelledSups(n), retries[n], None)
  BY <1>2, <1>4, OneSurface
<1>6. /\ Kept(slot[n], sups'[n], retries[n], Held(n)')
      /\ \A q \in Names \ {n} : sups'[q] = sups[q] /\ Held(q) = None /\ Held(q)' = None
      /\ driver'.cur = n /\ driver'.cur \notin driver'.todo /\ driver'.sup # None
      /\ driver'.todo = driver.todo \ {n}
  BY <1>1, <1>2, <1>3, <1>5, InstallKept
<1>7. \A q \in Names : Kept(slot'[q], sups'[q], retries'[q], Held(q)')
  BY <1>1, <1>2, <1>6 DEF Owners
<1>8. Untouched'
  BY <1>1, <1>3, <1>6 DEF Untouched, Live
<1> QED  BY <1>6, <1>7, <1>8 DEF Owners, Kept, Live

\* Reload installs a surface that it has attached.
LEMMA OwnersReloadInstall ==
  ASSUME TypeOK, Owners, NEW n \in Names, ReloadInstall(n)
  PROVE  Owners'
<1>1. /\ phase = "up" /\ phase' = "up" /\ driver.st = "step" /\ n \in driver.todo
      /\ slot' = [slot EXCEPT ![n] = TargetSlot(n)]
      /\ retries' = [retries EXCEPT ![n] = CancelledRetries(n)]
      /\ DriverInstalls(n)
  BY DEF ReloadInstall, Takes
<1>2. Early /\ Held(n) = None
  BY <1>1 DEF Early, Held
<1>3. TargetSlot(n).in /\ TargetSlot(n).sup = slot[n].sup
  BY <1>2, OneSurface DEF TargetSlot, Slots
<1>4. Kept(TargetSlot(n), CancelledSups(n), CancelledRetries(n), None)
  BY <1>2, <1>3, CancelKept, KeptSlot
<1>5. /\ Kept(TargetSlot(n), sups'[n], CancelledRetries(n), Held(n)')
      /\ \A q \in Names \ {n} : sups'[q] = sups[q] /\ Held(q) = None /\ Held(q)' = None
      /\ driver'.cur = n /\ driver'.cur \notin driver'.todo /\ driver'.sup # None
  BY <1>1, <1>2, <1>3, <1>4, InstallKept
<1>6. /\ slot'[n] = TargetSlot(n) /\ retries'[n] = CancelledRetries(n)
      /\ \A q \in Names \ {n} : slot'[q] = slot[q] /\ retries'[q] = retries[q]
  BY <1>1 DEF TypeOK
<1> QED  BY <1>1, <1>5, <1>6, DriverLocalStep

\* The app of boot or of reload serves.
LEMMA OwnersDriverStartOk ==
  ASSUME TypeOK, Owners, Early, NEW n \in Names, DriverStartOk(n)
  PROVE  Owners'
<1> DEFINE s == slot[n]
           h == driver.sup
           t == [s EXCEPT !.sup = h, !.fault = FALSE]
           ss2 == Retire([sups[n] EXCEPT ![h].st = "serving"], s.sup)
<1>1. /\ phase' = phase /\ driver.st = "start" /\ n = driver.cur
      /\ slot' = [slot EXCEPT ![n] = t] /\ sups' = [sups EXCEPT ![n] = ss2]
      /\ retries' = retries
      /\ phase = "boot" => failed' = failed
      /\ driver' = [driver EXCEPT !.st = "step", !.cur = NoEntry, !.sup = None]
  BY DEF DriverStartOk, Installed
<1>2. h # None /\ h = Held(n) /\ n \notin driver.todo
  BY <1>1 DEF Owners, Held
<1>3. s.in /\ h \in SupIds
  BY <1>2, OneSurface DEF Kept
<1>4. t.in /\ t.sup = h
  BY <1>3, OneSurface DEF Slots
<1> HIDE DEF t
<1>5. Kept(t, ss2, retries[n], None)
  BY <1>2, <1>3, <1>4, OneSurface, KeptServes
<1>6. /\ slot'[n] = t /\ sups'[n] = ss2
      /\ \A q \in Names \ {n} : slot'[q] = slot[q] /\ sups'[q] = sups[q]
  BY <1>1 DEF TypeOK
<1> HIDE DEF ss2
<1>7. driver'.st = "step" /\ driver'.todo = driver.todo
  BY <1>1 DEF TypeOK, Drivers
<1>8. /\ \A q \in Names : Held(q)' = None
      /\ \A q \in Names \ {n} : Held(q) = None
  BY <1>1, <1>7 DEF Held
<1>9. \A q \in Names : Kept(slot'[q], sups'[q], retries'[q], Held(q)')
  BY <1>1, <1>5, <1>6, <1>8 DEF Owners
<1>10. Untouched'
  <2>1. Untouched
    BY DEF Owners
  <2>2. driver.todo \subseteq Names /\ failed \subseteq Names
    BY DEF TypeOK, Drivers
  <2>3. phase = "boot" => \A q \in failed : slot'[q].in
    BY <1>4, <1>6, <2>1, <2>2 DEF Untouched
  <2> QED  BY <1>1, <1>2, <1>6, <1>7, <2>1, <2>2, <2>3 DEF Untouched, Live
<1> QED  BY <1>7, <1>9, <1>10 DEF Owners, Kept, Live

\* The app of a reload does not start: its surface is retried or keeps its app.
LEMMA OwnersReloadStartFails ==
  ASSUME TypeOK, Owners, NEW n \in Names, ReloadStartFails(n)
  PROVE  Owners'
<1> DEFINE h == driver.sup
           ss2 == [sups[n] EXCEPT ![h] = FreeSup]
<1>1. /\ phase = "up" /\ phase' = "up" /\ driver.st = "start" /\ n = driver.cur
      /\ \E fault \in BOOLEAN : AttachFailed(n, slot[n], retries[n], fault)
      /\ sups' = [sups EXCEPT ![n] = ss2]
      /\ driver' = [driver EXCEPT !.st = "step", !.cur = NoEntry, !.sup = None]
  BY DEF ReloadStartFails
<1>2. Early
  BY <1>1 DEF Early
<1>3. h # None /\ h = Held(n)
  BY <1>1, <1>2 DEF Owners, Held
<1>4. slot[n].in /\ h \in SupIds
  BY <1>2, <1>3, OneSurface DEF Kept
<1>5. /\ ss2[h].st = "free" /\ \A v \in SupIds : v # h => ss2[v].st = sups[n][v].st
      /\ sups'[n] = ss2 /\ \A q \in Names \ {n} : sups'[q] = sups[q]
  BY <1>1, <1>4 DEF TypeOK, FreeSup
<1> HIDE DEF ss2
<1>6. Kept(slot[n], ss2, retries[n], None)
  BY <1>2, <1>3, <1>4, <1>5, OneSurface, KeptGivesUp
<1>7. /\ Kept(slot'[n], ss2, retries'[n], None)
      /\ \A q \in Names \ {n} : slot'[q] = slot[q] /\ retries'[q] = retries[q]
  BY <1>1, <1>2, <1>4, <1>6, OneSurface, AttachFailedKept
<1>8. driver'.st = "step"
  BY <1>1 DEF TypeOK, Drivers
<1>9. /\ \A q \in Names : Held(q)' = None
      /\ \A q \in Names \ {n} : Held(q) = None
  BY <1>1, <1>8 DEF Held
<1> QED  BY <1>1, <1>5, <1>7, <1>8, <1>9, DriverLocalStep

\* A surface of a reload does not attach.
LEMMA OwnersReloadTargetFailed ==
  ASSUME TypeOK, Owners, NEW n \in Names, ReloadTargetFailed(n)
  PROVE  Owners'
<1> DEFINE fault == driver.res[n] = "fault"
<1>1. /\ phase = "up" /\ phase' = "up" /\ driver.st = "step"
      /\ AttachFailed(n, TargetSlot(n), CancelledRetries(n), fault)
      /\ sups' = [sups EXCEPT ![n] = CancelledSups(n)]
      /\ driver' = [driver EXCEPT !.todo = @ \ {n}]
  BY DEF ReloadTargetFailed, Takes
<1>2. fault \in BOOLEAN
  OBVIOUS
<1> HIDE DEF fault
<1>3. Early /\ Held(n) = None
  BY <1>1 DEF Early, Held
<1>4. TargetSlot(n).in /\ TargetSlot(n).sup = slot[n].sup /\ TargetSlot(n) \in Slots
  BY <1>3, OneSurface DEF TargetSlot, Slots
<1>5. Kept(TargetSlot(n), CancelledSups(n), CancelledRetries(n), None)
  BY <1>3, <1>4, CancelKept, KeptSlot
<1>6. /\ Kept(slot'[n], CancelledSups(n), retries'[n], None)
      /\ \A q \in Names \ {n} : slot'[q] = slot[q] /\ retries'[q] = retries[q]
  BY <1>1, <1>2, <1>3, <1>4, <1>5, CancelKept, AttachFailedKept
<1>7. sups'[n] = CancelledSups(n) /\ \A q \in Names \ {n} : sups'[q] = sups[q]
  BY <1>1 DEF TypeOK
<1>8. driver'.st = "step"
  BY <1>1 DEF TypeOK, Drivers
<1>9. \A q \in Names : Held(q) = None /\ Held(q)' = None
  BY <1>1, <1>8 DEF Held
<1> QED  BY <1>1, <1>6, <1>7, <1>8, <1>9, DriverLocalStep

\* The removed surfaces go: their apps and the retry of each are told to stop.
LEMMA OwnersReloadDone ==
  ASSUME TypeOK, Owners, ReloadDone
  PROVE  Owners'
<1> DEFINE gone == Removed(driver.new)
<1>1. /\ phase = "up" /\ phase' = "up" /\ driver.st = "step"
      /\ slot' = [n \in Names |-> IF n \in gone THEN NoSlot ELSE slot[n]]
      /\ sups' = [n \in Names |->
           IF n \in gone THEN Retire(CancelledSups(n), slot[n].sup) ELSE sups[n]]
      /\ retries' = [n \in Names |-> IF n \in gone THEN Orphaned(n) ELSE retries[n]]
      /\ driver' = IdleDriver
  BY Zenon DEF ReloadDone
<1>2. Early
  BY <1>1 DEF Early
<1>3. driver'.st = "idle"
  BY <1>1 DEF IdleDriver
<1>4. \A q \in Names : Held(q) = None /\ Held(q)' = None
  BY <1>1, <1>3 DEF Held
<1> HIDE DEF gone
<1>5. ASSUME NEW q \in Names, q \in gone
      PROVE  Kept(slot'[q], sups'[q], retries'[q], None)
  <2> DEFINE rs == CancelledRetries(q)
             rs2 == Orphaned(q)
  <2>1. ASSUME NEW k \in RetryIds
        PROVE  /\ rs2[k].st = rs[k].st /\ rs2[k].sup = rs[k].sup
               /\ ~(Live(rs2[k]) /\ rs2[k].slot = "table")
    <3>1. retries[q][k] \in Retries
      BY <1>2, OneSurface
    <3>2. rs[k] = retries[q][k] \/ ~Live(rs[k])
      BY <1>2, FreeRetryIs, OneSurface DEF CancelledRetries
    <3>3. CASE ~Live(rs[k])
      BY <3>3 DEF Orphaned
    <3>4. CASE rs[k] = retries[q][k] /\ Live(rs[k]) /\ retries[q][k].slot # "table"
      BY <3>4 DEF Orphaned
    <3>5. CASE rs[k] = retries[q][k] /\ Live(rs[k]) /\ retries[q][k].slot = "table"
      <4> DEFINE to == IF slot[q].sup = None THEN "gonePending" ELSE "goneServing"
      <4>1. rs2[k] = [retries[q][k] EXCEPT !.slot = to]
        BY <3>5 DEF Orphaned
      <4>2. to # "table"
        OBVIOUS
      <4> HIDE DEF to
      <4>3. /\ [retries[q][k] EXCEPT !.slot = to].slot = to
            /\ [retries[q][k] EXCEPT !.slot = to].st = retries[q][k].st
            /\ [retries[q][k] EXCEPT !.slot = to].sup = retries[q][k].sup
        BY <3>1 DEF Retries
      <4> HIDE DEF rs, rs2
      <4> QED  BY <3>5, <4>1, <4>2, <4>3
    <3> QED  BY <3>2, <3>3, <3>4, <3>5
  <2>2. Kept(slot[q], CancelledSups(q), rs, None) /\ CancelledSups(q) \in [SupIds -> Sups]
    BY <1>2, <1>4, CancelKept
  <2> HIDE DEF rs, rs2
  <2>3. Kept(NoSlot, Retire(CancelledSups(q), slot[q].sup), rs2, None)
    BY <1>2, <2>1, <2>2, OneSurface, KeptRemoved
  <2> QED  BY <1>1, <1>5, <2>3 DEF rs2
<1>6. \A q \in Names : Kept(slot'[q], sups'[q], retries'[q], Held(q)')
  BY <1>1, <1>2, <1>4, <1>5 DEF Owners
<1>7. Untouched'
  BY <1>1 DEF Untouched
<1> QED  BY <1>3, <1>6, <1>7 DEF Owners, Kept, Live

\* The end of boot: a retry for every surface that failed to attach.
LEMMA OwnersBootDone ==
  ASSUME TypeOK, Owners, BootDone
  PROVE  Owners'
<1> DEFINE retried == failed \ configFaults
<1>1. /\ phase = "boot" /\ phase' = "up" /\ driver.st = "step" /\ driver' = IdleDriver
      /\ sups' = sups
  BY DEF BootDone
<1>2. PICK ks \in [Names -> RetryIds] :
        /\ \A n \in Names : ks[n] \in IF n \in retried THEN Lowest(FreeRetries(retries[n])) ELSE {1}
        /\ slot' = [n \in Names |->
             IF n \in retried THEN [slot[n] EXCEPT !.retry = ks[n]] ELSE slot[n]]
        /\ retries' = [n \in Names |->
             IF n \in retried THEN [retries[n] EXCEPT ![ks[n]] = NewRetry(registry[n])]
             ELSE retries[n]]
  BY Zenon DEF BootDone
<1>3. Early
  BY <1>1 DEF Early
<1>4. driver'.st = "idle"
  BY <1>1 DEF IdleDriver
<1>5. \A q \in Names : Held(q) = None /\ Held(q)' = None
  BY <1>1, <1>4 DEF Held
<1>6. ASSUME NEW q \in Names, q \in retried
      PROVE  Kept(slot'[q], sups'[q], retries'[q], None)
  <2> DEFINE k == ks[q]
             t == [slot[q] EXCEPT !.retry = k]
             rs2 == [retries[q] EXCEPT ![k] = NewRetry(registry[q])]
  <2>1. k \in RetryIds /\ retries[q][k].st = "free"
    BY <1>2, <1>6 DEF Lowest, FreeRetries
  <2>2. slot[q].in
    BY <1>1, <1>3, <1>6 DEF Owners, Untouched
  <2>3. t.in /\ t.sup = slot[q].sup
    BY <1>3, <2>2, OneSurface DEF Slots
  <2>4. slot'[q] = t /\ retries'[q] = rs2
    BY <1>2, <1>6
  <2>5. Kept(slot[q], sups[q], retries[q], None)
    BY <1>3, <1>5, OneSurface
  <2> HIDE DEF k, t
  <2>6. Kept(slot[q], sups[q], rs2, None)
    BY <1>3, <2>1, <2>2, <2>5, NewRetryIs, OneSurface, KeptSleeps
  <2> HIDE DEF rs2
  <2> QED  BY <1>1, <2>3, <2>4, <2>6, KeptSlot
<1>7. ASSUME NEW q \in Names, q \notin retried
      PROVE  Kept(slot'[q], sups'[q], retries'[q], None)
  BY <1>1, <1>2, <1>3, <1>5, <1>7, OneSurface
<1>8. Untouched'
  BY <1>1 DEF Untouched
<1> QED  BY <1>4, <1>5, <1>6, <1>7, <1>8 DEF Owners, Kept, Live

\* The task that installs ends: its app fails at boot, or is told to stop.
LEMMA OwnersDriverEnds ==
  ASSUME TypeOK, Owners, Early, phase' = "stopReload", driver'.st = "idle",
         slot' = slot, retries' = retries,
         driver.st = "start" =>
           /\ sups'[driver.cur][driver.sup].st \in {"free", "retiring"}
           /\ \A v \in SupIds :
                v # driver.sup => sups'[driver.cur][v].st = sups[driver.cur][v].st
           /\ \A q \in Names : q # driver.cur => sups'[q] = sups[q],
         driver.st # "start" => sups' = sups
  PROVE  Owners'
<1>1. \A q \in Names : Held(q)' = None
  BY DEF Held
<1>2. ASSUME NEW q \in Names, Held(q) = None, sups'[q] = sups[q]
      PROVE  Kept(slot'[q], sups'[q], retries'[q], None)
  BY <1>2, OneSurface
<1>3. ASSUME NEW q \in Names, driver.st = "start", q = driver.cur
      PROVE  Kept(slot'[q], sups'[q], retries'[q], None)
  <2> DEFINE h == driver.sup
  <2>1. h # None /\ h = Held(q)
    BY <1>3 DEF Owners, Held
  <2>2. h \in SupIds
    BY <2>1, OneSurface DEF Kept
  <2> QED  BY <1>3, <2>1, <2>2, OneSurface, KeptGivesUp
<1>4. \A q \in Names : Kept(slot'[q], sups'[q], retries'[q], Held(q)')
  BY <1>1, <1>2, <1>3 DEF Held
<1>5. Untouched'
  BY DEF Untouched
<1> QED  BY <1>4, <1>5 DEF Owners, Kept, Live

\* The app of boot does not start: boot ends in shutdown.
LEMMA OwnersBootStartFails ==
  ASSUME TypeOK, Owners, NEW n \in Names, BootStartFails(n)
  PROVE  Owners'
<1>1. /\ phase = "boot" /\ phase' = "stopReload" /\ driver.st = "start" /\ n = driver.cur
      /\ sups' = [sups EXCEPT ![n][driver.sup] = FreeSup]
      /\ slot' = slot /\ retries' = retries /\ driver'.st = "idle"
  BY DEF BootStartFails, IdleDriver
<1>2. Early
  BY <1>1 DEF Early
<1>3. Held(n) = driver.sup /\ driver.sup # None
  BY <1>1, <1>2 DEF Owners, Held
<1>4. driver.sup \in SupIds
  BY <1>2, <1>3, OneSurface DEF Kept
<1>5. /\ sups'[n][driver.sup].st = "free"
      /\ \A v \in SupIds : v # driver.sup => sups'[n][v].st = sups[n][v].st
      /\ \A q \in Names : q # n => sups'[q] = sups[q]
  BY <1>1, <1>4 DEF TypeOK, FreeSup
<1> QED  BY <1>1, <1>2, <1>5, OwnersDriverEnds

\* reloader.cancel().
LEMMA OwnersStopReload ==
  ASSUME TypeOK, Owners, StopReload
  PROVE  Owners'
<1>1. /\ phase = "up" /\ phase' = "stopReload" /\ slot' = slot /\ retries' = retries
      /\ driver'.st = "idle"
  BY DEF StopReload, IdleDriver
<1>2. Early
  BY <1>1 DEF Early
<1>3. CASE driver.st = "start"
  <2> DEFINE n == driver.cur
             h == driver.sup
  <2>1. n \in Names /\ h # None
    BY <1>2, <1>3 DEF Owners
  <2>2. Held(n) = h
    BY <1>3 DEF Held
  <2>3. h \in SupIds
    BY <1>2, <2>1, <2>2, OneSurface DEF Kept
  <2>4. sups' = [sups EXCEPT ![n] = Retire(sups[n], h)]
    BY <1>3 DEF StopReload
  <2>5. \A v \in SupIds : Retire(sups[n], h)[v].st = IF v = h THEN "retiring" ELSE sups[n][v].st
    BY <1>2, <2>1, <2>3, OneSurface, RetireAt
  <2>6. sups'[n] = Retire(sups[n], h) /\ \A q \in Names : q # n => sups'[q] = sups[q]
    BY <2>1, <2>4 DEF TypeOK
  <2>7. /\ sups'[n][h].st = "retiring"
        /\ \A v \in SupIds : v # h => sups'[n][v].st = sups[n][v].st
    BY <2>3, <2>5, <2>6
  <2> QED  BY <1>1, <1>2, <1>3, <2>6, <2>7, OwnersDriverEnds
<1>4. CASE driver.st # "start"
  <2>1. sups' = sups
    BY <1>4 DEF StopReload
  <2> QED  BY <1>1, <1>2, <1>4, <2>1, OwnersDriverEnds
<1> QED  BY <1>3, <1>4

\* The retries that slots name are cancelled.
LEMMA OwnersStopRetries ==
  ASSUME TypeOK, Owners, StopRetries
  PROVE  Owners'
<1> DEFINE dead == [FreeRetry EXCEPT !.st = "dead"]
<1>1. /\ phase = "stopReload" /\ phase' = "stopRetries" /\ slot' = slot /\ driver' = driver
      /\ sups' = [n \in Names |-> CancelledSups(n)]
      /\ retries' = [n \in Names |-> [k \in RetryIds |->
           IF slot[n].retry = k THEN dead ELSE retries[n][k]]]
  BY DEF StopRetries
<1>2. Early
  BY <1>1 DEF Early
<1>3. dead.st = "dead" /\ dead.sup = None
  BY DEF FreeRetry
<1> HIDE DEF dead
<1>4. ASSUME NEW q \in Names
      PROVE  Kept(slot'[q], sups'[q], retries'[q], Held(q))
  <2> DEFINE k == slot[q].retry
             rs2 == retries'[q]
  <2>1. \A l \in RetryIds : rs2[l] = IF l = k THEN dead ELSE retries[q][l]
    BY <1>1
  <2>2. slot'[q] = slot[q] /\ sups'[q] = CancelledSups(q)
    BY <1>1
  <2>3. CASE k = None
    <3>1. rs2 = retries[q]
      <4>1. \A l \in RetryIds : l # k
        BY <2>3 DEF RetryIds, None
      <4> QED  BY <1>1, <1>2, <4>1, OneSurface
    <3> QED  BY <1>2, <2>2, <2>3, <3>1, OneSurface DEF CancelledSups
  <2>4. CASE k # None
    <3>1. k \in RetryIds
      BY <1>2, <2>4, OneSurface
    <3>2. CancelledSups(q) = Retire(sups[q], retries[q][k].sup)
      BY <2>4 DEF CancelledSups
    <3>3. /\ rs2[k].st \in {"free", "dead"} /\ rs2[k].sup = None
          /\ \A l \in RetryIds : l # k => rs2[l] = retries[q][l]
      BY <1>3, <2>1, <3>1
    <3>4. /\ sups[q] \in [SupIds -> Sups] /\ retries[q] \in [RetryIds -> Retries]
          /\ Kept(slot[q], sups[q], retries[q], Held(q))
      BY <1>2, OneSurface
    <3> HIDE DEF k, rs2
    <3>5. Kept(slot[q], Retire(sups[q], retries[q][k].sup), rs2, Held(q))
      BY <3>1, <3>3, <3>4, KeptCancels
    <3> QED  BY <2>2, <3>2, <3>5 DEF rs2
  <2> QED  BY <2>3, <2>4
<1>5. \A q \in Names : Held(q)' = Held(q)
  BY <1>1 DEF Held
<1>6. Untouched'
  BY <1>1 DEF Untouched
<1> QED  BY <1>1, <1>2, <1>4, <1>5, <1>6 DEF Owners, Kept, Live

\* A reload begins, or has attached its surfaces.
LEMMA OwnersReloadBegins ==
  ASSUME TypeOK, Owners, Early,
         \/ \E new \in Registries : ReloadStart(new)
         \/ \E res \in [Names -> Outcomes] : ReloadAttached(res)
  PROVE  Owners'
<1>1. /\ phase' = phase /\ slot' = slot /\ sups' = sups /\ retries' = retries
      /\ failed' = failed /\ driver.st # "start"
  BY DEF ReloadStart, ReloadAttached
<1>2. driver'.st \in {"attach", "step"} /\ (phase = "up" \/ driver'.todo = driver.todo)
  <2>1. CASE \E new \in Registries : ReloadStart(new)
    BY <2>1 DEF ReloadStart, IdleDriver
  <2>2. CASE \E res \in [Names -> Outcomes] : ReloadAttached(res)
    BY <2>2 DEF ReloadAttached, TypeOK, Drivers
  <2> QED  BY <2>1, <2>2
<1>3. \A q \in Names : Held(q) = None /\ Held(q)' = None
  BY <1>1, <1>2 DEF Held
<1>4. \A q \in Names : Kept(slot'[q], sups'[q], retries'[q], Held(q)')
  BY <1>1, <1>3 DEF Owners
<1>5. Untouched'
  BY <1>1, <1>2 DEF Owners, Untouched, Live
<1> QED  BY <1>2, <1>4, <1>5 DEF Owners, Kept, Live

\* In the first state nothing runs: no supervisor, no retry, no app.
LEMMA OwnersInit == Init => Owners
<1> SUFFICES ASSUME Init PROVE Owners
  OBVIOUS
<1>1. PICK reg \in Registries, res \in [Names -> Outcomes] : Booted(reg, res)
  BY DEF Init
<1>2. ASSUME NEW n \in Names
      PROVE  /\ slot[n].in = (reg[n] # NoEntry)
             /\ slot[n].sup = None /\ slot[n].retry = None
  <2> DEFINE b == reg[n] # NoEntry
             c == n \in configFaults
  <2>1. slot[n] = [NoSlot EXCEPT !.in = b, !.fault = c]
    BY <1>1 DEF Booted
  <2> HIDE DEF b, c
  <2>2. slot[n].in = b /\ slot[n].sup = None /\ slot[n].retry = None
    BY <2>1 DEF NoSlot
  <2> QED  BY <2>2 DEF b
<1>3. driver.st = "step" /\ driver.todo = {n \in Names : reg[n] # NoEntry /\ res[n] = "ok"}
  BY <1>1 DEF Booted, IdleDriver
<1>4. failed = {n \in Names : reg[n] # NoEntry /\ res[n] # "ok"}
  BY <1>1 DEF Booted
<1>5. /\ \A n \in Names, u \in SupIds : sups[n][u].st = "free"
      /\ \A n \in Names, k \in RetryIds :
           retries[n][k].st = "free" /\ retries[n][k].sup = None /\ ~Live(retries[n][k])
  BY FreeRetryIs DEF Init, FreeSup
<1>6. \A n \in Names : Held(n) = None
  BY <1>3 DEF Held
<1>7. \A n \in Names : Kept(slot[n], sups[n], retries[n], None)
  BY <1>2, <1>5, NoneIsNoSup DEF Kept
<1>8. Untouched
  BY <1>2, <1>3, <1>4, <1>5 DEF Untouched
<1> QED  BY <1>3, <1>6, <1>7, <1>8 DEF Owners

\* Nothing is left of the invariant to show once the apps are being closed.
LEMMA OwnersLate ==
  ASSUME ~Early'
  PROVE  Owners'
BY DEF Owners, Early

\* A step never goes back to an earlier phase.
LEMMA PhasesGoOn ==
  ASSUME [Next]_vars, ~Early
  PROVE  ~Early'
<1>1. ASSUME phase' = phase PROVE ~Early'
  BY <1>1 DEF Early
<1>2. ASSUME NEW n \in Names, BootInstall(n) \/ BootStartFails(n) \/ DriverStartOk(n)
      PROVE  ~Early'
  BY <1>1, <1>2 DEF BootInstall, BootStartFails, DriverStartOk, Early
<1>3. CASE BootDone
  BY <1>3 DEF BootDone, Early
<1>4. CASE \/ \E new \in Registries : ReloadStart(new)
           \/ \E res \in [Names -> Outcomes] : ReloadAttached(res)
           \/ ReloadDone
  BY <1>1, <1>4 DEF ReloadStart, ReloadAttached, ReloadDone
<1>5. ASSUME NEW n \in Names,
             ReloadInstall(n) \/ ReloadTargetFailed(n) \/ ReloadStartFails(n)
      PROVE  ~Early'
  BY <1>1, <1>5 DEF ReloadInstall, ReloadTargetFailed, ReloadStartFails
<1>6. ASSUME NEW n \in Names, NEW k \in RetryIds,
             RetryWakes(n, k) \/ RetryAttachOk(n, k) \/ RetryStartOk(n, k) \/ RetryFails(n, k)
      PROVE  ~Early'
  BY <1>1, <1>6 DEF RetryWakes, RetryAttachOk, RetryStartOk, RetryFails,
     RetryAttachTransient, RetryAttachFault, RetryStartFails
<1>7. ASSUME NEW n \in Names, NEW u \in SupIds, AppDies(n, u) \/ SupCloses(n, u)
      PROVE  ~Early'
  BY <1>1, <1>7 DEF AppDies, SupCloses
<1>8. CASE StopReload \/ ShutdownStep
  BY <1>8 DEF StopReload, ShutdownStep, StopRetries, StopApps, Down, Early
<1>9. CASE UNCHANGED vars
  BY <1>1, <1>9
<1> QED  BY <1>2, <1>3, <1>4, <1>5, <1>6, <1>7, <1>8, <1>9 DEF Next, DriverStep

\* Every step keeps the invariant.
LEMMA OwnersStep ==
  ASSUME TypeOK, Owners, [Next]_vars
  PROVE  Owners'
<1>1. CASE ~Early
  BY <1>1, OwnersLate, PhasesGoOn
<1> SUFFICES ASSUME Early PROVE Owners'
  BY <1>1
<1>2. CASE \E n \in Names : BootInstall(n) \/ BootStartFails(n) \/ DriverStartOk(n)
  BY <1>2, OwnersBootInstall, OwnersBootStartFails, OwnersDriverStartOk
<1>3. CASE BootDone
  BY <1>3, OwnersBootDone
<1>4. CASE \/ \E new \in Registries : ReloadStart(new)
           \/ \E res \in [Names -> Outcomes] : ReloadAttached(res)
  BY <1>4, OwnersReloadBegins
<1>5. CASE \E n \in Names :
             ReloadInstall(n) \/ ReloadTargetFailed(n) \/ ReloadStartFails(n)
  BY <1>5, OwnersReloadInstall, OwnersReloadTargetFailed, OwnersReloadStartFails
<1>6. CASE ReloadDone
  BY <1>6, OwnersReloadDone
<1>7. ASSUME NEW n \in Names, NEW k \in RetryIds,
             RetryWakes(n, k) \/ RetryAttachOk(n, k) \/ RetryStartOk(n, k) \/ RetryFails(n, k)
      PROVE  Owners'
  BY <1>7, OwnersRetryWakes, OwnersRetryAttachOk, OwnersRetryAttachFault,
     OwnersRetryStartFails, OwnersRetryStartOk DEF RetryFails
<1>8. CASE \E n \in Names, u \in SupIds : AppDies(n, u) \/ SupCloses(n, u)
  BY <1>8, OwnersAppDies, OwnersSupCloses
<1>9. CASE StopReload
  BY <1>9, OwnersStopReload
<1>10. CASE ShutdownStep
  <2>1. CASE StopRetries
    BY <2>1, OwnersStopRetries
  <2>2. CASE StopApps \/ Down
    BY <2>2, OwnersLate DEF StopApps, Down, Early
  <2> QED  BY <1>10, <2>1, <2>2 DEF ShutdownStep
<1>11. CASE UNCHANGED vars
  BY <1>11 DEF Owners, Kept, Held, Early, Untouched, Live
<1> QED  BY <1>2, <1>3, <1>4, <1>5, <1>6, <1>7, <1>8, <1>9, <1>10, <1>11 DEF Next, DriverStep

\* Until shutdown takes the apps down, every app that serves is the one its slot
\* names, and every app that is starting has a task that awaits its start: boot or
\* reload, or one retry.  None is left running that nothing will close.
THEOREM AppsOwned == Spec => []AppsAreOwned
<1>1. TypeOK /\ Owners => AppsAreOwned
  <2> SUFFICES ASSUME TypeOK, Owners, Early, NEW n \in Names, NEW u \in SupIds
               PROVE  /\ sups[n][u].st = "serving" <=> slot[n].in /\ slot[n].sup = u
                      /\ sups[n][u].st = "starting" =>
                           \/ driver.st = "start" /\ driver.cur = n /\ driver.sup = u
                           \/ \E k \in RetryIds :
                                retries[n][k].st = "start" /\ retries[n][k].sup = u
    BY Zenon DEF AppsAreOwned, Early
  <2>1. Kept(slot[n], sups[n], retries[n], Held(n))
    BY OneSurface
  <2>2. Held(n) = u => driver.st = "start" /\ driver.cur = n /\ driver.sup = u
    BY NoneIsNoSup DEF Held
  <2> QED  BY <2>1, <2>2 DEF Kept
<1> QED  BY <1>1, OwnersInit, OwnersStep, TypeCorrect, PTL DEF Spec

-----------------------------------------------------------------------------
(***************************************************************************)
(* What a surface serves, retries and reports.                             *)
(*                                                                         *)
(* Sound is inductive together with Owners as long as no app dies while    *)
(* boot, a reload or shutdown is going on (DieAnytime = FALSE).  An app    *)
(* that dies then is what _serving_failed does not expect: it reads the    *)
(* registry in force, in which an added surface is not yet, and leaves the *)
(* surface without a retry; TLC shows that case in the run that expects a  *)
(* violation.                                                              *)
(***************************************************************************)

\* The registry that n is to follow: that in force, or the new one once boot or
\* reload has taken n.
Now(n) ==
  IF driver.st = "idle" \/ n \in driver.todo \/ driver.new[n] = NoEntry
  THEN registry[n] ELSE driver.new[n]

Installing(n) == driver.st = "start" /\ driver.cur = n

\* The table routes the surfaces of the registry, and a slot that is not there
\* has nothing.
Routed(n) ==
  /\ slot[n].in <=> Now(n) # NoEntry
  /\ ~slot[n].in => slot[n].retry = None /\ ~slot[n].fault

\* The retry task that a slot names is the only one, and retries the right entry.
Linked(n) ==
  \A k \in RetryIds :
    /\ Live(retries[n][k]) <=> slot[n].retry = k
    /\ Live(retries[n][k]) => slot[n].in /\ retries[n][k].slot = "table"

Retried(n) ==
  /\ \A k \in RetryIds :
       /\ Live(retries[n][k]) => retries[n][k].entry = Now(n)
       /\ retries[n][k].st = "start" =>
            sups[n][retries[n][k].sup].entry = retries[n][k].entry
  /\ Pending(n) /\ ~slot[n].fault => slot[n].retry # None \/ Installing(n) \/ phase = "boot"
  /\ Installing(n) \/ phase = "boot" => slot[n].retry = None

\* Apps are of the entry they should serve, or reported.
Apt(n) ==
  /\ Installing(n) => sups[n][driver.sup].entry = driver.new[n]
  /\ Serving(n) /\ ~Installing(n) =>
       sups[n][slot[n].sup].entry = Now(n) \/ n \in reloadFailed

Told(n) ==
  /\ n \in failed => Pending(n)
  /\ Pending(n) => n \in failed \/ Installing(n) \/ (phase = "boot" /\ n \in driver.todo)
  /\ n \in configFaults <=> slot[n].fault
  /\ phase = "boot" =>
       /\ n \in configFaults => n \in failed
       /\ n \in failed => n \notin driver.todo /\ ~Installing(n)

Right(n) == Routed(n) /\ Retried(n) /\ Apt(n) /\ Told(n)

Targets ==
  /\ \A n \in driver.todo : driver.new[n] # NoEntry
  /\ driver.st = "start" => driver.new[driver.cur] # NoEntry
  /\ phase = "boot" => driver.new = registry

Sound ==
  /\ ~Running => driver.st = "idle"
  /\ Running => Targets /\ \A n \in Names : Right(n)
  /\ phase \in {"boot", "up", "stopReload"} => \A n \in Names : Linked(n)
  /\ phase \notin {"boot", "up", "stopReload"} =>
       \A n \in Names, k \in RetryIds : ~Live(retries[n][k])

\* Telling a supervisor to stop changes no entry.
LEMMA RetireEntry ==
  ASSUME NEW ss \in [SupIds -> Sups], NEW u \in SupIds \cup {None}, NEW v \in SupIds
  PROVE  Retire(ss, u)[v].entry = ss[v].entry
BY DEF Retire, Sups

\* No retry is called None.
LEMMA NoneIsNoRetry == None \notin RetryIds
BY DEF None, RetryIds

\* A step is about one surface; for the others nothing changes that the
\* invariant reads.
LEMMA OneSound ==
  ASSUME TypeOK, Sound, NEW n \in Names, phase' = phase,
         ~Running => driver'.st = "idle",
         \A q \in Names \ {n} :
           /\ slot'[q] = slot[q] /\ sups'[q] = sups[q] /\ retries'[q] = retries[q]
           /\ q \in failed' <=> q \in failed
           /\ q \in configFaults' <=> q \in configFaults
           /\ q \in reloadFailed' <=> q \in reloadFailed
           /\ q \in driver'.todo <=> q \in driver.todo
           /\ Now(q)' = Now(q)
           /\ Installing(q)' <=> Installing(q)
           /\ Installing(q) => driver'.sup = driver.sup /\ driver'.new = driver.new,
         Running => Targets' /\ Right(n)',
         phase \in {"boot", "up", "stopReload"} => Linked(n)',
         phase \notin {"boot", "up", "stopReload"} => \A k \in RetryIds : ~Live(retries'[n][k])
  PROVE  Sound'
<1>1. ASSUME NEW q \in Names, q # n, Running
      PROVE  Right(q)'
  <2>1. Right(q)
    BY <1>1 DEF Sound
  <2>2. Routed(q)'
    BY <1>1, <2>1 DEF Right, Routed
  <2>3. Retried(q)'
    BY <1>1, <2>1 DEF Right, Retried, Pending, Live
  <2>4. Apt(q)'
    BY <1>1, <2>1 DEF Right, Apt, Serving
  <2>5. Told(q)'
    BY <1>1, <2>1 DEF Right, Told, Pending
  <2> QED  BY <2>2, <2>3, <2>4, <2>5 DEF Right
<1>2. ASSUME NEW q \in Names, q # n, phase \in {"boot", "up", "stopReload"}
      PROVE  Linked(q)'
  BY <1>2 DEF Sound, Linked, Live
<1>3. ASSUME phase \notin {"boot", "up", "stopReload"}
      PROVE  \A q \in Names, k \in RetryIds : ~Live(retries[q][k])'
  BY <1>3 DEF Sound, Live
<1>4. Running' <=> Running
  BY DEF Running
<1> QED  BY <1>1, <1>2, <1>3, <1>4 DEF Sound, Live

\* A retry that is alive is the one its slot names, and no other task installs
\* an app there.
LEMMA LiveRetry ==
  ASSUME TypeOK, Sound, NEW n \in Names, NEW k \in RetryIds, Live(retries[n][k])
  PROVE  /\ phase \in {"up", "stopReload"}
         /\ slot[n].in /\ slot[n].retry = k /\ retries[n][k].slot = "table"
         /\ \A l \in RetryIds : l # k => ~Live(retries[n][l])
         /\ Linked(n)
         /\ phase = "up" => Right(n) /\ Targets /\ ~Installing(n)
<1>1. phase \in {"boot", "up", "stopReload"}
  BY DEF Sound
<1>2. Linked(n)
  BY <1>1 DEF Sound
<1>3. /\ slot[n].in /\ slot[n].retry = k /\ retries[n][k].slot = "table"
      /\ \A l \in RetryIds : l # k => ~Live(retries[n][l])
  BY <1>2 DEF Linked
<1>4. phase \in {"boot", "up"} => Right(n) /\ Targets
  BY DEF Sound, Running
<1>5. k # None
  BY DEF RetryIds, None
<1>6. phase \in {"boot", "up"} => ~Installing(n) /\ phase # "boot"
  BY <1>3, <1>4, <1>5 DEF Right, Retried
<1> QED  BY <1>1, <1>2, <1>3, <1>4, <1>6

\* A step of a live retry: when what it leaves at its surface is right, it is.
LEMMA RetrySound ==
  ASSUME TypeOK, Sound, NEW n \in Names, NEW k \in RetryIds, Live(retries[n][k]),
         phase' = phase, driver' = driver, registry' = registry,
         \A q \in Names \ {n} :
           /\ slot'[q] = slot[q] /\ sups'[q] = sups[q] /\ retries'[q] = retries[q]
           /\ q \in failed' <=> q \in failed
           /\ q \in configFaults' <=> q \in configFaults
           /\ q \in reloadFailed' <=> q \in reloadFailed,
         Linked(n)',
         phase = "up" => Right(n)'
  PROVE  Sound'
<1>1. \A q \in Names : Now(q)' = Now(q) /\ (Installing(q)' <=> Installing(q))
  BY DEF Now, Installing
<1>2. phase \in {"up", "stopReload"}
  BY LiveRetry
<1>3. Running => phase = "up" /\ Targets'
  BY <1>2 DEF Running, Sound, Targets
<1>4. ~Running => driver'.st = "idle"
  BY DEF Sound
<1> QED  BY <1>1, <1>2, <1>3, <1>4, OneSound

\* A retry wakes, or its attach fails for a reason that may pass.
LEMMA SoundRetryWakes ==
  ASSUME TypeOK, Sound, NEW n \in Names, NEW k \in RetryIds,
         RetryWakes(n, k) \/ RetryAttachTransient(n, k)
  PROVE  Sound'
<1> DEFINE rs == retries[n]
<1>1. PICK x \in {"sleep", "attach"} : retries' = [retries EXCEPT ![n][k].st = x]
  BY DEF RetryWakes, RetryAttachTransient
<1> DEFINE r == [rs[k] EXCEPT !.st = x]
           rs2 == [rs EXCEPT ![k] = r]
<1>2. rs \in [RetryIds -> Retries] /\ Live(rs[k])
  BY DEF RetryWakes, RetryAttachTransient, Live, TypeOK
<1>3. /\ r.st = x /\ Live(r)
      /\ r.slot = rs[k].slot /\ r.entry = rs[k].entry /\ r.st # "start"
  BY <1>2 DEF Retries, Live
<1>4. retries'[n] = rs2 /\ \A q \in Names \ {n} : retries'[q] = retries[q]
  BY <1>1 DEF TypeOK
<1>5. /\ slot' = slot /\ sups' = sups /\ phase' = phase /\ driver' = driver
      /\ registry' = registry /\ configFaults' = configFaults /\ reloadFailed' = reloadFailed
      /\ failed' = failed \/ (SlotPending(n, k) /\ failed' = failed \cup {n})
  BY DEF RetryWakes, RetryAttachTransient
<1> HIDE DEF r
<1>6. \A l \in RetryIds : rs2[l] = IF l = k THEN r ELSE rs[l]
  BY <1>2
<1> HIDE DEF rs2
<1>7. Linked(n)'
  BY <1>2, <1>3, <1>4, <1>5, <1>6, LiveRetry DEF Linked, Live
<1>8. n \in failed' => n \in failed \/ Pending(n)
  BY <1>2, <1>5, LiveRetry DEF SlotPending, Pending
<1>9. ASSUME phase = "up" PROVE Right(n)'
  <2>1. Right(n) /\ ~Installing(n)
    BY <1>2, <1>9, LiveRetry
  <2>2. Now(n)' = Now(n) /\ (Installing(n)' <=> Installing(n)) /\ (Pending(n)' <=> Pending(n))
    BY <1>5 DEF Now, Installing, Pending
  <2>3. Routed(n)'
    BY <1>5, <2>1, <2>2 DEF Right, Routed
  <2>4. Retried(n)'
    BY <1>2, <1>3, <1>4, <1>5, <1>6, <1>9, <2>1, <2>2 DEF Right, Retried, Live
  <2>5. Apt(n)'
    BY <1>5, <2>1, <2>2 DEF Right, Apt, Serving
  <2>6. Told(n)'
    BY <1>5, <1>8, <1>9, <2>1, <2>2 DEF Right, Told
  <2> QED  BY <2>3, <2>4, <2>5, <2>6 DEF Right
<1> QED  BY <1>2, <1>4, <1>5, <1>7, <1>9, RetrySound

\* The attach of a retry succeeds: it starts a supervisor of its entry.
LEMMA SoundRetryAttachOk ==
  ASSUME TypeOK, Owners, Sound, NEW n \in Names, NEW k \in RetryIds, RetryAttachOk(n, k)
  PROVE  Sound'
<1> DEFINE ss == sups[n]
           rs == retries[n]
           new == [st |-> "starting", entry |-> rs[k].entry]
<1>1. PICK u \in Lowest(FreeSups(n)) :
        /\ sups' = [sups EXCEPT ![n][u] = new]
        /\ retries' = [retries EXCEPT ![n][k] = [@ EXCEPT !.st = "start", !.sup = u]]
  BY Zenon DEF RetryAttachOk
<1> DEFINE r == [rs[k] EXCEPT !.st = "start", !.sup = u]
           rs2 == [rs EXCEPT ![k] = r]
           ss2 == [ss EXCEPT ![u] = new]
<1>2. u \in SupIds /\ ss[u].st = "free"
  BY DEF Lowest, FreeSups
<1>3. rs \in [RetryIds -> Retries] /\ ss \in [SupIds -> Sups] /\ rs[k].st = "attach" /\ Live(rs[k])
  BY DEF RetryAttachOk, Live, TypeOK
<1>4. r.st = "start" /\ r.sup = u /\ r.slot = rs[k].slot /\ r.entry = rs[k].entry /\ Live(r)
  BY <1>3 DEF Retries, Live
<1>5. new.entry = rs[k].entry
  OBVIOUS
<1>6. /\ retries'[n] = rs2 /\ sups'[n] = ss2
      /\ \A q \in Names \ {n} : retries'[q] = retries[q] /\ sups'[q] = sups[q]
  BY <1>1 DEF TypeOK
<1> HIDE DEF r, new
<1>7. /\ \A l \in RetryIds : rs2[l] = IF l = k THEN r ELSE rs[l]
      /\ \A v \in SupIds : ss2[v] = IF v = u THEN new ELSE ss[v]
  BY <1>3
<1> HIDE DEF rs2, ss2
<1>8. /\ slot' = slot /\ phase' = phase /\ driver' = driver /\ registry' = registry
      /\ failed' = failed /\ configFaults' = configFaults /\ reloadFailed' = reloadFailed
  BY DEF RetryAttachOk
<1>9. Linked(n)'
  BY <1>3, <1>4, <1>6, <1>7, <1>8, LiveRetry DEF Linked, Live
<1>10. ASSUME phase = "up" PROVE Right(n)'
  <2>1. Right(n) /\ ~Installing(n) /\ \A l \in RetryIds : l # k => ~Live(rs[l])
    BY <1>3, <1>10, LiveRetry
  <2>2. Now(n)' = Now(n) /\ (Installing(n)' <=> Installing(n)) /\ (Pending(n)' <=> Pending(n))
    BY <1>8 DEF Now, Installing, Pending
  <2>3. Kept(slot[n], ss, rs, Held(n))
    BY <1>10, OneSurface DEF Early
  <2>4. Routed(n)'
    BY <1>8, <2>1, <2>2 DEF Right, Routed
  <2>5. Retried(n)'
    BY <1>2, <1>3, <1>4, <1>5, <1>6, <1>7, <1>8, <1>10, <2>1, <2>2 DEF Right, Retried, Live
  <2>6. Serving(n) => slot[n].sup \in SupIds /\ slot[n].sup # u
    BY <1>2, <2>3 DEF Serving, Kept, TypeOK, Slots
  <2>7. Apt(n)'
    BY <1>6, <1>7, <1>8, <2>1, <2>2, <2>6 DEF Right, Apt, Serving
  <2>8. Told(n)'
    BY <1>8, <1>10, <2>1, <2>2 DEF Right, Told
  <2> QED  BY <2>4, <2>5, <2>7, <2>8 DEF Right
<1> QED  BY <1>3, <1>6, <1>8, <1>9, <1>10, RetrySound

\* A configuration fault ends the retry: the surface says that it needs a change.
LEMMA SoundRetryAttachFault ==
  ASSUME TypeOK, Sound, NEW n \in Names, NEW k \in RetryIds, RetryAttachFault(n, k)
  PROVE  Sound'
<1> DEFINE s == slot[n]
           rs == retries[n]
           b == s.fault \/ s.sup = None
           t == [RetryDone(n, k, s) EXCEPT !.fault = b]
           rs2 == [rs EXCEPT ![k] = FreeRetry]
<1>1. rs[k].st = "attach" /\ Live(rs[k]) /\ rs \in [RetryIds -> Retries] /\ s \in Slots
  BY DEF RetryAttachFault, Live, TypeOK
<1>2. s.in /\ s.retry = k /\ rs[k].slot = "table" /\ \A l \in RetryIds : l # k => ~Live(rs[l])
  BY <1>1, LiveRetry
<1>3. /\ retries'[n] = rs2 /\ \A q \in Names \ {n} : retries'[q] = retries[q]
      /\ slot'[n] = t /\ \A q \in Names \ {n} : slot'[q] = slot[q]
  BY <1>2 DEF RetryAttachFault, TypeOK
<1>4. /\ sups' = sups /\ phase' = phase /\ driver' = driver /\ registry' = registry
      /\ reloadFailed' = reloadFailed
      /\ s.sup = None => failed' = failed \cup {n} /\ configFaults' = configFaults \cup {n}
      /\ s.sup # None => failed' = failed /\ configFaults' = configFaults
  BY <1>2 DEF RetryAttachFault, SlotPending
<1> HIDE DEF b
<1>5. t.sup = s.sup /\ t.in /\ t.retry = None /\ t.fault = b
  BY <1>1, <1>2 DEF RetryDone, Slots
<1>6. \A l \in RetryIds : ~Live(rs2[l])
  BY <1>1, <1>2, FreeRetryIs
<1> HIDE DEF t, rs2
<1>7. Linked(n)'
  BY <1>3, <1>5, <1>6, NoneIsNoRetry DEF Linked, Live
<1>8. ASSUME phase = "up" PROVE Right(n)'
  <2>1. Right(n) /\ ~Installing(n)
    BY <1>1, <1>8, LiveRetry
  <2>2. /\ Now(n)' = Now(n) /\ ~Installing(n)' /\ (Pending(n)' <=> s.sup = None)
        /\ Pending(n) <=> s.sup = None
    BY <1>2, <1>3, <1>4, <1>5, <2>1 DEF Now, Installing, Pending
  <2>3. Routed(n)'
    BY <1>2, <1>3, <1>5, <2>1, <2>2 DEF Right, Routed
  <2>4. Pending(n)' => slot'[n].fault
    BY <1>3, <1>5, <2>2 DEF b
  <2>5. Retried(n)'
    BY <1>3, <1>4, <1>5, <1>6, <1>8, <2>2, <2>4 DEF Retried, Live
  <2>6. Apt(n)'
    BY <1>2, <1>3, <1>4, <1>5, <2>1, <2>2 DEF Right, Apt, Serving
  <2>7. s.sup # None => b = s.fault
    BY <1>1 DEF b, Slots
  <2>8. s.sup = None => b
    BY DEF b
  <2>9. n \in configFaults' <=> slot'[n].fault
    BY <1>3, <1>4, <1>5, <2>1, <2>7, <2>8 DEF Right, Told
  <2>10. Told(n)'
    BY <1>4, <1>8, <2>1, <2>2, <2>9 DEF Right, Told
  <2> QED  BY <2>3, <2>5, <2>6, <2>10 DEF Right
<1>9. \A q \in Names \ {n} :
        /\ q \in failed' <=> q \in failed
        /\ q \in configFaults' <=> q \in configFaults
  BY <1>4
<1> QED  BY <1>1, <1>3, <1>4, <1>7, <1>8, <1>9, RetrySound

\* The app of a retry does not start.
LEMMA SoundRetryStartFails ==
  ASSUME TypeOK, Owners, Sound, NEW n \in Names, NEW k \in RetryIds, RetryStartFails(n, k)
  PROVE  Sound'
<1> DEFINE ss == sups[n]
           rs == retries[n]
           u == rs[k].sup
           r == [rs[k] EXCEPT !.st = "sleep", !.sup = None]
           rs2 == [rs EXCEPT ![k] = r]
           ss2 == [ss EXCEPT ![u] = FreeSup]
<1>1. /\ rs[k].st = "start" /\ Live(rs[k])
      /\ rs \in [RetryIds -> Retries] /\ ss \in [SupIds -> Sups]
  BY DEF RetryStartFails, Live, TypeOK
<1>2. /\ retries'[n] = rs2 /\ sups'[n] = ss2
      /\ \A q \in Names \ {n} : retries'[q] = retries[q] /\ sups'[q] = sups[q]
  BY DEF RetryStartFails, TypeOK
<1>3. /\ slot' = slot /\ phase' = phase /\ driver' = driver /\ registry' = registry
      /\ failed' = failed /\ configFaults' = configFaults /\ reloadFailed' = reloadFailed
  BY DEF RetryStartFails
<1>4. /\ r.st = "sleep" /\ r.slot = rs[k].slot /\ r.entry = rs[k].entry /\ Live(r)
  BY <1>1 DEF Retries, Live
<1> HIDE DEF r, u
<1>5. /\ \A l \in RetryIds : rs2[l] = IF l = k THEN r ELSE rs[l]
      /\ \A v \in SupIds : v # u => ss2[v] = ss[v]
  BY <1>1
<1> HIDE DEF rs2, ss2
<1>6. Linked(n)'
  BY <1>1, <1>2, <1>3, <1>4, <1>5, LiveRetry DEF Linked, Live
<1>7. ASSUME phase = "up" PROVE Right(n)'
  <2>1. Right(n) /\ ~Installing(n) /\ \A l \in RetryIds : l # k => ~Live(rs[l])
    BY <1>1, <1>7, LiveRetry
  <2>2. Now(n)' = Now(n) /\ (Installing(n)' <=> Installing(n)) /\ (Pending(n)' <=> Pending(n))
    BY <1>3 DEF Now, Installing, Pending
  <2>3. Kept(slot[n], ss, rs, Held(n))
    BY <1>7, OneSurface DEF Early
  <2>4. Routed(n)'
    BY <1>3, <2>1, <2>2 DEF Right, Routed
  <2>5. Retried(n)'
    BY <1>1, <1>2, <1>3, <1>4, <1>5, <1>7, <2>1, <2>2 DEF Right, Retried, Live
  <2>6. Serving(n) => slot[n].sup \in SupIds /\ slot[n].sup # u
    BY <1>1, <2>3 DEF Serving, Kept, TypeOK, Slots, u
  <2>7. Apt(n)'
    BY <1>2, <1>3, <1>5, <2>1, <2>2, <2>6 DEF Right, Apt, Serving
  <2>8. Told(n)'
    BY <1>3, <1>7, <2>1, <2>2 DEF Right, Told
  <2> QED  BY <2>4, <2>5, <2>7, <2>8 DEF Right
<1> QED  BY <1>1, <1>2, <1>3, <1>6, <1>7, RetrySound

\* The app of a retry serves the entry that was to be retried.
LEMMA SoundRetryStartOk ==
  ASSUME TypeOK, Owners, Sound, NEW n \in Names, NEW k \in RetryIds, RetryStartOk(n, k)
  PROVE  Sound'
<1> DEFINE s == slot[n]
           ss == sups[n]
           rs == retries[n]
           u == rs[k].sup
           t == [RetryDone(n, k, s) EXCEPT !.sup = u, !.fault = FALSE]
           ss2 == [ss EXCEPT ![u].st = "serving"]
           ss3 == Retire(ss2, s.sup)
           rs2 == [rs EXCEPT ![k] = FreeRetry]
<1>1. /\ rs[k].st = "start" /\ Live(rs[k]) /\ s \in Slots /\ s.sup \in SupIds \cup {None}
      /\ rs \in [RetryIds -> Retries] /\ ss \in [SupIds -> Sups]
  BY DEF RetryStartOk, Live, TypeOK, Slots
<1>2. s.in /\ s.retry = k /\ rs[k].slot = "table" /\ \A l \in RetryIds : l # k => ~Live(rs[l])
  BY <1>1, LiveRetry
<1>3. /\ slot' = [slot EXCEPT ![n] = t] /\ sups' = [sups EXCEPT ![n] = ss3]
  BY <1>2 DEF RetryStartOk
<1>4. /\ retries'[n] = rs2 /\ slot'[n] = t /\ sups'[n] = ss3
      /\ \A q \in Names \ {n} :
           retries'[q] = retries[q] /\ slot'[q] = slot[q] /\ sups'[q] = sups[q]
  BY <1>3 DEF RetryStartOk, TypeOK
<1>5. /\ phase' = phase /\ driver' = driver /\ registry' = registry
      /\ failed' = failed \ {n} /\ configFaults' = configFaults \ {n}
      /\ reloadFailed' = reloadFailed \ {n}
  BY DEF RetryStartOk, Cleared
<1>6. t.sup = u /\ t.in /\ t.retry = None /\ t.fault = FALSE
  BY <1>1, <1>2 DEF RetryDone, Slots
<1>7. \A l \in RetryIds : ~Live(rs2[l])
  BY <1>1, <1>2, FreeRetryIs
<1> HIDE DEF t, rs2
<1>8. Linked(n)'
  BY <1>4, <1>6, <1>7, NoneIsNoRetry DEF Linked, Live
<1>9. ASSUME phase = "up" PROVE Right(n)'
  <2>1. Right(n) /\ ~Installing(n)
    BY <1>1, <1>9, LiveRetry
  <2>2. Kept(s, ss, rs, Held(n))
    BY <1>9, OneSurface DEF Early
  <2>3. u \in SupIds /\ u # None
    BY <1>1, <2>2, NoneIsNoSup DEF Kept
  <2>4. Now(n)' = Now(n) /\ ~Installing(n)' /\ ~Pending(n)'
    BY <1>4, <1>5, <1>6, <2>1, <2>3 DEF Now, Installing, Pending
  <2>5. ss3[u].entry = ss[u].entry
    <3>1. ss2 \in [SupIds -> Sups] /\ ss2[u].entry = ss[u].entry
      BY <1>1, <2>3 DEF Sups, SupStates
    <3> HIDE DEF ss2, u
    <3> QED  BY <1>1, <2>3, <3>1, RetireEntry
  <2> HIDE DEF ss3, ss2
  <2>6. ss3[u].entry = Now(n)
    BY <1>1, <2>1, <2>5 DEF Right, Retried
  <2> HIDE DEF u
  <2>7. Routed(n)'
    BY <1>2, <1>4, <1>6, <2>1, <2>4 DEF Right, Routed
  <2>8. Retried(n)'
    BY <1>4, <1>5, <1>6, <1>7, <1>9, <2>4 DEF Retried, Live
  <2>9. Apt(n)'
    BY <1>4, <1>6, <2>4, <2>6 DEF Apt
  <2>10. Told(n)'
    BY <1>4, <1>5, <1>6, <1>9, <2>4 DEF Told
  <2> QED  BY <2>7, <2>8, <2>9, <2>10 DEF Right
<1>10. \A q \in Names \ {n} :
         /\ q \in failed' <=> q \in failed
         /\ q \in configFaults' <=> q \in configFaults
         /\ q \in reloadFailed' <=> q \in reloadFailed
  BY <1>5
<1> QED  BY <1>1, <1>4, <1>5, <1>8, <1>9, <1>10, RetrySound

\* An app dies while nothing is being reloaded: its surface says so and is
\* retried.
LEMMA SoundAppDies ==
  ASSUME TypeOK, Owners, Sound, DieAnytime = FALSE,
         NEW n \in Names, NEW u \in SupIds, AppDies(n, u)
  PROVE  Sound'
<1> DEFINE s == slot[n]
           ss == sups[n]
           rs == retries[n]
           ss2 == [ss EXCEPT ![u].st = "dying"]
<1>1. /\ ss[u].st = "serving" /\ phase = "up" /\ driver.st = "idle"
      /\ s \in Slots /\ rs \in [RetryIds -> Retries] /\ ss \in [SupIds -> Sups]
  BY DEF AppDies, TypeOK
<1>2. Kept(s, ss, rs, Held(n))
  BY <1>1, OneSurface DEF Early
<1>3. s.in /\ s.sup = u /\ s.sup # None
  BY <1>1, <1>2, NoneIsNoSup DEF Kept
<1>4. /\ phase' = phase /\ driver' = driver /\ registry' = registry /\ ServingFailed(n)
      /\ configFaults' = configFaults /\ reloadFailed' = reloadFailed
      /\ sups'[n] = ss2 /\ \A q \in Names \ {n} : sups'[q] = sups[q]
  BY <1>3 DEF AppDies, TypeOK
<1>5. failed' = failed \cup {n}
  BY <1>4 DEF ServingFailed
<1>6. Right(n) /\ Linked(n) /\ Targets
  BY <1>1 DEF Sound, Running
<1>7. Now(n) = registry[n] /\ registry[n] # NoEntry /\ ~Installing(n)
  BY <1>1, <1>3, <1>6 DEF Right, Routed, Now, Installing
<1>8. \A v \in SupIds : ss2[v].entry = ss[v].entry
  BY <1>1 DEF Sups
<1> HIDE DEF ss2
<1>9. /\ \A q \in Names : Now(q)' = Now(q) /\ (Installing(q)' <=> Installing(q))
      /\ Targets'
  BY <1>4, <1>6 DEF Now, Installing, Targets
<1>10. ASSUME NEW t, NEW rs2, t.in, t.sup = None, t.fault = s.fault,
              slot'[n] = t, retries'[n] = rs2,
              \A q \in Names \ {n} : slot'[q] = slot[q] /\ retries'[q] = retries[q],
              t.retry \in RetryIds,
              \A l \in RetryIds : Live(rs2[l]) <=> t.retry = l,
              \A l \in RetryIds : Live(rs2[l]) =>
                rs2[l].slot = "table" /\ rs2[l].entry = registry[n],
              \A l \in RetryIds : rs2[l].st = "start" => rs2[l] = rs[l]
       PROVE  Sound'
  <2>1. Linked(n)'
    BY <1>10 DEF Linked, Live
  <2>2. Pending(n)'
    BY <1>10 DEF Pending
  <2>3. Routed(n)'
    BY <1>7, <1>9, <1>10 DEF Routed
  <2>4. Retried(n)'
    <3>1. \A l \in RetryIds : rs[l].st = "start" =>
            rs[l].sup \in SupIds /\ ss[rs[l].sup].entry = rs[l].entry
      BY <1>2, <1>6 DEF Kept, Right, Retried
    <3> QED  BY <1>1, <1>4, <1>7, <1>8, <1>9, <1>10, <3>1, NoneIsNoRetry DEF Retried, Live
  <2>5. Apt(n)'
    BY <1>7, <1>9, <1>10 DEF Apt, Serving
  <2>6. Told(n)'
    BY <1>1, <1>4, <1>5, <1>6, <1>10, <2>2 DEF Right, Told
  <2>7. Right(n)'
    BY <2>3, <2>4, <2>5, <2>6 DEF Right
  <2> QED  BY <1>1, <1>4, <1>5, <1>9, <1>10, <2>1, <2>7, OneSound DEF Running
<1>11. ASSUME NEW k \in Lowest(FreeRetries(rs)), s.retry = None,
              slot' = [slot EXCEPT ![n] = [@ EXCEPT !.sup = None, !.retry = k]],
              retries' = [retries EXCEPT ![n][k] = NewRetry(registry[n])]
       PROVE  Sound'
  <2> DEFINE t == [s EXCEPT !.sup = None, !.retry = k]
             new == NewRetry(registry[n])
             rs2 == [rs EXCEPT ![k] = new]
  <2>1. k \in RetryIds
    BY DEF Lowest, FreeRetries
  <2>2. t.in /\ t.sup = None /\ t.fault = s.fault /\ t.retry = k
    BY <1>1, <1>3 DEF Slots
  <2>3. /\ slot'[n] = t /\ retries'[n] = rs2
        /\ \A q \in Names \ {n} : slot'[q] = slot[q] /\ retries'[q] = retries[q]
    BY <1>11 DEF TypeOK
  <2>4. Live(new) /\ new.slot = "table" /\ new.entry = registry[n] /\ new.st # "start"
    BY DEF NewRetry, Live
  <2>5. \A l \in RetryIds : ~Live(rs[l])
    BY <1>6, <1>11, NoneIsNoRetry DEF Linked
  <2> HIDE DEF t, new
  <2>6. \A l \in RetryIds : rs2[l] = IF l = k THEN new ELSE rs[l]
    BY <1>1
  <2> HIDE DEF rs2
  <2>7. \A l \in RetryIds : Live(rs2[l]) <=> t.retry = l
    BY <2>2, <2>4, <2>5, <2>6
  <2>8. \A l \in RetryIds : Live(rs2[l]) => rs2[l].slot = "table" /\ rs2[l].entry = registry[n]
    BY <2>4, <2>5, <2>6
  <2>9. \A l \in RetryIds : rs2[l].st = "start" => rs2[l] = rs[l]
    BY <2>4, <2>6
  <2> QED  BY <1>10, <2>1, <2>2, <2>3, <2>7, <2>8, <2>9
<1>12. ASSUME s.retry # None, slot' = [slot EXCEPT ![n].sup = None], retries' = retries
       PROVE  Sound'
  <2> DEFINE t == [s EXCEPT !.sup = None]
  <2>1. t.in /\ t.sup = None /\ t.fault = s.fault /\ t.retry = s.retry /\ s.retry \in RetryIds
    BY <1>1, <1>3, <1>12 DEF Slots
  <2>2. slot'[n] = t /\ \A q \in Names \ {n} : slot'[q] = slot[q]
    BY <1>12 DEF TypeOK
  <2> HIDE DEF t
  <2>3. \A l \in RetryIds :
          /\ Live(rs[l]) <=> t.retry = l
          /\ Live(rs[l]) => rs[l].slot = "table" /\ rs[l].entry = registry[n]
    BY <1>6, <1>7, <2>1 DEF Linked, Right, Retried
  <2> QED  BY <1>10, <1>12, <2>1, <2>2, <2>3
<1>13. \/ /\ s.retry = None
          /\ \E k \in Lowest(FreeRetries(rs)) :
               /\ slot' = [slot EXCEPT ![n] = [@ EXCEPT !.sup = None, !.retry = k]]
               /\ retries' = [retries EXCEPT ![n][k] = NewRetry(registry[n])]
       \/ s.retry # None /\ slot' = [slot EXCEPT ![n].sup = None] /\ retries' = retries
  BY <1>4, <1>7, Zenon DEF ServingFailed
<1> QED  BY <1>11, <1>12, <1>13

\* Closing an app changes nothing of the surfaces.
LEMMA SoundSupCloses ==
  ASSUME TypeOK, Owners, Sound, NEW n \in Names, NEW u \in SupIds, SupCloses(n, u)
  PROVE  Sound'
<1> DEFINE ss == sups[n]
           rs == retries[n]
           ss2 == [ss EXCEPT ![u] = FreeSup]
<1>1. /\ sups'[n] = ss2 /\ \A q \in Names \ {n} : sups'[q] = sups[q]
      /\ ss[u].st \in {"retiring", "dying"} /\ ss \in [SupIds -> Sups]
  BY DEF SupCloses, TypeOK
<1>2. /\ phase' = phase /\ driver' = driver /\ slot' = slot /\ retries' = retries
      /\ registry' = registry
      /\ failed' = failed /\ configFaults' = configFaults /\ reloadFailed' = reloadFailed
  BY DEF SupCloses
<1>3. \A v \in SupIds : v # u => ss2[v] = ss[v]
  BY <1>1
<1> HIDE DEF ss2
<1>4. ASSUME Running PROVE Targets' /\ Right(n)'
  <2>1. Right(n) /\ Targets
    BY <1>4 DEF Sound
  <2>2. Kept(slot[n], ss, rs, Held(n))
    BY <1>4, OneSurface DEF Early, Running
  <2>3. /\ Now(n)' = Now(n) /\ (Installing(n)' <=> Installing(n)) /\ (Pending(n)' <=> Pending(n))
        /\ Serving(n)' <=> Serving(n)
    BY <1>2 DEF Now, Installing, Pending, Serving
  <2>4. \A l \in RetryIds : rs[l].st = "start" => rs[l].sup \in SupIds /\ rs[l].sup # u
    BY <1>1, <2>2 DEF Kept
  <2>5. Serving(n) => slot[n].sup \in SupIds /\ slot[n].sup # u
    BY <1>1, <2>2 DEF Serving, Kept, TypeOK, Slots
  <2>6. Installing(n) => driver.sup \in SupIds /\ driver.sup # u
    <3>1. Installing(n) => driver.sup = Held(n) /\ driver.sup # None
      BY <1>4 DEF Installing, Held, Owners, Early, Running
    <3> QED  BY <1>1, <2>2, <3>1 DEF Kept
  <2>7. Routed(n)'
    BY <1>2, <2>1, <2>3 DEF Right, Routed
  <2>8. Retried(n)'
    BY <1>1, <1>2, <1>3, <2>1, <2>3, <2>4 DEF Right, Retried, Live
  <2>9. Apt(n)'
    BY <1>1, <1>2, <1>3, <2>1, <2>3, <2>5, <2>6 DEF Right, Apt
  <2>10. Told(n)'
    BY <1>2, <2>1, <2>3 DEF Right, Told
  <2>11. Targets'
    BY <1>2, <2>1 DEF Targets
  <2> QED  BY <2>7, <2>8, <2>9, <2>10, <2>11 DEF Right
<1>5. phase \in {"boot", "up", "stopReload"} => Linked(n)'
  BY <1>2 DEF Sound, Linked, Live
<1>6. phase \notin {"boot", "up", "stopReload"} => \A k \in RetryIds : ~Live(retries'[n][k])
  BY <1>2 DEF Sound
<1>7. \A q \in Names : Now(q)' = Now(q) /\ (Installing(q)' <=> Installing(q))
  BY <1>2 DEF Now, Installing
<1>8. ~Running => driver'.st = "idle"
  BY <1>2 DEF Sound
<1> QED  BY <1>1, <1>2, <1>4, <1>5, <1>6, <1>7, <1>8, OneSound

\* The driver works on one surface, at boot or in a reload.
LEMMA DriverSound ==
  ASSUME TypeOK, Sound, Running, NEW n \in Names, phase' = phase, registry' = registry,
         driver.st # "idle", driver'.st # "idle", driver'.new = driver.new,
         driver'.todo \cup {n} = driver.todo \cup {n},
         \A q \in Names \ {n} :
           /\ slot'[q] = slot[q] /\ sups'[q] = sups[q] /\ retries'[q] = retries[q]
           /\ q \in failed' <=> q \in failed
           /\ q \in configFaults' <=> q \in configFaults
           /\ q \in reloadFailed' <=> q \in reloadFailed
           /\ ~Installing(q) /\ ~Installing(q)',
         Targets' /\ Right(n)' /\ Linked(n)'
  PROVE  Sound'
<1>1. \A q \in Names \ {n} : (q \in driver'.todo <=> q \in driver.todo) /\ Now(q)' = Now(q)
  BY DEF Now
<1>2. phase \in {"boot", "up", "stopReload"}
  BY DEF Running
<1> QED  BY <1>1, <1>2, OneSound

\* What _cancel_retry leaves: no live retry, the entries of the supervisors.
LEMMA CancelSound ==
  ASSUME TypeOK, NEW n \in Names, Linked(n)
  PROVE  /\ \A k \in RetryIds : ~Live(CancelledRetries(n)[k])
         /\ \A u \in SupIds : CancelledSups(n)[u].entry = sups[n][u].entry
         /\ CancelledSups(n) \in [SupIds -> Sups]
<1>1. /\ slot[n].retry \in RetryIds \cup {None} /\ sups[n] \in [SupIds -> Sups]
      /\ retries[n] \in [RetryIds -> Retries]
  BY DEF TypeOK, Slots
<1>2. \A k \in RetryIds : ~Live(CancelledRetries(n)[k])
  BY <1>1, FreeRetryIs, NoneIsNoRetry DEF CancelledRetries, Linked
<1>3. \A u \in SupIds : CancelledSups(n)[u].entry = sups[n][u].entry
  <2>1. CASE slot[n].retry = None
    BY <2>1 DEF CancelledSups
  <2>2. CASE slot[n].retry # None
    <3>1. retries[n][slot[n].retry].sup \in SupIds \cup {None}
      BY <1>1, <2>2 DEF Retries
    <3> QED  BY <1>1, <2>2, <3>1, RetireEntry DEF CancelledSups
  <2> QED  BY <2>1, <2>2
<1> QED  BY <1>2, <1>3, CancelType

\* _install up to its await: the supervisor of the new entry is started.
LEMMA InstallSound ==
  ASSUME TypeOK, Owners, Sound, Running, NEW n \in Names, driver.st = "step", n \in driver.todo,
         DriverInstalls(n)
  PROVE  /\ driver'.st = "start" /\ driver'.cur = n /\ driver'.new = driver.new
         /\ driver'.todo = driver.todo \ {n}
         /\ driver'.sup \in SupIds /\ sups'[n][driver'.sup].entry = driver.new[n]
         /\ \A q \in Names \ {n} : sups'[q] = sups[q] /\ ~Installing(q) /\ ~Installing(q)'
         /\ Installing(n)' /\ Now(n)' = driver.new[n] /\ driver.new[n] # NoEntry
<1> DEFINE new == [st |-> "starting", entry |-> driver.new[n]]
<1>1. PICK u \in Lowest(FreeSups(n)) :
        /\ sups' = [sups EXCEPT ![n] = [CancelledSups(n) EXCEPT ![u] = new]]
        /\ driver' = [driver EXCEPT !.st = "start", !.todo = @ \ {n}, !.cur = n, !.sup = u]
  BY DEF DriverInstalls
<1>2. u \in SupIds /\ Linked(n) /\ CancelledSups(n) \in [SupIds -> Sups]
  BY CancelSound DEF Lowest, FreeSups, Sound, Running
<1>3. /\ driver'.st = "start" /\ driver'.cur = n /\ driver'.sup = u
      /\ driver'.todo = driver.todo \ {n} /\ driver'.new = driver.new
  BY <1>1 DEF TypeOK, Drivers
<1>4. driver.new[n] # NoEntry
  BY DEF Sound, Targets
<1>5. Now(n)' = driver.new[n]
  BY <1>3, <1>4 DEF Now
<1>6. new.entry = driver.new[n]
  OBVIOUS
<1> HIDE DEF new
<1>7. sups'[n][u].entry = driver.new[n] /\ \A q \in Names \ {n} : sups'[q] = sups[q]
  BY <1>1, <1>2, <1>6 DEF TypeOK
<1> QED  BY <1>2, <1>3, <1>4, <1>5, <1>7 DEF Installing

\* Boot starts the app of a surface that it attached.
LEMMA SoundBootInstall ==
  ASSUME TypeOK, Owners, Sound, NEW n \in Names, BootInstall(n)
  PROVE  Sound'
<1>1. /\ phase = "boot" /\ phase' = phase /\ driver.st = "step" /\ n \in driver.todo
      /\ slot' = slot /\ retries' = retries /\ registry' = registry /\ DriverInstalls(n)
      /\ failed' = failed /\ configFaults' = configFaults /\ reloadFailed' = reloadFailed
  BY DEF BootInstall
<1>2. Running /\ Right(n) /\ Linked(n) /\ Targets
  BY <1>1 DEF Running, Sound
<1>3. /\ driver'.st = "start" /\ driver'.cur = n /\ driver'.new = driver.new
      /\ driver'.todo = driver.todo \ {n}
      /\ driver'.sup \in SupIds /\ sups'[n][driver'.sup].entry = driver.new[n]
      /\ \A q \in Names \ {n} : sups'[q] = sups[q] /\ ~Installing(q) /\ ~Installing(q)'
      /\ Installing(n)' /\ Now(n)' = driver.new[n] /\ driver.new[n] # NoEntry
  BY <1>1, <1>2, InstallSound
<1>4. Now(n) = driver.new[n] /\ (Pending(n)' <=> Pending(n))
  BY <1>1, <1>2 DEF Now, Targets, Pending
<1>5. Targets'
  BY <1>1, <1>2, <1>3 DEF Targets
<1>6. slot[n].retry = None /\ \A k \in RetryIds : ~Live(retries[n][k])
  BY <1>1, <1>2, NoneIsNoRetry DEF Right, Retried, Linked
<1>7. Routed(n)'
  BY <1>1, <1>2, <1>3, <1>4 DEF Right, Routed
<1>8. Retried(n)'
  BY <1>1, <1>3, <1>6 DEF Retried, Live
<1>9. Apt(n)'
  BY <1>3 DEF Apt
<1>10. Told(n)'
  BY <1>1, <1>2, <1>3, <1>4 DEF Right, Told
<1>11. Linked(n)'
  BY <1>1, <1>2 DEF Linked, Live
<1>12. Right(n)'
  BY <1>7, <1>8, <1>9, <1>10 DEF Right
<1> QED  BY <1>1, <1>2, <1>3, <1>5, <1>11, <1>12, DriverSound

\* The slot that a reload works on.
LEMMA TargetSlotIs ==
  ASSUME TypeOK, NEW n \in Names
  PROVE  /\ TargetSlot(n).in /\ TargetSlot(n).retry = None /\ TargetSlot(n) \in Slots
         /\ TargetSlot(n).sup = slot[n].sup /\ TargetSlot(n).fault = slot[n].fault
BY DEF TargetSlot, TypeOK, Slots

\* Reload starts the app of a target that it attached; the retry there is cancelled.
LEMMA SoundReloadInstall ==
  ASSUME TypeOK, Owners, Sound, NEW n \in Names, ReloadInstall(n)
  PROVE  Sound'
<1> DEFINE t == TargetSlot(n)
           rs2 == CancelledRetries(n)
<1>1. /\ phase = "up" /\ phase' = phase /\ driver.st = "step" /\ n \in driver.todo
      /\ slot' = [slot EXCEPT ![n] = t] /\ retries' = [retries EXCEPT ![n] = rs2]
      /\ registry' = registry /\ DriverInstalls(n)
      /\ failed' = failed /\ configFaults' = configFaults /\ reloadFailed' = reloadFailed
  BY DEF ReloadInstall, Takes
<1>2. Running /\ Right(n) /\ Linked(n) /\ Targets
  BY <1>1 DEF Running, Sound
<1>3. /\ driver'.st = "start" /\ driver'.cur = n /\ driver'.new = driver.new
      /\ driver'.todo = driver.todo \ {n}
      /\ driver'.sup \in SupIds /\ sups'[n][driver'.sup].entry = driver.new[n]
      /\ \A q \in Names \ {n} : sups'[q] = sups[q] /\ ~Installing(q) /\ ~Installing(q)'
      /\ Installing(n)' /\ Now(n)' = driver.new[n] /\ driver.new[n] # NoEntry
  BY <1>1, <1>2, InstallSound
<1>4. /\ slot'[n] = t /\ retries'[n] = rs2
      /\ \A q \in Names \ {n} : slot'[q] = slot[q] /\ retries'[q] = retries[q]
  BY <1>1 DEF TypeOK
<1>5. \A k \in RetryIds : ~Live(rs2[k])
  BY <1>2, CancelSound
<1>6. t.in /\ t.retry = None /\ t.sup = slot[n].sup /\ t.fault = slot[n].fault
  BY TargetSlotIs
<1> HIDE DEF t, rs2
<1>7. Targets'
  BY <1>1, <1>2, <1>3 DEF Targets
<1>8. Linked(n)'
  BY <1>4, <1>5, <1>6, NoneIsNoRetry DEF Linked, Live
<1>9. Routed(n)'
  BY <1>3, <1>4, <1>6 DEF Routed
<1>10. Retried(n)'
  BY <1>3, <1>4, <1>5, <1>6 DEF Retried, Live
<1>11. Apt(n)'
  BY <1>3 DEF Apt
<1>12. Told(n)'
  BY <1>1, <1>2, <1>3, <1>4, <1>6 DEF Right, Told, Pending
<1>13. Right(n)'
  BY <1>9, <1>10, <1>11, <1>12 DEF Right
<1> QED  BY <1>1, <1>2, <1>3, <1>4, <1>7, <1>8, <1>13, DriverSound

\* The app of boot or reload serves its entry.
LEMMA SoundDriverStartOk ==
  ASSUME TypeOK, Owners, Sound, NEW n \in Names, DriverStartOk(n)
  PROVE  Sound'
<1> DEFINE s == slot[n]
           h == driver.sup
           t == [s EXCEPT !.sup = h, !.fault = FALSE]
           ss2 == [sups[n] EXCEPT ![h].st = "serving"]
           ss3 == Retire(ss2, s.sup)
<1>1. /\ phase' = phase /\ driver.st = "start" /\ n = driver.cur
      /\ slot' = [slot EXCEPT ![n] = t] /\ sups' = [sups EXCEPT ![n] = ss3]
      /\ retries' = retries /\ registry' = registry
      /\ phase = "up" => /\ failed' = failed \ {n} /\ configFaults' = configFaults \ {n}
                         /\ reloadFailed' = reloadFailed \ {n}
      /\ phase # "up" => /\ failed' = failed /\ configFaults' = configFaults
                         /\ reloadFailed' = reloadFailed
      /\ driver' = [driver EXCEPT !.st = "step", !.cur = NoEntry, !.sup = None]
  BY DEF DriverStartOk, Installed, Cleared
<1>2. Running /\ Targets /\ Right(n) /\ Linked(n) /\ Installing(n)
  BY <1>1 DEF Sound, Running, Installing
<1>3. /\ h # None /\ h = Held(n) /\ n \notin driver.todo
      /\ Kept(s, sups[n], retries[n], Held(n))
      /\ s.sup \in SupIds \cup {None} /\ s \in Slots /\ sups[n] \in [SupIds -> Sups]
  BY <1>1, <1>2, OneSurface DEF Owners, Held, Early, Running
<1>4. s.in /\ h \in SupIds
  BY <1>3 DEF Kept
<1>5. t.in /\ t.sup = h /\ t.fault = FALSE /\ t.retry = s.retry
  BY <1>3, <1>4 DEF Slots
<1>6. s.retry = None /\ sups[n][h].entry = driver.new[n] /\ driver.new[n] # NoEntry
  BY <1>1, <1>2 DEF Right, Retried, Apt, Targets
<1>7. ss3[h].entry = driver.new[n]
  <2>1. ss2 \in [SupIds -> Sups] /\ ss2[h].entry = sups[n][h].entry
    BY <1>3, <1>4 DEF Sups, SupStates
  <2> HIDE DEF ss2
  <2> QED  BY <1>3, <1>4, <1>6, <2>1, RetireEntry
<1> HIDE DEF t, ss3
<1>8. /\ slot'[n] = t /\ sups'[n] = ss3
      /\ \A q \in Names \ {n} : slot'[q] = slot[q] /\ sups'[q] = sups[q]
  BY <1>1 DEF TypeOK
<1>9. driver'.st = "step" /\ driver'.todo = driver.todo /\ driver'.new = driver.new
  BY <1>1 DEF TypeOK, Drivers
<1>10. \A q \in Names : ~Installing(q)' /\ (q # n => ~Installing(q))
  BY <1>1, <1>9 DEF Installing
<1>11. Now(n)' = driver.new[n] /\ ~Pending(n)'
  BY <1>3, <1>5, <1>6, <1>8, <1>9 DEF Now, Pending
<1>12. Targets'
  BY <1>1, <1>2, <1>9 DEF Targets
<1>13. Linked(n)'
  BY <1>1, <1>2, <1>4, <1>5, <1>8 DEF Linked, Live
<1>14. Routed(n)'
  BY <1>5, <1>6, <1>8, <1>11 DEF Routed
<1>15. Retried(n)'
  BY <1>1, <1>2, <1>5, <1>6, <1>8, <1>11, NoneIsNoRetry DEF Retried, Live, Linked
<1>16. Apt(n)'
  BY <1>5, <1>7, <1>8, <1>10, <1>11 DEF Apt
<1>17. phase = "boot" => n \notin failed /\ n \notin configFaults
  BY <1>2 DEF Right, Told
<1>18. Told(n)'
  BY <1>1, <1>2, <1>5, <1>8, <1>11, <1>17 DEF Told, Running
<1>19. Right(n)'
  BY <1>14, <1>15, <1>16, <1>18 DEF Right
<1>20. \A q \in Names \ {n} :
         /\ q \in failed' <=> q \in failed
         /\ q \in configFaults' <=> q \in configFaults
         /\ q \in reloadFailed' <=> q \in reloadFailed
  BY <1>1
<1> QED  BY <1>1, <1>2, <1>8, <1>9, <1>10, <1>12, <1>13, <1>19, <1>20, DriverSound

\* _attach_failed() on a slot that is in the table with no live retry: it reports
\* the surface and, unless the fault needs a change, retries the new entry.
LEMMA AttachFailedSound ==
  ASSUME TypeOK, NEW n \in Names, NEW s \in Slots, NEW rs \in [RetryIds -> Retries],
         NEW fault \in BOOLEAN, AttachFailed(n, s, rs, fault),
         s.in, s.retry = None, \A k \in RetryIds : ~Live(rs[k]),
         n \in configFaults <=> s.fault, n \in failed => s.sup = None
  PROVE  /\ slot'[n].in /\ slot'[n].sup = s.sup
         /\ \A q \in Names \ {n} :
              /\ slot'[q] = slot[q] /\ retries'[q] = retries[q]
              /\ q \in failed' <=> q \in failed
              /\ q \in configFaults' <=> q \in configFaults
              /\ q \in reloadFailed' <=> q \in reloadFailed
         /\ n \in failed' <=> s.sup = None
         /\ n \in configFaults' <=> slot'[n].fault
         /\ s.sup # None => n \in reloadFailed'
         /\ s.sup = None /\ ~slot'[n].fault => slot'[n].retry # None
         /\ \A k \in RetryIds :
              /\ Live(retries'[n][k]) <=> slot'[n].retry = k
              /\ Live(retries'[n][k]) =>
                   retries'[n][k].slot = "table" /\ retries'[n][k].entry = driver.new[n]
              /\ retries'[n][k].st # "start"
<1> DEFINE b == IF s.sup = None THEN fault ELSE s.fault
           marked == [s EXCEPT !.fault = b]
           new == NewRetry(driver.new[n])
<1>1. marked \in Slots /\ marked.sup = s.sup /\ marked.in /\ marked.retry = None /\ marked.fault = b
  BY DEF Slots
<1>2. /\ \/ /\ fault
            /\ slot' = [slot EXCEPT ![n] = marked]
            /\ retries' = [retries EXCEPT ![n] = rs]
         \/ /\ ~fault
            /\ \E k \in Lowest(FreeRetries(rs)) :
                 /\ slot' = [slot EXCEPT ![n] = [marked EXCEPT !.retry = k]]
                 /\ retries' = [retries EXCEPT ![n] = [rs EXCEPT ![k] = new]]
  BY Zenon DEF AttachFailed
<1>3. /\ s.sup = None => /\ failed' = failed \cup {n} /\ reloadFailed' = reloadFailed
                         /\ configFaults' = IF fault THEN configFaults \cup {n}
                                            ELSE configFaults \ {n}
      /\ s.sup # None => /\ reloadFailed' = reloadFailed \cup {n} /\ failed' = failed
                         /\ configFaults' = configFaults
  BY DEF AttachFailed
<1>4. new.slot = "table" /\ new.entry = driver.new[n] /\ Live(new) /\ new.st # "start"
  BY DEF NewRetry, Live
<1>5. b \in BOOLEAN
  BY DEF Slots
<1>6. n \in configFaults' <=> b
  BY <1>3 DEF b
<1> HIDE DEF marked, new
<1>7. /\ \A q \in Names \ {n} :
           /\ q \in failed' <=> q \in failed
           /\ q \in configFaults' <=> q \in configFaults
           /\ q \in reloadFailed' <=> q \in reloadFailed
      /\ n \in failed' <=> s.sup = None
      /\ s.sup # None => n \in reloadFailed'
  BY <1>3
<1>8. ASSUME fault, slot' = [slot EXCEPT ![n] = marked], retries' = [retries EXCEPT ![n] = rs]
      PROVE  /\ slot'[n] = marked /\ retries'[n] = rs
             /\ \A q \in Names \ {n} : slot'[q] = slot[q] /\ retries'[q] = retries[q]
             /\ s.sup = None => b
  BY <1>8 DEF TypeOK
<1>9. ASSUME NEW k \in Lowest(FreeRetries(rs)),
             slot' = [slot EXCEPT ![n] = [marked EXCEPT !.retry = k]],
             retries' = [retries EXCEPT ![n] = [rs EXCEPT ![k] = new]]
      PROVE  /\ slot'[n].sup = s.sup /\ slot'[n].in /\ slot'[n].fault = b
             /\ slot'[n].retry = k /\ k \in RetryIds
             /\ \A l \in RetryIds : retries'[n][l] = IF l = k THEN new ELSE rs[l]
             /\ \A q \in Names \ {n} : slot'[q] = slot[q] /\ retries'[q] = retries[q]
  <2>1. k \in RetryIds
    BY DEF Lowest, FreeRetries
  <2>2. /\ [marked EXCEPT !.retry = k].sup = s.sup /\ [marked EXCEPT !.retry = k].in
        /\ [marked EXCEPT !.retry = k].fault = b /\ [marked EXCEPT !.retry = k].retry = k
    BY <1>1 DEF Slots
  <2> QED  BY <1>9, <2>1, <2>2 DEF TypeOK
<1> HIDE DEF b
<1>10. \A k \in RetryIds : rs[k].st # "start"
  BY DEF Live
<1>11. ASSUME fault, slot' = [slot EXCEPT ![n] = marked], retries' = [retries EXCEPT ![n] = rs]
       PROVE  /\ slot'[n].in /\ slot'[n].sup = s.sup /\ slot'[n].fault = b
              /\ \A q \in Names \ {n} : slot'[q] = slot[q] /\ retries'[q] = retries[q]
              /\ s.sup = None /\ ~slot'[n].fault => slot'[n].retry # None
              /\ \A k \in RetryIds :
                   /\ Live(retries'[n][k]) <=> slot'[n].retry = k
                   /\ Live(retries'[n][k]) =>
                        retries'[n][k].slot = "table" /\ retries'[n][k].entry = driver.new[n]
                   /\ retries'[n][k].st # "start"
  <2>1. /\ slot'[n] = marked /\ retries'[n] = rs
        /\ \A q \in Names \ {n} : slot'[q] = slot[q] /\ retries'[q] = retries[q]
        /\ s.sup = None => b
    BY <1>8, <1>11
  <2>2. \A k \in RetryIds : ~Live(retries'[n][k]) /\ slot'[n].retry # k
    BY <1>1, <2>1, NoneIsNoRetry
  <2> QED  BY <1>1, <1>10, <2>1, <2>2
<1>12. ASSUME NEW j \in Lowest(FreeRetries(rs)),
              slot' = [slot EXCEPT ![n] = [marked EXCEPT !.retry = j]],
              retries' = [retries EXCEPT ![n] = [rs EXCEPT ![j] = new]]
       PROVE  /\ slot'[n].in /\ slot'[n].sup = s.sup /\ slot'[n].fault = b
              /\ \A q \in Names \ {n} : slot'[q] = slot[q] /\ retries'[q] = retries[q]
              /\ s.sup = None /\ ~slot'[n].fault => slot'[n].retry # None
              /\ \A k \in RetryIds :
                   /\ Live(retries'[n][k]) <=> slot'[n].retry = k
                   /\ Live(retries'[n][k]) =>
                        retries'[n][k].slot = "table" /\ retries'[n][k].entry = driver.new[n]
                   /\ retries'[n][k].st # "start"
  <2>1. /\ slot'[n].sup = s.sup /\ slot'[n].in /\ slot'[n].fault = b
        /\ slot'[n].retry = j /\ j \in RetryIds
        /\ \A l \in RetryIds : retries'[n][l] = IF l = j THEN new ELSE rs[l]
        /\ \A q \in Names \ {n} : slot'[q] = slot[q] /\ retries'[q] = retries[q]
    BY <1>9, <1>12
  <2>2. j # None
    BY <2>1, NoneIsNoRetry
  <2>3. ASSUME NEW k \in RetryIds
        PROVE  /\ Live(retries'[n][k]) <=> slot'[n].retry = k
               /\ Live(retries'[n][k]) =>
                    retries'[n][k].slot = "table" /\ retries'[n][k].entry = driver.new[n]
               /\ retries'[n][k].st # "start"
    BY <1>4, <1>10, <2>1
  <2> QED  BY <2>1, <2>2, <2>3
<1>13. /\ slot'[n].in /\ slot'[n].sup = s.sup /\ slot'[n].fault = b
       /\ \A q \in Names \ {n} : slot'[q] = slot[q] /\ retries'[q] = retries[q]
       /\ s.sup = None /\ ~slot'[n].fault => slot'[n].retry # None
       /\ \A k \in RetryIds :
            /\ Live(retries'[n][k]) <=> slot'[n].retry = k
            /\ Live(retries'[n][k]) =>
                 retries'[n][k].slot = "table" /\ retries'[n][k].entry = driver.new[n]
            /\ retries'[n][k].st # "start"
  BY <1>2, <1>11, <1>12, Zenon
<1>14. n \in configFaults' <=> slot'[n].fault
  BY <1>5, <1>6, <1>13, SMT
<1>15. \A q \in Names \ {n} :
         /\ slot'[q] = slot[q] /\ retries'[q] = retries[q]
         /\ q \in failed' <=> q \in failed
         /\ q \in configFaults' <=> q \in configFaults
         /\ q \in reloadFailed' <=> q \in reloadFailed
  BY <1>7, <1>13, SMT
<1> QED  BY <1>7, <1>13, <1>14, <1>15, Zenon

\* What an attach failure leaves at its surface is right.
LEMMA FailedIsRight ==
  ASSUME TypeOK, NEW n \in Names, phase' = "up", driver'.new = driver.new, ~Installing(n)',
         Now(n)' = driver.new[n], driver.new[n] # NoEntry,
         slot'[n].in,
         n \in failed' <=> slot'[n].sup = None,
         n \in configFaults' <=> slot'[n].fault,
         slot'[n].sup # None => n \in reloadFailed',
         slot'[n].sup = None /\ ~slot'[n].fault => slot'[n].retry # None,
         \A k \in RetryIds :
           /\ Live(retries'[n][k]) <=> slot'[n].retry = k
           /\ Live(retries'[n][k]) =>
                retries'[n][k].slot = "table" /\ retries'[n][k].entry = driver.new[n]
           /\ retries'[n][k].st # "start"
  PROVE  Right(n)' /\ Linked(n)'
<1>1. Routed(n)'
  BY DEF Routed
<1>2. Retried(n)'
  BY DEF Retried, Pending, Live
<1>3. Apt(n)'
  BY DEF Apt, Serving
<1>4. Told(n)'
  BY DEF Told, Pending
<1>5. Linked(n)'
  BY DEF Linked, Live
<1> QED  BY <1>1, <1>2, <1>3, <1>4, <1>5 DEF Right

\* Reload could not attach a target.
LEMMA SoundReloadTargetFailed ==
  ASSUME TypeOK, Owners, Sound, NEW n \in Names, ReloadTargetFailed(n)
  PROVE  Sound'
<1> DEFINE fault == driver.res[n] = "fault"
<1>1. /\ phase = "up" /\ phase' = phase /\ driver.st = "step" /\ n \in driver.todo
      /\ AttachFailed(n, TargetSlot(n), CancelledRetries(n), fault) /\ fault \in BOOLEAN
      /\ sups' = [sups EXCEPT ![n] = CancelledSups(n)] /\ registry' = registry
      /\ driver' = [driver EXCEPT !.todo = @ \ {n}]
  BY DEF ReloadTargetFailed, Takes
<1> HIDE DEF fault
<1>2. Running /\ Right(n) /\ Linked(n) /\ Targets
  BY <1>1 DEF Running, Sound
<1>3. /\ driver'.st = "step" /\ driver'.todo = driver.todo \ {n} /\ driver'.new = driver.new
  BY <1>1 DEF TypeOK, Drivers
<1>4. /\ Now(n)' = driver.new[n] /\ driver.new[n] # NoEntry
      /\ \A q \in Names : ~Installing(q) /\ ~Installing(q)'
  BY <1>1, <1>2, <1>3 DEF Now, Targets, Installing
<1>5. n \in failed => slot[n].sup = None
  BY <1>2 DEF Right, Told, Pending
<1>6. n \in configFaults <=> slot[n].fault
  BY <1>2 DEF Right, Told
<1> DEFINE s == TargetSlot(n)
           rs == CancelledRetries(n)
<1>7. /\ s.in /\ s.retry = None /\ s \in Slots /\ s.sup = slot[n].sup /\ s.fault = slot[n].fault
      /\ rs \in [RetryIds -> Retries] /\ \A k \in RetryIds : ~Live(rs[k])
  BY <1>2, TargetSlotIs, CancelSound, CancelType
<1>8. AttachFailed(n, s, rs, fault)
  BY <1>1
<1> HIDE DEF s, rs
<1>9. /\ slot'[n].in /\ slot'[n].sup = s.sup
      /\ \A q \in Names \ {n} :
           /\ slot'[q] = slot[q] /\ retries'[q] = retries[q]
           /\ q \in failed' <=> q \in failed
           /\ q \in configFaults' <=> q \in configFaults
           /\ q \in reloadFailed' <=> q \in reloadFailed
      /\ n \in failed' <=> s.sup = None
      /\ n \in configFaults' <=> slot'[n].fault
      /\ s.sup # None => n \in reloadFailed'
      /\ s.sup = None /\ ~slot'[n].fault => slot'[n].retry # None
      /\ \A k \in RetryIds :
           /\ Live(retries'[n][k]) <=> slot'[n].retry = k
           /\ Live(retries'[n][k]) =>
                retries'[n][k].slot = "table" /\ retries'[n][k].entry = driver.new[n]
           /\ retries'[n][k].st # "start"
  BY <1>1, <1>5, <1>6, <1>7, <1>8, AttachFailedSound
<1>10. Right(n)' /\ Linked(n)'
  BY <1>1, <1>3, <1>4, <1>9, FailedIsRight
<1>11. Targets'
  BY <1>1, <1>2, <1>3 DEF Targets
<1>12. \A q \in Names \ {n} : sups'[q] = sups[q]
  BY <1>1 DEF TypeOK
<1> QED  BY <1>1, <1>2, <1>3, <1>4, <1>9, <1>10, <1>11, <1>12, DriverSound

\* The app of a target that was attached does not start.
LEMMA SoundReloadStartFails ==
  ASSUME TypeOK, Owners, Sound, NEW n \in Names, ReloadStartFails(n)
  PROVE  Sound'
<1> DEFINE s == slot[n]
           rs == retries[n]
<1>0. PICK fault \in BOOLEAN : AttachFailed(n, s, rs, fault)
  BY DEF ReloadStartFails
<1>1. /\ phase = "up" /\ phase' = phase /\ driver.st = "start" /\ n = driver.cur
      /\ AttachFailed(n, s, rs, fault) /\ fault \in BOOLEAN /\ registry' = registry
      /\ sups' = [sups EXCEPT ![n][driver.sup] = FreeSup]
      /\ driver' = [driver EXCEPT !.st = "step", !.cur = NoEntry, !.sup = None]
  BY <1>0 DEF ReloadStartFails
<1>2. Running /\ Right(n) /\ Linked(n) /\ Targets /\ Installing(n)
  BY <1>1 DEF Running, Sound, Installing
<1>3. driver'.st = "step" /\ driver'.todo = driver.todo /\ driver'.new = driver.new
  BY <1>1 DEF TypeOK, Drivers
<1>4. n \notin driver.todo
  BY <1>1, <1>2 DEF Owners, Early
<1>5. /\ Now(n) = driver.new[n] /\ Now(n)' = driver.new[n] /\ driver.new[n] # NoEntry
      /\ \A q \in Names \ {n} : ~Installing(q)
      /\ \A q \in Names : ~Installing(q)'
  BY <1>1, <1>2, <1>3, <1>4 DEF Now, Targets, Installing
<1>6. /\ s.in /\ s.retry = None /\ s \in Slots /\ rs \in [RetryIds -> Retries]
      /\ \A k \in RetryIds : ~Live(rs[k])
  BY <1>2, <1>5, NoneIsNoRetry DEF Right, Routed, Retried, Linked, TypeOK
<1>7. (n \in failed => s.sup = None) /\ (n \in configFaults <=> s.fault)
  BY <1>2 DEF Right, Told, Pending
<1> HIDE DEF s, rs
<1>8. /\ slot'[n].in /\ slot'[n].sup = s.sup
      /\ \A q \in Names \ {n} :
           /\ slot'[q] = slot[q] /\ retries'[q] = retries[q]
           /\ q \in failed' <=> q \in failed
           /\ q \in configFaults' <=> q \in configFaults
           /\ q \in reloadFailed' <=> q \in reloadFailed
      /\ n \in failed' <=> s.sup = None
      /\ n \in configFaults' <=> slot'[n].fault
      /\ s.sup # None => n \in reloadFailed'
      /\ s.sup = None /\ ~slot'[n].fault => slot'[n].retry # None
      /\ \A k \in RetryIds :
           /\ Live(retries'[n][k]) <=> slot'[n].retry = k
           /\ Live(retries'[n][k]) =>
                retries'[n][k].slot = "table" /\ retries'[n][k].entry = driver.new[n]
           /\ retries'[n][k].st # "start"
  BY <1>1, <1>6, <1>7, AttachFailedSound
<1>9. Right(n)' /\ Linked(n)'
  BY <1>1, <1>3, <1>5, <1>8, FailedIsRight
<1>10. Targets'
  BY <1>1, <1>2, <1>3 DEF Targets
<1>11. \A q \in Names \ {n} : sups'[q] = sups[q]
  BY <1>1 DEF TypeOK
<1> QED  BY <1>1, <1>2, <1>3, <1>5, <1>8, <1>9, <1>10, <1>11, DriverSound

\* A reload begins or has attached: only the driver moves, and no surface sees it.
LEMMA SteadySound ==
  ASSUME TypeOK, Sound, Running, phase' = phase, registry' = registry, slot' = slot,
         sups' = sups, retries' = retries, failed' = failed, configFaults' = configFaults,
         reloadFailed' = reloadFailed, phase = "boot" => driver'.todo = driver.todo,
         \A q \in Names : Now(q)' = Now(q) /\ ~Installing(q) /\ ~Installing(q)',
         Targets'
  PROVE  Sound'
<1>1. ASSUME NEW q \in Names PROVE Right(q)' /\ Linked(q)'
  <2>1. Right(q) /\ Linked(q)
    BY DEF Sound, Running
  <2>2. (Pending(q)' <=> Pending(q)) /\ (Serving(q)' <=> Serving(q))
    BY DEF Pending, Serving
  <2>3. Routed(q)'
    BY <2>1 DEF Right, Routed
  <2>4. Retried(q)'
    BY <2>1, <2>2 DEF Right, Retried, Live
  <2>5. Apt(q)'
    BY <2>1, <2>2 DEF Right, Apt
  <2>6. Told(q)'
    BY <2>1, <2>2 DEF Right, Told
  <2>7. Linked(q)'
    BY <2>1 DEF Linked, Live
  <2> QED  BY <2>3, <2>4, <2>5, <2>6, <2>7 DEF Right
<1>2. Running' /\ phase' \in {"boot", "up", "stopReload"}
  BY DEF Running
<1> QED  BY <1>1, <1>2 DEF Sound

\* load_registry and diff: what the reload is to change is still as it was.
LEMMA SoundReloadStart ==
  ASSUME TypeOK, Sound, NEW new \in Registries, ReloadStart(new)
  PROVE  Sound'
<1> DEFINE targets == Added(new) \cup Changed(new)
           st == IF targets = {} THEN "step" ELSE "attach"
<1>1. /\ phase = "up" /\ phase' = phase /\ driver.st = "idle"
      /\ driver' = [IdleDriver EXCEPT !.st = st, !.new = new, !.todo = targets]
      /\ registry' = registry /\ slot' = slot /\ sups' = sups /\ retries' = retries
      /\ failed' = failed /\ configFaults' = configFaults /\ reloadFailed' = reloadFailed
  BY DEF ReloadStart
<1>2. st # "idle" /\ st # "start"
  OBVIOUS
<1> HIDE DEF st, targets
<1>3. driver'.st = st /\ driver'.new = new /\ driver'.todo = targets
  BY <1>1 DEF IdleDriver
<1>4. ASSUME NEW q \in Names
      PROVE  Now(q)' = Now(q) /\ ~Installing(q) /\ ~Installing(q)'
  <2>1. q \in targets \/ new[q] = NoEntry \/ new[q] = registry[q]
    BY DEF targets, Added, Changed
  <2> QED  BY <1>1, <1>2, <1>3, <2>1 DEF Now, Installing
<1>5. Targets'
  BY <1>1, <1>2, <1>3 DEF Targets, targets, Added, Changed
<1>6. Running
  BY <1>1 DEF Running
<1> QED  BY <1>1, <1>4, <1>5, <1>6, SteadySound

\* The attaches of a reload have ended.
LEMMA SoundReloadAttached ==
  ASSUME TypeOK, Sound, NEW res \in [Names -> Outcomes], ReloadAttached(res)
  PROVE  Sound'
<1>1. /\ driver.st = "attach" /\ driver' = [driver EXCEPT !.st = "step", !.res = res]
      /\ phase' = phase /\ registry' = registry /\ slot' = slot /\ sups' = sups
      /\ retries' = retries
      /\ failed' = failed /\ configFaults' = configFaults /\ reloadFailed' = reloadFailed
  BY DEF ReloadAttached
<1>2. driver'.st = "step" /\ driver'.new = driver.new /\ driver'.todo = driver.todo
  BY <1>1 DEF TypeOK, Drivers
<1>3. \A q \in Names : Now(q)' = Now(q) /\ ~Installing(q) /\ ~Installing(q)'
  BY <1>1, <1>2 DEF Now, Installing
<1>4. Running
  BY <1>1 DEF Sound
<1>5. Targets'
  BY <1>1, <1>2, <1>4 DEF Sound, Targets
<1> QED  BY <1>1, <1>2, <1>3, <1>4, <1>5, SteadySound

\* The end of reload(): the removed surfaces leave nothing, the new registry is
\* what the others follow already.
LEMMA SoundReloadDone ==
  ASSUME TypeOK, Sound, ReloadDone
  PROVE  Sound'
<1> DEFINE gone == Removed(driver.new)
<1>1. /\ phase = "up" /\ phase' = "up" /\ driver.st = "step" /\ driver.todo = {}
      /\ slot' = [n \in Names |-> IF n \in gone THEN NoSlot ELSE slot[n]]
      /\ sups' = [n \in Names |->
           IF n \in gone THEN Retire(CancelledSups(n), slot[n].sup) ELSE sups[n]]
      /\ retries' = [n \in Names |-> IF n \in gone THEN Orphaned(n) ELSE retries[n]]
      /\ failed' = failed \ gone /\ configFaults' = configFaults \ gone
      /\ reloadFailed' = reloadFailed \ gone
      /\ registry' = driver.new /\ driver' = IdleDriver
  BY Zenon DEF ReloadDone, Cleared
<1>2. /\ driver'.st = "idle" /\ Running /\ Running'
  BY <1>1 DEF IdleDriver, Running
<1>3. \A q \in Names : ~Installing(q) /\ ~Installing(q)' /\ Now(q)' = driver.new[q]
  BY <1>1, <1>2 DEF Installing, Now
<1>4. \A q \in Names : (q \in gone => driver.new[q] = NoEntry) /\ (q \notin gone => Now(q)' = Now(q))
  BY <1>1, <1>2, <1>3 DEF Removed, Now
<1> HIDE DEF gone
<1>5. \A q \in Names : Right(q) /\ Linked(q)
  BY <1>2 DEF Sound, Running
<1>6. ASSUME NEW q \in Names, q \in gone
      PROVE  Right(q)' /\ Linked(q)'
  <2>1. slot'[q] = NoSlot /\ ~slot'[q].in /\ slot'[q].retry = None /\ slot'[q].sup = None
        /\ ~slot'[q].fault
    BY <1>1, <1>6 DEF NoSlot
  <2>2. \A k \in RetryIds : ~Live(Orphaned(q)[k])
    BY <1>5, CancelSound DEF Orphaned, Linked
  <2>3. \A k \in RetryIds : ~Live(retries'[q][k])
    BY <1>1, <1>6, <2>2
  <2>4. Linked(q)'
    BY <2>1, <2>3, NoneIsNoRetry DEF Linked, Live
  <2>5. Routed(q)'
    BY <1>3, <1>4, <1>6, <2>1 DEF Routed
  <2>6. Retried(q)'
    BY <1>1, <1>3, <2>1, <2>3 DEF Retried, Live, Pending
  <2>7. Apt(q)'
    BY <1>3, <2>1 DEF Apt, Serving
  <2>8. Told(q)'
    BY <1>1, <1>3, <1>6, <2>1 DEF Told, Pending
  <2> QED  BY <2>4, <2>5, <2>6, <2>7, <2>8 DEF Right
<1>7. ASSUME NEW q \in Names, q \notin gone
      PROVE  Right(q)' /\ Linked(q)'
  <2>1. /\ slot'[q] = slot[q] /\ sups'[q] = sups[q] /\ retries'[q] = retries[q]
        /\ q \in failed' <=> q \in failed
        /\ q \in configFaults' <=> q \in configFaults
        /\ q \in reloadFailed' <=> q \in reloadFailed
        /\ Now(q)' = Now(q)
    BY <1>1, <1>4, <1>7
  <2>2. (Pending(q)' <=> Pending(q)) /\ (Serving(q)' <=> Serving(q))
    BY <2>1 DEF Pending, Serving
  <2>3. Linked(q)'
    BY <1>5, <2>1 DEF Linked, Live
  <2>4. Routed(q)'
    BY <1>5, <2>1 DEF Right, Routed
  <2>5. Retried(q)'
    BY <1>1, <1>3, <1>5, <2>1, <2>2 DEF Right, Retried, Live
  <2>6. Apt(q)'
    BY <1>3, <1>5, <2>1, <2>2 DEF Right, Apt
  <2>7. Told(q)'
    BY <1>1, <1>3, <1>5, <2>1, <2>2 DEF Right, Told
  <2> QED  BY <2>3, <2>4, <2>5, <2>6, <2>7 DEF Right
<1>8. Targets'
  BY <1>1, <1>2 DEF Targets, IdleDriver
<1> QED  BY <1>1, <1>2, <1>6, <1>7, <1>8 DEF Sound

\* The end of boot: every surface that is down for a transient reason is retried.
LEMMA SoundBootDone ==
  ASSUME TypeOK, Sound, BootDone
  PROVE  Sound'
<1> DEFINE retried == failed \ configFaults
<1>1. /\ phase = "boot" /\ phase' = "up" /\ driver.st = "step" /\ driver.todo = {}
      /\ driver' = IdleDriver /\ sups' = sups /\ registry' = registry
      /\ failed' = failed /\ configFaults' = configFaults /\ reloadFailed' = reloadFailed
  BY DEF BootDone
<1>2. PICK ks \in [Names -> RetryIds] :
        /\ \A n \in Names : ks[n] \in IF n \in retried THEN Lowest(FreeRetries(retries[n])) ELSE {1}
        /\ slot' = [n \in Names |->
             IF n \in retried THEN [slot[n] EXCEPT !.retry = ks[n]] ELSE slot[n]]
        /\ retries' = [n \in Names |->
             IF n \in retried THEN [retries[n] EXCEPT ![ks[n]] = NewRetry(registry[n])]
             ELSE retries[n]]
  BY Zenon DEF BootDone
<1>3. /\ driver'.st = "idle" /\ Running /\ Running' /\ driver'.todo = {}
  BY <1>1 DEF IdleDriver, Running
<1>4. \A q \in Names : ~Installing(q) /\ ~Installing(q)' /\ Now(q)' = registry[q]
  BY <1>1, <1>3 DEF Installing, Now
<1>5. \A q \in Names : Right(q) /\ Linked(q)
  BY <1>3 DEF Sound, Running
<1>6. \A q \in Names : Now(q) = registry[q]
  BY <1>1, <1>3 DEF Now, Sound, Targets
<1>7. ASSUME NEW q \in Names
      PROVE  /\ slot[q].retry = None /\ \A k \in RetryIds : ~Live(retries[q][k])
             /\ q \in failed <=> Pending(q)
             /\ q \in configFaults <=> slot[q].fault
  BY <1>1, <1>4, <1>5, NoneIsNoRetry DEF Right, Retried, Linked, Told
<1>8. ASSUME NEW q \in Names, q \in retried
      PROVE  Right(q)' /\ Linked(q)'
  <2> DEFINE k == ks[q]
             new == NewRetry(registry[q])
             t == [slot[q] EXCEPT !.retry = k]
  <2>1. k \in RetryIds /\ k # None
    BY <1>2, <1>8, NoneIsNoRetry DEF Lowest, FreeRetries
  <2>2. /\ new.slot = "table" /\ new.entry = registry[q] /\ Live(new) /\ new.st # "start"
    BY DEF NewRetry, Live
  <2> HIDE DEF new
  <2>3. slot'[q] = t /\ \A l \in RetryIds : retries'[q][l] = IF l = k THEN new ELSE retries[q][l]
    BY <1>2, <1>8, <2>1 DEF TypeOK, new
  <2>4. t.in = slot[q].in /\ t.sup = slot[q].sup /\ t.retry = k /\ t.fault = slot[q].fault
    BY DEF TypeOK, Slots
  <2> HIDE DEF t, k
  <2>5. Pending(q) /\ Pending(q)' /\ slot[q].in /\ ~slot[q].fault
    BY <1>7, <1>8, <2>3, <2>4 DEF Pending
  <2>6. Linked(q)'
    BY <1>7, <2>1, <2>2, <2>3, <2>4, <2>5 DEF Linked, Live
  <2>7. Routed(q)'
    BY <1>4, <1>5, <1>6, <2>3, <2>4, <2>5 DEF Right, Routed
  <2>8. Retried(q)'
    BY <1>1, <1>4, <1>7, <2>1, <2>2, <2>3, <2>4 DEF Retried, Live
  <2>9. Apt(q)'
    BY <1>4, <2>5 DEF Apt, Serving, Pending
  <2>10. Told(q)'
    BY <1>1, <1>7, <1>8, <2>3, <2>4, <2>5 DEF Told
  <2> QED  BY <2>6, <2>7, <2>8, <2>9, <2>10 DEF Right
<1>9. ASSUME NEW q \in Names, q \notin retried
      PROVE  Right(q)' /\ Linked(q)'
  <2>1. slot'[q] = slot[q] /\ retries'[q] = retries[q]
    BY <1>2, <1>9
  <2>2. (Pending(q)' <=> Pending(q)) /\ (Serving(q)' <=> Serving(q))
    BY <2>1 DEF Pending, Serving
  <2>3. Linked(q)'
    BY <1>5, <2>1 DEF Linked, Live
  <2>4. Routed(q)'
    BY <1>4, <1>5, <1>6, <2>1 DEF Right, Routed
  <2>5. Retried(q)'
    BY <1>1, <1>4, <1>7, <1>9, <2>1, <2>2 DEF Retried, Live
  <2>6. Apt(q)'
    BY <1>1, <1>4, <1>5, <1>6, <2>1, <2>2 DEF Right, Apt
  <2>7. Told(q)'
    BY <1>1, <1>7, <2>1, <2>2 DEF Told
  <2> QED  BY <2>3, <2>4, <2>5, <2>6, <2>7 DEF Right
<1>10. Targets'
  BY <1>1, <1>3 DEF Targets
<1> QED  BY <1>1, <1>3, <1>8, <1>9, <1>10 DEF Sound

\* Shutdown: first the task that installs ends, then the retries.
LEMMA SoundStops ==
  ASSUME TypeOK, Sound,
         StopReload \/ StopRetries \/ StopApps \/ Down \/ \E n \in Names : BootStartFails(n)
  PROVE  Sound'
<1>1. CASE StopReload \/ \E n \in Names : BootStartFails(n)
  <2>1. /\ Running /\ phase' = "stopReload" /\ driver'.st = "idle" /\ slot' = slot
        /\ retries' = retries
    BY <1>1 DEF StopReload, BootStartFails, IdleDriver, Running
  <2>2. \A n \in Names : Linked(n)'
    BY <2>1 DEF Sound, Running, Linked, Live
  <2> QED  BY <2>1, <2>2 DEF Sound, Running
<1>2. CASE StopRetries
  <2> DEFINE dead == [FreeRetry EXCEPT !.st = "dead"]
  <2>1. /\ phase = "stopReload" /\ phase' = "stopRetries" /\ slot' = slot /\ driver' = driver
        /\ retries' = [n \in Names |-> [k \in RetryIds |->
             IF slot[n].retry = k THEN dead ELSE retries[n][k]]]
    BY <1>2 DEF StopRetries
  <2>2. ~Live(dead)
    BY DEF FreeRetry, Live
  <2> HIDE DEF dead
  <2>3. \A n \in Names, k \in RetryIds : ~Live(retries'[n][k])
    BY <2>1, <2>2 DEF Sound, Linked
  <2>4. driver'.st = "idle"
    BY <2>1 DEF Sound, Running
  <2> QED  BY <2>1, <2>3, <2>4 DEF Sound, Running, Live
<1>3. CASE StopApps \/ Down
  <2>1. /\ phase \in {"stopRetries", "stopApps"} /\ phase' \in {"stopApps", "down"}
        /\ driver' = driver /\ retries' = retries
    BY <1>3 DEF StopApps, Down
  <2> QED  BY <2>1 DEF Sound, Running, Live
<1> QED  BY <1>1, <1>2, <1>3

\* After boot() every surface is attached, to be installed, or failed.
LEMMA SoundInit == Init => Sound
<1> SUFFICES ASSUME Init PROVE Sound
  OBVIOUS
<1>1. PICK reg \in Registries, res \in [Names -> Outcomes] : Booted(reg, res)
  BY DEF Init
<1>2. ASSUME NEW n \in Names
      PROVE  /\ slot[n].in <=> reg[n] # NoEntry
             /\ slot[n].sup = None /\ slot[n].retry = None
             /\ slot[n].fault <=> n \in configFaults
  <2> DEFINE b == reg[n] # NoEntry
             c == n \in configFaults
  <2>1. slot[n] = [NoSlot EXCEPT !.in = b, !.fault = c]
    BY <1>1 DEF Booted
  <2> HIDE DEF b, c
  <2>2. slot[n].in = b /\ slot[n].sup = None /\ slot[n].retry = None /\ slot[n].fault = c
    BY <2>1 DEF NoSlot
  <2> QED  BY <2>2 DEF b, c
<1>3. /\ driver.st = "step" /\ driver.todo = {n \in Names : reg[n] # NoEntry /\ res[n] = "ok"}
      /\ driver.new = reg /\ registry = reg
  BY <1>1 DEF Booted, IdleDriver
<1>4. /\ failed = {n \in Names : reg[n] # NoEntry /\ res[n] # "ok"}
      /\ configFaults = {n \in Names : reg[n] # NoEntry /\ res[n] = "fault"}
  BY <1>1 DEF Booted
<1>5. \A n \in Names, k \in RetryIds : ~Live(retries[n][k])
  BY FreeRetryIs DEF Init
<1>6. phase = "boot" /\ Running
  BY DEF Init, Running
<1>7. Targets
  BY <1>3 DEF Targets
<1>8. ASSUME NEW n \in Names
      PROVE  Right(n) /\ Linked(n)
  <2>1. ~Installing(n) /\ Now(n) = reg[n]
    BY <1>3 DEF Installing, Now
  <2>2. (Pending(n) <=> reg[n] # NoEntry) /\ ~Serving(n)
    BY <1>2 DEF Pending, Serving
  <2>3. Linked(n)
    BY <1>2, <1>5, NoneIsNoRetry DEF Linked
  <2>4. Routed(n)
    BY <1>2, <1>4, <2>1 DEF Routed
  <2>5. Retried(n)
    BY <1>2, <1>5, <1>6 DEF Retried, Live
  <2>6. Apt(n)
    BY <2>1, <2>2 DEF Apt
  <2>7. Told(n)
    BY <1>2, <1>3, <1>4, <1>6, <2>1, <2>2 DEF Told
  <2> QED  BY <2>3, <2>4, <2>5, <2>6, <2>7 DEF Right
<1> QED  BY <1>6, <1>7, <1>8 DEF Sound

\* Every step keeps it, when apps die only while nothing is being installed.
LEMMA SoundStep ==
  ASSUME TypeOK, Owners, Sound, [Next]_vars, DieAnytime = FALSE
  PROVE  Sound'
<1>1. CASE \E n \in Names : BootInstall(n) \/ BootStartFails(n) \/ DriverStartOk(n)
  BY <1>1, SoundBootInstall, SoundStops, SoundDriverStartOk
<1>2. CASE BootDone
  BY <1>2, SoundBootDone
<1>3. CASE \/ \E new \in Registries : ReloadStart(new)
           \/ \E res \in [Names -> Outcomes] : ReloadAttached(res)
  BY <1>3, SoundReloadStart, SoundReloadAttached
<1>4. CASE \E n \in Names :
             ReloadInstall(n) \/ ReloadTargetFailed(n) \/ ReloadStartFails(n)
  BY <1>4, SoundReloadInstall, SoundReloadTargetFailed, SoundReloadStartFails
<1>5. CASE ReloadDone
  BY <1>5, SoundReloadDone
<1>6. ASSUME NEW n \in Names, NEW k \in RetryIds,
             RetryWakes(n, k) \/ RetryAttachOk(n, k) \/ RetryStartOk(n, k) \/ RetryFails(n, k)
      PROVE  Sound'
  BY <1>6, SoundRetryWakes, SoundRetryAttachOk, SoundRetryAttachFault,
     SoundRetryStartFails, SoundRetryStartOk DEF RetryFails
<1>7. CASE \E n \in Names, u \in SupIds : AppDies(n, u) \/ SupCloses(n, u)
  BY <1>7, SoundAppDies, SoundSupCloses
<1>8. CASE StopReload \/ ShutdownStep
  BY <1>8, SoundStops DEF ShutdownStep
<1>9. CASE UNCHANGED vars
  BY <1>9 DEF Sound, Running, Targets, Right, Linked, Live, Routed, Retried, Apt, Told,
     Now, Installing, Pending, Serving
<1> QED  BY <1>1, <1>2, <1>3, <1>4, <1>5, <1>6, <1>7, <1>8, <1>9 DEF Next, DriverStep

\* Ownership holds all the time.
LEMMA OwnersAlways == Spec => [](TypeOK /\ Owners)
<1> QED  BY OwnersInit, OwnersStep, TypeCorrect, PTL DEF Spec

\* What a surface serves, retries and reports is right all the time.
LEMMA SoundAlways ==
  ASSUME DieAnytime = FALSE
  PROVE  Spec => [](TypeOK /\ Sound)
<1>1. TypeOK /\ Owners /\ Sound /\ [Next]_vars => Sound'
  BY SoundStep
<1> QED  BY <1>1, SoundInit, OwnersAlways, PTL DEF Spec

\* A surface has at most one live retry task, the one its slot names, so that a
\* reload or shutdown that cancels it leaves none behind; when shutdown is over no
\* retry is alive.
THEOREM RetriesAreOne ==
  ASSUME DieAnytime = FALSE
  PROVE  Spec => []OneRetryPerSlot
<1>1. TypeOK /\ Sound => OneRetryPerSlot
  BY LiveRetry DEF OneRetryPerSlot
<1> QED  BY <1>1, SoundAlways, PTL

\* Whenever nothing is being installed, a surface that answers "not attached; the
\* gateway is retrying" has a retry task that is alive.
THEOREM PendingHasRetry ==
  ASSUME DieAnytime = FALSE
  PROVE  Spec => []PendingIsRetried
<1>1. TypeOK /\ Sound => PendingIsRetried
  <2> SUFFICES ASSUME TypeOK, Sound, Settled, NEW n \in Names, Pending(n), ~slot[n].fault
               PROVE  slot[n].retry # None /\ Live(retries[n][slot[n].retry])
    BY DEF PendingIsRetried
  <2>1. Right(n) /\ Linked(n) /\ ~Installing(n) /\ phase = "up"
    BY DEF Settled, Sound, Running, Installing
  <2>2. slot[n].retry # None
    BY <2>1 DEF Right, Retried
  <2>3. slot[n].retry \in RetryIds
    BY <2>2 DEF TypeOK, Slots
  <2> QED  BY <2>1, <2>2, <2>3 DEF Linked
<1> QED  BY <1>1, SoundAlways, PTL

\* Whenever nothing is being installed, the table routes exactly the surfaces of the
\* registry in force; each serves its entry there, or is reported as still serving
\* its app from before the reload; and what is retried is the entry in force.
THEOREM EntryInForceServed ==
  ASSUME DieAnytime = FALSE
  PROVE  Spec => []ServesEntryInForce
<1>1. TypeOK /\ Sound => ServesEntryInForce
  <2> SUFFICES ASSUME TypeOK, Sound, Settled, NEW n \in Names
               PROVE  /\ slot[n].in <=> registry[n] # NoEntry
                      /\ Serving(n) =>
                           sups[n][slot[n].sup].entry = registry[n] \/ n \in reloadFailed
                      /\ \A k \in RetryIds :
                           Live(retries[n][k]) => retries[n][k].entry = registry[n]
    BY DEF ServesEntryInForce
  <2>1. Right(n) /\ ~Installing(n) /\ Now(n) = registry[n]
    BY DEF Settled, Sound, Running, Installing, Now
  <2> QED  BY <2>1 DEF Right, Routed, Retried, Apt
<1> QED  BY <1>1, SoundAlways, PTL

-----------------------------------------------------------------------------
(* A working surface stays                                                 *)

\* Who starts an app holds its supervisor, in any phase.
Holding ==
  /\ driver.st = "start" => driver.sup # None
  /\ \A n \in Names, k \in RetryIds :
       retries[n][k].st = "start" => retries[n][k].sup # None

\* A retry of n moves on, or none does.
LEMMA HoldingRetries ==
  ASSUME TypeOK, Holding, NEW n \in Names, NEW rs \in [RetryIds -> Retries],
         retries' = [retries EXCEPT ![n] = rs],
         \A k \in RetryIds : rs[k].st = "start" => rs[k] = retries[n][k] \/ rs[k].sup # None,
         driver'.st = "start" => driver'.sup # None
  PROVE  Holding'
<1>1. \A m \in Names : retries'[m] = IF m = n THEN rs ELSE retries[m]
  BY DEF TypeOK
<1> QED  BY <1>1 DEF Holding

\* Every step keeps that: a supervisor in hand is never None.
LEMMA HoldingStep ==
  ASSUME TypeOK, Holding, [Next]_vars
  PROVE  Holding'
<1>1. ASSUME NEW n \in Names, DriverInstalls(n)
      PROVE  driver'.st = "start" => driver'.sup # None
  BY <1>1, NoneIsNoSup DEF DriverInstalls, Lowest, FreeSups, TypeOK, Drivers
<1>2. ASSUME NEW n \in Names, BootInstall(n)
      PROVE  Holding'
  BY <1>1, <1>2 DEF BootInstall, Holding
<1>3. FreeRetry \in Retries /\ FreeRetry.st # "start"
  BY DEF FreeRetry, Retries
<1>4. ASSUME NEW n \in Names, ReloadInstall(n)
      PROVE  Holding'
  <2>1. \A k \in RetryIds : CancelledRetries(n)[k] = retries[n][k]
                            \/ CancelledRetries(n)[k] = FreeRetry
    BY DEF CancelledRetries, TypeOK
  <2>2. CancelledRetries(n) \in [RetryIds -> Retries]
    BY CancelType
  <2>3. retries' = [retries EXCEPT ![n] = CancelledRetries(n)] /\ DriverInstalls(n)
    BY <1>4 DEF ReloadInstall
  <2> DEFINE rs == CancelledRetries(n)
  <2>4. \A k \in RetryIds : rs[k].st = "start" => rs[k] = retries[n][k] \/ rs[k].sup # None
    BY <1>3, <2>1
  <2>5. rs \in [RetryIds -> Retries] /\ retries' = [retries EXCEPT ![n] = rs]
    BY <2>2, <2>3
  <2> HIDE DEF rs
  <2> QED  BY <1>1, <2>3, <2>4, <2>5, HoldingRetries
<1>5. ASSUME NEW n \in Names, NEW s \in Slots, NEW rs \in [RetryIds -> Retries],
             NEW fault \in BOOLEAN, AttachFailed(n, s, rs, fault),
             \A k \in RetryIds : rs[k].st = "start" => rs[k] = retries[n][k],
             driver'.st # "start"
      PROVE  Holding'
  <2> DEFINE new == NewRetry(driver.new[n])
  <2>1. new.st # "start" /\ new \in Retries
    BY DEF NewRetry, Retries, TypeOK, Drivers, Registries
  <2>2. \/ retries' = [retries EXCEPT ![n] = rs]
        \/ \E k \in Lowest(FreeRetries(rs)) :
             retries' = [retries EXCEPT ![n] = [rs EXCEPT ![k] = new]]
    BY <1>5 DEF AttachFailed
  <2> HIDE DEF new
  <2>3. ASSUME NEW k, retries' = [retries EXCEPT ![n] = [rs EXCEPT ![k] = new]]
        PROVE  Holding'
    <3>1. /\ [rs EXCEPT ![k] = new] \in [RetryIds -> Retries]
          /\ \A l \in RetryIds : [rs EXCEPT ![k] = new][l] \in {new, rs[l]}
      BY <2>1
    <3> DEFINE rs2 == [rs EXCEPT ![k] = new]
    <3>2. /\ rs2 \in [RetryIds -> Retries] /\ retries' = [retries EXCEPT ![n] = rs2]
          /\ \A l \in RetryIds : rs2[l].st = "start" => rs2[l] = retries[n][l]
      BY <1>5, <2>1, <2>3, <3>1
    <3>3. driver'.st = "start" => driver'.sup # None
      BY <1>5
    <3>4. \A l \in RetryIds : rs2[l].st = "start" => rs2[l] = retries[n][l] \/ rs2[l].sup # None
      BY <3>2
    <3> HIDE DEF rs2
    <3> QED  BY <3>2, <3>3, <3>4, HoldingRetries
  <2>4. CASE retries' = [retries EXCEPT ![n] = rs]
    <3>1. \A k \in RetryIds : rs[k].st = "start" => rs[k] = retries[n][k] \/ rs[k].sup # None
      BY <1>5
    <3>2. driver'.st = "start" => driver'.sup # None
      BY <1>5
    <3> QED  BY <2>4, <3>1, <3>2, HoldingRetries
  <2> QED  BY <2>2, <2>3, <2>4
<1>6. ASSUME NEW n \in Names, ReloadTargetFailed(n)
      PROVE  Holding'
  <2> DEFINE fault == driver.res[n] = "fault"
  <2>1. /\ driver.st = "step" /\ AttachFailed(n, TargetSlot(n), CancelledRetries(n), fault)
        /\ fault \in BOOLEAN /\ driver' = [driver EXCEPT !.todo = @ \ {n}]
    BY <1>6 DEF ReloadTargetFailed, Takes
  <2> HIDE DEF fault
  <2>2. driver'.st # "start"
    BY <2>1 DEF TypeOK, Drivers
  <2>3. CancelledRetries(n) \in [RetryIds -> Retries] /\ TargetSlot(n) \in Slots
    BY CancelType, TargetSlotIs
  <2>4. \A k \in RetryIds : CancelledRetries(n)[k] = retries[n][k]
                            \/ CancelledRetries(n)[k] = FreeRetry
    BY DEF CancelledRetries, TypeOK
  <2> QED  BY <1>3, <1>5, <2>1, <2>2, <2>3, <2>4
<1>7. ASSUME NEW n \in Names, ReloadStartFails(n)
      PROVE  Holding'
  <2>0. PICK fault \in BOOLEAN : AttachFailed(n, slot[n], retries[n], fault)
    BY <1>7 DEF ReloadStartFails
  <2>1. driver' = [driver EXCEPT !.st = "step", !.cur = NoEntry, !.sup = None]
    BY <1>7 DEF ReloadStartFails
  <2>2. driver'.st # "start"
    BY <2>1 DEF TypeOK, Drivers
  <2> QED  BY <1>5, <2>0, <2>2 DEF TypeOK
<1>8. ASSUME NEW n \in Names, NEW k \in RetryIds,
             RetryWakes(n, k) \/ RetryAttachOk(n, k) \/ RetryStartOk(n, k) \/ RetryFails(n, k)
      PROVE  Holding'
  <2>1. PICK r \in Retries : /\ retries' = [retries EXCEPT ![n][k] = r]
                             /\ r.st = "start" => r.sup # None
    <3> DEFINE r0 == retries[n][k]
    <3>1. r0 \in Retries
      BY DEF TypeOK
    <3> HIDE DEF r0
    <3>2. CASE RetryWakes(n, k) \/ RetryAttachTransient(n, k)
      <4>1. PICK x \in {"sleep", "attach"} : retries' = [retries EXCEPT ![n][k].st = x]
        BY <3>2 DEF RetryWakes, RetryAttachTransient
      <4>2. /\ [r0 EXCEPT !.st = x] \in Retries /\ [r0 EXCEPT !.st = x].st # "start"
            /\ retries' = [retries EXCEPT ![n][k] = [r0 EXCEPT !.st = x]]
        BY <3>1, <4>1 DEF Retries, r0
      <4> QED  BY <4>2
    <3>3. CASE RetryAttachOk(n, k)
      <4>1. PICK u \in Lowest(FreeSups(n)) :
              retries' = [retries EXCEPT ![n][k] = [@ EXCEPT !.st = "start", !.sup = u]]
        BY <3>3, Zenon DEF RetryAttachOk
      <4>2. u \in SupIds /\ u # None
        BY NoneIsNoSup DEF Lowest, FreeSups
      <4>3. /\ [r0 EXCEPT !.st = "start", !.sup = u] \in Retries
            /\ [r0 EXCEPT !.st = "start", !.sup = u].sup # None
            /\ retries' = [retries EXCEPT ![n][k] = [r0 EXCEPT !.st = "start", !.sup = u]]
        BY <3>1, <4>1, <4>2 DEF Retries, r0
      <4> QED  BY <4>3
    <3>4. CASE RetryAttachFault(n, k) \/ RetryStartOk(n, k)
      BY <1>3, <3>4 DEF RetryAttachFault, RetryStartOk
    <3>5. CASE RetryStartFails(n, k)
      <4>1. retries' = [retries EXCEPT ![n][k] = [@ EXCEPT !.st = "sleep", !.sup = None]]
        BY <3>5 DEF RetryStartFails
      <4>2. /\ [r0 EXCEPT !.st = "sleep", !.sup = None] \in Retries
            /\ [r0 EXCEPT !.st = "sleep", !.sup = None].st # "start"
            /\ retries' = [retries EXCEPT ![n][k] = [r0 EXCEPT !.st = "sleep", !.sup = None]]
        BY <3>1, <4>1 DEF Retries, r0
      <4> QED  BY <4>2
    <3> QED  BY <1>8, <3>2, <3>3, <3>4, <3>5 DEF RetryFails
  <2>2. driver' = driver
    BY <1>8 DEF RetryWakes, RetryAttachOk, RetryStartOk, RetryFails,
       RetryAttachTransient, RetryAttachFault, RetryStartFails
  <2>3. \A m \in Names, l \in RetryIds :
          retries'[m][l] = IF m = n /\ l = k THEN r ELSE retries[m][l]
    BY <2>1 DEF TypeOK
  <2> QED  BY <2>1, <2>2, <2>3 DEF Holding
<1>9. ASSUME NEW n \in Names, NEW u \in SupIds, AppDies(n, u)
      PROVE  Holding'
  <2>1. driver' = driver
    BY <1>9 DEF AppDies
  <2>2. CASE retries' = retries
    BY <2>1, <2>2 DEF Holding
  <2>3. CASE \E k \in Lowest(FreeRetries(retries[n])) :
               retries' = [retries EXCEPT ![n][k] = NewRetry(registry[n])]
    <3>1. NewRetry(registry[n]).st # "start"
      BY DEF NewRetry
    <3>2. \A m \in Names, l \in RetryIds :
            retries'[m][l] = retries[m][l] \/ retries'[m][l] = NewRetry(registry[n])
      BY <2>3 DEF TypeOK
    <3> QED  BY <2>1, <3>1, <3>2 DEF Holding
  <2> QED  BY <1>9, <2>2, <2>3 DEF AppDies, ServingFailed
<1>10. CASE BootDone
  <2>1. driver'.st # "start"
    BY <1>10 DEF BootDone, IdleDriver
  <2>2. PICK ks \in [Names -> RetryIds] :
          retries' = [n \in Names |->
             IF n \in failed \ configFaults
             THEN [retries[n] EXCEPT ![ks[n]] = NewRetry(registry[n])]
             ELSE retries[n]]
    BY <1>10, Zenon DEF BootDone
  <2>3. \A n \in Names : NewRetry(registry[n]).st # "start"
    BY DEF NewRetry
  <2>4. \A m \in Names, l \in RetryIds :
          retries'[m][l] = retries[m][l] \/ retries'[m][l] = NewRetry(registry[m])
    BY <2>2 DEF TypeOK
  <2> QED  BY <2>1, <2>3, <2>4 DEF Holding
<1>11. CASE ReloadDone
  <2>1. driver'.st # "start"
    BY <1>11 DEF ReloadDone, IdleDriver
  <2>2. ASSUME NEW n \in Names, NEW k \in RetryIds
        PROVE  Orphaned(n)[k].st = "start" => Orphaned(n)[k].sup # None
    <3>1. retries[n][k] \in Retries
      BY DEF TypeOK
    <3>2. CancelledRetries(n)[k] \in {retries[n][k], FreeRetry}
      BY DEF CancelledRetries, TypeOK
    <3>3. \A to : /\ [retries[n][k] EXCEPT !.slot = to].st = retries[n][k].st
                  /\ [retries[n][k] EXCEPT !.slot = to].sup = retries[n][k].sup
      BY <3>1 DEF Retries
    <3>4. Orphaned(n)[k] = CancelledRetries(n)[k]
          \/ \E to : Orphaned(n)[k] = [retries[n][k] EXCEPT !.slot = to]
      BY DEF Orphaned
    <3> QED  BY <1>3, <3>2, <3>3, <3>4 DEF Holding
  <2>3. \A n \in Names : retries'[n] = retries[n] \/ retries'[n] = Orphaned(n)
    BY <1>11 DEF ReloadDone
  <2> QED  BY <2>1, <2>2, <2>3 DEF Holding
<1>12. CASE StopRetries
  <2> DEFINE dead == [FreeRetry EXCEPT !.st = "dead"]
  <2>1. dead.st # "start"
    BY DEF FreeRetry
  <2>2. /\ driver' = driver
        /\ retries' = [n \in Names |-> [k \in RetryIds |->
             IF slot[n].retry = k THEN dead ELSE retries[n][k]]]
    BY <1>12 DEF StopRetries
  <2> HIDE DEF dead
  <2> QED  BY <2>1, <2>2 DEF Holding
<1>13. CASE \/ \E n \in Names : BootStartFails(n) \/ DriverStartOk(n)
            \/ \E new \in Registries : ReloadStart(new)
            \/ \E res \in [Names -> Outcomes] : ReloadAttached(res)
            \/ \E n \in Names, u \in SupIds : SupCloses(n, u)
            \/ StopReload \/ StopApps \/ Down \/ UNCHANGED vars
  <2>1. retries' = retries
    BY <1>13 DEF BootStartFails, DriverStartOk, ReloadStart, ReloadAttached, SupCloses,
       StopReload, StopApps, Down
  <2>2. CASE \E n \in Names : DriverStartOk(n)
    <3>1. driver' = [driver EXCEPT !.st = "step", !.cur = NoEntry, !.sup = None]
      BY <2>2 DEF DriverStartOk
    <3>2. driver'.st = "step"
      BY <3>1 DEF TypeOK, Drivers
    <3> QED  BY <2>1, <3>2 DEF Holding
  <2>3. CASE \E res \in [Names -> Outcomes] : ReloadAttached(res)
    <3>1. driver'.st # "start"
      BY <2>3 DEF ReloadAttached, TypeOK, Drivers
    <3> QED  BY <2>1, <3>1 DEF Holding
  <2>4. CASE \/ \E n \in Names : BootStartFails(n)
             \/ \E new \in Registries : ReloadStart(new)
             \/ StopReload
    <3>1. \/ driver' = IdleDriver
          \/ \E x \in {"step", "attach"} : \E new, todo :
               driver' = [IdleDriver EXCEPT !.st = x, !.new = new, !.todo = todo]
      BY <2>4 DEF BootStartFails, ReloadStart, StopReload
    <3>2. ASSUME NEW x \in {"step", "attach"}, NEW new, NEW todo,
                 driver' = [IdleDriver EXCEPT !.st = x, !.new = new, !.todo = todo]
          PROVE  driver'.st = x
      BY <3>2 DEF IdleDriver
    <3>3. driver' = IdleDriver => driver'.st = "idle"
      BY DEF IdleDriver
    <3>4. driver'.st # "start"
      BY <3>1, <3>2, <3>3
    <3> QED  BY <2>1, <3>4 DEF Holding
  <2>5. CASE \/ \E n \in Names, u \in SupIds : SupCloses(n, u)
             \/ StopApps \/ Down \/ UNCHANGED vars
    <3>1. driver' = driver
      BY <2>5 DEF SupCloses, StopApps, Down
    <3> QED  BY <2>1, <3>1 DEF Holding
  <2> QED  BY <1>13, <2>2, <2>3, <2>4, <2>5
<1> QED  BY <1>2, <1>4, <1>6, <1>7, <1>8, <1>9, <1>10, <1>11, <1>12, <1>13
         DEF Next, DriverStep, ShutdownStep

\* Whoever is left with a supervisor, or given one, still serves.
LEMMA StillServes ==
  ASSUME NEW n \in Names, Serving(n), slot'[n].in,
         slot'[n].sup = slot[n].sup \/ slot'[n].sup # None
  PROVE  Serving(n)'
BY DEF Serving

\* What takes the app of a serving surface.
LEMMA LosesApp ==
  ASSUME TypeOK, Holding, [Next]_vars, NEW n \in Names, Serving(n), ~Serving(n)'
  PROVE  deaths' > deaths \/ (ReloadDone /\ n \in Removed(driver.new))
<1>1. slot[n].in /\ slot[n].sup # None /\ slot[n] \in Slots
  BY DEF Serving, TypeOK
<1>2. ~(slot' = slot)
  BY DEF Serving
<1>3. ASSUME NEW q \in Names, NEW t, slot' = [slot EXCEPT ![q] = t],
             q = n => t.in /\ t.sup # None
      PROVE  FALSE
  <2>1. slot'[n] = IF q = n THEN t ELSE slot[n]
    BY <1>3 DEF TypeOK
  <2> QED  BY <1>1, <1>3, <2>1 DEF Serving
<1>4. ASSUME NEW q \in Names, DriverStartOk(q) PROVE FALSE
  <2> DEFINE t == [slot[q] EXCEPT !.sup = driver.sup, !.fault = FALSE]
  <2>1. slot' = [slot EXCEPT ![q] = t] /\ driver.sup # None
    BY <1>4 DEF DriverStartOk, Installed, Holding
  <2>2. t.in = slot[q].in /\ t.sup = driver.sup
    BY DEF TypeOK, Slots
  <2> HIDE DEF t
  <2> QED  BY <1>1, <1>3, <2>1, <2>2
<1>5. CASE BootDone
  <2>1. slot'[n] = slot[n] \/ \E k \in RetryIds : slot'[n] = [slot[n] EXCEPT !.retry = k]
    BY <1>5 DEF BootDone
  <2>2. \A k : /\ [slot[n] EXCEPT !.retry = k].in = slot[n].in
               /\ [slot[n] EXCEPT !.retry = k].sup = slot[n].sup
    BY <1>1 DEF Slots
  <2> QED  BY <1>1, <2>1, <2>2, StillServes
<1>6. ASSUME NEW q \in Names, ReloadInstall(q) PROVE FALSE
  <2>1. slot' = [slot EXCEPT ![q] = TargetSlot(q)]
    BY <1>6 DEF ReloadInstall
  <2> QED  BY <1>1, <1>3, <2>1, TargetSlotIs
<1>7. ASSUME NEW q \in Names, NEW s \in Slots, NEW rs, NEW fault \in BOOLEAN,
             AttachFailed(q, s, rs, fault), s.sup = slot[q].sup, s.in \/ ~slot[q].in
      PROVE  FALSE
  <2> DEFINE marked == [s EXCEPT !.fault = IF s.sup = None THEN fault ELSE @]
  <2>1. marked \in Slots /\ marked.in = s.in /\ marked.sup = s.sup
    BY DEF Slots
  <2>2. \/ slot' = [slot EXCEPT ![q] = marked]
        \/ \E k \in Lowest(FreeRetries(rs)) :
             slot' = [slot EXCEPT ![q] = [marked EXCEPT !.retry = k]]
    BY <1>7, Zenon DEF AttachFailed
  <2> HIDE DEF marked
  <2>3. \A k : /\ [marked EXCEPT !.retry = k].in = s.in
               /\ [marked EXCEPT !.retry = k].sup = s.sup
    BY <2>1 DEF Slots
  <2>4. q = n => s.in /\ s.sup # None
    BY <1>1, <1>7
  <2> QED  BY <1>3, <2>1, <2>2, <2>3, <2>4
<1>8. ASSUME NEW q \in Names, ReloadTargetFailed(q) PROVE FALSE
  <2> DEFINE fault == driver.res[q] = "fault"
  <2>1. AttachFailed(q, TargetSlot(q), CancelledRetries(q), fault) /\ fault \in BOOLEAN
    BY <1>8 DEF ReloadTargetFailed
  <2> HIDE DEF fault
  <2> QED  BY <1>7, <2>1, TargetSlotIs
<1>9. ASSUME NEW q \in Names, ReloadStartFails(q) PROVE FALSE
  <2>1. PICK fault \in BOOLEAN : AttachFailed(q, slot[q], retries[q], fault)
    BY <1>9 DEF ReloadStartFails
  <2>2. slot[q] \in Slots
    BY DEF TypeOK
  <2> QED  BY <1>7, <2>1, <2>2 DEF Slots
<1>10. ASSUME ReloadDone
       PROVE  n \in Removed(driver.new)
  <2>1. n \in Removed(driver.new) \/ slot'[n] = slot[n]
    BY <1>10 DEF ReloadDone
  <2> QED  BY <1>1, <2>1, StillServes
<1>11. ASSUME NEW q \in Names, NEW k \in RetryIds,
              RetryAttachFault(q, k) \/ RetryStartOk(q, k)
       PROVE  FALSE
  <2>1. slot[q] \in Slots
    BY DEF TypeOK
  <2>2. CASE RetryAttachFault(q, k)
    <3> DEFINE b == slot[q].fault \/ slot[q].sup = None
               t == [RetryDone(q, k, slot[q]) EXCEPT !.fault = b]
    <3>1. slot' = [slot EXCEPT ![q] = t] \/ slot' = slot
      BY <2>2 DEF RetryAttachFault
    <3> HIDE DEF b
    <3>2. t.in = slot[q].in /\ t.sup = slot[q].sup
      BY <2>1 DEF RetryDone, Slots
    <3> HIDE DEF t
    <3> QED  BY <1>1, <1>2, <1>3, <3>1, <3>2
  <2>3. CASE RetryStartOk(q, k)
    <3> DEFINE u == retries[q][k].sup
               t == [RetryDone(q, k, slot[q]) EXCEPT !.sup = u, !.fault = FALSE]
    <3>1. slot' = [slot EXCEPT ![q] = t] \/ slot' = slot
      BY <2>3 DEF RetryStartOk
    <3>2. u # None
      BY <2>3 DEF RetryStartOk, Holding
    <3> HIDE DEF u
    <3>3. t.in = slot[q].in /\ t.sup = u
      BY <2>1 DEF RetryDone, Slots
    <3> HIDE DEF t
    <3> QED  BY <1>1, <1>2, <1>3, <3>1, <3>2, <3>3
  <2> QED  BY <1>11, <2>2, <2>3
<1>12. ASSUME NEW q \in Names, NEW k \in RetryIds, RetryFails(q, k)
       PROVE  FALSE
  BY <1>2, <1>11, <1>12 DEF RetryFails, RetryAttachTransient, RetryStartFails
<1>13. ASSUME NEW q \in Names, NEW u \in SupIds, AppDies(q, u)
       PROVE  deaths' > deaths
  BY <1>13, BoundsAssumption DEF AppDies, TypeOK
<1>14. ASSUME \/ \E q \in Names : BootInstall(q) \/ BootStartFails(q)
              \/ \E new \in Registries : ReloadStart(new)
              \/ \E res \in [Names -> Outcomes] : ReloadAttached(res)
              \/ \E q \in Names, k \in RetryIds : RetryWakes(q, k) \/ RetryAttachOk(q, k)
              \/ \E q \in Names, u \in SupIds : SupCloses(q, u)
              \/ StopReload \/ ShutdownStep \/ UNCHANGED vars
       PROVE  FALSE
  BY <1>2, <1>14 DEF BootInstall, BootStartFails, ReloadStart, ReloadAttached, RetryWakes,
     RetryAttachOk, SupCloses, StopReload, ShutdownStep, StopRetries, StopApps, Down
<1> QED  BY <1>4, <1>5, <1>6, <1>8, <1>9, <1>10, <1>11, <1>12, <1>13, <1>14
         DEF Next, DriverStep

LEMMA HoldingInit == Init => Holding
<1> SUFFICES ASSUME Init PROVE Holding
  OBVIOUS
<1>1. driver.st = "step"
  BY DEF Init, Booted, IdleDriver
<1>2. \A n \in Names, k \in RetryIds : retries[n][k].st = "free"
  BY FreeRetryIs DEF Init
<1> QED  BY <1>1, <1>2 DEF Holding

\* A surface that serves is turned into one that answers 503 only by the death of its
\* app, or by a reload whose registry no longer has it: never by a reload that fails to
\* attach or start the new app, by a retry, or by the shutdown of another task.
THEOREM WorkingStays == Spec => WorkingSurfaceStays
<1>1. TypeOK /\ Holding /\ [Next]_vars =>
        [\A n \in Names : Serving(n) /\ ~Serving(n)' =>
           deaths' > deaths \/ (driver.st = "step" /\ driver.new[n] = NoEntry)]_vars
  BY LosesApp DEF ReloadDone, Removed
<1> QED  BY <1>1, HoldingInit, HoldingStep, TypeCorrect, PTL DEF Spec, WorkingSurfaceStays

-----------------------------------------------------------------------------
(* What the health report says                                             *)

\* Until an app has died, what a reload could not replace serves.
StaleServes == deaths = 0 => \A n \in reloadFailed : Serving(n)

\* Only an attach or a start that fails in a reload adds a name to reload_failed, and only
\* a death counts one.
LEMMA WhoMarks ==
  ASSUME TypeOK, [Next]_vars
  PROVE  /\ deaths' = deaths \/ deaths' = deaths + 1
         /\ \/ reloadFailed' \subseteq reloadFailed
            \/ \E q \in Names : ReloadTargetFailed(q) \/ ReloadStartFails(q)
<1>1. ASSUME NEW q \in Names, BootInstall(q) \/ BootStartFails(q) \/ ReloadInstall(q)
      PROVE  deaths' = deaths /\ reloadFailed' = reloadFailed
  BY <1>1 DEF BootInstall, BootStartFails, ReloadInstall, health, bounds
<1>2. ASSUME NEW q \in Names, DriverStartOk(q)
      PROVE  deaths' = deaths /\ reloadFailed' \subseteq reloadFailed
  BY <1>2 DEF DriverStartOk, Cleared, health, bounds
<1>3. ASSUME NEW q \in Names, ReloadTargetFailed(q) \/ ReloadStartFails(q)
      PROVE  deaths' = deaths
  BY <1>3 DEF ReloadTargetFailed, ReloadStartFails, bounds
<1>4. CASE BootDone
  <2>1. deaths' = deaths /\ reloadFailed' = reloadFailed
    BY <1>4 DEF BootDone, health, bounds
  <2> QED  BY <2>1
<1>5. CASE ReloadDone
  <2>1. deaths' = deaths /\ reloadFailed' \subseteq reloadFailed
    BY <1>5 DEF ReloadDone, Cleared, bounds
  <2> QED  BY <2>1
<1>6. CASE \/ \E res \in [Names -> Outcomes] : ReloadAttached(res)
           \/ \E new \in Registries : ReloadStart(new)
  <2>1. deaths' = deaths /\ reloadFailed' = reloadFailed
    BY <1>6 DEF ReloadAttached, ReloadStart, health, bounds
  <2> QED  BY <2>1
<1>7. ASSUME NEW q \in Names, NEW k \in RetryIds,
             \/ RetryWakes(q, k) \/ RetryAttachOk(q, k) \/ RetryStartOk(q, k)
             \/ RetryAttachTransient(q, k) \/ RetryAttachFault(q, k) \/ RetryStartFails(q, k)
      PROVE  deaths' = deaths /\ reloadFailed' \subseteq reloadFailed
  BY <1>7 DEF RetryWakes, RetryAttachOk, RetryStartOk, RetryAttachTransient, RetryAttachFault,
     RetryStartFails, Cleared, health, bounds
<1>8. ASSUME NEW q \in Names, NEW u \in SupIds, AppDies(q, u) \/ SupCloses(q, u)
      PROVE  (deaths' = deaths \/ deaths' = deaths + 1) /\ reloadFailed' = reloadFailed
  BY <1>8 DEF AppDies, SupCloses, health, bounds
<1>9. CASE StopReload \/ ShutdownStep
  <2>1. deaths' = deaths /\ reloadFailed' = reloadFailed
    BY <1>9 DEF StopReload, ShutdownStep, StopRetries, StopApps, Down, health, bounds
  <2> QED  BY <2>1
<1>10. CASE UNCHANGED vars
  BY <1>10 DEF vars
<1> QED
  BY <1>1, <1>2, <1>3, <1>4, <1>5, <1>6, <1>7, <1>8, <1>9, <1>10 DEF Next, DriverStep, RetryFails

\* A failed attach or start marks reload_failed only on a slot with an app, and keeps it.
LEMMA MarkedServes ==
  ASSUME TypeOK, NEW q \in Names, NEW s \in Slots, NEW rs, NEW fault \in BOOLEAN,
         AttachFailed(q, s, rs, fault), s.in, NEW n \in reloadFailed', n \notin reloadFailed
  PROVE  Serving(n)'
<1>1. n = q /\ s.sup # None
  <2>1. CASE s.sup = None
    BY <2>1, Zenon DEF AttachFailed
  <2>2. CASE s.sup # None
    <3>1. reloadFailed' = reloadFailed \cup {q}
      BY <2>2, Zenon DEF AttachFailed
    <3> QED  BY <2>2, <3>1
  <2> QED  BY <2>1, <2>2
<1> DEFINE marked == [s EXCEPT !.fault = IF s.sup = None THEN fault ELSE @]
<1>2. marked \in Slots /\ marked.in /\ marked.sup = s.sup
  BY DEF Slots
<1>3. \/ slot' = [slot EXCEPT ![q] = marked]
      \/ \E k \in Lowest(FreeRetries(rs)) : slot' = [slot EXCEPT ![q] = [marked EXCEPT !.retry = k]]
  BY Zenon DEF AttachFailed
<1> HIDE DEF marked
<1>4. \A k : [marked EXCEPT !.retry = k].in /\ [marked EXCEPT !.retry = k].sup = s.sup
  BY <1>2 DEF Slots
<1>5. PICK m : slot' = [slot EXCEPT ![q] = m] /\ m.in /\ m.sup = s.sup
  BY <1>2, <1>3, <1>4
<1>6. slot'[q] = m
  BY <1>5 DEF TypeOK
<1> QED  BY <1>1, <1>5, <1>6 DEF Serving

LEMMA StaleServesStep ==
  ASSUME TypeOK, Owners, Holding, StaleServes, [Next]_vars
  PROVE  StaleServes'
<1> SUFFICES ASSUME deaths' = 0, NEW n \in reloadFailed' PROVE Serving(n)'
  BY DEF StaleServes
<1>1. deaths = 0 /\ ~(deaths' > deaths)
  BY WhoMarks DEF TypeOK
<1>2. CASE n \in reloadFailed
  <2>1. Serving(n) /\ n \in Names
    BY <1>1, <1>2 DEF StaleServes, TypeOK
  <2>2. ReloadDone => n \notin Removed(driver.new)
    BY DEF ReloadDone, Cleared
  <2> QED  BY <1>1, <2>1, <2>2, LosesApp
<1>3. CASE n \notin reloadFailed
  <2>1. PICK q \in Names : ReloadTargetFailed(q) \/ ReloadStartFails(q)
    BY <1>3, WhoMarks
  <2>2. CASE ReloadTargetFailed(q)
    <3> DEFINE fault == driver.res[q] = "fault"
    <3>1. AttachFailed(q, TargetSlot(q), CancelledRetries(q), fault) /\ fault \in BOOLEAN
      BY <2>2 DEF ReloadTargetFailed
    <3>2. TargetSlot(q) \in Slots /\ TargetSlot(q).in
      BY DEF TargetSlot, TypeOK, Slots
    <3> HIDE DEF fault
    <3> QED  BY <1>3, <3>1, <3>2, MarkedServes
  <2>3. CASE ReloadStartFails(q)
    <3>1. PICK fault \in BOOLEAN : AttachFailed(q, slot[q], retries[q], fault)
      BY <2>3 DEF ReloadStartFails
    <3>2. Early /\ driver.st = "start" /\ q = driver.cur
      BY <2>3 DEF ReloadStartFails, Early
    <3>3. driver.sup # None /\ driver.sup = Held(q)
      BY <3>2 DEF Owners, Held
    <3>4. slot[q].in /\ slot[q] \in Slots
      BY <3>2, <3>3, OneSurface DEF Kept
    <3> QED  BY <1>3, <3>1, <3>4, MarkedServes
  <2> QED  BY <2>1, <2>2, <2>3
<1> QED  BY <1>2, <1>3

\* Whenever nothing is being installed, /healthz lists as failed exactly the surfaces
\* that answer 503, and as needing a configuration change those that are not retried;
\* until an app has died, reload_failed lists only surfaces that serve.
THEOREM HealthIsTrue ==
  ASSUME DieAnytime = FALSE
  PROVE  Spec => []HealthTellsTruth
<1>1. TypeOK /\ Sound /\ StaleServes => HealthTellsTruth
  <2> SUFFICES ASSUME TypeOK, Sound, StaleServes, Settled, NEW n \in Names
               PROVE  /\ n \in failed <=> Pending(n)
                      /\ n \in configFaults <=> slot[n].in /\ slot[n].fault
                      /\ deaths = 0 /\ n \in reloadFailed => Serving(n)
    BY DEF HealthTellsTruth, TypeOK, StaleServes
  <2>1. Right(n) /\ ~Installing(n) /\ phase = "up"
    BY DEF Settled, Sound, Running, Installing
  <2> QED  BY <2>1 DEF Right, Routed, Told, StaleServes
<1>2. Init => StaleServes
  BY DEF Init, StaleServes
<1>3. TypeOK /\ Owners /\ Holding /\ StaleServes /\ [Next]_vars => StaleServes'
  BY StaleServesStep
<1> QED
  BY <1>1, <1>2, <1>3, SoundAlways, OwnersAlways, HoldingInit, HoldingStep, PTL DEF Spec

=============================================================================
