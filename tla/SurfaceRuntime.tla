--------------------------- MODULE SurfaceRuntime ---------------------------
(***************************************************************************)
(* GatewayRuntime of runtime.py: the table of surface slots, the           *)
(* supervisor that owns each installed app, the retry task of a surface    *)
(* that is down, and boot, reload and shutdown, which rewrite all three.   *)
(*                                                                         *)
(* The process is one asyncio loop.  An action is the code one task runs   *)
(* between two awaits.  Where such a stretch is a loop (reload over its    *)
(* targets) it takes several steps with driver.st = "step", and Yielded,   *)
(* a guard of every other action, keeps all other tasks out meanwhile.     *)
(*                                                                         *)
(* Abstractions: an entry is a value that stands for the entry and its     *)
(* resolved placeholders, so that the fingerprints in force ARE the        *)
(* registry; a reload may find any registry on disk; the backoff delay is  *)
(* any time; Supervisor.start is one step from the wake-up of its caller,  *)
(* and when the app fails to start it includes the close of the backend,   *)
(* which start() awaits.  A reload that check_registry refuses changes     *)
(* nothing here and is left out.                                           *)
(***************************************************************************)
EXTENDS Naturals, FiniteSets

CONSTANTS
  Names,       \* surface names
  Entries,     \* registry entries
  NoEntry,     \* "not in this registry"
  MaxSups,     \* bound: supervisors of one surface alive at once
  MaxRetries,  \* bound: retry tasks of one surface alive at once
  MaxReloads,  \* bound: reloads in a behaviour
  MaxDeaths,   \* bound: installed apps that fail while serving
  DieAnytime   \* FALSE: apps die only while neither boot nor a reload nor
               \* shutdown is going on

ASSUME NoEntryAssumption == NoEntry \notin Entries
ASSUME BoundsAssumption ==
  /\ MaxSups \in Nat \ {0}
  /\ MaxRetries \in Nat \ {0}
  /\ MaxReloads \in Nat
  /\ MaxDeaths \in Nat
  /\ DieAnytime \in BOOLEAN

SupIds == 1 .. MaxSups
RetryIds == 1 .. MaxRetries
None == 0
Registries == [Names -> Entries \cup {NoEntry}]

VARIABLES
  phase,        \* of the lifespan: boot, up, three stages of shutdown, down
  registry,     \* self.registry, and self.fingerprints
  slot,         \* self.table: slot[n].in says whether n is in it
  sups,         \* sups[n][u]: the supervisors of surface n
  retries,      \* retries[n][k]: the retry tasks of surface n
  failed,       \* self.failed (its names)
  configFaults, \* self.config_faults
  reloadFailed, \* self.reload_failed
  series,       \* whose sessions active_sessions{surface=n} counts
  driver,       \* the task that installs: start() at boot, then reload()
  stopping,     \* the supervisors shutdown awaits
  reloads, deaths  \* counters for the bounds

vars == <<phase, registry, slot, sups, retries, failed, configFaults,
          reloadFailed, series, driver, stopping, reloads, deaths>>

health == <<failed, configFaults, reloadFailed>>
bounds == <<reloads, deaths>>

Phases == {"boot", "up", "stopReload", "stopRetries", "stopApps", "down"}

\* One slot.  sup stands for app and supervisor, which are set together.
Slots == [in : BOOLEAN, sup : SupIds \cup {None}, retry : RetryIds \cup {None},
          fault : BOOLEAN]
NoSlot == [in |-> FALSE, sup |-> None, retry |-> None, fault |-> FALSE]

\* "retiring": told to stop (it drains and closes) or cancelled (it closes);
\* "dying": its app failed while serving, it closes.  "free": closed.
SupStates == {"free", "starting", "serving", "retiring", "dying"}
Sups == [st : SupStates, entry : Entries \cup {NoEntry}]
FreeSup == [st |-> "free", entry |-> NoEntry]

\* The slot a retry task holds is the one in the table ("table") or one that
\* has left it, when it had an app or had none.  "dead": cancelled at shutdown,
\* its handle still in the slot.
Retries == [st : {"free", "sleep", "attach", "start", "dead"},
            entry : Entries \cup {NoEntry},
            sup : SupIds \cup {None},
            slot : {"table", "goneServing", "gonePending"}]
FreeRetry == [st |-> "free", entry |-> NoEntry, sup |-> None, slot |-> "table"]
NewRetry(e) == [st |-> "sleep", entry |-> e, sup |-> None, slot |-> "table"]

Outcomes == {"ok", "transient", "fault"}

\* What boot and reload keep in local variables: the new registry, the attach
\* outcomes of the targets still to be processed, the one being installed.
Drivers == [st : {"idle", "attach", "step", "start"},
            new : Registries,
            todo : SUBSET Names,
            res : [Names -> Outcomes],
            cur : Names \cup {NoEntry},
            sup : SupIds \cup {None}]

TypeOK ==
  /\ phase \in Phases
  /\ registry \in Registries
  /\ slot \in [Names -> Slots]
  /\ sups \in [Names -> [SupIds -> Sups]]
  /\ retries \in [Names -> [RetryIds -> Retries]]
  /\ failed \in SUBSET Names
  /\ configFaults \in SUBSET Names
  /\ reloadFailed \in SUBSET Names
  /\ series \in [Names -> SupIds \cup {None}]
  /\ driver \in Drivers
  /\ stopping \in SUBSET (Names \X SupIds)
  /\ reloads \in 0 .. MaxReloads
  /\ deaths \in 0 .. MaxDeaths

-----------------------------------------------------------------------------
(* Helpers                                                                 *)

Yielded == driver.st # "step" /\ phase # "down"

Serving(n) == slot[n].in /\ slot[n].sup # None
Pending(n) == slot[n].in /\ slot[n].sup = None

Live(r) == r.st \in {"sleep", "attach", "start"}

Added(new) == {n \in Names : new[n] # NoEntry /\ registry[n] = NoEntry}
Removed(new) == {n \in Names : new[n] = NoEntry /\ registry[n] # NoEntry}
Changed(new) ==
  {n \in Names : new[n] # NoEntry /\ registry[n] # NoEntry /\ new[n] # registry[n]}

Lowest(S) == {x \in S : \A y \in S : x <= y}
FreeSups(n) == {u \in SupIds : sups[n][u].st = "free"}
FreeRetries(rs) == {k \in RetryIds : rs[k].st = "free"}

\* A bound, not code: a retry leaves a supervisor for the reload of its surface.
Room(n) == Cardinality(FreeSups(n)) > IF n \in driver.todo THEN 1 ELSE 0

\* _retire(): stop() lets the in-flight requests finish, then the app closes.
Retire(ss, u) == IF u = None THEN ss ELSE [ss EXCEPT ![u].st = "retiring"]

\* Mutant: the half-started supervisor of a cancelled retry is left running.
CancelledSupsLeak(n) == sups[n]

\* _cancel_retry(): the supervisor the task was starting closes with it.
CancelledSups(n) ==
  IF slot[n].retry = None THEN sups[n]
  ELSE Retire(sups[n], retries[n][slot[n].retry].sup)
\* Mutant: reload does not cancel the retry it replaces.
CancelledRetriesKept(n) == retries[n]

CancelledRetries(n) ==
  IF slot[n].retry = None THEN retries[n]
  ELSE [retries[n] EXCEPT ![slot[n].retry] = FreeRetry]

IdleDriver ==
  [st |-> "idle", new |-> [n \in Names |-> NoEntry], todo |-> {},
   res |-> [n \in Names |-> "ok"], cur |-> NoEntry, sup |-> None]

\* self.failed, config_faults and reload_failed after the surfaces in S came
\* up or were removed.
Cleared(S) ==
  /\ failed' = failed \ S
  /\ configFaults' = configFaults \ S
  /\ reloadFailed' = reloadFailed \ S

-----------------------------------------------------------------------------
(* boot() and start()                                                      *)

\* After boot(): every surface attached or failed, none installed.
Booted(reg, res) ==
  /\ registry = reg
  /\ failed = {n \in Names : reg[n] # NoEntry /\ res[n] # "ok"}
  /\ configFaults = {n \in Names : reg[n] # NoEntry /\ res[n] = "fault"}
  /\ slot = [n \in Names |->
               [NoSlot EXCEPT !.in = reg[n] # NoEntry, !.fault = n \in configFaults]]
  /\ driver = [IdleDriver EXCEPT
                 !.st = "step", !.new = reg,
                 !.todo = {n \in Names : reg[n] # NoEntry /\ res[n] = "ok"}]

Init ==
  /\ phase = "boot"
  /\ \E reg \in Registries, res \in [Names -> Outcomes] : Booted(reg, res)
  /\ sups = [n \in Names |-> [u \in SupIds |-> FreeSup]]
  /\ retries = [n \in Names |-> [k \in RetryIds |-> FreeRetry]]
  /\ reloadFailed = {}
  /\ series = [n \in Names |-> None]
  /\ stopping = {}
  /\ reloads = 0
  /\ deaths = 0

\* _install up to the await of Supervisor.start, by boot or by reload.
DriverInstalls(n) ==
  \E u \in Lowest(FreeSups(n)) :
    /\ sups' = [sups EXCEPT ![n] =
         [CancelledSups(n) EXCEPT ![u] = [st |-> "starting", entry |-> driver.new[n]]]]
    /\ driver' = [driver EXCEPT !.st = "start", !.todo = @ \ {n}, !.cur = n, !.sup = u]

BootInstall(n) ==
  /\ phase = "boot"
  /\ driver.st = "step"
  /\ n \in driver.todo
  /\ DriverInstalls(n)
  /\ UNCHANGED <<phase, registry, slot, retries, health, series, stopping, bounds>>

\* An app that fails to start at boot makes start() raise: the lifespan goes
\* straight to shutdown().
BootStartFails(n) ==
  /\ phase = "boot"
  /\ driver.st = "start"
  /\ n = driver.cur
  /\ sups' = [sups EXCEPT ![n][driver.sup] = FreeSup]
  /\ driver' = IdleDriver
  /\ phase' = "stopReload"
  /\ UNCHANGED <<registry, slot, retries, health, series, stopping, bounds>>

\* The end of start(): a retry per surface that failed to attach.  slot.retry
\* is assigned whatever it holds.
BootDone ==
  /\ phase = "boot"
  /\ driver.st = "step"
  /\ driver.todo = {}
  /\ phase' = "up"
  /\ driver' = IdleDriver
  /\ \E ks \in [Names -> RetryIds] :
       LET retried == failed \ configFaults IN
       /\ \A n \in Names : ks[n] \in IF n \in retried THEN Lowest(FreeRetries(retries[n])) ELSE {1}
       /\ slot' = [n \in Names |->
            IF n \in retried THEN [slot[n] EXCEPT !.retry = ks[n]] ELSE slot[n]]
       /\ retries' = [n \in Names |->
            IF n \in retried THEN [retries[n] EXCEPT ![ks[n]] = NewRetry(registry[n])]
            ELSE retries[n]]
  /\ UNCHANGED <<registry, sups, health, series, stopping, bounds>>

\* The supervisor u of surface n serves: _install after its await, once it has
\* found the slot still in the table.
Installed(n, u) ==
  /\ slot' = [slot EXCEPT ![n] = [@ EXCEPT !.sup = u, !.fault = FALSE]]
  /\ sups' = [sups EXCEPT ![n] = Retire([@ EXCEPT ![u].st = "serving"], slot[n].sup)]
  /\ series' = [series EXCEPT ![n] = u]

DriverStartOk(n) ==
  /\ driver.st = "start"
  /\ n = driver.cur
  /\ Installed(n, driver.sup)
  /\ driver' = [driver EXCEPT !.st = "step", !.cur = NoEntry, !.sup = None]
  /\ IF phase = "up" THEN Cleared({n}) ELSE UNCHANGED health
  /\ UNCHANGED <<phase, registry, retries, stopping, bounds>>

-----------------------------------------------------------------------------
(* reload()                                                                *)

\* load_registry, check_registry and diff.  With nothing to attach, gather()
\* returns without yielding.
ReloadStart(new) ==
  /\ Yielded
  /\ phase = "up"
  /\ driver.st = "idle"
  /\ reloads < MaxReloads
  /\ reloads' = reloads + 1
  /\ LET targets == Added(new) \cup Changed(new) IN
     /\ \A n \in targets : FreeSups(n) # {}
     /\ driver' = [IdleDriver EXCEPT !.st = IF targets = {} THEN "step" ELSE "attach",
                                     !.new = new, !.todo = targets]
  /\ UNCHANGED <<phase, registry, slot, sups, retries, health, series, stopping, deaths>>

ReloadAttached(res) ==
  /\ driver.st = "attach"
  /\ \A n \in Names \ driver.todo : res[n] = "ok"
  /\ driver' = [driver EXCEPT !.st = "step", !.res = res]
  /\ UNCHANGED <<phase, registry, slot, sups, retries, health, series, stopping, bounds>>

\* The loop of reload() takes n: added surfaces come before changed ones.
Takes(n) ==
  /\ phase = "up"
  /\ driver.st = "step"
  /\ n \in driver.todo
  /\ n \in Added(driver.new) \/ driver.todo \cap Added(driver.new) = {}

\* The slot of n in the table, created when there is none, after _cancel_retry.
TargetSlot(n) == [slot[n] EXCEPT !.in = TRUE, !.retry = None]

ReloadInstall(n) ==
  /\ Takes(n)
  /\ driver.res[n] = "ok"
  /\ slot' = [slot EXCEPT ![n] = TargetSlot(n)]
  /\ retries' = [retries EXCEPT ![n] = CancelledRetries(n)]
  /\ DriverInstalls(n)
  /\ UNCHANGED <<phase, registry, health, series, stopping, bounds>>

\* Mutant: a failed reload takes the app out of the slot.
AttachFailedDrops(n, s, rs, fault) ==
  /\ failed' = failed \cup {n}
  /\ slot' = [slot EXCEPT ![n] = [s EXCEPT !.sup = None]]
  /\ retries' = [retries EXCEPT ![n] = rs]
  /\ UNCHANGED <<configFaults, reloadFailed>>

\* Mutant: the retry is of the entry that was in force.
AttachFailedOldEntry(n, s, rs, fault) ==
  \E k \in Lowest(FreeRetries(rs)) :
    /\ slot' = [slot EXCEPT ![n] = [s EXCEPT !.retry = k]]
    /\ retries' = [retries EXCEPT ![n] = [rs EXCEPT ![k] = NewRetry(registry[n])]]
    /\ reloadFailed' = IF s.sup = None THEN reloadFailed ELSE reloadFailed \cup {n}
    /\ failed' = IF s.sup = None THEN failed \cup {n} ELSE failed
    /\ UNCHANGED configFaults

\* _attach_failed() on slot s and retry tasks rs of n: a pending slot is
\* reported, a serving one keeps its app; a transient fault retries the new
\* entry, overwriting s.retry.
AttachFailed(n, s, rs, fault) ==
  /\ IF s.sup = None
     THEN /\ failed' = failed \cup {n}
          /\ configFaults' = IF fault THEN configFaults \cup {n} ELSE configFaults \ {n}
          /\ UNCHANGED reloadFailed
     ELSE /\ reloadFailed' = reloadFailed \cup {n}
          /\ UNCHANGED <<failed, configFaults>>
  /\ LET marked == [s EXCEPT !.fault = IF s.sup = None THEN fault ELSE @] IN
     \/ /\ fault
        /\ slot' = [slot EXCEPT ![n] = marked]
        /\ retries' = [retries EXCEPT ![n] = rs]
     \/ /\ ~fault
        /\ \E k \in Lowest(FreeRetries(rs)) :
             /\ slot' = [slot EXCEPT ![n] = [marked EXCEPT !.retry = k]]
             /\ retries' = [retries EXCEPT ![n] =
                              [rs EXCEPT ![k] = NewRetry(driver.new[n])]]

ReloadTargetFailed(n) ==
  /\ Takes(n)
  /\ driver.res[n] # "ok"
  /\ AttachFailed(n, TargetSlot(n), CancelledRetries(n), driver.res[n] = "fault")
  /\ sups' = [sups EXCEPT ![n] = CancelledSups(n)]
  /\ driver' = [driver EXCEPT !.todo = @ \ {n}]
  /\ UNCHANGED <<phase, registry, series, stopping, bounds>>

\* The error of an app that fails to start says, as that of an attach does, whether it is
\* a fault of the configuration.
ReloadStartFails(n) ==
  /\ phase = "up"
  /\ driver.st = "start"
  /\ n = driver.cur
  /\ \E fault \in BOOLEAN : AttachFailed(n, slot[n], retries[n], fault)
  /\ sups' = [sups EXCEPT ![n][driver.sup] = FreeSup]
  /\ driver' = [driver EXCEPT !.st = "step", !.cur = NoEntry, !.sup = None]
  /\ UNCHANGED <<phase, registry, series, stopping, bounds>>

\* What _remove() does to the retry tasks of n: the one slot.retry names is
\* cancelled, any other now holds a slot that is in no table.
Orphaned(n) ==
  [k \in RetryIds |->
     IF ~Live(CancelledRetries(n)[k]) \/ retries[n][k].slot # "table"
     THEN CancelledRetries(n)[k]
     ELSE [retries[n][k] EXCEPT
             !.slot = IF slot[n].sup = None THEN "gonePending" ELSE "goneServing"]]

\* The end of reload(): the removed surfaces go, the new registry is in force.
ReloadDone ==
  /\ phase = "up"
  /\ driver.st = "step"
  /\ driver.todo = {}
  /\ LET gone == Removed(driver.new) IN
     /\ slot' = [n \in Names |-> IF n \in gone THEN NoSlot ELSE slot[n]]
     /\ sups' = [n \in Names |->
          IF n \in gone THEN Retire(CancelledSups(n), slot[n].sup) ELSE sups[n]]
     /\ retries' = [n \in Names |-> IF n \in gone THEN Orphaned(n) ELSE retries[n]]
     /\ series' = [n \in Names |-> IF n \in gone THEN None ELSE series[n]]
     /\ Cleared(gone)
  /\ registry' = driver.new
  /\ driver' = IdleDriver
  /\ UNCHANGED <<phase, stopping, bounds>>

-----------------------------------------------------------------------------
(* _retry()                                                                *)

\* slot.app is None, on the slot object the task holds.
SlotPending(n, k) ==
  \/ retries[n][k].slot = "table" /\ slot[n].sup = None
  \/ retries[n][k].slot = "gonePending"

\* _retry_done(): only the task's own handle is cleared.
RetryDone(n, k, s) == [s EXCEPT !.retry = IF @ = k THEN None ELSE @]

RetryWakes(n, k) ==
  /\ Yielded
  /\ retries[n][k].st = "sleep"
  /\ retries' = [retries EXCEPT ![n][k].st = "attach"]
  /\ UNCHANGED <<phase, registry, slot, sups, health, series, driver, stopping, bounds>>

RetryAttachOk(n, k) ==
  /\ Yielded
  /\ retries[n][k].st = "attach"
  /\ Room(n)
  /\ \E u \in Lowest(FreeSups(n)) :
       /\ sups' = [sups EXCEPT ![n][u] = [st |-> "starting", entry |-> retries[n][k].entry]]
       /\ retries' = [retries EXCEPT ![n][k] = [@ EXCEPT !.st = "start", !.sup = u]]
  /\ UNCHANGED <<phase, registry, slot, health, series, driver, stopping, bounds>>

\* Mutant: the retry gives up on the first failure.
RetryAttachGivesUp(n, k) ==
  /\ Yielded
  /\ retries[n][k].st = "attach"
  /\ retries' = [retries EXCEPT ![n][k] = FreeRetry]
  /\ UNCHANGED <<phase, registry, slot, sups, health, series, driver, stopping, bounds>>

RetryAttachTransient(n, k) ==
  /\ Yielded
  /\ retries[n][k].st = "attach"
  /\ retries' = [retries EXCEPT ![n][k].st = "sleep"]
  /\ failed' = IF SlotPending(n, k) THEN failed \cup {n} ELSE failed
  /\ UNCHANGED <<phase, registry, slot, sups, configFaults, reloadFailed, series,
                 driver, stopping, bounds>>

\* A configuration fault ends the loop.
RetryAttachFault(n, k) ==
  /\ Yielded
  /\ retries[n][k].st = "attach"
  /\ retries' = [retries EXCEPT ![n][k] = FreeRetry]
  /\ IF SlotPending(n, k)
     THEN /\ failed' = failed \cup {n}
          /\ configFaults' = configFaults \cup {n}
     ELSE UNCHANGED <<failed, configFaults>>
  /\ slot' = IF retries[n][k].slot = "table"
             THEN [slot EXCEPT ![n] =
                     [RetryDone(n, k, @) EXCEPT !.fault = slot[n].fault \/ slot[n].sup = None]]
             ELSE slot
  /\ UNCHANGED <<phase, registry, sups, reloadFailed, series, driver, stopping, bounds>>

\* start() has awaited the close of the backend before it raises.
RetryStartFails(n, k) ==
  /\ Yielded
  /\ retries[n][k].st = "start"
  /\ sups' = [sups EXCEPT ![n][retries[n][k].sup] = FreeSup]
  /\ retries' = [retries EXCEPT ![n][k] = [@ EXCEPT !.st = "sleep", !.sup = None]]
  /\ UNCHANGED <<phase, registry, slot, health, series, driver, stopping, bounds>>

\* Mutant: the series is pointed at the app wherever it ends up.
RetryStartTracks(n, k) ==
  /\ Yielded
  /\ retries[n][k].st = "start"
  /\ series' = [series EXCEPT ![n] = retries[n][k].sup]
  /\ sups' = [sups EXCEPT ![n] = Retire(@, retries[n][k].sup)]
  /\ retries' = [retries EXCEPT ![n][k] = FreeRetry]
  /\ Cleared({n})
  /\ UNCHANGED <<phase, registry, slot, driver, stopping, bounds>>

\* The app serves.  It goes into the slot the task holds if the table still
\* has it; otherwise it is retired at once.  The bookkeeping is by name.
RetryStartOk(n, k) ==
  /\ Yielded
  /\ retries[n][k].st = "start"
  /\ LET u == retries[n][k].sup IN
     IF retries[n][k].slot = "table"
     THEN /\ slot' = [slot EXCEPT ![n] =
                        [RetryDone(n, k, @) EXCEPT !.sup = u, !.fault = FALSE]]
          /\ sups' = [sups EXCEPT ![n] = Retire([@ EXCEPT ![u].st = "serving"], slot[n].sup)]
          /\ series' = [series EXCEPT ![n] = u]
     ELSE /\ sups' = [sups EXCEPT ![n] = Retire(@, u)]
          /\ UNCHANGED <<slot, series>>
  /\ retries' = [retries EXCEPT ![n][k] = FreeRetry]
  /\ Cleared({n})
  /\ UNCHANGED <<phase, registry, driver, stopping, bounds>>

-----------------------------------------------------------------------------
(* The installed apps                                                      *)

\* Mutant: the surface whose app died is not retried.
ServingFailedGivesUp(n) ==
  /\ failed' = failed \cup {n}
  /\ series' = [series EXCEPT ![n] = None]
  /\ slot' = [slot EXCEPT ![n].sup = None]
  /\ UNCHANGED retries

\* Mutant: the surface is not reported as failed.
ServingFailedSilent(n) ==
  /\ series' = [series EXCEPT ![n] = None]
  /\ \E k \in Lowest(FreeRetries(retries[n])) :
       /\ slot' = [slot EXCEPT ![n] = [@ EXCEPT !.sup = None, !.retry = k]]
       /\ retries' = [retries EXCEPT ![n][k] = NewRetry(registry[n])]
  /\ UNCHANGED failed

\* _serving_failed() for the app that holds the slot of n: 503 again, and a
\* retry of the entry in force unless slot.retry is taken.
ServingFailed(n) ==
  /\ failed' = failed \cup {n}
  /\ series' = [series EXCEPT ![n] = None]
  /\ IF registry[n] # NoEntry /\ slot[n].retry = None
     THEN \E k \in Lowest(FreeRetries(retries[n])) :
            /\ slot' = [slot EXCEPT ![n] = [@ EXCEPT !.sup = None, !.retry = k]]
            /\ retries' = [retries EXCEPT ![n][k] = NewRetry(registry[n])]
     ELSE /\ slot' = [slot EXCEPT ![n].sup = None]
          /\ UNCHANGED retries

AppDies(n, u) ==
  /\ Yielded
  /\ sups[n][u].st = "serving"
  /\ deaths < MaxDeaths
  /\ DieAnytime \/ (phase = "up" /\ driver.st = "idle")
  /\ deaths' = deaths + 1
  /\ sups' = [sups EXCEPT ![n][u].st = "dying"]
  /\ IF slot[n].in /\ slot[n].sup = u
     THEN ServingFailed(n)
     ELSE UNCHANGED <<slot, retries, failed, series>>
  /\ UNCHANGED <<phase, registry, configFaults, reloadFailed, driver, stopping, reloads>>

\* The drain ends, the lifespan exits and the backend is closed.
SupCloses(n, u) ==
  /\ Yielded
  /\ sups[n][u].st \in {"retiring", "dying"}
  /\ sups' = [sups EXCEPT ![n][u] = FreeSup]
  /\ stopping' = stopping \ {<<n, u>>}
  /\ UNCHANGED <<phase, registry, slot, retries, health, series, driver, bounds>>

-----------------------------------------------------------------------------
(* shutdown()                                                              *)

\* Mutant: start() does not cancel the app when its caller is cancelled.
StopReloadOrphans ==
  /\ Yielded
  /\ phase = "up"
  /\ phase' = "stopReload"
  /\ stopping' = {p \in Names \X SupIds : p = <<driver.cur, driver.sup>>}
  /\ driver' = IdleDriver
  /\ UNCHANGED <<registry, slot, sups, retries, health, series, bounds>>

\* reloader.cancel(): a reload in flight unwinds; the app it was starting closes.
StopReload ==
  /\ Yielded
  /\ phase = "up"
  /\ phase' = "stopReload"
  /\ IF driver.st = "start"
     THEN /\ sups' = [sups EXCEPT ![driver.cur] = Retire(@, driver.sup)]
          /\ stopping' = {p \in Names \X SupIds : p = <<driver.cur, driver.sup>>}
     ELSE UNCHANGED <<sups, stopping>>
  /\ driver' = IdleDriver
  /\ UNCHANGED <<registry, slot, retries, health, series, bounds>>

\* The retries that slots name are cancelled and awaited.
StopRetries ==
  /\ Yielded
  /\ phase = "stopReload"
  /\ stopping = {}
  /\ phase' = "stopRetries"
  /\ sups' = [n \in Names |-> CancelledSups(n)]
  /\ stopping' = {p \in Names \X SupIds :
       slot[p[1]].retry # None /\ retries[p[1]][slot[p[1]].retry].sup = p[2]}
  /\ retries' = [n \in Names |-> [k \in RetryIds |->
       IF slot[n].retry = k THEN [FreeRetry EXCEPT !.st = "dead"] ELSE retries[n][k]]]
  /\ UNCHANGED <<registry, slot, health, series, driver, bounds>>

\* Every supervisor of the table, and the retiring ones, are cancelled and awaited.
StopApps ==
  /\ Yielded
  /\ phase = "stopRetries"
  /\ stopping = {}
  /\ phase' = "stopApps"
  /\ sups' = [n \in Names |-> Retire(sups[n], slot[n].sup)]
  /\ stopping' = {p \in Names \X SupIds :
       slot[p[1]].sup = p[2] \/ sups[p[1]][p[2]].st = "retiring"}
  /\ UNCHANGED <<registry, slot, retries, health, series, driver, bounds>>

Down ==
  /\ Yielded
  /\ phase = "stopApps"
  /\ stopping = {}
  /\ phase' = "down"
  /\ UNCHANGED <<registry, slot, sups, retries, health, series, driver, stopping, bounds>>

-----------------------------------------------------------------------------

DriverStep ==
  \/ \E n \in Names : BootInstall(n) \/ BootStartFails(n) \/ DriverStartOk(n)
  \/ BootDone
  \/ \E res \in [Names -> Outcomes] : ReloadAttached(res)
  \/ \E n \in Names : ReloadInstall(n) \/ ReloadTargetFailed(n) \/ ReloadStartFails(n)
  \/ ReloadDone

RetryFails(n, k) ==
  RetryAttachTransient(n, k) \/ RetryAttachFault(n, k) \/ RetryStartFails(n, k)

ShutdownStep == StopRetries \/ StopApps \/ Down

Next ==
  \/ DriverStep
  \/ \E new \in Registries : ReloadStart(new)
  \/ \E n \in Names, k \in RetryIds :
       RetryWakes(n, k) \/ RetryAttachOk(n, k) \/ RetryStartOk(n, k) \/ RetryFails(n, k)
  \/ \E n \in Names, u \in SupIds : AppDies(n, u) \/ SupCloses(n, u)
  \/ StopReload
  \/ ShutdownStep

\* Attaches, starts, drains and closes are bounded by timeouts, so the driver,
\* a closing app and shutdown go on.  An attach that is retried for ever
\* succeeds eventually: the backend comes back.
Fairness ==
  /\ WF_vars(DriverStep)
  /\ WF_vars(ShutdownStep)
  /\ \A n \in Names :
       /\ \A u \in SupIds : WF_vars(SupCloses(n, u))
       /\ \A k \in RetryIds : WF_vars(RetryWakes(n, k))
       /\ SF_vars(\E k \in RetryIds : RetryAttachOk(n, k))
       /\ SF_vars(\E k \in RetryIds : RetryStartOk(n, k))

Spec == Init /\ [][Next]_vars
FairSpec == Spec /\ Fairness

-----------------------------------------------------------------------------
(* Properties                                                              *)

Settled == phase = "up" /\ driver.st = "idle"
Running == phase \in {"boot", "up"}

\* A surface that answers "not attached; the gateway is retrying" is being
\* retried (SurfaceSlot.__call__, _serving_failed, _attach_failed).
PendingIsRetried ==
  Settled => \A n \in Names :
    Pending(n) /\ ~slot[n].fault =>
      slot[n].retry # None /\ Live(retries[n][slot[n].retry])

\* The only retry task of a surface is the one its slot names, so that a reload can
\* cancel it (_retry, _cancel_retry); and shutdown leaves none behind (shutdown).
OneRetryPerSlot ==
  \A n \in Names, k \in RetryIds : Live(retries[n][k]) =>
    /\ Running => slot[n].in /\ slot[n].retry = k
    /\ phase # "down"

\* The table routes exactly the surfaces of the registry in force.  Each serves its
\* entry there, unless it is reported as still serving its pre-reload app; and what
\* is being retried is the entry in force.
ServesEntryInForce ==
  Settled => \A n \in Names :
    /\ slot[n].in <=> registry[n] # NoEntry
    /\ Serving(n) => sups[n][slot[n].sup].entry = registry[n] \/ n \in reloadFailed
    /\ \A k \in RetryIds : Live(retries[n][k]) => retries[n][k].entry = registry[n]

\* /healthz: failed are the surfaces that answer 503, and needs_config_change those whose
\* 503 says they will not be retried.  reload_failed lists only surfaces that serve, until
\* an app has died: _serving_failed (runtime.py:438) leaves the name of its surface there,
\* against docs/DEPLOYMENT.md:183.
HealthTellsTruth ==
  Settled =>
    /\ failed = {n \in Names : Pending(n)}
    /\ configFaults = {n \in Names : slot[n].in /\ slot[n].fault}
    /\ deaths = 0 => \A n \in reloadFailed : Serving(n)

\* active_sessions{surface=n} counts the sessions of the app that serves n
\* (Supervisor.track is called by the install, never from inside _run).
SeriesFollowSlot == \A n \in Names : series[n] = slot[n].sup

\* Every app has one owner that will close it: an app serves only from the slot
\* that names it, and starts only for the task that awaits it (Supervisor.start).
AppsAreOwned ==
  phase \in {"boot", "up", "stopReload", "stopRetries"} =>
    \A n \in Names, u \in SupIds :
      /\ sups[n][u].st = "serving" <=> slot[n].in /\ slot[n].sup = u
      /\ sups[n][u].st = "starting" =>
           \/ driver.st = "start" /\ driver.cur = n /\ driver.sup = u
           \/ \E k \in RetryIds : retries[n][k].st = "start" /\ retries[n][k].sup = u

\* A reload never turns a working surface into a 503: a slot loses its app only
\* when the app dies, or the reload removes the surface.
WorkingSurfaceStays ==
  [][\A n \in Names : Serving(n) /\ ~Serving(n)' =>
       deaths' > deaths \/ (driver.st = "step" /\ driver.new[n] = NoEntry)]_vars

\* A surface that is down for a transient reason comes back, is found to need a
\* configuration change, is removed, or the gateway stops.
PendingRecovers ==
  \A n \in Names :
    (phase = "up" /\ Pending(n) /\ ~slot[n].fault) ~>
      (phase # "up" \/ ~Pending(n) \/ slot[n].fault)

\* No wait is for ever: boot and every reload end, a replaced, removed or dead app is
\* closed, and shutdown ends, whatever was going on when it began.
EveryWaitEnds ==
  /\ driver.st # "idle" ~> driver.st = "idle"
  /\ phase = "stopReload" ~> phase = "down"
  /\ \A n \in Names, u \in SupIds :
       sups[n][u].st \in {"retiring", "dying"} ~> sups[n][u].st = "free" \/ phase = "down"

=============================================================================
