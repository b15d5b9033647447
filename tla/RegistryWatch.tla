---------------------------- MODULE RegistryWatch ----------------------------
(***************************************************************************)
(* Reloader with what it reloads and what asks it to: registry.toml and    *)
(* the ${file:} secrets it names, changed on disk by other processes; the  *)
(* watch that stats them (runtime.py); boot and reload, which read them at *)
(* different moments; and the fingerprints that decide what to re-attach   *)
(* (reload.py).                                                            *)
(*                                                                         *)
(* A file is the number of its last write, which is also its stamp.  An    *)
(* entry is the one secret that it names, so that a registry is the set of *)
(* secrets of its entries, and an app is the write of the secret that it   *)
(* was attached with.  Attaches succeed; SurfaceRuntime has those that     *)
(* fail and are retried.                                                   *)
(***************************************************************************)
EXTENDS Reloader, Naturals, TLC

CONSTANTS
  Secrets,
  Registry,     \* the path of the registry
  Watch,        \* the requester that is the watch
  MayBeMissing, \* may an edit name a secret that is not there yet?
  NoEntry,      \* no fingerprint, no app
  MaxWrites     \* bound: writes to disk, but for the end of a save

ASSUME WatchAssumption == Watch \in Requesters
ASSUME PathAssumption == Registry \notin Secrets
ASSUME BoundAssumption == MaxWrites \in Nat /\ NoEntry \notin Nat
ASSUME MissingAssumption == MayBeMissing \in BOOLEAN

Paths == Secrets \cup {Registry}
Missing == 0

VARIABLES
  disk,    \* disk[p]: the last write of p
  toml,    \* what the registry says: its entries, and whether it lints
  saving,  \* what a save_registry() that has truncated the file will write
  writes,  \* count of writes
  work,    \* the boot or the reload under way
  force,   \* registry, fingerprints: those in force
  running, \* running[s]: the write of s its app was attached with
  watch,   \* the watch: the stamps that it has, and those that it takes
  raised   \* history: a reload has raised

ext == <<disk, toml, saving, writes>>
wvars == <<vars, ext, work, force, running, watch, raised>>

NotSaving == [entries |-> {}, lints |-> FALSE]
NoWork == [at |-> "none", entries |-> {}, todo |-> {}, prints |-> <<>>]
Starting == [NoWork EXCEPT !.at = "load"]
NoPrints == [s \in Secrets |-> NoEntry]
Prints == [Secrets -> 0 .. MaxWrites + 2 \cup {NoEntry}]

WTypeOK ==
  /\ TypeOK
  /\ disk \in [Paths -> 0 .. MaxWrites + 2]
  /\ toml \in [entries : SUBSET Secrets, lints : BOOLEAN]
  /\ writes \in 0 .. MaxWrites + 1
  /\ work.at \in {"none", "load", "print", "stamp", "diff", "attach"}
  /\ force.entries \subseteq Secrets /\ force.prints \in Prints
  /\ running \in Prints
  /\ watch.at \in {"boot", "asleep", "stat", "asking"}

\* build_gateway_app() has stamped the registry and is about to read it.
WInit ==
  /\ Init
  /\ disk \in [Paths -> {Missing, 1}] /\ disk[Registry] = 1
  /\ \E es \in SUBSET Secrets :
       /\ \A s \in es : disk[s] # Missing
       /\ toml = [entries |-> es, lints |-> TRUE]
  /\ saving = NotSaving /\ writes = 0
  /\ work = Starting
  /\ force = [entries |-> {}, prints |-> NoPrints]
  /\ running = NoPrints
  /\ watch = [at |-> "boot", last |-> <<>>, stamp |-> Registry :> 1, todo |-> {}]
  /\ raised = FALSE

-----------------------------------------------------------------------------
(* Other processes                                                         *)

\* Nothing reads the disk once the runtime is closed.
Wrote(p) ==
  /\ ~closed
  /\ writes' = writes + 1
  /\ disk' = [disk EXCEPT ![p] = writes + 2]

There(es) == MayBeMissing \/ \A s \in es : disk[s] # Missing

\* An editor replaces the registry.
Edit(es, lints) ==
  /\ saving = NotSaving /\ There(es) /\ writes < MaxWrites
  /\ Wrote(Registry)
  /\ toml' = [entries |-> es, lints |-> lints]
  /\ UNCHANGED <<vars, saving, work, force, running, watch, raised>>

\* save_registry() of `attach` and `detach` writes in place: for a moment
\* the file is empty, which is a registry that lints.
SaveBegins(es) ==
  /\ saving = NotSaving /\ There(es) /\ writes < MaxWrites
  /\ Wrote(Registry)
  /\ toml' = [entries |-> {}, lints |-> TRUE]
  /\ saving' = [entries |-> es, lints |-> TRUE]
  /\ UNCHANGED <<vars, work, force, running, watch, raised>>

SaveEnds ==
  /\ saving # NotSaving
  /\ Wrote(Registry)
  /\ toml' = saving
  /\ saving' = NotSaving
  /\ UNCHANGED <<vars, work, force, running, watch, raised>>

\* A secret is rotated, or appears.
Rotate(s) ==
  /\ writes < MaxWrites
  /\ Wrote(s)
  /\ UNCHANGED <<vars, toml, saving, work, force, running, watch, raised>>

-----------------------------------------------------------------------------
(* The three passes of boot() and of reload()                              *)

Booting == watch.at = "boot"

Load ==
  /\ work.at = "load"
  /\ toml.lints
  /\ work' = [at |-> "print", entries |-> toml.entries, todo |-> toml.entries,
              prints |-> NoPrints]
  /\ UNCHANGED <<vars, ext, force, running, watch, raised>>

\* fingerprint() of every entry, over the value that its secret has now.
Fingerprint(s) ==
  /\ work.at = "print" /\ s \in work.todo
  /\ disk[s] # Missing
  /\ work' = [work EXCEPT !.todo = @ \ {s}, !.prints[s] = disk[s]]
  /\ UNCHANGED <<vars, ext, force, running, watch, raised>>

\* boot(): the stamps of the secrets, as the baseline of the watch.
BootStamps ==
  /\ Booting /\ work.at = "print" /\ work.todo = {}
  /\ work' = [work EXCEPT !.at = "stamp", !.todo = work.entries]
  /\ UNCHANGED <<vars, ext, force, running, watch, raised>>

BootStamp(s) ==
  /\ work.at = "stamp" /\ s \in work.todo
  /\ work' = [work EXCEPT !.todo = @ \ {s}]
  /\ watch' = [watch EXCEPT !.stamp = (s :> disk[s]) @@ @]
  /\ UNCHANGED <<vars, ext, force, running, raised>>

\* diff(): added and changed entries.
Targets == {s \in work.entries : work.prints[s] # force.prints[s]}

Diff ==
  /\ \/ ~Booting /\ work.at = "print"
     \/ Booting /\ work.at = "stamp"
  /\ work.todo = {}
  /\ work' = [work EXCEPT !.at = "attach", !.todo = Targets]
  /\ UNCHANGED <<vars, ext, force, running, watch, raised>>

\* The attach of s reads the secret again; its app serves.
Attach(s) ==
  /\ work.at = "attach" /\ s \in work.todo
  /\ work' = [work EXCEPT !.todo = @ \ {s}]
  /\ running' = [running EXCEPT ![s] = disk[s]]
  /\ UNCHANGED <<vars, ext, force, watch, raised>>

Attached == work.at = "attach" /\ work.todo = {}

\* Mutant: fingerprints are taken after the attach.
CommitsLate ==
  /\ force' = [entries |-> work.entries,
               prints |-> [s \in Secrets |-> IF s \in work.entries THEN disk[s] ELSE NoEntry]]
  /\ running' = [s \in Secrets |-> IF s \in work.entries THEN running[s] ELSE NoEntry]

\* What a finished pass puts in force: removed surfaces go.
Commits ==
  /\ force' = [entries |-> work.entries, prints |-> work.prints]
  /\ running' = [s \in Secrets |-> IF s \in work.entries THEN running[s] ELSE NoEntry]

\* start(): the apps are served, SIGHUP and the watch are installed.
Boots ==
  /\ Booting /\ Attached
  /\ Commits
  /\ work' = NoWork
  /\ watch' = [watch EXCEPT !.at = "asleep", !.last = watch.stamp, !.stamp = <<>>]
  /\ UNCHANGED <<vars, ext, raised>>

\* The registry does not lint, or a secret that it names is not there.
Faulty ==
  \/ work.at = "load" /\ ~toml.lints
  \/ work.at = "print" /\ \E s \in work.todo : disk[s] = Missing

\* A fault ends a boot and the process, which its supervisor starts again.
Restarts ==
  /\ Booting /\ Faulty
  /\ work' = Starting
  /\ watch' = [watch EXCEPT !.stamp = Registry :> disk[Registry]]
  /\ UNCHANGED <<vars, ext, force, running, raised>>

NextWork == work' = IF next THEN Starting ELSE NoWork

WFirstStep ==
  /\ FirstStep
  /\ work' = Starting
  /\ UNCHANGED <<ext, force, running, watch, raised>>

\* reload() returns: everything is in force.
Reloads ==
  /\ ~Booting /\ Attached
  /\ ApplyEnds("ok")
  /\ Commits /\ NextWork
  /\ UNCHANGED <<ext, watch, raised>>

\* reload() returns a failure: what was in force stays in force.
Refuses ==
  /\ ~Booting /\ Faulty
  /\ ApplyEnds("ok")
  /\ NextWork
  /\ UNCHANGED <<ext, force, running, watch, raised>>

\* reload() raises, between the attaches and what puts them in force.
Raises ==
  /\ ~Booting /\ Attached
  /\ ApplyEnds("error")
  /\ NextWork
  /\ raised' = TRUE
  /\ UNCHANGED <<ext, force, running, watch>>

WUnwound ==
  /\ Unwound
  /\ UNCHANGED <<ext, work, force, running, watch, raised>>

\* shutdown() cancels the reload; the watch goes with it.
WCancel ==
  /\ ~Booting
  /\ Cancel
  /\ work' = NoWork
  /\ UNCHANGED <<ext, force, running, watch, raised>>

-----------------------------------------------------------------------------
(* Who asks                                                                *)

\* The admin API and SIGHUP.
Asks(r) ==
  /\ ~Booting /\ r # Watch
  /\ RequestClosed(r) \/ RequestBusy(r) \/ RequestIdle(r) \/ RequesterCancelled(r)
  /\ UNCHANGED <<ext, work, force, running, watch, raised>>

\* Mutant: the paths of the registry that boot read.
OnlyTheRegistry == {Registry}

WatchedPaths == {Registry} \cup force.entries

\* A tick: the stats run in a thread, over the paths as they are now.
Ticks ==
  /\ watch.at = "asleep" /\ ~closed
  /\ watch' = [watch EXCEPT !.at = "stat", !.stamp = <<>>, !.todo = WatchedPaths]
  /\ UNCHANGED <<vars, ext, work, force, running, raised>>

Stats(p) ==
  /\ watch.at = "stat" /\ p \in watch.todo
  /\ watch' = [watch EXCEPT !.todo = @ \ {p}, !.stamp = (p :> disk[p]) @@ @]
  /\ UNCHANGED <<vars, ext, work, force, running, raised>>

SeesNothing ==
  /\ watch.at = "stat" /\ watch.todo = {}
  /\ watch.stamp = watch.last
  /\ watch' = [watch EXCEPT !.at = "asleep", !.stamp = <<>>]
  /\ UNCHANGED <<vars, ext, work, force, running, raised>>

\* last is updated before the reload that it asks for.
SeesChange ==
  /\ watch.at = "stat" /\ watch.todo = {} /\ ~closed
  /\ watch.stamp # watch.last
  /\ watch' = [watch EXCEPT !.at = "asking", !.last = watch.stamp, !.stamp = <<>>]
  /\ RequestBusy(Watch) \/ RequestIdle(Watch)
  /\ UNCHANGED <<ext, work, force, running, raised>>

\* The reload has answered, or raised, which the watch outlives.
Sleeps ==
  /\ watch.at = "asking" /\ ~Waiting(Watch)
  /\ watch' = [watch EXCEPT !.at = "asleep"]
  /\ UNCHANGED <<vars, ext, work, force, running, raised>>

-----------------------------------------------------------------------------

Writes ==
  \/ \E es \in SUBSET Secrets : SaveBegins(es) \/ \E lints \in BOOLEAN : Edit(es, lints)
  \/ \E s \in Secrets : Rotate(s)

Applies ==
  \/ Load \/ Diff \/ Restarts \/ Boots \/ BootStamps \/ Reloads \/ Refuses
  \/ WFirstStep \/ WUnwound
  \/ \E s \in Secrets : Fingerprint(s) \/ BootStamp(s) \/ Attach(s)

Watches ==
  \/ Ticks \/ SeesNothing \/ SeesChange \/ Sleeps
  \/ \E p \in Paths : Stats(p)

WNext ==
  \/ Writes \/ SaveEnds
  \/ Applies \/ Raises \/ WCancel
  \/ \E r \in Requesters : Asks(r)
  \/ Watches

\* A save ends, a reload goes on (every attach in it is bounded by
\* BEHEROUTER_ATTACH_TIMEOUT_S) and the watch wakes up.
WSpec ==
  /\ WInit /\ [][WNext]_wvars
  /\ WF_wvars(SaveEnds) /\ WF_wvars(Applies) /\ WF_wvars(Watches)

-----------------------------------------------------------------------------

\* An app never runs on an older write of its secret than its fingerprint
\* says: a reload that leaves it alone leaves nothing behind (boot(), "taken
\* after, they would match the new file while the app runs on the old
\* value, and nothing would ever re-attach it").
FingerprintsAreNotNewer ==
  \A s \in force.entries : running[s] # NoEntry /\ running[s] >= force.prints[s]

\* Once the disk is left alone, with a sound registry, every app serves
\* what the disk says, whatever was written at whatever moment of a boot, a
\* tick or a reload; but for a reload that raised.  It takes that a secret is
\* there before an entry names it: a registry that is refused for a missing
\* secret is not watched for it, and no reload follows when it appears.
InForce ==
  /\ force.entries = toml.entries
  /\ \A s \in toml.entries : running[s] = disk[s]
Sound == toml.lints /\ \A s \in toml.entries : disk[s] # Missing
WatchConverges == <>[](closed \/ raised \/ ~Sound \/ InForce)

=============================================================================
