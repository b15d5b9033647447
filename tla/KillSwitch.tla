----------------------------- MODULE KillSwitch -----------------------------
(***************************************************************************)
(* The kill switch of killswitch.py: one JSON file, read through a stat    *)
(* cache by every call, and rewritten by the admin API (admin.py, write).  *)
(*                                                                         *)
(* The event loop is one actor; the threads of asyncio.to_thread and other *)
(* processes (an operator's editor, a replica) are others and run between  *)
(* any two system calls, so state() is two steps, the stat and the rest.   *)
(* While it runs no other code of the loop does.                           *)
(*                                                                         *)
(* Abstractions: an item is a stop of all, of a surface or of a caller;    *)
(* reason, time and author are left out.  Every write of the file has a    *)
(* new stamp (mtime_ns, size, ino).  An unreadable file is a malformed one.*)
(***************************************************************************)
EXTENDS Naturals, FiniteSets

CONSTANTS
  Items,       \* what can be stopped or blocked
  Admins,      \* requests to the admin API in this process
  Malformed,   \* the content of a file that does not parse
  Missing,     \* no file
  NoState,     \* no last-good state: before boot
  MaxStamp,    \* bound: writes of the file
  MaxRestarts, \* bound: crashes of the process
  MaxCancels   \* bound: admin requests cancelled while they are served

ASSUME ContentsAssumption ==
  /\ Malformed # Missing
  /\ \A s \in SUBSET Items : s # Malformed /\ s # Missing /\ s # NoState
ASSUME BoundsAssumption == MaxStamp \in Nat \ {0} /\ MaxRestarts \in Nat /\ MaxCancels \in Nat

Nobody == "nobody"
ASSUME AdminsAssumption == Admins \cap {"call", Nobody} = {}

States == SUBSET Items
Contents == {Malformed, Missing} \cup States
Parses(c) == c \notin {Malformed, Missing}
NoStamp == 0   \* the stamp of a missing file
NoBad == MaxStamp + 1  \* _NONE_BAD
Stamps == NoStamp .. MaxStamp

VARIABLES
  process,  \* "boot", "up" or "refused" (boot met a malformed file)
  file,     \* the file: its stamp and content
  written,  \* the stamps used so far
  cache,    \* _stamp, _good, _bad_stamp and stale
  reader,   \* the call of state() in progress, if any
  answer,   \* what the last call of state() returned
  lock,     \* the admin request that holds _lock
  req,      \* req[a]: the update that request a is doing
  orphans,  \* contents that threads of cancelled requests will still write
  promised, \* history: the change of each item that the API wrote last
  acked,    \* history: the items whose last change is acknowledged
  held,     \* history: the contents of the file during the call of state()
  restarts, cancels

vars == <<process, file, written, cache, reader, answer, lock, req, orphans,
          promised, acked, held, restarts, cancels>>
bounds == <<restarts, cancels>>
history == <<promised, acked>>

Changes == [item : Items, on : BOOLEAN]
Promises == {"none", "on", "off"}

\* "wait": for the lock; "load", "loaded", "write", "written": before and after
\* the work of its thread; "ok", "conflict" and "cancelled" are the ends.
Requests == [pc : {"idle", "wait", "load", "loaded", "write", "written",
                   "ok", "conflict", "cancelled"},
             change : Changes,
             raw : Contents]

Readers == [who : Admins \cup {"call", Nobody}, stamp : Stamps,
            since : [Items -> Promises]]
NoReader == [who |-> Nobody, stamp |-> NoStamp, since |-> [i \in Items |-> "none"]]

FreshCache == [stamp |-> NoStamp, good |-> NoState, bad |-> NoBad, stale |-> FALSE]

TypeOK ==
  /\ process \in {"boot", "up", "refused"}
  /\ file \in [stamp : Stamps, content : Contents]
  /\ written \in Stamps
  /\ cache \in [stamp : Stamps, good : {NoState} \cup States,
                bad : Stamps \cup {NoBad}, stale : BOOLEAN]
  /\ reader \in Readers
  /\ answer \in [who : Admins \cup {"call", Nobody}, state : {NoState} \cup States,
                 since : [Items -> Promises]]
  /\ lock \in Admins \cup {Nobody}
  /\ req \in [Admins -> Requests]
  /\ \A a \in Admins : /\ req[a].pc = "loaded" => req[a].raw # Missing
                       /\ req[a].pc = "write" => req[a].raw \in States
  /\ orphans \in SUBSET States
  /\ promised \in [Items -> Promises]
  /\ acked \in SUBSET Items
  /\ held \in SUBSET Contents
  /\ restarts \in 0 .. MaxRestarts
  /\ cancels \in 0 .. MaxCancels

Init ==
  /\ process = "boot"
  /\ file \in [stamp : {1}, content : Contents \ {Missing}]
                \cup {[stamp |-> NoStamp, content |-> Missing]}
  /\ written = 1
  /\ cache = FreshCache
  /\ reader = NoReader
  /\ answer = [who |-> Nobody, state |-> NoState, since |-> NoReader.since]
  /\ lock = Nobody
  /\ \E i \in Items :
       req = [a \in Admins |-> [pc |-> "idle", change |-> [item |-> i, on |-> TRUE],
                                raw |-> Missing]]
  /\ orphans = {}
  /\ promised = [i \in Items |-> "none"]
  /\ acked = {}
  /\ held = {}
  /\ restarts = 0
  /\ cancels = 0

LoopFree == process = "up" /\ reader.who = Nobody

\* The file gets content c, by whichever process or thread.
Replaces(c) ==
  /\ written < MaxStamp
  /\ written' = written + 1
  /\ file' = IF c = Missing THEN [stamp |-> NoStamp, content |-> Missing]
             ELSE [stamp |-> written + 1, content |-> c]
  /\ held' = IF reader.who = Nobody THEN held ELSE held \cup {c}

-----------------------------------------------------------------------------
(* state()                                                                 *)

Stats(who) ==
  /\ reader' = [who |-> who, stamp |-> file.stamp,
                since |-> [i \in Items |-> IF i \in acked THEN promised[i] ELSE "none"]]
  /\ held' = {file.content}

\* A parsed state becomes the last-good one.
Good(state) == [stamp |-> reader.stamp, good |-> state, bad |-> NoBad, stale |-> FALSE]

\* Mutant: a malformed file is read as an empty state.
BadOpens == [cache EXCEPT !.good = {}, !.bad = reader.stamp, !.stale = TRUE]

\* A file that does not parse leaves the last-good state.
Bad == [cache EXCEPT !.bad = reader.stamp, !.stale = TRUE]

\* Mutant: the cache is not keyed by the stamp.
AfterStatNeverAgain ==
  IF cache.good # NoState THEN cache
  ELSE IF reader.stamp = NoStamp THEN Good({})
  ELSE IF Parses(file.content) THEN Good(file.content)
  ELSE Bad

\* Mutant: a file found malformed is only looked at again after a restart.
AfterStatStaysBad ==
  IF cache.stale THEN cache
  ELSE IF reader.stamp = NoStamp THEN Good({})
  ELSE IF Parses(file.content) THEN Good(file.content)
  ELSE Bad

\* The cache after the rest of state(), which reads the file only when the stamp
\* is neither the cached one nor the one already found malformed.
AfterStat ==
  IF reader.stamp = NoStamp THEN Good({})
  ELSE IF reader.stamp = cache.stamp /\ cache.good # NoState THEN Good(cache.good)
  ELSE IF reader.stamp = cache.bad /\ cache.good # NoState THEN Bad
  ELSE IF Parses(file.content) THEN Good(file.content)
  ELSE Bad

\* With no last-good state, at boot, state() raises and boot is refused.
Returns ==
  /\ cache' = IF AfterStat.good = NoState THEN cache ELSE AfterStat
  /\ answer' = [who |-> reader.who, state |-> AfterStat.good,
                since |-> [i \in Items |-> IF reader.since[i] = promised[i]
                                         THEN promised[i] ELSE "none"]]
  /\ reader' = NoReader
  /\ held' = {}

BootStat ==
  /\ process = "boot"
  /\ reader.who = Nobody
  /\ Stats("call")
  /\ UNCHANGED <<process, file, written, cache, answer, lock, req, orphans, history, bounds>>

BootRead ==
  /\ process = "boot"
  /\ reader.who # Nobody
  /\ Returns
  /\ process' = IF AfterStat.good = NoState THEN "refused" ELSE "up"
  /\ UNCHANGED <<file, written, lock, req, orphans, history, bounds>>

\* A tool call (stage_for) or /healthz.
CallStat ==
  /\ LoopFree
  /\ Stats("call")
  /\ UNCHANGED <<process, file, written, cache, answer, lock, req, orphans, history, bounds>>

CallRead ==
  /\ process = "up"
  /\ reader.who = "call"
  /\ Returns
  /\ UNCHANGED <<process, file, written, lock, req, orphans, history, bounds>>

-----------------------------------------------------------------------------
(* update(), for the admin routes                                          *)

Changed(c, change) == IF change.on THEN c \cup {change.item} ELSE c \ {change.item}

Request(a, change) ==
  /\ LoopFree
  /\ req[a].pc \in {"idle", "ok", "conflict", "cancelled"}
  /\ req' = [req EXCEPT ![a] = [pc |-> "wait", change |-> change, raw |-> Missing]]
  /\ promised' = [promised EXCEPT ![change.item] = "none"]
  /\ acked' = acked \ {change.item}
  /\ UNCHANGED <<process, file, written, cache, reader, answer, lock, orphans, held, bounds>>

\* Mutant: update() without the lock.
AcquireAny(a) ==
  /\ LoopFree
  /\ req[a].pc = "wait"
  /\ lock' = a
  /\ req' = [req EXCEPT ![a].pc = "load"]
  /\ UNCHANGED <<process, file, written, cache, reader, answer, orphans, history, held, bounds>>

Acquire(a) ==
  /\ LoopFree
  /\ req[a].pc = "wait"
  /\ lock = Nobody
  /\ lock' = a
  /\ req' = [req EXCEPT ![a].pc = "load"]
  /\ UNCHANGED <<process, file, written, cache, reader, answer, orphans, history, held, bounds>>

\* _load_raw, in a thread.
ThreadLoads(a) ==
  /\ req[a].pc = "load"
  /\ req' = [req EXCEPT ![a] = [pc |-> "loaded", change |-> @.change,
                               raw |-> IF file.content = Missing THEN {} ELSE file.content]]
  /\ UNCHANGED <<process, file, written, cache, reader, answer, lock, orphans, history, held, bounds>>

\* The loop resumes the request: a malformed file is a conflict, nothing is written.
LoadedConflict(a) ==
  /\ LoopFree
  /\ req[a].pc = "loaded"
  /\ req[a].raw = Malformed
  /\ req' = [req EXCEPT ![a].pc = "conflict"]
  /\ lock' = Nobody
  /\ UNCHANGED <<process, file, written, cache, reader, answer, orphans, history, held, bounds>>

Change(a) ==
  /\ LoopFree
  /\ req[a].pc = "loaded"
  /\ req[a].raw # Malformed
  /\ req' = [req EXCEPT ![a] = [pc |-> "write", change |-> @.change,
                               raw |-> Changed(@.raw, @.change)]]
  /\ UNCHANGED <<process, file, written, cache, reader, answer, lock, orphans, history, held, bounds>>

\* _write_raw, in a thread: the rename is what the others see.
ThreadReplaces(a) ==
  /\ req[a].pc = "write"
  /\ Replaces(req[a].raw)
  /\ req' = [req EXCEPT ![a].pc = "written"]
  /\ promised' = [promised EXCEPT ![req[a].change.item] =
                     IF req[a].change.on THEN "on" ELSE "off"]
  /\ UNCHANGED <<process, cache, reader, answer, lock, orphans, acked, bounds>>

\* The volume is read-only: a conflict.
ThreadFails(a) ==
  /\ LoopFree
  /\ req[a].pc = "write"
  /\ req' = [req EXCEPT ![a].pc = "conflict"]
  /\ lock' = Nobody
  /\ UNCHANGED <<process, file, written, cache, reader, answer, orphans, history, held, bounds>>

\* The loop resumes the request, which calls state() for its answer.
UpdateStat(a) ==
  /\ LoopFree
  /\ req[a].pc = "written"
  /\ Stats(a)
  /\ UNCHANGED <<process, file, written, cache, answer, lock, req, orphans, history, bounds>>

\* The request is acknowledged.
UpdateRead(a) ==
  /\ process = "up"
  /\ reader.who = a
  /\ Returns
  /\ req' = [req EXCEPT ![a].pc = "ok"]
  /\ lock' = Nobody
  /\ acked' = acked \cup {req[a].change.item}
  /\ UNCHANGED <<process, file, written, orphans, promised, bounds>>

\* A cancelled request lets go of the lock; the thread that writes for it goes on.
CancelRequest(a) ==
  /\ LoopFree
  /\ cancels < MaxCancels
  /\ req[a].pc \in {"wait", "load", "loaded", "write", "written"}
  /\ cancels' = cancels + 1
  /\ req' = [req EXCEPT ![a].pc = "cancelled"]
  /\ lock' = IF lock = a THEN Nobody ELSE lock
  /\ orphans' = IF req[a].pc = "write" THEN orphans \cup {req[a].raw} ELSE orphans
  /\ UNCHANGED <<process, file, written, cache, reader, answer, history, held, restarts>>

\* What it writes is older than what others may have written since, and takes that back.
OrphanReplaces(c) ==
  /\ c \in orphans
  /\ Replaces(c)
  /\ orphans' = orphans \ {c}
  /\ promised' = [i \in Items |-> "none"]
  /\ acked' = {}
  /\ UNCHANGED <<process, cache, reader, answer, lock, req, bounds>>

-----------------------------------------------------------------------------
(* Everything else that touches the file, and the process                  *)

\* Another process writes, edits or removes the file: it may take back anything.
Edit(c) ==
  /\ c # file.content
  /\ Replaces(c)
  /\ promised' = [i \in Items |-> "none"]
  /\ acked' = {}
  /\ UNCHANGED <<process, cache, reader, answer, lock, req, orphans, bounds>>

\* The process dies with all its requests and threads, and starts again.
Restart ==
  /\ restarts < MaxRestarts
  /\ restarts' = restarts + 1
  /\ process' = "boot"
  /\ cache' = FreshCache
  /\ reader' = NoReader
  /\ held' = {}
  /\ lock' = Nobody
  /\ req' = [a \in Admins |->
               IF req[a].pc \in {"idle", "ok", "conflict"} THEN req[a]
               ELSE [req[a] EXCEPT !.pc = "cancelled"]]
  /\ orphans' = {}
  /\ UNCHANGED <<file, written, answer, history, cancels>>

UpdateStep(a) ==
  \/ Acquire(a) \/ ThreadLoads(a) \/ LoadedConflict(a) \/ Change(a)
  \/ ThreadReplaces(a) \/ ThreadFails(a) \/ UpdateStat(a) \/ UpdateRead(a)

Next ==
  \/ BootStat \/ BootRead \/ CallStat \/ CallRead
  \/ \E a \in Admins :
       \/ \E change \in Changes : Request(a, change)
       \/ UpdateStep(a)
       \/ CancelRequest(a)
  \/ \E c \in orphans : OrphanReplaces(c)
  \/ \E c \in Contents : Edit(c)
  \/ Restart

Spec == Init /\ [][Next]_vars

-----------------------------------------------------------------------------
(* Properties                                                              *)

\* A change the admin API acknowledged is in the file until somebody changes the same
\* item, another process writes, or the thread of a cancelled request does (update: read-modify-write under a lock;
\* _write_raw: atomic replacement; both survive a restart).
AcknowledgedIsKept ==
  \A i \in acked :
    promised[i] # "none" =>
      /\ promised[i] = "on" => Parses(file.content)
      /\ Parses(file.content) => (i \in file.content <=> promised[i] = "on")

\* Every call that begins after the acknowledgement sees the change: a stop or a
\* block takes effect on the next call, with no reload (state).
AcknowledgedTakesEffect ==
  \A i \in Items :
    answer.state # NoState /\ answer.since[i] # "none" =>
      (i \in answer.state <=> answer.since[i] = "on")

\* The state in force is one the file had while it was being read, or the
\* previous one when the file did not parse or vanished meanwhile: a typo
\* neither lifts a block nor stops the gateway (state).
OnlyWhatTheFileSaid ==
  [][cache'.good # cache.good /\ cache'.good # NoState =>
       \/ cache'.good \in held
       \/ cache'.good = {} /\ Missing \in held]_vars

\* stale, which /healthz reports, is set and cleared with the file: when nobody
\* writes during the call, it says whether the file parses.
StaleTellsTruth ==
  [][reader.who # Nobody /\ reader'.who = Nobody /\ process' = "up"
       /\ reader.stamp = file.stamp =>
       (cache'.stale <=> file.content = Malformed)]_vars

=============================================================================
