----------------------------- MODULE IdentityMap -----------------------------
(***************************************************************************)
(* The identity map: one TOML file of subject -> {name: secret}.  Consent  *)
(* runs (plugins/calendar/consent.py), each a process of its own that may  *)
(* die at any step, write grants into it and revoke them; the gateway      *)
(* serves calls from it through a stat cache (identity.SecretMap).         *)
(*                                                                         *)
(* An entry that is not a table, and edits by anything but the runs, are   *)
(* left out: nothing but a run takes the lock.  A client id or secret is   *)
(* written beside the token under ClientName and is the same in all runs.  *)
(*                                                                         *)
(* CalendarProofs extends this module beside CalendarExecutor, hence the   *)
(* prefix of the names that every module has (MapInit, MapSpec).           *)
(***************************************************************************)
EXTENDS Naturals, Sequences, SequencesExt, FiniteSets

CONSTANTS
  Runs,         \* processes, each granting or revoking once
  Subjects,
  Surfaces,     \* per-user surfaces with a consent flow
  RefreshName,  \* RefreshName[f]: the name under which f looks up its token
  ClientName, ClientId,
  CanRevoke,    \* surfaces whose provider has a revoke_url
  OldToken,     \* a token granted before
  NoValue,      \* a name that is absent
  Nobody,       \* the lock is free
  MaxClock      \* bound: distinct mtimes

ASSUME NameAssumption == \A f \in Surfaces : RefreshName[f] # ClientName
ASSUME NobodyAssumption == Nobody \notin Runs /\ OldToken \notin Runs /\ NoValue \notin Runs
ASSUME ClockAssumption == MaxClock \in Nat

Names == {RefreshName[f] : f \in Surfaces} \cup {ClientName}
Tokens == Runs \cup {OldToken}  \* a run is issued the token of its name
Tables == [Subjects -> [Names -> Tokens \cup {ClientId, NoValue}]]
Forms == {"absent", "plain", "symlink", "malformed"}

VARIABLES
  versions,  \* what the file has been; the last is what it is
  lock,      \* who has the sidecar lock file
  run,       \* the consent runs
  live,      \* the identity providers: tokens they would refresh
  strays,    \* history: live tokens that a run knew it left behind
  crossed,   \* history: revokes whose token was replaced under them
  clock,     \* the clock of the file system
  reader     \* the gateway: SecretMap and the call it serves

mapVars == <<versions, lock, run, live, strays, crossed, clock, reader>>

File == Last(versions)
NoEntry == [n \in Names |-> NoValue]

\* Tokens are of one length: the size is the number of values.
SizeOf(table) ==
  Cardinality({e \in Subjects \X Names : table[e[1]][e[2]] # NoValue})
StampOf(version) == <<version.mtime, SizeOf(version.table)>>
Stamps == {StampOf(versions[i]) : i \in 1 .. Len(versions)}

NewRun == [at |-> "new", op |-> "none", s |-> NoValue, f |-> NoValue, saw |-> NoValue,
         doc |-> <<>>]

MapTypeOK ==
  /\ versions \in Seq([form : Forms, table : Tables, mtime : 0 .. MaxClock]) \ {<<>>}
  /\ lock \in Runs \cup {Nobody}
  /\ run \in [Runs -> [at : {"new", "asking", "revoking", "locking", "locked", "writing",
                              "unlocking", "ended"},
                        op : {"none", "grant", "revoke"},
                        s : Subjects \cup {NoValue}, f : Surfaces \cup {NoValue},
                        saw : Tokens \cup {NoValue}, doc : Tables \cup {<<>>}]]
  /\ live \subseteq Tokens /\ strays \subseteq Tokens /\ crossed \subseteq Runs
  /\ clock \in 0 .. MaxClock
  /\ reader \in [at : {"idle", "reading", "answered"}, cached : {<<>>} \cup Stamps,
                 data : Tables, from : 1 .. Len(versions),
                 answer : {"none", "served", "unavailable"}]

MapInit ==
  /\ \E form \in Forms, table \in Tables :
       /\ \A s \in Subjects, n \in Names : table[s][n] \in {OldToken, NoValue}
       /\ SizeOf(table) <= 1
       /\ \A s \in Subjects :
            /\ table[s][ClientName] = NoValue
            /\ form \in {"absent", "malformed"} => table[s] = NoEntry
       /\ versions = <<[form |-> form, table |-> table, mtime |-> 0]>>
       /\ live = IF SizeOf(table) = 0 THEN {} ELSE {OldToken}
  /\ strays = {}
  /\ lock = Nobody /\ crossed = {} /\ clock = 0
  /\ run = [r \in Runs |-> NewRun]
  /\ reader = [at |-> "idle", cached |-> <<>>, data |-> File.table,
               from |-> 1, answer |-> "none"]

-----------------------------------------------------------------------------
(* grant()                                                                 *)

Ends(r) == run' = [run EXCEPT ![r] = [NewRun EXCEPT !.at = "ended"]]
Writable == File.form # "symlink"

StartGrant(r, s, f) ==
  /\ run[r].at = "new"
  /\ IF Writable
     THEN run' = [run EXCEPT ![r] = [@ EXCEPT !.at = "asking", !.op = "grant", !.s = s, !.f = f]]
     ELSE Ends(r)
  /\ UNCHANGED <<versions, lock, live, strays, crossed, clock, reader>>

\* The user consents, the redirect arrives and the code is exchanged.
Issued(r) ==
  /\ run[r].at = "asking"
  /\ live' = live \cup {r}
  /\ run' = [run EXCEPT ![r].at = "locking"]
  /\ UNCHANGED <<versions, lock, strays, crossed, clock, reader>>

\* No redirect in time, one of another run, a refusal, or a failed exchange.
NotGranted(r) ==
  /\ run[r].at = "asking"
  /\ Ends(r)
  /\ UNCHANGED <<versions, lock, live, strays, crossed, clock, reader>>

-----------------------------------------------------------------------------
(* revoke()                                                                *)

Held(s, f) == File.table[s][RefreshName[f]]

StartRevoke(r, s, f) ==
  /\ run[r].at = "new"
  /\ IF File.form # "plain" \/ Held(s, f) = NoValue
     THEN Ends(r)
     ELSE run' = [run EXCEPT ![r] =
            [@ EXCEPT !.at = IF f \in CanRevoke THEN "revoking" ELSE "locking",
                      !.op = "revoke", !.s = s, !.f = f, !.saw = Held(s, f)]]
  /\ strays' = IF run'[r].at = "locking" THEN strays \cup {Held(s, f)} ELSE strays
  /\ UNCHANGED <<versions, lock, live, crossed, clock, reader>>

Revokes(token) == live \ {token}

\* _revoke_upstream(): the local removal follows whatever is answered.
Upstream(r, reached) ==
  /\ run[r].at = "revoking"
  /\ live' = IF reached THEN Revokes(run[r].saw) ELSE live
  /\ strays' = IF reached THEN strays ELSE strays \cup {run[r].saw}
  /\ run' = [run EXCEPT ![r].at = "locking"]
  /\ UNCHANGED <<versions, lock, crossed, clock, reader>>

-----------------------------------------------------------------------------
(* upsert_subject() and remove_names()                                     *)

\* Mutant: the lock is on the map, which every write replaces.
AnyTime(r) == TRUE

Unlocked(r) == lock = Nobody

Lock(r) ==
  /\ run[r].at = "locking" /\ Unlocked(r)
  /\ lock' = r
  /\ run' = [run EXCEPT ![r].at = "locked"]
  /\ UNCHANGED <<versions, live, strays, crossed, clock, reader>>

Release(r) == IF lock = r THEN Nobody ELSE lock

Upserted(table, r) ==
  [table EXCEPT ![run[r].s][RefreshName[run[r].f]] = r,
                ![run[r].s][ClientName] = ClientId]
Removed(table, r) == [table EXCEPT ![run[r].s][RefreshName[run[r].f]] = NoValue]

\* _read_doc() and the change of the document, under the lock.  A map that
\* is not TOML, an entry that is gone and nothing to remove end the run.
Change(r) ==
  LET doc == IF run[r].op = "grant" THEN Upserted(File.table, r) ELSE Removed(File.table, r)
  IN
  /\ run[r].at = "locked"
  /\ IF File.form = "malformed" \/ doc = File.table
     THEN /\ lock' = Release(r)
          /\ strays' = strays \cup {r}
          /\ Ends(r)
     ELSE /\ run' = [run EXCEPT ![r].at = "writing", ![r].doc = doc]
          /\ UNCHANGED <<lock, strays>>
  /\ UNCHANGED <<versions, live, crossed, clock, reader>>

\* Revokes that have read the entry of r's subject and surface and not yet
\* removed it.
Crosses(r) ==
  {q \in Runs \ {r} : run[q].op = "revoke" /\ run[q].s = run[r].s
                       /\ RefreshName[run[q].f] = RefreshName[run[r].f]}

\* os.replace(): the temporary file becomes the map.
Replace(r) ==
  /\ run[r].at = "writing"
  /\ versions' = Append(versions, [form |-> "plain", table |-> run[r].doc, mtime |-> clock])
  /\ strays' = IF run[r].op = "grant" \/ r \in crossed
               THEN strays \cup ({Held(run[r].s, run[r].f)} \cap Tokens)
               ELSE strays
  /\ crossed' = crossed \cup Crosses(r)
  /\ run' = [run EXCEPT ![r].at = "unlocking"]
  /\ UNCHANGED <<lock, live, clock, reader>>

Unlock(r) ==
  /\ run[r].at = "unlocking"
  /\ lock' = Release(r)
  /\ Ends(r)
  /\ UNCHANGED <<versions, live, strays, crossed, clock, reader>>

\* The process dies: the lock goes with it, the temporary file is not the map.
Crash(r) ==
  /\ run[r].at \notin {"new", "ended"}
  /\ lock' = Release(r)
  /\ strays' = strays \cup {r}
  /\ Ends(r)
  /\ UNCHANGED <<versions, live, crossed, clock, reader>>

Tick ==
  /\ clock < MaxClock
  /\ clock' = clock + 1
  /\ UNCHANGED <<versions, lock, run, live, strays, crossed, reader>>

-----------------------------------------------------------------------------
(* The gateway                                                             *)

\* Mutant: the cache is against the size.
SameSize(a, b) == a # <<>> /\ a[2] = b[2]

SameStamp(a, b) == a = b

\* SecretMap._load(), up to the read.
Stat ==
  /\ reader.at # "reading"
  /\ reader' =
       CASE File.form = "absent" ->
              [reader EXCEPT !.at = "answered", !.from = Len(versions), !.answer = "unavailable"]
         [] File.form # "absent" /\ SameStamp(reader.cached, StampOf(File)) ->
              [reader EXCEPT !.at = "answered", !.from = Len(versions), !.answer = "served"]
         [] OTHER -> [reader EXCEPT !.at = "reading", !.from = Len(versions)]
  /\ UNCHANGED <<versions, lock, run, live, strays, crossed, clock>>

\* The read, of a file that may have been replaced since.
Parse ==
  /\ reader.at = "reading"
  /\ reader' =
       IF File.form = "malformed"
       THEN [reader EXCEPT !.at = "answered", !.answer = "unavailable"]
       ELSE [reader EXCEPT !.at = "answered", !.answer = "served", !.data = File.table,
                           !.cached = StampOf(versions[reader.from])]
  /\ UNCHANGED <<versions, lock, run, live, strays, crossed, clock>>

MapNext ==
  \/ \E r \in Runs :
       \/ \E s \in Subjects, f \in Surfaces : StartGrant(r, s, f) \/ StartRevoke(r, s, f)
       \/ \E reached \in BOOLEAN : Upstream(r, reached)
       \/ Issued(r) \/ NotGranted(r)
       \/ Lock(r) \/ Change(r) \/ Replace(r) \/ Unlock(r) \/ Crash(r)
  \/ Tick \/ Stat \/ Parse

MapSpec == MapInit /\ [][MapNext]_mapVars

-----------------------------------------------------------------------------

\* A token that its provider would still refresh is in the map or with the
\* run that writes it, unless a run knew it left it: an earlier grant that
\* is replaced, a run that died or was refused, a revoke that did not reach
\* the provider or has no endpoint, and one whose token a grant replaced.
NoStrayGrants ==
  \A t \in live \ strays :
    \/ \E s \in Subjects, f \in Surfaces : Held(s, f) = t
    \/ t \in Runs /\ run[t].op = "grant" /\ run[t].at \in {"locking", "locked", "writing"}

\* A call is served what the file held since the call looked at it, also
\* when the file is replaced between the stat and the read; but for a file
\* that has the mtime and the size of an earlier one.
ServedIsFresh ==
  reader.at = "answered" /\ reader.answer = "served" =>
    \E i \in 1 .. Len(versions) :
      /\ versions[i].table = reader.data /\ versions[i].form # "malformed"
      /\ \/ i >= reader.from
         \/ \E j \in 1 .. reader.from - 1 :
              StampOf(versions[j]) = StampOf(versions[reader.from])

=============================================================================
