------------------------------ MODULE Catalogue ------------------------------
(***************************************************************************)
(* The searchable tools of one MCP backend and their freshness             *)
(* (catalogue.py): ensure_fresh, which every meta-tool call awaits first.  *)
(*                                                                         *)
(* The one await is the re-list; the backend may change before, while and  *)
(* after it reads its tools.  Time is counted in ticks of the TTL's clock. *)
(*                                                                         *)
(* Abstractions: a tool is its name, as in _diff; the index and by_name    *)
(* are dropped with the descriptors they are built from, and left out.     *)
(* A catalogue without relist or TTL is inert and not modelled.            *)
(*                                                                         *)
(* FreshnessProofs extends this module beside KillSwitch, hence the prefix *)
(* of the names that every module has (CatInit, CatSpec).                  *)
(***************************************************************************)
EXTENDS Naturals

CONSTANTS
  Tools,
  Calls,   \* calls of a meta-tool that are served at once
  TTL,
  Never,   \* no time
  MaxNow   \* bound: ticks

ASSUME TimeAssumption == TTL \in Nat \ {0} /\ MaxNow \in Nat
ASSUME NeverAssumption == Never \notin Nat

Times == 0 .. MaxNow

VARIABLES
  now,
  backend,      \* the tools the backend has
  descriptors,  \* _descriptors
  pinned,       \* _pinned_names
  fetchedAt,    \* _fetched_at
  refreshing,   \* _refreshing
  status,       \* _status
  drift,        \* _drift
  call,         \* call[c]: where it is, and the answer of its re-list
  installedAt,  \* history: when they were put there
  askedAt       \* history: when the last re-list began, Never once it is cancelled

catVars == <<now, backend, descriptors, pinned, fetchedAt, refreshing, status, drift, call,
          installedAt, askedAt>>
catalogue == <<descriptors, pinned, fetchedAt, status, drift, installedAt>>

CallStates == {[pc |-> "idle"], [pc |-> "relist"]}
                \cup [pc : {"answered"}, tools : SUBSET Tools]
Drifts == [added : SUBSET Tools, removed : SUBSET Tools, pinnedMissing : SUBSET Tools]
NoDrift == [added |-> {}, removed |-> {}, pinnedMissing |-> {}]

CatTypeOK ==
  /\ now \in Times
  /\ backend \in SUBSET Tools
  /\ descriptors \in SUBSET Tools
  /\ pinned \in SUBSET Tools
  /\ fetchedAt \in Times
  /\ refreshing \in BOOLEAN
  /\ status \in {"ok", "drift", "stale"}
  /\ drift \in Drifts
  /\ call \in [Calls -> CallStates]
  /\ installedAt \in Times
  /\ askedAt \in Times \cup {Never}

\* The surface is attached: its tools have just been listed.
CatInit ==
  /\ now = 0
  /\ backend \in SUBSET Tools
  /\ descriptors = backend
  /\ pinned \in SUBSET descriptors
  /\ fetchedAt = 0
  /\ refreshing = FALSE
  /\ status = "ok"
  /\ drift = NoDrift
  /\ call = [c \in Calls |-> [pc |-> "idle"]]
  /\ installedAt = 0
  /\ askedAt = Never

Tick ==
  /\ now < MaxNow
  /\ now' = now + 1
  /\ UNCHANGED <<backend, catalogue, refreshing, call, askedAt>>

BackendChanges ==
  /\ \E tools \in SUBSET Tools : tools # backend /\ backend' = tools
  /\ UNCHANGED <<now, catalogue, refreshing, call, askedAt>>

-----------------------------------------------------------------------------
(* ensure_fresh()                                                          *)

\* Mutant: there is no flag, the TTL alone decides.
MustRelistAgain == now - fetchedAt >= TTL

\* Neither young enough nor being fetched by another call.
MustRelist == now - fetchedAt >= TTL /\ ~refreshing

\* Every other call is served from what there is: the model has no step for it.
Relist(c) ==
  /\ call[c].pc = "idle"
  /\ MustRelist
  /\ refreshing' = TRUE
  /\ call' = [call EXCEPT ![c] = [pc |-> "relist"]]
  /\ askedAt' = now
  /\ UNCHANGED <<now, backend, catalogue>>

\* The backend reads its tools; the list is on its way.
Answers(c) ==
  /\ call[c].pc = "relist"
  /\ call' = [call EXCEPT ![c] = [pc |-> "answered", tools |-> backend]]
  /\ UNCHANGED <<now, backend, catalogue, refreshing, askedAt>>

\* _diff
Diff(fresh) == [added |-> fresh \ descriptors, removed |-> descriptors \ fresh,
                pinnedMissing |-> pinned \ fresh]

Installs(c) ==
  /\ call[c].pc = "answered"
  /\ drift' = Diff(call[c].tools)
  /\ descriptors' = call[c].tools
  /\ fetchedAt' = now
  /\ status' = IF drift' = NoDrift THEN "ok" ELSE "drift"
  /\ installedAt' = now
  /\ refreshing' = FALSE
  /\ call' = [call EXCEPT ![c] = [pc |-> "idle"]]
  /\ UNCHANGED <<now, backend, pinned, askedAt>>

\* The re-list raises: the last good catalogue goes on being served.
Fails(c) ==
  /\ call[c].pc \in {"relist", "answered"}
  /\ fetchedAt' = now
  /\ status' = "stale"
  /\ refreshing' = FALSE
  /\ call' = [call EXCEPT ![c] = [pc |-> "idle"]]
  /\ UNCHANGED <<now, backend, descriptors, pinned, drift, installedAt, askedAt>>

\* Mutant: the flag comes down only with the answer.
CancelledForgotten(c) ==
  /\ call[c].pc \in {"relist", "answered"}
  /\ call' = [call EXCEPT ![c] = [pc |-> "idle"]]
  /\ askedAt' = Never
  /\ UNCHANGED <<now, backend, catalogue, refreshing>>

\* The client of the call has gone: only the finally clause runs.
Cancelled(c) ==
  /\ call[c].pc \in {"relist", "answered"}
  /\ refreshing' = FALSE
  /\ call' = [call EXCEPT ![c] = [pc |-> "idle"]]
  /\ askedAt' = Never
  /\ UNCHANGED <<now, backend, catalogue>>

CatNext ==
  \/ Tick
  \/ BackendChanges
  \/ \E c \in Calls : Relist(c) \/ Answers(c) \/ Installs(c) \/ Fails(c) \/ Cancelled(c)

CatSpec == CatInit /\ [][CatNext]_catVars

\* Calls keep coming, the loop resumes one that has its answer, the backend answers
\* every re-list or its connection fails, and from some time on the clients wait for
\* theirs.
FairSpec ==
  /\ CatSpec
  /\ WF_catVars(\E c \in Calls : Relist(c))
  /\ \A c \in Calls : WF_catVars(Installs(c)) /\ WF_catVars(Answers(c) \/ Fails(c))
  /\ <>[][\A c \in Calls : ~Cancelled(c)]_catVars

-----------------------------------------------------------------------------
(* Properties                                                              *)

\* The backend is asked once per TTL, dead or alive, however many calls come; a re-list
\* whose client left does not count.  So a drift stays on report for a whole TTL: no
\* second call overwrites it with a diff against what the first one has installed
\* (ensure_fresh, CONCURRENCY).
OneRelistPerTTL ==
  [][/\ askedAt # Never /\ askedAt' \notin {askedAt, Never} => askedAt' - askedAt >= TTL
     /\ status = "drift" /\ status' # "drift" => now - installedAt >= TTL]_catVars

\* A catalogue past its TTL does not stay on report as good: it is fetched again,
\* or said to be stale ("A TTL fails loudly and predictably").
ExpiryIsNoticed ==
  (now = MaxNow /\ fetchedAt < MaxNow /\ now - fetchedAt >= TTL)
    ~> (fetchedAt = MaxNow \/ status = "stale")

=============================================================================
