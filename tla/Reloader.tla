------------------------------ MODULE Reloader ------------------------------
(***************************************************************************)
(* The Reloader of reload.py: it serialises registry reloads and coalesces *)
(* the requests that arrive during one into a single follow-up.            *)
(*                                                                         *)
(* One action is one stretch of code between two awaits of one task, which *)
(* is what asyncio makes atomic.  The apply itself (GatewayRuntime.reload) *)
(* is opaque here: it starts, and it returns or raises.  SurfaceRuntime    *)
(* models its inside.                                                      *)
(*                                                                         *)
(* A future is modelled by the set of requesters that await it: those of   *)
(* the future the running apply will answer are in state "cur", those of   *)
(* self._next in state "next".                                             *)
(***************************************************************************)

CONSTANTS
  Requesters,          \* the callers of request(): admin, SIGHUP, the watch
  CancelBeforeFirstStep
    \* TRUE when cancel() may land between create_task(self._run(...)) and the
    \* first step of that task; FALSE when the loop always runs the task first

ASSUME RequestersAssumption == Requesters # {}
ASSUME CancelAssumption == CancelBeforeFirstStep \in BOOLEAN

VARIABLES
  closed,   \* self._closed
  task,     \* self._task: see TaskStates
  next,     \* whether self._next is a future
  pc,       \* pc[r]: what requester r is doing
  seen      \* history: an apply has started since r made its request

vars == <<closed, task, next, pc, seen>>

\* "created": create_task() ran, the coroutine has not had its first step;
\* "stillborn": cancelled in that state, so the body of _run, its finally
\* clause included, never runs; "unwinding": cancelled while applying.
TaskStates == {"none", "created", "applying", "unwinding", "stillborn", "done"}

\* "ok" is a result, "error" an exception, "refused" the answer of a closed
\* reloader, "gone" a requester cancelled while it waited.
RequesterStates == {"idle", "cur", "next", "ok", "error", "refused", "gone"}

Waiting(r) == pc[r] \in {"cur", "next"}

Idle == task \in {"none", "stillborn", "done"}

TypeOK ==
  /\ closed \in BOOLEAN
  /\ task \in TaskStates
  /\ next \in BOOLEAN
  /\ pc \in [Requesters -> RequesterStates]
  /\ seen \in [Requesters -> BOOLEAN]

Init ==
  /\ closed = FALSE
  /\ task = "none"
  /\ next = FALSE
  /\ pc = [r \in Requesters |-> "idle"]
  /\ seen = [r \in Requesters |-> FALSE]

-----------------------------------------------------------------------------
(* request()                                                               *)

\* A requester that is not waiting calls request(); it starts afresh.
Calls(r, state) ==
  /\ ~Waiting(r)
  /\ pc' = [pc EXCEPT ![r] = state]
  /\ seen' = [seen EXCEPT ![r] = FALSE]

RequestClosed(r) ==
  /\ closed
  /\ Calls(r, "refused")
  /\ UNCHANGED <<closed, task, next>>

\* Mutant: a request made during a reload gets the result of that reload.
RequestJoins(r) ==
  /\ ~closed
  /\ ~Idle
  /\ Calls(r, "cur")
  /\ UNCHANGED <<closed, task, next>>

RequestBusy(r) ==
  /\ ~closed
  /\ ~Idle
  /\ Calls(r, "next")
  /\ next' = TRUE
  /\ UNCHANGED <<closed, task>>

RequestIdle(r) ==
  /\ ~closed
  /\ Idle
  /\ Calls(r, "cur")
  /\ task' = "created"
  /\ UNCHANGED <<closed, next>>

\* The requester's own task is cancelled: the shield keeps the reload going.
RequesterCancelled(r) ==
  /\ Waiting(r)
  /\ pc' = [pc EXCEPT ![r] = "gone"]
  /\ UNCHANGED <<closed, task, next, seen>>

-----------------------------------------------------------------------------
(* _run()                                                                  *)

\* An apply starts: the history variable records it for every waiter.
ApplyStarts(p) == seen' = [r \in Requesters |-> seen[r] \/ p[r] \in {"cur", "next"}]

\* Requesters of the future that has just been answered with outcome, and,
\* when the loop goes round, those of self._next move to the new `pending`.
Answer(outcome, loops) ==
  [r \in Requesters |->
     IF pc[r] = "cur" THEN outcome
     ELSE IF pc[r] = "next" /\ loops THEN "cur"
     ELSE pc[r]]

FirstStep ==
  /\ task = "created"
  /\ task' = "applying"
  /\ ApplyStarts(pc)
  /\ UNCHANGED <<closed, next, pc>>

\* One apply ends.  The same stretch of code starts the follow-up, or ends
\* the task when nobody asked for one.
ApplyEnds(outcome) ==
  /\ task = "applying"
  /\ pc' = Answer(outcome, next)
  /\ next' = FALSE
  /\ IF next
     THEN /\ ApplyStarts(Answer(outcome, next))
          /\ UNCHANGED task
     ELSE /\ task' = "done"
          /\ UNCHANGED seen
  /\ UNCHANGED closed

\* Mutant: _run without its finally clause.
UnwoundSilently ==
  /\ task = "unwinding"
  /\ task' = "done"
  /\ UNCHANGED <<closed, next, pc, seen>>

\* Mutant: the waiters are cancelled instead of failed.
UnwoundCancels ==
  /\ task = "unwinding"
  /\ task' = "done"
  /\ next' = FALSE
  /\ pc' = [r \in Requesters |-> IF Waiting(r) THEN "cancelled" ELSE pc[r]]
  /\ UNCHANGED <<closed, seen>>

\* The finally clause after a cancellation: whoever still waits gets an error.
Unwound ==
  /\ task = "unwinding"
  /\ task' = "done"
  /\ next' = FALSE
  /\ pc' = [r \in Requesters |-> IF Waiting(r) THEN "error" ELSE pc[r]]
  /\ UNCHANGED <<closed, seen>>

-----------------------------------------------------------------------------
(* cancel(), which only the shutdown of the runtime calls                  *)

Cancel ==
  /\ ~closed
  /\ task = "created" => CancelBeforeFirstStep
  /\ closed' = TRUE
  /\ \/ task = "created" /\ task' = "stillborn"
     \/ task = "applying" /\ task' = "unwinding"
     \/ task \in {"none", "done"} /\ UNCHANGED task
  /\ UNCHANGED <<next, pc, seen>>

Next ==
  \/ \E r \in Requesters :
       RequestClosed(r) \/ RequestBusy(r) \/ RequestIdle(r) \/ RequesterCancelled(r)
  \/ FirstStep
  \/ \E o \in {"ok", "error"} : ApplyEnds(o)
  \/ Unwound
  \/ Cancel

\* Fairness is stated where there is something to apply (RegistryWatch).
Spec == Init /\ [][Next]_vars

-----------------------------------------------------------------------------
(* Properties                                                              *)

\* Whoever gets a result gets that of an apply that started after the request
\* (request, reload.py): an edit made just before asking is never missed
\* because an older apply answered.
AnswersAreFresh == \A r \in Requesters : pc[r] = "ok" => seen[r]

\* Whoever waits, waits on a task that is going to answer: no request is left
\* on a future nobody holds when the task ends or is cancelled (_run, finally).
NoWaiterIsStranded ==
  \A r \in Requesters :
    /\ Waiting(r) => ~Idle
    /\ pc[r] = "next" => next

=============================================================================
