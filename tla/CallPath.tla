------------------------------ MODULE CallPath ------------------------------
(***************************************************************************)
(* The calls of one surface, from CallPipeline.run to the audit line       *)
(* (pipeline.py, surface.py, gates.py, identity.IdentityPolicy,            *)
(* killswitch.stage_for).                                                  *)
(*                                                                         *)
(* A call runs from one await to the next in one step.  It can wait for a  *)
(* re-list of the catalogue, for a human, for a token exchange and for the *)
(* backend; its client can leave at each of them.                          *)
(*                                                                         *)
(* Abstractions: a descriptor is what it says of writing, "unsaid" without *)
(* a hint.  The bucket, the TTL, the kill-switch file and the exchange are *)
(* modules of their own (RateLimiter, Catalogue, KillSwitch,               *)
(* TokenExchange): here tokens come back, the list expires, the switch     *)
(* turns and an exchange ends at any time.                                 *)
(***************************************************************************)
EXTENDS Naturals, FiniteSets

CONSTANTS
  Calls,
  Tools,
  Roles,
  Callers,    \* [name, oidc, audience, roles, elicits]: what a request shows of its caller
  Configs,    \* what the registry entry of the surface says
  Kinds,      \* what a backend can say of a tool, or that it does not serve it
  Attached,   \* what it said at attach, of each tool
  Pinned,     \* the published tools
  Burst,
  NoCall,     \* no call
  MaxChanges  \* bound: edits, expiries and refills together

ASSUME CallsAssumption == IsFiniteSet(Calls)
ASSUME ToolsAssumption == Tools # {}  \* the names a caller may send, served or not
ASSUME ConfigsAssumption ==
  Configs \subseteq [mode : {"none", "bearer", "claims", "client", "lookup", "exchange"}, audience : BOOLEAN,
                    roles : SUBSET Roles, tools : [Tools -> SUBSET Roles], hide : BOOLEAN,
                    limited : BOOLEAN, confirm : BOOLEAN, exempt : SUBSET Tools, timeout : BOOLEAN]
ASSUME KindsAssumption == {"absent", "reads"} \subseteq Kinds
ASSUME AttachedAssumption ==
  /\ Attached \in [Tools -> Kinds]
  /\ Pinned \subseteq {t \in Tools : Attached[t] # "absent"}
ASSUME BoundsAssumption == Burst \in Nat \ {0} /\ MaxChanges \in Nat
ASSUME NoCallAssumption == NoCall \notin Calls

Shared == "<shared>"  \* SHARED_KEY
Buckets == {k.name : k \in {k \in Callers : k.oidc}} \cup {Shared}

Meta == {"search_tools", "describe_tool", "run_tool", "context_cost"}
\* A pinned tool, a meta-tool, or a name or arguments that FastMCP refuses itself.
Functions == Meta \cup {"pinned", "unpublished"}

\* REASONS; "failed" stands for all that are not of the kind refused.
Refused == {"unauthenticated", "missing_role", "wrong_audience", "rate_limited",
            "confirmation_required", "surface_disabled", "caller_blocked"}
Outcomes == {"ok", "failed"} \cup Refused

VARIABLES
  conf,       \* policy, gates and timeout of the surface
  offers,     \* what the backend says now
  listed,     \* the catalogue's by_name
  expired,    \* the catalogue is past its TTL
  leader,     \* the call that re-lists it
  drift,      \* the names its report of the last drift has: added, removed, pinned_missing
  stopped,    \* the kill switch stops the surface
  blocked,    \* the callers it blocks
  tokens,     \* tokens[b]: what is in bucket b
  call,
  refilled,   \* history: tokens that came back to bucket b
  changes     \* bound counter

vars == <<conf, offers, listed, expired, leader, drift, stopped, blocked, tokens, call, refilled, changes>>
switch == <<stopped, blocked>>
catalogue == <<listed, expired, leader, drift>>
outside == <<conf, offers, switch, refilled, changes>>

Waiting == {"relisting", "asking", "settling", "running", "aborting"}
New == [st |-> "new"]
\* What a call asks for: fn, tool, whether its arguments pass prepare_args, and the
\* descriptor d it found.  History: barred by the kill switch when it began; approved
\* by a human; charged a token; reached the backend; told the names of tools.
Running ==
  [st : Waiting, who : Callers, fn : Functions, tool : Tools, valid : BOOLEAN, d : Kinds,
   barred : BOOLEAN, approved : BOOLEAN, charged : BOOLEAN, reached : BOOLEAN,
   told : SUBSET Tools]
Past ==
  [st : {"ended", "gone"}, who : Callers, fn : Functions, tool : Tools, outcome : Outcomes, barred : BOOLEAN,
   charged : BOOLEAN, reached : BOOLEAN, told : SUBSET Tools]

TypeOK ==
  /\ conf \in Configs
  /\ offers \in [Tools -> Kinds]
  /\ listed \in [Tools -> Kinds]
  /\ expired \in BOOLEAN
  /\ leader \in Calls \cup {NoCall}
  /\ drift \in SUBSET Tools
  /\ stopped \in BOOLEAN
  /\ blocked \in SUBSET {k.name : k \in Callers}
  /\ tokens \in [Buckets -> 0 .. Burst]
  /\ call \in [Calls -> {New} \cup Running \cup Past]
  /\ refilled \in [Buckets -> Nat]
  /\ changes \in 0 .. MaxChanges

Init ==
  /\ conf \in Configs
  /\ offers = Attached
  /\ listed = Attached
  /\ expired = FALSE
  /\ leader = NoCall
  /\ drift = {}
  /\ stopped = FALSE
  /\ blocked = {}
  /\ tokens = [b \in Buckets |-> Burst]
  /\ call = [c \in Calls |-> New]
  /\ refilled = [b \in Buckets |-> 0]
  /\ changes = 0

-----------------------------------------------------------------------------
(* The world around the surface                                            *)

Change == changes < MaxChanges /\ changes' = changes + 1

BackendChanges ==
  /\ Change
  /\ \E t \in Tools, k \in Kinds : offers[t] # k /\ offers' = [offers EXCEPT ![t] = k]
  /\ UNCHANGED <<conf, catalogue, switch, tokens, call, refilled>>

TTLPasses ==
  /\ Change
  /\ ~expired
  /\ expired' = TRUE
  /\ UNCHANGED <<conf, offers, listed, leader, drift, switch, tokens, call, refilled>>

SwitchTurns ==
  /\ Change
  /\ \/ stopped' = ~stopped /\ UNCHANGED blocked
     \/ \E b \in Buckets \ {Shared} :
          blocked' = (IF b \in blocked THEN blocked \ {b} ELSE blocked \cup {b}) /\ UNCHANGED stopped
  /\ UNCHANGED <<conf, offers, catalogue, tokens, call, refilled>>

Refill ==
  /\ Change
  /\ \E b \in Buckets :
       /\ tokens[b] < Burst
       /\ tokens' = [tokens EXCEPT ![b] = @ + 1]
       /\ refilled' = [refilled EXCEPT ![b] = @ + 1]
  /\ UNCHANGED <<conf, offers, catalogue, switch, call>>

-----------------------------------------------------------------------------
(* Who may call: each check says "ok" or why not                           *)

\* IdentityPolicy.gate
Gate(k) ==
  CASE ~k.oidc -> "unauthenticated"
    [] k.oidc /\ conf.audience /\ ~k.audience -> "wrong_audience"
    [] k.oidc /\ (conf.audience => k.audience) /\ ~(conf.roles \subseteq k.roles) -> "missing_role"
    [] OTHER -> "ok"

\* IdentityPolicy.guard and its property enabled
Guard(k) ==
  IF conf.mode # "none" \/ conf.roles # {} \/ conf.audience THEN Gate(k) ELSE "ok"

Barred(k) == stopped \/ (k.oidc /\ k.name \in blocked)

\* killswitch.stage_for
Stage(k) == IF stopped THEN "surface_disabled" ELSE IF Barred(k) THEN "caller_blocked" ELSE "ok"

\* Mutant: the kill switch is looked at first, the guard never.
AdmittedUnguarded(k) == Stage(k)

\* CallPipeline.run before work: the guard, then the stages.
Admitted(k) == IF Guard(k) # "ok" THEN Guard(k) ELSE Stage(k)

\* ToolRoleGate.check
Check(k, t) ==
  CASE conf.tools[t] # {} /\ ~k.oidc -> "unauthenticated"
    [] k.oidc /\ ~(conf.tools[t] \subseteq k.roles) -> "missing_role"
    [] OTHER -> "ok"

\* Gates.visible
Visible(k, t) == conf.hide => Check(k, t) = "ok"

\* ConfirmGate.applies, requires_confirmation
Applies(t, d) == conf.confirm /\ d # "reads" /\ t \notin conf.exempt

Bucket(k) == IF k.oidc THEN k.name ELSE Shared

-----------------------------------------------------------------------------
(* The end of a call                                                       *)

Goes(c, r, st) == call' = [call EXCEPT ![c] = [r EXCEPT !.st = st]]

Over(r, st, why) ==
  [st |-> st, who |-> r.who, fn |-> r.fn, tool |-> r.tool, outcome |-> why, barred |-> r.barred,
   charged |-> r.charged, reached |-> r.reached, told |-> r.told]

\* classify, error_result and _record: one outcome, one audit line
Ends(c, r, why) == call' = [call EXCEPT ![c] = Over(r, "ended", why)]

-----------------------------------------------------------------------------
(* scope.execute: tool stages, identity, executor                          *)

\* executor.run is entered; with a pending exchange it settles that first.
Executes(c, r) ==
  IF conf.mode = "exchange" THEN Goes(c, r, "settling")
  ELSE Goes(c, [r EXCEPT !.reached = TRUE], "running")

\* policy.resolve(): the same request as the guard saw.  It may lack the token, claim or
\* header of the mode, the map an entry for it, and the map itself may be unusable now.
Resolves(c, r) ==
  \/ Executes(c, r)
  \/ conf.mode # "none" /\ Ends(c, r, "unauthenticated")
  \/ conf.mode = "lookup" /\ Ends(c, r, "failed")

\* ConfirmGate.__call__ up to its await
Confirms(c, r) ==
  \/ ~Applies(r.tool, r.d) /\ Resolves(c, r)
  \/ Applies(r.tool, r.d) /\ ~r.who.elicits /\ Ends(c, r, "confirmation_required")
  \/ Applies(r.tool, r.d) /\ r.who.elicits /\ Goes(c, r, "asking")

\* RateLimiter.__call__
Charges(c, r) ==
  LET b == Bucket(r.who) IN
  \/ ~conf.limited /\ UNCHANGED tokens /\ Confirms(c, r)
  \/ conf.limited /\ tokens[b] = 0 /\ UNCHANGED tokens /\ Ends(c, r, "rate_limited")
  \/ /\ conf.limited /\ tokens[b] > 0
     /\ tokens' = [tokens EXCEPT ![b] = @ - 1]
     /\ Confirms(c, [r EXCEPT !.charged = TRUE])

\* Mutant: the limiter is ahead of the role gate.
StagesChargedFirst(c, r) ==
  \/ Check(r.who, r.tool) = "ok" /\ Charges(c, r)
  \/ /\ Check(r.who, r.tool) # "ok"
     /\ tokens' = [tokens EXCEPT ![Bucket(r.who)] = IF conf.limited /\ @ > 0 THEN @ - 1 ELSE @]
     /\ Ends(c, [r EXCEPT !.charged = tokens' # tokens], Check(r.who, r.tool))

\* The stages of gates_from_entry, in their order
Stages(c, r) ==
  \/ Check(r.who, r.tool) = "ok" /\ Charges(c, r)
  \/ Check(r.who, r.tool) # "ok" /\ Ends(c, r, Check(r.who, r.tool)) /\ UNCHANGED tokens

-----------------------------------------------------------------------------
(* work(scope) of each published function, with the catalogue cat          *)

Served(cat) == {t \in Tools : cat[t] # "absent"}

\* Mutant: suggestions are drawn from the whole catalogue.
UnknownUnfiltered(c, r, cat) == Ends(c, [r EXCEPT !.told = Served(cat)], "failed")

\* unknown_tool: it suggests no name that the caller is not shown.
Unknown(c, r, cat) ==
  Ends(c, [r EXCEPT !.told = {t \in Served(cat) : Visible(r.who, t)}], "failed")

SearchTools(c, r, cat) ==
  /\ r.fn = "search_tools"
  /\ Ends(c, [r EXCEPT !.told = {t \in Served(cat) : Visible(r.who, t)}], "ok")
  /\ UNCHANGED tokens

DescribeTool(c, r, cat) ==
  /\ r.fn = "describe_tool"
  /\ \/ r.tool \notin Served(cat) /\ Unknown(c, r, cat)
     \/ r.tool \in Served(cat) /\ ~Visible(r.who, r.tool) /\ Ends(c, r, Check(r.who, r.tool))
     \/ /\ r.tool \in Served(cat) /\ Visible(r.who, r.tool)
        /\ Ends(c, [r EXCEPT !.told = {r.tool}], "ok")
  /\ UNCHANGED tokens

\* The report carries the names of the last drift, whoever asks.
ContextCost(c, r, names) ==
  /\ r.fn = "context_cost"
  /\ Ends(c, [r EXCEPT !.told = names], "ok") \/ Ends(c, r, "failed")
  /\ UNCHANGED tokens

RunTool(c, r, cat) ==
  /\ r.fn = "run_tool"
  /\ \/ r.tool \notin Served(cat) /\ Unknown(c, r, cat) /\ UNCHANGED tokens
     \/ r.tool \in Served(cat) /\ ~r.valid /\ Ends(c, r, "failed") /\ UNCHANGED tokens
     \/ r.tool \in Served(cat) /\ r.valid /\ Stages(c, [r EXCEPT !.d = cat[r.tool]])

\* What a meta-tool does once its catalogue is as fresh as it gets
Works(c, r, cat, names) ==
  \/ SearchTools(c, r, cat) \/ DescribeTool(c, r, cat) \/ ContextCost(c, r, names)
  \/ RunTool(c, r, cat)

\* run_pinned, with the descriptor of the attach
RunPinned(c, r) ==
  /\ r.fn = "pinned"
  /\ \/ ~r.valid /\ Ends(c, r, "failed") /\ UNCHANGED tokens
     \/ r.valid /\ Stages(c, [r EXCEPT !.d = Attached[r.tool]])

\* _RecordRefusedCall
Unpublished(c, r) ==
  /\ r.fn = "unpublished"
  /\ Unknown(c, r, listed) \/ Ends(c, r, "failed")
  /\ UNCHANGED tokens

-----------------------------------------------------------------------------
(* CallPipeline.run, from one await to the next                            *)

\* Catalogue.ensure_fresh: past its TTL, and nobody asks yet
MustRelist == expired /\ leader = NoCall

\* A pinned tool is called by its own name; only calls that reach prepare_args can
\* fail there.  Where a function takes no tool, it is any one.
Requests ==
  {q \in [fn : Functions, tool : Tools, valid : BOOLEAN] :
     /\ q.fn = "pinned" => q.tool \in Pinned
     /\ q.fn \notin {"pinned", "run_tool"} => q.valid
     /\ q.fn \in {"search_tools", "context_cost", "unpublished"} =>
          q.tool = CHOOSE t \in Tools : TRUE}

Asked(k, q) ==
  [st |-> "new", who |-> k, fn |-> q.fn, tool |-> q.tool, valid |-> q.valid, d |-> "absent",
   barred |-> Barred(k), approved |-> FALSE, charged |-> FALSE,
   reached |-> FALSE, told |-> {}]

\* IdentityPolicy.hides_listing: a gate hides the surface, a mode alone does not.
HidesListing == conf.hide /\ (conf.roles # {} \/ conf.audience)

\* tools/list, which no pipeline sees: _GateListing filters it and raises nothing.
Lists(c, k) ==
  LET shown == IF HidesListing /\ Guard(k) # "ok" THEN {} ELSE {t \in Pinned : Visible(k, t)}
      any == CHOOSE q \in Requests : q.fn = "search_tools"
  IN /\ call[c] = New
     /\ Ends(c, [Asked(k, any) EXCEPT !.told = shown], "ok")
     /\ UNCHANGED <<outside, catalogue, tokens>>

\* Refused before anything else
Refuse(c, k, q) ==
  /\ call[c] = New
  /\ Admitted(k) # "ok"
  /\ Ends(c, Asked(k, q), Admitted(k))
  /\ UNCHANGED <<outside, catalogue, tokens>>

\* ensure_fresh goes to the backend.
Relist(c, k, q) ==
  /\ call[c] = New
  /\ Admitted(k) = "ok"
  /\ q.fn \in Meta /\ MustRelist
  /\ leader' = c
  /\ Goes(c, Asked(k, q), "relisting")
  /\ UNCHANGED <<outside, listed, expired, drift, tokens>>

Begin(c, k, q) ==
  /\ call[c] = New
  /\ Admitted(k) = "ok"
  /\ \/ RunPinned(c, Asked(k, q))
     \/ Unpublished(c, Asked(k, q))
     \/ ~MustRelist /\ Works(c, Asked(k, q), listed, drift)
  /\ UNCHANGED <<outside, catalogue>>

\* Catalogue._diff, against the list before
Differences(fresh) ==
  {t \in Tools : (fresh[t] = "absent") # (listed[t] = "absent") \/ (t \in Pinned /\ fresh[t] = "absent")}

\* The new list, or a failure, which leaves the list and the drift on report as they are
Refreshes ==
  /\ \/ listed' = offers /\ drift' = Differences(offers)
     \/ UNCHANGED <<listed, drift>>
  /\ expired' = FALSE
  /\ leader' = NoCall

\* Mutant: the tool is looked up before the catalogue is refreshed.
RelistedLate(c) ==
  /\ call[c].st = "relisting"
  /\ Refreshes
  /\ Works(c, call[c], listed, drift')
  /\ UNCHANGED outside

\* The re-list is answered, and the work goes on with what there is then.
Relisted(c) ==
  /\ call[c].st = "relisting"
  /\ Refreshes
  /\ Works(c, call[c], listed', drift')
  /\ UNCHANGED outside

\* The human answers yes; the call goes on to the identity.
Approves(c) ==
  /\ call[c].st = "asking"
  /\ Resolves(c, [call[c] EXCEPT !.approved = TRUE])
  /\ UNCHANGED <<outside, catalogue, tokens>>

\* A no, an answer that is none, an error of the client, or 300 s without one.
Declines(c) ==
  /\ call[c].st = "asking"
  /\ Ends(c, call[c], "confirmation_required")
  /\ UNCHANGED <<outside, catalogue, tokens>>

\* settle, inside the call timeout: a failed exchange is no call of the backend.
Settles(c) ==
  /\ call[c].st = "settling"
  /\ \/ Goes(c, [call[c] EXCEPT !.reached = TRUE], "running")
     \/ \E why \in {"unauthenticated", "failed"} : Ends(c, call[c], why)
  /\ UNCHANGED <<outside, catalogue, tokens>>

Answers(c) ==
  /\ call[c].st = "running"
  /\ \E why \in {"ok", "failed"} : Ends(c, call[c], why)
  /\ UNCHANGED <<outside, catalogue, tokens>>

\* Mutant: the time of the exchange does not count.
ExpiresRunning(c) ==
  /\ conf.timeout
  /\ call[c].st = "running"
  /\ Goes(c, call[c], "aborting")
  /\ UNCHANGED <<outside, catalogue, tokens>>

\* call_timeout_s: the executor is cancelled, and has its clean-up to do.
Expires(c) ==
  /\ conf.timeout
  /\ call[c].st \in {"settling", "running"}
  /\ Goes(c, call[c], "aborting")
  /\ UNCHANGED <<outside, catalogue, tokens>>

Aborted(c) ==
  /\ call[c].st = "aborting"
  /\ Ends(c, call[c], "failed")
  /\ UNCHANGED <<outside, catalogue, tokens>>

\* The client goes: the call is cancelled and not recorded.
HangsUp(c) ==
  /\ call[c].st \in Waiting
  /\ call' = [call EXCEPT ![c] = Over(call[c], "gone", "failed")]
  /\ leader' = IF leader = c THEN NoCall ELSE leader
  /\ UNCHANGED <<outside, listed, expired, drift, tokens>>

Next ==
  \/ BackendChanges \/ TTLPasses \/ SwitchTurns \/ Refill
  \/ \E c \in Calls :
       \/ \E k \in Callers : Lists(c, k)
       \/ \E k \in Callers, q \in Requests : Refuse(c, k, q) \/ Relist(c, k, q) \/ Begin(c, k, q)
       \/ Relisted(c) \/ Approves(c) \/ Declines(c) \/ Settles(c) \/ Answers(c)
       \/ Expires(c) \/ Aborted(c) \/ HangsUp(c)

Spec == Init /\ [][Next]_vars

\* The loop runs, the timeouts of a question and of a call fire and a cancelled
\* executor stops.  The backend need answer nothing, neither a call nor a re-list.
FairSpec ==
  /\ Spec
  /\ \A c \in Calls : WF_vars(Declines(c)) /\ WF_vars(Expires(c)) /\ WF_vars(Aborted(c))

-----------------------------------------------------------------------------
(* Properties                                                              *)

\* A call that is refused makes no call of the backend, whichever gate turns it away;
\* and one that the guard or the kill switch turns away makes it list nothing either
\* (a gate of the tool comes after ensure_fresh: it needs the tool).
RefusedCostNothing ==
  \A c \in Calls : call[c] # New =>
    /\ call[c].reached \/ call[c].st = "relisting" =>
         ~call[c].barred /\ Guard(call[c].who) = "ok"
    /\ call[c].reached =>
         /\ Check(call[c].who, call[c].tool) = "ok"
         /\ call[c].st = "ended" => call[c].outcome \notin Refused

Enters(c) ==
  call[c].st \notin {"settling", "running"} /\ call'[c].st \in {"settling", "running"}

\* No write without a yes: a call gets past ConfirmGate unasked only if its tool is
\* exempt or read-only, in the catalogue as it is then or, for a pinned tool, as it
\* was attached (run_pinned keeps that descriptor).
WritesAreApproved ==
  [][\A c \in Calls :
       /\ Enters(c)
       /\ conf.confirm /\ ~call'[c].approved /\ call'[c].tool \notin conf.exempt
       => (IF call'[c].fn = "pinned" THEN Attached ELSE listed')[call'[c].tool] = "reads"]_vars

\* The contract of gates_from_entry: what a caller may call costs a token, once, and
\* a no or a failure does not give it back; a refusal of the roles costs nothing.
TokensAreAccounted ==
  /\ \A b \in Buckets :
       tokens[b] + Cardinality({c \in Calls : /\ call[c] # New
                                              /\ call[c].charged
                                              /\ Bucket(call[c].who) = b})
         = Burst + refilled[b]
  /\ \A c \in Calls : call[c] # New =>
       /\ call[c].charged => Check(call[c].who, call[c].tool) = "ok"
       /\ \/ call[c].reached
          \/ call[c].st = "asking"
          \/ call[c].st = "ended" /\ call[c].outcome = "confirmation_required"
          => call[c].charged = conf.limited

\* With hide_tools nobody is told of a tool that a call would refuse him for its
\* roles, by no function but context_cost, whose report of a drift is not filtered, in
\* no suggestion and in no listing; and one whom the roles or the audience of the
\* surface turn away is told of none by any.
HiddenStaysHidden ==
  conf.hide =>
    \A c \in Calls : call[c] # New => \A t \in call[c].told :
      /\ call[c].fn = "context_cost" \/ Check(call[c].who, t) = "ok"
      /\ HidesListing => Guard(call[c].who) = "ok"

\* With a call timeout a call ends, wherever but in a re-list it waits, though the
\* backend never answers one.  A re-list has no timeout: one that hangs keeps the call
\* that made it, and no other.
EveryCallEnds ==
  \A c \in Calls :
    conf.timeout /\ call[c].st \in Waiting \ {"relisting"} ~> call[c].st \notin Waiting

=============================================================================
