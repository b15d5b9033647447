------------------------------- MODULE Gateway ------------------------------
(***************************************************************************)
(* From a registry to a call: what refuses a boot, how the surfaces attach *)
(* side by side and what a failed one leaves behind (gateway.py), and whose*)
(* credential a call then carries to its backend (identity.py, backends/). *)
(*                                                                         *)
(* A step runs from one await to the next; closing a backend, which a      *)
(* second cancellation could interrupt, is one step with what precedes it. *)
(* The apps, their supervisors and reloads are SurfaceRuntime, the gates   *)
(* and their order CallPath, the exchange TokenExchange: here a surface    *)
(* that attached serves, and an exchange yields a token or fails.          *)
(***************************************************************************)
EXTENDS RegistryRules, Naturals, Sequences

CONSTANTS
  Order,      \* the names of the registry, in its order
  Registries, \* the registries considered
  Envs,       \* and the environments
  Callers,    \* the tokens that requests present
  Calls,
  MaxRetries  \* bound: attaches after the first

Surfaces == {Order[i] : i \in DOMAIN Order}
Before(s) == {Order[i] : i \in {i \in DOMAIN Order : \A j \in 1 .. i : Order[j] # s}}

ASSUME RegistriesAssumption == \A r \in Registries : DOMAIN r = Surfaces
ASSUME RetriesAssumption == MaxRetries \in Nat
ASSUME ClaimAssumption == \A o \in Envs : o.claim \in {"set", "blank", "unset"}
ASSUME FaultAssumption == \A k \in Callers : k.fault \in {"none", "expired", "invalid", "audience"}
\* backing.py: the factories by backing.
ASSUME BackingAssumption == \A r \in Registries : \A s \in Surfaces :
  r[s].plugin # None => r[s].plugin.backing \in {"http", "stdio", "inproc", "cli", "native"}
\* spec.py: "`target` follows the backing"; nothing in the code checks it.
Target(backing) ==
  CASE backing = "cli" -> "env" [] backing = "native" -> "credential" [] OTHER -> "header"
ASSUME TargetAssumption ==
  \A r \in Registries : \A s \in Surfaces :
    r[s].plugin # None /\ r[s].plugin.modes # {} => r[s].plugin.target = Target(r[s].plugin.backing)

VARIABLES
  reg, os,    \* the registry and the environment of this gateway
  strict,     \* build_surfaces was given no dict `failed': a failure raises
  phase,
  att,        \* att[s]: where its attach is, or how the last one ended
  open,       \* open[s]: transports, clients and providers made for s and not closed
  backends,   \* the surfaces whose backend somebody owns
  failed,     \* failed[s]: "no" or the kind of failure recorded for s
  faults,     \* config_faults
  missing,    \* pinned_missing: the pins that the backend of s does not serve
  raised,     \* the surface whose failure build_surfaces raised
  tries,      \* bound counter
  call,
  procs,      \* the calls for which a process or a session is open
  slot        \* slot[c]: why the token of that request was refused

config == <<reg, os, strict>>
attaches == <<att, open, backends, failed, faults, missing, raised, tries>>
requests == <<call, procs, slot>>
vars == <<config, phase, attaches, requests>>

Running == {"loading", "listing", "costing"}
Failures == {"config", "transient"}
NoCall == [st |-> "idle"]
Owners == {Deployment} \cup {k.name : k \in Callers}

TypeOK ==
  /\ reg \in Registries /\ os \in Envs /\ strict \in BOOLEAN
  /\ phase \in {"boot", "refused", "attaching", "raised", "serving", "stopping", "down"}
  /\ att \in [Surfaces -> Running \cup Failures \cup {"idle", "ok", "cancelled"}]
  /\ open \in [Surfaces -> Nat]
  /\ backends \subseteq Surfaces
  /\ failed \in [Surfaces -> Failures \cup {"no"}]
  /\ faults \subseteq Surfaces /\ missing \subseteq Surfaces
  /\ raised \in Surfaces \cup {None}
  /\ tries \in 0 .. MaxRetries
  /\ \A c \in Calls :
       call[c].st \in {"idle", "denied", "refused", "fault", "settling", "unsettled", "ready",
                     "running", "reached", "gone"}
  /\ procs \subseteq Calls
  /\ slot \in [Calls -> {"none", "expired", "invalid", "audience"}]

Init ==
  /\ reg \in Registries /\ os \in Envs /\ strict \in BOOLEAN
  /\ phase = "boot"
  /\ att = [s \in Surfaces |-> "idle"]
  /\ open = [s \in Surfaces |-> 0]
  /\ backends = {}
  /\ failed = [s \in Surfaces |-> "no"]
  /\ faults = {}
  /\ missing = {}
  /\ raised = None
  /\ tries = 0
  /\ call = [c \in Calls |-> NoCall]
  /\ procs = {}
  /\ slot = [c \in Calls |-> "none"]

-----------------------------------------------------------------------------
(* Boot                                                                    *)

Refuse ==
  /\ phase = "boot"
  /\ ~(CheckRegistry(reg, os) /\ VerifierBuilt(os))
  /\ phase' = "refused"
  /\ UNCHANGED <<config, attaches, requests>>

\* build_surfaces: every attach at once.
Boot ==
  /\ phase = "boot"
  /\ CheckRegistry(reg, os) /\ VerifierBuilt(os)
  /\ phase' = "attaching"
  /\ att' = [s \in Surfaces |-> "loading"]
  /\ UNCHANGED <<config, open, backends, failed, faults, missing, raised, tries, requests>>

-----------------------------------------------------------------------------
(* One attach: _attach_one, load_backend, _finish_attach                   *)

Backing(s) == reg[s].plugin.backing
\* What its backend holds until it is closed; a cli backend starts a process per call.
Holds(s) == IF Backing(s) = "cli" THEN 0 ELSE 1
StaysOpen(s) == open  \* mutant: a failed attach forgets what it opened
Closed(s) == [open EXCEPT ![s] = @ - Holds(s)]

\* The stdio rule restated for inproc: an identity the source would not apply.
NeverRefused(s) == FALSE  \* mutant: an unaware source is served as per-user
RefusedIdentity(s) ==
  reg[s].identity.mode # "none" /\ Backing(s) = "inproc" /\ ~reg[s].plugin.aware

Steps(s, st) == phase \in {"attaching", "serving"} /\ att[s] = st

\* An attach ends in a failure.  A retry records it at once, and is the last one when
\* the fault is in the configuration (is_config_fault); build_surfaces waits for all.
Fails(s, kind) ==
  /\ att' = [att EXCEPT ![s] = kind]
  /\ failed' = IF phase = "serving" THEN [failed EXCEPT ![s] = kind] ELSE failed
  /\ faults' = IF phase = "serving" /\ kind = "config" THEN faults \cup {s} ELSE faults

\* The plugin's build opens what it will list the tools through, once the document is there
\* and is one that publishes the pins.
Opens(s) ==
  /\ Steps(s, "loading")
  /\ DocumentAccepted(reg[s].plugin, PinsOf(reg[s]))
  /\ att' = [att EXCEPT ![s] = "listing"]
  /\ open' = [open EXCEPT ![s] = @ + Holds(s)]
  /\ UNCHANGED <<config, phase, backends, failed, faults, missing, raised, tries, requests>>

\* A document that was not fetched, or is refused; a command not installed, or that fails.
OpenFails(s) ==
  /\ Steps(s, "loading")
  /\ \E kind \in Failures : Fails(s, kind)
  /\ UNCHANGED <<config, phase, open, backends, missing, raised, tries, requests>>

\* The list fails, or takes longer than the limit of the attach, which cancels it: the
\* loader closes what it opened, whatever ends it.
ListFails(s) ==
  /\ Steps(s, "listing")
  /\ \E kind \in Failures : Fails(s, kind)
  /\ open' = Closed(s)
  /\ UNCHANGED <<config, phase, backends, missing, raised, tries, requests>>

\* What the backend serves: openapi_server published what the config selects, and nothing
\* else; another source serves what it does.
Served(s) ==
  LET p == reg[s].plugin IN
  IF p.document # None THEN {Selected(p)} ELSE SUBSET PinsOf(reg[s])

\* missing_pins, of the backend just built.
Pins(s) ==
  \E tools \in Served(s) :
    missing' = IF PinsOf(reg[s]) \subseteq tools THEN missing \ {s} ELSE missing \cup {s}

\* The surface is built; its cost is counted next.
Lists(s) ==
  /\ Steps(s, "listing")
  /\ Pins(s)
  /\ ~RefusedIdentity(s)
  /\ att' = [att EXCEPT ![s] = "costing"]
  /\ UNCHANGED <<config, phase, open, backends, failed, faults, raised, tries, requests>>

\* The surface is refused, or a descriptor makes build_surface raise.
FinishFails(s) ==
  /\ Steps(s, "listing")
  /\ Pins(s)
  /\ \E kind \in Failures : (RefusedIdentity(s) => kind = "config") /\ Fails(s, kind)
  /\ open' = Closed(s)
  /\ UNCHANGED <<config, phase, backends, raised, tries, requests>>

\* The cost is best effort.
Attached(s) ==
  /\ Steps(s, "costing")
  /\ att' = [att EXCEPT ![s] = "ok"]
  /\ backends' = backends \cup {s}
  /\ failed' = [failed EXCEPT ![s] = "no"]
  /\ UNCHANGED <<config, phase, open, faults, missing, raised, tries, requests>>

-----------------------------------------------------------------------------
(* What build_surfaces answers, retries and shutdown                       *)

Bad == {s \in Surfaces : att[s] \in Failures}
Ended == \A s \in Surfaces : att[s] \notin Running

\* Every attach has ended: the first failure in registry order is raised.
AnyBad(s) == s \in Bad  \* mutant: the failure that came first in time
First(s) == s \in Bad /\ Before(s) \cap Bad = {}
Raises ==
  /\ phase = "attaching" /\ Ended /\ strict
  /\ \E s \in Surfaces : First(s) /\ raised' = s
  /\ open' = [s \in Surfaces |-> open[s] - (IF s \in backends THEN Holds(s) ELSE 0)]
  /\ backends' = {}
  /\ phase' = "raised"
  /\ UNCHANGED <<config, att, failed, faults, missing, tries, requests>>

Serves ==
  /\ phase = "attaching" /\ Ended
  /\ strict => Bad = {}
  /\ failed' = [s \in Surfaces |-> IF s \in Bad THEN att[s] ELSE "no"]
  /\ faults' = {s \in Bad : att[s] = "config"}
  /\ phase' = "serving"
  /\ UNCHANGED <<config, att, open, backends, missing, raised, tries, requests>>

\* GatewayRuntime._retry: a failure that waiting can cure.
Retry(s) ==
  /\ phase = "serving" /\ ~strict
  /\ att[s] \in Failures /\ failed[s] # "no" /\ s \notin faults
  /\ tries < MaxRetries
  /\ tries' = tries + 1
  /\ att' = [att EXCEPT ![s] = "loading"]
  /\ UNCHANGED <<config, phase, open, backends, failed, faults, missing, raised, requests>>

\* The process stops: retries are cancelled, then the backends closed.
Stop ==
  /\ phase = "serving"
  /\ phase' = "stopping"
  /\ UNCHANGED <<config, attaches, requests>>

Cancelled(s) ==
  /\ phase = "stopping"
  /\ att[s] \in Running
  /\ att' = [att EXCEPT ![s] = "cancelled"]
  /\ open' = IF att[s] = "loading" THEN open ELSE Closed(s)
  /\ UNCHANGED <<config, phase, backends, failed, faults, missing, raised, tries, requests>>

Down ==
  /\ phase = "stopping" /\ Ended
  /\ open' = [s \in Surfaces |-> open[s] - (IF s \in backends THEN Holds(s) ELSE 0)]
  /\ backends' = {}
  /\ phase' = "down"
  /\ UNCHANGED <<config, att, failed, faults, missing, raised, tries, requests>>

-----------------------------------------------------------------------------
(* A call: the token, the policy, the executor of its backing              *)

\* _SLOT: a context variable, one slot per request.
OneSlot(c) == CHOOSE d \in Calls : TRUE  \* mutant: a module variable
SlotOf(c) == c

\* ObservedVerifier clears the slot and notes why the token of this request is refused.
Denied(c, k, s) ==
  /\ call[c].st = "idle" /\ phase = "serving" /\ s \in backends
  /\ VerifiedAs(os, k) = "nobody"
  /\ slot' = [slot EXCEPT ![SlotOf(c)] = Reason(os, k)]
  /\ call' = [call EXCEPT ![c] = [st |-> "denied", who |-> k, told |-> "nothing"]]
  /\ UNCHANGED <<config, phase, attaches, procs>>

\* RejectionMiddleware: the 401 of an expired token says so.
Told(c) ==
  /\ call[c].st = "denied" /\ call[c].told = "nothing"
  /\ call' = [call EXCEPT ![c].told =
                IF slot[SlotOf(c)] = "expired" THEN "expired" ELSE "invalid"]
  /\ UNCHANGED <<config, phase, attaches, procs, slot>>

\* IdentityPolicy.authorise.  A fault is the answer to a policy that no caller can pass.
\* A call is unsettled that the caller is not refused: what its identity needs of the
\* environment is not there, which for a lookup is the map.
Verdict(p, k, headers, environment) ==
  LET as == VerifiedAs(environment, k) IN
  IF ~Enabled(p) THEN "ready"
  ELSE IF ~Gated([p EXCEPT !.roles = {}], k, as) THEN "refused"
  ELSE IF p.roles # {} /\ ~HasClaim(environment) THEN "fault"
  ELSE IF ~Gated(p, k, as) THEN "refused"
  ELSE IF p.mode = "none" THEN "ready"
  ELSE IF ~Materialises(p) THEN "fault"
  ELSE IF p.mode = "lookup" /\ p.key \in k.claims /\ environment.secrets = None THEN "unsettled"
  ELSE IF Materials(p, k, headers, environment) = None THEN "refused"
  ELSE IF MaterialIsPending(p) THEN "settling"
  ELSE "ready"

Presents(c, k, s) ==
  /\ call[c].st = "idle" /\ phase = "serving" /\ s \in backends
  /\ VerifiedAs(os, k) # "nobody"
  /\ LET p == PolicyOf(reg[s]) IN
       call' = [call EXCEPT ![c] =
                 [st |-> Verdict(p, k, k.headers, os), who |-> k, on |-> s,
                  ident |-> IF p.mode = "none" THEN <<>> ELSE Materials(p, k, k.headers, os)]]
  /\ slot' = [slot EXCEPT ![SlotOf(c)] = "none"]
  /\ UNCHANGED <<config, phase, attaches, procs>>

\* The exchange yields a token; or the identity provider refuses the caller's; or there is
\* none for another reason: the secret is unset, the client is refused, no answer.
Settles(c) ==
  /\ call[c].st = "settling"
  /\ \E st \in {"ready", "refused", "unsettled"} : call' = [call EXCEPT ![c].st = st]
  /\ UNCHANGED <<config, phase, attaches, procs, slot>>

\* The credentials of the registry, by the name under which the backend sees them.
DeploymentOf(s) == [n \in DOMAIN reg[s].env |-> Deployment]

\* An identity goes on top of them.
Merged(ident, s) ==
  [n \in DOMAIN ident \cup DOMAIN DeploymentOf(s) |->
     IF n \in DOMAIN ident THEN ident[n] ELSE Deployment]

\* What each executor applies of an identity: a fresh transport with its headers, the
\* client of an in-process source, the environment of a process, a provider of its own.
Applies(s) ==
  \/ Backing(s) \in {"http", "cli", "native"}
  \/ Backing(s) = "inproc" /\ reg[s].plugin.aware
\* build_transport refuses headers on stdio.
CannotCarry(s, ident) == Backing(s) = "stdio" /\ ident # <<>>

\* A process for the verb of a cli backend, a session for any other call.
Sends(c) ==
  /\ call[c].st = "ready"
  /\ LET s == call[c].on
         ident == call[c].ident
     IN IF CannotCarry(s, ident)
          THEN call' = [call EXCEPT ![c].st = "fault"] /\ procs' = procs
          ELSE /\ call' = [call EXCEPT ![c] =
                    [st |-> "running", who |-> call[c].who, on |-> s,
                     seen |-> IF Applies(s) THEN Merged(ident, s) ELSE DeploymentOf(s)]]
               /\ procs' = procs \cup {c}
  /\ UNCHANGED <<config, phase, attaches, slot>>

\* The backend answers, or refuses; or the time is over, or the client has gone, and the
\* process is killed.
Answers(c) ==
  /\ call[c].st = "running"
  /\ \E st \in {"reached", "gone"} : call' = [call EXCEPT ![c].st = st]
  /\ procs' = procs \ {c}
  /\ UNCHANGED <<config, phase, attaches, slot>>

Ends(c) ==
  /\ call[c].st \in {"denied", "refused", "fault", "unsettled", "reached", "gone"}
  /\ call[c].st = "denied" => call[c].told # "nothing"
  /\ call' = [call EXCEPT ![c] = NoCall]
  /\ UNCHANGED <<config, phase, attaches, procs, slot>>

-----------------------------------------------------------------------------
(* health --deep: a sweep attaches a backend of its own to every surface   *)

\* health --deep --bearer-file: the probe of a surface, run as the holder of a token.
\* It attaches a backend of its own, and has no request whose headers it could read.
\* What the sweep meets is in `met': whether the surface attaches (up), its pins are served
\* (pins), the probe answers the deployment (answers), an exchange yields a token
\* (settled), and what the answer to the user says (said): "error", the identity of the
\* "caller" or of an "other", or of nobody ("unsaid").
Answered(said) ==
  CASE said = "error" -> "failed" [] said = "other" -> "mismatch" [] OTHER -> "ok"
UngatedProbe(s, k, met) ==  \* mutant: the material without the gate before it
  LET p == PolicyOf(reg[s]) IN
  IF p.mode = "none" THEN "not_applicable"
  ELSE IF ProbeOf(reg[s]) = None THEN "skipped"
  ELSE IF VerifiedAs(os, k) = "nobody" THEN "rejected"
  ELSE IF Materials(p, k, {}, os) = None \/ (MaterialIsPending(p) /\ ~met.settled) THEN "refused"
  ELSE Answered(met.said)
UserProbe(s, k, met) ==
  LET p == PolicyOf(reg[s])
      verdict == Verdict(p, k, {}, os)
  IN IF p.mode = "none" THEN "not_applicable"
     ELSE IF ProbeOf(reg[s]) = None THEN "skipped"
     ELSE IF VerifiedAs(os, k) = "nobody" THEN "rejected"
     ELSE IF verdict \notin {"ready", "settling"} THEN "refused"
     ELSE IF verdict = "settling" /\ ~met.settled THEN "refused"
     ELSE Answered(met.said)

\* check_entry: one record.
HealthRecord(s, k, met) ==
  [attach |-> IF met.up THEN "ok" ELSE "failed",
   probe |-> IF ~met.up THEN "skipped" ELSE IF ProbeOf(reg[s]) = None THEN "none"
             ELSE IF met.answers THEN "ok" ELSE "failed",
   catalogue |-> IF ~met.up THEN "unknown" ELSE IF met.pins THEN "ok" ELSE "pinned_missing",
   user |-> IF ~met.up THEN "skipped" ELSE UserProbe(s, k, met)]

\* What turns a sweep red: not that there is nothing to ask, nor that the answer names nobody.
RedRecord(r) ==
  \/ r.attach = "failed" \/ r.probe = "failed" \/ r.catalogue = "pinned_missing"
  \/ r.user \in {"rejected", "refused", "failed", "mismatch"}

Next ==
  \/ Refuse \/ Boot \/ Raises \/ Serves \/ Stop \/ Down
  \/ \E s \in Surfaces :
       \/ Opens(s) \/ OpenFails(s) \/ ListFails(s) \/ Lists(s) \/ FinishFails(s)
       \/ Attached(s) \/ Retry(s) \/ Cancelled(s)
  \/ \E c \in Calls :
       \/ Told(c) \/ Settles(c) \/ Sends(c) \/ Answers(c) \/ Ends(c)
       \/ \E k \in Callers, s \in Surfaces : Denied(c, k, s) \/ Presents(c, k, s)

Spec == Init /\ [][Next]_vars

-----------------------------------------------------------------------------
(* Properties                                                              *)

\* IDENTITY.md: no surface is "believed per-user, actually shared".  Of a surface with a
\* mode, what reaches the backend carries under every key the mode names the credential
\* of the caller who made the call, and no other caller's anywhere; of one without, only
\* the deployment's.
KeysOf(p) == IF p.mode \in {"bearer", "exchange"} THEN {"authorization"} ELSE DOMAIN p.map
NeverSilentlyShared ==
  \A c \in Calls : call[c].st = "reached" =>
    LET p == PolicyOf(reg[call[c].on])
        seen == call[c].seen
        mine == call[c].who.name
    IN /\ p.mode = "none" => \A n \in DOMAIN seen : seen[n] = Deployment
       /\ p.mode # "none" =>
            /\ VerifiedAs(os, call[c].who) = "user"
            /\ KeysOf(p) \subseteq DOMAIN seen
            /\ \A n \in DOMAIN seen : seen[n] = IF n \in KeysOf(p) THEN mine ELSE Deployment

\* Every transport, client and provider belongs to an attach that is still running or to
\* a backend that somebody will close: a refusal, a failure, a timeout, a cancellation, a
\* raised boot and a stop leave nothing open.  Every process and session belongs to a call
\* that is waiting for it, whatever ends the call.
NothingLeaks ==
  /\ \A s \in Surfaces :
       open[s] = IF s \in backends \/ att[s] \in {"listing", "costing"} THEN Holds(s) ELSE 0
  /\ procs = {c \in Calls : call[c].st = "running"}

\* What the gateway reports is what happened: once the boot is over a surface is served
\* or recorded as failed; it is given up exactly when its last attach met a fault of the
\* configuration; and a boot that raises names the first failure in registry order.
DegradedIsExact ==
  /\ phase = "serving" => \A s \in Surfaces :
       /\ s \in backends <=> failed[s] = "no"
       /\ s \in backends <=> att[s] = "ok"
       /\ s \in faults <=> att[s] = "config"
  /\ phase = "raised" =>
       /\ att[raised] \in Failures
       /\ \A s \in Before(raised) : att[s] = "ok"

\* What is wrong with a registry is found at boot or at attach: a gateway that started
\* answers no call with a fault of it (identity.py:226 and :262, backends/mcp.py:47), and
\* serves no surface of an OpenAPI document with a pin that the document lacks.  Excepted
\* by name is what is read on the call path alone and may be missing or wrong there: the
\* map of a lookup (identity.py:397) and the client and secret of an exchange
\* (tokenexchange.py:179, docs/IDENTITY.md:170), for want of which calls to a surface in
\* one of these two modes fail, and to no other.
NoLateConfigFault ==
  /\ \A c \in Calls :
       /\ call[c].st # "fault"
       /\ call[c].st = "unsettled" => PolicyOf(reg[call[c].on]).mode \in {"lookup", "exchange"}
  /\ \A s \in backends \cap missing : reg[s].plugin.document = None

\* What an operator is told without a call is what a call will meet.
\* registry-lint, asked before a deploy in an environment that says the mode, passes no
\* registry that the gateway refuses, but one with role gates where the variable of the
\* claim is blank (cli/app.py:361 reads it raw, auth.py:381 strips it); and it refuses none
\* that the gateway serves, but one whose identity map is not there, with which no call to
\* that surface can succeed.
\* health --deep, asked as a user, of a surface that works: where a call of that user
\* reached the backend, but for the headers that only a request has, the sweep is red
\* exactly if a pin is gone, the probe answers as someone else, or an exchange, which is
\* asked again, yields no token; where the policy let the call not pass it is red if
\* there is a probe to ask, but for an exchange.
LintPredictsBoot ==
  /\ phase = "refused" /\ VerifierBuilt(os) /\ os.mode # "unset" /\ LintAccepts(reg, os) =>
       os.claim = "blank" /\ \E s \in Surfaces : RoleGated(reg[s])
  /\ phase \notin {"boot", "refused"} /\ ~LintAccepts(reg, os) =>
       os.secrets = None /\ \E s \in Surfaces : reg[s].identity.mode = "lookup"

SweepsOfWorking(s) ==
  [up : {TRUE}, pins : {s \notin missing}, answers : {TRUE}, settled : BOOLEAN,
   said : {"caller", "other", "unsaid"}]
ProbePredicts(c, met) ==
  LET s == call[c].on
      mode == PolicyOf(reg[s]).mode
      asked == mode # "none" /\ ProbeOf(reg[s]) # None
      red == RedRecord(HealthRecord(s, call[c].who, met))
  IN /\ call[c].st = "reached" /\ mode # "client" =>
          (red <=> \/ s \in missing
                   \/ asked /\ (met.said = "other" \/ (mode = "exchange" /\ ~met.settled)))
     /\ call[c].st \in {"refused", "unsettled"} /\ mode \notin {"none", "exchange"} =>
          (red <=> s \in missing \/ asked)

OperatorIsToldTheTruth ==
  /\ LintPredictsBoot
  /\ \A c \in Calls : call[c].st \in {"reached", "refused", "unsettled"} =>
       \A met \in SweepsOfWorking(call[c].on) : ProbePredicts(c, met)

\* A 401 says that the token expired when, and only when, its own token did, whatever
\* other requests are refused meanwhile.
OwnReason ==
  \A c \in Calls :
    call[c].st = "denied" /\ call[c].told # "nothing" =>
      (call[c].told = "expired" <=> Reason(os, call[c].who) = "expired")

=============================================================================
