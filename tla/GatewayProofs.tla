---------------------------- MODULE GatewayProofs ----------------------------
(***************************************************************************)
(* Proofs about Gateway, for any registries, environments, callers and     *)
(* number of requests.                                                     *)
(***************************************************************************)
EXTENDS Gateway, TLAPS

USE DEF config, attaches, requests

\* The steps of one attach, and those of one call.
AttachStep(s) ==
  \/ Opens(s) \/ OpenFails(s) \/ ListFails(s) \/ Lists(s) \/ FinishFails(s)
  \/ Attached(s) \/ Retry(s) \/ Cancelled(s)
CallStep(c) ==
  \/ Told(c) \/ Settles(c) \/ Sends(c) \/ Answers(c) \/ Ends(c)
  \/ \E k \in Callers, s \in Surfaces : Denied(c, k, s) \/ Presents(c, k, s)

\* A step is one of the gateway, of one attach or of one call.
LEMMA StepKinds ==
  ASSUME [Next]_vars
  PROVE  \/ Refuse \/ Boot \/ Raises \/ Serves \/ Stop \/ Down
         \/ \E s \in Surfaces : AttachStep(s)
         \/ \E c \in Calls : CallStep(c)
         \/ UNCHANGED vars
BY DEF Next, AttachStep, CallStep

\* No call changes anything but itself, its process or session, and its slot.
LEMMA CallsChangeNoAttach ==
  ASSUME NEW c \in Calls, CallStep(c)
  PROVE  UNCHANGED <<config, phase, attaches>>
BY DEF CallStep, Told, Settles, Sends, Answers, Ends, Denied, Presents

\* No attach changes a call.
LEMMA AttachesChangeNoCall ==
  ASSUME NEW s \in Surfaces, AttachStep(s)
  PROVE  UNCHANGED <<config, phase, requests>>
BY DEF AttachStep, Opens, OpenFails, ListFails, Lists, FinishFails, Attached, Retry,
       Cancelled, Fails

-----------------------------------------------------------------------------
(* What the attaches hold                                                  *)

AttStates == Running \cup Failures \cup {"idle", "ok", "cancelled"}
MayServe == {"attaching", "serving", "stopping"}

\* Besides what is open: whoever owns a backend has ended its attach well, a surface
\* whose attach ended well is owned until the end, and only a stop cancels.
Owned ==
  /\ att \in [Surfaces -> AttStates]
  /\ open \in [Surfaces -> Nat]
  /\ \A s \in Surfaces :
       open[s] = IF s \in backends \/ att[s] \in {"listing", "costing"} THEN Holds(s) ELSE 0
  /\ \A s \in backends : att[s] = "ok"
  /\ phase \in {"attaching", "serving"} =>
       \A s \in Surfaces : /\ att[s] = "ok" => s \in backends
                           /\ att[s] \notin {"idle", "cancelled"}
  /\ phase \in {"boot", "refused"} => backends = {} /\ att = [s \in Surfaces |-> "idle"]
  /\ phase \in {"raised", "down"} =>
       backends = {} /\ \A s \in Surfaces : att[s] \notin Running
  /\ backends \subseteq Surfaces

LEMMA OwnedInit == Init => Owned
BY DEF Init, Owned, AttStates, Running

LEMMA HoldsIsNatural == ASSUME NEW s \in Surfaces PROVE Holds(s) \in {0, 1}
BY DEF Holds

LEMMA OwnedStep == Owned /\ [Next]_vars => Owned'
<1> SUFFICES ASSUME Owned, [Next]_vars PROVE Owned'
  OBVIOUS
<1> USE DEF Owned, AttStates, Running, Failures
<1>1. CASE Refuse
  BY <1>1 DEF Refuse, Holds, Backing
<1>2. CASE Boot
  BY <1>2 DEF Boot, Holds, Backing
<1>3. CASE Raises
  BY <1>3, HoldsIsNatural DEF Raises, Ended, Holds, Backing
<1>4. CASE Serves
  BY <1>4 DEF Serves, Holds, Backing
<1>5. CASE Stop
  BY <1>5 DEF Stop, Holds, Backing
<1>6. CASE Down
  BY <1>6, HoldsIsNatural DEF Down, Ended, Holds, Backing
<1>7. ASSUME NEW s \in Surfaces, AttachStep(s) PROVE Owned'
  <2> USE HoldsIsNatural DEF Steps, Fails, Closed
  <2>0. \A t \in Surfaces : Holds(t)' = Holds(t)
    BY <1>7, AttachesChangeNoCall DEF Holds, Backing
  <2>1. CASE Opens(s)
    BY <2>1, <2>0 DEF Opens
  <2>2. CASE OpenFails(s)
    BY <2>2, <2>0 DEF OpenFails
  <2>3. CASE ListFails(s)
    BY <2>3, <2>0 DEF ListFails
  <2>4. CASE Lists(s)
    BY <2>4, <2>0 DEF Lists
  <2>5. CASE FinishFails(s)
    BY <2>5, <2>0 DEF FinishFails
  <2>6. CASE Attached(s)
    BY <2>6, <2>0 DEF Attached
  <2>7. CASE Retry(s)
    BY <2>7, <2>0 DEF Retry
  <2>8. CASE Cancelled(s)
    BY <2>8, <2>0 DEF Cancelled
  <2>9. QED
    BY <1>7, <2>1, <2>2, <2>3, <2>4, <2>5, <2>6, <2>7, <2>8 DEF AttachStep
<1>8. ASSUME NEW c \in Calls, CallStep(c) PROVE Owned'
  BY <1>8, CallsChangeNoAttach DEF Holds, Backing
<1>9. CASE UNCHANGED vars
  BY <1>9 DEF vars, Holds, Backing
<1>10. QED
  BY StepKinds, <1>1, <1>2, <1>3, <1>4, <1>5, <1>6, <1>7, <1>8, <1>9

-----------------------------------------------------------------------------
(* What the calls hold, and what they are told                             *)

\* A call that is denied has the reason of its own token in its own slot.
Requested ==
  /\ DOMAIN call = Calls /\ slot \in [Calls -> {"none", "expired", "invalid", "audience"}]
  /\ \A c \in Calls : "st" \in DOMAIN call[c]
  /\ procs = {c \in Calls : call[c].st = "running"}
  /\ \A c \in Calls : call[c].st = "denied" =>
       /\ {"who", "told"} \subseteq DOMAIN call[c]
       /\ slot[c] = Reason(os, call[c].who)
       /\ call[c].told # "nothing" =>
            (call[c].told = "expired" <=> Reason(os, call[c].who) = "expired")

LEMMA RequestedInit == Init => Requested
BY DEF Init, Requested, NoCall

LEMMA RequestedStep == Requested /\ [Next]_vars => Requested'
<1> SUFFICES ASSUME Requested, [Next]_vars PROVE Requested'
  OBVIOUS
<1> USE DEF Requested
<1>1. CASE UNCHANGED <<config, requests>>
  BY <1>1 DEF Reason, AuthMode
<1>2. ASSUME NEW c \in Calls, CallStep(c) PROVE Requested'
  <2>0. os' = os /\ \A k : Reason(os, k)' = Reason(os, k)
    BY <1>2, CallsChangeNoAttach DEF Reason, AuthMode
  <2>1. CASE Told(c)
    BY <2>1, <2>0 DEF Told, SlotOf
  <2>2. CASE Settles(c)
    BY <2>2, <2>0 DEF Settles
  <2>3. CASE Sends(c)
    BY <2>3, <2>0 DEF Sends
  <2>4. CASE Answers(c)
    BY <2>4, <2>0 DEF Answers
  <2>5. CASE Ends(c)
    BY <2>5, <2>0 DEF Ends, NoCall
  <2>6. ASSUME NEW k \in Callers, NEW s \in Surfaces, Denied(c, k, s) PROVE Requested'
    <3>1. Reason(os, k) \in {"none", "expired", "invalid", "audience"}
      BY FaultAssumption DEF Reason
    <3>2. QED
      BY <2>6, <2>0, <3>1 DEF Denied, SlotOf
  <2>7. ASSUME NEW k \in Callers, NEW s \in Surfaces, Presents(c, k, s) PROVE Requested'
    <3>1. \A p, h : Verdict(p, k, h, os) \in {"ready", "refused", "fault", "settling", "unsettled"}
      BY DEF Verdict
    <3>2. QED
      BY <2>7, <2>0, <3>1 DEF Presents, SlotOf
  <2>8. QED
    BY <1>2, <2>1, <2>2, <2>3, <2>4, <2>5, <2>6, <2>7 DEF CallStep
<1>3. Refuse \/ Boot \/ Raises \/ Serves \/ Stop \/ Down => UNCHANGED <<config, requests>>
  BY DEF Refuse, Boot, Raises, Serves, Stop, Down
<1>4. QED
  BY StepKinds, <1>1, <1>2, <1>3, AttachesChangeNoCall DEF vars

\* RejectionMiddleware, auth.py: for any requests at the same time, a 401 gives the
\* reason of the token of its own request.
THEOREM ReasonsAreOwn == Spec => []OwnReason
<1>1. Requested => OwnReason
  BY DEF Requested, OwnReason
<1>2. QED
  BY RequestedInit, RequestedStep, <1>1, PTL DEF Spec

\* gateway.py and backends/: for any registry, nothing that an attach opened stays open
\* without an owner, and no process or session without its call.
THEOREM NothingIsLeaked == Spec => []NothingLeaks
<1>1. Owned /\ Requested => NothingLeaks
  BY DEF Owned, Requested, NothingLeaks
<1>2. QED
  BY OwnedInit, OwnedStep, RequestedInit, RequestedStep, <1>1, PTL DEF Spec

-----------------------------------------------------------------------------
(* What the gateway reports of its surfaces                                *)

\* While it serves, the three records say of every surface how its last attach ended, or
\* that it is tried again; a boot that raised has named its surface.
Reported ==
  /\ failed \in [Surfaces -> Failures \cup {"no"}] /\ faults \subseteq Surfaces
  /\ DegradedIsExact

LEMMA ReportedInit == Init => Reported
BY DEF Init, Reported, DegradedIsExact

LEMMA ReportedStep == Owned /\ Reported /\ [Next]_vars => Reported'
<1> SUFFICES ASSUME Owned, Reported, [Next]_vars PROVE Reported'
  OBVIOUS
<1> USE DEF Owned, Reported, DegradedIsExact, AttStates, Running, Failures
<1>1. CASE Refuse
  BY <1>1 DEF Refuse
<1>2. CASE Boot
  BY <1>2 DEF Boot
<1>3. CASE Raises
  <2>1. PICK s \in Surfaces : First(s) /\ raised' = s
    BY <1>3 DEF Raises
  <2>2. Before(s) \subseteq Surfaces
    BY DEF Before, Surfaces
  <2>3. \A t \in Before(s) : att[t] = "ok"
    BY <1>3, <2>1, <2>2 DEF Raises, First, Bad, Ended
  <2>4. QED
    BY <1>3, <2>1, <2>2, <2>3 DEF Raises, First, Bad
<1>4. CASE Serves
  BY <1>4 DEF Serves, Bad, Ended
<1>5. CASE Stop
  BY <1>5 DEF Stop
<1>6. CASE Down
  BY <1>6 DEF Down
<1>7. ASSUME NEW s \in Surfaces, AttachStep(s) PROVE Reported'
  <2> USE DEF Steps, Fails
  <2>1. CASE Opens(s)
    BY <2>1 DEF Opens
  <2>2. CASE OpenFails(s)
    BY <2>2 DEF OpenFails
  <2>3. CASE ListFails(s)
    BY <2>3 DEF ListFails
  <2>4. CASE Lists(s)
    BY <2>4 DEF Lists
  <2>5. CASE FinishFails(s)
    BY <2>5 DEF FinishFails
  <2>6. CASE Attached(s)
    BY <2>6 DEF Attached
  <2>7. CASE Retry(s)
    BY <2>7 DEF Retry
  <2>8. CASE Cancelled(s)
    BY <2>8 DEF Cancelled
  <2>9. QED
    BY <1>7, <2>1, <2>2, <2>3, <2>4, <2>5, <2>6, <2>7, <2>8 DEF AttachStep
<1>8. ASSUME NEW c \in Calls, CallStep(c) PROVE Reported'
  BY <1>8, CallsChangeNoAttach
<1>9. CASE UNCHANGED vars
  BY <1>9 DEF vars
<1>10. QED
  BY StepKinds, <1>1, <1>2, <1>3, <1>4, <1>5, <1>6, <1>7, <1>8, <1>9

\* build_surfaces and GatewayRuntime._retry: for any registry and any order in which the
\* attaches end, the report of what is served and what has failed is the truth.
THEOREM ReportsAreExact == Spec => []DegradedIsExact
<1>1. Reported => DegradedIsExact
  BY DEF Reported
<1>2. QED
  BY OwnedInit, OwnedStep, ReportedInit, ReportedStep, <1>1, PTL DEF Spec

-----------------------------------------------------------------------------
(* What the registry was checked for                                       *)

PolicyAt(s) == PolicyOf(reg[s])

\* A gateway that attaches has checked its registry and built its verifier.
Checked ==
  /\ reg \in Registries /\ os \in Envs
  /\ phase \notin {"boot", "refused"} => CheckRegistry(reg, os)
  /\ phase = "refused" => ~(CheckRegistry(reg, os) /\ VerifierBuilt(os))

LEMMA CheckedInit == Init => Checked
BY DEF Init, Checked

LEMMA CheckedStep == Checked /\ [Next]_vars => Checked'
<1> SUFFICES ASSUME Checked, [Next]_vars PROVE Checked'
  OBVIOUS
<1> USE DEF Checked
<1>1. CASE Refuse
  BY <1>1 DEF Refuse
<1>2. CASE Boot
  BY <1>2 DEF Boot
<1>3. CASE Raises \/ Serves \/ Stop \/ Down
  BY <1>3 DEF Raises, Serves, Stop, Down
<1>4. ASSUME NEW s \in Surfaces, AttachStep(s) PROVE Checked'
  BY <1>4, AttachesChangeNoCall
<1>5. ASSUME NEW c \in Calls, CallStep(c) PROVE Checked'
  BY <1>5, CallsChangeNoAttach
<1>6. CASE UNCHANGED vars
  BY <1>6 DEF vars
<1>7. QED
  BY StepKinds, <1>1, <1>2, <1>3, <1>4, <1>5, <1>6

\* What validate_identity and validate_authz leave possible of a surface.
LEMMA CheckedSurface ==
  ASSUME Checked, phase \notin {"boot", "refused"}, NEW s \in Surfaces
  PROVE  /\ reg[s].plugin # None
         /\ PolicyAt(s).roles # {} => HasClaim(os)
         /\ PolicyAt(s).mode # "none" =>
              /\ PolicyAt(s).mode \in Modes /\ PolicyAt(s).target \in Targets
              /\ Backing(s) # "stdio"
         /\ PolicyAt(s).mode = "client" => DOMAIN PolicyAt(s).map # {}
<1>1. EntryAccepted(s, reg[s], os)
  BY RegistriesAssumption DEF Checked, CheckRegistry, Preflight
<1>2. IdentityAccepted(reg[s], os)
  BY <1>1 DEF EntryAccepted
<1>3. PolicyAt(s).roles # {} => HasClaim(os)
  BY RegistriesAssumption DEF Checked, CheckRegistry, RoleGated, PolicyAt, PolicyOf
<1>4. QED
  BY <1>1, <1>2, <1>3 DEF EntryAccepted, IdentityAccepted, NeedsOf, PolicyAt, PolicyOf, Backing

-----------------------------------------------------------------------------
(* What an attach was checked for                                          *)

\* A surface that was listed has a document that is accepted, no pin that the document
\* lacks, and a source that applies the identity.
Vetted ==
  \A s \in Surfaces :
    /\ att[s] \in {"listing", "costing", "ok"} => DocumentAccepted(reg[s].plugin, PinsOf(reg[s]))
    /\ att[s] \in {"costing", "ok"} =>
         /\ s \in missing => reg[s].plugin.document = None
         /\ ~RefusedIdentity(s)

LEMMA VettedInit == Init => Vetted
BY DEF Init, Vetted

LEMMA VettedStep == Owned /\ Vetted /\ [Next]_vars => Vetted'
<1> SUFFICES ASSUME Owned, Vetted, [Next]_vars PROVE Vetted'
  OBVIOUS
<1> USE DEF Owned, Vetted, AttStates, Running, Failures, RefusedIdentity, Backing
<1>1. CASE Refuse
  BY <1>1 DEF Refuse
<1>2. CASE Boot
  BY <1>2 DEF Boot
<1>3. CASE Raises \/ Serves \/ Stop \/ Down
  BY <1>3 DEF Raises, Serves, Stop, Down
<1>4. ASSUME NEW s \in Surfaces, AttachStep(s) PROVE Vetted'
  <2> USE DEF Steps, Fails
  <2>0. reg' = reg
    BY <1>4, AttachesChangeNoCall
  <2>1. CASE Opens(s)
    BY <2>1, <2>0 DEF Opens
  <2>2. CASE OpenFails(s)
    BY <2>2, <2>0 DEF OpenFails
  <2>3. CASE ListFails(s)
    BY <2>3, <2>0 DEF ListFails
  <2>4. CASE Lists(s)
    <3>1. PICK tools \in Served(s) :
            missing' = IF PinsOf(reg[s]) \subseteq tools THEN missing \ {s} ELSE missing \cup {s}
      BY <2>4 DEF Lists, Pins
    <3>2. s \in missing' => reg[s].plugin.document = None
      BY <2>4, <3>1 DEF Lists, Served, DocumentAccepted
    <3>3. \A t \in Surfaces \ {s} : t \in missing' <=> t \in missing
      BY <3>1
    <3>4. QED
      BY <2>4, <2>0, <3>2, <3>3 DEF Lists
  <2>5. CASE FinishFails(s)
    <3>1. \A t \in Surfaces \ {s} : t \in missing' <=> t \in missing
      BY <2>5 DEF FinishFails, Pins
    <3>2. QED
      BY <2>5, <2>0, <3>1 DEF FinishFails
  <2>6. CASE Attached(s)
    BY <2>6, <2>0 DEF Attached
  <2>7. CASE Retry(s)
    BY <2>7, <2>0 DEF Retry
  <2>8. CASE Cancelled(s)
    BY <2>8, <2>0 DEF Cancelled
  <2>9. QED
    BY <1>4, <2>1, <2>2, <2>3, <2>4, <2>5, <2>6, <2>7, <2>8 DEF AttachStep
<1>5. ASSUME NEW c \in Calls, CallStep(c) PROVE Vetted'
  BY <1>5, CallsChangeNoAttach
<1>6. CASE UNCHANGED vars
  BY <1>6 DEF vars
<1>7. QED
  BY StepKinds, <1>1, <1>2, <1>3, <1>4, <1>5, <1>6

-----------------------------------------------------------------------------
(* Whose credential a call carries                                         *)

\* What the policy of a surface makes of a caller.
Ident(s, k) == IF PolicyAt(s).mode = "none" THEN <<>> ELSE Materials(PolicyAt(s), k, k.headers, os)

\* What a backend may see of a call of k: the property, for a call that is under way.
SeenIsOwn(s, k, seen) ==
  LET p == PolicyAt(s) IN
  /\ p.mode = "none" => \A n \in DOMAIN seen : seen[n] = Deployment
  /\ p.mode # "none" =>
       /\ VerifiedAs(os, k) = "user"
       /\ KeysOf(p) \subseteq DOMAIN seen
       /\ \A n \in DOMAIN seen : seen[n] = IF n \in KeysOf(p) THEN k.name ELSE Deployment

\* A call that goes on has passed the gate of a vetted surface and has the material of its
\* own caller; what is sent of it is that.
Carried ==
  /\ DOMAIN call = Calls
  /\ \A c \in Calls :
       /\ "st" \in DOMAIN call[c] /\ call[c].st # "fault"
       /\ call[c].st # "idle" => phase \notin {"boot", "refused"}
       /\ call[c].st \in {"settling", "ready"} =>
            LET s == call[c].on k == call[c].who IN
            /\ {"who", "on", "ident"} \subseteq DOMAIN call[c]
            /\ s \in Surfaces /\ ~RefusedIdentity(s)
            /\ call[c].ident = Ident(s, k)
            /\ PolicyAt(s).mode # "none" => VerifiedAs(os, k) = "user" /\ Ident(s, k) # None
       /\ call[c].st \in {"settling", "unsettled"} =>
            "on" \in DOMAIN call[c] /\ PolicyAt(call[c].on).mode \in {"lookup", "exchange"}
       /\ call[c].st \in {"running", "reached"} =>
            /\ {"who", "on", "seen"} \subseteq DOMAIN call[c]
            /\ SeenIsOwn(call[c].on, call[c].who, call[c].seen)

LEMMA CarriedInit == Init => Carried
BY DEF Init, Carried, NoCall

\* _material: under every key the mode names, the credential of the caller.
LEMMA MaterialsAreOwn ==
  ASSUME NEW p, NEW k, NEW h, p.mode \in Modes, Materials(p, k, h, os) # None
  PROVE  Materials(p, k, h, os) = [n \in KeysOf(p) |-> k.name]
BY DEF Materials, KeysOf, Modes

\* The policy answers with a fault only when it was not checked.
LEMMA NoFault ==
  ASSUME Checked, phase \notin {"boot", "refused"}, NEW s \in Surfaces, NEW k
  PROVE  /\ Verdict(PolicyAt(s), k, k.headers, os) \in {"ready", "refused", "settling", "unsettled"}
         /\ Verdict(PolicyAt(s), k, k.headers, os) \in {"ready", "settling"} /\ PolicyAt(s).mode # "none" =>
              VerifiedAs(os, k) = "user" /\ Materials(PolicyAt(s), k, k.headers, os) # None
         /\ Verdict(PolicyAt(s), k, k.headers, os) \in {"settling", "unsettled"} =>
              PolicyAt(s).mode \in {"lookup", "exchange"}
<1>1. PolicyAt(s).roles # {} => HasClaim(os)
  BY CheckedSurface
<1>2. PolicyAt(s).mode # "none" => Materialises(PolicyAt(s))
  BY CheckedSurface DEF Materialises
<1>3. QED
  BY <1>1, <1>2 DEF Verdict, Enabled, Gated, MaterialIsPending

\* The executor of every backing that a checked surface with a mode can have applies it.
LEMMA SentIsOwn ==
  ASSUME Checked, phase \notin {"boot", "refused"}, NEW s \in Surfaces, ~RefusedIdentity(s),
         NEW k, PolicyAt(s).mode # "none" => VerifiedAs(os, k) = "user" /\ Ident(s, k) # None
  PROVE  /\ ~CannotCarry(s, Ident(s, k))
         /\ SeenIsOwn(s, k, IF Applies(s) THEN Merged(Ident(s, k), s) ELSE DeploymentOf(s))
<1>1. CASE PolicyAt(s).mode = "none"
  <2>1. Ident(s, k) = <<>> /\ DOMAIN <<>> = {}
    BY <1>1 DEF Ident
  <2>2. \A n \in DOMAIN (Merged(Ident(s, k), s)) : (Merged(Ident(s, k), s))[n] = Deployment
    BY <2>1 DEF Merged, DeploymentOf
  <2>3. \A n \in DOMAIN DeploymentOf(s) : DeploymentOf(s)[n] = Deployment
    BY DEF DeploymentOf
  <2>4. QED
    BY <1>1, <2>1, <2>2, <2>3 DEF SeenIsOwn, CannotCarry
<1>2. CASE PolicyAt(s).mode # "none"
  <2>1. PolicyAt(s).mode \in Modes /\ Backing(s) # "stdio"
    BY <1>2, CheckedSurface
  <2>2. reg[s].identity.mode # "none"
    BY <1>2 DEF PolicyAt, PolicyOf
  <2>3. Applies(s)
    BY <2>1, <2>2, CheckedSurface, BackingAssumption DEF Applies, RefusedIdentity, Backing, Checked
  <2>4. Ident(s, k) = [n \in KeysOf(PolicyAt(s)) |-> k.name]
    BY <1>2, <2>1, MaterialsAreOwn DEF Ident
  <2>5. SeenIsOwn(s, k, Merged(Ident(s, k), s))
    BY <1>2, <2>4 DEF SeenIsOwn, Merged, DeploymentOf
  <2>6. QED
    BY <2>1, <2>3, <2>5 DEF CannotCarry
<1>3. QED
  BY <1>1, <1>2

LEMMA CarriedStep == Owned /\ Checked /\ Vetted /\ Carried /\ [Next]_vars => Carried'
<1> SUFFICES ASSUME Owned, Checked, Vetted, Carried, [Next]_vars PROVE Carried'
  OBVIOUS
<1> USE DEF Carried
<1>1. ASSUME UNCHANGED <<config, requests>>, phase \notin {"boot", "refused"} => phase' \notin {"boot", "refused"}
      PROVE  Carried'
  BY <1>1 DEF RefusedIdentity, Backing, PolicyAt, Ident, SeenIsOwn
<1>2. ASSUME NEW c \in Calls, CallStep(c) PROVE Carried'
  <2> USE DEF RefusedIdentity, Backing, PolicyAt, Ident, SeenIsOwn
  <2>0. UNCHANGED <<config, phase, attaches>>
    BY <1>2, CallsChangeNoAttach
  <2>1. CASE Told(c)
    BY <2>1, <2>0 DEF Told
  <2>2. CASE Settles(c)
    BY <2>2, <2>0 DEF Settles
  <2>3. CASE Sends(c)
    <3> HIDE DEF RefusedIdentity, Backing, PolicyAt, Ident, SeenIsOwn
    <3>1. phase \notin {"boot", "refused"} /\ call[c].on \in Surfaces
      BY <2>3 DEF Sends
    <3>2. /\ ~CannotCarry(call[c].on, call[c].ident)
          /\ SeenIsOwn(call[c].on, call[c].who,
               IF Applies(call[c].on) THEN Merged(call[c].ident, call[c].on)
               ELSE DeploymentOf(call[c].on))
      BY <2>3, <3>1, SentIsOwn DEF Sends
    <3>3. QED
      BY <2>3, <2>0, <3>1, <3>2
         DEF Sends, RefusedIdentity, Backing, PolicyAt, Ident, SeenIsOwn
  <2>4. CASE Answers(c)
    BY <2>4, <2>0 DEF Answers
  <2>5. CASE Ends(c)
    BY <2>5, <2>0 DEF Ends, NoCall
  <2>6. ASSUME NEW k \in Callers, NEW s \in Surfaces, Denied(c, k, s) PROVE Carried'
    BY <2>6, <2>0 DEF Denied
  <2>7. ASSUME NEW k \in Callers, NEW s \in Surfaces, Presents(c, k, s) PROVE Carried'
    <3>1. ~RefusedIdentity(s)
      BY <2>7 DEF Presents, Owned, Vetted
    <3>2. /\ Verdict(PolicyAt(s), k, k.headers, os) \in {"ready", "refused", "settling", "unsettled"}
          /\ Verdict(PolicyAt(s), k, k.headers, os) \in {"ready", "settling"} /\ PolicyAt(s).mode # "none" =>
               VerifiedAs(os, k) = "user" /\ Materials(PolicyAt(s), k, k.headers, os) # None
          /\ Verdict(PolicyAt(s), k, k.headers, os) \in {"settling", "unsettled"} =>
               PolicyAt(s).mode \in {"lookup", "exchange"}
      BY <2>7, NoFault DEF Presents
    <3>3. call' = [call EXCEPT ![c] = [st |-> Verdict(PolicyAt(s), k, k.headers, os), who |-> k, on |-> s,
                                       ident |-> Ident(s, k)]]
      BY <2>7 DEF Presents
    <3>4. phase = "serving"
      BY <2>7 DEF Presents
    <3>5. QED
      BY <2>0, <3>1, <3>2, <3>3, <3>4
  <2>8. QED
    BY <1>2, <2>1, <2>2, <2>3, <2>4, <2>5, <2>6, <2>7 DEF CallStep
<1>3. Refuse \/ Boot => \A c \in Calls : call[c].st = "idle" \/ phase # "boot"
  BY DEF Refuse, Boot
<1>4. CASE Refuse \/ Boot
  BY <1>4 DEF Refuse, Boot, RefusedIdentity, Backing, PolicyAt, Ident, SeenIsOwn
<1>5. CASE Raises \/ Serves \/ Stop \/ Down
  BY <1>5, <1>1 DEF Raises, Serves, Stop, Down
<1>6. ASSUME NEW s \in Surfaces, AttachStep(s) PROVE Carried'
  BY <1>6, <1>1, AttachesChangeNoCall
<1>7. CASE UNCHANGED vars
  BY <1>7, <1>1 DEF vars
<1>8. QED
  BY StepKinds, <1>2, <1>4, <1>5, <1>6, <1>7

\* IDENTITY.md, identity.py and backends/: whatever the registry, the plugins and the
\* environment, a surface that serves per user carries the credential of its caller.
THEOREM NeverShared == Spec => []NeverSilentlyShared
<1>1. Carried => NeverSilentlyShared
  BY DEF Carried, NeverSilentlyShared, SeenIsOwn, PolicyAt
<1>2. QED
  BY OwnedInit, OwnedStep, CheckedInit, CheckedStep, VettedInit, VettedStep, CarriedInit,
     CarriedStep, <1>1, PTL DEF Spec

\* check_registry, preflight and _finish_attach: whatever the registry, no call meets a
\* fault of it, no document surface lacks a pin, and only on a surface with a lookup or an
\* exchange can a call find that the environment lacks what its identity needs.
THEOREM FaultsAreEarly == Spec => []NoLateConfigFault
<1>1. Owned /\ Vetted /\ Carried => NoLateConfigFault
  BY DEF Owned, Vetted, Carried, NoLateConfigFault, PolicyAt
<1>2. QED
  BY OwnedInit, OwnedStep, CheckedInit, CheckedStep, VettedInit, VettedStep, CarriedInit,
     CarriedStep, <1>1, PTL DEF Spec

-----------------------------------------------------------------------------
(* What an operator is told                                                *)

VerdictOf(c) == Verdict(PolicyAt(call[c].on), call[c].who, call[c].who.headers, os)

\* What the policy made of a call stays what it makes of that caller; an exchange may
\* still refuse or fail one that it let through.
Judged ==
  /\ DOMAIN call = Calls
  /\ \A c \in Calls :
       /\ "st" \in DOMAIN call[c]
       /\ call[c].st \notin {"idle", "denied"} =>
            /\ {"who", "on"} \subseteq DOMAIN call[c]
            /\ call[c].on \in Surfaces /\ VerifiedAs(os, call[c].who) # "nobody"
            /\ phase \notin {"boot", "refused"}
       /\ call[c].st = "settling" => VerdictOf(c) = "settling"
       /\ call[c].st \in {"ready", "running", "reached"} => VerdictOf(c) \in {"ready", "settling"}
       /\ call[c].st = "refused" => VerdictOf(c) \in {"refused", "settling"}
       /\ call[c].st = "unsettled" => VerdictOf(c) \in {"unsettled", "settling"}

LEMMA JudgedInit == Init => Judged
BY DEF Init, Judged, NoCall

LEMMA JudgedStep == Carried' /\ Judged /\ [Next]_vars => Judged'
<1> SUFFICES ASSUME Carried', Judged, [Next]_vars PROVE Judged'
  OBVIOUS
<1> USE DEF Judged
<1>1. ASSUME UNCHANGED <<config, requests>>, phase \notin {"boot", "refused"} => phase' \notin {"boot", "refused"}
      PROVE  Judged'
  BY <1>1 DEF VerdictOf, PolicyAt
<1>2. ASSUME NEW c \in Calls, CallStep(c) PROVE Judged'
  <2>0. UNCHANGED <<config, phase, attaches>>
    BY <1>2, CallsChangeNoAttach
  <2> USE DEF VerdictOf, PolicyAt
  <2>1. CASE Told(c)
    BY <2>1, <2>0 DEF Told
  <2>2. CASE Settles(c)
    BY <2>2, <2>0 DEF Settles
  <2>3. CASE Sends(c)
    BY <2>3, <2>0 DEF Sends
  <2>4. CASE Answers(c)
    BY <2>4, <2>0 DEF Answers
  <2>5. CASE Ends(c)
    BY <2>5, <2>0 DEF Ends, NoCall
  <2>6. ASSUME NEW k \in Callers, NEW s \in Surfaces, Denied(c, k, s) PROVE Judged'
    BY <2>6, <2>0 DEF Denied
  <2>7. ASSUME NEW k \in Callers, NEW s \in Surfaces, Presents(c, k, s) PROVE Judged'
    <3>1. Verdict(PolicyOf(reg[s]), k, k.headers, os) \in {"ready", "refused", "fault", "settling", "unsettled"}
      BY DEF Verdict
    <3>2. Verdict(PolicyOf(reg[s]), k, k.headers, os) # "fault"
      BY <2>7 DEF Presents, Carried
    <3>3. QED
      BY <2>7, <2>0, <3>1, <3>2 DEF Presents
  <2>8. QED
    BY <1>2, <2>1, <2>2, <2>3, <2>4, <2>5, <2>6, <2>7 DEF CallStep
<1>3. CASE Refuse \/ Boot
  BY <1>3 DEF Refuse, Boot, VerdictOf, PolicyAt
<1>4. CASE Raises \/ Serves \/ Stop \/ Down
  BY <1>4, <1>1 DEF Raises, Serves, Stop, Down
<1>5. ASSUME NEW s \in Surfaces, AttachStep(s) PROVE Judged'
  BY <1>5, <1>1, AttachesChangeNoCall
<1>6. CASE UNCHANGED vars
  BY <1>6, <1>1 DEF vars
<1>7. QED
  BY StepKinds, <1>2, <1>3, <1>4, <1>5, <1>6

\* registry-lint and check_registry agree, but for a claim that is blank and a map that is
\* not there.
LEMMA LintAgrees ==
  ASSUME Checked
  PROVE  LintPredictsBoot
<1>1. \/ CheckRegistry(reg, os) \/ ~LintAccepts(reg, os) \/ os.mode = "unset"
      \/ os.claim = "blank" /\ \E s \in DOMAIN reg : RoleGated(reg[s])
  BY ClaimAssumption
     DEF Checked, CheckRegistry, HasClaim, LintAccepts, Preflight, AuthMode, GatesOnCaller, RoleGated
<1>2. CheckRegistry(reg, os) /\ ~LintAccepts(reg, os) =>
        os.secrets = None /\ \E s \in DOMAIN reg : reg[s].identity.mode = "lookup"
  BY DEF CheckRegistry, HasClaim, LintAccepts, Preflight, AuthMode, GatesOnCaller, RoleGated
<1>3. DOMAIN reg = Surfaces
  BY RegistriesAssumption DEF Checked
<1>4. QED
  BY <1>1, <1>2, <1>3 DEF Checked, LintPredictsBoot

\* Only client reads the headers of a request, and without them it has no material.
LEMMA VerdictWithoutHeaders ==
  ASSUME Checked, phase \notin {"boot", "refused"}, NEW s \in Surfaces, NEW k
  PROVE  LET p == PolicyAt(s) IN
         /\ p.mode # "client" => Verdict(p, k, {}, os) = Verdict(p, k, k.headers, os)
         /\ p.mode = "client" /\ Verdict(p, k, k.headers, os) \in {"refused", "unsettled"} =>
              Verdict(p, k, {}, os) = "refused"
         /\ Verdict(p, k, k.headers, os) = "settling" => p.mode = "exchange"
         /\ Verdict(p, k, k.headers, os) = "ready" => p.mode # "exchange"
<1> DEFINE p == PolicyAt(s)
<1>1. p.mode # "client" => Materials(p, k, {}, os) = Materials(p, k, k.headers, os)
  BY DEF Materials
<1>2. p.mode # "client" => Verdict(p, k, {}, os) = Verdict(p, k, k.headers, os)
  BY <1>1 DEF Verdict
<1>3. p.mode = "client" => Materials(p, k, {}, os) = None
  <2>1. p.mode = "client" => DOMAIN p.map # {}
    BY CheckedSurface
  <2>2. QED
    BY <2>1 DEF Materials
<1>4. p.mode = "client" => Materialises(p)
  BY CheckedSurface DEF Materialises
<1>5. p.mode = "client" /\ Verdict(p, k, k.headers, os) \in {"refused", "unsettled"} =>
        Verdict(p, k, {}, os) = "refused"
  BY <1>3, <1>4 DEF Verdict
<1>6. /\ Verdict(p, k, k.headers, os) = "settling" => p.mode = "exchange"
      /\ Verdict(p, k, k.headers, os) = "ready" => p.mode # "exchange"
  BY DEF Verdict, MaterialIsPending, Enabled
<1>7. QED
  BY <1>2, <1>5, <1>6

\* health --deep and the call it stands for meet the same policy.
LEMMA ProbeAgrees ==
  ASSUME Checked, Judged, NEW c \in Calls, call[c].st \in {"reached", "refused", "unsettled"},
         NEW met \in SweepsOfWorking(call[c].on)
  PROVE  ProbePredicts(c, met)
<1> DEFINE s == call[c].on
           k == call[c].who
           p == PolicyAt(s)
           r == HealthRecord(s, k, met)
           asked == p.mode # "none" /\ ProbeOf(reg[s]) # None
<1>1. s \in Surfaces /\ phase \notin {"boot", "refused"} /\ VerifiedAs(os, k) # "nobody"
  BY DEF Judged
<1>2. met.up /\ met.answers /\ met.pins = (s \notin missing) /\ met.said \in {"caller", "other", "unsaid"}
  BY DEF SweepsOfWorking
<1>3. /\ r.attach = "ok" /\ r.probe # "failed"
      /\ r.catalogue = "pinned_missing" <=> s \in missing
      /\ r.user = UserProbe(s, k, met)
  BY <1>2 DEF HealthRecord
<1>4. RedRecord(r) <=> s \in missing \/ UserProbe(s, k, met) \in {"rejected", "refused", "failed", "mismatch"}
  BY <1>3 DEF RedRecord
<1>5. UserProbe(s, k, met) =
        IF p.mode = "none" THEN "not_applicable"
        ELSE IF ProbeOf(reg[s]) = None THEN "skipped"
        ELSE IF Verdict(p, k, {}, os) \notin {"ready", "settling"} THEN "refused"
        ELSE IF Verdict(p, k, {}, os) = "settling" /\ ~met.settled THEN "refused"
        ELSE IF met.said = "other" THEN "mismatch" ELSE "ok"
  BY <1>1, <1>2 DEF UserProbe, PolicyAt, Answered
<1>6. call[c].st = "reached" => Verdict(p, k, k.headers, os) \in {"ready", "settling"}
  BY DEF Judged, VerdictOf
<1>7. call[c].st \in {"refused", "unsettled"} =>
        Verdict(p, k, k.headers, os) \in {"refused", "unsettled", "settling"}
  BY DEF Judged, VerdictOf
<1>8. /\ p.mode # "client" => Verdict(p, k, {}, os) = Verdict(p, k, k.headers, os)
      /\ p.mode = "client" /\ Verdict(p, k, k.headers, os) \in {"refused", "unsettled"} =>
           Verdict(p, k, {}, os) = "refused"
      /\ Verdict(p, k, k.headers, os) = "settling" => p.mode = "exchange"
      /\ Verdict(p, k, k.headers, os) = "ready" => p.mode # "exchange"
  BY <1>1, VerdictWithoutHeaders
<1>9. call[c].st = "reached" /\ p.mode # "client" =>
        (RedRecord(r) <=> \/ s \in missing
                          \/ asked /\ (met.said = "other" \/ (p.mode = "exchange" /\ ~met.settled)))
  BY <1>4, <1>5, <1>6, <1>8
<1>10. call[c].st \in {"refused", "unsettled"} /\ p.mode \notin {"none", "exchange"} =>
         (RedRecord(r) <=> s \in missing \/ asked)
  BY <1>4, <1>5, <1>7, <1>8
<1>11. QED
  BY <1>9, <1>10 DEF ProbePredicts, PolicyAt

\* cli/app.py and health.py: whatever the registry and the environment, what lint and
\* health --deep say before a call is what the gateway then does, but for a blank claim
\* (lint passes it, boot refuses it), a missing identity map and an exchange.
THEOREM OperatorKnows == Spec => []OperatorIsToldTheTruth
<1>1. Checked /\ Judged => OperatorIsToldTheTruth
  BY LintAgrees, ProbeAgrees DEF OperatorIsToldTheTruth
<1>2. QED
  BY OwnedInit, OwnedStep, CheckedInit, CheckedStep, VettedInit, VettedStep, CarriedInit,
     CarriedStep, JudgedInit, JudgedStep, <1>1, PTL DEF Spec

=============================================================================
