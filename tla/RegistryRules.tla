---------------------------- MODULE RegistryRules ---------------------------
(***************************************************************************)
(* What an entry of registry.toml and the environment of the gateway may   *)
(* say, whether a gateway starts on it, and what a request then shows of   *)
(* its caller (registry.py, identity.py, envexpand.py, plugins/, auth.py). *)
(*                                                                         *)
(* A plugin is the record of its PluginSpec that matters here:             *)
(*   backing, modes, target, accepts   where an identity can land          *)
(*   declares, required                credentials it knows, and needs     *)
(*   requires                          entry keys without a tested default *)
(*   pinned, probe                     its tested defaults                 *)
(*   published                         the tools its config selects        *)
(*   document                          the OpenAPI document it serves: its *)
(*     operations, whether all are named, which names would be rewritten,  *)
(*     and whether it is a file, which needs no network                    *)
(*   aware                             its inproc client adds the identity *)
(* An entry says plugin, env, pinned, probe, identity, authz, stateless.   *)
(* A key whose value has the wrong shape is in `malformed', whatever the   *)
(* value is.  A secret is named by its owner: a caller, or Deployment.     *)
(* ExchangeKeys' audience stands for the audience or the resource.         *)
(* An environment os says the auth mode, whether the variable of the roles *)
(* claim is unset, blank or set, whether a map variable, a shared token    *)
(* and OIDC are configured, which variables are set and which secret files *)
(* are there, and what the identity map holds (None: it is not there).     *)
(***************************************************************************)
EXTENDS FiniteSets

CONSTANTS
  None,       \* no plugin, pin list, probe, map, document
  Deployment  \* the owner of the credentials of the registry

Modes == {"bearer", "claims", "client", "lookup", "exchange"}
Targets == {"header", "env", "credential"}
ExchangeKeys == {"token_url", "client_id", "client_secret", "audience"}
MetaTools == {"search_tools", "describe_tool", "run_tool", "context_cost"}
Reserved == {"admin", "healthz", "metrics"}
SubjectClaims == {"sub", "preferred_username", "email"}

-----------------------------------------------------------------------------
(* One entry                                                               *)

\* resolve_pinned: the list of the entry, or the tested one.
PinsOf(e) == IF e.pinned # None THEN e.pinned ELSE IF e.plugin = None THEN {} ELSE e.plugin.pinned

\* resolve_probe: a probe and its arguments come from one place.
ProbeOf(e) == IF e.probe # None THEN e.probe ELSE IF e.plugin = None THEN None ELSE e.plugin.probe

\* A placeholder that names nothing refuses the boot.
Expands(env, os) ==
  \A n \in DOMAIN env :
    \/ env[n].kind = "literal"
    \/ env[n].kind = "file" /\ env[n].of \in os.files
    \/ env[n].kind = "var" /\ env[n].of \in os.vars

\* What a generic plugin publishes bounds what may be pinned or probed.
InsideConfig(e) ==
  e.plugin.published # None =>
    /\ e.pinned # None => e.pinned \subseteq e.plugin.published
    /\ e.probe # None => e.probe \in e.plugin.published

\* check_document: the operations that are published, each under its own name.
Selected(p) == IF p.published = None THEN p.document.operations ELSE p.published
DocumentAccepted(p, pinned) ==
  p.document # None =>
    /\ p.published = None => ~p.document.unnamed
    /\ Selected(p) \subseteq p.document.operations \ p.document.misnamed
    /\ pinned \subseteq Selected(p)

HasDefaults(e) ==
  /\ "pinned" \in e.plugin.requires => e.pinned \notin {None, {}}
  /\ "probe" \in e.plugin.requires => e.probe # None

\* The table [surface.identity].
NeedsOf(mode) ==
  CASE mode = "exchange" -> ExchangeKeys
    [] mode \in {"claims", "client", "lookup"} -> {"map"}
    [] OTHER -> {}
IgnoredBy(mode) ==
  CASE mode = "bearer" -> {"map"} \cup ExchangeKeys
    [] mode = "exchange" -> {"map", "key", "path"}
    [] OTHER -> ExchangeKeys

IdentityAccepted(e, os) ==
  LET i == e.identity p == e.plugin IN
  \/ i.mode = "none" /\ i.keys = {}
  \/ /\ i.mode \in Modes \cap p.modes
     /\ p.backing # "stdio"
     /\ p.target \in Targets
     /\ p.target = "credential" => p.accepts # {}
     /\ i.mode = "exchange" => p.target = "header"
     /\ NeedsOf(i.mode) \subseteq i.keys
     /\ i.keys \cap IgnoredBy(i.mode) = {}
     /\ "map" \in i.keys =>
          /\ DOMAIN i.map # {}
          /\ p.accepts # {} => DOMAIN i.map \subseteq p.accepts
     /\ i.mode = "lookup" => "path" \in i.keys \/ os.mapvar

\* The table [surface.authz].
AuthzAccepted(e) ==
  LET a == e.authz IN
  /\ a.hides # "unsaid" => a.roles # {} \/ a.audience # {} \/ DOMAIN a.tools # {}
  /\ DOMAIN a.tools \cap MetaTools = {}
  /\ \A t \in DOMAIN a.tools : a.tools[t] # {}
  /\ a.exempt # {} => a.confirm
  /\ a.exempt \cap MetaTools = {}

\* validate_entry: everything that the entry alone can show to be wrong.
EntryAccepted(s, e, os) ==
  /\ s \notin Reserved
  /\ e.plugin # None
  /\ e.malformed = {}
  /\ HasDefaults(e)
  /\ e.plugin.document # None /\ e.plugin.document.local => DocumentAccepted(e.plugin, {})
  /\ InsideConfig(e)
  /\ IdentityAccepted(e, os)
  /\ AuthzAccepted(e)
  /\ ~(e.stateless /\ e.authz.confirm)
  /\ DOMAIN e.env \subseteq e.plugin.declares
  /\ e.plugin.required \subseteq DOMAIN e.env

RoleGated(e) == e.authz.roles # {} \/ DOMAIN e.authz.tools # {}
GatesOnCaller(e) == e.identity.mode # "none" \/ RoleGated(e) \/ e.authz.audience # {}

\* preflight and check_registry: refused before anything is attached.
Preflight(reg, os) ==
  \A s \in DOMAIN reg : EntryAccepted(s, reg[s], os) /\ Expands(reg[s].env, os)
AuthMode(os) == IF os.mode = "unset" THEN "shared" ELSE os.mode
\* roles_claim, which strips what it reads.
HasClaim(os) == os.claim = "set"
BootsUnclaimed(reg, os) ==  \* mutant: roles without the claim they are read from
  /\ AuthMode(os) = "shared" => ~\E s \in DOMAIN reg : GatesOnCaller(reg[s])
  /\ Preflight(reg, os)
CheckRegistry(reg, os) ==
  /\ AuthMode(os) = "shared" => ~\E s \in DOMAIN reg : GatesOnCaller(reg[s])
  /\ (\E s \in DOMAIN reg : RoleGated(reg[s])) => HasClaim(os)
  /\ Preflight(reg, os)

\* registry-lint, in the environment of the gateway: what only an OIDC gateway can serve is
\* judged where the mode is said, from the raw variable of the claim; the map of a lookup has
\* to be there.
LintsSurfaceRoles(reg, os) ==  \* mutant: the roles of one tool are forgotten
  \A s \in DOMAIN reg :
    /\ EntryAccepted(s, reg[s], os) /\ Expands(reg[s].env, os)
    /\ GatesOnCaller(reg[s]) =>
         /\ os.mode # "shared"
         /\ reg[s].authz.roles # {} => os.mode = "unset" \/ os.claim # "unset"
         /\ reg[s].identity.mode = "lookup" => os.secrets # None
LintAccepts(reg, os) ==
  \A s \in DOMAIN reg :
    /\ EntryAccepted(s, reg[s], os) /\ Expands(reg[s].env, os)
    /\ GatesOnCaller(reg[s]) =>
         /\ os.mode # "shared"
         /\ RoleGated(reg[s]) => os.mode = "unset" \/ os.claim # "unset"
         /\ reg[s].identity.mode = "lookup" => os.secrets # None

-----------------------------------------------------------------------------
(* Who is calling: a caller k is the record of the token it presents.      *)

\* build_verifier refuses an environment in which nothing could be verified.
VerifierBuilt(os) ==
  /\ AuthMode(os) \in {"shared", "both"} => os.token
  /\ AuthMode(os) \in {"oidc", "both"} => os.oidc

\* verify_token of the composite: the shared secret first, then the signature, the
\* expiry, the issuer and the audience of a JWT, each of which may be its fault.
VerifiedAs(os, k) ==
  IF os.mode # "oidc" /\ k.token = "shared" THEN "shared"
  ELSE IF AuthMode(os) # "shared" /\ k.token = "jwt" /\ k.fault = "none" THEN "user"
  ELSE "nobody"
\* Only the verifier of JWTs says why; a token nobody reads is invalid.
Reason(os, k) == IF AuthMode(os) # "shared" /\ k.token = "jwt" THEN k.fault ELSE "invalid"

Subject(k) == k.claims \cap SubjectClaims # {}

\* The inert policy of a surface.
PolicyOf(e) ==
  [mode |-> e.identity.mode, target |-> e.plugin.target, map |-> e.identity.map,
   key |-> e.identity.key, roles |-> e.authz.roles, audiences |-> e.authz.audience]
Enabled(p) == p.mode # "none" \/ p.roles # {} \/ p.audiences # {}

\* claim_at and check_roles: a claim that is not there, or neither a string nor a list,
\* holds no role.
HoldsAll(k, roles) == k.shape \in {"string", "list"} /\ roles \subseteq k.roles

Gated(p, k, as) ==
  /\ as = "user" /\ Subject(k)
  /\ p.audiences # {} => k.aud \cap p.audiences # {}
  /\ p.roles # {} => HoldsAll(k, p.roles)

\* _material: what goes to the backend, by target key, as the name of its owner; None
\* when it cannot be had.  A health probe has no request, hence no headers.
Materials(p, k, headers, os) ==
  LET Owned(have) ==
        IF \A key \in DOMAIN p.map : p.map[key] \in have
          THEN [key \in DOMAIN p.map |-> k.name] ELSE None
  IN CASE p.mode \in {"bearer", "exchange"} -> [key \in {"authorization"} |-> k.name]
       [] p.mode = "claims" -> Owned(k.claims)
       [] p.mode = "client" -> Owned(headers)
       [] p.mode = "lookup" ->
            IF os.secrets # None /\ p.key \in k.claims /\ k.name \in DOMAIN os.secrets
              THEN Owned(os.secrets[k.name]) ELSE None

\* The modes that the dispatch of the material and of its slot knows.
Materialises(p) == p.mode \in Modes /\ p.target \in Targets
MaterialIsPending(p) == p.mode = "exchange"

=============================================================================
