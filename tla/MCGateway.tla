------------------------------ MODULE MCGateway -----------------------------
(* Gateway for TLC: a surface that varies beside a plain one, the plugins  *)
(* that the repository ships by backing and two that others may ship, and  *)
(* the shared token, two users and an expired token.                       *)
EXTENDS Gateway, TLC

CONSTANTS varied, plain  \* the names of the two surfaces

MCOrder == <<varied, plain>>

Plugin(backing, modes, accepts, aware) ==
  [backing |-> backing, modes |-> modes, target |-> IF modes = {} THEN "" ELSE Target(backing),
   accepts |-> accepts, declares |-> {"authorization", "token"}, required |-> {},
   requires |-> {}, pinned |-> {"t"}, probe |-> "t", published |-> None,
   document |-> None, aware |-> aware]

MCPHttp == Plugin("http", {"bearer", "claims", "client", "exchange"}, {}, FALSE)
Document == [operations |-> {"t", "u"}, unnamed |-> FALSE, misnamed |-> {"u"}, local |-> FALSE]
OpenApi == [Plugin("inproc", Modes, {}, TRUE) EXCEPT
  !.requires = {"pinned", "probe"}, !.pinned = {}, !.probe = None, !.published = {"t"},
  !.document = Document,
  !.required = {"authorization"}]
Unaware == Plugin("inproc", {"claims", "lookup"}, {}, FALSE)
BeheaxiCli == Plugin("cli", {"claims"}, {}, FALSE)
GCal == Plugin("native", {"lookup"}, {"token"}, FALSE)
McpStdio == Plugin("stdio", {}, {}, FALSE)
BadStdio == Plugin("stdio", {"claims"}, {}, FALSE)

NoIdentity == [mode |-> "none", keys |-> {}, map |-> <<>>, key |-> "sub"]
Identity(mode) ==
  [mode |-> mode, keys |-> NeedsOf(mode) \cup (IF mode = "lookup" THEN {"path"} ELSE {}),
   map |-> CASE mode = "claims" -> "token" :> "email"
             [] mode = "client" -> "token" :> "x-pat"
             [] mode = "lookup" -> "token" :> "refresh_token"
             [] OTHER -> <<>>,
   key |-> "sub"]

Open == [roles |-> {}, audience |-> {}, tools |-> <<>>, hides |-> "unsaid", confirm |-> FALSE,
         exempt |-> {}]
Roles == [Open EXCEPT !.roles = {"staff"}]
Audience == [Open EXCEPT !.audience = {"wiki"}, !.hides = "no"]
ToolGate == [Open EXCEPT !.tools = "t" :> {"staff"}]

Entry(plugin, identity, authz) ==
  [plugin |-> plugin, malformed |-> {}, env |-> "authorization" :> [kind |-> "var", of |-> "TOKEN"],
   pinned |-> {"t"}, probe |-> "t", identity |-> identity, authz |-> authz, stateless |-> FALSE]
Plain == Entry(MCPHttp, NoIdentity, Open)

\* One entry for each mode of each plugin, two gated; and for each refusal one that is refused.
PerUser ==
  {Entry(p, Identity(m), Open) :
     p \in {MCPHttp, OpenApi, Unaware, BeheaxiCli, GCal, BadStdio}, m \in {"claims", "lookup"}}
  \cup {Entry(p, Identity(m), Open) : p \in {MCPHttp, OpenApi}, m \in {"bearer", "exchange"}}
  \cup {Entry(MCPHttp, Identity("client"), Open), Entry(OpenApi, Identity("claims"), Roles)}
Gates == {Entry(McpStdio, NoIdentity, x) : x \in {Roles, Audience, ToolGate}}
Wrong ==
  {[Plain EXCEPT !.plugin = None],
   [Plain EXCEPT !.malformed = {"call_timeout_s"}],
   [Plain EXCEPT !.env = "authorization" :> [kind |-> "file", of |-> "gone"]],
   [Plain EXCEPT !.env = "password" :> [kind |-> "literal"]],
   [Entry(OpenApi, NoIdentity, Open) EXCEPT !.pinned = {"u"}],
   [Entry([OpenApi EXCEPT !.published = {"u"}, !.document.local = TRUE], NoIdentity, Open)
      EXCEPT !.pinned = {"u"}, !.probe = "u"],
   [Entry(OpenApi, NoIdentity, Open) EXCEPT !.probe = None],
   [Plain EXCEPT !.identity = [NoIdentity EXCEPT !.keys = {"path"}]],
   [Plain EXCEPT !.identity = [Identity("bearer") EXCEPT !.keys = {"audience"}]],
   [Entry(GCal, Identity("lookup"), Open) EXCEPT !.identity.map = "other" :> "refresh_token"],
   [Plain EXCEPT !.authz = [Open EXCEPT !.hides = "yes"]],
   [Plain EXCEPT !.authz = [Open EXCEPT !.exempt = {"t"}]],
   [Plain EXCEPT !.authz = [Open EXCEPT !.confirm = TRUE], !.stateless = TRUE]}
Fine ==
  {Plain, Entry(BeheaxiCli, NoIdentity, Open), Entry(GCal, NoIdentity, Open),
   [Plain EXCEPT !.env = "authorization" :> [kind |-> "file", of |-> "mounted"]],
   [Plain EXCEPT !.pinned = None, !.probe = None],
   [Entry(OpenApi, NoIdentity, Open) EXCEPT !.plugin.document.operations = {"u"}],
   [Entry([OpenApi EXCEPT !.published = None, !.document.misnamed = {}], NoIdentity, Open)
      EXCEPT !.pinned = {"gone"}]}

MCRegistries == {(varied :> e @@ plain :> Plain) : e \in PerUser \cup Gates \cup Wrong \cup Fine}

Both == [mode |-> "both", claim |-> "set", mapvar |-> FALSE, token |-> TRUE, oidc |-> TRUE,
         vars |-> {"TOKEN"}, files |-> {"mounted"}, secrets |-> "ann" :> {"refresh_token"}]
MCEnvs ==
  {Both, [Both EXCEPT !.mode = "shared"], [Both EXCEPT !.mode = "unset"], [Both EXCEPT !.mode = "oidc", !.claim = "unset"],
   [Both EXCEPT !.oidc = FALSE], [Both EXCEPT !.secrets = None, !.claim = "blank"]}

Jwt == [token |-> "jwt", fault |-> "none", name |-> "ann", claims |-> {"sub", "email"},
        aud |-> {"wiki"}, shape |-> "list", roles |-> {"staff"}, headers |-> {"x-pat"}]
MCCallers ==
  {Jwt,
   [Jwt EXCEPT !.name = "bob", !.claims = {"sub"}, !.aud = {}, !.shape = "other", !.headers = {}],
   [Jwt EXCEPT !.name = "eve", !.fault = "expired"],
   [Jwt EXCEPT !.name = "any", !.token = "shared", !.claims = {}, !.aud = {}, !.shape = "absent",
               !.roles = {}, !.headers = {}]}

Symmetry == Permutations(Calls)

=============================================================================
