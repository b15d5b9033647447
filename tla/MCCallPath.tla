------------------------------ MODULE MCCallPath -----------------------------
(* CallPath for TLC: three callers, a pinned tool r that reads and a tool w *)
(* that says nothing, and three surfaces.                                   *)
EXTENDS CallPath, TLC

CONSTANTS r, w

MCTools == {r, w}
MCRoles == {"user", "writer"}
MCCallers ==
  {[name |-> "ann", oidc |-> TRUE, audience |-> TRUE, roles |-> {"user", "writer"}, elicits |-> TRUE],
   [name |-> "bob", oidc |-> TRUE, audience |-> TRUE, roles |-> {"user"}, elicits |-> FALSE],
   [name |-> "any", oidc |-> FALSE, audience |-> FALSE, roles |-> {}, elicits |-> TRUE]}
MCAttached == r :> "reads" @@ w :> "unsaid"

Gated == r :> {} @@ w :> {"writer"}

\* A surface for whoever comes, with tool gates and a limit, where a call may take for
\* ever; one for its users only, whose calls exchange their token and end in time; one
\* that looks its callers up, asks nobody and hides nothing.
MCConfigs ==
  {[mode |-> "none", audience |-> FALSE, roles |-> {}, tools |-> Gated, hide |-> TRUE,
    limited |-> TRUE, confirm |-> TRUE, exempt |-> {}, timeout |-> FALSE],
   [mode |-> "exchange", audience |-> TRUE, roles |-> {"user"}, tools |-> Gated, hide |-> TRUE,
    limited |-> FALSE, confirm |-> TRUE, exempt |-> {r}, timeout |-> TRUE],
   [mode |-> "lookup", audience |-> FALSE, roles |-> {}, tools |-> Gated, hide |-> FALSE,
    limited |-> FALSE, confirm |-> FALSE, exempt |-> {}, timeout |-> TRUE]}

=============================================================================
