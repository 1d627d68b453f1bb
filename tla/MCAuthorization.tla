--------------------------- MODULE MCAuthorization ---------------------------
(* A finite instance of the two uses of the authorization broker: an MCP   *)
(* client with codes and access tokens (AccessTokens), and the login of    *)
(* the tissues web application (LoginFlow), which keeps its own cookies.   *)
(* They share no state; one of them is watched in every behaviour.         *)
(*                                                                         *)
(* The deployed scopes: tissues:write brings tissues:read along.  Two      *)
(* tools stand for the two halves of the catalog.  A public client, an     *)
(* agent, names the resource of the MCP endpoint; a confidential one, the  *)
(* web application, names none.  One browser has two tabs; its visitor has *)
(* an entitled account and one that is not.                                *)
EXTENDS AccessTokens, LoginFlow, TLC

CONSTANTS read, write, get_issue, add_comment, agent, app,
          mcp, member, stranger, home, board

MCScopes  == {read, write}
MCImplied == (write :> {read}) @@ (read :> {})
MCTools   == {get_issue, add_comment}
MCScopeOf == (get_issue :> read) @@ (add_comment :> write)
MCWriters == {add_comment}

MCResourceOf == (agent :> mcp) @@ (app :> Unnamed)
MCPublic     == {agent}

MCAccounts == {member, stranger}
MCEntitled == {member}
MCPages    == {home, board}

VARIABLE watched   \* the part that moves: "tokens" or "logins"

AuthorizationInit == TokensInit /\ LoginInit /\ watched \in {"tokens", "logins"}

InTokens == watched = "tokens" /\ TokensNext /\ UNCHANGED <<loginVars, watched>>
InLogins == watched = "logins" /\ LoginNext /\ UNCHANGED <<tokenVars, watched>>

AuthorizationSpec ==
  /\ AuthorizationInit
  /\ [][InTokens \/ InLogins]_<<tokenVars, loginVars, watched>>
  /\ TokensFairness
==============================================================================
