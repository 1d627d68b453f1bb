---------------------------- MODULE AccessTokens ----------------------------
(***************************************************************************)
(* From the browser's consent to a change of a document: an authorization  *)
(* grants scopes with a code (AuthorizeHandler), the exchange of the code  *)
(* signs them into an access token (TokenHandler), and the MCP endpoint of *)
(* Tissues checks the token and the scope of the tool on every call.       *)
(*                                                                         *)
(* Nothing is stored about a token: what it allows is what it carries, and *)
(* it lives on when its code is gone.  Its times are whole seconds.        *)
(***************************************************************************)
EXTENDS CodeStoreTx

CONSTANTS
  Scopes,     \* supportedScopes
  Implied,    \* scope -> the scopes it brings along (ScopeImplications)
  Tools,      \* the names in mcpToolCatalog
  ScopeOf,    \* tool -> the scope its specification asks for
  Writers,    \* the tools whose handlers change documents
  Callers,    \* MCP requests
  TokenLife,  \* TokenTTL, in ticks
  Public,     \* the bindings of public clients
  ResourceOf, \* binding -> the resource it names, or Unnamed
  Resource,   \* the resource of the broker, MCPResourceURL
  Unnamed     \* no resource: ""

(* canonicalScopes grows the map it iterates over, and follows a chain of  *)
(* implications or not as the iteration happens to go; a configuration     *)
(* without chains, like write -> read, leaves nothing to chance.           *)
ASSUME ScopesAssumption ==
  /\ Implied \in [Scopes -> SUBSET Scopes]
  /\ \A s \in Scopes : \A t \in Implied[s] : Implied[t] \subseteq Implied[s]
  /\ ScopeOf \in [Tools -> Scopes] /\ Writers \subseteq Tools

(* Bindings may name any resource; the broker has one.                     *)
ASSUME ResourceAssumption == Resource # Unnamed /\ Public \subseteq Bindings

(* A token lives for at least one second (verified tokens expire after     *)
(* they are issued).                                                       *)
ASSUME TokenLifeAssumption == TokenLife \in Nat /\ Grain <= TokenLife

VARIABLES
  grants,  \* code -> the scopes asked for and granted with it
  tokens,  \* exchange -> the token signed for it
  calls    \* MCP request -> its progress

tokenVars == <<now, codes, drawn, exchanges, txns, grants, tokens, calls>>

NoGrant == [asked |-> {}, scopes |-> {}]
NoToken == [resource |-> Unnamed, scopes |-> {}, issued |-> 0, expires |-> 0]
Unasked == [at |-> "none"]

TokensInit ==
  /\ Init
  /\ grants = [c \in Codes |-> NoGrant]
  /\ tokens = [x \in Exchanges |-> NoToken]
  /\ calls = [m \in Callers |-> Unasked]

------------------------------------------------------------------------------
(* The scopes asked for and what they imply.                               *)
Canonical(asked) == asked \cup UNION {Implied[s] : s \in asked}

(* invalid_target and invalid_scope: a public client must name the         *)
(* resource and a scope; a confidential one may leave either out.          *)
Admitted(b, asked) ==
  /\ ResourceOf[b] = Resource \/ (b \notin Public /\ ResourceOf[b] = Unnamed)
  /\ b \in Public => asked # {}

(* AuthorizeHandler for an entitled user.                                  *)
Authorize(c, b, asked) ==
  /\ Admitted(b, asked)
  /\ SaveCode(c, b)
  /\ grants' = [grants EXCEPT ![c] = [asked |-> asked, scopes |-> Canonical(asked)]]
  /\ UNCHANGED <<tokens, calls>>

(* Mutant: the token is signed with what the client asked for.             *)
ScopesToSignAsAsked(x) == grants[exchanges[x].code].asked

ScopesToSign(x) == grants[exchanges[x].code].scopes

(* TokenHandler after consumeCode, at whatever time that returned.         *)
Mint(x) ==
  /\ exchanges[x].phase = "done" /\ exchanges[x].answer = "token"
  /\ tokens[x] = NoToken
  /\ tokens' = [tokens EXCEPT ![x] =
       [resource |-> ResourceOf[drawn[exchanges[x].code].binding],
        scopes |-> ScopesToSign(x), issued |-> WholeSeconds(now),
        expires |-> WholeSeconds(now + TokenLife)]]
  /\ UNCHANGED <<vars, grants, calls>>

(* Mutant: the resource is not compared.                                   *)
VerifiesAnywhere(token, expected) ==
  token.issued < token.expires /\ Canonical(token.scopes) = token.scopes

(* VerifyAccessToken: the resource where one is expected, the times, and   *)
(* scopes as canonicalScopes gives them.  One issuer signs and verifies.   *)
Verifies(token, expected) ==
  /\ expected # Unnamed => token.resource = expected
  /\ token.issued < token.expires
  /\ Canonical(token.scopes) = token.scopes

(* RequireBearerToken.                                                     *)
Unexpired(token) == now <= token.expires

(* Mutant: authorizeMCPTool is content with any scope.                     *)
AuthorizedByAny(token, tool) == token.scopes # {}

(* authorizeMCPTool.                                                       *)
Authorized(token, tool) == ScopeOf[tool] \in token.scopes

AnswerCall(m, x, tool, since, answer, wrote) ==
  calls' = [calls EXCEPT ![m] = [at |-> "done", by |-> x, tool |-> tool,
              since |-> since, answer |-> answer, wrote |-> wrote]]

(* A request with the token of an exchange passes the bearer check and the *)
(* tool's own check, or is answered.                                       *)
CallTool(m, x, tool) ==
  /\ calls[m] = Unasked /\ tokens[x] # NoToken
  /\ IF ~Verifies(tokens[x], Resource) \/ ~Unexpired(tokens[x])
     THEN AnswerCall(m, x, tool, now, "unauthorized", FALSE)
     ELSE IF ~Authorized(tokens[x], tool)
     THEN AnswerCall(m, x, tool, now, "forbidden", FALSE)
     ELSE calls' = [calls EXCEPT ![m] =
                      [at |-> "running", by |-> x, tool |-> tool, since |-> now]]
  /\ UNCHANGED <<vars, grants, tokens>>

ToolReturns(m, wrote) ==
  /\ calls[m].at = "running"
  /\ AnswerCall(m, calls[m].by, calls[m].tool, calls[m].since, "returned", wrote)
  /\ UNCHANGED <<vars, grants, tokens>>

(* The handler of a reading tool calls the Service once and returns, with  *)
(* a result or an error.                                                   *)
ReadReturns(m) == ToolReturns(m, FALSE) /\ calls[m].tool \notin Writers

(* The same of a writing tool; with an error too a document may have       *)
(* changed.                                                                *)
WriteReturns(m) ==
  /\ \E wrote \in BOOLEAN : ToolReturns(m, wrote)
  /\ calls[m].tool \in Writers

(* The steps of the code store that are not part of an authorization.      *)
StoreStep ==
  /\ \/ \E x \in Exchanges, c \in Codes, b \in Bindings : Present(x, c, b)
     \/ \E x \in Exchanges : ConsumeCode(x)
     \/ \E c \in Codes : Sweep(c)
     \/ Tick
  /\ UNCHANGED <<grants, tokens, calls>>

TokensNext ==
  \/ \E c \in Codes, b \in Bindings, asked \in SUBSET Scopes : Authorize(c, b, asked)
  \/ StoreStep
  \/ \E x \in Exchanges : Mint(x)
  \/ \E m \in Callers, x \in Exchanges, tool \in Tools : CallTool(m, x, tool)
  \/ \E m \in Callers : ReadReturns(m) \/ WriteReturns(m)

(* As in CodeStoreTx.                                                      *)
TokensFairness ==
  \A x \in Exchanges : WF_tokenVars(ConsumeCode(x) /\ UNCHANGED <<grants, tokens, calls>>)

TokensSpec == TokensInit /\ [][TokensNext]_tokenVars /\ TokensFairness

------------------------------------------------------------------------------
(* A token that was handed out verifies at userinfo, which expects no      *)
(* resource, and at the MCP endpoint exactly if the request that exchanged *)
(* the code named its resource.  Signing and verifying compute the scopes  *)
(* from different inputs, and rounding never leaves a token that was dead  *)
(* when issued (VerifyAccessToken, TokenHandler).                          *)
IssuedTokensVerify ==
  \A x \in Exchanges : tokens[x] # NoToken =>
    /\ Verifies(tokens[x], Unnamed)
    /\ Verifies(tokens[x], Resource) <=> ResourceOf[exchanges[x].binding] = Resource

(* A document changes through the MCP endpoint only for a call whose code  *)
(* was authorized for that endpoint and the tool's scope, presented with   *)
(* the right binding while alive, and exchanged no longer than the token's *)
(* life, rounded to the second, before the call.                           *)
WritesWereAuthorized ==
  \A m \in Callers : calls[m].at = "done" /\ calls[m].wrote =>
    LET x == calls[m].by
        c == exchanges[x].code
    IN  /\ HoldsToken(x)
        /\ \E s \in grants[c].asked : ScopeOf[calls[m].tool] \in {s} \cup Implied[s]
        /\ exchanges[x].binding = drawn[c].binding
        /\ ResourceOf[drawn[c].binding] = Resource
        /\ exchanges[x].since <= drawn[c].expires
        /\ calls[m].since <= tokens[x].issued + TokenLife + Grain - 1
==============================================================================
