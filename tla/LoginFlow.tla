------------------------------ MODULE LoginFlow ------------------------------
(***************************************************************************)
(* Logging in to the tissues workspace: the relying party (rp.go), the     *)
(* broker it sends the browser to, and the browser, whose tabs share one   *)
(* state cookie and one session cookie.                                    *)
(*                                                                         *)
(* A cookie changes when the response that carries it arrives: a callback  *)
(* reads the state cookie of the request it got and clears whatever state  *)
(* cookie the browser holds when, after two calls to the broker, it        *)
(* answers.  Signatures, hosts and the broker's other checks of a request  *)
(* the relying party itself composed always hold here.                     *)
(***************************************************************************)
EXTENDS Integers, Sequences, FiniteSets

CONSTANTS
  Tabs,         \* the tabs of one browser
  Pages,        \* the pages a visitor may ask for
  Root,         \* the page of a login that names none: "/"
  Accounts,     \* the subjects the identity provider knows
  Entitled,     \* those with an entitlement to the tissues client
  StateLife,    \* lifetime of a state cookie
  CodeLife,     \* lifetime of an authorization code
  SessionLife,  \* lifetime of a session
  MaxLogins,    \* bound on the logins of a run
  MaxReloads,   \* bound on the reloads of a run
  MaxLoginTime, \* bound on the clock
  None          \* no cookie, or no page

ASSUME AccountsAssumption == Entitled \subseteq Accounts
ASSUME PagesAssumption    == Root \in Pages /\ None \notin Pages
ASSUME LoginBoundsAssumption ==
  {StateLife, CodeLife, SessionLife, MaxLogins, MaxReloads, MaxLoginTime} \subseteq Nat

VARIABLES
  clock,
  tabs,     \* tab -> where it is and what its URL carries
  state,    \* the state cookie: nonce, next page, expiry
  session,  \* the session cookie: subject, expiry
  loginCodes, \* the broker's live codes
  logins,   \* nonces drawn so far
  issued,   \* code, in order: the nonce it was issued for, sessions minted with it
  reloads   \* reloads so far

loginVars == <<clock, tabs, state, session, loginCodes, logins, issued, reloads>>

Nonces == 1 .. MaxLogins
Idle   == [at |-> "idle"]

LoginInit ==
  /\ clock = 0
  /\ tabs = [t \in Tabs |-> Idle]
  /\ state = None
  /\ session = None
  /\ loginCodes = {}
  /\ logins = 0
  /\ issued = <<>>
  /\ reloads = 0

Goes(t, where) == tabs' = [tabs EXCEPT ![t] = where]

SessionValid == session # None /\ clock =< session.expires

------------------------------------------------------------------------------
(* The relying party before the broker.                                    *)

(* SessionMiddleware: a page for a valid session, else to the login.       *)
Visit(t, p) ==
  /\ tabs[t].at \in {"idle", "page", "failed"}
  /\ Goes(t, IF SessionValid
             THEN [at |-> "page", page |-> p, asked |-> p]
             ELSE [at |-> "login", asked |-> p])
  /\ UNCHANGED <<clock, state, session, loginCodes, logins, issued, reloads>>

(* The login page opened by itself: no next.                               *)
OpenLogin(t) ==
  /\ tabs[t].at \in {"idle", "page", "failed"}
  /\ Goes(t, [at |-> "login", asked |-> None])
  /\ UNCHANGED <<clock, state, session, loginCodes, logins, issued, reloads>>

(* A missing next, or one that is no path of this host, is the root.       *)
NextOrRoot(asked) == IF asked \in Pages THEN asked ELSE Root

(* A fresh nonce goes to the broker and, with next, into the cookie.       *)
LoginHandler(t) ==
  /\ tabs[t].at = "login"
  /\ logins < MaxLogins
  /\ logins' = logins + 1
  /\ state' = [nonce |-> logins + 1, next |-> NextOrRoot(tabs[t].asked),
               expires |-> clock + StateLife]
  /\ Goes(t, [at |-> "broker", asked |-> tabs[t].asked, nonce |-> logins + 1])
  /\ UNCHANGED <<clock, session, loginCodes, issued, reloads>>

------------------------------------------------------------------------------
(* The broker.                                                             *)

IsEntitled(a) == a \in Entitled

(* The visitor authenticates as some account; the answer goes back by way  *)
(* of the tab.  The code store may fail, and the visitor is left there.    *)
AuthorizeHandler(t, a) ==
  LET code == Len(issued) + 1 IN
  /\ tabs[t].at = "broker"
  /\ \/ /\ IsEntitled(a)
        /\ issued' = Append(issued, [nonce |-> tabs[t].nonce, sessions |-> 0])
        /\ loginCodes' = loginCodes \cup
             {[code |-> code, subject |-> a, expires |-> clock + CodeLife]}
        /\ Goes(t, [at |-> "callback", asked |-> tabs[t].asked,
                    nonce |-> tabs[t].nonce, code |-> code])
     \/ /\ ~IsEntitled(a)
        /\ Goes(t, [at |-> "denied", asked |-> tabs[t].asked, nonce |-> tabs[t].nonce])
        /\ UNCHANGED <<loginCodes, issued>>
     \/ /\ Goes(t, [at |-> "failed"])
        /\ UNCHANGED <<loginCodes, issued>>
  /\ UNCHANGED <<clock, state, session, logins, reloads>>

------------------------------------------------------------------------------
(* The relying party's callback.                                           *)

(* An error is answered before the state is looked at.                     *)
CallbackError(t) ==
  /\ tabs[t].at = "denied"
  /\ state' = None
  /\ Goes(t, [at |-> "failed"])
  /\ UNCHANGED <<clock, session, loginCodes, logins, issued, reloads>>

(* Mutant: the nonce of the URL is not compared.                           *)
StateUncompared(n) == state # None /\ clock =< state.expires

StateMatches(n) ==
  /\ state # None
  /\ state.nonce = n
  /\ clock =< state.expires

Callback(t) ==
  /\ tabs[t].at = "callback"
  /\ \/ /\ StateMatches(tabs[t].nonce)
        /\ Goes(t, [at |-> "exchange", asked |-> tabs[t].asked,
                    nonce |-> tabs[t].nonce, code |-> tabs[t].code,
                    next |-> NextOrRoot(state.next)])
     \/ /\ ~StateMatches(tabs[t].nonce)
        /\ Goes(t, [at |-> "refused", asked |-> tabs[t].asked,
                    nonce |-> tabs[t].nonce, code |-> tabs[t].code])
  /\ UNCHANGED <<clock, state, session, loginCodes, logins, issued, reloads>>

LiveCodes(k) == {c \in loginCodes : c.code = k /\ clock =< c.expires}

(* The answer of a callback that failed after its state was validated.     *)
CallbackFails(t) ==
  /\ state' = None
  /\ Goes(t, [at |-> "refused", asked |-> tabs[t].asked,
              nonce |-> tabs[t].nonce, code |-> tabs[t].code])

(* Mutant: the code is checked and not consumed.                           *)
ExchangeKeepingCode(t) ==
  /\ tabs[t].at = "exchange"
  /\ \E c \in LiveCodes(tabs[t].code) :
       Goes(t, [at |-> "userinfo", asked |-> tabs[t].asked,
                nonce |-> tabs[t].nonce, code |-> tabs[t].code,
                next |-> tabs[t].next, subject |-> c.subject])
  /\ UNCHANGED <<clock, state, session, loginCodes, logins, issued, reloads>>

(* The broker consumes the code once.  Its answer may not arrive.          *)
ExchangeCode(t) ==
  /\ tabs[t].at = "exchange"
  /\ \/ \E c \in LiveCodes(tabs[t].code) :
          /\ loginCodes' = loginCodes \ {c}
          /\ \/ /\ Goes(t, [at |-> "userinfo", asked |-> tabs[t].asked,
                            nonce |-> tabs[t].nonce, code |-> tabs[t].code,
                            next |-> tabs[t].next, subject |-> c.subject])
                /\ UNCHANGED state
             \/ CallbackFails(t)
     \/ CallbackFails(t) /\ UNCHANGED loginCodes
  /\ UNCHANGED <<clock, session, logins, issued, reloads>>

(* Mutant: the state cookie is not cleared.                                *)
FetchKeepingState(t) ==
  /\ tabs[t].at = "userinfo"
  /\ session' = [subject |-> tabs[t].subject, expires |-> clock + SessionLife]
  /\ issued' = [issued EXCEPT ![tabs[t].code].sessions = @ + 1]
  /\ Goes(t, [at |-> "page", page |-> tabs[t].next, asked |-> tabs[t].asked])
  /\ UNCHANGED <<clock, state, loginCodes, logins, reloads>>

(* The token's subject becomes the session's; the tab goes to next.        *)
FetchUserinfo(t) ==
  /\ tabs[t].at = "userinfo"
  /\ \/ /\ state' = None
        /\ session' = [subject |-> tabs[t].subject, expires |-> clock + SessionLife]
        /\ issued' = [issued EXCEPT ![tabs[t].code].sessions = @ + 1]
        /\ Goes(t, [at |-> "page", page |-> tabs[t].next, asked |-> tabs[t].asked])
     \/ CallbackFails(t) /\ UNCHANGED <<session, issued>>
  /\ UNCHANGED <<clock, loginCodes, logins, reloads>>

------------------------------------------------------------------------------
(* The browser.                                                            *)

(* The visitor reloads the URL a tab is at, of the broker or the callback, *)
(* or opens it in another tab: the broker then answers each with a code.   *)
(* A reload drops what the request before it would have answered.          *)
Reopen(t, other) ==
  /\ other = t \/ tabs[other].at \in {"idle", "page", "failed"}
  /\ reloads < MaxReloads
  /\ reloads' = reloads + 1
  /\ \/ tabs[t].at \in {"broker", "denied"} /\ Goes(other, tabs[t])
     \/ /\ tabs[t].at \in {"callback", "exchange", "userinfo", "refused"}
        /\ Goes(other, [at |-> "callback", asked |-> tabs[t].asked,
                        nonce |-> tabs[t].nonce, code |-> tabs[t].code])
  /\ UNCHANGED <<clock, state, session, loginCodes, logins, issued>>

Leave(t) ==
  /\ tabs[t].at \notin {"idle", "page"}
  /\ Goes(t, Idle)
  /\ UNCHANGED <<clock, state, session, loginCodes, logins, issued, reloads>>

(* The session cookie is cleared, and the tab sent to the login page.      *)
LogoutHandler(t) ==
  /\ tabs[t].at = "page"
  /\ session' = None
  /\ Goes(t, [at |-> "login", asked |-> None])
  /\ UNCHANGED <<clock, state, loginCodes, logins, issued, reloads>>

TimePasses ==
  /\ clock < MaxLoginTime
  /\ clock' = clock + 1
  /\ UNCHANGED <<tabs, state, session, loginCodes, logins, issued, reloads>>

LoginNext ==
  \/ \E t \in Tabs, p \in Pages : Visit(t, p)
  \/ \E t \in Tabs, a \in Accounts : AuthorizeHandler(t, a)
  \/ \E t \in Tabs :
       \/ OpenLogin(t)
       \/ LoginHandler(t)
       \/ CallbackError(t)
       \/ Callback(t)
       \/ ExchangeCode(t)
       \/ FetchUserinfo(t)
       \/ Leave(t)
       \/ LogoutHandler(t)
  \/ \E t, other \in Tabs : Reopen(t, other)
  \/ TimePasses

LoginSpec == LoginInit /\ [][LoginNext]_loginVars

------------------------------------------------------------------------------
(* Properties.                                                             *)

(* A login ends on the page it was started for, or on the root: the tabs   *)
(* share one state cookie, and a callback never takes its next from the    *)
(* login of another tab.                                                   *)
LandsWhereItStarted ==
  \A t \in Tabs : tabs[t].at = "page" =>
    tabs[t].page = IF tabs[t].asked = None THEN Root ELSE tabs[t].asked

(* However often a callback is reloaded, and in however many tabs it runs  *)
(* at once, a code of the broker mints at most one session; and once it    *)
(* has, no callback of its login that arrives later passes its check,      *)
(* however many codes the broker has given for the login and whichever     *)
(* tab's cookie an answer cleared.  (Callbacks of different codes that     *)
(* were already waiting for the broker may each mint a session.)           *)
LoginsAreSpent ==
  \A k \in DOMAIN issued :
    /\ issued[k].sessions =< 1
    /\ issued[k].sessions > 0 => ~StateMatches(issued[k].nonce)
=============================================================================
