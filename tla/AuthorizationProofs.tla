------------------------- MODULE AuthorizationProofs -------------------------
(***************************************************************************)
(* Proofs about the two uses of the authorization broker.                  *)
(*                                                                         *)
(* The Firestore authorization-code store, for every set of codes,         *)
(* bindings and requests, every lifetime and any number of aborted         *)
(* attempts: its type, single use, binding, and that each of its steps is  *)
(* a step of the contract of the CodeStore interface or none.              *)
(*                                                                         *)
(* Access tokens, for every catalog of tools, every set of scopes whose    *)
(* implications form no chain, and every number of codes, token requests   *)
(* and calls.  The store's part is the invariant of the code store; a      *)
(* token adds what it carries over from its code.                          *)
(*                                                                         *)
(* Logins of the web application, for any number of tabs, pages, accounts, *)
(* logins and reloads and for any lifetimes.  A tab takes its next page    *)
(* from the state cookie only when the cookie has its nonce, and a nonce   *)
(* is drawn for one page (OnePageEach).  A code moves from the broker to a *)
(* userinfo request, to a session; it is at one of these places at most,   *)
(* and only the last mints (OncePerCode), while the cookie of a login that *)
(* has minted is gone (StatesSpent).  A login may have several codes.      *)
(***************************************************************************)
EXTENDS AccessTokens, LoginFlow, TLAPS

(* The code store.                                                         *)

USE DEF NoCode, IsPending, Contract!IsPending, Contract!NoCode

(* What a stored document is: the code as it was drawn, with an expiry no  *)
(* later than the one it was drawn with.                                   *)
Faithful ==
  \A c \in Codes : codes[c] # NoCode =>
    /\ drawn[c] # Contract!Undrawn
    /\ codes[c].binding = drawn[c].binding
    /\ codes[c].expires <= drawn[c].expires

(* A request presents a drawn code, and came before now.                   *)
Presented ==
  \A x \in Exchanges : exchanges[x] # Contract!Idle =>
    drawn[exchanges[x].code] # Contract!Undrawn /\ exchanges[x].since <= now

(* An attempt that is ready has read a document its request may redeem.    *)
Checked ==
  \A x \in Exchanges : IsReady(x) =>
    /\ txns[x].read.binding = exchanges[x].binding
    /\ exchanges[x].since <= txns[x].read.expires

(* The code of a token is gone, and drawn codes are never stored again.    *)
Spent ==
  \A x \in Exchanges : HoldsToken(x) => codes[exchanges[x].code] = NoCode

IInv == TypeOK /\ Faithful /\ Presented /\ Checked /\ Spent /\ SingleUse /\ TokensAreBound

------------------------------------------------------------------------------
(* Rounding down to a whole second loses less than a second.               *)
LEMMA Rounding ==
  \A t \in Nat :
    /\ WholeSeconds(t) \in Int
    /\ WholeSeconds(t) <= t /\ t - Grain + 1 <= WholeSeconds(t)
BY TimesAssumption DEF WholeSeconds

LEMMA InitHolds == Init => IInv
<1> SUFFICES ASSUME Init PROVE IInv
  OBVIOUS
<1> USE DEF Init, Contract!Init, Contract!Idle, Closed
<1>1. TypeOK
  BY TimesAssumption, AttemptsAssumption DEF TypeOK, Attempts
<1>2. Faithful /\ Presented /\ Checked
  BY DEF Faithful, Presented, Checked, IsReady
<1>3. \A x \in Exchanges : ~HoldsToken(x)
  BY DEF HoldsToken
<1> QED
  BY <1>1, <1>2, <1>3 DEF IInv, Spent, SingleUse, TokensAreBound

(* A step that leaves every document, request and attempt alone but one    *)
(* request x, which it answers with a refusal.                             *)
LEMMA RefusalKeeps ==
  ASSUME IInv, NEW x \in Exchanges, IsPending(x),
         NEW answer \in Contract!Refusals, Answer(x, answer),
         UNCHANGED <<now, codes, drawn>>
  PROVE  IInv'
<1> USE DEF Answer, Contract!Answer, Contract!Idle
<1>0. /\ exchanges \in [Exchanges -> Contract!Calls \cup Contract!Answered \cup {Contract!Idle}]
      /\ txns \in [Exchanges -> Attempts]
      /\ exchanges[x] \in Contract!Calls
  BY DEF IInv, TypeOK, Contract!Calls, Contract!Answered
<1>1. /\ exchanges'[x].phase = "done" /\ exchanges'[x].answer = answer
      /\ exchanges'[x].code = exchanges[x].code
      /\ exchanges'[x].since = exchanges[x].since
      /\ exchanges'[x] \in Contract!Answered
      /\ txns'[x] = Closed(0)
      /\ \A y \in Exchanges : y # x => exchanges'[y] = exchanges[y] /\ txns'[y] = txns[y]
  BY <1>0 DEF Contract!Calls, Contract!Answered
<1>2. Closed(0) \in Attempts
  BY AttemptsAssumption DEF Closed, Attempts
<1>3. TypeOK'
  BY <1>0, <1>1, <1>2 DEF IInv, TypeOK
<1>4. Faithful' /\ Presented' /\ Checked'
  BY <1>0, <1>1 DEF IInv, Faithful, Presented, Checked, IsReady, Closed, Contract!Calls
<1>5. \A y \in Exchanges : HoldsToken(y)' => y # x /\ HoldsToken(y) /\ exchanges'[y] = exchanges[y]
  BY <1>1 DEF HoldsToken, Contract!Refusals
<1>6. Spent' /\ SingleUse' /\ TokensAreBound'
  BY <1>5 DEF IInv, Spent, SingleUse, TokensAreBound
<1> QED
  BY <1>3, <1>4, <1>6 DEF IInv

LEMMA SaveCodeKeeps ==
  ASSUME IInv, NEW c \in Codes, NEW b \in Bindings, SaveCode(c, b)
  PROVE  IInv'
<1> PICK sent \in BOOLEAN :
      drawn' = [drawn EXCEPT ![c] = [binding |-> b, expires |-> now + Lifetime, sent |-> sent]]
  BY DEF SaveCode
<1> DEFINE e == WholeSeconds(now + Lifetime)
<1>1. now \in Nat /\ now <= MaxTime /\ now + Lifetime \in Nat
  BY TimesAssumption DEF IInv, TypeOK
<1>2. e \in Int /\ e <= now + Lifetime /\ now + Lifetime - Grain + 1 <= e
  <2> DEFINE t == now + Lifetime
  <2>1. t \in Nat
    BY <1>1
  <2> HIDE DEF t
  <2>2. WholeSeconds(t) \in Int /\ WholeSeconds(t) <= t /\ t - Grain + 1 <= WholeSeconds(t)
    BY <2>1, Rounding
  <2> QED
    BY <2>2, <1>1, TimesAssumption DEF t
<1>3. e \in 0..(MaxTime + Lifetime) /\ now + Lifetime \in 0..(MaxTime + Lifetime)
  BY <1>1, <1>2, TimesAssumption
<1> HIDE DEF e
<1>4. /\ codes \in [Codes -> Contract!Grants \cup {NoCode}]
      /\ drawn \in [Codes -> Contract!Drawn \cup {Contract!Undrawn}]
      /\ codes' = [codes EXCEPT ![c] = [binding |-> b, expires |-> e]]
      /\ drawn[c] = Contract!Undrawn
      /\ UNCHANGED <<now, exchanges, txns>>
  BY DEF IInv, TypeOK, SaveCode, e
<1>5. TypeOK'
  BY <1>3, <1>4 DEF IInv, TypeOK, Contract!Grants, Contract!Drawn
<1>6. /\ codes'[c].binding = b /\ codes'[c].expires = e
      /\ drawn'[c].binding = b /\ drawn'[c].expires = now + Lifetime
      /\ drawn'[c] # Contract!Undrawn
      /\ \A d \in Codes : d # c => codes'[d] = codes[d] /\ drawn'[d] = drawn[d]
  BY <1>4, BindingsAssumption DEF Contract!Undrawn
<1>7. Faithful'
  BY <1>2, <1>6 DEF IInv, Faithful
<1>8. \A x \in Exchanges : exchanges[x] # Contract!Idle =>
        /\ exchanges[x].code \in Codes /\ exchanges[x].code # c
        /\ drawn'[exchanges[x].code] = drawn[exchanges[x].code]
        /\ codes'[exchanges[x].code] = codes[exchanges[x].code]
  <2> TAKE x \in Exchanges
  <2> HAVE exchanges[x] # Contract!Idle
  <2>1. exchanges[x] \in Contract!Calls \cup Contract!Answered
    BY DEF IInv, TypeOK
  <2>2. exchanges[x].code \in Codes
    BY <2>1 DEF Contract!Calls, Contract!Answered
  <2> QED
    BY <2>2, <1>4, <1>6 DEF IInv, Presented
<1>9. Presented' /\ Checked'
  BY <1>4, <1>8 DEF IInv, Presented, Checked, IsReady
<1>10. Spent' /\ SingleUse' /\ TokensAreBound'
  BY <1>4, <1>8 DEF IInv, Spent, SingleUse, TokensAreBound, HoldsToken, Contract!Idle
<1> QED
  BY <1>5, <1>7, <1>9, <1>10 DEF IInv

LEMMA PresentKeeps ==
  ASSUME IInv, NEW x \in Exchanges, NEW c \in Codes, NEW b \in Bindings, Present(x, c, b)
  PROVE  IInv'
<1> USE DEF Contract!Idle
<1>1. /\ exchanges \in [Exchanges -> Contract!Calls \cup Contract!Answered \cup {Contract!Idle}]
      /\ exchanges[x] = Contract!Idle /\ drawn[c].sent
      /\ exchanges' = [exchanges EXCEPT ![x] =
            [phase |-> "pending", code |-> c, binding |-> b, since |-> now]]
      /\ now \in Nat /\ now <= MaxTime
      /\ UNCHANGED <<now, codes, drawn, txns>>
  BY TimesAssumption DEF IInv, TypeOK, Present, Contract!Present
<1>2. /\ exchanges'[x] = [phase |-> "pending", code |-> c, binding |-> b, since |-> now]
      /\ \A y \in Exchanges : y # x => exchanges'[y] = exchanges[y]
  BY <1>1
<1>3. exchanges'[x] \in Contract!Calls
  BY <1>1, <1>2, TimesAssumption DEF Contract!Calls
<1>4. TypeOK'
  BY <1>1, <1>2, <1>3 DEF IInv, TypeOK
<1>5. Faithful'
  BY <1>1 DEF IInv, Faithful
<1>6. drawn[c] # Contract!Undrawn
  BY <1>1 DEF Contract!Undrawn
<1>7. Presented'
  BY <1>1, <1>2, <1>6 DEF IInv, Presented
<1>8. txns[x] = Closed(0)
  BY <1>1 DEF IInv, TypeOK
<1>9. Checked'
  BY <1>1, <1>2, <1>8 DEF IInv, Checked, IsReady, Closed
<1>10. \A y \in Exchanges : HoldsToken(y)' => y # x /\ HoldsToken(y) /\ exchanges'[y] = exchanges[y]
  BY <1>2 DEF HoldsToken
<1>11. Spent' /\ SingleUse' /\ TokensAreBound'
  BY <1>1, <1>10 DEF IInv, Spent, SingleUse, TokensAreBound
<1> QED
  BY <1>4, <1>5, <1>7, <1>9, <1>11 DEF IInv

(* An attempt opened, reopened or closed without an answer.                *)
LEMMA AttemptKeeps ==
  ASSUME IInv, NEW x \in Exchanges, IsPending(x),
         NEW t \in Attempts, txns' = [txns EXCEPT ![x] = t],
         t.phase = "ready" =>
           /\ t.read.binding = exchanges[x].binding
           /\ exchanges[x].since <= t.read.expires,
         UNCHANGED <<now, codes, drawn, exchanges>>
  PROVE  IInv'
<1>1. /\ txns'[x] = t
      /\ \A y \in Exchanges : y # x => txns'[y] = txns[y]
  BY DEF IInv, TypeOK
<1>2. TypeOK'
  BY <1>1 DEF IInv, TypeOK
<1>3. Checked'
  BY <1>1 DEF IInv, Checked, IsReady
<1>4. Faithful' /\ Presented' /\ Spent' /\ SingleUse' /\ TokensAreBound'
  BY DEF IInv, Faithful, Presented, Spent, SingleUse, TokensAreBound, HoldsToken
<1> QED
  BY <1>2, <1>3, <1>4 DEF IInv

LEMMA RunCallbackKeeps ==
  ASSUME IInv, NEW x \in Exchanges, RunCallback(x)
  PROVE  IInv'
<1> DEFINE code    == codes[exchanges[x].code]
           verdict == Verdict(code, x)
<1>1. /\ IsPending(x) /\ UNCHANGED <<now, codes, drawn>>
      /\ IF verdict = "token"
         THEN txns' = [txns EXCEPT ![x] = Ready(x)] /\ UNCHANGED exchanges
         ELSE Answer(x, verdict)
  BY DEF RunCallback, Reading
<1>2. verdict \in {"missing", "expired", "mismatch", "token"}
  BY DEF Verdict
<1>3. CASE verdict = "token"
  <2>1. /\ code # NoCode /\ ~(now > code.expires) /\ code.binding = exchanges[x].binding
    BY <1>3 DEF Verdict
  <2>2. exchanges[x] \in Contract!Calls /\ exchanges[x] # Contract!Idle
    BY <1>1 DEF IInv, TypeOK, Contract!Answered, Contract!Idle
  <2>3. code \in Contract!Grants /\ exchanges[x].since <= now
    BY <2>1, <2>2 DEF IInv, TypeOK, Presented, Contract!Calls
  <2>4. exchanges[x].since <= code.expires
    <3>1. exchanges[x].since \in Int /\ now \in Int /\ code.expires \in Int
      BY <2>2, <2>3, TimesAssumption DEF IInv, TypeOK, Contract!Calls, Contract!Grants
    <3> QED
      BY <2>1, <2>3, <3>1
  <2>5. Ready(x) \in Attempts
    <3>1. txns[x] \in Attempts
      BY DEF IInv, TypeOK
    <3>2. txns[x].attempts \in 0..(MaxAttempts - 1)
      BY <3>1 DEF Attempts
    <3> QED
      BY <3>2, <2>3 DEF Attempts, Ready
  <2>6. Ready(x).phase = "ready" /\ Ready(x).read = code
    BY DEF Ready
  <2>7. txns' = [txns EXCEPT ![x] = Ready(x)] /\ UNCHANGED <<now, codes, drawn, exchanges>>
    BY <1>1, <1>3
  <2> HIDE DEF code, verdict
  <2> QED
    BY <1>1, <2>1, <2>4, <2>5, <2>6, <2>7, AttemptKeeps
<1>4. CASE verdict # "token"
  <2>1. verdict \in Contract!Refusals /\ Answer(x, verdict)
    BY <1>1, <1>2, <1>4 DEF Contract!Refusals
  <2> HIDE DEF verdict
  <2> QED
    BY <1>1, <2>1, RefusalKeeps
<1> QED
  BY <1>3, <1>4

LEMMA AbortKeeps ==
  ASSUME IInv, NEW x \in Exchanges, Abort(x)
  PROVE  IInv'
<1> DEFINE used == txns[x].attempts + 1
<1>1. /\ IsReady(x) /\ UNCHANGED <<now, codes, drawn>>
      /\ IF used < MaxAttempts
         THEN txns' = [txns EXCEPT ![x] = Closed(used)] /\ UNCHANGED exchanges
         ELSE Answer(x, "failed")
  BY DEF Abort
<1>2. IsPending(x)
  BY <1>1 DEF IInv, TypeOK, IsReady, Closed
<1>3. CASE used < MaxAttempts
  <2>1. txns[x] \in Attempts
    BY DEF IInv, TypeOK
  <2>2. txns[x].attempts \in 0..(MaxAttempts - 1)
    BY <2>1 DEF Attempts
  <2>3. Closed(used) \in Attempts /\ Closed(used).phase # "ready"
    BY <1>3, <2>2, AttemptsAssumption DEF Closed, Attempts
  <2>4. txns' = [txns EXCEPT ![x] = Closed(used)] /\ UNCHANGED <<now, codes, drawn, exchanges>>
    BY <1>1, <1>3
  <2> HIDE DEF used
  <2> QED
    BY <1>2, <2>3, <2>4, AttemptKeeps
<1>4. CASE ~(used < MaxAttempts)
  <2>1. Answer(x, "failed") /\ "failed" \in Contract!Refusals
    BY <1>1, <1>4 DEF Contract!Refusals
  <2> QED
    BY <1>1, <1>2, <2>1, RefusalKeeps
<1> QED
  BY <1>3, <1>4

LEMMA CommitKeeps ==
  ASSUME IInv, NEW x \in Exchanges, Commit(x)
  PROVE  IInv'
<1> DEFINE c == exchanges[x].code
<1> PICK answer \in {"token", "failed"} : Answer(x, answer)
  BY DEF Commit
<1>1. /\ IsReady(x) /\ codes[c] = txns[x].read
      /\ codes' = [codes EXCEPT ![c] = NoCode]
      /\ UNCHANGED <<now, drawn>>
  BY DEF Commit, StillCurrent, Delete
<1>2. /\ exchanges \in [Exchanges -> Contract!Calls \cup Contract!Answered \cup {Contract!Idle}]
      /\ txns \in [Exchanges -> Attempts]
      /\ codes \in [Codes -> Contract!Grants \cup {NoCode}]
      /\ drawn \in [Codes -> Contract!Drawn \cup {Contract!Undrawn}]
  BY DEF IInv, TypeOK
<1>3. IsPending(x)
  BY <1>1 DEF IInv, TypeOK, IsReady, Closed
<1>4. exchanges[x] \in Contract!Calls /\ exchanges[x] # Contract!Idle
  BY <1>2, <1>3 DEF Contract!Answered, Contract!Idle
<1>5. c \in Codes /\ exchanges[x].since \in 0..MaxTime
  BY <1>4 DEF Contract!Calls
<1>6. txns[x] \in Attempts /\ txns[x].phase = "ready"
  BY <1>1, <1>2 DEF IsReady
<1>7. codes[c] \in Contract!Grants /\ codes[c] # NoCode
  BY <1>1, <1>6, BindingsAssumption DEF Attempts, Contract!Grants
<1>8. /\ exchanges'[x].phase = "done" /\ exchanges'[x].answer = answer
      /\ exchanges'[x].code = c
      /\ exchanges'[x].binding = exchanges[x].binding
      /\ exchanges'[x].since = exchanges[x].since
      /\ exchanges'[x] \in Contract!Answered
      /\ txns'[x] = Closed(0)
      /\ \A y \in Exchanges : y # x => exchanges'[y] = exchanges[y] /\ txns'[y] = txns[y]
  <2>1. /\ exchanges'[x] = [phase |-> "done", code |-> c, binding |-> exchanges[x].binding,
                            since |-> exchanges[x].since, answer |-> answer]
        /\ txns'[x] = Closed(0)
        /\ \A y \in Exchanges : y # x => exchanges'[y] = exchanges[y] /\ txns'[y] = txns[y]
    BY <1>2 DEF Answer, Contract!Answer
  <2>2. exchanges[x].binding \in Bindings
    BY <1>4 DEF Contract!Calls
  <2>3. exchanges'[x] \in Contract!Answered
    BY <1>5, <2>1, <2>2 DEF Contract!Answered, Contract!Refusals
  <2> QED
    BY <2>1, <2>3
<1>9. /\ codes'[c] = NoCode
      /\ \A d \in Codes : d # c => codes'[d] = codes[d]
  BY <1>1, <1>2, <1>5
<1>10. \A y \in Exchanges : exchanges[y] # Contract!Idle => exchanges[y].code \in Codes
  BY <1>2 DEF Contract!Calls, Contract!Answered
<1>11. TypeOK'
  <2>1. Closed(0) \in Attempts
    BY AttemptsAssumption DEF Closed, Attempts
  <2>2. txns' = [txns EXCEPT ![x] = Closed(0)]
    BY DEF Answer
  <2>3. \A y \in Exchanges : exchanges'[y] \in
          Contract!Calls \cup Contract!Answered \cup {Contract!Idle}
    BY <1>2, <1>8
  <2>4. exchanges' \in [Exchanges -> Contract!Calls \cup Contract!Answered \cup {Contract!Idle}]
    BY <1>2, <2>3 DEF Answer, Contract!Answer
  <2> QED
    BY <1>1, <1>2, <1>8, <2>1, <2>2, <2>4 DEF IInv, TypeOK
<1> HIDE DEF c
<1>12. Faithful'
  BY <1>1, <1>9 DEF IInv, Faithful
<1>13. Presented'
  BY <1>1, <1>4, <1>8 DEF IInv, Presented, c, Contract!Idle
<1>14. Checked'
  BY <1>8 DEF IInv, Checked, IsReady, Closed
<1>15. \A y \in Exchanges : y # x /\ HoldsToken(y)' => HoldsToken(y)
  BY <1>8 DEF HoldsToken
<1>16. Spent'
  <2>1. \A y \in Exchanges : HoldsToken(y) => exchanges[y].code \in Codes
    BY <1>10 DEF HoldsToken, Contract!Idle
  <2>2. \A y \in Exchanges : HoldsToken(y) => codes'[exchanges[y].code] = NoCode
    BY <1>9, <2>1 DEF IInv, Spent
  <2> QED
    BY <1>8, <1>9, <1>15, <2>2 DEF Spent
<1>17. SingleUse'
  <2>1. \A y \in Exchanges : HoldsToken(y) => exchanges[y].code # c
    BY <1>7 DEF IInv, Spent
  <2> QED
    BY <1>8, <1>15, <2>1 DEF IInv, SingleUse
<1>18. TokensAreBound'
  <2>1. /\ codes[c].binding = exchanges[x].binding
        /\ exchanges[x].since <= codes[c].expires
        /\ codes[c].expires \in Int
    BY <1>1, <1>7 DEF IInv, Checked, Contract!Grants
  <2>2. codes[c].binding = drawn[c].binding /\ codes[c].expires <= drawn[c].expires
    BY <1>5, <1>7 DEF IInv, Faithful
  <2>3. drawn[c].expires \in Int
    BY <1>2, <1>5 DEF Contract!Drawn, Contract!Undrawn
  <2>4. exchanges[x].binding = drawn[c].binding /\ exchanges[x].since <= drawn[c].expires
    BY <1>5, <2>1, <2>2, <2>3
  <2> QED
    BY <1>1, <1>8, <1>15, <2>4 DEF IInv, TokensAreBound
<1> QED
  BY <1>11, <1>12, <1>13, <1>14, <1>16, <1>17, <1>18 DEF IInv

LEMMA SweepKeeps ==
  ASSUME IInv, NEW c \in Codes, Sweep(c)
  PROVE  IInv'
<1>1. /\ codes' = [codes EXCEPT ![c] = NoCode]
      /\ UNCHANGED <<now, drawn, exchanges, txns>>
  BY DEF Sweep, Contract!Sweep
<1>2. /\ codes'[c] = NoCode
      /\ \A d \in Codes : d # c => codes'[d] = codes[d]
  BY <1>1 DEF IInv, TypeOK
<1>3. TypeOK'
  BY <1>1 DEF IInv, TypeOK
<1>4. Faithful' /\ Presented' /\ Checked'
  BY <1>1, <1>2 DEF IInv, Faithful, Presented, Checked, IsReady
<1>5. \A x \in Exchanges : HoldsToken(x) => exchanges[x].code \in Codes
  BY DEF IInv, TypeOK, HoldsToken, Contract!Calls, Contract!Answered, Contract!Idle
<1>6. Spent' /\ SingleUse' /\ TokensAreBound'
  BY <1>1, <1>2, <1>5 DEF IInv, Spent, SingleUse, TokensAreBound, HoldsToken
<1> QED
  BY <1>3, <1>4, <1>6 DEF IInv

LEMMA TickKeeps == IInv /\ Tick => IInv'
<1> SUFFICES ASSUME IInv, Tick PROVE IInv'
  OBVIOUS
<1>1. now \in 0..MaxTime /\ now' = now + 1 /\ now' \in 0..MaxTime
  BY TimesAssumption DEF IInv, TypeOK, Tick, Contract!Tick
<1>2. UNCHANGED <<codes, drawn, exchanges, txns>>
  BY DEF Tick, Contract!Tick
<1>3. TypeOK'
  BY <1>1, <1>2 DEF IInv, TypeOK
<1>4. Presented'
  <2>1. \A x \in Exchanges : exchanges[x] # Contract!Idle => exchanges[x].since \in Int
    BY DEF IInv, TypeOK, Contract!Calls, Contract!Answered
  <2> QED
    BY <1>1, <1>2, <2>1 DEF IInv, Presented
<1>5. Faithful' /\ Checked' /\ Spent' /\ SingleUse' /\ TokensAreBound'
  BY <1>2 DEF IInv, Faithful, Checked, IsReady, Spent, SingleUse, TokensAreBound, HoldsToken
<1> QED
  BY <1>3, <1>4, <1>5 DEF IInv

(* Each step of the store keeps the inductive invariant.                   *)
LEMMA NextKeeps == IInv /\ [Next]_vars => IInv'
<1> SUFFICES ASSUME IInv, [Next]_vars PROVE IInv'
  OBVIOUS
<1>1. CASE \E c \in Codes, b \in Bindings : SaveCode(c, b)
  BY <1>1, SaveCodeKeeps
<1>2. CASE \E x \in Exchanges, c \in Codes, b \in Bindings : Present(x, c, b)
  BY <1>2, PresentKeeps
<1>3. CASE \E x \in Exchanges : RunCallback(x)
  BY <1>3, RunCallbackKeeps
<1>4. CASE \E x \in Exchanges : Commit(x)
  BY <1>4, CommitKeeps
<1>5. CASE \E x \in Exchanges : Abort(x)
  BY <1>5, AbortKeeps
<1>6. CASE \E x \in Exchanges : StoreFails(x)
  <2>1. PICK x \in Exchanges : StoreFails(x)
    BY <1>6
  <2>2. "failed" \in Contract!Refusals
    BY DEF Contract!Refusals
  <2>3. IsPending(x) /\ Answer(x, "failed") /\ UNCHANGED <<now, codes, drawn>>
    BY <2>1 DEF StoreFails
  <2> QED
    BY <2>2, <2>3, RefusalKeeps
<1>7. CASE \E c \in Codes : Sweep(c)
  BY <1>7, SweepKeeps
<1>8. CASE Tick
  BY <1>8, TickKeeps
<1>9. CASE UNCHANGED vars
  BY <1>9 DEF IInv, vars, TypeOK, Faithful, Presented, Checked, IsReady, Spent, SingleUse,
     TokensAreBound, HoldsToken
<1> QED
  BY <1>1, <1>2, <1>3, <1>4, <1>5, <1>6, <1>7, <1>8, <1>9 DEF Next, ConsumeCode

------------------------------------------------------------------------------
THEOREM Inductive == Spec => []IInv
<1>1. Init => IInv
  BY InitHolds
<1>2. IInv /\ [Next]_vars => IInv'
  BY NextKeeps
<1> QED
  BY <1>1, <1>2, PTL DEF Spec

(* However requests interleave, retry and fail, and whatever expires       *)
(* meanwhile, at most one request per code is answered with a token        *)
(* (FirestoreCodeStore.ConsumeCode).                                       *)
THEOREM CodesAreSingleUse == Spec => []SingleUse
<1>1. IInv => SingleUse
  BY DEF IInv
<1> QED
  BY <1>1, Inductive, PTL

(* A token is given only for the binding the code was drawn with, to a     *)
(* request that arrived in its life (validateCodeBinding, consumeCode).    *)
THEOREM TokensKeepTheirBinding == Spec => []TokensAreBound
<1>1. IInv => TokensAreBound
  BY DEF IInv
<1> QED
  BY <1>1, Inductive, PTL

(* The state of the store and of the token requests keeps its type.        *)
THEOREM TypeCorrect == Spec => []TypeOK
<1>1. IInv => TypeOK
  BY DEF IInv
<1> QED
  BY <1>1, Inductive, PTL

------------------------------------------------------------------------------
(* The steps of the store against the contract of the interface.           *)

LEMMA SaveCodeIsIssue ==
  ASSUME IInv, NEW c \in Codes, NEW b \in Bindings, SaveCode(c, b)
  PROVE  Contract!Issue(c, b)
<1> DEFINE stop == WholeSeconds(now + Lifetime)
<1>1. PICK reached \in BOOLEAN :
        drawn' = [drawn EXCEPT ![c] =
                   [binding |-> b, expires |-> now + Lifetime, sent |-> reached]]
  BY DEF SaveCode
<1>2. /\ drawn[c] = Contract!Undrawn
      /\ codes' = [codes EXCEPT ![c] = [binding |-> b, expires |-> stop]]
      /\ UNCHANGED <<now, exchanges>>
  BY DEF SaveCode
<1>3. stop \in (now + Lifetime - Grain + 1)..(now + Lifetime)
  <2> DEFINE t == now + Lifetime
  <2>1. now \in Int /\ t \in Nat
    BY TimesAssumption DEF IInv, TypeOK
  <2> HIDE DEF t
  <2>2. WholeSeconds(t) \in (t - Grain + 1)..t
    BY <2>1, Rounding, TimesAssumption
  <2> QED
    BY <2>1, <2>2, TimesAssumption DEF t
<1> HIDE DEF stop
<1>4. \E f \in (now + Lifetime - Grain + 1)..(now + Lifetime), s \in BOOLEAN :
        /\ codes' = [codes EXCEPT ![c] = [binding |-> b, expires |-> f]]
        /\ drawn' = [drawn EXCEPT ![c] =
                       [binding |-> b, expires |-> now + Lifetime, sent |-> s]]
  <2> WITNESS stop \in (now + Lifetime - Grain + 1)..(now + Lifetime), reached \in BOOLEAN
  <2> QED
    BY <1>1, <1>2
<1> QED
  BY <1>2, <1>4, Zenon DEF Contract!Issue

LEMMA RunCallbackRefuses ==
  ASSUME IInv, NEW x \in Exchanges, RunCallback(x)
  PROVE  Contract!Refuse(x) \/ UNCHANGED <<now, codes, drawn, exchanges>>
<1> DEFINE code == codes[exchanges[x].code]
           verdict == Verdict(code, x)
<1>1. /\ IsPending(x) /\ UNCHANGED <<now, codes, drawn>>
      /\ verdict = "token" => UNCHANGED exchanges
      /\ verdict # "token" => Contract!Answer(x, verdict)
  BY DEF RunCallback, Reading, Answer
<1>2. \/ verdict = "token"
      \/ verdict = "missing" /\ code = NoCode
      \/ verdict = "expired" /\ code # NoCode /\ now > code.expires
      \/ verdict = "mismatch" /\ code # NoCode /\ code.binding # exchanges[x].binding
  BY DEF Verdict
<1> HIDE DEF verdict
<1> QED
  BY <1>1, <1>2 DEF Contract!Refuse

LEMMA CommitRedeems ==
  ASSUME IInv, NEW x \in Exchanges, Commit(x)
  PROVE  Contract!Redeem(x)
<1>1. /\ IsReady(x) /\ codes[exchanges[x].code] = txns[x].read
      /\ codes' = [codes EXCEPT ![exchanges[x].code] = NoCode]
      /\ \E answer \in {"token", "failed"} : Contract!Answer(x, answer)
      /\ UNCHANGED <<now, drawn>>
  BY DEF Commit, StillCurrent, Delete, Answer
<1>2. IsPending(x)
  BY <1>1 DEF IInv, TypeOK, IsReady, Closed
<1>3. txns[x] \in Attempts /\ txns[x].phase = "ready"
  BY <1>1 DEF IInv, TypeOK, IsReady
<1>4. txns[x].read # NoCode
  BY <1>3, BindingsAssumption DEF Attempts, Contract!Grants
<1>5. Contract!Redeemable(x)
  BY <1>1, <1>4 DEF Contract!Redeemable, IInv, Checked
<1> QED
  BY <1>1, <1>2, <1>5 DEF Contract!Redeem

(* Each step of the store is a step of the contract, or changes nothing    *)
(* the contract sees.                                                      *)
LEMMA StepImplements == IInv /\ [Next]_vars => [Contract!Next]_(Contract!vars)
<1> SUFFICES ASSUME IInv, [Next]_vars PROVE [Contract!Next]_(Contract!vars)
  OBVIOUS
<1> USE DEF Contract!Next, Contract!vars
<1>1. CASE \E c \in Codes, b \in Bindings : SaveCode(c, b)
  BY <1>1, SaveCodeIsIssue
<1>2. CASE \E x \in Exchanges, c \in Codes, b \in Bindings : Present(x, c, b)
  BY <1>2 DEF Present
<1>3. CASE \E x \in Exchanges : RunCallback(x)
  BY <1>3, RunCallbackRefuses
<1>4. CASE \E x \in Exchanges : Commit(x)
  BY <1>4, CommitRedeems
<1>5. ASSUME NEW x \in Exchanges, IsPending(x), Answer(x, "failed"), UNCHANGED <<now, codes, drawn>>
      PROVE  Contract!Refuse(x)
  BY <1>5 DEF Contract!Refuse, Answer
<1>6. CASE \E x \in Exchanges : Abort(x)
  <2>1. PICK x \in Exchanges : Abort(x)
    BY <1>6
  <2>2. IsPending(x)
    BY <2>1 DEF Abort, IInv, TypeOK, IsReady, Closed
  <2>3. Answer(x, "failed") \/ UNCHANGED <<now, codes, drawn, exchanges>>
    BY <2>1 DEF Abort
  <2> QED
    BY <1>5, <2>1, <2>2, <2>3 DEF Abort
<1>7. CASE \E x \in Exchanges : StoreFails(x)
  BY <1>5, <1>7 DEF StoreFails
<1>8. CASE \E c \in Codes : Sweep(c)
  BY <1>8 DEF Sweep
<1>9. CASE Tick
  BY <1>9 DEF Tick
<1>10. CASE UNCHANGED vars
  BY <1>10 DEF vars
<1> QED
  BY <1>1, <1>2, <1>3, <1>4, <1>6, <1>7, <1>8, <1>9, <1>10 DEF Next, ConsumeCode

(* The transactional store implements the safety part of the contract of   *)
(* the CodeStore interface: a code is redeemed in one step, by a request   *)
(* that may, or nothing happens to it.                                     *)
THEOREM StoreImplementsContract ==
  Spec => Contract!Init /\ [][Contract!Next]_(Contract!vars)
<1>1. Init => Contract!Init
  BY DEF Init
<1>2. IInv /\ [Next]_vars => [Contract!Next]_(Contract!vars)
  BY StepImplements
<1> QED
  BY <1>1, <1>2, Inductive, PTL DEF Spec

------------------------------------------------------------------------------
(* Access tokens.                                                          *)

TokensType ==
  /\ grants \in [Codes -> [asked : SUBSET Scopes, scopes : SUBSET Scopes]]
  /\ DOMAIN tokens = Exchanges
  /\ \A x \in Exchanges :
       /\ tokens[x].scopes \in SUBSET Scopes
       /\ tokens[x].issued \in Int /\ tokens[x].expires \in Int
  /\ DOMAIN calls = Callers

(* A grant holds what was asked for and what that implies.                 *)
GrantsCanonical == \A c \in Codes : grants[c].scopes = Canonical(grants[c].asked)

(* A token is signed for a request that was given one, for the resource it *)
(* named and with the scopes of its code, and is alive for about TokenLife. *)
TokenCarries(x) ==
  /\ HoldsToken(x)
  /\ tokens[x].resource = ResourceOf[exchanges[x].binding]
  /\ tokens[x].scopes = grants[exchanges[x].code].scopes
  /\ tokens[x].issued < tokens[x].expires
  /\ tokens[x].expires <= tokens[x].issued + TokenLife + Grain - 1

TokensCarry == \A x \in Exchanges : tokens[x] # NoToken => TokenCarries(x)

(* A call that is running, or has changed a document, came with a token    *)
(* for this endpoint that was alive and had the scope of the tool.         *)
Passed(call) ==
  /\ call.by \in Exchanges /\ call.tool \in Tools /\ call.since \in Int
  /\ tokens[call.by] # NoToken
  /\ tokens[call.by].resource = Resource
  /\ ScopeOf[call.tool] \in tokens[call.by].scopes
  /\ call.since <= tokens[call.by].expires

CallsPassed ==
  \A m \in Callers :
    calls[m].at = "running" \/ (calls[m].at = "done" /\ calls[m].wrote) => Passed(calls[m])

TInv == IInv /\ TokensType /\ GrantsCanonical /\ TokensCarry /\ CallsPassed

------------------------------------------------------------------------------
(* What is canonical stays canonical: the implications have no chains.     *)
LEMMA CanonicalTwice ==
  ASSUME NEW asked \in SUBSET Scopes
  PROVE  /\ Canonical(asked) \in SUBSET Scopes
         /\ Canonical(Canonical(asked)) = Canonical(asked)
<1>1. Canonical(asked) \in SUBSET Scopes
  BY ScopesAssumption DEF Canonical
<1>2. \A s \in Canonical(asked) : Implied[s] \subseteq Canonical(asked)
  BY ScopesAssumption DEF Canonical
<1> QED
  BY <1>1, <1>2 DEF Canonical

LEMMA TInitHolds == TokensInit => TInv
<1> SUFFICES ASSUME TokensInit PROVE TInv
  OBVIOUS
<1> USE DEF TokensInit
<1>1. IInv
  BY InitHolds
<1>2. TokensType /\ GrantsCanonical
  BY DEF TokensType, GrantsCanonical, Canonical, NoGrant, NoToken
<1>3. TokensCarry /\ CallsPassed
  BY DEF TokensCarry, CallsPassed, Unasked
<1> QED
  BY <1>1, <1>2, <1>3 DEF TInv

(* The store never touches a request that is answered, nor a code that was *)
(* drawn.                                                                  *)
LEMMA AnsweredStays ==
  ASSUME IInv, Next, NEW x \in Exchanges, HoldsToken(x)
  PROVE  exchanges'[x] = exchanges[x]
<1> USE DEF HoldsToken, IInv, TypeOK
<1>1. ASSUME NEW c \in Codes, NEW b \in Bindings, SaveCode(c, b)
      PROVE  exchanges'[x] = exchanges[x]
  BY <1>1 DEF SaveCode
<1>2. ASSUME NEW y \in Exchanges, NEW c \in Codes, NEW b \in Bindings, Present(y, c, b)
      PROVE  exchanges'[x] = exchanges[x]
  BY <1>2 DEF Present, Contract!Present, Contract!Idle
<1>3. ASSUME NEW y \in Exchanges, IsPending(y), NEW answer, Answer(y, answer)
      PROVE  exchanges'[x] = exchanges[x]
  BY <1>3 DEF IsPending, Contract!IsPending, Answer, Contract!Answer
<1>4. \A y \in Exchanges : IsReady(y) => IsPending(y)
  BY DEF IsReady, Closed
<1>5. ASSUME NEW y \in Exchanges, ConsumeCode(y)
      PROVE  exchanges'[x] = exchanges[x]
  <2>1. CASE RunCallback(y)
    BY <2>1, <1>3 DEF RunCallback, Reading
  <2>2. CASE Commit(y)
    BY <2>2, <1>3, <1>4 DEF Commit
  <2>3. CASE Abort(y)
    BY <2>3, <1>3, <1>4 DEF Abort
  <2>4. CASE StoreFails(y)
    BY <2>4, <1>3 DEF StoreFails
  <2> QED
    BY <1>5, <2>1, <2>2, <2>3, <2>4 DEF ConsumeCode
<1>6. ASSUME NEW c \in Codes, Sweep(c)
      PROVE  exchanges'[x] = exchanges[x]
  BY <1>6 DEF Sweep, Contract!Sweep
<1>7. CASE Tick
  BY <1>7 DEF Tick, Contract!Tick
<1> QED
  BY <1>1, <1>2, <1>5, <1>6, <1>7 DEF Next

(* A step that leaves tokens and calls alone, and the grants of the codes  *)
(* of tokens, keeps what tokens carry and what calls have passed.          *)
LEMMA StoreKeepsTokens ==
  ASSUME TInv, Next, UNCHANGED <<tokens, calls>>,
         \A c \in Codes : drawn[c] # Contract!Undrawn => grants'[c] = grants[c]
  PROVE  TokensCarry' /\ CallsPassed'
<1>1. ASSUME NEW x \in Exchanges, tokens[x] # NoToken
      PROVE  TokenCarries(x)'
  <2>1. TokenCarries(x) /\ HoldsToken(x)
    BY <1>1 DEF TInv, TokensCarry, TokenCarries
  <2>2. exchanges'[x] = exchanges[x]
    BY <2>1, AnsweredStays DEF TInv
  <2>3. exchanges[x].code \in Codes /\ drawn[exchanges[x].code] # Contract!Undrawn
    <3>1. exchanges[x] # Contract!Idle
      BY <2>1 DEF HoldsToken, Contract!Idle
    <3>2. exchanges[x] \in Contract!Calls \cup Contract!Answered
      BY <3>1 DEF TInv, IInv, TypeOK
    <3> QED
      BY <3>1, <3>2 DEF TInv, IInv, Presented, Contract!Calls, Contract!Answered
  <2>4. grants'[exchanges[x].code] = grants[exchanges[x].code]
    BY <2>3
  <2> QED
    BY <2>1, <2>2, <2>4 DEF TokenCarries, HoldsToken
<1>2. TokensCarry'
  BY <1>1 DEF TokensCarry
<1>3. CallsPassed'
  BY DEF TInv, CallsPassed, Passed
<1> QED
  BY <1>2, <1>3

(* Extends one call by m; the others stay as they were.                    *)
LEMMA CallKeeps ==
  ASSUME TInv, NEW m \in Callers, NEW call, UNCHANGED <<vars, grants, tokens>>,
         calls' = [calls EXCEPT ![m] = call],
         call.at = "running" \/ (call.at = "done" /\ call.wrote) => Passed(call)
  PROVE  TInv'
<1>1. IInv'
  BY NextKeeps DEF TInv
<1>2. TokensType' /\ GrantsCanonical'
  BY DEF TInv, TokensType, GrantsCanonical, Canonical
<1>3. TokensCarry'
  BY DEF TInv, TokensCarry, TokenCarries, HoldsToken, vars
<1>4. CallsPassed'
  <2>1. \A n \in Callers : calls'[n] = IF n = m THEN call ELSE calls[n]
    BY DEF TInv, TokensType
  <2>2. \A c : Passed(c)' <=> Passed(c)
    BY DEF Passed
  <2> QED
    BY <2>1, <2>2 DEF TInv, CallsPassed, Passed
<1> QED
  BY <1>1, <1>2, <1>3, <1>4 DEF TInv

------------------------------------------------------------------------------
LEMMA AuthorizeKeeps ==
  ASSUME TInv, NEW c \in Codes, NEW b \in Bindings, NEW asked \in SUBSET Scopes,
         Authorize(c, b, asked)
  PROVE  TInv'
<1>1. Next /\ IInv'
  <2>1. Next
    BY DEF Authorize, Next
  <2> QED
    BY <2>1, NextKeeps DEF TInv
<1>2. \A d \in Codes : grants'[d] = IF d = c
        THEN [asked |-> asked, scopes |-> Canonical(asked)] ELSE grants[d]
  BY DEF Authorize, TInv, TokensType
<1>3. TokensType' /\ GrantsCanonical'
  <2>1. TokensType'
    BY CanonicalTwice DEF Authorize, TInv, TokensType
  <2>2. ASSUME NEW d \in Codes
        PROVE  grants'[d].scopes = Canonical(grants'[d].asked)
    <3>1. CASE d = c
      BY <3>1, <1>2
    <3>2. CASE d # c
      BY <3>2, <1>2 DEF TInv, GrantsCanonical
    <3> QED
      BY <3>1, <3>2
  <2>3. GrantsCanonical'
    BY <2>2 DEF GrantsCanonical, Canonical
  <2> QED
    BY <2>1, <2>3
<1>4. \A d \in Codes : drawn[d] # Contract!Undrawn => grants'[d] = grants[d]
  BY <1>2 DEF Authorize, SaveCode
<1>5. TokensCarry' /\ CallsPassed'
  BY <1>1, <1>4, StoreKeepsTokens DEF Authorize
<1> QED
  BY <1>1, <1>3, <1>5 DEF TInv

LEMMA StoreStepKeeps == TInv /\ StoreStep => TInv'
<1> SUFFICES ASSUME TInv, StoreStep PROVE TInv'
  OBVIOUS
<1>1. Next
  BY DEF StoreStep, Next
<1>2. IInv'
  BY <1>1, NextKeeps DEF TInv
<1>3. TokensType' /\ GrantsCanonical'
  BY DEF StoreStep, TInv, TokensType, GrantsCanonical, Canonical
<1>4. TokensCarry' /\ CallsPassed'
  BY <1>1, StoreKeepsTokens DEF StoreStep
<1> QED
  BY <1>2, <1>3, <1>4 DEF TInv

LEMMA MintKeeps ==
  ASSUME TInv, NEW x \in Exchanges, Mint(x)
  PROVE  TInv'
<1> DEFINE token == [resource |-> ResourceOf[drawn[exchanges[x].code].binding],
                     scopes |-> ScopesToSign(x), issued |-> WholeSeconds(now),
                     expires |-> WholeSeconds(now + TokenLife)]
<1>1. /\ UNCHANGED <<now, codes, drawn, exchanges, txns, grants, calls>>
      /\ tokens' = [tokens EXCEPT ![x] = token]
      /\ HoldsToken(x) /\ tokens[x] = NoToken
  BY DEF Mint, vars, HoldsToken
<1>2. IInv'
  BY <1>1, NextKeeps DEF TInv, vars
<1>3. /\ now \in Nat /\ now + TokenLife \in Nat
      /\ TokenLife \in Nat /\ Grain \in Nat \ {0} /\ Grain <= TokenLife
  BY TokenLifeAssumption, TimesAssumption DEF TInv, IInv, TypeOK
<1>4. /\ WholeSeconds(now) \in Int
      /\ WholeSeconds(now) <= now /\ now - Grain + 1 <= WholeSeconds(now)
  BY <1>3, Rounding
<1>5. /\ WholeSeconds(now + TokenLife) \in Int
      /\ WholeSeconds(now + TokenLife) <= now + TokenLife
      /\ now + TokenLife - Grain + 1 <= WholeSeconds(now + TokenLife)
  BY <1>3, Rounding
<1>6. /\ WholeSeconds(now) < WholeSeconds(now + TokenLife)
      /\ WholeSeconds(now + TokenLife) <= WholeSeconds(now) + TokenLife + Grain - 1
  BY <1>3, <1>4, <1>5
<1>7. exchanges[x].code \in Codes
  BY <1>1 DEF TInv, IInv, TypeOK, HoldsToken, Contract!Calls, Contract!Answered, Contract!Idle
<1>8. token.scopes \in SUBSET Scopes /\ token.issued \in Int /\ token.expires \in Int
  BY <1>4, <1>5, <1>7 DEF TInv, TokensType, ScopesToSign
<1> HIDE DEF token
<1>9. TokensType' /\ GrantsCanonical'
  BY <1>1, <1>8 DEF TInv, TokensType, GrantsCanonical, Canonical
<1>10. /\ token.resource = ResourceOf[exchanges[x].binding]
       /\ token.scopes = grants[exchanges[x].code].scopes
       /\ token.issued < token.expires
       /\ token.expires <= token.issued + TokenLife + Grain - 1
  <2>1. exchanges[x].binding = drawn[exchanges[x].code].binding
    BY <1>1 DEF TInv, IInv, TokensAreBound
  <2> QED
    BY <1>6, <2>1 DEF token, ScopesToSign
<1>11. \A y \in Exchanges : tokens'[y] = IF y = x THEN token ELSE tokens[y]
  BY <1>1 DEF TInv, TokensType
<1>12. TokensCarry'
  BY <1>1, <1>10, <1>11 DEF TInv, TokensCarry, TokenCarries, HoldsToken
<1>13. CallsPassed'
  BY <1>1, <1>11 DEF TInv, CallsPassed, Passed
<1> QED
  BY <1>2, <1>9, <1>12, <1>13 DEF TInv

LEMMA CallToolKeeps ==
  ASSUME TInv, NEW m \in Callers, NEW x \in Exchanges, NEW tool \in Tools,
         CallTool(m, x, tool)
  PROVE  TInv'
<1>1. UNCHANGED <<vars, grants, tokens>> /\ tokens[x] # NoToken
  BY DEF CallTool
<1>2. ASSUME NEW answer, AnswerCall(m, x, tool, now, answer, FALSE)
      PROVE  TInv'
  <2> DEFINE call == [at |-> "done", by |-> x, tool |-> tool,
                      since |-> now, answer |-> answer, wrote |-> FALSE]
  <2>1. calls' = [calls EXCEPT ![m] = call] /\ ~call.wrote /\ call.at = "done"
    BY <1>2 DEF AnswerCall
  <2> HIDE DEF call
  <2> QED
    BY <2>1, <1>1, CallKeeps
<1>3. CASE Unexpired(tokens[x]) /\ Authorized(tokens[x], tool)
          /\ Verifies(tokens[x], Resource)
  <2> DEFINE call == [at |-> "running", by |-> x, tool |-> tool, since |-> now]
  <2>1. calls' = [calls EXCEPT ![m] = call]
    BY <1>3 DEF CallTool
  <2>2. now \in Int
    BY TimesAssumption DEF TInv, IInv, TypeOK
  <2>3. Passed(call)
    BY <1>1, <1>3, <2>2, ResourceAssumption DEF Passed, Unexpired, Authorized, Verifies
  <2> HIDE DEF call
  <2> QED
    BY <2>1, <2>3, <1>1, CallKeeps
<1> QED
  BY <1>2, <1>3 DEF CallTool

LEMMA ToolReturnsKeeps ==
  ASSUME TInv, NEW m \in Callers, NEW wrote \in BOOLEAN, ToolReturns(m, wrote)
  PROVE  TInv'
<1>1. UNCHANGED <<vars, grants, tokens>> /\ Passed(calls[m])
  BY DEF ToolReturns, TInv, CallsPassed
<1> DEFINE call == [at |-> "done", by |-> calls[m].by, tool |-> calls[m].tool,
                    since |-> calls[m].since, answer |-> "returned", wrote |-> wrote]
<1>2. calls' = [calls EXCEPT ![m] = call]
  BY DEF ToolReturns, AnswerCall
<1>3. Passed(call)
  BY <1>1 DEF Passed
<1> HIDE DEF call
<1> QED
  BY <1>1, <1>2, <1>3, CallKeeps

LEMMA TokensNextKeeps == TInv /\ [TokensNext]_tokenVars => TInv'
<1> SUFFICES ASSUME TInv, [TokensNext]_tokenVars PROVE TInv'
  OBVIOUS
<1>1. CASE UNCHANGED tokenVars
  <2>1. IInv'
    BY <1>1, NextKeeps DEF TInv, tokenVars, vars
  <2>2. UNCHANGED <<exchanges, grants, tokens, calls>>
    BY <1>1 DEF tokenVars
  <2> QED
    BY <2>1, <2>2 DEF TInv, TokensType, GrantsCanonical, Canonical, TokensCarry,
                      TokenCarries, HoldsToken, CallsPassed, Passed
<1> QED
  BY <1>1, AuthorizeKeeps, StoreStepKeeps, MintKeeps, CallToolKeeps, ToolReturnsKeeps
  DEF TokensNext, ReadReturns, WriteReturns

LEMMA TokensInductive == TokensSpec => []TInv
BY TInitHolds, TokensNextKeeps, PTL DEF TokensSpec

------------------------------------------------------------------------------
(* A token that was handed out passes VerifyAccessToken at userinfo, and   *)
(* at the MCP endpoint exactly if its request named that resource,         *)
(* whatever scopes were asked for and whenever it was signed.              *)
THEOREM TokensVerify == TokensSpec => []IssuedTokensVerify
<1>1. TInv => IssuedTokensVerify
  <2> SUFFICES ASSUME TInv, NEW x \in Exchanges, tokens[x] # NoToken
      PROVE  /\ Verifies(tokens[x], Unnamed)
             /\ Verifies(tokens[x], Resource) <=> ResourceOf[exchanges[x].binding] = Resource
    BY DEF IssuedTokensVerify
  <2>1. TokenCarries(x)
    BY DEF TInv, TokensCarry
  <2>2. exchanges[x].code \in Codes
    BY <2>1 DEF TokenCarries, TInv, IInv, TypeOK, HoldsToken, Contract!Calls,
                Contract!Answered, Contract!Idle
  <2>3. PICK asked \in SUBSET Scopes : tokens[x].scopes = Canonical(asked)
    BY <2>1, <2>2 DEF TokenCarries, TInv, TokensType, GrantsCanonical
  <2> QED
    BY <2>1, <2>3, CanonicalTwice, ResourceAssumption DEF TokenCarries, Verifies
<1> QED
  BY <1>1, TokensInductive, PTL

(* A document changes through the MCP endpoint only for a call whose code  *)
(* was authorized for that endpoint and the tool's scope, exchanged with   *)
(* the right binding while alive, for a token alive when the call came.    *)
THEOREM WritesTraceBack == TokensSpec => []WritesWereAuthorized
<1>1. TInv => WritesWereAuthorized
  <2> SUFFICES ASSUME TInv, NEW m \in Callers, calls[m].at = "done", calls[m].wrote
      PROVE  LET x == calls[m].by
                 c == exchanges[x].code
             IN  /\ HoldsToken(x)
                 /\ \E s \in grants[c].asked : ScopeOf[calls[m].tool] \in {s} \cup Implied[s]
                 /\ exchanges[x].binding = drawn[c].binding
                 /\ ResourceOf[drawn[c].binding] = Resource
                 /\ exchanges[x].since <= drawn[c].expires
                 /\ calls[m].since <= tokens[x].issued + TokenLife + Grain - 1
    BY DEF WritesWereAuthorized
  <2> DEFINE x == calls[m].by
             c == exchanges[x].code
  <2>1. Passed(calls[m]) /\ x \in Exchanges
    BY DEF TInv, CallsPassed, Passed
  <2>2. TokenCarries(x)
    BY <2>1 DEF TInv, TokensCarry, Passed
  <2>3. c \in Codes
    BY <2>1, <2>2 DEF TokenCarries, TInv, IInv, TypeOK, HoldsToken, Contract!Calls,
                      Contract!Answered, Contract!Idle
  <2>4. ScopeOf[calls[m].tool] \in Canonical(grants[c].asked)
    BY <2>1, <2>2, <2>3 DEF Passed, TokenCarries, TInv, GrantsCanonical
  <2>5. \E s \in grants[c].asked : ScopeOf[calls[m].tool] \in {s} \cup Implied[s]
    BY <2>4 DEF Canonical
  <2>6. exchanges[x].binding = drawn[c].binding /\ exchanges[x].since <= drawn[c].expires
    BY <2>1, <2>2 DEF TokenCarries, TInv, IInv, TokensAreBound
  <2>7. calls[m].since <= tokens[x].issued + TokenLife + Grain - 1
    <3>1. /\ calls[m].since \in Int /\ tokens[x].issued \in Int /\ tokens[x].expires \in Int
          /\ TokenLife \in Int /\ Grain \in Int
      BY <2>1, TokenLifeAssumption, TimesAssumption DEF Passed, TInv, TokensType
    <3> QED
      BY <2>1, <2>2, <3>1 DEF Passed, TokenCarries
  <2>8. HoldsToken(x) /\ ResourceOf[drawn[c].binding] = Resource
    BY <2>1, <2>2, <2>6 DEF TokenCarries, Passed
  <2> QED
    BY <2>5, <2>6, <2>7, <2>8
<1> QED
  BY <1>1, TokensInductive, PTL

------------------------------------------------------------------------------
(* Logins.                                                                 *)

Targets == Pages \cup {None}
Landings == Pages \cup {Root}

TabStates ==
  [at: {"idle", "failed"}]
  \cup [at: {"page"}, page: Landings, asked: Targets]
  \cup [at: {"login"}, asked: Targets]
  \cup [at: {"broker", "denied"}, asked: Targets, nonce: Nonces]
  \cup [at: {"callback", "refused"}, asked: Targets, nonce: Nonces, code: Nat]
  \cup [at: {"exchange"}, asked: Targets, nonce: Nonces, code: Nat, next: Landings]
  \cup [at: {"userinfo"}, asked: Targets, nonce: Nonces, code: Nat, next: Landings,
        subject: Accounts]

Issues == [nonce: Nonces, sessions: Nat]

LoginTyped ==
  /\ tabs \in [Tabs -> TabStates]
  /\ state # None => state.nonce \in Nonces /\ state.next \in Landings
  /\ \A c \in loginCodes : c.subject \in Accounts
  /\ logins \in 0..MaxLogins
  /\ issued \in Seq(Issues)

(* A tab whose URL carries the nonce of a login, and one that has a code.  *)
Carries(tab, n) ==
  /\ tab.at \in {"broker", "callback", "denied", "refused", "exchange", "userinfo"}
  /\ tab.nonce = n

HasCode(tab) == tab.at \in {"callback", "refused", "exchange", "userinfo"}

(* Where a login that was started for a page ends.                         *)
Landing(asked) == IF asked = None THEN Root ELSE asked

(* The tabs and the cookie of one login agree on the page it is for.       *)
OnePageEach ==
  /\ \A t, u \in Tabs, n \in Nonces :
       Carries(tabs[t], n) /\ Carries(tabs[u], n) => tabs[t].asked = tabs[u].asked
  /\ \A t \in Tabs, n \in Nonces :
       Carries(tabs[t], n) /\ state # None /\ state.nonce = n =>
         state.next = Landing(tabs[t].asked)
  /\ \A t \in Tabs : tabs[t].at \in {"exchange", "userinfo"} =>
       tabs[t].next = Landing(tabs[t].asked)
  /\ LandsWhereItStarted

(* Nonces and codes that have not been drawn are nowhere.                  *)
DrawnOnly ==
  /\ \A t \in Tabs, n \in Nonces : Carries(tabs[t], n) => n <= logins
  /\ \A t \in Tabs : HasCode(tabs[t]) => tabs[t].code \in DOMAIN issued
  /\ state # None => state.nonce <= logins
  /\ \A c \in loginCodes : c.code \in DOMAIN issued
  /\ \A k \in DOMAIN issued : issued[k].nonce <= logins

(* The places a code can be before it mints a session.                     *)
AtUserinfo(k) == {t \in Tabs : tabs[t].at = "userinfo" /\ tabs[t].code = k}
CodesOf(k) == {c \in loginCodes : c.code = k}

AtMostOne(S) == \A x, y \in S : x = y

OncePerCode ==
  \A k \in DOMAIN issued :
    /\ AtMostOne(CodesOf(k)) /\ AtMostOne(AtUserinfo(k))
    /\ CodesOf(k) # {} => AtUserinfo(k) = {} /\ issued[k].sessions = 0
    /\ AtUserinfo(k) # {} => issued[k].sessions = 0
    /\ issued[k].sessions <= 1

(* The cookie of a login that has led to a session is gone for good:       *)
(* whichever cookie an answer clears, it leaves none behind, and new ones  *)
(* have new nonces.                                                        *)
StatesSpent ==
  \A k \in DOMAIN issued :
    issued[k].sessions > 0 => state = None \/ state.nonce # issued[k].nonce

LoginInv == LoginTyped /\ DrawnOnly /\ OnePageEach /\ OncePerCode /\ StatesSpent

------------------------------------------------------------------------------
LEMMA LoginInitInv ==
  ASSUME LoginInit
  PROVE  LoginInv
<1>1. LoginTyped
  BY LoginBoundsAssumption DEF LoginInit, LoginTyped, Idle, TabStates, Issues
<1>2. /\ \A t \in Tabs : tabs[t].at = "idle"
      /\ state = None /\ loginCodes = {} /\ issued = <<>> /\ DOMAIN issued = {}
  BY DEF LoginInit, Idle
<1> QED BY <1>1, <1>2 DEF LoginInv, DrawnOnly, OnePageEach, OncePerCode, StatesSpent,
       Carries, HasCode, LandsWhereItStarted

------------------------------------------------------------------------------
(* Codes that are at fewer places than before are still at one at most.    *)
LEMMA FewerPlaces ==
  ASSUME OncePerCode, UNCHANGED issued,
         \A k \in DOMAIN issued :
           CodesOf(k)' \subseteq CodesOf(k) /\ AtUserinfo(k)' \subseteq AtUserinfo(k)
  PROVE  OncePerCode'
BY DEF OncePerCode, AtMostOne

(* A tab goes somewhere: to a page it was asked for, or on with a login    *)
(* that it or another tab carries.  The state cookie may go away.          *)
LEMMA TabKeeps ==
  ASSUME LoginInv, NEW t \in Tabs, NEW where \in TabStates, Goes(t, where),
         state' \in {state, None}, UNCHANGED logins,
         issued' \in Seq(Issues), DOMAIN issued \subseteq DOMAIN issued',
         \A k \in DOMAIN issued' : issued'[k].nonce <= logins,
         \A c \in loginCodes' : c.code \in DOMAIN issued' /\ c.subject \in Accounts,
         \A n \in Nonces : Carries(where, n) =>
           \E u \in Tabs : Carries(tabs[u], n) /\ tabs[u].asked = where.asked,
         HasCode(where) => where.code \in DOMAIN issued',
         where.at \in {"exchange", "userinfo"} => where.next = Landing(where.asked),
         where.at = "page" => where.page = Landing(where.asked)
  PROVE  /\ tabs'[t] = where /\ \A u \in Tabs \ {t} : tabs'[u] = tabs[u]
         /\ LoginTyped' /\ DrawnOnly' /\ OnePageEach'
<1>0. tabs \in [Tabs -> TabStates]
  BY DEF LoginInv, LoginTyped
<1>1. /\ tabs' \in [Tabs -> TabStates] /\ tabs'[t] = where
      /\ \A u \in Tabs \ {t} : tabs'[u] = tabs[u]
  BY <1>0 DEF Goes
<1>2. LoginTyped'
  BY <1>1 DEF LoginInv, LoginTyped
<1>3. \A u \in Tabs, n \in Nonces : Carries(tabs'[u], n) =>
        \E v \in Tabs : Carries(tabs[v], n) /\ tabs[v].asked = tabs'[u].asked
  BY <1>1
<1>4. DrawnOnly'
  <2>1. \A u \in Tabs : HasCode(tabs'[u]) => tabs'[u].code \in DOMAIN issued'
    BY <1>1 DEF LoginInv, DrawnOnly
  <2> QED BY <1>3, <2>1 DEF LoginInv, DrawnOnly
<1>5. OnePageEach'
  <2>1. \A u, v \in Tabs, n \in Nonces :
          Carries(tabs'[u], n) /\ Carries(tabs'[v], n) => tabs'[u].asked = tabs'[v].asked
    BY <1>3 DEF LoginInv, OnePageEach
  <2>2. \A u \in Tabs, n \in Nonces :
          Carries(tabs'[u], n) /\ state' # None /\ state'.nonce = n =>
            state'.next = Landing(tabs'[u].asked)
    BY <1>3 DEF LoginInv, OnePageEach
  <2>3. \A u \in Tabs : tabs'[u].at \in {"exchange", "userinfo"} =>
          tabs'[u].next = Landing(tabs'[u].asked)
    BY <1>1 DEF LoginInv, OnePageEach
  <2>4. LandsWhereItStarted'
    BY <1>1 DEF LoginInv, OnePageEach, LandsWhereItStarted, Landing
  <2> QED BY <2>1, <2>2, <2>3, <2>4 DEF OnePageEach
<1> QED BY <1>1, <1>2, <1>4, <1>5

(* The same without the tab becoming a code's place, while codes may go    *)
(* away: they are at fewer places.                                         *)
LEMMA TabMoves ==
  ASSUME LoginInv, NEW t \in Tabs, NEW where \in TabStates, Goes(t, where),
         state' \in {state, None}, loginCodes' \subseteq loginCodes, UNCHANGED <<logins, issued>>,
         where.at # "userinfo",
         \A n \in Nonces : Carries(where, n) =>
           \E u \in Tabs : Carries(tabs[u], n) /\ tabs[u].asked = where.asked,
         HasCode(where) => where.code \in DOMAIN issued,
         where.at = "exchange" => where.next = Landing(where.asked),
         where.at = "page" => where.page = Landing(where.asked)
  PROVE  LoginInv'
<1>1. /\ \A c \in loginCodes' : c.code \in DOMAIN issued' /\ c.subject \in Accounts
      /\ issued' \in Seq(Issues) /\ DOMAIN issued \subseteq DOMAIN issued'
      /\ \A k \in DOMAIN issued' : issued'[k].nonce <= logins
  BY DEF LoginInv, LoginTyped, DrawnOnly
<1>2. /\ tabs'[t] = where /\ \A u \in Tabs \ {t} : tabs'[u] = tabs[u]
      /\ LoginTyped' /\ DrawnOnly' /\ OnePageEach'
  BY <1>1, TabKeeps
<1>3. \A k \in DOMAIN issued :
        CodesOf(k)' \subseteq CodesOf(k) /\ AtUserinfo(k)' \subseteq AtUserinfo(k)
  BY <1>2 DEF CodesOf, AtUserinfo
<1>4. StatesSpent'
  BY DEF LoginInv, StatesSpent
<1> QED BY <1>2, <1>3, <1>4, FewerPlaces DEF LoginInv

(* What a tab's state holds, by where it is.                               *)
LEMMA TabFields ==
  ASSUME LoginTyped, NEW t \in Tabs
  PROVE  /\ tabs[t] \in TabStates
         /\ tabs[t].at \in {"login", "broker", "callback", "denied", "refused",
                           "exchange", "userinfo"} => tabs[t].asked \in Targets
         /\ tabs[t].at \in {"broker", "callback", "denied", "refused",
                           "exchange", "userinfo"} => tabs[t].nonce \in Nonces
         /\ tabs[t].at \in {"callback", "refused", "exchange", "userinfo"} =>
              tabs[t].code \in Nat
         /\ tabs[t].at \in {"exchange", "userinfo"} => tabs[t].next \in Landings
         /\ tabs[t].at = "userinfo" => tabs[t].subject \in Accounts
BY DEF LoginTyped, TabStates

(* A tab goes back or on with the login and the code of a tab.             *)
LEMMA GoesOn ==
  ASSUME LoginInv, NEW t \in Tabs, NEW u \in Tabs, HasCode(tabs[u]),
         \E at \in {"callback", "refused"} :
           Goes(t, [at |-> at, asked |-> tabs[u].asked, nonce |-> tabs[u].nonce,
                    code |-> tabs[u].code]),
         state' \in {state, None}, loginCodes' \subseteq loginCodes, UNCHANGED <<logins, issued>>
  PROVE  LoginInv'
<1>1. PICK at \in {"callback", "refused"} :
        Goes(t, [at |-> at, asked |-> tabs[u].asked, nonce |-> tabs[u].nonce,
                 code |-> tabs[u].code])
  OBVIOUS
<1> DEFINE where == [at |-> at, asked |-> tabs[u].asked, nonce |-> tabs[u].nonce,
                     code |-> tabs[u].code]
<1>2. /\ tabs[u].asked \in Targets /\ tabs[u].nonce \in Nonces /\ tabs[u].code \in Nat
      /\ tabs[u].code \in DOMAIN issued
  BY TabFields DEF LoginInv, HasCode, DrawnOnly
<1>3. where \in TabStates
  BY <1>2 DEF TabStates
<1>4. /\ where.at = at /\ where.asked = tabs[u].asked /\ where.nonce = tabs[u].nonce
      /\ where.code = tabs[u].code
  OBVIOUS
<1>5. \A n \in Nonces : Carries(where, n) => Carries(tabs[u], n)
  BY <1>4 DEF Carries, HasCode
<1>6. Goes(t, where)
  BY <1>1
<1> HIDE DEF where
<1> QED BY <1>2, <1>3, <1>4, <1>5, <1>6, TabMoves

(* A tab at the broker, or turned down by it, is copied, or is turned down.*)
LEMMA GoesBack ==
  ASSUME LoginInv, NEW t \in Tabs, NEW u \in Tabs, tabs[u].at \in {"broker", "denied"},
         \E at \in {"broker", "denied"} :
           Goes(t, [at |-> at, asked |-> tabs[u].asked, nonce |-> tabs[u].nonce]),
         UNCHANGED <<state, loginCodes, logins, issued>>
  PROVE  LoginInv'
<1>1. PICK at \in {"broker", "denied"} :
        Goes(t, [at |-> at, asked |-> tabs[u].asked, nonce |-> tabs[u].nonce])
  OBVIOUS
<1> DEFINE where == [at |-> at, asked |-> tabs[u].asked, nonce |-> tabs[u].nonce]
<1>2. tabs[u].asked \in Targets /\ tabs[u].nonce \in Nonces
  BY TabFields DEF LoginInv
<1>3. where \in TabStates
  BY <1>2 DEF TabStates
<1>4. where.at = at /\ where.asked = tabs[u].asked /\ where.nonce = tabs[u].nonce
  OBVIOUS
<1>5. (\A n \in Nonces : Carries(where, n) => Carries(tabs[u], n)) /\ ~HasCode(where)
  BY <1>4 DEF Carries, HasCode
<1>6. Goes(t, where)
  BY <1>1
<1> HIDE DEF where
<1> QED BY <1>3, <1>4, <1>5, <1>6, TabMoves

LEMMA GoesAside ==
  ASSUME LoginInv, NEW t \in Tabs, NEW where \in TabStates, Goes(t, where),
         where.at \in {"idle", "failed", "login"},
         state' \in {state, None}, UNCHANGED <<loginCodes, logins, issued>>
  PROVE  LoginInv'
<1>1. (\A n \in Nonces : ~Carries(where, n)) /\ ~HasCode(where)
  BY DEF Carries, HasCode
<1> QED BY <1>1, TabMoves

------------------------------------------------------------------------------
(* The steps that carry a login from one place to the next.                *)

(* A login is drawn.                                                       *)
LEMMA LoginHandlerKeeps ==
  ASSUME LoginInv, NEW t \in Tabs, LoginHandler(t)
  PROVE  LoginInv'
<1> DEFINE n     == logins + 1
           where == [at |-> "broker", asked |-> tabs[t].asked, nonce |-> n]
<1>0. /\ tabs[t].at = "login" /\ logins < MaxLogins /\ logins' = n
      /\ state' = [nonce |-> n, next |-> NextOrRoot(tabs[t].asked),
                   expires |-> clock + StateLife]
      /\ tabs' = [tabs EXCEPT ![t] = where]
      /\ UNCHANGED <<loginCodes, issued>>
  BY DEF LoginHandler, Goes
<1>1. /\ n \in Nonces /\ n \in 0..MaxLogins /\ tabs[t].asked \in Targets
      /\ \A m \in Nonces : m <= logins => m # n /\ m <= n
      /\ tabs \in [Tabs -> TabStates]
  BY <1>0, TabFields, LoginBoundsAssumption DEF LoginInv, LoginTyped, Nonces
<1>2. /\ where \in TabStates /\ where.at = "broker"
      /\ where.asked = tabs[t].asked /\ where.nonce = n
  BY <1>1 DEF TabStates
<1>3. /\ state'.nonce = n /\ state'.next = Landing(tabs[t].asked)
      /\ state'.next \in Landings
  BY <1>0, <1>1, PagesAssumption DEF NextOrRoot, Landing, Landings, Targets
<1> HIDE DEF where, n
<1>4. /\ tabs' \in [Tabs -> TabStates] /\ tabs'[t] = where
      /\ \A u \in Tabs \ {t} : tabs'[u] = tabs[u]
  BY <1>0, <1>1, <1>2
<1>5. /\ \A u \in Tabs : ~Carries(tabs[u], n)
      /\ \A k \in DOMAIN issued : issued[k].nonce \in Nonces /\ issued[k].nonce # n
  <2>1. \A k \in DOMAIN issued : issued[k] \in Issues
    BY DEF LoginInv, LoginTyped
  <2>2. \A k \in DOMAIN issued : issued[k].nonce \in Nonces
    BY <2>1 DEF Issues
  <2> QED BY <1>1, <2>2 DEF LoginInv, DrawnOnly
<1>6. \A u \in Tabs, m \in Nonces : Carries(tabs'[u], m) =>
        (u = t /\ m = n) \/ (u # t /\ m # n /\ Carries(tabs[u], m) /\ tabs'[u] = tabs[u])
  BY <1>2, <1>4, <1>5 DEF Carries
<1>7. LoginTyped'
  BY <1>0, <1>1, <1>3, <1>4 DEF LoginInv, LoginTyped
<1>8. DrawnOnly'
  <2>1. \A u \in Tabs, m \in Nonces : Carries(tabs'[u], m) => m <= logins'
    BY <1>0, <1>1, <1>6 DEF LoginInv, DrawnOnly, n, LoginTyped
  <2>2. \A u \in Tabs : HasCode(tabs'[u]) => tabs'[u].code \in DOMAIN issued'
    BY <1>0, <1>2, <1>4 DEF LoginInv, DrawnOnly, HasCode
  <2>3. \A k \in DOMAIN issued : issued[k].nonce <= logins'
    BY <1>0, <1>1, <1>5 DEF LoginInv, DrawnOnly
  <2>4. state'.nonce <= logins'
    BY <1>0, <1>1, <1>3 DEF n, LoginInv, LoginTyped
  <2> QED BY <1>0, <2>1, <2>2, <2>3, <2>4 DEF DrawnOnly, LoginInv
<1>9. OnePageEach'
  <2>1. \A u, v \in Tabs, m \in Nonces :
          Carries(tabs'[u], m) /\ Carries(tabs'[v], m) => tabs'[u].asked = tabs'[v].asked
    BY <1>6 DEF LoginInv, OnePageEach
  <2>2. \A u \in Tabs, m \in Nonces :
          Carries(tabs'[u], m) /\ state' # None /\ state'.nonce = m =>
            state'.next = Landing(tabs'[u].asked)
    BY <1>2, <1>3, <1>4, <1>6
  <2>3. \A u \in Tabs : tabs'[u].at \in {"exchange", "userinfo"} =>
          tabs'[u].next = Landing(tabs'[u].asked)
    BY <1>2, <1>4 DEF LoginInv, OnePageEach
  <2>4. LandsWhereItStarted'
    BY <1>2, <1>4 DEF LoginInv, OnePageEach, LandsWhereItStarted
  <2> QED BY <2>1, <2>2, <2>3, <2>4 DEF OnePageEach
<1>10. OncePerCode'
  <2>1. \A k \in DOMAIN issued :
          CodesOf(k)' \subseteq CodesOf(k) /\ AtUserinfo(k)' \subseteq AtUserinfo(k)
    BY <1>0, <1>2, <1>4 DEF CodesOf, AtUserinfo
  <2> QED BY <1>0, <2>1, FewerPlaces DEF LoginInv
<1>11. StatesSpent'
  BY <1>0, <1>3, <1>5 DEF StatesSpent
<1> QED BY <1>7, <1>8, <1>9, <1>10, <1>11 DEF LoginInv

(* A code that moves on between its places, alone there as it was, or      *)
(* mints and leaves them.                                                  *)
LEMMA OnePlaceOn ==
  ASSUME OncePerCode, NEW k \in DOMAIN issued', DOMAIN issued' = DOMAIN issued \cup {k},
         \A j \in DOMAIN issued' \ {k} :
           /\ CodesOf(j)' \subseteq CodesOf(j)
           /\ AtUserinfo(j)' \subseteq AtUserinfo(j)
           /\ issued'[j] = issued[j],
         AtMostOne(CodesOf(k)'), AtMostOne(AtUserinfo(k)'),
         CodesOf(k)' # {} => AtUserinfo(k)' = {} /\ issued'[k].sessions = 0,
         AtUserinfo(k)' # {} => issued'[k].sessions = 0,
         issued'[k].sessions <= 1
  PROVE  OncePerCode'
<1> SUFFICES ASSUME NEW j \in DOMAIN issued'
    PROVE  /\ AtMostOne(CodesOf(j)') /\ AtMostOne(AtUserinfo(j)')
           /\ CodesOf(j)' # {} => AtUserinfo(j)' = {} /\ issued'[j].sessions = 0
           /\ AtUserinfo(j)' # {} => issued'[j].sessions = 0
           /\ issued'[j].sessions <= 1
  BY DEF OncePerCode, AtMostOne
<1>1. CASE j = k
  BY <1>1 DEF AtMostOne
<1>2. CASE j # k
  BY <1>2 DEF OncePerCode, AtMostOne
<1> QED BY <1>1, <1>2

(* The broker issues a code, of which there was nothing before.            *)
LEMMA AuthorizeHandlerKeeps ==
  ASSUME LoginInv, NEW t \in Tabs, NEW a \in Accounts, AuthorizeHandler(t, a)
  PROVE  LoginInv'
<1>n. PICK n \in Nonces : n = tabs[t].nonce
  BY TabFields DEF LoginInv, AuthorizeHandler
<1>k. PICK k \in Nat : k = Len(issued) + 1
  BY DEF LoginInv, LoginTyped
<1> DEFINE where == [at |-> "callback", asked |-> tabs[t].asked, nonce |-> n, code |-> k]
           code  == [code |-> k, subject |-> a, expires |-> clock + CodeLife]
           issue == [nonce |-> n, sessions |-> 0]
<1>0. /\ tabs[t].at = "broker" /\ UNCHANGED <<state, logins>>
      /\ tabs[t].asked \in Targets /\ n = tabs[t].nonce
  BY <1>n, TabFields DEF AuthorizeHandler, LoginInv
<1>1. CASE /\ loginCodes' = loginCodes \cup {code} /\ Goes(t, where)
           /\ issued' = Append(issued, issue)
  <2>1. issued \in Seq(Issues) /\ issue \in Issues
    BY DEF LoginInv, LoginTyped, Issues
  <2>2. /\ issued' \in Seq(Issues) /\ DOMAIN issued' = DOMAIN issued \cup {k}
        /\ k \notin DOMAIN issued /\ issued'[k] = issue
        /\ \A j \in DOMAIN issued : issued'[j] = issued[j]
    BY <1>k, <1>1, <2>1
  <2>3. /\ where \in TabStates /\ where.at = "callback"
        /\ where.asked = tabs[t].asked /\ where.nonce = n /\ where.code = k
    BY <1>0 DEF TabStates
  <2>4. code.code = k /\ code.subject = a /\ issue.nonce = n /\ issue.sessions = 0
    OBVIOUS
  <2>5. Carries(tabs[t], n) /\ n <= logins
    BY <1>0 DEF Carries, LoginInv, DrawnOnly
  <2> HIDE DEF where, code, issue
  <2>6. \A m \in Nonces : Carries(where, m) => m = n
    BY <2>3 DEF Carries
  <2>7. /\ \A j \in DOMAIN issued' : issued'[j].nonce <= logins
        /\ \A c \in loginCodes' : c.code \in DOMAIN issued' /\ c.subject \in Accounts
    BY <1>1, <2>2, <2>4, <2>5 DEF LoginInv, LoginTyped, DrawnOnly
  <2>8. /\ tabs'[t] = where /\ \A u \in Tabs \ {t} : tabs'[u] = tabs[u]
        /\ LoginTyped' /\ DrawnOnly' /\ OnePageEach'
    BY <1>0, <1>1, <2>2, <2>3, <2>5, <2>6, <2>7, TabKeeps
  <2>9. \A j \in DOMAIN issued' \ {k} :
          CodesOf(j)' \subseteq CodesOf(j) /\ issued'[j] = issued[j]
    BY <1>1, <2>2, <2>4 DEF CodesOf
  <2>10. \A j \in DOMAIN issued' : AtUserinfo(j)' \subseteq AtUserinfo(j)
    BY <2>3, <2>8 DEF AtUserinfo
  <2>11. CodesOf(k)' = {code} /\ AtUserinfo(k)' = {}
    <3>1. CodesOf(k) = {} /\ AtUserinfo(k) = {}
      BY <2>2 DEF LoginInv, DrawnOnly, CodesOf, AtUserinfo, HasCode
    <3> QED BY <1>1, <2>2, <2>4, <2>10, <3>1 DEF CodesOf
  <2>12. OncePerCode'
    BY <2>2, <2>4, <2>9, <2>10, <2>11, OnePlaceOn DEF LoginInv, AtMostOne
  <2>13. StatesSpent'
    BY <1>0, <2>2, <2>4 DEF LoginInv, StatesSpent
  <2> QED BY <2>8, <2>12, <2>13 DEF LoginInv
<1>2. CASE /\ Goes(t, [at |-> "denied", asked |-> tabs[t].asked, nonce |-> n])
           /\ UNCHANGED <<loginCodes, issued>>
  BY <1>0, <1>2, GoesBack
<1>3. CASE Goes(t, [at |-> "failed"]) /\ UNCHANGED <<loginCodes, issued>>
  <2> DEFINE away == [at |-> "failed"]
  <2>1. away \in TabStates /\ away.at \in {"idle", "failed", "login"} /\ Goes(t, away)
    BY <1>3 DEF TabStates
  <2> HIDE DEF away
  <2>2. state' \in {state, None} /\ UNCHANGED <<loginCodes, logins, issued>>
    BY <1>0, <1>3
  <2> QED BY <2>1, <2>2, GoesAside
<1> QED BY <1>k, <1>n, <1>1, <1>2, <1>3 DEF AuthorizeHandler

(* The callback takes its next from the cookie of its own login.           *)
LEMMA CallbackKeeps ==
  ASSUME LoginInv, NEW t \in Tabs, Callback(t)
  PROVE  LoginInv'
<1>n. PICK n \in Nonces : n = tabs[t].nonce
  BY TabFields DEF LoginInv, Callback
<1> DEFINE where == [at |-> "exchange", asked |-> tabs[t].asked, nonce |-> n,
                     code |-> tabs[t].code, next |-> NextOrRoot(state.next)]
<1>0. /\ tabs[t].at = "callback" /\ UNCHANGED <<state, loginCodes, logins, issued>>
      /\ tabs[t].asked \in Targets /\ n = tabs[t].nonce /\ HasCode(tabs[t])
      /\ tabs[t].code \in Nat /\ tabs[t].code \in DOMAIN issued
  BY <1>n, TabFields DEF Callback, LoginInv, HasCode, DrawnOnly
<1>1. CASE StateMatches(n) /\ Goes(t, where)
  <2>1. Carries(tabs[t], n)
    BY <1>0 DEF Carries
  <2>2. state.next = Landing(tabs[t].asked)
    BY <1>0, <1>1, <2>1 DEF StateMatches, LoginInv, OnePageEach
  <2>3. NextOrRoot(state.next) = Landing(tabs[t].asked) /\ Landing(tabs[t].asked) \in Landings
    BY <1>0, <2>2 DEF NextOrRoot, Landing, Targets, Landings
  <2>4. /\ where \in TabStates /\ where.at = "exchange" /\ where.asked = tabs[t].asked
        /\ where.nonce = n /\ where.next = Landing(where.asked) /\ where.code = tabs[t].code
    BY <1>0, <2>3 DEF TabStates
  <2>5. \A m \in Nonces : Carries(where, m) => m = n
    BY <2>4 DEF Carries
  <2> HIDE DEF where
  <2> QED BY <1>0, <1>1, <2>1, <2>4, <2>5, TabMoves
<1>2. CASE Goes(t, [at |-> "refused", asked |-> tabs[t].asked, nonce |-> tabs[t].nonce,
                    code |-> tabs[t].code])
  BY <1>0, <1>2, GoesOn
<1> QED BY <1>n, <1>1, <1>2 DEF Callback

(* The code is consumed, and its subject asked for.                        *)
LEMMA ExchangeKeeps ==
  ASSUME LoginInv, NEW t \in Tabs, ExchangeCode(t)
  PROVE  LoginInv'
<1>n. PICK n \in Nonces, k \in DOMAIN issued : n = tabs[t].nonce /\ k = tabs[t].code
  BY TabFields DEF LoginInv, ExchangeCode, DrawnOnly, HasCode
<1>0. /\ tabs[t].at = "exchange" /\ UNCHANGED <<logins, issued>> /\ HasCode(tabs[t])
      /\ tabs[t].asked \in Targets /\ n = tabs[t].nonce /\ tabs[t].next \in Landings
      /\ k = tabs[t].code /\ k \in Nat
  BY <1>n, TabFields DEF ExchangeCode, LoginInv, HasCode
<1>1. ASSUME NEW c \in LiveCodes(k), loginCodes' = loginCodes \ {c}, UNCHANGED state,
             Goes(t, [at |-> "userinfo", asked |-> tabs[t].asked, nonce |-> n, code |-> k,
                      next |-> tabs[t].next, subject |-> c.subject])
      PROVE  LoginInv'
  <2> DEFINE where == [at |-> "userinfo", asked |-> tabs[t].asked, nonce |-> n, code |-> k,
                       next |-> tabs[t].next, subject |-> c.subject]
  <2>1. c \in loginCodes /\ c.code = k /\ c.subject \in Accounts
    BY <1>1 DEF LiveCodes, LoginInv, LoginTyped
  <2>2. tabs[t].next = Landing(tabs[t].asked)
    BY <1>0 DEF LoginInv, OnePageEach
  <2>3. /\ where \in TabStates /\ where.at = "userinfo" /\ where.asked = tabs[t].asked
        /\ where.nonce = n /\ where.next = Landing(where.asked) /\ where.code = k
    BY <1>0, <2>1, <2>2 DEF TabStates
  <2>4. Goes(t, where) /\ Carries(tabs[t], n) /\ c \in CodesOf(k)
    BY <1>0, <1>1, <2>1 DEF Carries, CodesOf
  <2>5. AtUserinfo(k) = {} /\ issued[k].sessions = 0 /\ CodesOf(k) = {c}
    BY <1>n, <2>4 DEF LoginInv, OncePerCode, AtMostOne
  <2> HIDE DEF where
  <2>6. \A m \in Nonces : Carries(where, m) => m = n
    BY <2>3 DEF Carries
  <2>7. /\ \A d \in loginCodes' : d.code \in DOMAIN issued' /\ d.subject \in Accounts
        /\ issued' \in Seq(Issues) /\ DOMAIN issued \subseteq DOMAIN issued'
        /\ \A j \in DOMAIN issued' : issued'[j].nonce <= logins
    BY <1>0, <1>1 DEF LoginInv, LoginTyped, DrawnOnly
  <2>8. /\ tabs'[t] = where /\ \A u \in Tabs \ {t} : tabs'[u] = tabs[u]
        /\ LoginTyped' /\ DrawnOnly' /\ OnePageEach'
    BY <1>n, <1>0, <1>1, <2>3, <2>4, <2>6, <2>7, TabKeeps
  <2>9. \A j \in DOMAIN issued \ {k} : AtUserinfo(j)' \subseteq AtUserinfo(j)
    BY <1>0, <2>3, <2>8 DEF AtUserinfo
  <2>10. \A j \in DOMAIN issued : CodesOf(j)' \subseteq CodesOf(j)
    BY <1>1 DEF CodesOf
  <2>11. AtUserinfo(k)' = {t}
    BY <2>3, <2>5, <2>8 DEF AtUserinfo
  <2>12. CodesOf(k)' = {}
    BY <1>1, <1>n, <2>5, <2>10 DEF CodesOf
  <2>13. OncePerCode'
    BY <1>n, <1>0, <2>5, <2>9, <2>10, <2>11, <2>12, OnePlaceOn DEF LoginInv, AtMostOne
  <2>14. StatesSpent'
    BY <1>0, <1>1 DEF LoginInv, StatesSpent
  <2> QED BY <2>8, <2>13, <2>14 DEF LoginInv
<1>2. CASE CallbackFails(t) /\ loginCodes' \subseteq loginCodes
  BY <1>0, <1>2, GoesOn DEF CallbackFails
<1>3. (\E c \in LiveCodes(k) :
         /\ loginCodes' = loginCodes \ {c} /\ UNCHANGED state
         /\ Goes(t, [at |-> "userinfo", asked |-> tabs[t].asked, nonce |-> n, code |-> k,
                     next |-> tabs[t].next, subject |-> c.subject]))
      \/ (CallbackFails(t) /\ loginCodes' \subseteq loginCodes)
  BY <1>n DEF ExchangeCode
<1> QED BY <1>1, <1>2, <1>3

(* The code mints its session, and the tab lands.                          *)
LEMMA FetchKeeps ==
  ASSUME LoginInv, NEW t \in Tabs, FetchUserinfo(t)
  PROVE  LoginInv'
<1>n. PICK n \in Nonces, k \in DOMAIN issued : n = tabs[t].nonce /\ k = tabs[t].code
  BY TabFields DEF LoginInv, FetchUserinfo, DrawnOnly, HasCode
<1> DEFINE where == [at |-> "page", page |-> tabs[t].next, asked |-> tabs[t].asked]
<1>0. /\ tabs[t].at = "userinfo" /\ UNCHANGED <<logins, loginCodes>> /\ HasCode(tabs[t])
      /\ tabs[t].asked \in Targets /\ k = tabs[t].code /\ tabs[t].next \in Landings
  BY <1>n, TabFields DEF FetchUserinfo, LoginInv, HasCode
<1>1. CASE /\ state' = None /\ Goes(t, where)
           /\ issued' = [issued EXCEPT ![k].sessions = @ + 1]
  <2>1. t \in AtUserinfo(k)
    BY <1>0 DEF AtUserinfo
  <2>2. tabs[t].next = Landing(tabs[t].asked)
    BY <1>0 DEF LoginInv, OnePageEach
  <2>3. /\ where \in TabStates /\ where.at = "page"
        /\ where.page = Landing(where.asked)
    BY <1>0, <2>2 DEF TabStates
  <2>4. CodesOf(k) = {} /\ issued[k].sessions = 0 /\ AtUserinfo(k) = {t}
    BY <1>n, <2>1 DEF LoginInv, OncePerCode, AtMostOne
  <2> HIDE DEF where
  <2>5. (\A m \in Nonces : ~Carries(where, m)) /\ ~HasCode(where)
    BY <2>3 DEF Carries, HasCode
  <2>6. /\ issued' \in Seq(Issues) /\ DOMAIN issued' = DOMAIN issued
        /\ issued'[k].sessions = 1 /\ issued'[k].nonce = issued[k].nonce
        /\ \A j \in DOMAIN issued \ {k} : issued'[j] = issued[j]
    <3>1. issued \in Seq(Issues)
      BY DEF LoginInv, LoginTyped
    <3>2. issued[k] \in Issues
      BY <1>n, <3>1
    <3>3. [issued[k] EXCEPT !.sessions = @ + 1] = [nonce |-> issued[k].nonce, sessions |-> 1]
      BY <2>4, <3>2 DEF Issues
    <3>4. [issued[k] EXCEPT !.sessions = @ + 1] \in Issues
      BY <3>2, <3>3 DEF Issues
    <3>5. issued' = [issued EXCEPT ![k] = [issued[k] EXCEPT !.sessions = @ + 1]]
      BY <1>1
    <3> QED BY <1>n, <3>1, <3>3, <3>4, <3>5
  <2>7. /\ \A d \in loginCodes' : d.code \in DOMAIN issued' /\ d.subject \in Accounts
        /\ \A j \in DOMAIN issued' : issued'[j].nonce <= logins
    BY <1>0, <2>6 DEF LoginInv, LoginTyped, DrawnOnly
  <2>8. /\ tabs'[t] = where /\ \A u \in Tabs \ {t} : tabs'[u] = tabs[u]
        /\ LoginTyped' /\ DrawnOnly' /\ OnePageEach'
    BY <1>0, <1>1, <2>3, <2>5, <2>6, <2>7, TabKeeps
  <2>9. \A j \in DOMAIN issued :
          CodesOf(j)' \subseteq CodesOf(j) /\ AtUserinfo(j)' \subseteq AtUserinfo(j)
    BY <1>0, <2>3, <2>8 DEF CodesOf, AtUserinfo
  <2>10. AtUserinfo(k)' = {} /\ CodesOf(k)' = {}
    BY <1>n, <2>3, <2>4, <2>8, <2>9 DEF AtUserinfo
  <2>11. OncePerCode'
    BY <1>n, <2>6, <2>9, <2>10, OnePlaceOn DEF LoginInv, AtMostOne
  <2>12. StatesSpent'
    BY <1>1 DEF StatesSpent
  <2> QED BY <2>8, <2>11, <2>12 DEF LoginInv
<1>2. CASE CallbackFails(t) /\ UNCHANGED issued
  BY <1>0, <1>2, GoesOn DEF CallbackFails
<1> QED BY <1>n, <1>1, <1>2 DEF FetchUserinfo

------------------------------------------------------------------------------
LEMMA LoginNextKeeps ==
  ASSUME LoginInv, [LoginNext]_loginVars
  PROVE  LoginInv'
<1>1. ASSUME NEW t \in Tabs, NEW p \in Pages, Visit(t, p)
      PROVE  LoginInv'
  <2>1. p \in Targets /\ p \in Landings /\ p # None
    BY PagesAssumption DEF Targets, Landings
  <2>2. state' \in {state, None} /\ UNCHANGED <<loginCodes, logins, issued>>
    BY <1>1 DEF Visit
  <2>3. CASE Goes(t, [at |-> "page", page |-> p, asked |-> p])
    <3> DEFINE where == [at |-> "page", page |-> p, asked |-> p]
    <3>1. where \in TabStates /\ where.at = "page" /\ where.page = Landing(where.asked)
      BY <2>1 DEF TabStates, Landing
    <3> HIDE DEF where
    <3>2. Goes(t, where)
      BY <2>3 DEF where
    <3>3. (\A n \in Nonces : ~Carries(where, n)) /\ ~HasCode(where)
      BY <3>1 DEF Carries, HasCode
    <3> QED BY <2>2, <3>1, <3>2, <3>3, TabMoves
  <2>4. CASE Goes(t, [at |-> "login", asked |-> p])
    <3> DEFINE where == [at |-> "login", asked |-> p]
    <3>1. where \in TabStates /\ where.at \in {"idle", "failed", "login"} /\ Goes(t, where)
      BY <2>1, <2>4 DEF TabStates
    <3> HIDE DEF where
    <3> QED BY <2>2, <3>1, GoesAside
  <2> QED BY <1>1, <2>3, <2>4 DEF Visit
<1>2. ASSUME NEW t \in Tabs, OpenLogin(t) \/ LogoutHandler(t)
      PROVE  LoginInv'
  <2> DEFINE where == [at |-> "login", asked |-> None]
  <2>1. where \in TabStates /\ where.at \in {"idle", "failed", "login"}
    BY DEF TabStates, Targets
  <2>2. /\ Goes(t, where) /\ state' \in {state, None}
        /\ UNCHANGED <<loginCodes, logins, issued>>
    BY <1>2 DEF OpenLogin, LogoutHandler
  <2> HIDE DEF where
  <2> QED BY <2>1, <2>2, GoesAside
<1>3. ASSUME NEW t \in Tabs, CallbackError(t) \/ Leave(t)
      PROVE  LoginInv'
  <2> DEFINE gone == [at |-> "failed"]
  <2>1. /\ gone \in TabStates /\ gone.at \in {"idle", "failed", "login"}
        /\ Idle \in TabStates /\ Idle.at \in {"idle", "failed", "login"}
    BY DEF TabStates, Idle
  <2>2. /\ Goes(t, gone) \/ Goes(t, Idle)
        /\ state' \in {state, None} /\ UNCHANGED <<loginCodes, logins, issued>>
    BY <1>3 DEF CallbackError, Leave
  <2> HIDE DEF gone
  <2> QED BY <2>1, <2>2, GoesAside
<1>4. ASSUME NEW t \in Tabs, NEW other \in Tabs, Reopen(t, other)
      PROVE  LoginInv'
  <2>1. UNCHANGED <<state, loginCodes, logins, issued>>
    BY <1>4 DEF Reopen
  <2>2. CASE tabs[t].at \in {"broker", "denied"} /\ Goes(other, tabs[t])
    <3>1. tabs[t] = [at |-> tabs[t].at, asked |-> tabs[t].asked, nonce |-> tabs[t].nonce]
      BY <2>2, TabFields DEF LoginInv, TabStates
    <3> QED BY <2>1, <2>2, <3>1, GoesBack
  <2>3. CASE HasCode(tabs[t]) /\ Goes(other, [at |-> "callback", asked |-> tabs[t].asked,
                                  nonce |-> tabs[t].nonce, code |-> tabs[t].code])
    BY <2>1, <2>3, GoesOn
  <2> QED BY <1>4, <2>2, <2>3 DEF Reopen, HasCode
<1>5. CASE TimePasses \/ UNCHANGED loginVars
  <2>1. UNCHANGED <<tabs, state, loginCodes, logins, issued>>
    BY <1>5 DEF TimePasses, loginVars
  <2>2. LoginTyped' /\ DrawnOnly' /\ StatesSpent'
    BY <2>1 DEF LoginInv, LoginTyped, DrawnOnly, StatesSpent
  <2>3. OnePageEach'
    BY <2>1 DEF LoginInv, OnePageEach, LandsWhereItStarted
  <2>4. OncePerCode'
    BY <2>1, FewerPlaces DEF LoginInv, AtUserinfo, CodesOf
  <2> QED BY <2>2, <2>3, <2>4 DEF LoginInv
<1>6. ASSUME NEW t \in Tabs, \/ LoginHandler(t) \/ Callback(t)
                              \/ ExchangeCode(t) \/ FetchUserinfo(t)
      PROVE  LoginInv'
  BY <1>6, LoginHandlerKeeps, CallbackKeeps, ExchangeKeeps, FetchKeeps
<1>7. ASSUME NEW t \in Tabs, NEW a \in Accounts, AuthorizeHandler(t, a)
      PROVE  LoginInv'
  BY <1>7, AuthorizeHandlerKeeps
<1> QED BY <1>1, <1>2, <1>3, <1>4, <1>5, <1>6, <1>7 DEF LoginNext

LEMMA LoginInductive == LoginSpec => []LoginInv
<1>1. LoginInit => LoginInv
  BY LoginInitInv
<1>2. LoginInv /\ [LoginNext]_loginVars => LoginInv'
  BY LoginNextKeeps
<1> QED BY <1>1, <1>2, PTL DEF LoginSpec

(* Every login of every tab ends on the page it was started for, or on the *)
(* root when it named none, however the callbacks of the tabs interleave   *)
(* over their one state cookie (CallbackHandler in rp.go).                 *)
THEOREM LoginsLandWhereTheyStarted == LoginSpec => []LandsWhereItStarted
<1>1. LoginInv => LandsWhereItStarted
  BY DEF LoginInv, OnePageEach
<1> QED BY <1>1, LoginInductive, PTL

(* A code of the broker mints at most one session, whatever reloads and    *)
(* copies of its callback, and of the login that it was issued for, run at *)
(* once: the code is consumed before the session is minted.  When a login  *)
(* has led to a session, no callback that arrives later passes             *)
(* validateState, whatever codes the broker still gives for it.            *)
THEOREM SpentLoginsAreRefused == LoginSpec => []LoginsAreSpent
<1>1. LoginInv => LoginsAreSpent
  BY DEF LoginInv, OncePerCode, StatesSpent, LoginsAreSpent, StateMatches
<1> QED BY <1>1, LoginInductive, PTL
==============================================================================
