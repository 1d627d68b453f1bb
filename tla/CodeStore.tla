------------------------------ MODULE CodeStore ------------------------------
(***************************************************************************)
(* What the auth broker promises of authorization codes: the contract of   *)
(* its CodeStore interface.  A code is bound to one client, redirect,      *)
(* resource and PKCE challenge; it is given out for at most one token, to  *)
(* a request that carries the same binding and arrived before it expired.  *)
(*                                                                         *)
(* An exchange is one POST to the token endpoint.  It takes effect in one  *)
(* step.  A store may keep time more coarsely than the broker: it may end  *)
(* the life of a code up to Grain - 1 ticks early, never late.             *)
(***************************************************************************)
EXTENDS Integers

CONSTANTS
  Codes,      \* the random codes the broker can draw
  Bindings,   \* (client, redirect, resource, PKCE challenge) a code is bound to
  Exchanges,  \* the token requests ever made
  Lifetime,   \* CodeTTL, in ticks
  Grain,      \* ticks in the unit of the store's clock: one second
  MaxTime     \* bound on the clock, for the runs

VARIABLES
  now,       \* the clock
  codes,     \* code -> what the store holds for it, or NoCode
  drawn,     \* code -> what it was drawn for, whether or not it is still stored
  exchanges  \* exchange -> the state of that request

vars == <<now, codes, drawn, exchanges>>

NoCode == [binding |-> "none", expires |-> 0]
Grants == [binding : Bindings, expires : 0..(MaxTime + Lifetime)]
Drawn  == [binding : Bindings, expires : 0..(MaxTime + Lifetime), sent : BOOLEAN]
Undrawn == [binding |-> "none", expires |-> 0, sent |-> FALSE]

Refusals == {"missing", "expired", "mismatch", "failed"}
Idle     == [phase |-> "idle"]
Calls    == [phase : {"pending"}, code : Codes, binding : Bindings, since : 0..MaxTime]
Answered == [phase : {"done"}, code : Codes, binding : Bindings, since : 0..MaxTime,
             answer : Refusals \cup {"token"}]

Init ==
  /\ now = 0
  /\ codes = [c \in Codes |-> NoCode]
  /\ drawn = [c \in Codes |-> Undrawn]
  /\ exchanges = [x \in Exchanges |-> Idle]

IsPending(x) == exchanges[x].phase = "pending"

Answer(x, answer) ==
  exchanges' = [exchanges EXCEPT ![x] =
    [phase |-> "done", code |-> exchanges[x].code, binding |-> exchanges[x].binding,
     since |-> exchanges[x].since, answer |-> answer]]

(* A code is drawn, stored and, unless the save goes unacknowledged, sent  *)
(* to the client.                                                          *)
Issue(c, b) ==
  /\ drawn[c] = Undrawn
  /\ \E e \in (now + Lifetime - Grain + 1)..(now + Lifetime), sent \in BOOLEAN :
       /\ codes' = [codes EXCEPT ![c] = [binding |-> b, expires |-> e]]
       /\ drawn' = [drawn EXCEPT ![c] =
                     [binding |-> b, expires |-> now + Lifetime, sent |-> sent]]
  /\ UNCHANGED <<now, exchanges>>

(* A request presents a code that was sent, with some binding.             *)
Present(x, c, b) ==
  /\ exchanges[x] = Idle /\ drawn[c].sent
  /\ exchanges' = [exchanges EXCEPT ![x] =
       [phase |-> "pending", code |-> c, binding |-> b, since |-> now]]
  /\ UNCHANGED <<now, codes, drawn>>

(* The presented code is stored, alive when the request came, and bound as *)
(* the request says.                                                       *)
Redeemable(x) ==
  LET code == codes[exchanges[x].code]
  IN  /\ code # NoCode
      /\ exchanges[x].since <= code.expires
      /\ code.binding = exchanges[x].binding

(* The code is used up; the answer may be lost on the way.                 *)
Redeem(x) ==
  /\ IsPending(x) /\ Redeemable(x)
  /\ codes' = [codes EXCEPT ![exchanges[x].code] = NoCode]
  /\ \E answer \in {"token", "failed"} : Answer(x, answer)
  /\ UNCHANGED <<now, drawn>>

(* A refusal leaves the code as it is, and says what is wrong with it.     *)
Refuse(x) ==
  /\ IsPending(x)
  /\ LET code == codes[exchanges[x].code]
     IN  \/ code = NoCode /\ Answer(x, "missing")
         \/ code # NoCode /\ now > code.expires /\ Answer(x, "expired")
         \/ code # NoCode /\ code.binding # exchanges[x].binding /\ Answer(x, "mismatch")
         \/ Answer(x, "failed")
  /\ UNCHANGED <<now, codes, drawn>>

(* A code past its life may be swept.                                      *)
Sweep(c) ==
  /\ codes[c] # NoCode /\ now > codes[c].expires
  /\ codes' = [codes EXCEPT ![c] = NoCode]
  /\ UNCHANGED <<now, drawn, exchanges>>

Tick == now < MaxTime /\ now' = now + 1 /\ UNCHANGED <<codes, drawn, exchanges>>

Next ==
  \/ \E c \in Codes, b \in Bindings : Issue(c, b)
  \/ \E x \in Exchanges, c \in Codes, b \in Bindings : Present(x, c, b)
  \/ \E x \in Exchanges : Redeem(x) \/ Refuse(x)
  \/ \E c \in Codes : Sweep(c)
  \/ Tick

(* A request that was accepted is answered.                                *)
Fairness == \A x \in Exchanges : WF_vars(Redeem(x) \/ Refuse(x))

Spec == Init /\ [][Next]_vars /\ Fairness
==============================================================================
