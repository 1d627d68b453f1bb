----------------------------- MODULE CodeStoreTx -----------------------------
(***************************************************************************)
(* FirestoreCodeStore: authorization codes as Firestore documents.         *)
(* SaveCode is a Create; ConsumeCode is a transaction that reads the       *)
(* document, checks its expiry and binding, and deletes it.  Nothing is    *)
(* locked between the read and the commit, and the clock is read in the    *)
(* callback, so a code can expire, be swept or be taken in between.        *)
(*                                                                         *)
(* The document keeps its expiry in whole seconds (ExpiresUnix), Grain     *)
(* ticks each.  The library runs the callback again after an abort.        *)
(***************************************************************************)
EXTENDS Integers

CONSTANTS
  Codes, Bindings, Exchanges, Lifetime, Grain, MaxTime,  \* as in CodeStore
  MaxAttempts  \* the client library's bound on attempts

ASSUME AttemptsAssumption == MaxAttempts \in Nat \ {0}
ASSUME TimesAssumption ==
  /\ Grain \in Nat \ {0} /\ Lifetime \in Nat /\ Grain <= Lifetime
  /\ MaxTime \in Nat
ASSUME BindingsAssumption == "none" \notin Bindings

VARIABLES
  now, codes, drawn, exchanges,  \* as in CodeStore; codes are the documents
  txns  \* exchange -> the attempt it is in

vars == <<now, codes, drawn, exchanges, txns>>

Contract == INSTANCE CodeStore

NoCode == Contract!NoCode

Closed(attempts) == [phase |-> "closed", attempts |-> attempts]

Init == Contract!Init /\ txns = [x \in Exchanges |-> Closed(0)]

IsPending(x) == Contract!IsPending(x)
IsReady(x)   == txns[x].phase = "ready"

Answer(x, answer) ==
  /\ Contract!Answer(x, answer)
  /\ txns' = [txns EXCEPT ![x] = Closed(0)]

------------------------------------------------------------------------------
WholeSeconds(t) == t - (t % Grain)

(* issueCode and SaveCode.  The reply of a Create that took effect can be  *)
(* lost; the code then exists and nobody has it.                           *)
SaveCode(c, b) ==
  /\ drawn[c] = Contract!Undrawn
  /\ codes' = [codes EXCEPT ![c] =
                 [binding |-> b, expires |-> WholeSeconds(now + Lifetime)]]
  /\ \E sent \in BOOLEAN :
       drawn' = [drawn EXCEPT ![c] =
                   [binding |-> b, expires |-> now + Lifetime, sent |-> sent]]
  /\ UNCHANGED <<now, exchanges, txns>>

Present(x, c, b) == Contract!Present(x, c, b) /\ UNCHANGED txns

(* Mutant of Verdict: a code never expires.                                *)
VerdictUntimed(code, x) ==
  IF code = NoCode THEN "missing"
  ELSE IF code.binding # exchanges[x].binding THEN "mismatch"
  ELSE "token"

(* What the callback finds: the document, then validateCodeBinding.        *)
Verdict(code, x) ==
  IF code = NoCode THEN "missing"
  ELSE IF now > code.expires THEN "expired"
  ELSE IF code.binding # exchanges[x].binding THEN "mismatch"
  ELSE "token"

Reading(x) == IsPending(x) /\ ~IsReady(x)

Ready(x) ==
  [phase |-> "ready", attempts |-> txns[x].attempts, read |-> codes[exchanges[x].code]]

(* The callback: a refusal rolls back and answers; otherwise the deletion  *)
(* is queued for the commit.                                               *)
RunCallback(x) ==
  /\ Reading(x)
  /\ LET verdict == Verdict(codes[exchanges[x].code], x)
     IN  IF verdict = "token"
         THEN txns' = [txns EXCEPT ![x] = Ready(x)] /\ UNCHANGED exchanges
         ELSE Answer(x, verdict)
  /\ UNCHANGED <<now, codes, drawn>>

StillCurrent(x) == codes[exchanges[x].code] = txns[x].read

(* Mutant: the transaction only reads.                                     *)
DeleteForgotten(x) == UNCHANGED codes

Delete(x) == codes' = [codes EXCEPT ![exchanges[x].code] = NoCode]

(* The commit; its reply can be lost.                                      *)
Commit(x) ==
  /\ IsReady(x) /\ StillCurrent(x)
  /\ Delete(x)
  /\ \E answer \in {"token", "failed"} : Answer(x, answer)
  /\ UNCHANGED <<now, drawn>>

(* The store aborts the attempt, in conflict or not; the callback runs     *)
(* again until the attempts are used up.                                   *)
Abort(x) ==
  /\ IsReady(x)
  /\ LET used == txns[x].attempts + 1
     IN  IF used < MaxAttempts
         THEN txns' = [txns EXCEPT ![x] = Closed(used)] /\ UNCHANGED exchanges
         ELSE Answer(x, "failed")
  /\ UNCHANGED <<now, codes, drawn>>

(* The store, the connection or the instance fails before the commit.      *)
StoreFails(x) ==
  /\ IsPending(x) /\ Answer(x, "failed")
  /\ UNCHANGED <<now, codes, drawn>>

(* An asynchronous TTL policy on expires_at.                               *)
Sweep(c) == Contract!Sweep(c) /\ UNCHANGED txns
Tick     == Contract!Tick /\ UNCHANGED txns

ConsumeCode(x) == RunCallback(x) \/ Commit(x) \/ Abort(x) \/ StoreFails(x)

Next ==
  \/ \E c \in Codes, b \in Bindings : SaveCode(c, b)
  \/ \E x \in Exchanges, c \in Codes, b \in Bindings : Present(x, c, b)
  \/ \E x \in Exchanges : ConsumeCode(x)
  \/ \E c \in Codes : Sweep(c)
  \/ Tick

(* A token request the broker has accepted is worked on to its answer.     *)
Fairness == \A x \in Exchanges : WF_vars(ConsumeCode(x))

Spec == Init /\ [][Next]_vars /\ Fairness

------------------------------------------------------------------------------
Attempts ==
  [phase : {"closed"}, attempts : 0..(MaxAttempts - 1)]
  \cup [phase : {"ready"}, attempts : 0..(MaxAttempts - 1), read : Contract!Grants]

(* Type invariant.  Only a pending request is in an attempt.               *)
TypeOK ==
  /\ now \in 0..MaxTime
  /\ codes \in [Codes -> Contract!Grants \cup {NoCode}]
  /\ drawn \in [Codes -> Contract!Drawn \cup {Contract!Undrawn}]
  /\ exchanges \in [Exchanges -> Contract!Calls \cup Contract!Answered \cup {Contract!Idle}]
  /\ txns \in [Exchanges -> Attempts]
  /\ \A x \in Exchanges : ~IsPending(x) => txns[x] = Closed(0)

HoldsToken(x) == exchanges[x].phase = "done" /\ exchanges[x].answer = "token"

(* One code, one token: however many requests present a code, and however  *)
(* their transactions interleave and retry, at most one of them is         *)
(* answered with a token.                                                  *)
SingleUse ==
  \A x, y \in Exchanges :
    HoldsToken(x) /\ HoldsToken(y) /\ exchanges[x].code = exchanges[y].code => x = y

(* A token goes only to a request that carries the binding the code was    *)
(* drawn for and that arrived while the code was alive, although the       *)
(* commit may come after the expiry.                                       *)
TokensAreBound ==
  \A x \in Exchanges : HoldsToken(x) =>
    /\ exchanges[x].binding = drawn[exchanges[x].code].binding
    /\ exchanges[x].since <= drawn[exchanges[x].code].expires

(* The transactions implement the contract of the interface: an exchange   *)
(* takes effect in one step, at its commit, or not at all, and is answered.*)
Implements == Contract!Spec
==============================================================================
