--------------------------- MODULE ServerLifecycle ---------------------------
(***************************************************************************)
(* The life of the process: run composes the enabled Services and their    *)
(* provider clients, StartAndWait serves until a signal or a listener      *)
(* error, and the deferred closers close the clients before main returns.  *)
(*                                                                         *)
(* Two goroutines take part in the end: main, inside Serve, and the        *)
(* stopper, which waits for a signal and then calls Shutdown.  Shutdown    *)
(* closes the listener first, which makes Serve return at once, and only   *)
(* then waits for the requests in progress.                                *)
(***************************************************************************)
EXTENDS Naturals, Sequences

CONSTANT Calls   \* HTTP requests

Services == {"auth", "tissues"}
Clients  == {"firestore", "storage"}   \* the provider clients compose opens

VARIABLES
  enabled,    \* the Services the profile enables
  main,       \* where main is: a step of compose, or serving, returned, exited
  opened,     \* the clients that were opened
  closed,     \* the clients that were closed
  closers,    \* the clients main still has to close, in the order of opening
  listening,  \* the listener accepts connections
  signalled,  \* SIGINT or SIGTERM was received
  stopper,    \* the goroutine that waits for it
  failure,    \* Serve returned an error of the listener
  timedOut,   \* Shutdown gave up waiting for the requests in progress
  calls       \* request -> none, active, answered or broken

serverVars == <<enabled, main, opened, closed, closers, listening, signalled, stopper,
          failure, timedOut, calls>>

dependencies == <<opened, closed, closers>>
serving      == <<listening, signalled, stopper, failure, timedOut, calls>>

ServerInit ==
  /\ enabled \in SUBSET Services
  /\ main = "firestore"
  /\ opened = {} /\ closed = {} /\ closers = <<>>
  /\ listening = FALSE /\ signalled = FALSE /\ stopper = "off"
  /\ failure = FALSE /\ timedOut = FALSE
  /\ calls = [c \in Calls |-> "none"]

------------------------------------------------------------------------------
(* compose.  Each step may fail; a step of a disabled Service is skipped.  *)

Steps == <<"firestore", "auth", "storage", "tissues", "routes", "listen", "serving">>

Following(step) ==
  Steps[1 + CHOOSE i \in DOMAIN Steps : Steps[i] = step]

Needed(step) ==
  \/ step = "firestore" /\ enabled # {}
  \/ step = "auth" /\ "auth" \in enabled
  \/ step \in {"storage", "tissues"} /\ "tissues" \in enabled
  \/ step \in {"routes", "listen"}

IsComposing == main \in {Steps[i] : i \in 1..(Len(Steps) - 1)}

Skip ==
  /\ IsComposing /\ ~Needed(main)
  /\ main' = Following(main)
  /\ UNCHANGED <<enabled, dependencies, serving>>

(* The step succeeds: a client it opens gets a closer; the last step binds *)
(* the listener, and StartAndWait starts the stopper before it serves.     *)
Compose ==
  /\ IsComposing /\ Needed(main)
  /\ main' = Following(main)
  /\ IF main \in Clients
     THEN opened' = opened \cup {main} /\ closers' = Append(closers, main)
     ELSE UNCHANGED <<opened, closers>>
  /\ listening' = (main = "listen")
  /\ stopper' = IF main = "listen" THEN "waiting" ELSE "off"
  /\ UNCHANGED <<enabled, closed, signalled, failure, timedOut, calls>>

(* Mutant: an error while routes are registered does not close anything.   *)
ClosersOnErrorForgotten(step) == IF step = "routes" THEN <<>> ELSE closers

(* closeOnError, or nothing to close yet.                                  *)
ClosersOnError(step) == closers

(* The step fails: main goes on to close what was opened.                  *)
ComposeFails ==
  /\ IsComposing /\ Needed(main)
  /\ main' = "returned"
  /\ closers' = ClosersOnError(main)
  /\ UNCHANGED <<enabled, opened, closed, serving>>

------------------------------------------------------------------------------
(* Serving.                                                                *)

Accept(c) ==
  /\ listening /\ calls[c] = "none"
  /\ calls' = [calls EXCEPT ![c] = "active"]
  /\ UNCHANGED <<enabled, main, dependencies, listening, signalled, stopper, failure, timedOut>>

(* A handler answers; what it still needs of a closed client fails.        *)
Respond(c) ==
  /\ main # "exited" /\ calls[c] = "active"
  /\ calls' = [calls EXCEPT ![c] = IF opened \cap closed = {} THEN "answered" ELSE "broken"]
  /\ UNCHANGED <<enabled, main, dependencies, listening, signalled, stopper, failure, timedOut>>

Signal ==
  /\ main = "serving" /\ ~signalled
  /\ signalled' = TRUE
  /\ UNCHANGED <<enabled, main, dependencies, listening, stopper, failure, timedOut, calls>>

(* Mutant: Stop leaves the listener open.                                  *)
StopIgnored ==
  /\ main # "exited" /\ stopper = "waiting" /\ signalled
  /\ stopper' = "draining"
  /\ UNCHANGED <<enabled, main, dependencies, listening, signalled, failure, timedOut, calls>>

(* Stop: Shutdown closes the listener and begins to wait.                  *)
Stop ==
  /\ main # "exited" /\ stopper = "waiting" /\ signalled
  /\ stopper' = "draining" /\ listening' = FALSE
  /\ UNCHANGED <<enabled, main, dependencies, signalled, failure, timedOut, calls>>

Drained ==
  /\ main # "exited" /\ stopper = "draining"
  /\ \A c \in Calls : calls[c] # "active"
  /\ stopper' = "finished"
  /\ UNCHANGED <<enabled, main, dependencies, listening, signalled, failure, timedOut, calls>>

(* The ten seconds of shutdownTimeout are over.                            *)
DrainTimesOut ==
  /\ main # "exited" /\ stopper = "draining"
  /\ stopper' = "finished" /\ timedOut' = TRUE
  /\ UNCHANGED <<enabled, main, dependencies, listening, signalled, failure, calls>>

(* Serve returns ErrServerClosed as soon as the listener is closed.        *)
ServeReturns ==
  /\ main = "serving" /\ ~listening
  /\ main' = "returned"
  /\ UNCHANGED <<enabled, dependencies, serving>>

(* Accept fails for good: Serve closes the listener and returns the error. *)
ListenerFails ==
  /\ main = "serving" /\ listening
  /\ main' = "returned" /\ listening' = FALSE /\ failure' = TRUE
  /\ UNCHANGED <<enabled, dependencies, signalled, stopper, timedOut, calls>>

(* The stopper sees serveDone instead of a signal.                         *)
StopperDismissed ==
  /\ main = "returned" /\ stopper = "waiting"
  /\ stopper' = "finished"
  /\ UNCHANGED <<enabled, main, dependencies, listening, signalled, failure, timedOut, calls>>

------------------------------------------------------------------------------
(* The end.                                                                *)

(* A deferred closer, or one of closeOnError: the last opened goes first.  *)
Close ==
  /\ main = "returned" /\ closers # <<>>
  /\ closed' = closed \cup {closers[Len(closers)]}
  /\ closers' = SubSeq(closers, 1, Len(closers) - 1)
  /\ UNCHANGED <<enabled, main, opened, serving>>

(* main returns; what is still in progress ends with the process.          *)
Exit ==
  /\ main = "returned" /\ closers = <<>>
  /\ main' = "exited"
  /\ calls' = [c \in Calls |-> IF calls[c] = "active" THEN "broken" ELSE calls[c]]
  /\ UNCHANGED <<enabled, dependencies, listening, signalled, stopper, failure, timedOut>>

MainStep == Skip \/ Compose \/ ComposeFails \/ ServeReturns \/ Close \/ Exit

StopperStep == Stop \/ Drained \/ DrainTimesOut \/ StopperDismissed

ServerNext ==
  \/ MainStep \/ StopperStep \/ Signal \/ ListenerFails
  \/ \E c \in Calls : Accept(c) \/ Respond(c)

(* The two goroutines run on; handlers may take for ever, and no signal or *)
(* request need come.                                                      *)
ServerFairness == WF_serverVars(MainStep) /\ WF_serverVars(StopperStep)

ServerSpec == ServerInit /\ [][ServerNext]_serverVars /\ ServerFairness

------------------------------------------------------------------------------
(* When the process ends, every client it opened has been closed, on every *)
(* error path of compose too (closeOnError, run's deferred loop).          *)
(* Before that, a client is closed only when no request can arrive any     *)
(* more, and the one opened last goes first.                               *)
NothingLeaked ==
  /\ main = "exited" => closed = opened
  /\ closed # {} => ~listening
  /\ "firestore" \in closed => opened \subseteq closed

(* A signal ends the process, whatever the requests in progress do.        *)
SignalEnds == signalled ~> main = "exited"

(* "SIGINT and SIGTERM trigger graceful shutdown": a request in progress   *)
(* is answered unless the listener failed or the shutdown timed out.       *)
GracefulShutdown ==
  \A c \in Calls : calls[c] = "broken" => failure \/ timedOut
==============================================================================
