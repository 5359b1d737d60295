------------------------------ MODULE Reactor -------------------------------
(***************************************************************************)
(* A reactor: the goroutine that runs a source into a handler, Start and   *)
(* Shutdown, and the coordinator that monitors Err until it shuts the      *)
(* reactor down. Each section under the reactor's mutex is one action; the *)
(* channels, the contexts and the timer change between them.               *)
(***************************************************************************)
EXTENDS Naturals, FiniteSets

CONSTANT Grace      \* whether the reactor has a grace period
ASSUME GraceAssumption == Grace \in BOOLEAN

VARIABLES
    state,        \* "idle", "running", "stopping", "stopped"
    recv,         \* the goroutine: where Receive and its epilogue are
    ret,          \* what Receive returned: "none", "nil", "fail", "cancelled"
    err,          \* r.err: Receive's result once stopping
    errs,         \* the errors in Err's buffer, of one
    errsCloses,   \* how often errs was closed
    doneCloses,   \* how often done was closed
    stopped,      \* whether Receive's context is cancelled
    aborted,      \* whether the handlers' contexts are cancelled
    shut,         \* Shutdown: "no", "entered", "draining", "returned"
    grace,        \* the grace timer: "off", "running"
    cancelled,    \* Shutdown's own: the grace ran out on a handler
    expired,      \* whether Shutdown's context has ended
    result,       \* the failures Shutdown's error names
    monitoring,   \* whether the coordinator still reads Err
    heard         \* how many errors the coordinator read from Err

goroutine == <<recv, ret>>
channels == <<errs, errsCloses, doneCloses>>
contexts == <<stopped, aborted>>
shutdown == <<shut, grace, cancelled, expired, result>>
monitor == <<monitoring, heard>>
vars == <<state, goroutine, err, channels, contexts, shutdown, monitor>>

Done == doneCloses > 0
ErrsClosed == errsCloses > 0

Init ==
    /\ state = "idle"
    /\ recv = "none"
    /\ ret = "none"
    /\ err = "nil"
    /\ errs = 0
    /\ errsCloses = 0
    /\ doneCloses = 0
    /\ stopped = FALSE
    /\ aborted = FALSE
    /\ shut = "no"
    /\ grace = "off"
    /\ cancelled = FALSE
    /\ expired = FALSE
    /\ result = {}
    /\ monitoring = TRUE
    /\ heard = 0

-----------------------------------------------------------------------------
(* Start and the goroutine.                                                *)

\* Only an idle reactor starts; any other call returns an error.
Start ==
    /\ state = "idle"
    /\ state' = "running"
    /\ recv' = "receiving"
    /\ UNCHANGED <<ret, err, channels, contexts, shutdown, monitor>>

\* The source delivers an occurrence, and the handler runs on a context of
\* its own, until the source has seen its context end.
Handle ==
    /\ recv = "receiving"
    /\ recv' = "handling"
    /\ UNCHANGED <<state, ret, err, channels, contexts, shutdown, monitor>>

\* The handler returns. The source goes on to the next occurrence, or its
\* own rule makes the handler's error Receive's.
HandlerReturns(how) ==
    /\ recv = "handling"
    /\ how = "cancelled" => aborted
    /\ \/ recv' = "receiving" /\ ret' = ret
       \/ how # "nil" /\ recv' = "returned" /\ ret' = how
    /\ UNCHANGED <<state, err, channels, contexts, shutdown, monitor>>

\* The source returns nil once its context has ended, or fails by itself.
ReceiveReturns(how) ==
    /\ recv = "receiving"
    /\ how = "nil" => stopped
    /\ recv' = "returned"
    /\ ret' = how
    /\ UNCHANGED <<state, err, channels, contexts, shutdown, monitor>>

\* Under the mutex: while stopping the result is Shutdown's, else a failure
\* goes to Err, whose buffer is always free.
Record ==
    /\ recv = "returned"
    /\ IF state = "stopping"
         THEN err' = ret /\ errs' = errs
         ELSE /\ err' = err
              /\ errs' = errs + IF ret = "nil" THEN 0 ELSE 1
    /\ state' = "stopped"
    /\ recv' = "recorded"
    /\ UNCHANGED <<ret, errsCloses, doneCloses, contexts, shutdown, monitor>>

CloseErrs ==
    /\ recv = "recorded"
    /\ errsCloses' = errsCloses + 1
    /\ recv' = "errsClosed"
    /\ UNCHANGED <<state, ret, err, errs, doneCloses, contexts, shutdown, monitor>>

CloseDone ==
    /\ recv = "errsClosed"
    /\ doneCloses' = doneCloses + 1
    /\ recv' = "over"
    /\ UNCHANGED <<state, ret, err, errs, errsCloses, contexts, shutdown, monitor>>

-----------------------------------------------------------------------------
(* Shutdown.                                                               *)

\* Shutdown before Start retires the reactor.
Retire ==
    /\ shut = "no"
    /\ state = "idle"
    /\ state' = "stopped"
    /\ errsCloses' = errsCloses + 1
    /\ doneCloses' = doneCloses + 1
    /\ shut' = "returned"
    /\ monitoring' = FALSE
    /\ UNCHANGED <<goroutine, err, errs, contexts, grace, cancelled, expired, result, heard>>

\* Under the mutex. The coordinator has stopped monitoring when it drains.
Enter ==
    /\ shut = "no"
    /\ state # "idle"
    /\ state' = IF state = "running" THEN "stopping" ELSE state
    /\ shut' = "entered"
    /\ monitoring' = FALSE
    /\ UNCHANGED <<goroutine, err, channels, contexts, grace, cancelled, expired, result, heard>>

\* Stop the source and start the grace timer.
Stop ==
    /\ shut = "entered"
    /\ stopped' = TRUE
    /\ grace' = IF Grace THEN "running" ELSE "off"
    /\ shut' = "draining"
    /\ UNCHANGED <<state, goroutine, err, channels, aborted, cancelled, expired, result, monitor>>

\* Mistake: the grace runs out and cancels nothing.
GraceIgnored ==
    /\ shut = "draining"
    /\ grace = "running"
    /\ grace' = "off"
    /\ cancelled' = ~Done
    /\ UNCHANGED <<state, goroutine, err, channels, contexts, shut, expired, result, monitor>>

\* The grace runs out: unless the drain has just finished, cancel the handlers.
GraceEnds ==
    /\ shut = "draining"
    /\ grace = "running"
    /\ grace' = "off"
    /\ aborted' = (aborted \/ ~Done)
    /\ cancelled' = ~Done
    /\ UNCHANGED <<state, goroutine, err, channels, stopped, shut, expired, result, monitor>>

\* The drain deadline passes; only a Shutdown still draining looks at it.
Expire ==
    /\ ~expired
    /\ shut \in {"entered", "draining"}
    /\ expired' = TRUE
    /\ UNCHANGED <<state, goroutine, err, channels, contexts, shut, grace, cancelled, result,
                   monitor>>

\* Shutdown gives up waiting and cancels the handlers as it returns.
GiveUp ==
    /\ shut = "draining"
    /\ expired
    /\ result' = {"deadline"}
    /\ aborted' = TRUE
    /\ shut' = "returned"
    /\ UNCHANGED <<state, goroutine, err, channels, stopped, grace, cancelled, expired, monitor>>

\* Mistake: handlers that were cancelled count as drained.
FinishCancelled ==
    /\ shut = "draining"
    /\ Done \/ cancelled
    /\ \/ errs = 1 /\ errs' = 0 /\ result' = {ret}
       \/ errs = 0 /\ errs' = errs /\ result' = IF cancelled THEN {"grace"} ELSE {}
    /\ aborted' = TRUE
    /\ shut' = "returned"
    /\ UNCHANGED <<state, goroutine, err, errsCloses, doneCloses, stopped, grace, cancelled,
                   expired, monitor>>

\* Mistake: an error nobody read from Err is left there.
FinishUnread ==
    /\ shut = "draining"
    /\ Done
    /\ errs' = errs
    /\ result' = (IF cancelled THEN {"grace"} ELSE {})
                    \cup IF err = "nil" \/ (cancelled /\ err = "cancelled") THEN {} ELSE {err}
    /\ aborted' = TRUE
    /\ shut' = "returned"
    /\ UNCHANGED <<state, goroutine, err, errsCloses, doneCloses, stopped, grace, cancelled,
                   expired, monitor>>

\* The drain is over. An error left on Err is reported alone; else the grace
\* that ran out and Receive's own error, but for the cancellation it caused.
Finish ==
    /\ shut = "draining"
    /\ Done
    /\ \/ /\ errs = 1
          /\ errs' = 0
          /\ result' = {ret}
       \/ /\ errs = 0
          /\ ErrsClosed
          /\ errs' = errs
          /\ result' = (IF cancelled THEN {"grace"} ELSE {})
               \cup IF err = "nil" \/ (cancelled /\ err = "cancelled") THEN {} ELSE {err}
    /\ aborted' = TRUE
    /\ shut' = "returned"
    /\ UNCHANGED <<state, goroutine, err, errsCloses, doneCloses, stopped, grace, cancelled,
                   expired, monitor>>

-----------------------------------------------------------------------------
\* The coordinator reads a failure from Err while it monitors.
Hear ==
    /\ monitoring
    /\ errs = 1
    /\ errs' = 0
    /\ heard' = heard + 1
    /\ UNCHANGED <<state, goroutine, err, errsCloses, doneCloses, contexts, shutdown, monitoring>>

-----------------------------------------------------------------------------
Outcomes == {"nil", "fail", "cancelled"}

Goroutine ==
    \/ Handle
    \/ \E how \in Outcomes : HandlerReturns(how)
    \/ \E how \in Outcomes \ {"cancelled"} : ReceiveReturns(how)
    \/ Record \/ CloseErrs \/ CloseDone

Shutdown == Retire \/ Enter \/ Stop \/ GraceEnds \/ Expire \/ GiveUp \/ Finish

Next == Start \/ Goroutine \/ Shutdown \/ Hear

Spec == Init /\ [][Next]_vars

(* The goroutine and Shutdown run; a source whose context has ended stops  *)
(* delivering and returns; a handler returns once its context is cancelled.*)
(* Shutdown's own context need never end.                                  *)
Fairness ==
    /\ WF_vars(Record \/ CloseErrs \/ CloseDone)
    /\ SF_vars(stopped /\ ReceiveReturns("nil"))
    /\ WF_vars(aborted /\ \E how \in Outcomes : HandlerReturns(how))
    /\ WF_vars(Stop \/ GraceEnds)
    /\ WF_vars(Finish)

FairSpec == Spec /\ Fairness

-----------------------------------------------------------------------------
(* Properties.                                                             *)

\* The types.
TypeOK ==
    /\ state \in {"idle", "running", "stopping", "stopped"}
    /\ recv \in {"none", "receiving", "handling", "returned", "recorded", "errsClosed", "over"}
    /\ ret \in {"none"} \cup Outcomes
    /\ err \in Outcomes
    /\ errs \in 0..1
    /\ errsCloses \in 0..1
    /\ doneCloses \in 0..1
    /\ stopped \in BOOLEAN
    /\ aborted \in BOOLEAN
    /\ shut \in {"no", "entered", "draining", "returned"}
    /\ grace \in {"off", "running"}
    /\ cancelled \in BOOLEAN
    /\ expired \in BOOLEAN
    /\ result \subseteq {"deadline", "grace", "fail", "cancelled"}
    /\ monitoring \in BOOLEAN
    /\ heard \in 0..1

\* Each channel is closed once and Err's buffer never holds two errors: no
\* close or send that would panic or block. And the failure that ended the
\* source is reported once, on Err or by Shutdown, however it falls against the
\* start of the drain, unless Shutdown gave up at its deadline.
ReportedOnce ==
    /\ TypeOK
    /\ (shut = "returned" /\ "deadline" \notin result) =>
         heard + Cardinality(result \cap {"fail"}) = (IF ret = "fail" THEN 1 ELSE 0)

\* Shutdown returns before its deadline only when the source has returned and
\* no handler runs; a handler's context is cancelled only when the grace ran
\* out on it or Shutdown returned at its deadline, and its result says which.
DrainedBeforeReturn ==
    /\ (shut = "returned" /\ "deadline" \notin result) => recv \in {"none", "over"}
    /\ aborted =>
         IF shut = "returned"
           THEN (recv = "over" /\ ret # "cancelled") \/ result \cap {"grace", "deadline"} # {}
           ELSE cancelled

\* With a grace, Shutdown returns although nothing else bounds the handler.
ShutdownReturns == (shut = "entered" /\ Grace) ~> shut = "returned"

=============================================================================
