------------------------------ MODULE LogicApps ------------------------------
(***************************************************************************)
(* The Logic Apps service of internal/services/logicapps: workflows kept   *)
(* in Bolt, and one goroutine per enabled workflow that fires its          *)
(* Recurrence trigger.  Requests run in goroutines of their own and        *)
(* interleave with the firing goroutines between database calls; the map   *)
(* of stop channels is the only state under a mutex, and a critical        *)
(* section of it is one step here.  A restart keeps the workflows and      *)
(* loses every goroutine.                                                  *)
(***************************************************************************)
EXTENDS Integers

CONSTANTS
    Keys,         \* workflows, by subscription/resource group/name
    Definitions,  \* workflow definitions a client may send
    Recurring,    \* those with exactly one valid Recurrence trigger
    Handlers,     \* requests that can be in progress at once
    MaxLoops,     \* bound on the firing goroutines of one workflow
    MaxRestarts,  \* bound on restarts
    Absent        \* what a key without a workflow holds

Workflow == [state : {"Enabled", "Disabled"}, definition : Definitions]

Slots == 1..MaxLoops

ASSUME RecurringAssumption == Recurring \subseteq Definitions
ASSUME AbsentAssumption == Absent \notin Workflow
ASSUME LoopsAssumption == MaxLoops \in Nat \ {0} /\ MaxRestarts \in Nat

VARIABLES
    workflows,    \* bucket logicapps.workflows: key -> workflow or Absent
    stops,        \* Service.stops: key -> slot of the registered loop, 0 if none
    loop,         \* the firing goroutines of each workflow, by slot
    handler,      \* what each request in progress carries
    asked,        \* history: what the last request about a key asked for
    restarts      \* restarts so far

vars == <<workflows, stops, loop, handler, asked, restarts>>

-----------------------------------------------------------------------------
(* Types *)

\* fireLoop waits for its timer, then dispatches: it reads the workflow,
\* calls its action and records the run.  stopped: its channel is closed.
NoLoop == [at |-> "none"]
LoopState ==
    [at : {"none"}]
      \union [at : {"wait", "dispatch"}, definition : Recurring, stopped : BOOLEAN]
      \union [at : {"record"}, definition : Recurring, stopped : BOOLEAN, read : Workflow]

Idle == [at |-> "idle"]
HandlerState ==
    [at : {"idle"}]
      \union [at : {"stop", "delete", "dispatch"}, key : Keys]
      \union [at : {"start"}, key : Keys, definition : Definitions]
      \union [at : {"record"}, key : Keys, read : Workflow]

\* Every variable has the type the code gives it.
TypeOK ==
    /\ workflows \in [Keys -> Workflow \union {Absent}]
    /\ stops \in [Keys -> Slots \union {0}]
    /\ loop \in [Keys -> [Slots -> LoopState]]
    /\ handler \in [Handlers -> HandlerState]
    /\ asked \in [Keys -> Workflow \union {Absent}]
    /\ restarts \in Nat

-----------------------------------------------------------------------------
(* Helpers *)

Goto(p, state) == handler' = [handler EXCEPT ![p] = state]

Fires(wf) == wf # Absent /\ wf.state = "Enabled" /\ wf.definition \in Recurring

\* A goroutine that has not been told to stop.
Open(k, n) == loop[k][n].at # "none" /\ ~loop[k][n].stopped

\* Fault: the registered channel is replaced without being closed.
ClosedNothing(k) == loop[k]

\* The loops of k once the registered one, if any, has been told to stop.
Closed(k) ==
    IF stops[k] = 0 THEN loop[k] ELSE [loop[k] EXCEPT ![stops[k]].stopped = TRUE]

NewLoop(d) == [at |-> "wait", definition |-> d, stopped |-> FALSE]

-----------------------------------------------------------------------------
(* Requests *)

Init ==
    /\ workflows = [k \in Keys |-> Absent]
    /\ stops = [k \in Keys |-> 0]
    /\ loop = [k \in Keys |-> [n \in Slots |-> NoLoop]]
    /\ handler = [p \in Handlers |-> Idle]
    /\ asked = [k \in Keys |-> Absent]
    /\ restarts = 0

\* Fault: a workflow put as disabled keeps its goroutine.
PutWorkflowKeepsFiring(p, k, wf) ==
    /\ handler[p].at = "idle"
    /\ workflows' = [workflows EXCEPT ![k] = wf]
    /\ asked' = [asked EXCEPT ![k] = wf]
    /\ Goto(p, IF wf.state = "Enabled"
               THEN [at |-> "start", key |-> k, definition |-> wf.definition]
               ELSE Idle)
    /\ UNCHANGED <<stops, loop, restarts>>

\* PUT: the record is written, then the goroutine is started or stopped.
PutWorkflow(p, k, wf) ==
    /\ handler[p].at = "idle"
    /\ workflows' = [workflows EXCEPT ![k] = wf]
    /\ asked' = [asked EXCEPT ![k] = wf]
    /\ Goto(p, IF wf.state = "Enabled"
               THEN [at |-> "start", key |-> k, definition |-> wf.definition]
               ELSE [at |-> "stop", key |-> k])
    /\ UNCHANGED <<stops, loop, restarts>>

\* startFiring gives up, the old goroutine untouched, unless the definition
\* has a Recurrence trigger to fire.
StartFiring(p) ==
    /\ handler[p].at = "start"
    /\ LET k == handler[p].key
           d == handler[p].definition IN
       \/ /\ d \notin Recurring
          /\ UNCHANGED <<stops, loop>>
       \/ /\ d \in Recurring
          /\ \E n \in Slots :
               /\ loop[k][n] = NoLoop
               /\ stops' = [stops EXCEPT ![k] = n]
               /\ loop' = [loop EXCEPT ![k] = [Closed(k) EXCEPT ![n] = NewLoop(d)]]
    /\ Goto(p, Idle)
    /\ UNCHANGED <<workflows, asked, restarts>>

\* Fault: the closed channel is not taken out of the registry.
StopFiringKeepsChannel(p) ==
    /\ handler[p].at = "stop"
    /\ loop' = [loop EXCEPT ![handler[p].key] = Closed(handler[p].key)]
    /\ Goto(p, Idle)
    /\ UNCHANGED <<workflows, stops, asked, restarts>>

StopFiring(p) ==
    /\ handler[p].at = "stop"
    /\ LET k == handler[p].key IN
       /\ loop' = [loop EXCEPT ![k] = Closed(k)]
       /\ stops' = [stops EXCEPT ![k] = 0]
    /\ Goto(p, Idle)
    /\ UNCHANGED <<workflows, asked, restarts>>

\* DELETE: a workflow that is not there ends the request with 204.
DeleteWorkflow(p, k) ==
    /\ handler[p].at = "idle"
    /\ workflows[k] # Absent
    /\ Goto(p, [at |-> "delete", key |-> k])
    /\ UNCHANGED <<workflows, stops, loop, asked, restarts>>

DeleteRecord(p) ==
    /\ handler[p].at = "delete"
    /\ LET k == handler[p].key IN
       /\ workflows' = [workflows EXCEPT ![k] = Absent]
       /\ asked' = [asked EXCEPT ![k] = Absent]
       /\ Goto(p, [at |-> "stop", key |-> k])
    /\ UNCHANGED <<stops, loop, restarts>>

\* POST .../run: a workflow that exists is dispatched by the request itself.
RunTrigger(p, k) ==
    /\ handler[p].at = "idle"
    /\ workflows[k] # Absent
    /\ Goto(p, [at |-> "dispatch", key |-> k])
    /\ UNCHANGED <<workflows, stops, loop, asked, restarts>>

\* dispatch reads the workflow, enabled or not; nothing happens without one.
RunRead(p) ==
    /\ handler[p].at = "dispatch"
    /\ LET k == handler[p].key IN
       Goto(p, IF workflows[k] = Absent THEN Idle
               ELSE [at |-> "record", key |-> k, read |-> workflows[k]])
    /\ UNCHANGED <<workflows, stops, loop, asked, restarts>>

\* ... and once its action answered (or timed out) writes back what it read.
RunRecord(p) ==
    /\ handler[p].at = "record"
    /\ workflows' = [workflows EXCEPT ![handler[p].key] = handler[p].read]
    /\ Goto(p, Idle)
    /\ UNCHANGED <<stops, loop, asked, restarts>>

-----------------------------------------------------------------------------
(* Firing goroutines *)

SetLoop(k, n, state) == loop' = [loop EXCEPT ![k][n] = state]

TimerFires(k, n) ==
    /\ loop[k][n].at = "wait"
    /\ SetLoop(k, n, [loop[k][n] EXCEPT !.at = "dispatch"])
    /\ UNCHANGED <<workflows, stops, handler, asked, restarts>>

\* Fault: the goroutine does not look at its stop channel.
StopNeverReceived(k, n) == FALSE

StopReceived(k, n) ==
    /\ loop[k][n].at = "wait"
    /\ loop[k][n].stopped
    /\ SetLoop(k, n, NoLoop)
    /\ UNCHANGED <<workflows, stops, handler, asked, restarts>>

FireRead(k, n) ==
    /\ loop[k][n].at = "dispatch"
    /\ LET l == loop[k][n] IN
       SetLoop(k, n, IF workflows[k] = Absent THEN [l EXCEPT !.at = "wait"]
                     ELSE [at |-> "record", definition |-> l.definition,
                           stopped |-> l.stopped, read |-> workflows[k]])
    /\ UNCHANGED <<workflows, stops, handler, asked, restarts>>

\* Fault: the timer is not armed again after a dispatch.
FireRecordOnce(k, n) ==
    /\ loop[k][n].at = "record"
    /\ workflows' = [workflows EXCEPT ![k] = loop[k][n].read]
    /\ SetLoop(k, n, NoLoop)
    /\ UNCHANGED <<stops, handler, asked, restarts>>

FireRecord(k, n) ==
    /\ loop[k][n].at = "record"
    /\ LET l == loop[k][n] IN
       /\ workflows' = [workflows EXCEPT ![k] = l.read]
       /\ SetLoop(k, n, [at |-> "wait", definition |-> l.definition, stopped |-> l.stopped])
    /\ UNCHANGED <<stops, handler, asked, restarts>>

-----------------------------------------------------------------------------
(* The process dies and New resumes the workflows stored as enabled. *)

Restart ==
    /\ restarts < MaxRestarts
    /\ restarts' = restarts + 1
    /\ stops' = [k \in Keys |-> IF Fires(workflows[k]) THEN 1 ELSE 0]
    /\ loop' = [k \in Keys |-> [n \in Slots |->
                  IF n = 1 /\ Fires(workflows[k]) THEN NewLoop(workflows[k].definition)
                  ELSE NoLoop]]
    /\ handler' = [p \in Handlers |-> Idle]
    /\ asked' = workflows
    /\ UNCHANGED workflows

-----------------------------------------------------------------------------
(* Specification *)

Arrive(p) ==
    \E k \in Keys :
      \/ \E wf \in Workflow : PutWorkflow(p, k, wf)
      \/ DeleteWorkflow(p, k)
      \/ RunTrigger(p, k)

Proceed(p) ==
    \/ StartFiring(p)
    \/ StopFiring(p)
    \/ DeleteRecord(p)
    \/ RunRead(p)
    \/ RunRecord(p)

Dispatch(k, n) == FireRead(k, n) \/ FireRecord(k, n)

Next ==
    \/ \E p \in Handlers : Arrive(p) \/ Proceed(p)
    \/ \E k \in Keys, n \in Slots :
         TimerFires(k, n) \/ StopReceived(k, n) \/ Dispatch(k, n)
    \/ Restart

Spec == Init /\ [][Next]_vars

\* Goroutines that can run do run, the HTTP call of a dispatch has a timeout,
\* timers expire, and a select with both channels ready picks either at
\* random, so it does not ignore the stop channel forever.
FairSpec ==
    /\ Spec
    /\ \A p \in Handlers : WF_vars(Proceed(p))
    /\ \A k \in Keys, n \in Slots :
         /\ WF_vars(Dispatch(k, n))
         /\ WF_vars(TimerFires(k, n))
         /\ SF_vars(StopReceived(k, n))

-----------------------------------------------------------------------------
(* Properties that hold however requests and goroutines interleave *)

\* A workflow never fires twice over: of its goroutines at most one has not
\* been told to stop, and it is the one stopFiring would stop.
OneLiveLoop == \A k \in Keys, n \in Slots : Open(k, n) => stops[k] = n

\* startFiring and stopFiring never close a closed channel, which panics: the
\* registered one is open, and its goroutine is there to receive from it.
RegisteredIsOpen == \A k \in Keys : stops[k] # 0 => Open(k, stops[k])

\* A goroutine that was told to stop ends, however often its timer fires.
Stopping(k, n) == loop[k][n].at # "none" /\ ~Open(k, n)
StoppedLoopEnds == \A k \in Keys, n \in Slots : Stopping(k, n) ~> ~Stopping(k, n)

\* A workflow whose goroutine stays registered keeps being dispatched.
KeepsFiring ==
    \A k \in Keys, n \in Slots :
      <>[](stops[k] = n) => []<>(loop[k][n].at = "dispatch")

-----------------------------------------------------------------------------
(* Properties of requests that do not overlap (at most one handler) *)

Quiet(k) == \A p \in Handlers : handler[p].at \in {"start", "stop", "delete"} => handler[p].key # k

\* Until a restart a workflow fires as the last request about it asked: with
\* the recurrence of an enabled definition, and not at all once it is
\* disabled or deleted, whatever dispatches were under way.
FiresAsAsked ==
    \A k \in Keys : Quiet(k) =>
      /\ Fires(asked[k]) => stops[k] # 0 /\ loop[k][stops[k]].definition = asked[k].definition
      /\ asked[k] = Absent \/ asked[k].state = "Disabled" => stops[k] = 0

-----------------------------------------------------------------------------
(* What the comments of logicapps.go promise *)

\* "Cualquier otro shape ... se acepta igual como passthrough pero no dispara
\* nada": an enabled workflow without a Recurrence trigger does not fire.
PassthroughNeverFires ==
    \A k \in Keys : Quiet(k) /\ asked[k] # Absent /\ asked[k].definition \notin Recurring
                      => stops[k] = 0

\* README: a definition that is not one Recurrence trigger and one Http action
\* is "rejected with 400", so no such workflow is ever stored.
OnlyRecurringStored ==
    \A k \in Keys : workflows[k] # Absent => workflows[k].definition \in Recurring

\* "goroutines de disparo activos (uno por workflow habilitado)": only an
\* enabled workflow has one.
FiresOnlyEnabled ==
    \A k \in Keys : Quiet(k) /\ stops[k] # 0 =>
      workflows[k] # Absent /\ workflows[k].state = "Enabled"

\* "resuming automatically on server restart for any workflow left Enabled":
\* a restart resumes only workflows that the last request left enabled.
ResumesOnlyEnabled ==
    [][\A k \in Keys : Restart /\ Quiet(k) /\ stops'[k] # 0 => Fires(asked[k])]_vars
=============================================================================
