----------------------------- MODULE Deployments ----------------------------
(***************************************************************************)
(* ARM deployments, internal/services/deployments/deployments.go: a PUT    *)
(* dispatches the resources of a template one after another to the other   *)
(* services, replaces the deployment's stored operations, and records the  *)
(* outcome.  The deployment's bucket, the one of its operations and the    *)
(* one of its template are written by separate database calls.  An action  *)
(* is one call, or one access to the registry of Operations.               *)
(***************************************************************************)
EXTENDS Integers, Sequences, FiniteSets

CONSTANTS
    Names,         \* deployments of a resource group
    Resources,     \* resources a template may hold
    Handlers,      \* requests that can be in progress at once
    MaxResources,  \* bound on the resources of a template
    MaxOperations,
    MaxFaults,     \* bound on failed calls and crashes
    NoOperation, NoDeployment, NoTemplate

\* The resources of a template as orderByDependencies leaves them.
Templates ==
    UNION {{t \in [1..n -> Resources] : \A i, j \in 1..n : t[i] = t[j] => i = j} : n \in 0..MaxResources}

ResourcesOf(t) == IF t = NoTemplate THEN <<>> ELSE t

ASSUME BoundsAssumption ==
    MaxResources \in Nat /\ MaxOperations \in Nat /\ MaxFaults \in Nat
ASSUME NoneAssumption == NoTemplate \notin Templates

VARIABLES
    deployments,  \* bucket deployments
    operations,   \* bucket of operations, by deployment and position
    templates,    \* bucket of the templates as the client sent them
    deployed,     \* the resources the other services have created
    seq, ops,     \* the registry of asynchronous operations
    handed,       \* history: the polling ids given to clients, with what they announce
    handler,      \* what each request in progress carries
    faults        \* failed calls and crashes so far

vars == <<deployments, operations, templates, deployed, seq, ops, handed, handler, faults>>

Registry == INSTANCE Operations

store == <<deployments, operations, templates>>
polling == <<seq, ops, handed>>

-----------------------------------------------------------------------------
(* Types *)

Positions == 1..MaxResources
Outcomes == {"Succeeded", "Failed"}
Operation == [resource : Resources, state : Outcomes]
Deployment == [template : Templates \union {NoTemplate}, state : Outcomes]

Idle == [at |-> "idle"]
Steps == {"dispatch", "list", "clear", "persist", "register", "record", "template", "drop"}
Job == [at : Steps, kind : {"put", "delete"}, name : Names,
        template : Templates \union {NoTemplate}, existed : BOOLEAN,
        done : Seq(Operation), left : SUBSET Positions, id : 0..MaxOperations]

ASSUME AbsentAssumption == NoOperation \notin Operation /\ NoDeployment \notin Deployment

\* Every variable has the type the code gives it.
TypeOK ==
    /\ deployments \in [Names -> Deployment \union {NoDeployment}]
    /\ operations \in [Names -> [Positions -> Operation \union {NoOperation}]]
    /\ templates \in [Names -> Templates \union {NoTemplate}]
    /\ deployed \subseteq Resources
    /\ Registry!OperationsTypeOK
    /\ handed \subseteq [id : 1..MaxOperations, outcome : Outcomes]
    /\ handler \in [Handlers -> {Idle} \union Job]
    /\ faults \in 0..MaxFaults

-----------------------------------------------------------------------------
(* Helpers *)

Goto(p, state) == handler' = [handler EXCEPT ![p] = state]

\* The states of a run: Failed when its last resource failed.
OutcomeOf(done) ==
    IF done # <<>> /\ done[Len(done)].state = "Failed" THEN "Failed" ELSE "Succeeded"

IsLeast(k, S) == k \in S /\ \A other \in S : k <= other

\* persistOperations starts, unless there are none.
Persisting(job) ==
    [job EXCEPT !.left = 1..Len(job.done), !.at = IF job.done = <<>> THEN "register" ELSE "persist"]

\* clearOperations is over: what its caller does next.
Cleared(job) ==
    IF job.kind = "put" THEN Persisting(job) ELSE [job EXCEPT !.at = "register"]

\* dispatchResources is over: the operations of an earlier run are cleared.
Dispatched(job) ==
    IF job.existed THEN [job EXCEPT !.at = "list"] ELSE Persisting(job)

-----------------------------------------------------------------------------
(* Steps of the requests *)

Init ==
    /\ deployments = [n \in Names |-> NoDeployment]
    /\ operations = [n \in Names |-> [k \in Positions |-> NoOperation]]
    /\ templates = [n \in Names |-> NoTemplate]
    /\ deployed = {}
    /\ Registry!Started
    /\ handed = {}
    /\ handler = [p \in Handlers |-> Idle]
    /\ faults = 0

\* A request arrives; each one in progress will register an operation.
Arrives(p) ==
    /\ handler[p].at = "idle"
    /\ seq + Cardinality({q \in Handlers : handler[q].at # "idle"}) < MaxOperations

\* PUT .../deployments/{n}: look the deployment up, resolve and order the
\* template.  An error of the lookup is ignored, the deployment taken for new.
PutDeployment(p, n, t) ==
    /\ Arrives(p)
    /\ \E existed \in BOOLEAN :
         /\ \/ existed = (deployments[n] # NoDeployment) /\ UNCHANGED faults
            \/ ~existed /\ faults < MaxFaults /\ faults' = faults + 1
         /\ LET job == [at |-> "dispatch", kind |-> "put", name |-> n, template |-> t,
                        existed |-> existed, done |-> <<>>, left |-> {}, id |-> 0]
            IN Goto(p, IF ResourcesOf(t) = <<>> THEN Dispatched(job) ELSE job)
    /\ UNCHANGED <<store, deployed, polling>>

\* Fault: the remaining resources are dispatched though one failed.
DispatchThroughFailure(p) ==
    LET job == handler[p]
        resource == ResourcesOf(job.template)[Len(job.done) + 1]
    IN
    /\ job.at = "dispatch"
    /\ \E state \in Outcomes :
         LET after == [job EXCEPT !.done = Append(@, [resource |-> resource, state |-> state])] IN
         /\ deployed' = IF state = "Succeeded" THEN deployed \union {resource} ELSE deployed
         /\ Goto(p, IF Len(after.done) = Len(ResourcesOf(job.template)) THEN Dispatched(after) ELSE after)
    /\ UNCHANGED <<store, polling, faults>>

\* One turn of dispatchResources: the PUT of the next resource, which its
\* service accepts or refuses; it stops at the first one refused.
DispatchResource(p) ==
    LET job == handler[p]
        resource == ResourcesOf(job.template)[Len(job.done) + 1]
    IN
    /\ job.at = "dispatch"
    /\ \E state \in Outcomes :
         LET after == [job EXCEPT !.done = Append(@, [resource |-> resource, state |-> state])]
             last == state = "Failed" \/ Len(after.done) = Len(ResourcesOf(job.template))
         IN
         /\ deployed' = IF state = "Succeeded" THEN deployed \union {resource} ELSE deployed
         /\ Goto(p, IF last THEN Dispatched(after) ELSE after)
    /\ UNCHANGED <<store, polling, faults>>

\* Fault: the listing stops at a position that holds no operation.
ListFirst(p) ==
    LET job == handler[p]
        keys == {k \in Positions : \A lower \in 1..k : operations[job.name][lower] # NoOperation}
    IN
    /\ job.at = "list"
    /\ Goto(p, IF keys = {} THEN Cleared(job) ELSE [job EXCEPT !.at = "clear", !.left = keys])
    /\ UNCHANGED <<store, deployed, polling, faults>>

\* clearOperations: list the operations stored for the deployment.
ListOperations(p) ==
    LET job == handler[p]
        keys == {k \in Positions : operations[job.name][k] # NoOperation}
    IN
    /\ job.at = "list"
    /\ Goto(p, IF keys = {} THEN Cleared(job) ELSE [job EXCEPT !.at = "clear", !.left = keys])
    /\ UNCHANGED <<store, deployed, polling, faults>>

\* Fault: the first operation is all that is cleared.
ClearOne(p) ==
    LET job == handler[p] IN
    /\ job.at = "clear"
    /\ \E k \in Positions :
         /\ IsLeast(k, job.left)
         /\ operations' = [operations EXCEPT ![job.name][k] = NoOperation]
         /\ Goto(p, Cleared(job))
    /\ UNCHANGED <<deployments, templates, deployed, polling, faults>>

\* clearOperations: delete the next of the operations listed.
ClearOperation(p) ==
    LET job == handler[p] IN
    /\ job.at = "clear"
    /\ \E k \in Positions :
         /\ IsLeast(k, job.left)
         /\ operations' = [operations EXCEPT ![job.name][k] = NoOperation]
         /\ Goto(p, IF job.left = {k} THEN Cleared(job) ELSE [job EXCEPT !.left = @ \ {k}])
    /\ UNCHANGED <<deployments, templates, deployed, polling, faults>>

\* Fault: the operation stored is not taken off the list.
PersistAgain(p) ==
    LET job == handler[p] IN
    /\ job.at = "persist"
    /\ \E k \in Positions :
         /\ IsLeast(k, job.left)
         /\ operations' = [operations EXCEPT ![job.name][k] = job.done[k]]
         /\ Goto(p, [job EXCEPT !.at = IF job.left = {k} THEN "register" ELSE @])
    /\ UNCHANGED <<deployments, templates, deployed, polling, faults>>

\* persistOperations: store the next operation of this run.
PersistOperation(p) ==
    LET job == handler[p] IN
    /\ job.at = "persist"
    /\ \E k \in Positions :
         /\ IsLeast(k, job.left)
         /\ operations' = [operations EXCEPT ![job.name][k] = job.done[k]]
         /\ Goto(p, [job EXCEPT !.left = @ \ {k}, !.at = IF job.left = {k} THEN "register" ELSE @])
    /\ UNCHANGED <<deployments, templates, deployed, polling, faults>>

\* Register the outcome to be polled; a DELETE is answered with its id.
RegisterOutcome(p) ==
    LET job == handler[p] IN
    /\ job.at = "register"
    /\ \E id \in 1..MaxOperations :
         /\ Registry!RegisterOperation(id, OutcomeOf(job.done))
         /\ \/ job.kind = "put" /\ Goto(p, [job EXCEPT !.at = "record", !.id = id]) /\ UNCHANGED handed
            \/ /\ job.kind = "delete" /\ Goto(p, Idle)
               /\ handed' = handed \union {[id |-> id, outcome |-> "Succeeded"]}
    /\ UNCHANGED <<store, deployed, faults>>

\* The answer to a PUT: the deployment, and where to poll its operation.
Answer(p) ==
    /\ handed' = handed \union {[id |-> handler[p].id, outcome |-> OutcomeOf(handler[p].done)]}
    /\ Goto(p, Idle)

\* Store the deployment; without a template in the request that is all.
RecordDeployment(p) ==
    LET job == handler[p] IN
    /\ job.at = "record"
    /\ deployments' = [deployments EXCEPT ![job.name] =
         [template |-> job.template, state |-> OutcomeOf(job.done)]]
    /\ \/ job.template = NoTemplate /\ Answer(p)
       \/ job.template # NoTemplate /\ Goto(p, [job EXCEPT !.at = "template"]) /\ UNCHANGED handed
    /\ UNCHANGED <<operations, templates, deployed, seq, ops, faults>>

\* Fault: the template of a deployment that existed is kept.
PutTemplateOnce(p) ==
    /\ handler[p].at = "template"
    /\ templates' = [templates EXCEPT ![handler[p].name] =
         IF handler[p].existed THEN @ ELSE handler[p].template]
    /\ Answer(p)
    /\ UNCHANGED <<deployments, operations, deployed, seq, ops, faults>>

\* Store the template as the client sent it, for exportTemplate.
PutTemplate(p) ==
    /\ handler[p].at = "template"
    /\ templates' = [templates EXCEPT ![handler[p].name] = handler[p].template]
    /\ Answer(p)
    /\ UNCHANGED <<deployments, operations, deployed, seq, ops, faults>>

\* DELETE .../deployments/{n}: 204 unless it is there.
DeleteDeployment(p, n) ==
    /\ Arrives(p)
    /\ deployments[n] # NoDeployment
    /\ Goto(p, [at |-> "drop", kind |-> "delete", name |-> n, template |-> NoTemplate,
                existed |-> TRUE, done |-> <<>>, left |-> {}, id |-> 0])
    /\ UNCHANGED <<store, deployed, polling, faults>>

\* The deployment goes first, then its operations; its template stays.
DropDeployment(p) ==
    LET job == handler[p] IN
    /\ job.at = "drop"
    /\ deployments' = [deployments EXCEPT ![job.name] = NoDeployment]
    /\ Goto(p, [job EXCEPT !.at = "list"])
    /\ UNCHANGED <<operations, templates, deployed, polling, faults>>

-----------------------------------------------------------------------------
(* Failures *)

\* A database call fails: the request ends with a 500 where it is.
CallFails(p) ==
    /\ faults < MaxFaults
    /\ handler[p].at \in {"list", "clear", "persist", "record", "template", "drop"}
    /\ Goto(p, Idle)
    /\ faults' = faults + 1
    /\ UNCHANGED <<store, deployed, polling>>

\* The process dies and starts again: the registry is lost with the requests.
Crash ==
    /\ faults < MaxFaults
    /\ handler' = [p \in Handlers |-> Idle]
    /\ Registry!Restarted
    /\ faults' = faults + 1
    /\ UNCHANGED <<store, deployed, handed>>

Step(p) ==
    \/ DispatchResource(p) \/ ListOperations(p) \/ ClearOperation(p) \/ PersistOperation(p)
    \/ RegisterOutcome(p) \/ RecordDeployment(p) \/ PutTemplate(p) \/ DropDeployment(p)

Next ==
    \/ \E p \in Handlers, n \in Names, t \in Templates \union {NoTemplate} : PutDeployment(p, n, t)
    \/ \E p \in Handlers, n \in Names : DeleteDeployment(p, n)
    \/ \E p \in Handlers : Step(p) \/ CallFails(p)
    \/ Crash

Spec == Init /\ [][Next]_vars

FairSpec == Spec /\ \A p \in Handlers : WF_vars(Step(p))

-----------------------------------------------------------------------------
(* Properties *)

\* No request for the deployment is in progress.
Quiet(n) == \A p \in Handlers : handler[p].at = "idle" \/ handler[p].name # n

\* Between requests, none of which was cut short, the stored operations are
\* those of the run that was recorded and of no other: one for each resource,
\* in order, up to the first that failed; none without a deployment.
OperationsMatch ==
    \A n \in Names : faults = 0 /\ Quiet(n) =>
      LET stored == {k \in Positions : operations[n][k] # NoOperation}
          record == deployments[n]
      IN IF record = NoDeployment THEN stored = {}
         ELSE LET resources == ResourcesOf(record.template) IN
              /\ \E last \in 0..Len(resources) :
                   /\ stored = 1..last
                   /\ record.state = "Succeeded" => last = Len(resources)
                   /\ record.state = "Failed" => last > 0
                   /\ \A k \in 1..last :
                        operations[n][k] =
                          [resource |-> resources[k],
                           state |-> IF k = last THEN record.state ELSE "Succeeded"]

OwnOperations(job) ==
    \A k \in Positions :
      operations[job.name][k] = IF k <= Len(job.done) THEN job.done[k] ELSE NoOperation
PutAnswered(p) ==
    handler[p].at \in {"record", "template"} /\ handed' # handed /\ handler'[p] = Idle

\* "si no, una redeploy con menos recursos que la anterior dejaria entradas
\* obsoletas mezcladas": when a PUT is answered the stored operations are
\* those of its run, whatever an earlier one cut short has left.
AnswersOwnOperations == [][\A p \in Handlers : PutAnswered(p) => OwnOperations(handler[p])]_vars

\* The same of a PUT that found its deployment recorded: it repairs what
\* failures and crashes of earlier requests have left.
RedeployRepairs ==
    [][\A p \in Handlers :
         PutAnswered(p) /\ handler[p].existed => OwnOperations(handler[p])]_vars

\* What exportTemplate returns for a deployment between requests.
Exported(n) == templates[n]

\* exportTemplate returns the template of the last PUT that had one, unless
\* that was cut short.
ExportsDeployed ==
    \A n \in Names : faults = 0 /\ Quiet(n) /\ deployments[n] # NoDeployment =>
      \/ deployments[n].template = NoTemplate
      \/ Exported(n) = deployments[n].template

\* exportTemplate returns the template of the deployment, and the empty one
\* for a deployment that has none.
ExportsOwnTemplate ==
    \A n \in Names : Quiet(n) /\ deployments[n] # NoDeployment =>
      Exported(n) = deployments[n].template

\* A deployment is recorded Succeeded only if each of its resources was
\* created, however the requests interleave.
SucceededIsComplete ==
    \A n \in Names :
      deployments[n] # NoDeployment /\ deployments[n].state = "Succeeded" =>
        \A k \in 1..Len(ResourcesOf(deployments[n].template)) :
          ResourcesOf(deployments[n].template)[k] \in deployed

\* Polling an operation answers the outcome the client was promised (in runs
\* without a restart, which loses the registry).
PollsOwnOutcome == \A h \in handed : Registry!Polled(h.id) = h.outcome

\* Every request is answered.
Responds == \A p \in Handlers : handler[p].at # "idle" ~> handler[p].at = "idle"
=============================================================================
