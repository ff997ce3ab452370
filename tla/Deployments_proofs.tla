------------------------- MODULE Deployments_proofs -------------------------
(***************************************************************************)
(* Theorems about Deployments, for any deployments, resources, templates,  *)
(* bounds and, unless OneHandler is assumed, any number of requests.       *)
(***************************************************************************)
EXTENDS Deployments, TLAPS

-----------------------------------------------------------------------------
(* Types *)

\* The resources of a template are a sequence of bounded length.
LEMMA TemplateType ==
  ASSUME NEW t \in Templates \union {NoTemplate}
  PROVE  /\ ResourcesOf(t) \in Seq(Resources)
         /\ Len(ResourcesOf(t)) \in 0..MaxResources
<1>1. CASE t = NoTemplate
  BY <1>1, BoundsAssumption DEF ResourcesOf
<1>2. CASE t \in Templates
  <2>1. PICK n \in 0..MaxResources : t \in [1..n -> Resources]
    BY <1>2 DEF Templates
  <2>2. t # NoTemplate
    BY <1>2, NoneAssumption
  <2>3. n \in Nat /\ ResourcesOf(t) = t
    BY <2>2, BoundsAssumption DEF ResourcesOf
  <2>4. t \in Seq(Resources) /\ Len(t) = n
    BY <2>1, <2>3
  <2>5. QED
    BY <2>3, <2>4
<1>3. QED
  BY <1>1, <1>2

\* A request in progress carries a job.
LEMMA JobType ==
  ASSUME TypeOK, NEW p \in Handlers, handler[p].at # "idle"
  PROVE  handler[p] \in Job
BY DEF TypeOK, Idle

\* The outcome of a run is one, and Succeeded for the run of no resource.
LEMMA OutcomeType ==
  ASSUME NEW done \in Seq(Operation)
  PROVE  OutcomeOf(done) \in Outcomes
BY DEF OutcomeOf, Outcomes

\* A job about to persist its run.
Starts(job) ==
  \/ job.at = "register" /\ job.done = <<>>
  \/ job.at = "persist" /\ job.done # <<>> /\ job.left = 1..Len(job.done)

\* A job of the same request with the same run.
SameRun(job, after) ==
  /\ after.kind = job.kind /\ after.name = job.name /\ after.template = job.template
  /\ after.done = job.done /\ after.existed = job.existed

\* What a job becomes is a job, with the same run.
LEMMA JobMoves ==
  ASSUME NEW job \in Job, Len(job.done) <= MaxResources
  PROVE  /\ Persisting(job) \in Job /\ SameRun(job, Persisting(job)) /\ Starts(Persisting(job))
         /\ Cleared(job) \in Job /\ SameRun(job, Cleared(job))
         /\ IF job.kind = "put" THEN Starts(Cleared(job)) ELSE Cleared(job).at = "register"
         /\ Dispatched(job) \in Job /\ SameRun(job, Dispatched(job))
         /\ IF job.existed THEN Dispatched(job).at = "list" ELSE Starts(Dispatched(job))
<1>1. 1..Len(job.done) \subseteq Positions
  BY BoundsAssumption DEF Job, Positions
<1>2. Persisting(job) \in Job /\ SameRun(job, Persisting(job)) /\ Starts(Persisting(job))
  BY <1>1 DEF Persisting, Job, Steps, SameRun, Starts
<1>3. /\ Cleared(job) \in Job /\ SameRun(job, Cleared(job))
      /\ IF job.kind = "put" THEN Starts(Cleared(job)) ELSE Cleared(job).at = "register"
  BY <1>2 DEF Cleared, Job, Steps, SameRun
<1>4. /\ Dispatched(job) \in Job /\ SameRun(job, Dispatched(job))
      /\ IF job.existed THEN Dispatched(job).at = "list" ELSE Starts(Dispatched(job))
  BY <1>2 DEF Dispatched, Job, Steps, SameRun
<1>5. QED
  BY <1>2, <1>3, <1>4

-----------------------------------------------------------------------------
(* A run, and what is recorded of it *)

\* What a job has done: its resources in order, all created but the last if
\* that failed; the resources that are left are tried unless one failed.  What
\* is left to persist is of the run; only a PUT with an operation is recorded.
RunSoFar(job, created) ==
  LET resources == ResourcesOf(job.template) IN
  /\ Len(job.done) <= Len(resources)
  /\ \A k \in 1..Len(job.done) :
       /\ job.done[k].resource = resources[k]
       /\ job.done[k].state = "Succeeded" => resources[k] \in created
       /\ k < Len(job.done) => job.done[k].state = "Succeeded"
  /\ job.at = "dispatch" => Len(job.done) < Len(resources) /\ OutcomeOf(job.done) = "Succeeded"
  /\ job.at # "dispatch" /\ OutcomeOf(job.done) = "Succeeded" => Len(job.done) = Len(resources)
  /\ job.kind = "delete" => job.template = NoTemplate
  /\ job.at = "persist" => job.left \subseteq 1..Len(job.done)
  /\ job.at \in {"record", "template"} => job.id # 0 /\ job.kind = "put"

Runs == \A p \in Handlers : handler[p].at # "idle" => RunSoFar(handler[p], deployed)

CompleteInv == TypeOK /\ Runs /\ SucceededIsComplete

\* A request in progress carries a job, and has run at most what it may.
LEMMA Busy ==
  ASSUME TypeOK, Runs, NEW p \in Handlers, handler[p].at # "idle"
  PROVE  /\ handler[p] \in Job
         /\ RunSoFar(handler[p], deployed)
         /\ Len(handler[p].done) <= MaxResources
<1>1. handler[p] \in Job /\ RunSoFar(handler[p], deployed)
  BY JobType DEF Runs
<1>2. QED
  BY <1>1, TemplateType, BoundsAssumption DEF RunSoFar, Job

\* A request that goes on with its run leaves every run in order.
LEMMA RunsMove ==
  ASSUME TypeOK, Runs, NEW p \in Handlers, NEW after, Goto(p, after),
         deployed \subseteq deployed',
         after = Idle \/ (after \in Job /\ RunSoFar(after, deployed'))
  PROVE  handler' \in [Handlers -> {Idle} \union Job] /\ Runs'
<1>1. handler' \in [Handlers -> {Idle} \union Job]
  BY DEF TypeOK, Goto
<1>2. handler'[p] = after /\ \A q \in Handlers : q # p => handler'[q] = handler[q]
  BY DEF TypeOK, Goto
<1>3. ASSUME NEW q \in Handlers, handler'[q].at # "idle" PROVE RunSoFar(handler'[q], deployed')
  <2>1. CASE q = p
    BY <1>2, <1>3, <2>1 DEF Idle
  <2>2. CASE q # p
    <3>1. RunSoFar(handler[q], deployed)
      BY <1>2, <1>3, <2>2 DEF Runs
    <3>2. RunSoFar(handler[q], deployed')
      BY <3>1 DEF RunSoFar
    <3>3. QED
      BY <1>2, <2>2, <3>2
  <2>3. QED
    BY <2>1, <2>2
<1>4. Runs'
  BY <1>3 DEF Runs
<1>5. QED
  BY <1>1, <1>4

\* The same run, later, is in order.
LEMMA RunKept ==
  ASSUME NEW job, NEW after, NEW created, RunSoFar(job, created), job.at # "dispatch",
         SameRun(job, after), after.at # "dispatch",
         after.at = "persist" => after.left \subseteq 1..Len(job.done),
         after.at \in {"record", "template"} => after.id # 0 /\ after.kind = "put"
  PROVE  RunSoFar(after, created)
BY DEF RunSoFar, SameRun

\* A run that succeeded has created every resource of its template.
LEMMA RunComplete ==
  ASSUME NEW job \in Job, NEW created, RunSoFar(job, created), job.at # "dispatch",
         OutcomeOf(job.done) = "Succeeded"
  PROVE  \A k \in 1..Len(ResourcesOf(job.template)) : ResourcesOf(job.template)[k] \in created
<1>1. Len(job.done) = Len(ResourcesOf(job.template)) /\ Len(job.done) \in Nat
  BY DEF RunSoFar, Job
<1>2. ASSUME NEW k \in 1..Len(job.done) PROVE job.done[k].state = "Succeeded"
  <2>1. job.done[k] \in Operation /\ job.done # <<>>
    BY <1>1, <1>2 DEF Job
  <2>2. CASE k < Len(job.done)
    BY <1>2, <2>2 DEF RunSoFar
  <2>3. CASE k = Len(job.done)
    BY <2>1, <2>3 DEF OutcomeOf, Operation, Outcomes
  <2>4. QED
    BY <1>1, <1>2, <2>2, <2>3
<1>3. QED
  BY <1>1, <1>2 DEF RunSoFar

-----------------------------------------------------------------------------
(* Type correctness and complete success *)

\* What is not about handlers stays as it is.
Rest == <<deployments, operations, templates, deployed, seq, ops, handed, faults>>

LEMMA CompleteInit == Init => CompleteInv
<1> SUFFICES ASSUME Init PROVE CompleteInv
  OBVIOUS
<1>1. TypeOK
  BY BoundsAssumption DEF Init, TypeOK, Registry!Started, Registry!OperationsTypeOK,
       Registry!OperationIds, Registry!Outcomes
<1>2. Runs /\ SucceededIsComplete
  BY DEF Init, Runs, SucceededIsComplete, Idle
<1>3. QED
  BY <1>1, <1>2 DEF CompleteInv

\* A step of a request that stores no deployment and registers nothing.
LEMMA QuietStep ==
  ASSUME CompleteInv, NEW p \in Handlers, NEW after, Goto(p, after),
         after = Idle \/ (after \in Job /\ RunSoFar(after, deployed')),
         deployed \subseteq deployed', deployed' \subseteq Resources,
         operations' \in [Names -> [Positions -> Operation \union {NoOperation}]],
         faults' \in 0..MaxFaults,
         UNCHANGED <<deployments, templates, polling>>
  PROVE  CompleteInv'
<1>1. handler' \in [Handlers -> {Idle} \union Job] /\ Runs'
  BY RunsMove DEF CompleteInv
<1>2. TypeOK'
  BY <1>1 DEF CompleteInv, TypeOK, polling, Registry!OperationsTypeOK
<1>3. SucceededIsComplete'
  BY DEF CompleteInv, SucceededIsComplete
<1>4. QED
  BY <1>1, <1>2, <1>3 DEF CompleteInv

LEMMA CompletePut ==
  ASSUME CompleteInv, NEW p \in Handlers, NEW n \in Names, NEW t \in Templates \union {NoTemplate},
         PutDeployment(p, n, t)
  PROVE  CompleteInv'
<1>1. PICK existed \in BOOLEAN :
        /\ \/ existed = (deployments[n] # NoDeployment) /\ UNCHANGED faults
           \/ ~existed /\ faults < MaxFaults /\ faults' = faults + 1
        /\ LET job == [at |-> "dispatch", kind |-> "put", name |-> n, template |-> t,
                       existed |-> existed, done |-> <<>>, left |-> {}, id |-> 0]
           IN Goto(p, IF ResourcesOf(t) = <<>> THEN Dispatched(job) ELSE job)
  BY DEF PutDeployment
<1>0. faults' \in 0..MaxFaults
  BY <1>1, BoundsAssumption DEF CompleteInv, TypeOK
<1> DEFINE job == [at |-> "dispatch", kind |-> "put", name |-> n, template |-> t,
                   existed |-> existed, done |-> <<>>, left |-> {}, id |-> 0]
<1>2. /\ job \in Job /\ job.at = "dispatch" /\ job.kind = "put" /\ job.done = <<>>
      /\ job.template = t
  BY BoundsAssumption DEF Job, Steps
<1> HIDE DEF job
<1>3. CASE ResourcesOf(t) = <<>>
  <2>1. /\ Dispatched(job) \in Job /\ Dispatched(job).at \in {"list", "persist", "register"}
        /\ SameRun(job, Dispatched(job))
        /\ Dispatched(job).at = "persist" => Dispatched(job).left = 1..Len(Dispatched(job).done)
    BY <1>2, JobMoves, BoundsAssumption DEF Starts
  <2>2. RunSoFar(Dispatched(job), deployed)
    BY <1>2, <1>3, <2>1 DEF RunSoFar, SameRun
  <2>3. Goto(p, Dispatched(job)) /\ UNCHANGED <<store, deployed, polling>>
    BY <1>1, <1>3 DEF PutDeployment, job
  <2>4. QED
    BY <1>0, <2>1, <2>2, <2>3, QuietStep DEF store, CompleteInv, TypeOK
<1>4. CASE ResourcesOf(t) # <<>>
  <2>1. RunSoFar(job, deployed)
    <3>1. Len(ResourcesOf(t)) \in Nat \ {0}
      BY <1>4, TemplateType, BoundsAssumption
    <3>2. QED
      BY <1>2, <3>1 DEF RunSoFar, OutcomeOf
  <2>2. Goto(p, job) /\ UNCHANGED <<store, deployed, polling>>
    BY <1>1, <1>4 DEF PutDeployment, job
  <2>3. QED
    BY <1>0, <1>2, <2>1, <2>2, QuietStep DEF store, CompleteInv, TypeOK
<1>5. QED
  BY <1>3, <1>4

LEMMA CompleteDelete ==
  ASSUME CompleteInv, NEW p \in Handlers, NEW n \in Names, DeleteDeployment(p, n)
  PROVE  CompleteInv'
<1> DEFINE job == [at |-> "drop", kind |-> "delete", name |-> n, template |-> NoTemplate,
                   existed |-> TRUE, done |-> <<>>, left |-> {}, id |-> 0]
<1>1. job \in Job
  BY BoundsAssumption DEF Job, Steps
<1>2. RunSoFar(job, deployed)
  BY DEF RunSoFar, ResourcesOf
<1>3. Goto(p, job) /\ UNCHANGED <<store, deployed, polling, faults>>
  BY DEF DeleteDeployment
<1>4. QED
  BY <1>1, <1>2, <1>3, QuietStep DEF store, CompleteInv, TypeOK

\* A run that goes on, or is over.
LEMMA DispatchMoves ==
  ASSUME CompleteInv, NEW p \in Handlers, DispatchResource(p)
  PROVE  /\ deployed \subseteq deployed' /\ deployed' \subseteq Resources
         /\ \E next \in Job :
              /\ Goto(p, next)
              /\ RunSoFar(next, deployed')
              /\ next.name = handler[p].name /\ next.kind = handler[p].kind
              /\ next.existed = handler[p].existed
              /\ \/ next.at = "dispatch"
                 \/ IF next.existed THEN next.at = "list" ELSE Starts(next)
<1> DEFINE job == handler[p]
           resources == ResourcesOf(job.template)
           resource == resources[Len(job.done) + 1]
<1>1. job.at = "dispatch" /\ job \in Job /\ RunSoFar(job, deployed)
  BY Busy DEF DispatchResource, CompleteInv
<1>2. resources \in Seq(Resources) /\ Len(resources) \in 0..MaxResources
  BY <1>1, TemplateType DEF Job
<1>3. Len(job.done) \in Nat /\ Len(job.done) < Len(resources) /\ resource \in Resources
  BY <1>1, <1>2 DEF RunSoFar, Job
<1>4. PICK state \in Outcomes :
        LET after == [job EXCEPT !.done = Append(@, [resource |-> resource, state |-> state])]
            last == state = "Failed" \/ Len(after.done) = Len(resources)
        IN /\ deployed' = IF state = "Succeeded" THEN deployed \union {resource} ELSE deployed
           /\ Goto(p, IF last THEN Dispatched(after) ELSE after)
  BY DEF DispatchResource
<1> DEFINE after == [job EXCEPT !.done = Append(@, [resource |-> resource, state |-> state])]
           last == state = "Failed" \/ Len(after.done) = Len(resources)
           next == IF last THEN Dispatched(after) ELSE after
<1>5. /\ deployed' = IF state = "Succeeded" THEN deployed \union {resource} ELSE deployed
      /\ Goto(p, next)
      /\ UNCHANGED <<store, polling, faults>>
  BY <1>4 DEF DispatchResource
<1>6. /\ after \in Job /\ after.at = "dispatch" /\ after.kind = job.kind /\ after.template = job.template
      /\ after.name = job.name /\ after.existed = job.existed
      /\ after.done = Append(job.done, [resource |-> resource, state |-> state])
  <2> DEFINE entry == [resource |-> resource, state |-> state]
  <2>1. entry \in Operation
    BY <1>3 DEF Operation
  <2> HIDE DEF entry, resource, resources
  <2>2. Append(job.done, entry) \in Seq(Operation)
    BY <1>1, <2>1 DEF Job
  <2>3. after = [job EXCEPT !.done = Append(job.done, entry)]
    BY DEF entry
  <2> HIDE DEF after, job
  <2>4. /\ after \in Job /\ after.at = job.at /\ after.kind = job.kind /\ after.template = job.template
        /\ after.name = job.name /\ after.existed = job.existed
        /\ after.done = Append(job.done, entry)
    BY <1>1, <2>2, <2>3 DEF Job
  <2>5. QED
    BY <1>1, <2>4 DEF entry
<1> HIDE DEF after, resource, resources, job
<1>7. /\ Len(after.done) = Len(job.done) + 1
      /\ after.done[Len(job.done) + 1] = [resource |-> resource, state |-> state]
      /\ \A k \in 1..Len(job.done) : after.done[k] = job.done[k]
  BY <1>1, <1>6 DEF Job
<1>8. \A k \in 1..Len(job.done) : job.done[k].state = "Succeeded"
  <2>1. SUFFICES ASSUME NEW k \in 1..Len(job.done) PROVE job.done[k].state = "Succeeded"
    OBVIOUS
  <2>2. job.done[k] \in Operation /\ job.done # <<>> /\ OutcomeOf(job.done) = "Succeeded"
    BY <1>1, <1>3 DEF RunSoFar, Job
  <2>3. CASE k < Len(job.done)
    BY <1>1, <2>3 DEF RunSoFar
  <2>4. CASE k = Len(job.done)
    BY <2>2, <2>4 DEF OutcomeOf, Operation, Outcomes
  <2>5. QED
    BY <1>3, <2>3, <2>4
<1>9. /\ Len(after.done) <= Len(resources)
      /\ \A k \in 1..Len(after.done) :
           /\ after.done[k].resource = resources[k]
           /\ after.done[k].state = "Succeeded" => resources[k] \in deployed'
           /\ k < Len(after.done) => after.done[k].state = "Succeeded"
      /\ OutcomeOf(after.done) = state
  <2>1. \A k \in 1..Len(job.done) :
          job.done[k].resource = resources[k] /\ (job.done[k].state = "Succeeded" => resources[k] \in deployed)
    BY <1>1 DEF RunSoFar, resources
  <2>2. deployed \subseteq deployed' /\ (state = "Succeeded" => resource \in deployed')
    BY <1>5
  <2>3. OutcomeOf(after.done) = state
    BY <1>3, <1>7 DEF OutcomeOf, Outcomes
  <2>4. Len(after.done) <= Len(resources)
    BY <1>2, <1>3, <1>7
  <2>5. ASSUME NEW k \in 1..Len(after.done)
        PROVE  /\ after.done[k].resource = resources[k]
               /\ after.done[k].state = "Succeeded" => resources[k] \in deployed'
               /\ k < Len(after.done) => after.done[k].state = "Succeeded"
    <3>1. CASE k \in 1..Len(job.done)
      BY <1>7, <1>8, <2>1, <2>2, <3>1
    <3>2. CASE k = Len(job.done) + 1
      BY <1>3, <1>7, <2>2, <3>2 DEF resource
    <3>3. QED
      BY <1>3, <1>7, <3>1, <3>2
  <2>6. QED
    BY <2>3, <2>4, <2>5
<1>10. /\ next \in Job /\ RunSoFar(next, deployed')
       /\ next.name = job.name /\ next.kind = job.kind /\ next.existed = job.existed
       /\ next.at = "dispatch" \/ (IF next.existed THEN next.at = "list" ELSE Starts(next))
  <2>1. CASE last
    <3>0. next = Dispatched(after)
      BY <2>1
    <3>1. Len(after.done) <= MaxResources
      BY <1>2, <1>3, <1>7, BoundsAssumption
    <3>2. /\ next \in Job /\ SameRun(after, next)
          /\ IF next.existed THEN next.at = "list" ELSE Starts(next)
      BY <1>6, <3>0, <3>1, JobMoves DEF SameRun
    <3>3. OutcomeOf(after.done) = "Succeeded" => Len(after.done) = Len(resources)
      BY <1>9, <2>1
    <3>4. job.kind = "delete" => job.template = NoTemplate
      BY <1>1 DEF RunSoFar
    <3> HIDE DEF next
    <3>5. QED
      BY <1>6, <1>9, <3>2, <3>3, <3>4 DEF RunSoFar, SameRun, Starts, resources
  <2>2. CASE ~last
    <3>1. next = after /\ state = "Succeeded" /\ Len(after.done) # Len(resources)
      BY <2>2 DEF Outcomes
    <3>2. Len(after.done) < Len(resources)
      BY <1>2, <1>3, <1>7, <3>1
    <3>3. job.kind = "delete" => job.template = NoTemplate
      BY <1>1 DEF RunSoFar
    <3>4. QED
      BY <1>6, <1>9, <3>1, <3>2, <3>3 DEF RunSoFar, resources
  <2>3. QED
    BY <2>1, <2>2
<1> HIDE DEF next
<1>11. deployed \subseteq deployed' /\ deployed' \subseteq Resources
  BY <1>3, <1>5 DEF CompleteInv, TypeOK
<1>12. QED
  BY <1>5, <1>10, <1>11 DEF job

LEMMA CompleteDispatch ==
  ASSUME CompleteInv, NEW p \in Handlers, DispatchResource(p)
  PROVE  CompleteInv'
<1>1. PICK next \in Job : Goto(p, next) /\ RunSoFar(next, deployed')
  BY DispatchMoves
<1>2. UNCHANGED <<store, polling, faults>>
  BY DEF DispatchResource
<1>3. QED
  BY <1>1, <1>2, DispatchMoves, QuietStep DEF store, CompleteInv, TypeOK

LEMMA CompleteList ==
  ASSUME CompleteInv, NEW p \in Handlers, ListOperations(p)
  PROVE  CompleteInv'
<1> DEFINE job == handler[p]
           keys == {k \in Positions : operations[job.name][k] # NoOperation}
           next == IF keys = {} THEN Cleared(job) ELSE [job EXCEPT !.at = "clear", !.left = keys]
<1>1. job \in Job /\ RunSoFar(job, deployed) /\ Len(job.done) <= MaxResources /\ job.at = "list"
  BY Busy DEF ListOperations, CompleteInv
<1>2. Goto(p, next) /\ UNCHANGED <<store, deployed, polling, faults>>
  BY DEF ListOperations
<1>3. keys \subseteq Positions
  OBVIOUS
<1> HIDE DEF keys, job
<1>4. /\ next \in Job /\ next.at \notin {"dispatch", "record", "template"} /\ SameRun(job, next)
      /\ next.at = "persist" => next.left \subseteq 1..Len(job.done)
  <2>1. CASE keys = {}
    BY <1>1, <2>1, JobMoves DEF Starts, SameRun
  <2>2. CASE keys # {}
    BY <1>1, <1>3, <2>2 DEF Job, Steps, SameRun
  <2>3. QED
    BY <2>1, <2>2
<1> HIDE DEF next
<1>5. RunSoFar(next, deployed)
  BY <1>1, <1>4, RunKept
<1>6. QED
  BY <1>2, <1>4, <1>5, QuietStep DEF store, CompleteInv, TypeOK

LEMMA CompleteClear ==
  ASSUME CompleteInv, NEW p \in Handlers, ClearOperation(p)
  PROVE  CompleteInv'
<1> DEFINE job == handler[p]
<1>1. job \in Job /\ RunSoFar(job, deployed) /\ Len(job.done) <= MaxResources /\ job.at = "clear"
  BY Busy DEF ClearOperation, CompleteInv
<1>2. PICK k \in Positions :
        /\ operations' = [operations EXCEPT ![job.name][k] = NoOperation]
        /\ Goto(p, IF job.left = {k} THEN Cleared(job) ELSE [job EXCEPT !.left = @ \ {k}])
  BY DEF ClearOperation
<1> DEFINE next == IF job.left = {k} THEN Cleared(job) ELSE [job EXCEPT !.left = job.left \ {k}]
<1>3. /\ next \in Job /\ next.at \notin {"dispatch", "record", "template"} /\ SameRun(job, next)
      /\ next.at = "persist" => next.left \subseteq 1..Len(job.done)
  <2> HIDE DEF job
  <2>1. CASE job.left = {k}
    BY <1>1, <2>1, JobMoves DEF Starts, SameRun
  <2>2. CASE job.left # {k}
    BY <1>1, <2>2 DEF Job, Steps, SameRun
  <2>3. QED
    BY <2>1, <2>2
<1>4. Goto(p, next) /\ UNCHANGED <<deployments, templates, deployed, polling, faults>>
  BY <1>2 DEF ClearOperation
<1>5. operations' \in [Names -> [Positions -> Operation \union {NoOperation}]]
  BY <1>1, <1>2 DEF CompleteInv, TypeOK, Job
<1> HIDE DEF next, job
<1>6. RunSoFar(next, deployed)
  BY <1>1, <1>3, RunKept
<1>7. QED
  BY <1>3, <1>4, <1>5, <1>6, QuietStep DEF CompleteInv, TypeOK

LEMMA CompletePersist ==
  ASSUME CompleteInv, NEW p \in Handlers, PersistOperation(p)
  PROVE  CompleteInv'
<1> DEFINE job == handler[p]
<1>1. job \in Job /\ RunSoFar(job, deployed) /\ job.at = "persist"
  BY Busy DEF PersistOperation, CompleteInv
<1>2. PICK k \in Positions :
        /\ IsLeast(k, job.left)
        /\ operations' = [operations EXCEPT ![job.name][k] = job.done[k]]
        /\ Goto(p, [job EXCEPT !.left = @ \ {k}, !.at = IF job.left = {k} THEN "register" ELSE @])
  BY DEF PersistOperation
<1> DEFINE next == [job EXCEPT !.left = job.left \ {k},
                               !.at = IF job.left = {k} THEN "register" ELSE job.at]
<1>3. /\ next \in Job /\ next.at \notin {"dispatch", "record", "template"} /\ SameRun(job, next)
      /\ next.at = "persist" => next.left \subseteq 1..Len(job.done)
  <2> HIDE DEF job
  <2>1. QED
    BY <1>1 DEF Job, Steps, RunSoFar, SameRun
<1>4. Goto(p, next) /\ UNCHANGED <<deployments, templates, deployed, polling, faults>>
  BY <1>2 DEF PersistOperation
<1>5. operations' \in [Names -> [Positions -> Operation \union {NoOperation}]]
  <2>1. job.name \in Names /\ job.done[k] \in Operation
    BY <1>1, <1>2 DEF RunSoFar, Job, IsLeast
  <2>2. QED
    BY <1>2, <2>1 DEF CompleteInv, TypeOK
<1> HIDE DEF next, job
<1>6. RunSoFar(next, deployed)
  BY <1>1, <1>3, RunKept
<1>7. QED
  BY <1>3, <1>4, <1>5, <1>6, QuietStep DEF CompleteInv, TypeOK

LEMMA CompleteRegister ==
  ASSUME CompleteInv, NEW p \in Handlers, RegisterOutcome(p)
  PROVE  CompleteInv'
<1> DEFINE job == handler[p]
<1>1. job \in Job /\ RunSoFar(job, deployed) /\ job.at = "register"
  BY Busy DEF RegisterOutcome, CompleteInv
<1>2. PICK id \in 1..MaxOperations :
        /\ Registry!RegisterOperation(id, OutcomeOf(job.done))
        /\ \/ job.kind = "put" /\ Goto(p, [job EXCEPT !.at = "record", !.id = id]) /\ UNCHANGED handed
           \/ /\ job.kind = "delete" /\ Goto(p, Idle)
              /\ handed' = handed \union {[id |-> id, outcome |-> "Succeeded"]}
  BY DEF RegisterOutcome
<1>3. UNCHANGED <<store, deployed, faults>>
  BY DEF RegisterOutcome
<1>4. (Registry!OperationsTypeOK)'
  <2>1. OutcomeOf(job.done) \in Outcomes
    BY <1>1, OutcomeType DEF Job
  <2>2. QED
    BY <1>2, <2>1, BoundsAssumption DEF CompleteInv, TypeOK, Registry!OperationsTypeOK,
         Registry!RegisterOperation, Registry!OperationIds, Registry!Outcomes, Outcomes
<1>5. handed' \subseteq [id : 1..MaxOperations, outcome : Outcomes]
  BY <1>2 DEF CompleteInv, TypeOK, Outcomes
<1>6. \E after : Goto(p, after) /\ (after = Idle \/ (after \in Job /\ RunSoFar(after, deployed)))
  <2>1. CASE job.kind = "put" /\ Goto(p, [job EXCEPT !.at = "record", !.id = id])
    <3> DEFINE next == [job EXCEPT !.at = "record", !.id = id]
    <3>1. next \in Job /\ next.at = "record" /\ next.id # 0 /\ SameRun(job, next)
      <4>1. id \in 0..MaxOperations /\ id # 0
        BY BoundsAssumption
      <4> HIDE DEF job
      <4>2. QED
        BY <1>1, <2>1, <4>1 DEF Job, Steps, SameRun
    <3> HIDE DEF next, job
    <3>2. RunSoFar(next, deployed)
      BY <1>1, <2>1, <3>1, RunKept DEF SameRun
    <3>3. QED
      BY <2>1, <3>1, <3>2 DEF next
  <2>2. CASE Goto(p, Idle)
    BY <2>2
  <2>3. QED
    BY <1>2, <2>1, <2>2
<1>7. handler' \in [Handlers -> {Idle} \union Job] /\ Runs'
  BY <1>3, <1>6, RunsMove DEF CompleteInv
<1>8. TypeOK'
  BY <1>3, <1>4, <1>5, <1>7 DEF CompleteInv, TypeOK, store
<1>9. SucceededIsComplete'
  BY <1>3 DEF CompleteInv, SucceededIsComplete, store
<1>10. QED
  BY <1>7, <1>8, <1>9 DEF CompleteInv

\* The answer to a PUT announces the outcome of its run.
LEMMA AnswerType ==
  ASSUME TypeOK, NEW p \in Handlers, handler[p] \in Job, handler[p].id # 0, Answer(p)
  PROVE  handed' \subseteq [id : 1..MaxOperations, outcome : Outcomes]
<1>1. handler[p].id \in 1..MaxOperations
  BY BoundsAssumption DEF Job
<1>2. OutcomeOf(handler[p].done) \in Outcomes
  BY OutcomeType DEF Job
<1>3. QED
  BY <1>1, <1>2 DEF Answer, TypeOK

LEMMA CompleteRecord ==
  ASSUME CompleteInv, NEW p \in Handlers, RecordDeployment(p)
  PROVE  CompleteInv'
<1> DEFINE job == handler[p]
<1>1. job \in Job /\ RunSoFar(job, deployed) /\ job.at = "record" /\ job.id # 0 /\ job.kind = "put"
  BY Busy DEF RecordDeployment, CompleteInv, RunSoFar
<1>2. /\ deployments' = [deployments EXCEPT ![job.name] =
           [template |-> job.template, state |-> OutcomeOf(job.done)]]
      /\ \/ Answer(p)
         \/ Goto(p, [job EXCEPT !.at = "template"]) /\ UNCHANGED handed
      /\ UNCHANGED <<operations, templates, deployed, seq, ops, faults>>
  BY DEF RecordDeployment
<1>3. handed' \subseteq [id : 1..MaxOperations, outcome : Outcomes]
  BY <1>1, <1>2, AnswerType DEF CompleteInv, TypeOK
<1>4. \E after : Goto(p, after) /\ (after = Idle \/ (after \in Job /\ RunSoFar(after, deployed)))
  <2>1. CASE Answer(p)
    BY <2>1 DEF Answer
  <2>2. CASE Goto(p, [job EXCEPT !.at = "template"])
    <3> DEFINE next == [job EXCEPT !.at = "template"]
    <3>1. next \in Job /\ next.at = "template" /\ next.id # 0 /\ SameRun(job, next)
      <4> HIDE DEF job
      <4>1. QED
        BY <1>1 DEF Job, Steps, SameRun
    <3> HIDE DEF next, job
    <3>2. RunSoFar(next, deployed)
      BY <1>1, <3>1, RunKept DEF SameRun
    <3>3. QED
      BY <2>2, <3>1, <3>2 DEF next
  <2>3. QED
    BY <1>2, <2>1, <2>2
<1>5. handler' \in [Handlers -> {Idle} \union Job] /\ Runs'
  BY <1>2, <1>4, RunsMove DEF CompleteInv
<1>6. job.name \in Names /\ [template |-> job.template, state |-> OutcomeOf(job.done)] \in Deployment
  BY <1>1, OutcomeType DEF Job, Deployment
<1>7. TypeOK'
  BY <1>2, <1>3, <1>5, <1>6 DEF CompleteInv, TypeOK, Registry!OperationsTypeOK
<1>8. SucceededIsComplete'
  <2>1. SUFFICES ASSUME NEW n \in Names, deployments'[n] # NoDeployment, deployments'[n].state = "Succeeded"
                 PROVE  \A k \in 1..Len(ResourcesOf(deployments'[n].template)) :
                          ResourcesOf(deployments'[n].template)[k] \in deployed'
    BY DEF SucceededIsComplete
  <2>2. CASE n = job.name
    <3>1. deployments'[n].template = job.template /\ deployments'[n].state = OutcomeOf(job.done)
      BY <1>2, <1>6, <2>2 DEF CompleteInv, TypeOK
    <3>2. QED
      BY <1>1, <1>2, <2>1, <3>1, RunComplete
  <2>3. CASE n # job.name
    <3>1. deployments'[n] = deployments[n]
      BY <1>2, <2>3 DEF CompleteInv, TypeOK
    <3>2. QED
      BY <1>2, <2>1, <3>1 DEF CompleteInv, SucceededIsComplete
  <2>4. QED
    BY <2>2, <2>3
<1>9. QED
  BY <1>5, <1>7, <1>8 DEF CompleteInv

LEMMA CompleteTemplate ==
  ASSUME CompleteInv, NEW p \in Handlers, PutTemplate(p)
  PROVE  CompleteInv'
<1>1. handler[p] \in Job /\ RunSoFar(handler[p], deployed) /\ handler[p].id # 0
  BY Busy DEF PutTemplate, CompleteInv, RunSoFar
<1>2. /\ templates' = [templates EXCEPT ![handler[p].name] = handler[p].template]
      /\ Answer(p) /\ Goto(p, Idle)
      /\ UNCHANGED <<deployments, operations, deployed, seq, ops, faults>>
  BY DEF PutTemplate, Answer
<1>3. handed' \subseteq [id : 1..MaxOperations, outcome : Outcomes]
  BY <1>1, <1>2, AnswerType DEF CompleteInv
<1>4. handler' \in [Handlers -> {Idle} \union Job] /\ Runs'
  BY <1>2, RunsMove DEF CompleteInv
<1>5. handler[p].template \in Templates \union {NoTemplate}
  BY <1>1 DEF Job
<1>6. TypeOK'
  BY <1>2, <1>3, <1>4, <1>5 DEF CompleteInv, TypeOK, Registry!OperationsTypeOK
<1>7. SucceededIsComplete'
  BY <1>2 DEF CompleteInv, SucceededIsComplete
<1>8. QED
  BY <1>4, <1>6, <1>7 DEF CompleteInv

LEMMA CompleteDrop ==
  ASSUME CompleteInv, NEW p \in Handlers, DropDeployment(p)
  PROVE  CompleteInv'
<1> DEFINE job == handler[p]
           next == [job EXCEPT !.at = "list"]
<1>1. job \in Job /\ RunSoFar(job, deployed) /\ job.at = "drop"
  BY Busy DEF DropDeployment, CompleteInv
<1>2. /\ deployments' = [deployments EXCEPT ![job.name] = NoDeployment]
      /\ Goto(p, next)
      /\ UNCHANGED <<operations, templates, deployed, polling, faults>>
  BY DEF DropDeployment
<1>3. next \in Job /\ next.at = "list" /\ SameRun(job, next)
  <2> HIDE DEF job
  <2>1. QED
    BY <1>1 DEF Job, Steps, SameRun
<1> HIDE DEF next
<1>4. RunSoFar(next, deployed)
  <2> HIDE DEF job
  <2>1. QED
    BY <1>1, <1>3, RunKept
<1>5. handler' \in [Handlers -> {Idle} \union Job] /\ Runs'
  BY <1>2, <1>3, <1>4, RunsMove DEF CompleteInv
<1>6. TypeOK'
  BY <1>1, <1>2, <1>5 DEF CompleteInv, TypeOK, polling, Registry!OperationsTypeOK, Job
<1>7. SucceededIsComplete'
  BY <1>2 DEF CompleteInv, SucceededIsComplete, TypeOK
<1>8. QED
  BY <1>5, <1>6, <1>7 DEF CompleteInv

LEMMA CompleteFault ==
  ASSUME CompleteInv, Crash \/ (\E p \in Handlers : CallFails(p))
  PROVE  CompleteInv'
<1>1. faults' \in 0..MaxFaults
  BY BoundsAssumption DEF CompleteInv, TypeOK, Crash, CallFails
<1>2. CASE Crash
  <2>1. handler' \in [Handlers -> {Idle} \union Job] /\ Runs'
    BY <1>2 DEF Crash, Runs, Idle
  <2>2. TypeOK'
    BY <1>1, <1>2, <2>1, BoundsAssumption DEF CompleteInv, TypeOK, Crash, store,
         Registry!Restarted, Registry!OperationsTypeOK, Registry!OperationIds
  <2>3. SucceededIsComplete'
    BY <1>2 DEF CompleteInv, SucceededIsComplete, Crash, store
  <2>4. QED
    BY <2>1, <2>2, <2>3 DEF CompleteInv
<1>3. ASSUME NEW p \in Handlers, CallFails(p) PROVE CompleteInv'
  BY <1>1, <1>3, QuietStep DEF CallFails, store, CompleteInv, TypeOK
<1>4. QED
  BY <1>2, <1>3

LEMMA CompleteStep == CompleteInv /\ [Next]_vars => CompleteInv'
<1> SUFFICES ASSUME CompleteInv, [Next]_vars PROVE CompleteInv'
  OBVIOUS
<1>1. CASE \E p \in Handlers, n \in Names, t \in Templates \union {NoTemplate} : PutDeployment(p, n, t)
  BY <1>1, CompletePut
<1>2. CASE \E p \in Handlers, n \in Names : DeleteDeployment(p, n)
  BY <1>2, CompleteDelete
<1>3. ASSUME NEW p \in Handlers, Step(p) PROVE CompleteInv'
  BY <1>3, CompleteDispatch, CompleteList, CompleteClear, CompletePersist, CompleteRegister,
     CompleteRecord, CompleteTemplate, CompleteDrop DEF Step
<1>4. CASE Crash \/ (\E p \in Handlers : CallFails(p))
  BY <1>4, CompleteFault
<1>5. CASE UNCHANGED vars
  <2>1. TypeOK'
    BY <1>5 DEF CompleteInv, TypeOK, vars, Registry!OperationsTypeOK
  <2>2. Runs'
    BY <1>5 DEF CompleteInv, Runs, RunSoFar, vars
  <2>3. SucceededIsComplete'
    BY <1>5 DEF CompleteInv, SucceededIsComplete, vars
  <2>4. QED
    BY <2>1, <2>2, <2>3 DEF CompleteInv
<1>6. QED
  BY <1>1, <1>2, <1>3, <1>4, <1>5 DEF Next

\* Every variable of the deployments service keeps the type the code gives it.
THEOREM TypeCorrect == Spec => []TypeOK
<1>1. Spec => []CompleteInv
  BY CompleteInit, CompleteStep, PTL DEF Spec
<1>2. CompleteInv => TypeOK
  BY DEF CompleteInv
<1>3. QED
  BY <1>1, <1>2, PTL

\* A deployment is recorded Succeeded only if each resource of its template
\* was created, however PUTs and DELETEs of it overlap, fail or are cut short.
THEOREM SuccessIsComplete == Spec => []SucceededIsComplete
<1>1. Spec => []CompleteInv
  BY CompleteInit, CompleteStep, PTL DEF Spec
<1>2. CompleteInv => SucceededIsComplete
  BY DEF CompleteInv
<1>3. QED
  BY <1>1, <1>2, PTL

-----------------------------------------------------------------------------
(* Polling *)

\* Until a restart, an id that was given keeps its outcome, and a PUT about to
\* be answered holds one that was given for its run.
PollInv ==
  /\ PollsOwnOutcome /\ \A h \in handed : h.id <= seq
  /\ \A p \in Handlers : handler[p].at \in {"record", "template"} =>
       handler[p].id <= seq /\ ops[handler[p].id] = OutcomeOf(handler[p].done)

\* The answer to a PUT hands out what its run registered.
LEMMA PollAnswer ==
  ASSUME CompleteInv, PollInv, NEW p \in Handlers, handler[p].at \in {"record", "template"},
         Answer(p), UNCHANGED <<seq, ops>>
  PROVE  PollInv'
<1>1. handler[p].id <= seq /\ ops[handler[p].id] = OutcomeOf(handler[p].done)
  BY DEF PollInv
<1>2. \A q \in Handlers : q # p => handler'[q] = handler[q]
  BY DEF Answer, Goto, CompleteInv, TypeOK
<1>3. handler'[p] = Idle
  BY DEF Answer, Goto, CompleteInv, TypeOK
<1>4. \A h \in handed' : h.id <= seq /\ ops[h.id] = h.outcome
  BY <1>1 DEF Answer, PollInv, PollsOwnOutcome, Registry!Polled
<1>5. QED
  BY <1>2, <1>3, <1>4 DEF PollInv, PollsOwnOutcome, Registry!Polled, Idle

\* A step that registers and hands out nothing.
LEMMA PollQuiet ==
  ASSUME CompleteInv, PollInv, NEW p \in Handlers, NEW after, Goto(p, after), UNCHANGED polling,
         after.at \in {"record", "template"} =>
           /\ handler[p].at \in {"record", "template"}
           /\ after.id = handler[p].id /\ after.done = handler[p].done
  PROVE  PollInv'
<1>1. handler'[p] = after /\ \A q \in Handlers : q # p => handler'[q] = handler[q]
  BY DEF Goto, CompleteInv, TypeOK
<1>2. QED
  BY <1>1 DEF PollInv, PollsOwnOutcome, Registry!Polled, polling

LEMMA PollRegister ==
  ASSUME CompleteInv, PollInv, NEW p \in Handlers, RegisterOutcome(p)
  PROVE  PollInv'
<1> DEFINE job == handler[p]
<1>1. job \in Job /\ RunSoFar(job, deployed) /\ job.at = "register"
  BY Busy DEF RegisterOutcome, CompleteInv
<1>2. PICK id \in 1..MaxOperations :
        /\ Registry!RegisterOperation(id, OutcomeOf(job.done))
        /\ \/ job.kind = "put" /\ Goto(p, [job EXCEPT !.at = "record", !.id = id]) /\ UNCHANGED handed
           \/ /\ job.kind = "delete" /\ Goto(p, Idle)
              /\ handed' = handed \union {[id |-> id, outcome |-> "Succeeded"]}
  BY DEF RegisterOutcome
<1>3. /\ seq \in Nat /\ id = seq + 1 /\ seq' = id /\ id \in Registry!OperationIds
      /\ ops' = [ops EXCEPT ![id] = OutcomeOf(job.done)]
      /\ ops \in [1..MaxOperations -> Registry!Outcomes \union {NoOperation}]
  BY <1>2, BoundsAssumption DEF Registry!RegisterOperation, Registry!OperationIds, CompleteInv,
       TypeOK, Registry!OperationsTypeOK
<1>4. ops'[id] = OutcomeOf(job.done) /\ \A i \in 1..MaxOperations : i <= seq => ops'[i] = ops[i]
  BY <1>3 DEF Registry!OperationIds
<1>5. job.kind = "delete" => OutcomeOf(job.done) = "Succeeded"
  <2>1. job.kind = "delete" => job.done = <<>>
    BY <1>1 DEF RunSoFar, ResourcesOf, Job
  <2>2. QED
    BY <2>1 DEF OutcomeOf
<1>6. \A h \in handed' : h.id <= seq' /\ ops'[h.id] = h.outcome
  <2>1. \A h \in handed : h.id \in 1..MaxOperations /\ h.id <= seq /\ ops[h.id] = h.outcome
    BY DEF PollInv, PollsOwnOutcome, Registry!Polled, CompleteInv, TypeOK
  <2>2. \A h \in handed : h.id <= seq' /\ ops'[h.id] = h.outcome
    BY <1>3, <1>4, <2>1
  <2>3. QED
    BY <1>2, <1>3, <1>4, <1>5, <2>2
<1>7. ASSUME NEW q \in Handlers, handler'[q].at \in {"record", "template"}
      PROVE  handler'[q].id <= seq' /\ ops'[handler'[q].id] = OutcomeOf(handler'[q].done)
  <2>1. CASE q # p
    <3>1. handler'[q] = handler[q]
      BY <1>2, <2>1 DEF Goto, CompleteInv, TypeOK
    <3>2. handler[q].id <= seq /\ ops[handler[q].id] = OutcomeOf(handler[q].done)
      BY <1>7, <3>1 DEF PollInv
    <3>3. handler[q] \in Job /\ handler[q].id # 0
      BY <1>7, <3>1, Busy DEF CompleteInv, RunSoFar
    <3>4. handler[q].id \in 1..MaxOperations
      BY <3>3, BoundsAssumption DEF Job
    <3>5. QED
      BY <1>3, <1>4, <3>1, <3>2, <3>4
  <2>2. CASE q = p
    <3>1. handler'[p] = [job EXCEPT !.at = "record", !.id = id]
      BY <1>2, <1>7, <2>2 DEF Goto, CompleteInv, TypeOK, Idle
    <3>2. handler'[p].id = id /\ handler'[p].done = job.done
      BY <1>1, <3>1 DEF Job
    <3>3. QED
      BY <1>3, <1>4, <2>2, <3>2
  <2>3. QED
    BY <2>1, <2>2
<1>8. QED
  BY <1>6, <1>7 DEF PollInv, PollsOwnOutcome, Registry!Polled

LEMMA PollStep == CompleteInv /\ PollInv /\ [Next]_vars /\ [~Crash]_vars => PollInv'
<1> SUFFICES ASSUME CompleteInv, PollInv, [Next]_vars, [~Crash]_vars PROVE PollInv'
  OBVIOUS
<1>1. ASSUME NEW p \in Handlers, NEW n \in Names, NEW t \in Templates \union {NoTemplate},
             PutDeployment(p, n, t)
      PROVE  PollInv'
  <2>1. PICK existed \in BOOLEAN :
          LET job == [at |-> "dispatch", kind |-> "put", name |-> n, template |-> t,
                      existed |-> existed, done |-> <<>>, left |-> {}, id |-> 0]
          IN Goto(p, IF ResourcesOf(t) = <<>> THEN Dispatched(job) ELSE job)
    BY <1>1 DEF PutDeployment
  <2> DEFINE job == [at |-> "dispatch", kind |-> "put", name |-> n, template |-> t,
                     existed |-> existed, done |-> <<>>, left |-> {}, id |-> 0]
             next == IF ResourcesOf(t) = <<>> THEN Dispatched(job) ELSE job
  <2>2. job \in Job /\ job.done = <<>> /\ job.at = "dispatch"
    BY BoundsAssumption DEF Job, Steps
  <2>3. next.at \notin {"record", "template"}
    <3> HIDE DEF job
    <3>1. QED
      BY <2>2, JobMoves, BoundsAssumption DEF Starts
  <2>4. Goto(p, next) /\ UNCHANGED polling
    BY <1>1, <2>1 DEF PutDeployment
  <2> HIDE DEF next
  <2>5. QED
    BY <2>3, <2>4, PollQuiet
<1>2. ASSUME NEW p \in Handlers, NEW n \in Names, DeleteDeployment(p, n) PROVE PollInv'
  BY <1>2, PollQuiet DEF DeleteDeployment
<1>3. ASSUME NEW p \in Handlers, DispatchResource(p) PROVE PollInv'
  <2>1. PICK next \in Job : Goto(p, next) /\ next.at \notin {"record", "template"}
    BY <1>3, DispatchMoves DEF Starts
  <2>2. QED
    BY <1>3, <2>1, PollQuiet DEF DispatchResource
<1>4. ASSUME NEW p \in Handlers, ListOperations(p) PROVE PollInv'
  <2> DEFINE job == handler[p]
             keys == {k \in Positions : operations[job.name][k] # NoOperation}
  <2>1. job \in Job /\ Len(job.done) <= MaxResources
    BY <1>4, Busy DEF ListOperations, CompleteInv
  <2>2. Cleared(job).at = "register" \/ Starts(Cleared(job))
    BY <2>1, JobMoves
  <2>3. [job EXCEPT !.at = "clear", !.left = keys].at = "clear"
    BY <2>1 DEF Job
  <2>4. QED
    BY <1>4, <2>2, <2>3, PollQuiet DEF ListOperations, Starts
<1>5. ASSUME NEW p \in Handlers, ClearOperation(p) PROVE PollInv'
  <2> DEFINE job == handler[p]
  <2>1. job \in Job /\ Len(job.done) <= MaxResources /\ job.at = "clear"
    BY <1>5, Busy DEF ClearOperation, CompleteInv
  <2>2. Cleared(job).at = "register" \/ Starts(Cleared(job))
    BY <2>1, JobMoves
  <2>3. \A k : [job EXCEPT !.left = job.left \ {k}].at = "clear"
    BY <2>1 DEF Job
  <2>4. QED
    BY <1>5, <2>2, <2>3, PollQuiet DEF ClearOperation, Starts
<1>6. ASSUME NEW p \in Handlers, PersistOperation(p) PROVE PollInv'
  <2> DEFINE job == handler[p]
  <2>1. job \in Job /\ job.at = "persist"
    BY <1>6, Busy DEF PersistOperation, CompleteInv
  <2>2. \A k : [job EXCEPT !.left = job.left \ {k},
                           !.at = IF job.left = {k} THEN "register" ELSE job.at].at
                  \in {"register", "persist"}
    BY <2>1 DEF Job
  <2>3. QED
    BY <1>6, <2>2, PollQuiet DEF PersistOperation
<1>7. ASSUME NEW p \in Handlers, RecordDeployment(p) PROVE PollInv'
  <2>1. handler[p] \in Job
    BY <1>7, Busy DEF RecordDeployment, CompleteInv
  <2>2. [handler[p] EXCEPT !.at = "template"].id = handler[p].id
        /\ [handler[p] EXCEPT !.at = "template"].done = handler[p].done
    BY <2>1 DEF Job
  <2>3. CASE Answer(p)
    BY <1>7, <2>3, PollAnswer DEF RecordDeployment
  <2>4. CASE Goto(p, [handler[p] EXCEPT !.at = "template"]) /\ UNCHANGED handed
    BY <1>7, <2>2, <2>4, PollQuiet DEF RecordDeployment, polling
  <2>5. QED
    BY <1>7, <2>3, <2>4 DEF RecordDeployment
<1>8. ASSUME NEW p \in Handlers, PutTemplate(p) PROVE PollInv'
  BY <1>8, PollAnswer DEF PutTemplate
<1>9. ASSUME NEW p \in Handlers, DropDeployment(p) PROVE PollInv'
  <2>1. [handler[p] EXCEPT !.at = "list"].at = "list"
    BY <1>9, Busy DEF DropDeployment, CompleteInv, Job
  <2>2. QED
    BY <1>9, <2>1, PollQuiet DEF DropDeployment
<1>10. ASSUME NEW p \in Handlers, CallFails(p) PROVE PollInv'
  BY <1>10, PollQuiet DEF CallFails, Idle
<1>11. CASE UNCHANGED vars
  BY <1>11 DEF PollInv, PollsOwnOutcome, Registry!Polled, vars
<1>12. Crash => UNCHANGED vars
  OBVIOUS
<1>13. QED
  BY <1>1, <1>2, <1>3, <1>4, <1>5, <1>6, <1>7, <1>8, <1>9, <1>10, <1>11, <1>12, PollRegister
     DEF Next, Step

\* Until the program restarts, polling an operation answers the outcome that
\* its client was told, however the requests that register operations overlap:
\* operations.go gives an id once.
THEOREM PollsUntilRestart == Spec /\ [][~Crash]_vars => []PollsOwnOutcome
<1>1. Init => PollInv
  BY DEF Init, PollInv, PollsOwnOutcome, Idle
<1>2. PollInv => PollsOwnOutcome
  BY DEF PollInv
<1>3. QED
  BY <1>1, <1>2, PollStep, CompleteInit, CompleteStep, PTL DEF Spec

-----------------------------------------------------------------------------
(* Requests that do not overlap *)

\* One request is in progress at a time.
OneHandler == \A p, q \in Handlers : p = q

\* The operations stored for a deployment are those of a run of its own.
Own(job, stored) ==
  \A k \in Positions : stored[k] = IF k <= Len(job.done) THEN job.done[k] ELSE NoOperation

Empty(stored) == \A k \in Positions : stored[k] = NoOperation

\* A job against what its deployment has stored and recorded: what it lists is
\* what is stored, what it has cleared is gone and what it has persisted is
\* there, unless a fault made it take a deployment for a new one.
JobFits(job, stored, record, clean) ==
  /\ job.at = "drop" => job.kind = "delete"
  /\ job.kind = "delete" => job.existed
  /\ job.at \in {"list", "clear"} => job.existed
  /\ job.at \in {"dispatch", "persist"} => job.kind = "put"
  /\ job.kind = "delete" /\ job.at # "drop" => record = NoDeployment
  /\ job.at = "dispatch" /\ ~job.existed /\ clean => Empty(stored)
  /\ job.at = "clear" => \A k \in Positions : stored[k] # NoOperation => k \in job.left
  /\ job.at = "persist" => job.left # {}
  /\ job.at = "persist" /\ (job.existed \/ clean) =>
       \A k \in Positions :
         stored[k] = IF k <= Len(job.done) /\ k \notin job.left THEN job.done[k] ELSE NoOperation
  /\ job.at \in {"register", "record", "template"} /\ (job.existed \/ clean) => Own(job, stored)
  /\ job.at = "template" => record = [template |-> job.template, state |-> OutcomeOf(job.done)]

\* What a deployment has stored is what its record calls for.
Matches(record, stored) ==
  LET keys == {k \in Positions : stored[k] # NoOperation} IN
  IF record = NoDeployment THEN keys = {}
  ELSE LET resources == ResourcesOf(record.template) IN
       /\ \E last \in 0..Len(resources) :
            /\ keys = 1..last
            /\ record.state = "Succeeded" => last = Len(resources)
            /\ record.state = "Failed" => last > 0
            /\ \A k \in 1..last :
                 stored[k] =
                   [resource |-> resources[k],
                    state |-> IF k = last THEN record.state ELSE "Succeeded"]
Exports(record, template) ==
  record # NoDeployment => record.template = NoTemplate \/ template = record.template

SerialInv ==
  /\ \A p \in Handlers : handler[p].at # "idle" =>
       JobFits(handler[p], operations[handler[p].name], deployments[handler[p].name], faults = 0)
  /\ \A n \in Names : faults = 0 /\ Quiet(n) =>
       Matches(deployments[n], operations[n]) /\ Exports(deployments[n], templates[n])

\* What is stored for the other deployments stays.
ElsewhereSame(m) ==
  \A n \in Names \ {m} :
    /\ operations'[n] = operations[n] /\ deployments'[n] = deployments[n] /\ templates'[n] = templates[n]

\* The request in progress goes on.
LEMMA SerialGoesOn ==
  ASSUME OneHandler, TypeOK, SerialInv, NEW p \in Handlers, NEW after \in Job, Goto(p, after),
         handler[p].at = "idle" \/ handler[p].name = after.name,
         ElsewhereSame(after.name), faults' = faults \/ faults' # 0,
         JobFits(after, operations'[after.name], deployments'[after.name], faults' = 0)
  PROVE  SerialInv'
<1>1. handler'[p] = after /\ \A q \in Handlers : q = p
  BY DEF OneHandler, Goto, TypeOK
<1>2. after.at # "idle"
  BY DEF Job, Steps
<1>3. ASSUME NEW n \in Names, faults' = 0, Quiet(n)'
      PROVE  Matches(deployments'[n], operations'[n]) /\ Exports(deployments'[n], templates'[n])
  <2>1. n # after.name
    BY <1>1, <1>2, <1>3 DEF Quiet
  <2>2. Quiet(n) /\ faults = 0
    BY <1>1, <1>3, <2>1 DEF Quiet
  <2>3. Matches(deployments[n], operations[n]) /\ Exports(deployments[n], templates[n])
    BY <2>2 DEF SerialInv
  <2>4. QED
    BY <2>1, <2>3 DEF ElsewhereSame
<1>4. ASSUME NEW q \in Handlers
      PROVE  JobFits(handler'[q], operations'[handler'[q].name], deployments'[handler'[q].name], faults' = 0)
  BY <1>1
<1>5. QED
  BY <1>3, <1>4 DEF SerialInv

\* The request in progress ends.
LEMMA SerialEnds ==
  ASSUME OneHandler, TypeOK, SerialInv, NEW p \in Handlers, Goto(p, Idle), NEW m \in Names,
         handler[p].at = "idle" \/ handler[p].name = m,
         ElsewhereSame(m),
         \/ faults' # 0
         \/ /\ faults' = faults
            /\ Matches(deployments'[m], operations'[m]) /\ Exports(deployments'[m], templates'[m])
  PROVE  SerialInv'
<1>1. handler'[p] = Idle /\ \A q \in Handlers : q = p
  BY DEF OneHandler, Goto, TypeOK
<1>2. ASSUME NEW n \in Names, faults' = 0
      PROVE  Matches(deployments'[n], operations'[n]) /\ Exports(deployments'[n], templates'[n])
  <2>1. CASE n = m
    BY <1>2, <2>1
  <2>2. CASE n # m
    <3>1. Quiet(n) /\ faults = 0
      BY <1>1, <1>2, <2>2 DEF Quiet
    <3>2. Matches(deployments[n], operations[n]) /\ Exports(deployments[n], templates[n])
      BY <3>1 DEF SerialInv
    <3>3. QED
      BY <2>2, <3>2 DEF ElsewhereSame
  <2>3. QED
    BY <2>1, <2>2
<1>3. \A q \in Handlers : handler'[q].at = "idle"
  BY <1>1 DEF Idle
<1>4. QED
  BY <1>2, <1>3 DEF SerialInv

\* Operations as a run left them are those its record calls for.
LEMMA OwnMatches ==
  ASSUME NEW job \in Job, NEW created, RunSoFar(job, created), job.at # "dispatch",
         NEW stored, Own(job, stored),
         NEW record, record = [template |-> job.template, state |-> OutcomeOf(job.done)]
  PROVE  Matches(record, stored)
<1> DEFINE resources == ResourcesOf(job.template)
           last == Len(job.done)
<1>1. /\ record # NoDeployment /\ record.template = job.template
      /\ record.state = OutcomeOf(job.done) /\ record.state \in Outcomes
  BY OutcomeType, AbsentAssumption DEF Job, Deployment
<1>2. resources \in Seq(Resources) /\ Len(resources) \in 0..MaxResources
  BY TemplateType DEF Job
<1>3. last \in 0..Len(resources) /\ last <= MaxResources /\ last \in Nat
  BY <1>2, BoundsAssumption DEF RunSoFar, Job
<1>4. \A k \in 1..last : job.done[k] \in Operation /\ k \in Positions
  BY <1>3, BoundsAssumption DEF Job, Positions
<1>5. {k \in Positions : stored[k] # NoOperation} = 1..last
  BY <1>3, <1>4, AbsentAssumption, BoundsAssumption DEF Own, Positions
<1>6. record.state = "Succeeded" => last = Len(resources)
  BY <1>1 DEF RunSoFar
<1>7. record.state = "Failed" => last > 0
  <2>1. last = 0 => job.done = <<>>
    BY DEF Job
  <2>2. QED
    BY <1>1, <1>3, <2>1 DEF OutcomeOf
<1>8. ASSUME NEW k \in 1..last
      PROVE  stored[k] =
               [resource |-> resources[k], state |-> IF k = last THEN record.state ELSE "Succeeded"]
  <2>1. stored[k] = job.done[k]
    BY <1>3, <1>4, <1>8 DEF Own
  <2>2. job.done[k].resource = resources[k] /\ (k < last => job.done[k].state = "Succeeded")
    BY <1>8 DEF RunSoFar
  <2>3. k = last => job.done[k].state = record.state
    BY <1>1, <1>3, <1>4, <1>8 DEF OutcomeOf, Operation, Outcomes
  <2>4. job.done[k] = [resource |-> job.done[k].resource, state |-> job.done[k].state]
    BY <1>4, <1>8 DEF Operation
  <2>5. CASE k = last
    BY <2>1, <2>2, <2>3, <2>4, <2>5
  <2>6. CASE k # last
    <3>1. k < last
      BY <1>3, <1>8, <2>6
    <3>2. QED
      BY <2>1, <2>2, <2>4, <2>6, <3>1
  <2>7. QED
    BY <2>5, <2>6
<1> HIDE DEF last
<1>9. QED
  BY <1>1, <1>3, <1>5, <1>6, <1>7, <1>8 DEF Matches

\* A job that starts to persist where no operation is stored.
LEMMA StartsFits ==
  ASSUME NEW job \in Job, job.kind = "put", Starts(job), Len(job.done) <= MaxResources,
         NEW stored, NEW record, NEW clean \in BOOLEAN, job.existed \/ clean => Empty(stored)
  PROVE  JobFits(job, stored, record, clean)
<1>1. CASE job.at = "register" /\ job.done = <<>>
  <2>1. job.existed \/ clean => Own(job, stored)
    BY <1>1 DEF Own, Empty, Positions
  <2>2. QED
    BY <1>1, <2>1 DEF JobFits
<1>2. CASE job.at = "persist" /\ job.done # <<>> /\ job.left = 1..Len(job.done)
  <2>1. Len(job.done) \in Nat \ {0}
    BY <1>2 DEF Job
  <2>2. job.left # {}
    <3>1. 1 \in 1..Len(job.done)
      BY <2>1
    <3>2. QED
      BY <1>2, <3>1
  <2>3. \A k \in Positions : k <= Len(job.done) => k \in job.left
    BY <1>2, <2>1, BoundsAssumption DEF Positions
  <2>4. job.existed \/ clean => \A k \in Positions :
          stored[k] = IF k <= Len(job.done) /\ k \notin job.left THEN job.done[k] ELSE NoOperation
    BY <2>3 DEF Empty
  <2>5. QED
    BY <1>2, <2>2, <2>4 DEF JobFits
<1>3. QED
  BY <1>1, <1>2 DEF Starts

\* Nothing is stored any more for a job that was clearing.
LEMMA ClearedFits ==
  ASSUME NEW job \in Job, NEW created, RunSoFar(job, created), Len(job.done) <= MaxResources,
         NEW before, NEW record, NEW clean \in BOOLEAN, JobFits(job, before, record, clean),
         job.at \in {"list", "clear"}, NEW stored, Empty(stored)
  PROVE  JobFits(Cleared(job), stored, record, clean)
<1>1. /\ Cleared(job) \in Job /\ SameRun(job, Cleared(job))
      /\ IF job.kind = "put" THEN Starts(Cleared(job)) ELSE Cleared(job).at = "register"
  BY JobMoves
<1>2. CASE job.kind = "put"
  BY <1>1, <1>2, StartsFits DEF SameRun
<1>3. CASE job.kind = "delete"
  <2>1. Cleared(job).at = "register" /\ Cleared(job).kind = "delete" /\ Cleared(job).existed
        /\ record = NoDeployment
    BY <1>1, <1>3 DEF SameRun, JobFits
  <2>2. job.done = <<>>
    BY <1>3 DEF RunSoFar, ResourcesOf, Job
  <2>3. Own(Cleared(job), stored)
    BY <1>1, <2>2 DEF Own, Empty, SameRun, Positions
  <2>4. QED
    BY <2>1, <2>3 DEF JobFits
<1>4. QED
  BY <1>2, <1>3 DEF Job

\* The types of what a step of the request in progress reads.
LEMMA SerialBusy ==
  ASSUME CompleteInv, SerialInv, NEW p \in Handlers, handler[p].at # "idle"
  PROVE  /\ handler[p] \in Job /\ handler[p].name \in Names
         /\ RunSoFar(handler[p], deployed) /\ Len(handler[p].done) <= MaxResources
         /\ JobFits(handler[p], operations[handler[p].name], deployments[handler[p].name], faults = 0)
         /\ faults \in Nat
<1>1. handler[p] \in Job /\ RunSoFar(handler[p], deployed) /\ Len(handler[p].done) <= MaxResources
  BY Busy DEF CompleteInv
<1>2. JobFits(handler[p], operations[handler[p].name], deployments[handler[p].name], faults = 0)
  BY DEF SerialInv
<1>3. QED
  BY <1>1, <1>2, BoundsAssumption DEF Job, CompleteInv, TypeOK

LEMMA SerialInit == Init => SerialInv
<1> SUFFICES ASSUME Init PROVE SerialInv
  OBVIOUS
<1>1. ASSUME NEW n \in Names PROVE Matches(deployments[n], operations[n]) /\ Exports(deployments[n], templates[n])
  BY DEF Init, Matches, Exports
<1>2. QED
  BY <1>1 DEF Init, SerialInv, Idle

LEMMA SerialPut ==
  ASSUME OneHandler, CompleteInv, SerialInv, NEW p \in Handlers, NEW n \in Names,
         NEW t \in Templates \union {NoTemplate}, PutDeployment(p, n, t)
  PROVE  SerialInv'
<1>1. PICK existed \in BOOLEAN :
        /\ \/ existed = (deployments[n] # NoDeployment) /\ UNCHANGED faults
           \/ ~existed /\ faults < MaxFaults /\ faults' = faults + 1
        /\ LET job == [at |-> "dispatch", kind |-> "put", name |-> n, template |-> t,
                       existed |-> existed, done |-> <<>>, left |-> {}, id |-> 0]
           IN Goto(p, IF ResourcesOf(t) = <<>> THEN Dispatched(job) ELSE job)
  BY DEF PutDeployment
<1> DEFINE job == [at |-> "dispatch", kind |-> "put", name |-> n, template |-> t,
                   existed |-> existed, done |-> <<>>, left |-> {}, id |-> 0]
           next == IF ResourcesOf(t) = <<>> THEN Dispatched(job) ELSE job
<1>2. Goto(p, next) /\ UNCHANGED <<store, deployed, polling>> /\ handler[p].at = "idle"
  BY <1>1 DEF PutDeployment, Arrives
<1>3. /\ job \in Job /\ job.at = "dispatch" /\ job.kind = "put" /\ job.done = <<>>
      /\ job.name = n /\ job.existed = existed /\ Len(job.done) <= MaxResources
  BY BoundsAssumption DEF Job, Steps
<1> HIDE DEF job
<1>4. faults' = faults \/ faults' # 0
  BY <1>1 DEF CompleteInv, TypeOK
<1>5. ~existed /\ faults' = 0 => Empty(operations'[n])
  <2>1. SUFFICES ASSUME ~existed, faults' = 0 PROVE Empty(operations[n])
    BY <1>2 DEF store
  <2>2. deployments[n] = NoDeployment /\ faults = 0
    BY <1>1, <2>1, BoundsAssumption DEF CompleteInv, TypeOK
  <2>3. Quiet(n)
    BY <1>2 DEF OneHandler, Quiet
  <2>4. Matches(deployments[n], operations[n])
    BY <2>2, <2>3 DEF SerialInv
  <2>5. QED
    BY <2>2, <2>4 DEF Matches, Empty
<1>6. next \in Job /\ next.name = n
  BY <1>3, JobMoves DEF SameRun
<1>7. JobFits(next, operations'[n], deployments'[n], faults' = 0)
  <2>1. CASE next = job
    BY <1>3, <1>5, <2>1 DEF JobFits
  <2>2. CASE next = Dispatched(job) /\ existed
    <3>1. /\ SameRun(job, next)
          /\ IF job.existed THEN next.at = "list" ELSE Starts(next)
      BY <1>3, <2>2, JobMoves
    <3>2. next.at = "list" /\ next.kind = "put" /\ next.existed
      BY <1>3, <2>2, <3>1 DEF SameRun
    <3>3. QED
      BY <3>2 DEF JobFits
  <2>3. CASE next = Dispatched(job) /\ ~existed
    <3>0. /\ SameRun(job, next)
          /\ IF job.existed THEN next.at = "list" ELSE Starts(next)
      BY <1>3, <2>3, JobMoves
    <3>1. Starts(next) /\ next.kind = "put" /\ ~next.existed /\ Len(next.done) <= MaxResources
      BY <1>3, <2>3, <3>0 DEF SameRun
    <3>2. QED
      BY <1>5, <1>6, <2>3, <3>1, StartsFits
  <2>4. QED
    BY <2>1, <2>2, <2>3
<1>8. ElsewhereSame(n)
  BY <1>2 DEF ElsewhereSame, store
<1> HIDE DEF next
<1>9. QED
  BY <1>2, <1>4, <1>6, <1>7, <1>8, SerialGoesOn DEF CompleteInv

LEMMA SerialDispatch ==
  ASSUME OneHandler, CompleteInv, SerialInv, NEW p \in Handlers, DispatchResource(p)
  PROVE  SerialInv'
<1> DEFINE job == handler[p]
<1>1. /\ UNCHANGED <<store, polling, faults>> /\ job.at = "dispatch" /\ job.name \in Names
      /\ JobFits(job, operations[job.name], deployments[job.name], faults = 0)
  BY SerialBusy DEF DispatchResource
<1>2. PICK next \in Job :
        /\ Goto(p, next)
        /\ RunSoFar(next, deployed')
        /\ next.name = job.name /\ next.kind = job.kind /\ next.existed = job.existed
        /\ \/ next.at = "dispatch"
           \/ IF next.existed THEN next.at = "list" ELSE Starts(next)
  BY DispatchMoves
<1>3. job.kind = "put" /\ (~job.existed /\ faults = 0 => Empty(operations[job.name]))
  BY <1>1 DEF JobFits
<1>4. Len(next.done) <= MaxResources
  BY <1>2, TemplateType, BoundsAssumption DEF RunSoFar, Job
<1>5. JobFits(next, operations[job.name], deployments[job.name], faults = 0)
  <2>1. CASE next.at \in {"dispatch", "list"}
    <3>1. next.at = "list" => next.existed
      BY <1>2 DEF Starts
    <3>2. QED
      BY <1>2, <1>3, <2>1, <3>1 DEF JobFits
  <2>2. CASE Starts(next) /\ ~next.existed
    BY <1>2, <1>3, <1>4, <2>2, StartsFits
  <2>3. QED
    BY <1>2, <2>1, <2>2
<1>6. ElsewhereSame(job.name)
  BY <1>1 DEF ElsewhereSame, store
<1>7. QED
  BY <1>1, <1>2, <1>5, <1>6, SerialGoesOn DEF store, CompleteInv

LEMMA SerialList ==
  ASSUME OneHandler, CompleteInv, SerialInv, NEW p \in Handlers, ListOperations(p)
  PROVE  SerialInv'
<1> DEFINE job == handler[p]
           stored == operations[job.name]
           keys == {k \in Positions : stored[k] # NoOperation}
           next == IF keys = {} THEN Cleared(job) ELSE [job EXCEPT !.at = "clear", !.left = keys]
<1>1. /\ job \in Job /\ job.name \in Names /\ job.at = "list"
      /\ RunSoFar(job, deployed) /\ Len(job.done) <= MaxResources
      /\ JobFits(job, stored, deployments[job.name], faults = 0)
  BY SerialBusy DEF ListOperations
<1>2. Goto(p, next) /\ UNCHANGED <<store, deployed, polling, faults>>
  BY DEF ListOperations
<1>3. ElsewhereSame(job.name)
  BY <1>2 DEF ElsewhereSame, store
<1> HIDE DEF job, stored
<1>4. next \in Job /\ next.name = job.name /\ JobFits(next, stored, deployments[job.name], faults = 0)
  <2>1. CASE keys = {}
    <3>1. Empty(stored)
      BY <2>1 DEF Empty
    <3>2. next \in Job /\ next.name = job.name
      BY <1>1, <2>1, JobMoves DEF SameRun
    <3>3. QED
      BY <1>1, <2>1, <3>1, <3>2, ClearedFits
  <2>2. CASE keys # {}
    BY <1>1, <2>2 DEF JobFits, Job, Steps
  <2>3. QED
    BY <2>1, <2>2
<1> HIDE DEF next
<1>5. QED
  BY <1>1, <1>2, <1>3, <1>4, SerialGoesOn DEF store, CompleteInv, job, stored

LEMMA SerialClear ==
  ASSUME OneHandler, CompleteInv, SerialInv, NEW p \in Handlers, ClearOperation(p)
  PROVE  SerialInv'
<1> DEFINE job == handler[p]
           stored == operations[job.name]
<1>1. /\ job \in Job /\ job.name \in Names /\ job.at = "clear"
      /\ RunSoFar(job, deployed) /\ Len(job.done) <= MaxResources
      /\ JobFits(job, stored, deployments[job.name], faults = 0)
  BY SerialBusy DEF ClearOperation
<1>2. PICK k \in Positions :
        /\ operations' = [operations EXCEPT ![job.name][k] = NoOperation]
        /\ Goto(p, IF job.left = {k} THEN Cleared(job) ELSE [job EXCEPT !.left = @ \ {k}])
  BY DEF ClearOperation
<1> DEFINE next == IF job.left = {k} THEN Cleared(job) ELSE [job EXCEPT !.left = job.left \ {k}]
<1>3. Goto(p, next) /\ UNCHANGED <<deployments, templates, deployed, polling, faults>>
  BY <1>2 DEF ClearOperation
<1>4. /\ operations \in [Names -> [Positions -> Operation \union {NoOperation}]]
      /\ stored \in [Positions -> Operation \union {NoOperation}]
  BY <1>1 DEF CompleteInv, TypeOK
<1> HIDE DEF job
<1>5. ElsewhereSame(job.name)
  BY <1>1, <1>2, <1>3, <1>4 DEF ElsewhereSame
<1>6. operations'[job.name] = [stored EXCEPT ![k] = NoOperation]
  BY <1>1, <1>2, <1>4
<1>7. next \in Job /\ next.name = job.name /\ JobFits(next, operations'[job.name], deployments[job.name], faults = 0)
  <2>1. \A other \in Positions : operations'[job.name][other] # NoOperation => other \in job.left \ {k}
    BY <1>1, <1>4, <1>6 DEF JobFits
  <2>2. CASE job.left = {k}
    <3>1. Empty(operations'[job.name])
      BY <2>1, <2>2 DEF Empty
    <3>2. next \in Job /\ next.name = job.name
      BY <1>1, <2>2, JobMoves DEF SameRun
    <3>3. QED
      BY <1>1, <2>2, <3>1, <3>2, ClearedFits
  <2>3. CASE job.left # {k}
    BY <1>1, <2>1, <2>3 DEF JobFits, Job, Steps
  <2>4. QED
    BY <2>2, <2>3
<1> HIDE DEF next
<1>8. QED
  BY <1>1, <1>3, <1>5, <1>7, SerialGoesOn DEF CompleteInv, job

LEMMA SerialPersist ==
  ASSUME OneHandler, CompleteInv, SerialInv, NEW p \in Handlers, PersistOperation(p)
  PROVE  SerialInv'
<1> DEFINE job == handler[p]
           stored == operations[job.name]
<1>1. /\ job \in Job /\ job.name \in Names /\ job.at = "persist" /\ RunSoFar(job, deployed)
      /\ JobFits(job, stored, deployments[job.name], faults = 0)
  BY SerialBusy DEF PersistOperation
<1>2. PICK k \in Positions :
        /\ IsLeast(k, job.left)
        /\ operations' = [operations EXCEPT ![job.name][k] = job.done[k]]
        /\ Goto(p, [job EXCEPT !.left = @ \ {k}, !.at = IF job.left = {k} THEN "register" ELSE @])
  BY DEF PersistOperation
<1> DEFINE next == [job EXCEPT !.left = job.left \ {k},
                               !.at = IF job.left = {k} THEN "register" ELSE job.at]
<1>3. Goto(p, next) /\ UNCHANGED <<deployments, templates, deployed, polling, faults>>
  BY <1>2 DEF PersistOperation
<1>4. /\ operations \in [Names -> [Positions -> Operation \union {NoOperation}]]
      /\ stored \in [Positions -> Operation \union {NoOperation}]
  BY <1>1 DEF CompleteInv, TypeOK
<1> HIDE DEF job
<1>5. ElsewhereSame(job.name)
  BY <1>1, <1>2, <1>3, <1>4 DEF ElsewhereSame
<1>6. operations'[job.name] = [stored EXCEPT ![k] = job.done[k]]
  BY <1>1, <1>2, <1>4
<1>7. k \in job.left /\ k <= Len(job.done) /\ Len(job.done) \in Nat /\ job.left \subseteq 1..Len(job.done)
  BY <1>1, <1>2 DEF IsLeast, RunSoFar, Job
<1>8. /\ next \in Job /\ next.name = job.name /\ next.done = job.done /\ next.kind = job.kind
      /\ next.existed = job.existed /\ next.left = job.left \ {k}
      /\ next.at = IF job.left = {k} THEN "register" ELSE "persist"
  BY <1>1 DEF Job, Steps
<1>9. job.existed \/ faults = 0 => \A other \in Positions :
        operations'[job.name][other] =
          IF other <= Len(job.done) /\ other \notin next.left THEN job.done[other] ELSE NoOperation
  BY <1>1, <1>4, <1>6, <1>7, <1>8 DEF JobFits
<1> HIDE DEF next
<1>10. JobFits(next, operations'[job.name], deployments[job.name], faults = 0)
  <2>1. CASE job.left = {k}
    <3>1. next.left = {} /\ next.at = "register"
      BY <1>8, <2>1
    <3>2. job.existed \/ faults = 0 => Own(next, operations'[job.name])
      BY <1>8, <1>9, <3>1 DEF Own
    <3>3. QED
      BY <1>1, <1>8, <3>1, <3>2 DEF JobFits
  <2>2. CASE job.left # {k}
    <3>1. next.left # {} /\ next.at = "persist"
      BY <1>7, <1>8, <2>2
    <3>2. QED
      BY <1>1, <1>8, <1>9, <3>1 DEF JobFits
  <2>3. QED
    BY <2>1, <2>2
<1>11. QED
  BY <1>1, <1>3, <1>5, <1>8, <1>10, SerialGoesOn DEF CompleteInv, job

\* A request that has nothing to record ends with its operations cleared.
LEMMA SerialRegister ==
  ASSUME OneHandler, CompleteInv, SerialInv, NEW p \in Handlers, RegisterOutcome(p)
  PROVE  SerialInv'
<1> DEFINE job == handler[p]
           stored == operations[job.name]
<1>1. /\ job \in Job /\ job.name \in Names /\ job.at = "register" /\ RunSoFar(job, deployed)
      /\ JobFits(job, stored, deployments[job.name], faults = 0)
  BY SerialBusy DEF RegisterOutcome
<1>2. UNCHANGED <<store, deployed, faults>>
  BY DEF RegisterOutcome
<1>3. ElsewhereSame(job.name)
  BY <1>2 DEF ElsewhereSame, store
<1>4. PICK id \in 1..MaxOperations :
        \/ job.kind = "put" /\ Goto(p, [job EXCEPT !.at = "record", !.id = id])
        \/ job.kind = "delete" /\ Goto(p, Idle)
  BY DEF RegisterOutcome
<1>5. CASE job.kind = "put" /\ Goto(p, [job EXCEPT !.at = "record", !.id = id])
  <2> DEFINE next == [job EXCEPT !.at = "record", !.id = id]
  <2> HIDE DEF job
  <2>0. id \in 0..MaxOperations /\ job \in Job /\ job.kind = "put"
    BY <1>1, <1>5, BoundsAssumption
  <2>1. /\ next \in Job /\ next.name = job.name /\ next.at = "record"
        /\ next.kind = "put" /\ next.done = job.done /\ next.existed = job.existed
    BY <2>0 DEF Job, Steps
  <2> HIDE DEF next
  <2>2. JobFits(next, stored, deployments[job.name], faults = 0)
    BY <1>1, <2>1 DEF JobFits, Own
  <2>3. Goto(p, next)
    BY <1>5 DEF next
  <2>4. QED
    BY <1>1, <1>2, <1>3, <2>1, <2>2, <2>3, SerialGoesOn DEF store, CompleteInv, job
<1>6. CASE job.kind = "delete" /\ Goto(p, Idle)
  <2>1. job.done = <<>> /\ deployments[job.name] = NoDeployment /\ Own(job, stored)
    BY <1>1, <1>6 DEF RunSoFar, ResourcesOf, Job, JobFits
  <2>2. \A k \in Positions : stored[k] = NoOperation
    BY <2>1 DEF Own, Positions
  <2>3. Matches(deployments[job.name], stored) /\ Exports(deployments[job.name], templates[job.name])
    BY <2>1, <2>2 DEF Matches, Exports
  <2>4. QED
    BY <1>1, <1>2, <1>3, <1>6, <2>3, SerialEnds DEF store, CompleteInv
<1>7. QED
  BY <1>4, <1>5, <1>6

LEMMA SerialRecord ==
  ASSUME OneHandler, CompleteInv, SerialInv, NEW p \in Handlers, RecordDeployment(p)
  PROVE  SerialInv'
<1> DEFINE job == handler[p]
           stored == operations[job.name]
           record == [template |-> job.template, state |-> OutcomeOf(job.done)]
<1>1. /\ job \in Job /\ job.name \in Names /\ job.at = "record" /\ RunSoFar(job, deployed)
      /\ JobFits(job, stored, deployments[job.name], faults = 0)
  BY SerialBusy DEF RecordDeployment
<1>2. /\ deployments' = [deployments EXCEPT ![job.name] = record]
      /\ UNCHANGED <<operations, templates, deployed, seq, ops, faults>>
      /\ \/ job.template = NoTemplate /\ Goto(p, Idle)
         \/ job.template # NoTemplate /\ Goto(p, [job EXCEPT !.at = "template"])
  BY DEF RecordDeployment, Answer
<1>3. deployments'[job.name] = record /\ ElsewhereSame(job.name)
  BY <1>1, <1>2 DEF ElsewhereSame, CompleteInv, TypeOK
<1>4. CASE job.template = NoTemplate /\ Goto(p, Idle)
  <2>1. ASSUME faults = 0 PROVE Matches(record, stored)
    <3>1. Own(job, stored)
      BY <1>1, <2>1 DEF JobFits
    <3>2. QED
      BY <1>1, <3>1, OwnMatches
  <2>2. Exports(record, templates[job.name])
    BY <1>4 DEF Exports
  <2>3. faults # 0 \/ Matches(deployments'[job.name], operations'[job.name])
    BY <1>2, <1>3, <2>1
  <2>4. QED
    BY <1>1, <1>2, <1>3, <1>4, <2>2, <2>3, SerialEnds DEF CompleteInv
<1>5. CASE job.template # NoTemplate /\ Goto(p, [job EXCEPT !.at = "template"])
  <2> DEFINE next == [job EXCEPT !.at = "template"]
  <2>1. RunSoFar(job, deployed) => job.kind = "put"
    BY <1>1 DEF RunSoFar
  <2> HIDE DEF job, record
  <2>2. /\ next \in Job /\ next.name = job.name /\ next.at = "template" /\ next.kind = "put"
        /\ next.done = job.done /\ next.existed = job.existed /\ next.template = job.template
    BY <1>1, <2>1 DEF Job, Steps
  <2> HIDE DEF next
  <2>3. JobFits(next, stored, record, faults = 0)
    BY <1>1, <2>2 DEF JobFits, Own, record
  <2>4. Goto(p, next)
    BY <1>5 DEF next
  <2>5. QED
    BY <1>1, <1>2, <1>3, <2>2, <2>3, <2>4, SerialGoesOn DEF CompleteInv, job
<1>6. QED
  BY <1>2, <1>4, <1>5

LEMMA SerialTemplate ==
  ASSUME OneHandler, CompleteInv, SerialInv, NEW p \in Handlers, PutTemplate(p)
  PROVE  SerialInv'
<1> DEFINE job == handler[p]
           record == [template |-> job.template, state |-> OutcomeOf(job.done)]
<1>1. /\ job \in Job /\ job.name \in Names /\ job.at = "template" /\ RunSoFar(job, deployed)
      /\ JobFits(job, operations[job.name], deployments[job.name], faults = 0)
  BY SerialBusy DEF PutTemplate
<1>2. /\ templates' = [templates EXCEPT ![job.name] = job.template] /\ Goto(p, Idle)
      /\ UNCHANGED <<deployments, operations, deployed, seq, ops, faults>>
  BY DEF PutTemplate, Answer
<1>3. templates'[job.name] = job.template /\ ElsewhereSame(job.name)
  BY <1>1, <1>2 DEF ElsewhereSame, CompleteInv, TypeOK
<1>4. deployments[job.name] = record
  BY <1>1 DEF JobFits
<1>5. ASSUME faults = 0 PROVE Matches(record, operations[job.name])
  <2>1. Own(job, operations[job.name])
    BY <1>1, <1>5 DEF JobFits
  <2>2. QED
    BY <1>1, <2>1, OwnMatches
<1>6. Exports(record, job.template)
  BY DEF Exports
<1>7. faults # 0 \/ Matches(deployments'[job.name], operations'[job.name])
  BY <1>2, <1>4, <1>5
<1>8. Exports(deployments'[job.name], templates'[job.name])
  BY <1>2, <1>3, <1>4, <1>6
<1>9. QED
  BY <1>1, <1>2, <1>3, <1>7, <1>8, SerialEnds DEF CompleteInv

LEMMA SerialDelete ==
  ASSUME OneHandler, CompleteInv, SerialInv, NEW p \in Handlers, NEW n \in Names, DeleteDeployment(p, n)
  PROVE  SerialInv'
<1> DEFINE job == [at |-> "drop", kind |-> "delete", name |-> n, template |-> NoTemplate,
                   existed |-> TRUE, done |-> <<>>, left |-> {}, id |-> 0]
<1>1. Goto(p, job) /\ UNCHANGED <<store, deployed, polling, faults>> /\ handler[p].at = "idle"
  BY DEF DeleteDeployment, Arrives
<1>2. job \in Job /\ job.name = n /\ job.at = "drop" /\ job.kind = "delete" /\ job.existed
  BY BoundsAssumption DEF Job, Steps
<1> HIDE DEF job
<1>3. JobFits(job, operations[n], deployments[n], faults = 0)
  BY <1>2 DEF JobFits
<1>4. ElsewhereSame(n)
  BY <1>1 DEF ElsewhereSame, store
<1>5. QED
  BY <1>1, <1>2, <1>3, <1>4, SerialGoesOn DEF store, CompleteInv

LEMMA SerialDrop ==
  ASSUME OneHandler, CompleteInv, SerialInv, NEW p \in Handlers, DropDeployment(p)
  PROVE  SerialInv'
<1> DEFINE job == handler[p]
           next == [job EXCEPT !.at = "list"]
<1>1. /\ job \in Job /\ job.name \in Names /\ job.at = "drop"
      /\ JobFits(job, operations[job.name], deployments[job.name], faults = 0)
  BY SerialBusy DEF DropDeployment
<1>2. /\ deployments' = [deployments EXCEPT ![job.name] = NoDeployment] /\ Goto(p, next)
      /\ UNCHANGED <<operations, templates, deployed, polling, faults>>
  BY DEF DropDeployment
<1>3. deployments'[job.name] = NoDeployment /\ ElsewhereSame(job.name)
  BY <1>1, <1>2 DEF ElsewhereSame, CompleteInv, TypeOK
<1> HIDE DEF job
<1>4. /\ next \in Job /\ next.name = job.name /\ next.at = "list" /\ next.kind = job.kind
      /\ next.existed = job.existed
  BY <1>1 DEF Job, Steps
<1> HIDE DEF next
<1>5. JobFits(next, operations[job.name], NoDeployment, faults = 0)
  BY <1>1, <1>4 DEF JobFits
<1>6. QED
  BY <1>1, <1>2, <1>3, <1>4, <1>5, SerialGoesOn DEF CompleteInv, job

\* After a fault nothing is claimed of the deployments between requests.
LEMMA SerialFault ==
  ASSUME OneHandler, CompleteInv, SerialInv, (\E p \in Handlers : CallFails(p)) \/ Crash
  PROVE  SerialInv'
<1>1. faults' # 0
  BY BoundsAssumption DEF CallFails, Crash, CompleteInv, TypeOK
<1>2. \A q \in Handlers : handler'[q].at = "idle"
  BY DEF CallFails, Crash, Goto, OneHandler, CompleteInv, TypeOK, Idle
<1>3. QED
  BY <1>1, <1>2 DEF SerialInv

LEMMA SerialStep ==
  ASSUME OneHandler, CompleteInv, SerialInv, [Next]_vars
  PROVE  SerialInv'
<1>1. CASE \E p \in Handlers, n \in Names, t \in Templates \union {NoTemplate} : PutDeployment(p, n, t)
  BY <1>1, SerialPut
<1>2. CASE \E p \in Handlers, n \in Names : DeleteDeployment(p, n)
  BY <1>2, SerialDelete
<1>3. CASE \E p \in Handlers : Step(p)
  BY <1>3, SerialDispatch, SerialList, SerialClear, SerialPersist, SerialRegister, SerialRecord,
     SerialTemplate, SerialDrop DEF Step
<1>4. CASE (\E p \in Handlers : CallFails(p)) \/ Crash
  BY <1>4, SerialFault
<1>5. CASE UNCHANGED vars
  BY <1>5 DEF vars, SerialInv, Quiet
<1>6. QED
  BY <1>1, <1>2, <1>3, <1>4, <1>5 DEF Next

\* Requests that do not overlap leave, unless one is cut short, the operations
\* the recorded run calls for: one for each resource, in order, up to the
\* first that failed (persistOperations, clearOperations).
THEOREM SerialOperationsMatch ==
  ASSUME OneHandler
  PROVE  Spec => []OperationsMatch
<1>1. SerialInv => OperationsMatch
  BY DEF SerialInv, OperationsMatch, Matches
<1>2. QED
  BY <1>1, SerialInit, SerialStep, CompleteInit, CompleteStep, PTL DEF Spec

\* They leave, too, the template exportTemplate has to return.
THEOREM SerialExports ==
  ASSUME OneHandler
  PROVE  Spec => []ExportsDeployed
<1>1. SerialInv => ExportsDeployed
  BY DEF SerialInv, ExportsDeployed, Exports, Exported
<1>2. QED
  BY <1>1, SerialInit, SerialStep, CompleteInit, CompleteStep, PTL DEF Spec

\* A PUT that found its deployment answers with the operations of its own run
\* stored and no other, whatever failures and crashes have left before it.
THEOREM SerialRepairs ==
  ASSUME OneHandler
  PROVE  Spec => RedeployRepairs
<1>1. ASSUME SerialInv
      PROVE  \A p \in Handlers :
               PutAnswered(p) /\ handler[p].existed => OwnOperations(handler[p])
  BY <1>1 DEF SerialInv, PutAnswered, JobFits, Own, OwnOperations
<1>2. QED
  BY <1>1, SerialInit, SerialStep, CompleteInit, CompleteStep, PTL DEF Spec, RedeployRepairs
=============================================================================
