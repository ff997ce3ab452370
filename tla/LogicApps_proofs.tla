-------------------------- MODULE LogicApps_proofs --------------------------
(***************************************************************************)
(* Theorems about LogicApps, for any workflows, definitions, handlers and  *)
(* bounds.                                                                 *)
(***************************************************************************)
EXTENDS LogicApps, TLAPS

\* The registry of stop channels and the goroutines agree.
RegistryInv == TypeOK /\ OneLiveLoop /\ RegisteredIsOpen

\* Telling a goroutine to stop, or moving it on, leaves it a goroutine.
LEMMA LoopMoves ==
  ASSUME NEW l \in LoopState, l.at # "none"
  PROVE  /\ [l EXCEPT !.stopped = TRUE] \in LoopState
         /\ [l EXCEPT !.stopped = TRUE].at = l.at
         /\ [l EXCEPT !.stopped = TRUE].stopped = TRUE
         /\ l.definition \in Recurring /\ l.stopped \in BOOLEAN
         /\ l.at \in {"wait", "dispatch"} =>
              \A at \in {"wait", "dispatch"} :
                /\ [l EXCEPT !.at = at] \in LoopState
                /\ [l EXCEPT !.at = at].at = at
                /\ [l EXCEPT !.at = at].stopped = l.stopped
         /\ l.at = "record" => l.read \in Workflow
BY DEF LoopState

\* What a request carries, by the call it makes next.
LEMMA HandlerTypes ==
  ASSUME TypeOK, NEW p \in Handlers
  PROVE  /\ handler[p].at \in {"start", "stop", "delete", "dispatch", "record"} =>
              handler[p].key \in Keys
         /\ handler[p].at = "start" => handler[p].definition \in Definitions
         /\ handler[p].at = "record" => handler[p].read \in Workflow
<1>1. handler[p] \in HandlerState
  BY DEF TypeOK
<1>2. QED
  BY <1>1 DEF HandlerState

\* Closing the registered channel leaves no goroutine of k that was not told
\* to stop.
LEMMA ClosedStopsAll ==
  ASSUME RegistryInv, NEW k \in Keys
  PROVE  /\ Closed(k) \in [Slots -> LoopState]
         /\ \A n \in Slots : Closed(k)[n].at # "none" => Closed(k)[n].stopped
         /\ \A n \in Slots : Closed(k)[n].at # "none" <=> loop[k][n].at # "none"
<1>1. loop[k] \in [Slots -> LoopState] /\ stops[k] \in Slots \union {0}
  BY DEF RegistryInv, TypeOK
<1>2. \A n \in Slots : loop[k][n].at # "none" => loop[k][n].stopped \in BOOLEAN
  BY <1>1, LoopMoves
<1>3. CASE stops[k] = 0
  BY <1>1, <1>2, <1>3, LoopsAssumption DEF RegistryInv, OneLiveLoop, Open, Closed, Slots
<1>4. CASE stops[k] # 0
  <2>1. loop[k][stops[k]].at # "none" /\ stops[k] \in Slots
    BY <1>1, <1>4 DEF RegistryInv, RegisteredIsOpen, Open
  <2>2. \A n \in Slots : n # stops[k] => loop[k][n].at = "none" \/ loop[k][n].stopped
    BY <1>2 DEF RegistryInv, OneLiveLoop, Open
  <2>3. Closed(k) = [loop[k] EXCEPT ![stops[k]] = [loop[k][stops[k]] EXCEPT !.stopped = TRUE]]
    BY <1>4 DEF Closed
  <2> DEFINE closed == [loop[k][stops[k]] EXCEPT !.stopped = TRUE]
  <2>4. closed \in LoopState /\ closed.at # "none" /\ closed.stopped
    BY <1>1, <2>1, LoopMoves
  <2> HIDE DEF closed
  <2>5. Closed(k) = [loop[k] EXCEPT ![stops[k]] = closed]
    BY <2>3 DEF closed
  <2>6. /\ Closed(k)[stops[k]] = closed
        /\ \A n \in Slots : n # stops[k] => Closed(k)[n] = loop[k][n]
    BY <1>1, <2>1, <2>5
  <2>7. Closed(k) \in [Slots -> LoopState]
    BY <1>1, <2>1, <2>4, <2>5
  <2>8. QED
    BY <2>1, <2>2, <2>4, <2>6, <2>7
<1>5. QED
  BY <1>3, <1>4

LEMMA RegistryStep == RegistryInv /\ [Next]_vars => RegistryInv'
<1> SUFFICES ASSUME RegistryInv, [Next]_vars PROVE RegistryInv'
  OBVIOUS
<1> USE RecurringAssumption, AbsentAssumption, LoopsAssumption
<1>0. TypeOK
  BY DEF RegistryInv
<1>1. ASSUME TypeOK', UNCHANGED <<loop, stops>> PROVE RegistryInv'
  BY <1>1 DEF RegistryInv, OneLiveLoop, RegisteredIsOpen, Open
<1>2. ASSUME NEW p \in Handlers, Arrive(p) PROVE RegistryInv'
  <2>1. PICK k \in Keys : \/ \E wf \in Workflow : PutWorkflow(p, k, wf)
                          \/ DeleteWorkflow(p, k)
                          \/ RunTrigger(p, k)
    BY <1>2 DEF Arrive
  <2>2. ASSUME NEW wf \in Workflow, PutWorkflow(p, k, wf) PROVE RegistryInv'
    <3>1. TypeOK'
      BY <1>0, <2>2 DEF TypeOK, PutWorkflow, Goto, HandlerState, Workflow
    <3>2. QED
      BY <1>1, <2>2, <3>1 DEF PutWorkflow
  <2>3. CASE DeleteWorkflow(p, k)
    <3>1. TypeOK'
      BY <1>0, <2>3 DEF TypeOK, DeleteWorkflow, Goto, HandlerState
    <3>2. QED
      BY <1>1, <2>3, <3>1 DEF DeleteWorkflow
  <2>4. CASE RunTrigger(p, k)
    <3>1. TypeOK'
      BY <1>0, <2>4 DEF TypeOK, RunTrigger, Goto, HandlerState
    <3>2. QED
      BY <1>1, <2>4, <3>1 DEF RunTrigger
  <2>5. QED
    BY <2>1, <2>2, <2>3, <2>4
<1>3. ASSUME NEW p \in Handlers, Proceed(p) PROVE RegistryInv'
  <2>1. CASE StartFiring(p)
    <3> DEFINE k == handler[p].key
               d == handler[p].definition
    <3>1. k \in Keys /\ d \in Definitions /\ Goto(p, Idle) /\ UNCHANGED <<workflows, asked, restarts>>
      BY <1>0, <2>1, HandlerTypes DEF StartFiring
    <3>2. CASE UNCHANGED <<stops, loop>>
      <4>1. TypeOK'
        BY <1>0, <3>1, <3>2 DEF TypeOK, Goto, Idle, HandlerState
      <4>2. QED
        BY <1>1, <3>2, <4>1
    <3>3. ASSUME d \in Recurring, NEW n \in Slots, loop[k][n] = NoLoop,
                 stops' = [stops EXCEPT ![k] = n],
                 loop' = [loop EXCEPT ![k] = [Closed(k) EXCEPT ![n] = NewLoop(d)]]
          PROVE  RegistryInv'
      <4> HIDE DEF k, d
      <4>1. NewLoop(d) \in LoopState /\ NewLoop(d).at # "none" /\ ~NewLoop(d).stopped
        BY <3>3 DEF NewLoop, LoopState
      <4>2. TypeOK'
        BY <1>0, <3>1, <3>3, <4>1, ClosedStopsAll DEF TypeOK, Goto, Idle, HandlerState
      <4>3. /\ loop'[k][n] = NewLoop(d)
            /\ \A m \in Slots : m # n => loop'[k][m] = Closed(k)[m]
            /\ \A j \in Keys : j # k => loop'[j] = loop[j]
            /\ stops'[k] = n /\ \A j \in Keys : j # k => stops'[j] = stops[j]
        BY <1>0, <3>1, <3>3, ClosedStopsAll DEF TypeOK
      <4>4. OneLiveLoop' /\ RegisteredIsOpen'
        BY <3>1, <4>1, <4>3, ClosedStopsAll DEF RegistryInv, OneLiveLoop, RegisteredIsOpen, Open
      <4>5. QED
        BY <4>2, <4>4 DEF RegistryInv
    <3>4. QED
      BY <2>1, <3>2, <3>3 DEF StartFiring
  <2>2. CASE StopFiring(p)
    <3> DEFINE k == handler[p].key
    <3>1. /\ k \in Keys /\ Goto(p, Idle) /\ UNCHANGED <<workflows, asked, restarts>>
          /\ loop' = [loop EXCEPT ![k] = Closed(k)]
          /\ stops' = [stops EXCEPT ![k] = 0]
      BY <1>0, <2>2, HandlerTypes DEF StopFiring
    <3> HIDE DEF k
    <3>2. TypeOK'
      BY <1>0, <3>1, ClosedStopsAll DEF TypeOK, Goto, Idle, HandlerState
    <3>3. /\ loop'[k] = Closed(k) /\ \A j \in Keys : j # k => loop'[j] = loop[j]
          /\ stops'[k] = 0 /\ \A j \in Keys : j # k => stops'[j] = stops[j]
      BY <1>0, <3>1 DEF TypeOK
    <3>4. OneLiveLoop' /\ RegisteredIsOpen'
      BY <3>1, <3>3, ClosedStopsAll DEF RegistryInv, OneLiveLoop, RegisteredIsOpen, Open
    <3>5. QED
      BY <3>2, <3>4 DEF RegistryInv
  <2>3. CASE DeleteRecord(p)
    <3>1. TypeOK'
      BY <1>0, <2>3, HandlerTypes DEF TypeOK, DeleteRecord, Goto, HandlerState
    <3>2. QED
      BY <1>1, <2>3, <3>1 DEF DeleteRecord
  <2>4. CASE RunRead(p)
    <3>1. TypeOK'
      BY <1>0, <2>4, HandlerTypes DEF TypeOK, RunRead, Goto, Idle, HandlerState
    <3>2. QED
      BY <1>1, <2>4, <3>1 DEF RunRead
  <2>5. CASE RunRecord(p)
    <3>1. TypeOK'
      BY <1>0, <2>5, HandlerTypes DEF TypeOK, RunRecord, Goto, Idle, HandlerState
    <3>2. QED
      BY <1>1, <2>5, <3>1 DEF RunRecord
  <2>6. QED
    BY <1>3, <2>1, <2>2, <2>3, <2>4, <2>5 DEF Proceed
<1>4. ASSUME NEW k \in Keys, NEW n \in Slots, NEW state \in LoopState,
             SetLoop(k, n, state), UNCHANGED <<stops, handler, asked, restarts>>,
             workflows' \in [Keys -> Workflow \union {Absent}],
             state.at # "none" => state.stopped = loop[k][n].stopped,
             state.at # "none" \/ loop[k][n].stopped, loop[k][n].at # "none"
      PROVE  RegistryInv'
  <2>1. TypeOK'
    BY <1>0, <1>4 DEF TypeOK, SetLoop
  <2>2. /\ loop'[k][n] = state
        /\ \A j \in Keys, m \in Slots : j # k \/ m # n => loop'[j][m] = loop[j][m]
    BY <1>0, <1>4 DEF TypeOK, SetLoop
  <2>3. \A j \in Keys, m \in Slots : Open(j, m)' <=> Open(j, m)
    <3>1. loop[k][n].stopped \in BOOLEAN /\ (state.at # "none" => state.stopped \in BOOLEAN)
      BY <1>0, <1>4, LoopMoves DEF TypeOK
    <3>2. Open(k, n)' <=> Open(k, n)
      BY <1>4, <2>2, <3>1 DEF Open
    <3>3. QED
      BY <2>2, <3>2 DEF Open
  <2>4. stops' = stops /\ stops \in [Keys -> Slots \union {0}]
    BY <1>0, <1>4 DEF TypeOK
  <2>5. OneLiveLoop' /\ RegisteredIsOpen'
    BY <2>3, <2>4 DEF RegistryInv, OneLiveLoop, RegisteredIsOpen
  <2>6. QED
    BY <2>1, <2>5 DEF RegistryInv
<1>5. ASSUME NEW k \in Keys, NEW n \in Slots,
             TimerFires(k, n) \/ StopReceived(k, n) \/ Dispatch(k, n)
      PROVE  RegistryInv'
  <2> PICK l : l = loop[k][n]
    OBVIOUS
  <2>0. l \in LoopState /\ workflows \in [Keys -> Workflow \union {Absent}]
    BY <1>0 DEF TypeOK
  <2>1. CASE TimerFires(k, n)
    BY <1>4, <2>0, <2>1, LoopMoves DEF TimerFires
  <2>2. CASE StopReceived(k, n)
    BY <1>4, <2>0, <2>2 DEF StopReceived, NoLoop, LoopState
  <2>3. CASE FireRead(k, n)
    <3>1. CASE workflows[k] = Absent
      BY <1>4, <2>0, <2>3, <3>1, LoopMoves DEF FireRead
    <3>2. CASE workflows[k] # Absent
      <4> DEFINE state == [at |-> "record", definition |-> l.definition, stopped |-> l.stopped,
                           read |-> workflows[k]]
      <4>1. state \in LoopState
        BY <2>0, <2>3, <3>2, LoopMoves DEF FireRead, LoopState
      <4>2. QED
        BY <1>4, <2>0, <2>3, <3>2, <4>1 DEF FireRead
    <3>3. QED
      BY <3>1, <3>2
  <2>4. CASE FireRecord(k, n)
    <3> DEFINE state == [at |-> "wait", definition |-> l.definition, stopped |-> l.stopped]
    <3>1. state \in LoopState /\ l.read \in Workflow
      BY <2>0, <2>4, LoopMoves DEF FireRecord, LoopState
    <3>2. QED
      BY <1>4, <2>0, <2>4, <3>1 DEF FireRecord
  <2>5. QED
    BY <1>5, <2>1, <2>2, <2>3, <2>4 DEF Dispatch
<1>6. CASE Restart
  <2>1. \A k \in Keys : Fires(workflows[k]) => NewLoop(workflows[k].definition) \in LoopState
    BY DEF Fires, NewLoop, LoopState
  <2>2. TypeOK'
    BY <1>0, <1>6, <2>1 DEF TypeOK, Restart, NoLoop, Idle, LoopState, HandlerState, Slots
  <2>3. OneLiveLoop' /\ RegisteredIsOpen'
    BY <1>6 DEF Restart, OneLiveLoop, RegisteredIsOpen, Open, NoLoop, NewLoop, Slots
  <2>4. QED
    BY <2>2, <2>3 DEF RegistryInv
<1>7. CASE UNCHANGED vars
  BY <1>7 DEF vars, RegistryInv, TypeOK, OneLiveLoop, RegisteredIsOpen, Open
<1>8. QED
  BY <1>2, <1>3, <1>5, <1>6, <1>7 DEF Next

LEMMA RegistryInvariant == Spec => []RegistryInv
<1>1. Init => RegistryInv
  BY LoopsAssumption DEF Init, RegistryInv, TypeOK, OneLiveLoop, RegisteredIsOpen, Open, NoLoop,
     Idle, LoopState, HandlerState, Slots
<1>2. QED
  BY <1>1, RegistryStep, PTL DEF Spec

\* The variables have their types whatever requests and goroutines do.
THEOREM TypeCorrect == Spec => []TypeOK
BY RegistryInvariant, PTL DEF RegistryInv

\* However requests about a workflow interleave, at most one of its
\* goroutines has not been told to stop (startFiring, stopFiring).
THEOREM NeverFiresTwice == Spec => []OneLiveLoop
BY RegistryInvariant, PTL DEF RegistryInv

\* The channel startFiring and stopFiring close is always open.
THEOREM NeverClosesTwice == Spec => []RegisteredIsOpen
BY RegistryInvariant, PTL DEF RegistryInv

-----------------------------------------------------------------------------
(* Requests that do not overlap *)

\* One request is in progress at a time; dispatches go on beside it.
OneHandler == \A p, q \in Handlers : p = q

\* The goroutine registered for a workflow is the one last asked for.
Settled(request, slot, loops) ==
  /\ Fires(request) => slot # 0 /\ loops[slot].definition = request.definition
  /\ request = Absent \/ request.state = "Disabled" => slot = 0

\* A request about to start or stop a goroutine is the last about its workflow.
Owes(job, requests) ==
  /\ job.at = "start" =>
       /\ requests[job.key] # Absent /\ requests[job.key].state = "Enabled"
       /\ requests[job.key].definition = job.definition
  /\ job.at = "stop" => requests[job.key] = Absent \/ requests[job.key].state = "Disabled"

AskedInv ==
  /\ \A k \in Keys : Quiet(k) => Settled(asked[k], stops[k], loop[k])
  /\ \A p \in Handlers : Owes(handler[p], asked)

\* A request that changes what is asked of its workflow alone, and no
\* goroutine, has to settle it.
LEMMA AskedMoves ==
  ASSUME OneHandler, RegistryInv, AskedInv, NEW p \in Handlers, NEW job, NEW k \in Keys, Goto(p, job),
         UNCHANGED <<stops, loop>>, \A j \in Keys : j # k => asked'[j] = asked[j],
         Owes(job, asked'),
         \/ job.at \in {"start", "stop", "delete"} /\ job.key = k
         \/ UNCHANGED asked /\ job.at \notin {"start", "stop", "delete"},
         handler[p].at \in {"start", "stop", "delete"} => handler[p].key = k /\ job.at = "stop"
  PROVE  AskedInv'
<1>1. handler'[p] = job /\ \A q \in Handlers : q = p
  BY DEF OneHandler, Goto, RegistryInv, TypeOK
<1>2. ASSUME NEW j \in Keys, Quiet(j)' PROVE Settled(asked'[j], stops'[j], loop'[j])
  <2>1. Quiet(j) /\ asked'[j] = asked[j]
    BY <1>1, <1>2 DEF Quiet
  <2>2. Settled(asked[j], stops[j], loop[j])
    BY <2>1 DEF AskedInv
  <2>3. QED
    BY <2>1, <2>2 DEF Settled
<1>3. ASSUME NEW q \in Handlers PROVE Owes(handler'[q], asked')
  BY <1>1
<1>4. QED
  BY <1>2, <1>3 DEF AskedInv

\* A request that settles the goroutine of its workflow and is over.
LEMMA AskedSettles ==
  ASSUME OneHandler, RegistryInv, AskedInv, NEW p \in Handlers, NEW k \in Keys, Goto(p, Idle),
         handler[p].at \in {"start", "stop"}, handler[p].key = k, UNCHANGED asked,
         \A j \in Keys : j # k => stops'[j] = stops[j] /\ loop'[j] = loop[j],
         Settled(asked'[k], stops'[k], loop'[k])
  PROVE  AskedInv'
<1>1. handler'[p] = Idle /\ \A q \in Handlers : q = p
  BY DEF OneHandler, Goto, RegistryInv, TypeOK
<1>2. ASSUME NEW j \in Keys PROVE Settled(asked'[j], stops'[j], loop'[j])
  <2>1. CASE j = k
    BY <2>1
  <2>2. CASE j # k
    <3>1. Quiet(j)
      BY <1>1, <2>2 DEF Quiet
    <3>2. Settled(asked[j], stops[j], loop[j])
      BY <3>1 DEF AskedInv
    <3>3. QED
      BY <2>2, <3>2 DEF Settled
  <2>3. QED
    BY <2>1, <2>2
<1>3. ASSUME NEW q \in Handlers PROVE Owes(handler'[q], asked')
  BY <1>1 DEF Owes, Idle
<1>4. QED
  BY <1>2, <1>3 DEF AskedInv

LEMMA AskedArrive ==
  ASSUME OneHandler, RegistryInv, AskedInv, NEW p \in Handlers, Arrive(p)
  PROVE  AskedInv'
<1>1. PICK k \in Keys : \/ \E wf \in Workflow : PutWorkflow(p, k, wf)
                        \/ DeleteWorkflow(p, k)
                        \/ RunTrigger(p, k)
  BY DEF Arrive
<1>2. ASSUME NEW wf \in Workflow, PutWorkflow(p, k, wf) PROVE AskedInv'
  <2> DEFINE job == IF wf.state = "Enabled"
                    THEN [at |-> "start", key |-> k, definition |-> wf.definition]
                    ELSE [at |-> "stop", key |-> k]
  <2>1. /\ Goto(p, job) /\ UNCHANGED <<stops, loop>> /\ handler[p].at = "idle"
        /\ asked' = [asked EXCEPT ![k] = wf]
    BY <1>2 DEF PutWorkflow
  <2>2. asked'[k] = wf /\ \A j \in Keys : j # k => asked'[j] = asked[j]
    BY <2>1 DEF RegistryInv, TypeOK
  <2>3. wf # Absent /\ wf.state \in {"Enabled", "Disabled"}
    BY AbsentAssumption DEF Workflow
  <2>4. Owes(job, asked') /\ job.at \in {"start", "stop"} /\ job.key = k
    BY <2>2, <2>3 DEF Owes
  <2> HIDE DEF job
  <2>5. QED
    BY <2>1, <2>2, <2>4, AskedMoves
<1>3. CASE DeleteWorkflow(p, k)
  <2> DEFINE job == [at |-> "delete", key |-> k]
  <2>1. Goto(p, job) /\ UNCHANGED <<stops, loop, asked>> /\ handler[p].at = "idle" /\ Owes(job, asked')
    BY <1>3 DEF DeleteWorkflow, Owes
  <2>2. job.at = "delete" /\ job.key = k
    OBVIOUS
  <2> HIDE DEF job
  <2>3. QED
    BY <2>1, <2>2, AskedMoves
<1>4. CASE RunTrigger(p, k)
  <2> DEFINE job == [at |-> "dispatch", key |-> k]
  <2>1. Goto(p, job) /\ UNCHANGED <<stops, loop, asked>> /\ handler[p].at = "idle" /\ Owes(job, asked')
    BY <1>4 DEF RunTrigger, Owes
  <2>2. job.at = "dispatch"
    OBVIOUS
  <2> HIDE DEF job
  <2>3. QED
    BY <2>1, <2>2, AskedMoves
<1>5. QED
  BY <1>1, <1>2, <1>3, <1>4

LEMMA AskedStart ==
  ASSUME OneHandler, RegistryInv, AskedInv, NEW p \in Handlers, StartFiring(p)
  PROVE  AskedInv'
<1> DEFINE k == handler[p].key
           d == handler[p].definition
<1>1. /\ handler[p].at = "start" /\ k \in Keys /\ Goto(p, Idle) /\ UNCHANGED asked
      /\ asked[k] # Absent /\ asked[k].state = "Enabled" /\ asked[k].definition = d
  BY HandlerTypes DEF StartFiring, RegistryInv, AskedInv, Owes
<1>2. CASE d \notin Recurring /\ UNCHANGED <<stops, loop>>
  <2>1. Settled(asked'[k], stops'[k], loop'[k])
    BY <1>1, <1>2 DEF Settled, Fires
  <2>2. QED
    BY <1>1, <1>2, <2>1, AskedSettles
<1>3. ASSUME NEW n \in Slots,
             stops' = [stops EXCEPT ![k] = n],
             loop' = [loop EXCEPT ![k] = [Closed(k) EXCEPT ![n] = NewLoop(d)]]
      PROVE  AskedInv'
  <2> HIDE DEF k, d
  <2>1. /\ stops'[k] = n /\ n # 0 /\ loop'[k][n].definition = d
        /\ \A j \in Keys : j # k => stops'[j] = stops[j] /\ loop'[j] = loop[j]
    <3>1. Closed(k) \in [Slots -> LoopState]
      BY <1>1, ClosedStopsAll
    <3>2. n # 0
      BY LoopsAssumption DEF Slots
    <3>3. loop'[k] = [Closed(k) EXCEPT ![n] = NewLoop(d)]
      BY <1>1, <1>3 DEF RegistryInv, TypeOK
    <3>4. loop'[k][n] = NewLoop(d)
      BY <3>1, <3>3
    <3>5. QED
      BY <1>1, <1>3, <3>2, <3>4 DEF RegistryInv, TypeOK, NewLoop
  <2>2. Settled(asked'[k], stops'[k], loop'[k])
    BY <1>1, <2>1 DEF Settled
  <2>3. QED
    BY <1>1, <2>1, <2>2, AskedSettles DEF k
<1>4. QED
  BY <1>2, <1>3 DEF StartFiring

LEMMA AskedProceed ==
  ASSUME OneHandler, RegistryInv, AskedInv, NEW p \in Handlers, Proceed(p)
  PROVE  AskedInv'
<1> DEFINE k == handler[p].key
<1>1. CASE StartFiring(p)
  BY <1>1, AskedStart
<1>2. CASE StopFiring(p)
  <2>1. /\ handler[p].at = "stop" /\ k \in Keys /\ Goto(p, Idle) /\ UNCHANGED asked
        /\ asked[k] = Absent \/ asked[k].state = "Disabled"
        /\ stops' = [stops EXCEPT ![k] = 0] /\ loop' = [loop EXCEPT ![k] = Closed(k)]
    BY <1>2, HandlerTypes DEF StopFiring, RegistryInv, AskedInv, Owes
  <2>2. stops'[k] = 0 /\ \A j \in Keys : j # k => stops'[j] = stops[j] /\ loop'[j] = loop[j]
    BY <2>1 DEF RegistryInv, TypeOK
  <2>3. Settled(asked'[k], stops'[k], loop'[k])
    BY <2>1, <2>2, AbsentAssumption DEF Settled, Fires
  <2>4. QED
    BY <2>1, <2>2, <2>3, AskedSettles
<1>3. CASE DeleteRecord(p)
  <2> DEFINE job == [at |-> "stop", key |-> k]
  <2>1. /\ handler[p].at = "delete" /\ k \in Keys /\ Goto(p, job) /\ UNCHANGED <<stops, loop>>
        /\ asked' = [asked EXCEPT ![k] = Absent]
    BY <1>3, HandlerTypes DEF DeleteRecord, RegistryInv
  <2>2. asked'[k] = Absent /\ \A j \in Keys : j # k => asked'[j] = asked[j]
    BY <2>1 DEF RegistryInv, TypeOK
  <2>3. Owes(job, asked') /\ job.at = "stop" /\ job.key = k
    BY <2>2 DEF Owes
  <2> HIDE DEF job
  <2>4. QED
    BY <2>1, <2>2, <2>3, AskedMoves
<1>4. CASE RunRead(p) \/ RunRecord(p)
  <2>1. PICK job : /\ Goto(p, job) /\ job.at \in {"idle", "record"} /\ UNCHANGED <<stops, loop, asked>>
                   /\ handler[p].at \in {"dispatch", "record"} /\ k \in Keys
    BY <1>4, HandlerTypes DEF RunRead, RunRecord, Idle, RegistryInv
  <2>2. Owes(job, asked')
    BY <2>1 DEF Owes
  <2>3. QED
    BY <2>1, <2>2, AskedMoves
<1>5. QED
  BY <1>1, <1>2, <1>3, <1>4 DEF Proceed

\* A goroutine that goes on keeps its recurrence; the registered one, not told
\* to stop, does not end.
LEMMA AskedFiring ==
  ASSUME RegistryInv, AskedInv, NEW k \in Keys, NEW n \in Slots,
         TimerFires(k, n) \/ StopReceived(k, n) \/ Dispatch(k, n)
  PROVE  AskedInv'
<1>1. UNCHANGED <<stops, handler, asked>>
  BY DEF TimerFires, StopReceived, Dispatch, FireRead, FireRecord
<1>2. PICK state \in LoopState :
        /\ SetLoop(k, n, state)
        /\ (state.definition = loop[k][n].definition) \/ loop[k][n].stopped
  <2> DEFINE l == loop[k][n]
  <2>1. l \in LoopState /\ workflows[k] \in Workflow \union {Absent}
    BY DEF RegistryInv, TypeOK
  <2> HIDE DEF l
  <2>2. CASE TimerFires(k, n)
    <3>1. [l EXCEPT !.at = "dispatch"] \in LoopState /\ [l EXCEPT !.at = "dispatch"].definition = l.definition
      BY <2>1, <2>2 DEF TimerFires, LoopState, l
    <3>2. QED
      BY <2>2, <3>1 DEF TimerFires, l
  <2>3. CASE StopReceived(k, n)
    BY <2>3 DEF StopReceived, NoLoop, LoopState
  <2>4. CASE FireRead(k, n)
    <3>1. l.at = "dispatch" /\ l.definition \in Recurring /\ l.stopped \in BOOLEAN
      BY <2>1, <2>4 DEF FireRead, LoopState, l
    <3>2. CASE workflows[k] = Absent
      <4>1. [l EXCEPT !.at = "wait"] \in LoopState /\ [l EXCEPT !.at = "wait"].definition = l.definition
        BY <2>1, <3>1 DEF LoopState
      <4>2. QED
        BY <2>4, <3>2, <4>1 DEF FireRead, l
    <3>3. CASE workflows[k] # Absent
      <4> DEFINE after == [at |-> "record", definition |-> l.definition, stopped |-> l.stopped,
                           read |-> workflows[k]]
      <4>1. after \in LoopState /\ after.definition = l.definition
        BY <2>1, <3>1, <3>3 DEF LoopState
      <4>2. SetLoop(k, n, after)
        BY <2>4, <3>3 DEF FireRead, l
      <4> HIDE DEF after
      <4>3. QED
        BY <4>1, <4>2 DEF l
    <3>4. QED
      BY <3>2, <3>3
  <2>5. CASE FireRecord(k, n)
    <3> DEFINE after == [at |-> "wait", definition |-> l.definition, stopped |-> l.stopped]
    <3>1. l.at = "record" /\ l.definition \in Recurring /\ l.stopped \in BOOLEAN
      BY <2>1, <2>5 DEF FireRecord, LoopState, l
    <3>2. after \in LoopState /\ after.definition = l.definition
      BY <3>1 DEF LoopState
    <3>3. SetLoop(k, n, after)
      BY <2>5 DEF FireRecord, l
    <3> HIDE DEF after
    <3>4. QED
      BY <3>2, <3>3 DEF l
  <2>6. QED
    BY <2>2, <2>3, <2>4, <2>5 DEF Dispatch
<1>3. /\ loop'[k][n] = state
      /\ \A j \in Keys, m \in Slots : j # k \/ m # n => loop'[j][m] = loop[j][m]
  BY <1>2 DEF SetLoop, RegistryInv, TypeOK
<1>4. ASSUME NEW j \in Keys, stops[j] # 0
      PROVE  loop'[j][stops[j]].definition = loop[j][stops[j]].definition
  <2>1. stops[j] \in Slots /\ ~loop[j][stops[j]].stopped
    BY <1>4 DEF RegistryInv, TypeOK, RegisteredIsOpen, Open
  <2>2. CASE j = k /\ stops[j] = n
    BY <1>2, <1>3, <2>1, <2>2
  <2>3. CASE j # k \/ stops[j] # n
    BY <1>3, <2>1, <2>3
  <2>4. QED
    BY <2>2, <2>3
<1>5. ASSUME NEW j \in Keys, Quiet(j)' PROVE Settled(asked'[j], stops'[j], loop'[j])
  <2>1. Quiet(j)
    BY <1>1, <1>5 DEF Quiet
  <2>2. Settled(asked[j], stops[j], loop[j])
    BY <2>1 DEF AskedInv
  <2>3. QED
    BY <1>1, <1>4, <2>2 DEF Settled
<1>6. ASSUME NEW q \in Handlers PROVE Owes(handler'[q], asked')
  BY <1>1 DEF AskedInv, Owes
<1>7. QED
  BY <1>5, <1>6 DEF AskedInv

LEMMA AskedRestart ==
  ASSUME RegistryInv, Restart
  PROVE  AskedInv'
<1>1. ASSUME NEW k \in Keys PROVE Settled(asked'[k], stops'[k], loop'[k])
  <2>1. asked'[k] = workflows[k] /\ workflows[k] \in Workflow \union {Absent}
    BY DEF Restart, RegistryInv, TypeOK
  <2>2. CASE Fires(workflows[k])
    <3>1. stops'[k] = 1 /\ 1 \in Slots
      BY <2>2, LoopsAssumption DEF Restart, Slots
    <3>2. loop'[k][1] = NewLoop(workflows[k].definition)
      BY <2>2, <3>1 DEF Restart
    <3>3. asked'[k] # Absent /\ asked'[k].state = "Enabled"
      BY <2>1, <2>2 DEF Fires
    <3>4. QED
      BY <2>1, <3>1, <3>2, <3>3 DEF Settled, NewLoop
  <2>3. CASE ~Fires(workflows[k])
    <3>1. stops'[k] = 0
      BY <2>3 DEF Restart
    <3>2. QED
      BY <2>1, <2>3, <3>1 DEF Settled, Fires
  <2>4. QED
    BY <2>2, <2>3
<1>2. ASSUME NEW q \in Handlers PROVE Owes(handler'[q], asked')
  BY DEF Restart, Owes, Idle
<1>3. QED
  BY <1>1, <1>2 DEF AskedInv

LEMMA AskedStep ==
  ASSUME OneHandler, RegistryInv, AskedInv, [Next]_vars
  PROVE  AskedInv'
<1>1. CASE \E p \in Handlers : Arrive(p) \/ Proceed(p)
  BY <1>1, AskedArrive, AskedProceed
<1>2. CASE \E k \in Keys, n \in Slots : TimerFires(k, n) \/ StopReceived(k, n) \/ Dispatch(k, n)
  BY <1>2, AskedFiring
<1>3. CASE Restart
  BY <1>3, AskedRestart
<1>4. CASE UNCHANGED vars
  BY <1>4 DEF vars, AskedInv, Quiet, Settled, Owes
<1>5. QED
  BY <1>1, <1>2, <1>3, <1>4 DEF Next

\* With one request at a time a workflow fires exactly as the last request
\* asked, with the recurrence of an enabled definition and not at all once
\* disabled or deleted, whatever dispatches write back (putWorkflow,
\* startFiring, stopFiring, dispatch).
THEOREM SerialFiresAsAsked ==
  ASSUME OneHandler
  PROVE  Spec => []FiresAsAsked
<1>1. Init => AskedInv
  BY DEF Init, AskedInv, Settled, Owes, Idle, Fires
<1>2. AskedInv => FiresAsAsked
  BY DEF AskedInv, Settled, FiresAsAsked
<1>3. QED
  BY <1>1, <1>2, AskedStep, RegistryInvariant, PTL DEF Spec
=============================================================================
