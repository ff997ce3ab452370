-------------------------- MODULE EventHub_proofs ---------------------------
(***************************************************************************)
(* Theorems about EventHub, for any groups, hubs, handlers and bounds.     *)
(***************************************************************************)
EXTENDS EventHub, FiniteSetTheorems, SequenceTheorems, TLAPS

\* What a request carries, by the call it makes next.
LEMMA HandlerTypes ==
  ASSUME TypeOK, NEW p \in Handlers
  PROVE  /\ handler[p].at = "dropNamespace" =>
              handler[p].group \in Groups /\ handler[p].namespace \in Namespaces
         /\ handler[p].at \in {"recordHub", "mark", "dropHub", "unmark"} =>
              handler[p].group \in Groups /\ handler[p].entity \in Entities
         /\ handler[p].at \in {"scan", "append", "read"} => handler[p].entity \in Entities
         /\ handler[p].at = "append" => handler[p].offset \in Offsets
         /\ handler[p].at = "read" => handler[p].after \in Offsets \union {-1} /\ handler[p].max \in Nat
<1>1. handler[p] \in HandlerState
  BY DEF TypeOK
<1>2. QED
  BY <1>1 DEF HandlerState

\* The next step of a hub's control request.
LEMMA NextCall ==
  ASSUME NEW h \in HandlerState, h.at \in {"recordHub", "dropHub"}
  PROVE  /\ h.at = "recordHub" => [h EXCEPT !.at = "mark"] \in HandlerState
         /\ h.at = "dropHub" => [h EXCEPT !.at = "unmark"] \in HandlerState
         /\ [h EXCEPT !.at = "mark"].at = "mark"
         /\ [h EXCEPT !.at = "unmark"].at = "unmark"
BY DEF HandlerState

\* A step that leaves the events and the consumers alone and takes a request
\* neither to its append nor to its read.
Elsewhere(p) ==
    /\ UNCHANGED <<events, nextEvent, checkpoint, got>>
    /\ namespaces' \subseteq Groups \X Namespaces
    /\ hubs' \subseteq Groups \X Entities
    /\ index' \subseteq Entities
    /\ faults' \in 0..MaxFaults
    /\ \E state \in HandlerState :
         handler' = [handler EXCEPT ![p] = state] /\ state.at \notin {"append", "read"}

LEMMA ElsewhereSteps ==
  ASSUME TypeOK, NEW p \in Handlers,
         \/ \E g \in Groups, n \in Namespaces : DeleteNamespace(p, g, n)
         \/ \E g \in Groups, e \in Entities : PutHub(p, g, e) \/ DeleteHub(p, g, e)
         \/ \E e \in Entities : SendEvent(p, e)
         \/ DropNamespace(p) \/ RecordHub(p) \/ MarkHub(p) \/ DropHub(p) \/ UnmarkHub(p)
         \/ Fail(p)
  PROVE  Elsewhere(p)
<1> USE DEF store, control, client
<1>1. Idle \in HandlerState /\ Idle.at = "idle"
  BY DEF Idle, HandlerState
<1>2. ASSUME NEW g \in Groups, NEW n \in Namespaces, DeleteNamespace(p, g, n) PROVE Elsewhere(p)
  <2>1. [at |-> "dropNamespace", group |-> g, namespace |-> n] \in HandlerState
    BY DEF HandlerState
  <2>2. QED
    BY <1>2, <2>1 DEF DeleteNamespace, Goto, Elsewhere, TypeOK
<1>3. ASSUME NEW g \in Groups, NEW e \in Entities, PutHub(p, g, e) PROVE Elsewhere(p)
  <2>1. [at |-> "recordHub", group |-> g, entity |-> e] \in HandlerState
    BY DEF HandlerState
  <2>2. QED
    BY <1>3, <2>1 DEF PutHub, Goto, Elsewhere, TypeOK
<1>4. ASSUME NEW g \in Groups, NEW e \in Entities, DeleteHub(p, g, e) PROVE Elsewhere(p)
  <2>1. [at |-> "dropHub", group |-> g, entity |-> e] \in HandlerState
    BY DEF HandlerState
  <2>2. QED
    BY <1>4, <2>1 DEF DeleteHub, Goto, Elsewhere, TypeOK
<1>5. ASSUME NEW e \in Entities, SendEvent(p, e) PROVE Elsewhere(p)
  <2>1. [at |-> "scan", entity |-> e] \in HandlerState
    BY DEF HandlerState
  <2>2. QED
    BY <1>5, <2>1 DEF SendEvent, Goto, Elsewhere, TypeOK
<1>6. CASE DropNamespace(p)
  BY <1>1, <1>6, HandlerTypes DEF DropNamespace, Goto, Elsewhere, TypeOK
<1>7. CASE RecordHub(p) \/ DropHub(p)
  <2> PICK h : h = handler[p]
    OBVIOUS
  <2>1. h \in HandlerState
    BY DEF TypeOK
  <2>2. CASE RecordHub(p)
    <3>1. [h EXCEPT !.at = "mark"] \in HandlerState /\ [h EXCEPT !.at = "mark"].at = "mark"
      BY <2>1, <2>2, NextCall DEF RecordHub
    <3>2. handler' = [handler EXCEPT ![p] = [h EXCEPT !.at = "mark"]]
      BY <2>2 DEF RecordHub, Goto
    <3>3. hubs' \subseteq Groups \X Entities
      BY <2>2, HandlerTypes DEF RecordHub, TypeOK
    <3>4. QED
      BY <2>2, <3>1, <3>2, <3>3 DEF RecordHub, Elsewhere, TypeOK
  <2>3. CASE DropHub(p)
    <3>1. [h EXCEPT !.at = "unmark"] \in HandlerState /\ [h EXCEPT !.at = "unmark"].at = "unmark"
      BY <2>1, <2>3, NextCall DEF DropHub
    <3>2. handler' = [handler EXCEPT ![p] = [h EXCEPT !.at = "unmark"]]
      BY <2>3 DEF DropHub, Goto
    <3>3. QED
      BY <2>3, <3>1, <3>2 DEF DropHub, Elsewhere, TypeOK
  <2>4. QED
    BY <1>7, <2>2, <2>3
<1>8. CASE MarkHub(p)
  BY <1>1, <1>8, HandlerTypes DEF MarkHub, Goto, Elsewhere, TypeOK
<1>9. CASE UnmarkHub(p)
  BY <1>1, <1>9, HandlerTypes DEF UnmarkHub, Goto, Elsewhere, TypeOK
<1>10. CASE Fail(p)
  <2>1. faults' \in 0..MaxFaults
    BY <1>10, BoundsAssumption DEF Fail, TypeOK
  <2>2. handler' = [handler EXCEPT ![p] = Idle]
    BY <1>10 DEF Fail, Goto
  <2>3. QED
    BY <1>1, <1>10, <2>1, <2>2 DEF Fail, Elsewhere, TypeOK
<1>11. QED
  BY <1>2, <1>3, <1>4, <1>5, <1>6, <1>7, <1>8, <1>9, <1>10

\* The strengthening of NoGaps and NothingSkipped: a request about to append
\* would leave no gap, a request about to read has its consumer's checkpoint,
\* and what a consumer read is still there, if perhaps overwritten.
LogInv ==
    /\ TypeOK
    /\ NoGaps
    /\ NothingSkipped
    /\ \A p \in Handlers : handler[p].at = "append" =>
         \A o \in 0..(handler[p].offset - 1) : Stored(handler[p].entity, o)
    /\ \A p \in Handlers : handler[p].at = "read" =>
         /\ handler[p].after = checkpoint[handler[p].entity]
         /\ \A q \in Handlers : handler[q].at = "read" /\ handler[q].entity = handler[p].entity => q = p
    /\ \A e \in Entities, o \in Offsets : got[e][o] # NoEvent => Stored(e, o)

LEMMA LogStep == LogInv /\ [Next]_vars => LogInv'
<1> SUFFICES ASSUME LogInv, [Next]_vars PROVE LogInv'
  OBVIOUS
<1> USE BoundsAssumption, NoEventAssumption DEF store, control, client
<1>0. TypeOK
  BY DEF LogInv
<1>1. ASSUME NEW p \in Handlers, Elsewhere(p) PROVE LogInv'
  <2> PICK state \in HandlerState :
        handler' = [handler EXCEPT ![p] = state] /\ state.at \notin {"append", "read"}
    BY <1>1 DEF Elsewhere
  <2>1. TypeOK'
    BY <1>0, <1>1 DEF TypeOK, Elsewhere
  <2>2. \A q \in Handlers : handler'[q].at \in {"append", "read"} => handler'[q] = handler[q]
    BY <1>0 DEF TypeOK
  <2>3. \A e \in Entities, o \in Offsets : Stored(e, o)' = Stored(e, o)
    BY <1>1 DEF Elsewhere, Stored
  <2>4. NoGaps' /\ NothingSkipped'
    BY <1>1 DEF LogInv, Elsewhere, NoGaps, NothingSkipped, Stored
  <2>5. QED
    BY <1>1, <2>1, <2>2, <2>4 DEF LogInv, Elsewhere, Stored
<1>2. ASSUME NEW p \in Handlers, NEW g \in Groups, NEW n \in Namespaces, PutNamespace(p, g, n)
      PROVE  LogInv'
  <2>1. TypeOK'
    BY <1>0, <1>2 DEF TypeOK, PutNamespace
  <2>2. QED
    BY <1>2, <2>1 DEF PutNamespace, LogInv, NoGaps, NothingSkipped, Stored
<1>3. ASSUME NEW p \in Handlers, ScanOffsets(p) PROVE LogInv'
  <2> PICK e : e = handler[p].entity
    OBVIOUS
  <2>1. e \in Entities
    BY <1>0, <1>3, HandlerTypes DEF ScanOffsets
  <2>2. PICK o \in Offsets : /\ IsNextOffset(e, o)
                            /\ Goto(p, [at |-> "append", entity |-> e, offset |-> o])
    BY <1>3 DEF ScanOffsets
  <2>3. [at |-> "append", entity |-> e, offset |-> o] \in HandlerState
    BY <2>1 DEF HandlerState
  <2>4. TypeOK'
    BY <1>0, <1>3, <2>2, <2>3 DEF TypeOK, ScanOffsets, Goto
  <2>5. \A lower \in 0..(o - 1) : Stored(e, lower)
    BY <2>1, <2>2 DEF IsNextOffset, LogInv, NoGaps, Offsets
  <2>6. /\ \A q \in Handlers : q # p => handler'[q] = handler[q]
        /\ handler'[p] = [at |-> "append", entity |-> e, offset |-> o]
    BY <1>0, <2>2 DEF TypeOK, Goto
  <2>7. UNCHANGED <<events, checkpoint, got>>
    BY <1>3 DEF ScanOffsets
  <2>8. NoGaps' /\ NothingSkipped'
    BY <2>7 DEF LogInv, NoGaps, NothingSkipped, Stored
  <2>9. QED
    BY <2>4, <2>5, <2>6, <2>7, <2>8 DEF LogInv, Stored
<1>4. ASSUME NEW p \in Handlers, AppendEvent(p) PROVE LogInv'
  <2> PICK e, o : e = handler[p].entity /\ o = handler[p].offset
    OBVIOUS
  <2>1. e \in Entities /\ o \in Offsets /\ nextEvent \in Events /\ nextEvent # NoEvent
    BY <1>0, <1>4, HandlerTypes DEF AppendEvent, TypeOK, Events
  <2>2. /\ events' = [events EXCEPT ![e][o] = nextEvent] /\ nextEvent' = nextEvent + 1
        /\ handler' = [handler EXCEPT ![p] = Idle]
        /\ UNCHANGED <<namespaces, hubs, index, checkpoint, got, faults>>
    BY <1>4 DEF AppendEvent, Goto
  <2>3. TypeOK'
    <3>1. events' \in [Entities -> [Offsets -> Events \union {NoEvent}]]
      BY <1>0, <2>1, <2>2 DEF TypeOK
    <3>2. Idle \in HandlerState
      BY DEF Idle, HandlerState
    <3>3. nextEvent' \in 1..(MaxEvents + 1)
      BY <1>0, <1>4, <2>2 DEF TypeOK, AppendEvent
    <3>4. QED
      BY <1>0, <2>2, <3>1, <3>2, <3>3 DEF TypeOK
  <2>4. \A f \in Entities, x \in Offsets : Stored(f, x)' <=> Stored(f, x) \/ (f = e /\ x = o)
    BY <1>0, <2>1, <2>2 DEF TypeOK, Stored
  <2>5. \A lower \in 0..(o - 1) : Stored(e, lower)
    BY <1>4 DEF LogInv, AppendEvent
  <2>6. NoGaps'
    BY <2>1, <2>4, <2>5 DEF LogInv, NoGaps, Offsets
  <2>7. \A q \in Handlers : handler'[q].at \in {"append", "read"} => handler'[q] = handler[q]
    BY <1>0, <2>2 DEF TypeOK, Idle
  <2>8. \A q \in Handlers : handler'[q].at = "append" =>
          \A x \in 0..(handler'[q].offset - 1) : Stored(handler[q].entity, x)'
    <3> SUFFICES ASSUME NEW q \in Handlers, handler'[q].at = "append",
                        NEW x \in 0..(handler'[q].offset - 1)
                 PROVE  Stored(handler[q].entity, x)'
      OBVIOUS
    <3>1. handler[q].at = "append" /\ handler'[q] = handler[q]
      BY <2>7
    <3>2. handler[q].entity \in Entities /\ handler[q].offset \in Offsets
      BY <1>0, <3>1, HandlerTypes
    <3>3. Stored(handler[q].entity, x) /\ x \in Offsets
      BY <3>1, <3>2 DEF LogInv, Offsets
    <3>4. events'[handler[q].entity][x] # NoEvent
      BY <2>4, <3>2, <3>3 DEF Stored
    <3>5. QED
      BY <3>1, <3>4 DEF Stored
  <2>9. NothingSkipped'
    BY <2>2 DEF LogInv, NothingSkipped
  <2>10. QED
    BY <2>2, <2>3, <2>4, <2>6, <2>7, <2>8, <2>9 DEF LogInv
<1>5. ASSUME NEW p \in Handlers, NEW e \in Entities, NEW max \in 1..MaxBatch,
             ReceiveEvents(p, e, max)
      PROVE  LogInv'
  <2> DEFINE state == [at |-> "read", entity |-> e, after |-> checkpoint[e], max |-> max]
  <2>1. state \in HandlerState
    BY <1>0 DEF TypeOK, HandlerState
  <2>2. TypeOK'
    BY <1>0, <1>5, <2>1 DEF TypeOK, ReceiveEvents, Goto
  <2>3. /\ \A q \in Handlers : q # p => handler'[q] = handler[q]
        /\ handler'[p] = state
        /\ UNCHANGED <<events, checkpoint, got>>
    BY <1>0, <1>5 DEF TypeOK, ReceiveEvents, Goto
  <2>4. NoGaps' /\ NothingSkipped'
    BY <2>3 DEF LogInv, NoGaps, NothingSkipped, Stored
  <2>5. \A q \in Handlers : handler[q].at = "read" => handler[q].entity # e
    BY <1>5 DEF ReceiveEvents
  <2>6. QED
    BY <2>2, <2>3, <2>4, <2>5 DEF LogInv, Stored
<1>6. ASSUME NEW p \in Handlers, ReadEvents(p) PROVE LogInv'
  <2> PICK e, after : e = handler[p].entity /\ after = handler[p].after
    OBVIOUS
  <2>1. e \in Entities /\ after = checkpoint[e] /\ after \in Offsets \union {-1}
    BY <1>0, <1>6, HandlerTypes DEF ReadEvents, LogInv
  <2>2. PICK batch \in SUBSET Offsets :
          /\ IsBatch(e, after, handler[p].max, batch)
          /\ got' = [got EXCEPT ![e] = [o \in Offsets |-> IF o \in batch THEN events[e][o] ELSE got[e][o]]]
          /\ \/ batch = {} /\ UNCHANGED checkpoint
             \/ \E last \in batch :
                  /\ \A o \in batch : o <= last
                  /\ checkpoint' = [checkpoint EXCEPT ![e] = last]
    <3> PICK max : max = handler[p].max
      OBVIOUS
    <3>1. QED
      BY <1>6 DEF ReadEvents
  <2>3. /\ handler' = [handler EXCEPT ![p] = Idle]
        /\ UNCHANGED <<namespaces, hubs, index, events, nextEvent, faults>>
    BY <1>6 DEF ReadEvents, Goto
  <2>4. /\ \A o \in batch : Stored(e, o) /\ o > after
        /\ \A o \in batch, other \in Offsets : Stored(e, other) /\ other > after /\ other < o => other \in batch
    BY <2>2 DEF IsBatch
  <2>5. TypeOK'
    <3>1. got' \in [Entities -> [Offsets -> Events \union {NoEvent}]]
      BY <1>0, <2>1, <2>2 DEF TypeOK
    <3>2. Idle \in HandlerState
      BY DEF Idle, HandlerState
    <3>3. checkpoint' \in [Entities -> Offsets \union {-1}]
      BY <1>0, <2>1, <2>2 DEF TypeOK
    <3>4. QED
      BY <1>0, <2>3, <3>1, <3>2, <3>3 DEF TypeOK
  <2>6. /\ \A f \in Entities, o \in Offsets :
             got'[f][o] = IF f = e /\ o \in batch THEN events[e][o] ELSE got[f][o]
        /\ \A f \in Entities : f # e => checkpoint'[f] = checkpoint[f]
        /\ batch = {} => checkpoint'[e] = after
        /\ batch # {} => checkpoint'[e] \in batch /\ \A o \in batch : o <= checkpoint'[e]
    BY <1>0, <2>1, <2>2 DEF TypeOK
  <2>7. \A f \in Entities, o \in Offsets : got'[f][o] # NoEvent => Stored(f, o)
    BY <2>4, <2>6 DEF LogInv, Stored
  <2>8. NothingSkipped'
    <3> SUFFICES ASSUME NEW f \in Entities, NEW o \in Offsets
                 PROVE  got'[f][o] # NoEvent <=> o <= checkpoint'[f]
      BY DEF NothingSkipped
    <3>1. got[f][o] # NoEvent <=> o <= checkpoint[f]
      BY DEF LogInv, NothingSkipped
    <3>2. CASE f # e \/ batch = {}
      BY <2>1, <2>6, <3>1, <3>2
    <3>3. CASE f = e /\ batch # {}
      <4>1. o \in batch => events[e][o] # NoEvent
        BY <2>4 DEF Stored
      <4>2. got'[f][o] # NoEvent <=> o \in batch \/ o <= after
        BY <2>1, <2>6, <3>1, <3>3, <4>1
      <4>3. o <= checkpoint'[e] /\ o > after => o \in batch
        <5> SUFFICES ASSUME o <= checkpoint'[e], o > after PROVE o \in batch
          OBVIOUS
        <5> PICK last \in batch : last = checkpoint'[e]
          BY <2>6, <3>3
        <5>1. Stored(e, last) /\ last \in Offsets /\ o \in 0..last
          BY <2>4 DEF Offsets
        <5>2. Stored(e, o)
          BY <2>1, <5>1 DEF LogInv, NoGaps
        <5>3. QED
          BY <2>4, <5>1, <5>2 DEF Offsets
      <4>4. checkpoint'[e] > after /\ (o \in batch => o <= checkpoint'[e])
        BY <2>4, <2>6, <3>3
      <4>5. QED
        <5>0. checkpoint'[e] \in Offsets
          BY <2>6, <3>3
        <5>1. checkpoint'[e] \in Int /\ after \in Int /\ o \in Int
          <6>1. Offsets \subseteq Int
            BY DEF Offsets
          <6>2. after \in Int
            BY <2>1, <6>1
          <6>3. checkpoint'[e] \in Int
            BY <5>0, <6>1
          <6>4. o \in Int
            BY <6>1
          <6>5. QED
            BY <6>2, <6>3, <6>4
        <5>2. QED
          BY <3>3, <4>2, <4>3, <4>4, <5>1
    <3>4. QED
      BY <3>2, <3>3
  <2>9. NoGaps'
    BY <2>3 DEF LogInv, NoGaps, Stored
  <2>10. /\ \A q \in Handlers : handler'[q].at \in {"append", "read"} => q # p /\ handler'[q] = handler[q]
    BY <1>0, <2>3 DEF TypeOK, Idle
  <2>11. \A q \in Handlers : q # p /\ handler[q].at = "read" => handler[q].entity \in Entities /\ handler[q].entity # e
    BY <1>0, <1>6, HandlerTypes DEF LogInv, ReadEvents
  <2>12. QED
    BY <2>3, <2>5, <2>6, <2>7, <2>8, <2>9, <2>10, <2>11 DEF LogInv, Stored
<1>7. CASE Crash
  <2>1. Idle \in HandlerState
    BY DEF Idle, HandlerState
  <2>2. TypeOK'
    BY <1>0, <1>7, <2>1 DEF TypeOK, Crash
  <2>3. QED
    BY <1>7, <2>2 DEF Crash, Idle, LogInv, NoGaps, NothingSkipped, Stored
<1>8. CASE UNCHANGED vars
  BY <1>8 DEF vars, LogInv, TypeOK, NoGaps, NothingSkipped, Stored
<1>9. ASSUME NEW p \in Handlers, Arrive(p) \/ Proceed(p) \/ Fail(p) PROVE LogInv'
  BY <1>0, <1>1, <1>2, <1>3, <1>4, <1>5, <1>6, <1>9, ElsewhereSteps DEF Arrive, Proceed
<1>10. QED
  BY <1>7, <1>8, <1>9 DEF Next

LEMMA LogInvariant == Spec => []LogInv
<1>1. Init => LogInv
  BY BoundsAssumption, NoEventAssumption
     DEF Init, LogInv, TypeOK, NoGaps, NothingSkipped, Stored, Idle, HandlerState, Offsets
<1>2. QED
  BY <1>1, LogStep, PTL DEF Spec

-----------------------------------------------------------------------------
(* Requests that do not overlap *)

OneHandler == \A p, q \in Handlers : p = q

\* The offset a request is about to write is one no event has.
AppendsFresh ==
    \A p \in Handlers : handler[p].at = "append" => ~Stored(handler[p].entity, handler[p].offset)

LEMMA FreshStep ==
  ASSUME OneHandler, TypeOK, AppendsFresh, [Next]_vars
  PROVE  AppendsFresh'
<1> USE DEF store, control, client
<1>1. ASSUME NEW p \in Handlers, handler'[p].at # "append" PROVE AppendsFresh'
  BY <1>1 DEF OneHandler, AppendsFresh
<1>2. ASSUME NEW p \in Handlers, Elsewhere(p) PROVE AppendsFresh'
  BY <1>1, <1>2 DEF Elsewhere, TypeOK
<1>3. ASSUME NEW p \in Handlers, NEW g \in Groups, NEW n \in Namespaces, PutNamespace(p, g, n)
      PROVE  AppendsFresh'
  BY <1>1, <1>3 DEF PutNamespace
<1>4. ASSUME NEW p \in Handlers, ScanOffsets(p) PROVE AppendsFresh'
  <2> PICK e : e = handler[p].entity
    OBVIOUS
  <2>1. PICK o \in Offsets : /\ IsNextOffset(e, o)
                            /\ Goto(p, [at |-> "append", entity |-> e, offset |-> o])
    BY <1>4 DEF ScanOffsets
  <2>2. ~Stored(e, o)
    BY <2>1 DEF IsNextOffset, Offsets
  <2>3. handler'[p] = [at |-> "append", entity |-> e, offset |-> o] /\ UNCHANGED events
    BY <1>4, <2>1 DEF ScanOffsets, Goto, TypeOK
  <2>4. QED
    BY <2>2, <2>3 DEF AppendsFresh, OneHandler, Stored
<1>5. ASSUME NEW p \in Handlers, AppendEvent(p) \/ ReadEvents(p) PROVE AppendsFresh'
  BY <1>1, <1>5 DEF AppendEvent, ReadEvents, Goto, Idle, TypeOK
<1>6. ASSUME NEW p \in Handlers, NEW e \in Entities, NEW max \in 1..MaxBatch, ReceiveEvents(p, e, max)
      PROVE  AppendsFresh'
  BY <1>1, <1>6 DEF ReceiveEvents, Goto, TypeOK
<1>7. CASE Crash
  BY <1>7 DEF Crash, Idle, AppendsFresh
<1>8. CASE UNCHANGED vars
  BY <1>8 DEF vars, AppendsFresh, Stored
<1>9. ASSUME NEW p \in Handlers, Arrive(p) \/ Proceed(p) \/ Fail(p) PROVE AppendsFresh'
  BY <1>2, <1>3, <1>4, <1>5, <1>6, <1>9, ElsewhereSteps DEF Arrive, Proceed
<1>10. QED
  BY <1>7, <1>8, <1>9 DEF Next

LEMMA OnlyAppendWrites ==
  ASSUME TypeOK, AppendsFresh, [Next]_vars, NEW e \in Entities, NEW o \in Offsets, Stored(e, o)
  PROVE  events'[e][o] = events[e][o]
<1> USE DEF store, control, client
<1>1. ASSUME NEW p \in Handlers, AppendEvent(p) PROVE events'[e][o] = events[e][o]
  BY <1>1 DEF AppendEvent, AppendsFresh, TypeOK, Stored
<1>2. ASSUME NEW p \in Handlers, Arrive(p) \/ Proceed(p) \/ Fail(p)
      PROVE  events'[e][o] = events[e][o]
  BY <1>1, <1>2, ElsewhereSteps
     DEF Arrive, Proceed, Elsewhere, PutNamespace, ScanOffsets, ReceiveEvents, ReadEvents
<1>3. QED
  BY <1>2 DEF Next, Crash, vars

-----------------------------------------------------------------------------
(* The index, for hubs of one group *)

OneGroup == \A g, h \in Groups : g = h

\* A request between the two writes of a hub has made the first.
IndexInv ==
  /\ IndexConfirms
  /\ \A p \in Handlers :
       /\ handler[p].at = "mark" => <<handler[p].group, handler[p].entity>> \in hubs
       /\ handler[p].at = "unmark" => <<handler[p].group, handler[p].entity>> \notin hubs

\* A request that begins, goes on or ends away from those two writes; a fault
\* between them ends what the index promises.
LEMMA IndexKept ==
  ASSUME OneHandler, TypeOK, IndexInv, NEW p \in Handlers,
         UNCHANGED <<hubs, index>>, handler'[p].at \notin {"mark", "unmark"},
         (handler[p].at \notin {"mark", "unmark"} /\ faults' = faults) \/ faults' # 0
  PROVE  IndexInv'
<1>1. \A q \in Handlers : q = p
  BY DEF OneHandler
<1>2. ASSUME NEW e \in Entities, faults' = 0
      PROVE  e \in index' <=> \E g \in Groups : <<g, e>> \in hubs'
  <2>1. Settled(e) /\ faults = 0
    BY <1>1, <1>2 DEF Settled
  <2>2. QED
    BY <2>1 DEF IndexInv, IndexConfirms
<1>3. QED
  BY <1>1, <1>2 DEF IndexInv, IndexConfirms

\* The first write of a hub, after which its index entry is to follow.
LEMMA IndexFirst ==
  ASSUME OneHandler, TypeOK, IndexInv, NEW p \in Handlers, RecordHub(p) \/ DropHub(p)
  PROVE  IndexInv'
<1> PICK h : h = handler[p]
  OBVIOUS
<1>1. /\ \A q \in Handlers : q = p
      /\ h.at \in {"recordHub", "dropHub"} /\ h \in HandlerState
      /\ UNCHANGED <<index, faults>>
  BY DEF OneHandler, RecordHub, DropHub, TypeOK
<1>2. h.group \in Groups /\ h.entity \in Entities
  BY <1>1, HandlerTypes
<1>3. \/ handler'[p] = [h EXCEPT !.at = "mark"] /\ hubs' = hubs \union {<<h.group, h.entity>>}
      \/ handler'[p] = [h EXCEPT !.at = "unmark"] /\ hubs' = hubs \ {<<h.group, h.entity>>}
  BY DEF RecordHub, DropHub, Goto, TypeOK
<1>4. /\ \A at \in {"mark", "unmark"} :
           LET after == [h EXCEPT !.at = at]
           IN  after.at = at /\ after.group = h.group /\ after.entity = h.entity
  BY <1>1 DEF HandlerState
<1>5. /\ handler'[p].at \in {"mark", "unmark"}
      /\ handler'[p].group = h.group /\ handler'[p].entity = h.entity
      /\ handler'[p].at = "mark" => <<h.group, h.entity>> \in hubs'
      /\ handler'[p].at = "unmark" => <<h.group, h.entity>> \notin hubs'
      /\ \A other \in Groups \X Entities : other # <<h.group, h.entity>> => (other \in hubs' <=> other \in hubs)
  BY <1>3, <1>4
<1>6. ASSUME NEW e \in Entities, faults' = 0, Settled(e)'
      PROVE  e \in index' <=> \E g \in Groups : <<g, e>> \in hubs'
  <2>1. e # h.entity
    BY <1>5, <1>6 DEF Settled
  <2>2. Settled(e) /\ faults = 0
    BY <1>1, <1>6 DEF Settled
  <2>3. e \in index <=> \E g \in Groups : <<g, e>> \in hubs
    BY <2>2 DEF IndexInv, IndexConfirms
  <2>4. \A g \in Groups : <<g, e>> \in hubs' <=> <<g, e>> \in hubs
    BY <1>5, <2>1
  <2>5. QED
    BY <1>1, <2>3, <2>4
<1>7. QED
  BY <1>1, <1>5, <1>6 DEF IndexInv, IndexConfirms

\* The second write: the entry is there when the hub is.
LEMMA IndexSecond ==
  ASSUME OneHandler, OneGroup, TypeOK, IndexInv, NEW p \in Handlers, MarkHub(p) \/ UnmarkHub(p)
  PROVE  IndexInv'
<1> PICK h : h = handler[p]
  OBVIOUS
<1>1. /\ \A q \in Handlers : q = p
      /\ h.at \in {"mark", "unmark"} /\ handler'[p].at = "idle"
      /\ UNCHANGED <<hubs, faults>>
  BY DEF OneHandler, MarkHub, UnmarkHub, TypeOK, Goto, Idle
<1>2. h.group \in Groups /\ h.entity \in Entities
  BY <1>1, HandlerTypes
<1>3. \/ h.at = "mark" /\ index' = index \union {h.entity} /\ <<h.group, h.entity>> \in hubs
      \/ h.at = "unmark" /\ index' = index \ {h.entity} /\ <<h.group, h.entity>> \notin hubs
  BY DEF MarkHub, UnmarkHub, IndexInv
<1>4. ASSUME NEW e \in Entities, faults' = 0
      PROVE  e \in index' <=> \E g \in Groups : <<g, e>> \in hubs'
  <2>1. CASE e = h.entity
    BY <1>1, <1>2, <1>3, <2>1 DEF OneGroup
  <2>2. CASE e # h.entity
    <3>1. Settled(e) /\ faults = 0
      BY <1>1, <1>4, <2>2 DEF Settled
    <3>2. e \in index <=> \E g \in Groups : <<g, e>> \in hubs
      BY <3>1 DEF IndexInv, IndexConfirms
    <3>3. QED
      BY <1>1, <1>3, <2>2, <3>2
  <2>3. QED
    BY <2>1, <2>2
<1>5. QED
  BY <1>1, <1>4 DEF IndexInv, IndexConfirms

LEMMA IndexStep ==
  ASSUME OneHandler, OneGroup, TypeOK, IndexInv, [Next]_vars
  PROVE  IndexInv'
<1> USE DEF store, control, client
<1>1. ASSUME NEW p \in Handlers, NEW g \in Groups, NEW n \in Namespaces,
             PutNamespace(p, g, n) \/ DeleteNamespace(p, g, n)
      PROVE  IndexInv'
  BY <1>1, IndexKept DEF PutNamespace, DeleteNamespace, Goto, TypeOK
<1>2. ASSUME NEW p \in Handlers, NEW g \in Groups, NEW e \in Entities, PutHub(p, g, e) \/ DeleteHub(p, g, e)
      PROVE  IndexInv'
  BY <1>2, IndexKept DEF PutHub, DeleteHub, Goto, TypeOK
<1>3. ASSUME NEW p \in Handlers, NEW e \in Entities,
             SendEvent(p, e) \/ \E max \in 1..MaxBatch : ReceiveEvents(p, e, max)
      PROVE  IndexInv'
  BY <1>3, IndexKept DEF SendEvent, ReceiveEvents, Goto, TypeOK
<1>4. ASSUME NEW p \in Handlers, DropNamespace(p) \/ ScanOffsets(p) \/ AppendEvent(p) \/ ReadEvents(p)
      PROVE  IndexInv'
  BY <1>4, IndexKept DEF DropNamespace, ScanOffsets, AppendEvent, ReadEvents, Goto, Idle, TypeOK
<1>5. ASSUME NEW p \in Handlers, Fail(p) PROVE IndexInv'
  <2>1. faults' # 0 /\ handler'[p].at = "idle" /\ UNCHANGED <<hubs, index>>
    BY <1>5, BoundsAssumption DEF Fail, Goto, Idle, TypeOK
  <2>2. QED
    BY <2>1, IndexKept
<1>6. CASE Crash
  <2>1. faults' # 0 /\ \A p \in Handlers : handler'[p].at = "idle"
    BY <1>6, BoundsAssumption DEF Crash, Idle, TypeOK
  <2>2. QED
    BY <2>1 DEF IndexInv, IndexConfirms
<1>7. CASE UNCHANGED vars
  BY <1>7 DEF vars, IndexInv, IndexConfirms, Settled
<1>8. ASSUME NEW p \in Handlers, Arrive(p) \/ Proceed(p) \/ Fail(p) PROVE IndexInv'
  BY <1>1, <1>2, <1>3, <1>4, <1>5, <1>8, IndexFirst, IndexSecond DEF Arrive, Proceed
<1>9. QED
  BY <1>6, <1>7, <1>8 DEF Next

-----------------------------------------------------------------------------
(* An event hub is a log *)

HubLog(e) == [i \in 1..Length(e) |-> events[e][i - 1]]
HubTaken(e) == [i \in 1..(checkpoint[e] + 1) |-> got[e][i - 1]]

\* The strengthening of IsALog, for requests that do not overlap: the offsets
\* in use are the first ones, an event not yet stored is in no hub, and what a
\* consumer has read is what is stored.
RefineInv ==
    /\ \A e \in Entities : \E n \in 0..MaxEvents : \A o \in Offsets : Stored(e, o) <=> o < n
    /\ \A e \in Entities, o \in Offsets :
         /\ Stored(e, o) => events[e][o] < nextEvent
         /\ got[e][o] # NoEvent => got[e][o] = events[e][o]

\* A hub whose first n offsets are in use has n events.
LEMMA LengthIs ==
  ASSUME NEW e \in Entities, NEW n \in 0..MaxEvents, \A o \in Offsets : Stored(e, o) <=> o < n
  PROVE  Length(e) = n
<1>1. {o \in Offsets : Stored(e, o)} = 0..(n - 1)
  BY BoundsAssumption DEF Offsets
<1>2. Cardinality(0..(n - 1)) = n
  BY BoundsAssumption, FS_Interval
<1>3. QED
  BY <1>1, <1>2 DEF Length

\* What a send writes: the event goes after all the others.
LEMMA AppendAtEnd ==
  ASSUME LogInv, AppendsFresh, RefineInv, NEW p \in Handlers, AppendEvent(p)
  PROVE  \E e \in Entities, n \in 0..(MaxEvents - 1) :
            /\ \A o \in Offsets : Stored(e, o) <=> o < n
            /\ nextEvent \in Events /\ nextEvent # NoEvent
            /\ events' = [events EXCEPT ![e][n] = nextEvent]
            /\ nextEvent' = nextEvent + 1
            /\ UNCHANGED <<checkpoint, got>>
<1> PICK e, o : e = handler[p].entity /\ o = handler[p].offset
  OBVIOUS
<1>1. TypeOK
  BY DEF LogInv
<1>2. e \in Entities /\ o \in Offsets /\ nextEvent \in Events /\ nextEvent # NoEvent
  BY <1>1, HandlerTypes, NoEventAssumption, BoundsAssumption DEF AppendEvent, TypeOK, Events
<1>3. ~Stored(e, o) /\ \A lower \in 0..(o - 1) : Stored(e, lower)
  BY DEF AppendEvent, AppendsFresh, LogInv
<1>4. PICK n \in 0..MaxEvents : \A x \in Offsets : Stored(e, x) <=> x < n
  BY <1>2 DEF RefineInv
<1>5. o = n
  <2>1. ~(o < n)
    BY <1>2, <1>3, <1>4
  <2>2. ~(n < o)
    BY <1>2, <1>3, <1>4, BoundsAssumption DEF Offsets
  <2>3. QED
    BY <1>2, <2>1, <2>2, BoundsAssumption DEF Offsets
<1>6. n \in 0..(MaxEvents - 1)
  BY <1>2, <1>5 DEF Offsets
<1>7. QED
  BY <1>2, <1>4, <1>5, <1>6 DEF AppendEvent, client

\* What a read takes: everything up to the last event of the batch.
LEMMA ReadTakes ==
  ASSUME LogInv, LogInv', RefineInv, NEW p \in Handlers, ReadEvents(p)
  PROVE  \E e \in Entities :
            /\ UNCHANGED <<events, nextEvent>>
            /\ checkpoint'[e] \in Int /\ checkpoint'[e] >= checkpoint[e]
            /\ \A f \in Entities : f # e => checkpoint'[f] = checkpoint[f] /\ got'[f] = got[f]
            /\ \A o \in Offsets : got'[e][o] # NoEvent => got'[e][o] = events[e][o]
<1> PICK e, after : e = handler[p].entity /\ after = handler[p].after
  OBVIOUS
<1>1. TypeOK /\ TypeOK'
  BY DEF LogInv
<1>2. e \in Entities /\ after = checkpoint[e] /\ after \in Offsets \union {-1}
  BY <1>1, HandlerTypes DEF ReadEvents, LogInv
<1>3. PICK batch \in SUBSET Offsets :
        /\ IsBatch(e, after, handler[p].max, batch)
        /\ got' = [got EXCEPT ![e] = [o \in Offsets |-> IF o \in batch THEN events[e][o] ELSE got[e][o]]]
        /\ \/ batch = {} /\ UNCHANGED checkpoint
           \/ \E last \in batch : checkpoint' = [checkpoint EXCEPT ![e] = last]
  BY DEF ReadEvents
<1>4. \A o \in batch : o > after
  BY <1>3 DEF IsBatch
<1>5. checkpoint'[e] \in Int /\ checkpoint'[e] >= checkpoint[e]
  BY <1>1, <1>2, <1>3, <1>4 DEF TypeOK, Offsets
<1>6. \A f \in Entities : f # e => checkpoint'[f] = checkpoint[f] /\ got'[f] = got[f]
  BY <1>1, <1>2, <1>3 DEF TypeOK
<1>7. \A o \in Offsets : got'[e][o] = IF o \in batch THEN events[e][o] ELSE got[e][o]
  BY <1>1, <1>2, <1>3 DEF TypeOK
<1>8. QED
  BY <1>2, <1>5, <1>6, <1>7 DEF ReadEvents, RefineInv, store

\* Every other step leaves the log and what was taken of it alone.
Quiet == UNCHANGED <<events, nextEvent, checkpoint, got>>

LEMMA LogSteps ==
  ASSUME TypeOK, [Next]_vars
  PROVE  Quiet \/ \E p \in Handlers : AppendEvent(p) \/ ReadEvents(p)
<1> USE DEF store, control, client
<1>1. ASSUME NEW p \in Handlers, Arrive(p) \/ Proceed(p) \/ Fail(p)
      PROVE  Quiet \/ AppendEvent(p) \/ ReadEvents(p)
  BY <1>1, ElsewhereSteps
     DEF Arrive, Proceed, Elsewhere, Quiet, PutNamespace, ScanOffsets, ReceiveEvents
<1>2. QED
  BY <1>1 DEF Next, Crash, vars, Quiet

LEMMA RefineStep ==
  ASSUME LogInv, LogInv', AppendsFresh, RefineInv, [Next]_vars
  PROVE  RefineInv'
<1>0. TypeOK /\ TypeOK'
  BY DEF LogInv
<1>1. CASE Quiet
  BY <1>1 DEF Quiet, RefineInv, Stored
<1>2. ASSUME NEW p \in Handlers, AppendEvent(p) PROVE RefineInv'
  <2>1. PICK e \in Entities, n \in 0..(MaxEvents - 1) :
            /\ \A o \in Offsets : Stored(e, o) <=> o < n
            /\ nextEvent \in Events /\ nextEvent # NoEvent
            /\ events' = [events EXCEPT ![e][n] = nextEvent]
            /\ nextEvent' = nextEvent + 1
            /\ UNCHANGED <<checkpoint, got>>
    BY <1>2, AppendAtEnd
  <2>2. /\ events'[e][n] = nextEvent /\ n \in Offsets
        /\ \A f \in Entities, o \in Offsets : f # e \/ o # n => events'[f][o] = events[f][o]
    BY <1>0, <2>1 DEF TypeOK, Offsets
  <2>3. \A f \in Entities : \E m \in 0..MaxEvents : \A o \in Offsets : Stored(f, o)' <=> o < m
    <3> SUFFICES ASSUME NEW f \in Entities
                 PROVE  \E m \in 0..MaxEvents : \A o \in Offsets : Stored(f, o)' <=> o < m
      OBVIOUS
    <3>1. CASE f # e
      BY <2>2, <3>1 DEF RefineInv, Stored
    <3>2. CASE f = e
      <4>1. n + 1 \in 0..MaxEvents
        BY BoundsAssumption
      <4>2. \A o \in Offsets : Stored(f, o)' <=> o < n + 1
        BY <2>1, <2>2, <3>2, BoundsAssumption DEF Stored, Offsets
      <4>3. QED
        BY <4>1, <4>2
    <3>3. QED
      BY <3>1, <3>2
  <2>4. ASSUME NEW f \in Entities, NEW o \in Offsets
        PROVE  /\ Stored(f, o)' => events'[f][o] < nextEvent'
               /\ got'[f][o] # NoEvent => got'[f][o] = events'[f][o]
    <3>1. CASE f # e \/ o # n
      <4>1. nextEvent \in Int /\ (Stored(f, o) => events[f][o] \in Int)
        BY <1>0, BoundsAssumption DEF TypeOK, Stored, Events
      <4>2. events'[f][o] = events[f][o] /\ got' = got
        BY <2>1, <2>2, <3>1
      <4>3. QED
        BY <2>1, <4>1, <4>2 DEF RefineInv, Stored
    <3>2. CASE f = e /\ o = n
      <4>1. nextEvent < nextEvent'
        BY <2>1, BoundsAssumption DEF Events
      <4>2. got[f][o] = NoEvent
        BY <2>1, <2>2, <3>2 DEF LogInv, Offsets
      <4>3. QED
        BY <2>1, <2>2, <3>2, <4>1, <4>2
    <3>3. QED
      BY <3>1, <3>2
  <2>5. QED
    BY <2>3, <2>4 DEF RefineInv
<1>3. ASSUME NEW p \in Handlers, ReadEvents(p) PROVE RefineInv'
  <2>1. PICK e \in Entities :
          /\ UNCHANGED <<events, nextEvent>>
          /\ \A f \in Entities : f # e => got'[f] = got[f]
          /\ \A o \in Offsets : got'[e][o] # NoEvent => got'[e][o] = events[e][o]
    BY <1>3, ReadTakes
  <2>2. QED
    BY <2>1 DEF RefineInv, Stored
<1>4. QED
  BY <1>0, <1>1, <1>2, <1>3, LogSteps

\* A send is a Send of the log, a read a Take or nothing, and the rest nothing.
LEMMA LogRefines ==
  ASSUME LogInv, LogInv', AppendsFresh, RefineInv, RefineInv', [Next]_vars
  PROVE  [AbstractLog!Next]_<<[e \in Entities |-> HubLog(e)], [e \in Entities |-> HubTaken(e)]>>
<1> DEFINE log == [e \in Entities |-> HubLog(e)]
           taken == [e \in Entities |-> HubTaken(e)]
<1>0. TypeOK /\ TypeOK'
  BY DEF LogInv
<1>1. ASSUME UNCHANGED events PROVE UNCHANGED log
  BY <1>1 DEF HubLog, Length, Stored
<1>2. ASSUME UNCHANGED <<checkpoint, got>> PROVE UNCHANGED taken
  BY <1>2 DEF HubTaken
<1>3. ASSUME NEW e \in Entities, NEW event \in Events,
             \A i \in 1..Len(log[e]) : log[e][i] # event,
             log' = [log EXCEPT ![e] = Append(@, event)], UNCHANGED taken
      PROVE  AbstractLog!Next
  BY <1>3, ZenonT(40) DEF AbstractLog!Next, AbstractLog!Send, HubLog, HubTaken
<1>4. ASSUME NEW e \in Entities, NEW n \in 1..Len(log[e]), n \in Len(taken[e])..Len(log[e]),
             taken' = [taken EXCEPT ![e] = SubSeq(log[e], 1, n)], UNCHANGED log
      PROVE  AbstractLog!Next
  BY <1>4 DEF AbstractLog!Next, AbstractLog!Take, HubLog, HubTaken
<1> HIDE DEF log, taken
<1>5. ASSUME NEW e \in Entities, NEW n \in 0..MaxEvents, \A o \in Offsets : Stored(e, o) <=> o < n
      PROVE  log[e] = [i \in 1..n |-> events[e][i - 1]] /\ log[e] \in Seq(Events) /\ Len(log[e]) = n
  <2>1. Length(e) = n
    BY <1>5, LengthIs
  <2>2. log[e] = [i \in 1..n |-> events[e][i - 1]]
    BY <2>1 DEF log, HubLog
  <2>3. \A i \in 1..n : i - 1 \in Offsets /\ i - 1 < n
    BY BoundsAssumption DEF Offsets
  <2>4. \A i \in 1..n : events[e][i - 1] \in Events
    BY <1>0, <1>5, <2>3 DEF TypeOK, Stored
  <2>5. n \in Nat
    BY BoundsAssumption
  <2>6. QED
    BY <2>2, <2>4, <2>5
<1>6. CASE Quiet
  BY <1>1, <1>2, <1>6 DEF Quiet, log, taken
<1>7. ASSUME NEW p \in Handlers, AppendEvent(p) PROVE AbstractLog!Next
  <2>1. PICK e \in Entities, n \in 0..(MaxEvents - 1) :
            /\ \A o \in Offsets : Stored(e, o) <=> o < n
            /\ nextEvent \in Events /\ nextEvent # NoEvent
            /\ events' = [events EXCEPT ![e][n] = nextEvent]
            /\ nextEvent' = nextEvent + 1
            /\ UNCHANGED <<checkpoint, got>>
    BY <1>7, AppendAtEnd
  <2>2. n \in 0..MaxEvents /\ n + 1 \in 0..MaxEvents /\ n \in Offsets
    BY BoundsAssumption DEF Offsets
  <2>3. log[e] = [i \in 1..n |-> events[e][i - 1]] /\ log[e] \in Seq(Events) /\ Len(log[e]) = n
    BY <1>5, <2>1, <2>2
  <2>4. /\ events'[e][n] = nextEvent
        /\ \A f \in Entities, o \in Offsets : f # e \/ o # n => events'[f][o] = events[f][o]
    BY <1>0, <2>1, <2>2 DEF TypeOK
  <2>5. \A o \in Offsets : Stored(e, o)' <=> o < n + 1
    BY <2>1, <2>2, <2>4, BoundsAssumption DEF Stored, Offsets
  <2>6. Length(e)' = n + 1
    <3>1. {o \in Offsets : Stored(e, o)'} = 0..n
      BY <2>2, <2>5, BoundsAssumption DEF Offsets
    <3>2. Cardinality(0..n) = n + 1
      BY <2>2, FS_Interval
    <3>3. QED
      BY <3>1, <3>2 DEF Length
  <2>7. log'[e] = [i \in 1..(n + 1) |-> events'[e][i - 1]]
    BY <2>6 DEF log, HubLog
  <2>8. log'[e] = Append(log[e], nextEvent)
    <3>1. Append(log[e], nextEvent) = [i \in 1..(n + 1) |-> IF i <= n THEN log[e][i] ELSE nextEvent]
      BY <2>1, <2>2, <2>3
    <3>2. \A i \in 1..(n + 1) : events'[e][i - 1] = IF i <= n THEN log[e][i] ELSE nextEvent
      <4>1. \A i \in 1..n : events'[e][i - 1] = events[e][i - 1]
        BY <2>2, <2>4, BoundsAssumption DEF Offsets
      <4>2. QED
        BY <2>2, <2>3, <2>4, <4>1
    <3>3. QED
      BY <2>7, <3>1, <3>2
  <2>9. \A f \in Entities : f # e => log'[f] = log[f]
    <3> SUFFICES ASSUME NEW f \in Entities, f # e PROVE log'[f] = log[f]
      OBVIOUS
    <3>1. events'[f] = events[f]
      BY <2>1, <1>0 DEF TypeOK
    <3>2. HubLog(f)' = HubLog(f)
      BY <3>1 DEF HubLog, Length, Stored
    <3>3. QED
      BY <3>2 DEF log
  <2>10. log' = [log EXCEPT ![e] = Append(@, nextEvent)]
    <3>1. log = [f \in Entities |-> log[f]] /\ log' = [f \in Entities |-> log'[f]]
      BY DEF log
    <3>2. QED
      BY <2>8, <2>9, <3>1
  <2>11. \A i \in 1..Len(log[e]) : log[e][i] # nextEvent
    <3> SUFFICES ASSUME NEW i \in 1..n PROVE log[e][i] # nextEvent
      BY <2>3
    <3>1. i - 1 \in Offsets /\ Stored(e, i - 1)
      BY <2>1, <2>2, BoundsAssumption DEF Offsets
    <3>2. events[e][i - 1] < nextEvent /\ nextEvent \in Int
      BY <2>1, <3>1, BoundsAssumption DEF RefineInv, Events
    <3>3. QED
      BY <2>3, <3>2
  <2>12. UNCHANGED taken
    BY <1>2, <2>1
  <2>13. QED
    BY <1>3, <2>1, <2>10, <2>11, <2>12
<1>8. ASSUME NEW p \in Handlers, ReadEvents(p) PROVE AbstractLog!Next \/ UNCHANGED <<log, taken>>
  <2>1. PICK e \in Entities :
            /\ UNCHANGED <<events, nextEvent>>
            /\ checkpoint'[e] \in Int /\ checkpoint'[e] >= checkpoint[e]
            /\ \A f \in Entities : f # e => checkpoint'[f] = checkpoint[f] /\ got'[f] = got[f]
            /\ \A o \in Offsets : got'[e][o] # NoEvent => got'[e][o] = events[e][o]
    BY <1>8, ReadTakes
  <2>2. PICK n \in 0..MaxEvents : \A o \in Offsets : Stored(e, o) <=> o < n
    BY DEF RefineInv
  <2>3. log[e] = [i \in 1..n |-> events[e][i - 1]] /\ log[e] \in Seq(Events) /\ Len(log[e]) = n
    BY <1>5, <2>2
  <2> DEFINE m == checkpoint'[e] + 1
  <2>4. /\ checkpoint[e] \in Offsets \union {-1} /\ checkpoint'[e] \in Offsets \union {-1}
        /\ checkpoint[e] + 1 \in Nat /\ m \in Nat /\ checkpoint[e] + 1 <= m
    <3>1. checkpoint[e] \in Offsets \union {-1} /\ checkpoint'[e] \in Offsets \union {-1}
      BY <1>0 DEF TypeOK
    <3>2. QED
      BY <2>1, <3>1 DEF Offsets
  <2>5. \A o \in Offsets : o < m => got'[e][o] = events[e][o] /\ Stored(e, o)
    <3> SUFFICES ASSUME NEW o \in Offsets, o < m PROVE got'[e][o] = events[e][o] /\ Stored(e, o)
      OBVIOUS
    <3>1. o <= checkpoint'[e]
      BY <2>1 DEF Offsets
    <3>2. got'[e][o] # NoEvent
      BY <3>1 DEF LogInv, NothingSkipped
    <3>3. QED
      BY <2>1, <3>2 DEF Stored
  <2>6. m <= n
    <3> SUFFICES ASSUME n < m PROVE FALSE
      BY <2>4
    <3>1. m - 1 \in Offsets
      <4>1. m - 1 = checkpoint'[e] /\ m > 0
        BY <2>1, <2>2, <2>4, BoundsAssumption
      <4>2. m - 1 # -1
        BY <2>4, <4>1
      <4>3. QED
        BY <2>4, <4>1, <4>2
    <3>2. m - 1 < n
      BY <2>2, <2>4, <2>5, <3>1
    <3>3. QED
      BY <2>4, <3>2
  <2>7. HubTaken(e)' = SubSeq(log[e], 1, m)
    <3>1. \A i \in 1..m : got'[e][i - 1] = log[e][i]
      <4> SUFFICES ASSUME NEW i \in 1..m PROVE got'[e][i - 1] = log[e][i]
        OBVIOUS
      <4>1. i - 1 \in Offsets /\ i - 1 < m /\ i \in 1..n
        BY <2>4, <2>6, BoundsAssumption DEF Offsets
      <4>2. QED
        BY <2>3, <2>5, <4>1
    <3>2. SubSeq(log[e], 1, m) = [i \in 1..m |-> log[e][i]]
      BY <2>3, <2>4, <2>6, SubSeqProperties
    <3>3. HubTaken(e)' = [i \in 1..m |-> got'[e][i - 1]]
      BY DEF HubTaken
    <3> HIDE DEF m
    <3>4. QED
      BY <3>1, <3>2, <3>3
  <2>8. \A f \in Entities : f # e => HubTaken(f)' = HubTaken(f)
    BY <2>1 DEF HubTaken
  <2>9. UNCHANGED log
    BY <1>1, <2>1
  <2>10. Len(taken[e]) = checkpoint[e] + 1
    BY <2>4 DEF taken, HubTaken
  <2>11. taken' = [taken EXCEPT ![e] = SubSeq(log[e], 1, m)]
    BY <2>7, <2>8 DEF taken
  <2>12. CASE m = 0
    <3>1. HubTaken(e)' = HubTaken(e)
      BY <2>4, <2>12 DEF HubTaken
    <3>2. QED
      BY <2>8, <2>9, <3>1 DEF taken
  <2>13. CASE m # 0
    <3>1. m \in 1..Len(log[e]) /\ m \in Len(taken[e])..Len(log[e])
      BY <2>3, <2>4, <2>6, <2>10, <2>13
    <3>2. QED
      BY <1>4, <2>9, <2>11, <3>1
  <2>14. QED
    BY <2>12, <2>13
<1>9. QED
  BY <1>0, <1>6, <1>7, <1>8, LogSteps DEF log, taken

-----------------------------------------------------------------------------
(* Theorems *)

\* The variables have their types whatever the requests do.
THEOREM TypeCorrect == Spec => []TypeOK
BY LogInvariant, PTL DEF LogInv

\* However sends overlap, sendEvent leaves no gap between the offsets of a hub.
THEOREM OffsetsHaveNoGaps == Spec => []NoGaps
BY LogInvariant, PTL DEF LogInv

\* A consumer that asks receiveEvents for what follows its last offset reads
\* every offset once, in order, however the reads and sends overlap.
THEOREM ConsumersSkipNothing == Spec => []NothingSkipped
BY LogInvariant, PTL DEF LogInv

\* As long as requests do not overlap, no send overwrites an event that an
\* earlier one stored (sendEvent): the promise its comment makes.
THEOREM SerialAppendOnly ==
  ASSUME OneHandler
  PROVE  Spec => AppendOnly
<1>1. Init => AppendsFresh
  BY DEF Init, AppendsFresh, Idle
<1>2. TypeOK /\ AppendsFresh /\ [Next]_vars => AppendsFresh'
  BY FreshStep
<1>3. TypeOK /\ AppendsFresh /\ [Next]_vars =>
        [\A e \in Entities, o \in Offsets : Stored(e, o) => events'[e][o] = events[e][o]]_vars
  BY OnlyAppendWrites
<1>4. QED
  BY <1>1, <1>2, <1>3, TypeCorrect, PTL DEF Spec, AppendOnly

\* With one request at a time, none of which fails, and hubs of one group, the
\* index by which the data plane finds a hub has exactly the hubs the control
\* plane has, between the requests about it (putHub, deleteHub).
THEOREM SerialIndexConfirms ==
  ASSUME OneHandler, OneGroup
  PROVE  Spec => []IndexConfirms
<1>1. Init => IndexInv
  BY DEF Init, IndexInv, IndexConfirms, Idle
<1>2. IndexInv => IndexConfirms
  BY DEF IndexInv
<1>3. QED
  BY <1>1, <1>2, IndexStep, TypeCorrect, PTL DEF Spec

\* With one request at a time, whatever calls fail and whenever the process
\* ends, an event hub is one log (EventLog): every database call of sendEvent
\* and receiveEvents is an append, a read of what comes next, or no step.
THEOREM SerialIsALog ==
  ASSUME OneHandler
  PROVE  Spec => IsALog
<1>1. ASSUME Init PROVE AppendsFresh /\ RefineInv
  <2>1. AppendsFresh
    BY <1>1 DEF Init, AppendsFresh, Idle
  <2>2. \A e \in Entities, o \in Offsets : ~Stored(e, o) /\ got[e][o] = NoEvent
    BY <1>1 DEF Init, Stored
  <2>3. 0 \in 0..MaxEvents /\ \A o \in Offsets : ~(o < 0)
    BY BoundsAssumption DEF Offsets
  <2>4. QED
    BY <2>1, <2>2, <2>3 DEF RefineInv
<1>2. ASSUME Init PROVE AbstractLog!Init
  <2>1. \A e \in Entities : Length(e) = 0
    <3> SUFFICES ASSUME NEW e \in Entities PROVE Length(e) = 0
      OBVIOUS
    <3>1. 0 \in 0..MaxEvents /\ \A o \in Offsets : Stored(e, o) <=> o < 0
      BY <1>2, BoundsAssumption DEF Init, Stored, Offsets
    <3>2. QED
      BY <3>1, LengthIs
  <2>2. \A e \in Entities : HubLog(e) = <<>>
    BY <2>1 DEF HubLog
  <2>3. \A e \in Entities : HubTaken(e) = <<>>
    BY <1>2 DEF Init, HubTaken
  <2>4. QED
    BY <2>2, <2>3 DEF AbstractLog!Init, HubLog, HubTaken
<1>3. TypeOK /\ AppendsFresh /\ [Next]_vars => AppendsFresh'
  BY FreshStep
<1>4. LogInv /\ LogInv' /\ AppendsFresh /\ RefineInv /\ [Next]_vars => RefineInv'
  BY RefineStep
<1>5. LogInv /\ LogInv' /\ AppendsFresh /\ RefineInv /\ RefineInv' /\ [Next]_vars
        => [AbstractLog!Next]_<<[e \in Entities |-> HubLog(e)], [e \in Entities |-> HubTaken(e)]>>
  BY LogRefines
<1>6. LogInv => TypeOK
  BY DEF LogInv
<1>7. QED
  BY <1>1, <1>2, <1>3, <1>4, <1>5, <1>6, LogInvariant, PTL
     DEF Spec, IsALog, AbstractLog!Spec, HubLog, HubTaken
=============================================================================
