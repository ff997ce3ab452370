------------------------------ MODULE EventHub ------------------------------
(***************************************************************************)
(* Event Hubs (internal/services/eventhub): namespaces and hubs kept by    *)
(* the control plane, the index by which the data plane finds a hub, and   *)
(* the events, stored under offsets that sendEvent derives from the events *)
(* already there.  As everywhere in the emulator a request is a sequence   *)
(* of atomic database calls in a goroutine of its own; an action is one    *)
(* call and the code up to the next.                                       *)
(***************************************************************************)
EXTENDS Integers, FiniteSets

CONSTANTS
    Groups,       \* subscription/resource group pairs
    Namespaces,
    HubNames,
    Handlers,     \* requests that can be in progress at once
    MaxEvents,    \* bound on the events sent
    MaxBatch,     \* largest maxevents a consumer asks for
    MaxFaults,    \* bound on failed calls and crashes
    NoEvent       \* what an offset without an event holds

\* What the data plane knows of a hub: {namespace}/{hub}, whoever owns it.
Entities == Namespaces \X HubNames

\* The events, told apart by the order in which they are stored.
Events == 1..MaxEvents

Offsets == 0..(MaxEvents - 1)

ASSUME BoundsAssumption ==
    MaxEvents \in Nat \ {0} /\ MaxBatch \in Nat \ {0} /\ MaxFaults \in Nat
ASSUME NoEventAssumption == NoEvent \notin Events

VARIABLES
    namespaces,   \* bucket eventhub.namespaces
    hubs,         \* bucket eventhub.hubs, by group and entity
    index,        \* bucket eventhub.dataplane.hubs, by entity
    events,       \* bucket eventhub.events, by entity and offset
    nextEvent,    \* the next event to be stored
    checkpoint,   \* the last offset the consumer of a hub remembers
    got,          \* history: what that consumer read at an offset
    handler,      \* what each request in progress carries
    faults        \* failed calls and crashes so far

vars == <<namespaces, hubs, index, events, nextEvent, checkpoint, got, handler, faults>>

control == <<namespaces, hubs, index>>
store == <<namespaces, hubs, index, events, nextEvent>>
client == <<checkpoint, got>>

-----------------------------------------------------------------------------
(* Types *)

Idle == [at |-> "idle"]
HandlerState ==
    [at : {"idle"}]
      \union [at : {"dropNamespace"}, group : Groups, namespace : Namespaces]
      \union [at : {"recordHub", "mark", "dropHub", "unmark"}, group : Groups, entity : Entities]
      \union [at : {"scan"}, entity : Entities]
      \union [at : {"append"}, entity : Entities, offset : Offsets]
      \union [at : {"read"}, entity : Entities, after : Offsets \union {-1}, max : Nat]

\* Every variable has the type the code gives it.
TypeOK ==
    /\ namespaces \subseteq Groups \X Namespaces
    /\ hubs \subseteq Groups \X Entities
    /\ index \subseteq Entities
    /\ events \in [Entities -> [Offsets -> Events \union {NoEvent}]]
    /\ nextEvent \in 1..(MaxEvents + 1)
    /\ checkpoint \in [Entities -> Offsets \union {-1}]
    /\ got \in [Entities -> [Offsets -> Events \union {NoEvent}]]
    /\ handler \in [Handlers -> HandlerState]
    /\ faults \in 0..MaxFaults

-----------------------------------------------------------------------------
(* Helpers *)

Goto(p, state) == handler' = [handler EXCEPT ![p] = state]

Stored(e, o) == events[e][o] # NoEvent

\* One more than the largest offset stored, 0 when there is none.
IsNextOffset(e, o) ==
    /\ o = 0 \/ \E largest \in Offsets : Stored(e, largest) /\ o = largest + 1
    /\ \A other \in Offsets : Stored(e, other) => other < o

\* Fault: the newest events come first.
IsBatchNewest(e, after, max, batch) ==
    LET newer == {o \in Offsets : Stored(e, o) /\ o > after} IN
    /\ batch \subseteq newer
    /\ \A o \in batch, other \in newer : other > o => other \in batch
    /\ batch = newer \/ Cardinality(batch) = max

\* The offsets a read returns: the first max of those after the given one.
IsBatch(e, after, max, batch) ==
    LET newer == {o \in Offsets : Stored(e, o) /\ o > after} IN
    /\ batch \subseteq newer
    /\ \A o \in batch, other \in newer : other < o => other \in batch
    /\ Cardinality(batch) <= max
    /\ batch = newer \/ Cardinality(batch) = max

-----------------------------------------------------------------------------
(* Control plane *)

Init ==
    /\ namespaces = {} /\ hubs = {} /\ index = {}
    /\ events = [e \in Entities |-> [o \in Offsets |-> NoEvent]]
    /\ nextEvent = 1
    /\ checkpoint = [e \in Entities |-> -1]
    /\ got = [e \in Entities |-> [o \in Offsets |-> NoEvent]]
    /\ handler = [p \in Handlers |-> Idle]
    /\ faults = 0

\* PUT .../namespaces/{n}: one call, whether or not it is there.
PutNamespace(p, g, n) ==
    /\ handler[p].at = "idle"
    /\ namespaces' = namespaces \union {<<g, n>>}
    /\ UNCHANGED <<hubs, index, events, nextEvent, client, handler, faults>>

\* DELETE .../namespaces/{n}: 204 unless it is there; its hubs stay.
DeleteNamespace(p, g, n) ==
    /\ handler[p].at = "idle"
    /\ <<g, n>> \in namespaces
    /\ Goto(p, [at |-> "dropNamespace", group |-> g, namespace |-> n])
    /\ UNCHANGED <<store, client, faults>>

DropNamespace(p) ==
    /\ handler[p].at = "dropNamespace"
    /\ namespaces' = namespaces \ {<<handler[p].group, handler[p].namespace>>}
    /\ Goto(p, Idle)
    /\ UNCHANGED <<hubs, index, events, nextEvent, client, faults>>

\* PUT .../eventhubs/{hub}: 404 without the namespace.
PutHub(p, g, e) ==
    /\ handler[p].at = "idle"
    /\ <<g, e[1]>> \in namespaces
    /\ Goto(p, [at |-> "recordHub", group |-> g, entity |-> e])
    /\ UNCHANGED <<store, client, faults>>

RecordHub(p) ==
    /\ handler[p].at = "recordHub"
    /\ hubs' = hubs \union {<<handler[p].group, handler[p].entity>>}
    /\ Goto(p, [handler[p] EXCEPT !.at = "mark"])
    /\ UNCHANGED <<namespaces, index, events, nextEvent, client, faults>>

MarkHub(p) ==
    /\ handler[p].at = "mark"
    /\ index' = index \union {handler[p].entity}
    /\ Goto(p, Idle)
    /\ UNCHANGED <<namespaces, hubs, events, nextEvent, client, faults>>

\* DELETE .../eventhubs/{hub}: 204 unless it is there; its events stay.
DeleteHub(p, g, e) ==
    /\ handler[p].at = "idle"
    /\ <<g, e>> \in hubs
    /\ Goto(p, [at |-> "dropHub", group |-> g, entity |-> e])
    /\ UNCHANGED <<store, client, faults>>

\* Fault: deleteHub leaves the hub in the index.
DropHubOnly(p) ==
    /\ handler[p].at = "dropHub"
    /\ hubs' = hubs \ {<<handler[p].group, handler[p].entity>>}
    /\ Goto(p, Idle)
    /\ UNCHANGED <<namespaces, index, events, nextEvent, client, faults>>

DropHub(p) ==
    /\ handler[p].at = "dropHub"
    /\ hubs' = hubs \ {<<handler[p].group, handler[p].entity>>}
    /\ Goto(p, [handler[p] EXCEPT !.at = "unmark"])
    /\ UNCHANGED <<namespaces, index, events, nextEvent, client, faults>>

UnmarkHub(p) ==
    /\ handler[p].at = "unmark"
    /\ index' = index \ {handler[p].entity}
    /\ Goto(p, Idle)
    /\ UNCHANGED <<namespaces, hubs, events, nextEvent, client, faults>>

-----------------------------------------------------------------------------
(* Data plane *)

\* POST /{entity}/messages: 404 unless the index has the hub.
SendEvent(p, e) ==
    /\ handler[p].at = "idle"
    /\ e \in index
    /\ nextEvent <= MaxEvents
    /\ Goto(p, [at |-> "scan", entity |-> e])
    /\ UNCHANGED <<store, client, faults>>

ScanOffsets(p) ==
    /\ handler[p].at = "scan"
    /\ \E o \in Offsets :
         /\ IsNextOffset(handler[p].entity, o)
         /\ Goto(p, [at |-> "append", entity |-> handler[p].entity, offset |-> o])
    /\ UNCHANGED <<store, client, faults>>

AppendEvent(p) ==
    /\ handler[p].at = "append"
    /\ nextEvent <= MaxEvents
    /\ events' = [events EXCEPT ![handler[p].entity][handler[p].offset] = nextEvent]
    /\ nextEvent' = nextEvent + 1
    /\ Goto(p, Idle)
    /\ UNCHANGED <<control, client, faults>>

\* GET /{entity}/messages?offset=&maxevents=: the consumer of a hub asks for
\* what follows the last offset it read, one request at a time.
ReceiveEvents(p, e, max) ==
    /\ handler[p].at = "idle"
    /\ e \in index
    /\ \A q \in Handlers : handler[q].at = "read" => handler[q].entity # e
    /\ Goto(p, [at |-> "read", entity |-> e, after |-> checkpoint[e], max |-> max])
    /\ UNCHANGED <<store, client, faults>>

ReadEvents(p) ==
    /\ handler[p].at = "read"
    /\ \E batch \in SUBSET Offsets :
         LET e == handler[p].entity IN
         /\ IsBatch(e, handler[p].after, handler[p].max, batch)
         /\ got' = [got EXCEPT ![e] = [o \in Offsets |-> IF o \in batch THEN events[e][o] ELSE got[e][o]]]
         /\ \/ batch = {} /\ UNCHANGED checkpoint
            \/ \E last \in batch :
                 /\ \A o \in batch : o <= last
                 /\ checkpoint' = [checkpoint EXCEPT ![e] = last]
    /\ Goto(p, Idle)
    /\ UNCHANGED <<store, faults>>

-----------------------------------------------------------------------------
(* Faults *)

\* A failed call answers 500 and leaves what the earlier calls wrote.
Fail(p) ==
    /\ handler[p].at # "idle"
    /\ faults < MaxFaults
    /\ faults' = faults + 1
    /\ Goto(p, Idle)
    /\ UNCHANGED <<store, client>>

\* The process dies and restarts: Bolt keeps what was written.
Crash ==
    /\ faults < MaxFaults
    /\ faults' = faults + 1
    /\ handler' = [p \in Handlers |-> Idle]
    /\ UNCHANGED <<store, client>>

-----------------------------------------------------------------------------
(* Specification *)

Arrive(p) ==
    \/ \E g \in Groups, n \in Namespaces : PutNamespace(p, g, n) \/ DeleteNamespace(p, g, n)
    \/ \E g \in Groups, e \in Entities : PutHub(p, g, e) \/ DeleteHub(p, g, e)
    \/ \E e \in Entities : SendEvent(p, e) \/ \E max \in 1..MaxBatch : ReceiveEvents(p, e, max)

Proceed(p) ==
    \/ DropNamespace(p)
    \/ RecordHub(p)
    \/ MarkHub(p)
    \/ DropHub(p)
    \/ UnmarkHub(p)
    \/ ScanOffsets(p)
    \/ AppendEvent(p)
    \/ ReadEvents(p)

Next == (\E p \in Handlers : Arrive(p) \/ Proceed(p) \/ Fail(p)) \/ Crash

Spec == Init /\ [][Next]_vars

-----------------------------------------------------------------------------
(* Properties that hold however requests interleave *)

\* The offsets of a hub have no gap, though each is derived from a listing
\* that may be stale by the time the event is written (sendEvent).
NoGaps == \A e \in Entities, o \in Offsets : Stored(e, o) => \A lower \in 0..o : Stored(e, lower)

\* A consumer that remembers the last offset it read has read an event at
\* each offset up to it: maxevents never makes it skip one (receiveEvents).
NothingSkipped ==
    \A e \in Entities, o \in Offsets :
      got[e][o] # NoEvent <=> o <= checkpoint[e]

-----------------------------------------------------------------------------
(* What the comments of the service promise; these hold when requests do not
   overlap (at most one handler). *)

\* "no hace falta un contador atomico separado porque BoltDB serializa
\* escrituras": no two events get one offset, so none is overwritten.
AppendOnly ==
    [][\A e \in Entities, o \in Offsets : Stored(e, o) => events'[e][o] = events[e][o]]_vars

\* "Este indice plano ... permite confirmar que el event hub existe": once
\* the requests about a hub are answered, and none was cut short, the index
\* has it if and only if the control plane does.  One resource group: hubs of
\* one name in two groups share an entry, and this fails.
Settled(e) == \A p \in Handlers : handler[p].at \in {"mark", "unmark"} => handler[p].entity # e
IndexConfirms ==
    \A e \in Entities : faults = 0 /\ Settled(e) =>
      (e \in index <=> \E g \in Groups : <<g, e>> \in hubs)

\* An event hub is a log: producers append, a consumer reads all in order.
Length(e) == Cardinality({o \in Offsets : Stored(e, o)})
AbstractLog == INSTANCE EventLog WITH
    log <- [e \in Entities |-> [i \in 1..Length(e) |-> events[e][i - 1]]],
    taken <- [e \in Entities |-> [i \in 1..(checkpoint[e] + 1) |-> got[e][i - 1]]]
IsALog == AbstractLog!Spec
=============================================================================
