# azure-cloud-emulator in TLA+

A verification development for the emulator in `src/`: TLA+ modules of its
stateful services, TLC configurations that check them on small instances, and
theorems, proved with TLAPS, that hold for instances of any size.

`PROJECT.json` ties everything to the code: each definition to the lines it
models (`map`), each run to its properties, each property to a plausible bug
that breaks it (`mutants`), each hazard of the code to the properties that watch it.

## 1. The system

The emulator is one Go process. `cmd/azure-emulator/main.go` opens a Bolt
database, builds one service per Azure resource provider and serves them over
net/http. Three facts shape every module:

- **A request is a goroutine.** Handlers of any services run at once.
- **A handler is a sequence of `storage.DB` calls.** `Put`, `Get`, `Delete` and
  `List` (`internal/storage/db.go`) are each one Bolt transaction, atomic on its
  own; nothing spans two of them. Between two calls of a handler any other
  handler may run, and the process may die. So an action of a module is one
  database call together with the code up to the next one.
- **There are two locks in the program**: of the registry of asynchronous
  operations, and of the map of Logic Apps' firing goroutines. Both guard memory
  that a restart loses; Bolt's buckets survive.

### Components

| component | state | operations | what makes it correct |
|---|---|---|---|
| `storage.DB` | buckets of key -> JSON | Put, Get, Delete, List by prefix, in key order | each call atomic and durable |
| operations registry (`server/operations.go`) | counter and map, in memory, locked | Succeeded, Failed, poll | an id is given once and answers its own outcome |
| server helpers, wiring, `devtls` | none | error bodies, path case, dispatch by suffix, certificate | routing of a data-plane path |
| `cronlike` | none | next fire time of a recurrence | the next time is later and on the grid |
| Queue Storage | buckets of queues and messages | create, list, delete queue; put, get, peek, clear, delete message | no loss, no double delivery, nothing in a deleted queue |
| Logic Apps | bucket of workflows; stop channels, locked; a goroutine per enabled workflow | PUT, DELETE, run, fire, resume at start | a workflow fires exactly when enabled, once over |
| Event Hubs | buckets of namespaces, hubs, consumer groups, index, events | control plane; send, receive from an offset | events of a hub are a log |
| Deployments | buckets of deployments, operations, templates | PUT (order, dispatch, persist, record), DELETE, export | dependencies first; records agree with each other and with what was created |
| Service Bus | buckets of namespaces, queues, topics, subscriptions, index, messages | control plane; send, fan out, receive, complete | one copy per subscription; a receive brings nothing back; the index agrees |
| Event Grid | buckets of topics, subscriptions, index | control plane; publish, delivery in goroutines | deliveries change nothing but their status |
| Monitor | workspaces, action groups, alerts | control plane; test notification in goroutines | as Event Grid |
| Networking | vnets, subnets inside them, NICs, NSGs, IPs, load balancers, routes, DNS | nested control planes, addresses | a subnet's addresses are distinct; nested updates are kept |
| Table, Blob | tables, entities; containers, blobs | insert, merge, If-Match; put, delete in cascade | an insert never overwrites; If-Match excludes lost updates |
| Cosmos DB, Key Vault, SQL, AKS, API Management, App Service, Functions, Compute, registries, storage accounts | nested resources, some with an index or versions | control planes (PUT, GET, LIST, DELETE), some data planes | parents exist; deletion in cascade where the code does it |
| resource groups, identity, authorization, Graph, tokens, metadata | flat records, constants | control planes | - |
| `web/`, scripts, Terraform, docs | - | clients | - |

**Interactions.** A deployment sends the resources of its template to the other
services through the server's own handler, in process. All services register
long-running outcomes in the operations registry. A data plane knows its
entities through an index bucket that the control plane of the same service
keeps (`dataplane_index.go`): a second record of what exists, written in a
second call. VMs look up NICs, NICs subnets, sites plans, by resource id.

**Hard behaviours.** Check-then-act across two database calls; a record listed
or read, changed and written back whole; two records of one fact (a hub and its
index entry, a workflow and its goroutine, a deployment and its operations);
processes that die between the two; an in-memory registry next to durable
records; deletions that do or do not cascade; names that are scoped to less than
what owns them. `hazards` in `PROJECT.json` lists them at their lines.

## 2. The modules

| module | models | proofs |
|---|---|---|
| `PeekLockQueue` | abstract: a store of peek-lock queues with atomic operations | |
| `QueueStorage` (`MCQueueStorage`) | `services/queue/queue.go` | `QueueStorage_proofs` |
| `LogicApps` | `services/logicapps/logicapps.go` | `LogicApps_proofs` |
| `EventLog` | abstract: one append-only log per hub and a consumer of it | |
| `EventHub` | `services/eventhub/*.go` | `EventHub_proofs` |
| `Operations` | `server/operations.go`, used by `Deployments` | |
| `Deployments` | `services/deployments/deployments.go` | `Deployments_proofs` |
| `TemplateOrder` | `orderByDependencies` of `services/deployments/template.go` | `Algorithms_proofs` |
| `TemplateResolution` | parameters, variables and resources of the same file | `Algorithms_proofs` |
| `Providers` | `buildProviders` of `deployments.go` | `Algorithms_proofs` |
| `ResourceIds` | `server/armcase.go`, `ParseResourceID`, `resourcePath` | `Algorithms_proofs` |
| `Recurrences` | `internal/cronlike` and the loop that asks it | `Algorithms_proofs` |
| `Algorithms` (`MCAlgorithms`) | composes the five before it | `Algorithms_proofs` |
| `ArmStore` | how a handler of any of the services below reads, decides and writes (`storage/db.go`) | `ArmStore_proofs` (lemmas) |
| `Network` | `services/network` | |
| `Compute`, `Sql`, `KeyVault`, `CosmosDb`, `ApiManagement`, `Aks`, `WebApps` | the services of those names (`WebApps`: `appservice`, `functions`) | |
| `Notifications` | `services/eventgrid`, `services/monitor` | |
| `Identity` | `services/authorization`, `managedidentity`, `graph` | |
| `Resources` | resource groups, storage accounts, container registries | |
| `Storage` | `services/blob`, `services/table` | |
| `Services` (`MCServices`) | composes the modules from `Network` on over one `ArmStore` | `Services_proofs` |
| `ServiceBus` (`MCServiceBus`) | `services/servicebus` over an `ArmStore` of its own | `ServiceBus_proofs` |

An operator commented "Fault:" or "A broken ..." is no part of the model: it is
the code with a plausible bug, and its property must fail when it takes the
place of the definition that follows it.

### One action per database call

`QueueStorage`, `LogicApps`, `EventHub` and `Deployments` have one action for
each database call of a handler, reads included: their hazards are what a
handler does with something it read two calls ago. `handler[p]` is the request
in progress `p`: `at` names the next database call, the other fields are the
local variables that call needs. A request *arrives* when `p` is idle (the code
up to its first effect is then one step with that call), and *proceeds* one call
at a time. `Fail` or `CallFails` is a database error: the handler answers 500
and leaves what it wrote. `Crash` or `Restart` ends all requests, and the
memory. Handlers that only read (GET, LIST, peek) change nothing and are actions
only where a client's later request depends on the answer.

**QueueStorage.** `queues` and `messages` are the two buckets; a message is its
receipt, its dequeueCount and the time from which it is visible. Message ids and
receipts are random in the code (`newID`): here an id was never used before and
receipts count up. `issued` remembers the receipts handed out. `GetMessages`
reads the clock before it lists, so `Reserve` hides a message from that time on.
A get lists the visible messages in key order, then reserves one per call; a
delete checks the receipt in one call and removes the message in another; a
clear lists keys and removes them one by one, and `deleteQueue` then drops the
queue.

**LogicApps.** `stops[k]` is the slot of the goroutine whose channel is in the
map, `loop[k][n]` the goroutines themselves with the recurrence they were
started with and whether their channel is closed. One closes only when it
selects its channel; with the timer due as well, either branch. `dispatch` reads
the workflow, makes an HTTP call, and puts the record it read back: two steps,
for goroutines and for manual runs. `asked` remembers what clients asked for.

**EventHub.** An *entity* is what the data plane knows, `{namespace}/{hub}`; the
control plane's hubs also have a group. `ScanOffsets` is the `List` that finds
the next offset, `AppendEvent` the `Put`. The consumer of a hub, outside the
emulator, is the usual one: it remembers the last offset it read and asks for
what follows.

**Deployments.** A template is the list `orderByDependencies` returns. The
outcome of a dispatched resource is a free choice: the services refuse what they
refuse. `Operations` is its registry, instantiated with the same variables.
Clearing walks the listed keys one call at a time, persisting writes one
operation per call.

### One action per write

The other services share one shape, which `ArmStore` states once: a handler
reads, checks, computes, and then writes one document after the other. `Begin`
is all it reads and decides, in one step; it leaves in `calls[c].todo` the
writes to come, and each `Write` is one Bolt transaction. A deletion in cascade
is a *sweep*, a `List` under a prefix when its turn comes and one deletion per
key found, inner buckets first where the code nests them. `docs` is the
database, from keys (the bucket, then names from the outermost resource
inwards) to documents. The reads of one handler are one step, which is exact
when requests do not overlap; what lies between two reads of one handler is
covered by the four modules above and not here. An answer that writes nothing
(400, 404, 204 of an absent resource) is no step.

A name stands for the subscription, group and name that make up a key, where no
property tells them apart; where one does (Event Grid topics, Cosmos DB
accounts and everything of Service Bus, whose index knows less than the record)
the group is there. An id inside a body is what its reader makes of it: a
subnet's, which `findSubnetByID` parses and `countNICsOnSubnet` compares as
text, is a triple `<<vnet, subnet, spelling>>`, where spellings differ in what the
parser ignores (the case of keys, slashes at the ends). A
document keeps the fields that another step reads or a property is about. Dates
and passwords are members of a small set that the request draws.

`mode`, chosen at the start, is how requests are served: "serial" (one after
the other), "crashing" (the same, with the end of the process before any write),
"concurrent" (they overlap before each write). `Services` also chooses a
`scenario`, a group of operations, since the services share no bucket: only
virtual machines read another service's documents, and that scenario has both.
`Deliver` of `Notifications` is the HTTP call of an Event Grid goroutine, or of
an action group's test, which reads the document before and writes it back
after; `Couriers` are the goroutines a publication leaves running.

**ServiceBus.** In the same style, with a run of its own as messages make its
state large: a receive locks up to n messages that it lists, each under a token
of its own, in any order since their ids are random; a lock runs out at any
time; completion asks for the last token. A topic finds its subscriptions by
the topic's name alone, as `strings.Contains` does, and copies under the
namespace it was sent to. Records are kept by group, namespace and name; index
entries and messages by namespace and name (`DataQueues`, `DataTopics`,
`DataSubscriptions`), as the data plane's urls have no group. `Twins` pairs each
record with its entry.

### Algorithms

What has no shared state is a machine of its own, one step per turn of the loop
in the code, and `Algorithms` runs the three tasks: a template (resolve, order,
list providers), an id (normalize, route, parse), a recurrence.

**TemplateOrder.** The recursive closure `visit` is its call stack; `pending` is
what is left of its loop over dependencies, taken in any order since the code
iterates a list whose order no property depends on. A template maps indices to a
path and the paths it depends on; several resources may have one path, and a
path may be no resource's.

**TemplateResolution.** A value is the sequence of its leaves, and an expression
a leaf that names a parameter or a variable; Go's maps are walked in any order.

**Providers** keeps the slice that `append` moves and the pointers into it; its
two loops are the actions `Collect` and `NewNamespace` or `AnotherType`.
**ResourceIds** has segments as words with a spelling; slashes are collapsed one
at a time. **Recurrences** has durations that wrap at a width, and months of
unequal length, which `CountMonths` adds one interval after the other.

## 3. Runs

All passing runs search their whole state space. Deadlock is checked except for
`Deployments` and `ServiceBus`, whose operations, capped by a bound, may run
out, and `Algorithms`, which end.

| run | instance | shows |
|---|---|---|
| `queue_serial` | 2 queues, 2 ids, 3 receipts, 1 request at a time, failures and crashes | requests that do not overlap implement `PeekLockQueue` (`Implements`); no orphans, no message back from deletion, no delivery while hidden, only the latest receipt deletes, dequeueCount exact |
| `queue_concurrent` | 1 queue, 2 ids, 3 receipts, 2 requests | what survives overlap: messages leave only by DELETE with one of their receipts or a clear (`LeavesOnlyBy`), every request ends |
| `logicapps_serial` | 1 workflow, 3 definitions (2 recurring), 2 goroutines, 1 restart | it fires as last asked; stopped goroutines end; others keep firing |
| `logicapps_concurrent` | 2 requests | never two live goroutines, never a channel closed twice |
| `logicapps_passthrough` | 1 request | **violated** `PassthroughNeverFires` |
| `eventhub_serial` | 2 hubs, 3 events, 1 fault, 1 request | `IsALog`: implements `EventLog`; a consumer skips nothing; the index agrees with the control plane while nothing fails |
| `eventhub_overwrite` | 1 hub, 3 events, 2 requests | **violated** `AppendOnly`: two producers, one offset |
| `deployments_serial` | 1 deployment, 2 resources, 3 operations, 1 fault, 1 request | stored operations and exported template are those of the recorded run while nothing fails; a redeployment repairs what a failure or crash left |
| `deployments_concurrent` | 1 deployment, 2 resources, 2 requests | Succeeded only if all was created; polls answer their own outcome; requests end |
| `algorithms` | templates of up to 3 resources over 3 paths; 1 parameter, 2 variables of up to 2 leaves; ids of 1 to 3 types in 2 spellings; 3 frequencies on a calendar of 3 months | dependencies first, refused iff cyclic, expressions evaluate to what they refer to, every provider's types listed, an id is read back as built, the next fire time is the following one, every template is answered; 235,248 states |
| `services` | 20 scenarios; 2 requests and a delivery; 1 or 2 names of each kind; 315,673 states | nested lists, cascades, indices, what a PUT keeps, and that every request and delivery ends |
| `servicebus` | 2 groups with a namespace of one name; in each a queue, a topic and a subscription of one name, in one of them another subscription; 2 to 6 ids and tokens drawn; 631,981 states | the index agrees, where groups share an entry and where not; a copy per subscription; a receive brings no message back |

**Bounds.** Two requests are enough for every overlap here: each hazard is one
handler's pair of calls with another's call in between. Three receipts or events
give a message sent and delivered twice, three offsets a gap in the middle. Two
goroutines of a workflow are one stopped and one started. Three resources give
chains, diamonds of duplicates, self references and cycles of length 2 and 3.
Three types in two namespaces fill and move the slice of `buildProviders`.
`MaxFaults = 1` places one failure or crash anywhere; a second one meets the
same states, since handlers keep nothing across it. `faults` is a counter with
that bound in the guards; so are `restarts`, `clock`, `nextReceipt`,
`nextEvent`, `seq`, and `drawn` of `ServiceBus`. `IndexConfirms` is stated for
runs without faults and one resource group (see section 5).

In `services` nothing counts, so that no bound but the names is needed: any
sequence of requests over them is a behaviour. Two names per kind where a
property relates two (entries of a list, interfaces on a subnet, pools, groups
that share a topic's name), one elsewhere. Every scenario runs serially; those
with several writes in a handler also with crashes (`Interrupted`); those with a
list shared by requests also with overlap (`Overlapping`), and one of those
with a cascade (`blobs`) and one of those with an index (`cosmos`), as these
share their code's shape.
Two spellings of a subnet's id are one as listed and any other.
`servicebus` starts its crashing and concurrent modes with every entity stored,
and they draw more ids: the messages and the control plane do not interact but
through what is marked. Two groups share every name but
one: a third would meet an entry shared by two records, and one shared by none, again.

A subnet's prefix has eight addresses, four kept back, for two
interfaces with up to two addresses each. The calendar and durations of
`algorithms` are short so that both the carry of a day a month has not and the
wrapping of a product happen within 20 ticks.

**Fairness.** Weak fairness of each request's next call: the Go scheduler runs
runnable goroutines and Bolt transactions end. For Logic Apps also weak
fairness of timers and of dispatches (their HTTP client has a timeout of ten
seconds), and strong fairness of `StopReceived`: a `select` with both channels
ready chooses at random, so it cannot ignore the closed channel for ever.
Weak fairness would not do, as a dispatch disables the step again and again. In
`Services`, weak fairness of `Write` and of `Deliver`, whose client has the same
timeout. In `Algorithms`, of the loops over a template. Nothing is assumed of
clients: requests need not arrive.

## 4. Theorems

Every theorem is for any number of requests, keys, messages, resources and any
bounds, under the named assumptions of the modules (bounds are naturals; what
stands for "nothing" is no value).

- **Queue Storage** (`QueueStorage_proofs`): `TypeCorrect`;
  `ReceiptsStayDisjoint` and `NothingIsLost` from `ReceiptInv` (receipts below
  `nextReceipt`, issued for one message, those in a handler's hands among them);
  `HiddenIsBounded` from `TimeInv` (every copy a reader holds was listed at a time
  not later than the clock, with a timeout of the set); `CountIsBounded` from
  `CountInv` (a copy about to be written back counts fewer deliveries than its
  key has receipts, which only grow). These hold however requests overlap.
- **Queue Storage, one request at a time** (assumption `OneHandler`):
  `SerialInv` says that what the handler carries is what the store holds: its
  candidates are the stored records, its queue exists, a queue about to be
  dropped is empty. With it a step writes a message in only
  three ways (`SerialWrites`), from which `SerialExclusive`, `SerialNoResurrection`,
  `SerialDeletesLatest` and `SerialCountExact`; also `SerialNoOrphans`, and
  `SerialImplements`: every step is a step of `PeekLockQueue`. The mapping shows
  that module which removals are being asked for (`settling`, `purging`), so a
  message may go only for a client that asked with its latest receipt, or for
  a clear of its queue.
- **Logic Apps**: `RegistryInv` is `TypeOK`, `OneLiveLoop` and `RegisteredIsOpen`
  together: none is inductive alone, since closing the registered channel keeps
  one live goroutine only if the registered one is the live one.
  With one request at a time `SerialFiresAsAsked` follows from `AskedInv`: a
  request about to start or stop a goroutine is the last one about its workflow,
  and every other workflow is settled; a goroutine that goes on keeps its
  recurrence, and the registered one, being open, does not end.
- **Event Hubs**: `LogInv` adds to `NoGaps` and `NothingSkipped` that an offset
  in a producer's hands is at most one past the stored ones, and a consumer's is
  its checkpoint. `SerialAppendOnly` says that the property `eventhub_overwrite`
  refutes holds with one handler, since the offset in its hands is then
  free (`FreshStep`). `SerialIndexConfirms` adds `OneGroup`, a premise
  the code needs (section 5), and that a request between the two writes of a hub
  has made the first (`IndexInv`). `SerialIsALog` is the refinement: the
  mapping shows `EventLog` the stored events as a sequence, whose length it
  counts; `RefineInv` says that the offsets in use are the first ones, from
  which the length is known (`LengthIs`), that the event about to be stored is
  in no hub, and that what a consumer has read is what is stored.
- **Template ordering** (`Algorithms_proofs`, of `TemplateOrder` alone and within
  `Algorithms`): `OrderInv`. `ColorInv`: gray resources are those on the
  stack, black those in the order, without repetition. `PendingInv`: each
  dependency of a gray resource is pending, black, or the next call on the stack.
  `BlackInv`: dependencies of an ordered resource come before it.
  `NoBlackCycle`: no cycle among ordered resources. `VerdictInv`: a refused template has a
  cycle. From it dependencies come first (`OrderIsTopological`), each resource
  once (`OrderIsComplete`), and a template is refused exactly when it has a cycle
  (`CyclesAreFound`): when a gray resource is met, the part of the stack from
  it on is one (`GrayCloses`).
- **The other computations** (`Algorithms_proofs`, within `Algorithms`: each has an
  invariant that the steps of the others leave alone). What a recursive function
  is, and what follows for all numbers, is proved by taking the least number
  where it would fail (`Least`, from the well-foundedness of `<`).
  - `TypesAreListed` from `ListingInv`. `Pointing`: the pointer of a namespace
    leads to an element of its own array, and the same position in the
    slice now in hand has that namespace. That is all that survives a move of
    the slice, and gives the namespaces. `Listing`: while the types of a
    namespace follow one another, the last pointer is into the slice in hand,
    and what is listed is what was met, once each.
  - `IdsAreReadBack` from `IdsInv`: before the middleware has written the path,
    normalizing it would give what normalizing the path built gives
    (`Rewritings` differ in the spelling of fixed positions and in one slash);
    then the parser's `rest` is one of the few tails of that path (`Progress`),
    and the id holds what lies before it.
  - `FiresWhenDue` from `FiringInv`: while months are counted, `due` is the k-th
    time from the anchor and the one before is past. `StartOf` recurs and grows
    (`StartOfRecursion`, `StartOfGrows`), so that a day lies in one month
    (`MonthOfDay`) and adding months to a time of the grid gives the next. For fixed
    intervals it is the arithmetic of a quotient within its width.
  - `TemplatesAreResolved` from `ResolutionInv`: a variable already resolved has
    the value of `Meaning` at every depth from the number of those
    resolved on, which is why the number of all variables is depth
    enough; a template refused lacks something, or one of its variables
    refers to one.
- **Deployments** (`Deployments_proofs`; assumptions: bounds are naturals, what
  stands for an absent template, operation or deployment is none). `CompleteInv`
  is `TypeOK`, `SucceededIsComplete` and `Runs`: what each request has done is a
  prefix of its template, all of it created but the last when that failed, and
  it goes on to record only when the template is used up or one failed. From it
  `SuccessIsComplete`, however requests overlap. `PollsUntilRestart` is stated
  of behaviours without `Crash`, which loses the registry: `PollInv` says that
  the registry knows every id handed out or in a request's hands, with its
  outcome, and that no later registration can reuse it. With one request at a
  time, `SerialInv` compares the request with the buckets (`JobFits`): what it
  has still to clear covers what is stored, what it has persisted is exactly what it
  has crossed off its list, and what it is about to record is stored whole.
  It is needed because
  `OperationsMatch` itself speaks only of the states between requests; and it
  holds after faults for a request that *found* its deployment, which is why
  `SerialRepairs` needs no premise on faults and `SerialOperationsMatch` does.

- **Services over `ArmStore`** (`Services_proofs`; lemmas about the store, its
  writes and the lists in documents in `ArmStore_proofs`). The five safety
  properties of the run `services`, for any names, requests, prefixes, clients and
  couriers. Every operation is first brought to one of a few forms, by what it
  leaves to write (`Request`, one lemma per service): one document put alone, a
  document put with its list, a deletion, a cascade, a record and its index
  entry, a cluster and its pools. Each property is then proved about the forms,
  not about sixty handlers. All rest on `FormInv` (keys, documents and pending
  writes have the form of their kind; the database is finite), which holds
  however requests overlap and alone gives `EntriesAreNamed`: an entry is found
  by its name, so that a list computed from a stale one still has each name
  once. The others are about requests that do not overlap, and `AloneInv` says
  what that means for a state: one client has writes left (its *agenda*), and
  couriers write event subscriptions only. What a state between two requests
  says is not inductive, so each invariant speaks of the agenda too:
  - `NoOrphans` from `OrphanInv`: whatever lies in a document, stored or about to
    be, has its document stored, or (pools) later in the agenda; before a
    document is dropped, something in the agenda removes each thing in it; a
    sweep is of a kind in which nothing lies, or nests the sweep of what does.
    The order matters when a sweep becomes its deletions: each goes after those
    below it. This holds wherever the process ends.
  - `IndexesLead` from `LedInv`: an entry leads to a record that is stored, or
    the agenda drops the entry; a record in the agenda comes before its entry,
    and goes before it.
  - `PutsKeep` from `KeptInv`: such a call has one write left, computed from
    the document still stored.
  - `NothingElseGoes` from `SurviveInv`: a document with a list is put back with
    every name of the stored list but the one that a DELETE is for, and every
    other pending write takes only what lies below the call's resource.

  Stated as invariants of the `services` instance, without the premises on
  names, these hold in its 315,673 states.
- **Service Bus** (`ServiceBus_proofs`). `TypeCorrect`. `IndexIsRight` from
  `IndexInv`: the agenda concerns nothing of the index, or one path: its record
  and its entry are both to be written, or the entry alone with the record already
  written; every other path is in order (`Good`: what `IndexAgrees` says of one
  path), and so is this one while its record is unwritten. When the entry is
  dropped the record dropped before it leaves at least one record of the path
  unstored, which is why an entry removed under a namesake does not break it. `ReceivesOnlyMark` from `ReceiveInv`: what a receive has
  left to write is under keys that are stored; a receive drops nothing, so they
  remain so. `OneCopyEach` needs no overlap excluded, as the handler
  computes the copies from one `List`: subscriptions that a topic finds by its
  name, and that are all of that topic, differ in their own names, so that there
  are as many prefixes as copies.

The assumptions on constants that these proofs use are about any database: it
holds finitely many documents, and a topic has finitely many couriers at work (`InterfacesAssumption`,
`PoolsAssumption`, `CouriersAssumption`, `IdsAssumption`); there is a client
(`WorkersAssumption`). `RangesAssumption` (a prefix is not empty) is for the runs
only. Those of the computations are about their inputs: a template
has finitely many variables (`NamesAssumption`), in the form that its parser
gives them (`TemplatesAssumption`); a type has one to three names, none of them
`providers` (`TokensAssumption`); months have days (`RecurrencesAssumption`).

Some theorems state what no run lists any more because a stronger property
has its place: `TypeOK` of each module, `ReceiptsDisjoint`, `HiddenBounded`,
`DequeueCountBound`, `NoGaps`, `EachOnce`.

**Only model-checked.** Liveness (`Responds`, `StoppedLoopEnds`, `KeepsFiring`,
`TemplatesAnswered`, `HandlersEnd`), out of the prover's reach with its
fairness. Every safety property that a passing run checks is also a theorem.

## 5. Where code and comments disagree

Two are runs:

- `eventhub_overwrite`: `sendEvent` says no counter is needed as Bolt serialises
  writes (dataplane.go:110-112); the offset is read in one transaction and
  written in another.
- `logicapps_passthrough`: a definition that is not a Recurrence is accepted and
  "no dispara nada" (logicapps.go:93-94); `startFiring` returns before it closes
  the channel of the old definition, which fires on.

Others are stated as properties that a run checks under a premise, or that no
run lists. Naming one in a configuration of its module as indicated yields its
counterexample. `queue_overlap` stands for the constants of `queue_concurrent`
with `MaxBatch = 1`:

| property | configuration | what happens |
|---|---|---|
| `DeletesLatest` | `queue_overlap` | `handleMessage` says the receipt must match so that no consumer deletes a message delivered again to another (queue.go:468-471); it checks in one transaction and deletes in the next |
| `NoOrphans`, `NoResurrection`, `ExclusiveReservation` | `queue_overlap` | a post into a queue being deleted; a listed message written back after its deletion; two reads that list one message |
| `FiresOnlyEnabled` | `logicapps_concurrent` | enable and disable overlap: record and goroutine in opposite orders |
| `ResumesOnlyEnabled` | `logicapps_passthrough` | a dispatch writes back the enabled record after a disable, a restart resumes it |
| `OnlyRecurringStored` | `logicapps_passthrough` | README.md:167-169 promises a 400 for a definition without a Recurrence; it is stored |
| `IndexConfirms` | `eventhub_serial`, two groups | deleting a hub hides its namesake in another group |
| `AnswersOwnOperations` | `deployments_serial` | a retry after a crash keeps operations of the run cut short, as clearing is for deployments that were recorded |
| `ExportsOwnTemplate` | `deployments_serial` | a deployment without a template exports an earlier one's |
| `IndexMissesNothing` | `servicebus` | the index is "maintained in parallel" with the records, marked when one is created, unmarked when it is deleted (dataplane_index.go:9-13); but it knows no group (33-43), and `deleteQueue` (queues.go:182), `deleteTopic` and `deleteSubscription` unmark the entry of their namesake in another group, which stays stored and is no longer served |
| `AddressIsFree` | `services` | `countNICsOnSubnet` counts to give "la siguiente IP libre" (nic.go:265-267); it compares as text (276) an id that line 117 parses, and counts configurations, not addresses: another spelling of the subnet, an address asked for as Static, an interface deleted or put again lead to an address in use |
| `PollsOwnOutcome` | `deployments_concurrent`, `MaxFaults = 1` | after a restart an id is unknown, or another's |

And the premises of the newer properties, each of which says where the code does
something else:

- **Variables of a template** are resolved in the order of a Go map, where a
  comment has them in the order declared: one that refers to another may or may
  not be resolved. `ResolutionIsRight` says what holds in every order.
- **`buildProviders`** loses a type whose namespace was moved by `append` since
  its first type: `TypesListed` says which are listed.
- **The path middleware** rewrites a *name* that equals a token in another
  spelling, though its comment excludes names, and its table lacks the tokens
  of services added later. `ParseResourceID` takes a third type called
  `subscriptions` for a scope. `IdsRoundTrip` excludes the first and states the
  second.
- **`cronlike`** divides by a step that may have wrapped to zero: the goroutine
  of the workflow panics (`loop = "panicked"`); a month's day that was carried
  over stays so. `NextIsTheFollowing` is about durations that fit.
- **Lists inside a document** (subnets, rules, routes, record sets) are written back whole: overlapping requests lose entries.
  `OneEntryPerName` holds all the same; `ChildrenSurvive` is about requests that
  do not overlap.
- **A record and its index entry** (Event Hubs, Service Bus, Event Grid, Cosmos
  DB) are two writes: cut short between them they stay apart, and a repeated
  DELETE answers 204 without a look at the index. `IndexConfirms`, `IndexAgrees`
  and `IndexLeadsToStored` are about requests that nothing cuts short. The
  index, moreover, knows a name without its group: in Event Grid, Cosmos DB
  and Service Bus the property is about entries that groups share, in Event
  Hubs about one group (with two it fails as `IndexMissesNothing` does).
- **Service Bus** fans a topic out to the subscriptions of every topic whose id
  contains its name, whatever their namespace; and a queue named like a topic
  shares the prefix of its subscriptions' messages, so that a receive on the
  queue stores a second copy. A receive that overlaps a completion brings the
  message back.
- **An event subscription** deleted during its delivery's HTTP call comes back
  with the outcome of the delivery. **An event hub** created again serves the events
  of the one deleted. **`deleteSite`** leaves the site's settings when cut
  short. **A cluster's pools** are stored before the cluster, and stay if it
  never is.

## 6. Not modelled

- `devtls` (a certificate and its file), the web console, scripts, Terraform:
  no state of the emulator, or clients of it. Metadata, tokens, health:
  constants and formatting.
- Event Hubs' consumer groups: the data plane ignores them.
- Handlers that only read, and listings with their filters: no step; what they
  return is what a property says of the stored documents.
- Validation that answers 400 before any effect, JSON, the wording of errors,
  logging, CORS. Guards that decide what is *written* are there.
- The dispatch of data-plane requests by host or path suffix: stateless.
- Database errors in the services over `ArmStore`: an error ends a handler where
  it is, with what it wrote, which is what a crash does in the models; where the code ignores
  an error (AKS pools) the handler goes on as if it had written.
- Overlap between two *reads* of one handler in those services (see section 2).
- String functions of the template language, which are Go's.

What could still be added: a queue's abstract specification for each Service Bus
subscription, and `Services` with overlapping requests in more scenarios.
