---------------------------- MODULE QueueStorage ----------------------------
(***************************************************************************)
(* The data plane of Azure Queue Storage as internal/services/queue serves *)
(* it.  net/http runs every request in a goroutine of its own and the      *)
(* service takes no lock: a request is a sequence of storage.DB calls,     *)
(* each an atomic Bolt transaction, and requests interleave between them.  *)
(* Each action below is one such call together with the code up to the     *)
(* next one; handler[p] holds the local variables a goroutine carries from *)
(* one call to the next.                                                   *)
(***************************************************************************)
EXTENDS Integers, FiniteSets

CONSTANTS
    Queues,       \* the queues, each an {account}/{queue} pair
    Ids,          \* message ids; their order is the key order of Bolt
    Handlers,     \* requests that can be in progress at once
    Timeouts,     \* visibility timeouts a reader may ask for
    BatchCap,     \* most messages one read returns (32 in the code)
    MaxBatch,     \* largest numofmessages a client asks for
    MaxTime,      \* bound on the clock
    MaxReceipts,  \* bound on the receipts generated
    NoMessage     \* what a key without a message holds

Keys == Queues \X Ids

Receipts == 1..MaxReceipts

\* A storedMessage, without its text and its informational timestamps.
Message == [receipt : Receipts, dequeueCount : Nat, nextVisible : Nat]

ASSUME IdsAssumption == Ids \subseteq Nat
ASSUME TimeoutsAssumption == Timeouts \subseteq Nat /\ 0 \in Timeouts
ASSUME BoundsAssumption ==
    /\ BatchCap \in Nat \ {0} /\ MaxBatch \in Nat \ {0}
    /\ MaxTime \in Nat /\ MaxReceipts \in Nat
ASSUME NoMessageAssumption == NoMessage \notin Message

VARIABLES
    queues,       \* bucket queue.queues: the queues that exist
    messages,     \* bucket queue.messages: key -> message or NoMessage
    clock,        \* wall-clock time, in seconds
    issued,       \* history: every receipt stored for a key
    nextReceipt,  \* newID never repeats: the next identifier it returns
    handler       \* what each request in progress carries

vars == <<queues, messages, clock, issued, nextReceipt, handler>>

store == <<queues, messages, clock, issued, nextReceipt>>

-----------------------------------------------------------------------------
(* Types *)

\* The database call a request makes next, with what it has in hand.
Idle == [at |-> "idle"]
Reserving ==
    [at : {"reserve"}, queue : Queues, now : Nat, want : Nat, timeout : Timeouts,
     candidates : [Ids -> Message \union {NoMessage}]]
HandlerState ==
    [at : {"idle"}]
      \union [at : {"create", "drop"}, queue : Queues]
      \union [at : {"put"}, queue : Queues, since : Nat]
      \union [at : {"list"}, queue : Queues, whole : BOOLEAN]
      \union [at : {"clear"}, queue : Queues, whole : BOOLEAN, keys : SUBSET Ids]
      \union [at : {"get"}, queue : Queues, since : Nat, want : Nat, timeout : Timeouts]
      \union Reserving
      \union [at : {"check", "remove"}, queue : Queues, id : Ids, receipt : Receipts]

\* Every variable has the type the code gives it.
TypeOK ==
    /\ queues \subseteq Queues
    /\ messages \in [Keys -> Message \union {NoMessage}]
    /\ clock \in Nat
    /\ issued \in [Keys -> SUBSET Receipts]
    /\ nextReceipt \in 1..(MaxReceipts + 1)
    /\ handler \in [Handlers -> HandlerState]

-----------------------------------------------------------------------------
(* Helpers *)

Held(k) == messages[k] # NoMessage

\* The first id of a set in the order db.List walks the bucket.
IsFirst(i, ids) == i \in ids /\ \A j \in ids : i <= j

\* Fault: an identifier is taken as free once its message is gone.
FreshIdReused(i) == \A q \in Queues : ~Held(<<q, i>>)

\* newID: 16 random bytes no earlier call returned.
FreshId(i) == \A q \in Queues : issued[<<q, i>>] = {}

Goto(p, state) == handler' = [handler EXCEPT ![p] = state]

\* A new or reserved message is written under its key with a fresh receipt.
PutMessage(k, dequeueCount, nextVisible) ==
    /\ nextReceipt <= MaxReceipts
    /\ messages' = [messages EXCEPT
         ![k] = [receipt |-> nextReceipt, dequeueCount |-> dequeueCount,
                 nextVisible |-> nextVisible]]
    /\ issued' = [issued EXCEPT ![k] = @ \union {nextReceipt}]
    /\ nextReceipt' = nextReceipt + 1
    /\ UNCHANGED <<queues, clock>>

-----------------------------------------------------------------------------
(* Requests arrive.  The first call of each is the Get of the queue record;
   a request refused there (404, or 409 for a create) changes nothing. *)

Init ==
    /\ queues = {}
    /\ messages = [k \in Keys |-> NoMessage]
    /\ clock = 0
    /\ issued = [k \in Keys |-> {}]
    /\ nextReceipt = 1
    /\ handler = [p \in Handlers |-> Idle]

\* PUT /{queue}: 409 when the queue is already there.
CreateQueue(p, q) ==
    /\ handler[p].at = "idle"
    /\ q \notin queues
    /\ Goto(p, [at |-> "create", queue |-> q])
    /\ UNCHANGED store

\* DELETE /{queue} (whole) and DELETE /{queue}/messages: both list the keys.
ClearQueue(p, q, whole) ==
    /\ handler[p].at = "idle"
    /\ q \in queues
    /\ Goto(p, [at |-> "list", queue |-> q, whole |-> whole])
    /\ UNCHANGED store

\* POST /{queue}/messages
PostMessage(p, q) ==
    /\ handler[p].at = "idle"
    /\ q \in queues
    /\ Goto(p, [at |-> "put", queue |-> q, since |-> clock])
    /\ UNCHANGED store

\* GET /{queue}/messages?numofmessages=n&visibilitytimeout=timeout
GetMessages(p, q, n, timeout) ==
    /\ handler[p].at = "idle"
    /\ q \in queues
    /\ Goto(p, [at |-> "get", queue |-> q, since |-> clock, timeout |-> timeout,
                want |-> IF n > BatchCap THEN BatchCap ELSE n])
    /\ UNCHANGED store

\* DELETE /{queue}/messages/{i}?popreceipt=r
DeleteMessage(p, q, i, r) ==
    /\ handler[p].at = "idle"
    /\ q \in queues
    /\ Goto(p, [at |-> "check", queue |-> q, id |-> i, receipt |-> r])
    /\ UNCHANGED store

-----------------------------------------------------------------------------
(* The database calls that follow *)

PutQueue(p) ==
    /\ handler[p].at = "create"
    /\ queues' = queues \union {handler[p].queue}
    /\ Goto(p, Idle)
    /\ UNCHANGED <<messages, clock, issued, nextReceipt>>

\* Fault: posting counts as a delivery.
StoreMessageDelivered(p) ==
    /\ handler[p].at = "put"
    /\ \E i \in Ids : FreshId(i) /\ PutMessage(<<handler[p].queue, i>>, 1, clock)
    /\ Goto(p, Idle)

\* The message is stamped with a time read since the queue was looked up.
StoreMessage(p) ==
    /\ handler[p].at = "put"
    /\ \E i \in Ids, now \in handler[p].since..clock :
         /\ FreshId(i)
         /\ PutMessage(<<handler[p].queue, i>>, 0, now)
    /\ Goto(p, Idle)

\* What a clear does once no key is left: deleteQueue goes on to the record.
AfterClear(p) ==
    Goto(p, IF handler[p].whole THEN [at |-> "drop", queue |-> handler[p].queue] ELSE Idle)

Clearing(p, ids) ==
    IF ids = {}
    THEN AfterClear(p)
    ELSE Goto(p, [at |-> "clear", queue |-> handler[p].queue,
                  whole |-> handler[p].whole, keys |-> ids])

\* Fault: deleteQueue drops the record and leaves the messages.
ListKeysNoCascade(p) ==
    /\ handler[p].at = "list"
    /\ IF handler[p].whole THEN AfterClear(p)
       ELSE Clearing(p, {i \in Ids : Held(<<handler[p].queue, i>>)})
    /\ UNCHANGED store

ListKeys(p) ==
    /\ handler[p].at = "list"
    /\ Clearing(p, {i \in Ids : Held(<<handler[p].queue, i>>)})
    /\ UNCHANGED store

\* Fault: the key deleted stays in the list of keys to delete.
DeleteKeyAgain(p) ==
    /\ handler[p].at = "clear"
    /\ \E i \in Ids :
         /\ IsFirst(i, handler[p].keys)
         /\ messages' = [messages EXCEPT ![<<handler[p].queue, i>>] = NoMessage]
         /\ Clearing(p, handler[p].keys)
    /\ UNCHANGED <<queues, clock, issued, nextReceipt>>

DeleteKey(p) ==
    /\ handler[p].at = "clear"
    /\ \E i \in Ids :
         /\ IsFirst(i, handler[p].keys)
         /\ messages' = [messages EXCEPT ![<<handler[p].queue, i>>] = NoMessage]
         /\ Clearing(p, handler[p].keys \ {i})
    /\ UNCHANGED <<queues, clock, issued, nextReceipt>>

DropQueue(p) ==
    /\ handler[p].at = "drop"
    /\ queues' = queues \ {handler[p].queue}
    /\ Goto(p, Idle)
    /\ UNCHANGED <<messages, clock, issued, nextReceipt>>

\* Fault: the time of next visibility is not compared.
VisibleAtAnyTime(q, now) ==
    [i \in Ids |-> messages[<<q, i>>]]

\* The messages of a queue that are visible at a time, as read by db.List.
VisibleAt(q, now) ==
    [i \in Ids |-> IF Held(<<q, i>>) /\ messages[<<q, i>>].nextVisible <= now
                   THEN messages[<<q, i>>] ELSE NoMessage]

Todo(candidates) == {i \in Ids : candidates[i] # NoMessage}

\* List the visible messages; a peek, or nothing visible, ends the request.
ListVisible(p) ==
    /\ handler[p].at = "get"
    /\ \/ \E now \in handler[p].since..clock :
            LET seen == VisibleAt(handler[p].queue, now) IN
            /\ Todo(seen) # {}
            /\ Goto(p, [at |-> "reserve", queue |-> handler[p].queue, now |-> now,
                        want |-> handler[p].want, timeout |-> handler[p].timeout,
                        candidates |-> seen])
       \/ Goto(p, Idle)
    /\ UNCHANGED store

\* Write back the first candidate as it was listed, with a new receipt.
Reserve(p) ==
    /\ handler[p].at = "reserve"
    /\ \E i \in Ids :
         LET h == handler[p]
             left == [h EXCEPT !.want = @ - 1, !.candidates[i] = NoMessage] IN
         /\ IsFirst(i, Todo(h.candidates))
         /\ PutMessage(<<h.queue, i>>, h.candidates[i].dequeueCount + 1, h.now + h.timeout)
         /\ Goto(p, IF left.want > 0 /\ Todo(left.candidates) # {} THEN left ELSE Idle)

\* Fault: the receipt is not compared.
CheckReceiptPresent(p) ==
    /\ handler[p].at = "check"
    /\ Goto(p, IF Held(<<handler[p].queue, handler[p].id>>)
               THEN [handler[p] EXCEPT !.at = "remove"] ELSE Idle)
    /\ UNCHANGED store

\* Get the message and compare its receipt; 404 and 400 end the request.
CheckReceipt(p) ==
    LET k == <<handler[p].queue, handler[p].id>> IN
    /\ handler[p].at = "check"
    /\ IF Held(k) /\ messages[k].receipt = handler[p].receipt
       THEN Goto(p, [handler[p] EXCEPT !.at = "remove"])
       ELSE Goto(p, Idle)
    /\ UNCHANGED store

RemoveMessage(p) ==
    /\ handler[p].at = "remove"
    /\ messages' = [messages EXCEPT ![<<handler[p].queue, handler[p].id>>] = NoMessage]
    /\ Goto(p, Idle)
    /\ UNCHANGED <<queues, clock, issued, nextReceipt>>

\* A failed call answers 500 and leaves what the earlier calls wrote.
Fail(p) ==
    /\ handler[p].at # "idle"
    /\ Goto(p, Idle)
    /\ UNCHANGED store

\* The process dies and restarts: Bolt keeps what was written.
Crash ==
    /\ handler' = [p \in Handlers |-> Idle]
    /\ UNCHANGED store

Tick ==
    /\ clock < MaxTime
    /\ clock' = clock + 1
    /\ UNCHANGED <<queues, messages, issued, nextReceipt, handler>>

-----------------------------------------------------------------------------
(* Specification *)

Arrive(p) ==
    \E q \in Queues :
      \/ CreateQueue(p, q)
      \/ \E whole \in BOOLEAN : ClearQueue(p, q, whole)
      \/ PostMessage(p, q)
      \/ \E n \in 1..MaxBatch, timeout \in Timeouts : GetMessages(p, q, n, timeout)
      \/ \E i \in Ids, r \in 1..(nextReceipt - 1) : DeleteMessage(p, q, i, r)

Proceed(p) ==
    \/ PutQueue(p)
    \/ StoreMessage(p)
    \/ ListKeys(p)
    \/ DeleteKey(p)
    \/ DropQueue(p)
    \/ ListVisible(p)
    \/ Reserve(p)
    \/ CheckReceipt(p)
    \/ RemoveMessage(p)

Next ==
    \/ \E p \in Handlers : Arrive(p) \/ Proceed(p) \/ Fail(p)
    \/ Crash
    \/ Tick

Spec == Init /\ [][Next]_vars

\* The Go scheduler runs every goroutine that can run: a request in progress
\* makes its next call.
FairSpec == Spec /\ \A p \in Handlers : WF_vars(Proceed(p))

-----------------------------------------------------------------------------
(* Properties that hold however requests interleave *)

Busy(p) == handler[p].at # "idle"

\* A message leaves the store only through a DELETE that carries a receipt
\* once issued for that very message (handleMessage), or through a clear of
\* its queue (clearMessagesInternal): redelivery, failures and crashes never
\* lose one.
LeavesOnlyBy ==
    [][\A k \in Keys : Held(k) /\ messages'[k] = NoMessage =>
         \E p \in Handlers :
           /\ handler[p].at \in {"clear", "remove"} /\ handler[p].queue = k[1]
           /\ handler[p].at = "remove" =>
                handler[p].id = k[2] /\ handler[p].receipt \in issued[k]]_vars

\* No reader hides a message for longer than the timeout it asked for, even
\* when it writes back what it listed long ago (getMessages) or dies.
HiddenBounded ==
    \A k \in Keys : Held(k) =>
      \E timeout \in Timeouts : messages[k].nextVisible <= clock + timeout

\* Concurrent readers may lose an increment of dequeueCount, yet it never
\* exceeds the deliveries made: one receipt was issued by putMessage, every
\* other by a delivery (getMessages).
DequeueCountBound ==
    \A k \in Keys : Held(k) => messages[k].dequeueCount < Cardinality(issued[k])

\* No two messages carry one receipt, so the receipt of one never deletes
\* another, and a stored receipt was issued for the message that carries it.
ReceiptsDisjoint ==
    /\ \A k1, k2 \in Keys : k1 # k2 => issued[k1] \intersect issued[k2] = {}
    /\ \A k \in Keys : Held(k) => messages[k].receipt \in issued[k]

\* Every request ends: a clear deletes the keys it listed and a read reserves
\* the candidates it listed, however fast others post and read.  (A writer
\* that finds the bounds of the model exhausted has nothing to write.)
Exhausted == nextReceipt > MaxReceipts \/ \A i \in Ids : ~FreshId(i)
Responds == \A p \in Handlers : Busy(p) ~> (~Busy(p) \/ Exhausted)

-----------------------------------------------------------------------------
(* What the comments of queue.go promise.  These hold when requests do not
   overlap (at most one handler); each names the promise. *)

\* "PUT /{queue} ... DELETE /{account}.queue/{queue} -> borrar cola (+ sus
\* mensajes)": no message is ever in a queue that does not exist, because
\* deleteQueue clears the messages before it deletes the record.
NoOrphans == \A k \in Keys : Held(k) => k[1] \in queues

\* "DELETE .../messages/{messageId} -> borrar un mensaje puntual": a message
\* that was deleted does not come back.
NoResurrection ==
    [][\A k \in Keys : ~Held(k) /\ messages'[k] # NoMessage => issued[k] = {}]_vars

\* "Get Messages (desencola: reserva los mensajes devueltos ocultandolos por
\* visibilitytimeout": a message is delivered only while it is visible.
ExclusiveReservation ==
    [][\A k \in Keys : Held(k) /\ issued'[k] # issued[k] => messages[k].nextVisible <= clock]_vars

\* "para evitar que un consumidor borre un mensaje que ya fue re-entregado a
\* otro consumidor": a DELETE removes the message only under the receipt of
\* its latest delivery.
DeletesLatest ==
    [][\A p \in Handlers, k \in Keys :
         handler[p].at = "remove" /\ Held(k) /\ messages'[k] = NoMessage =>
           messages[k].receipt = handler[p].receipt]_vars

\* dequeueCount ("aumenta su dequeueCount") counts the deliveries exactly.
DequeueCountExact ==
    \A k \in Keys : Held(k) => messages[k].dequeueCount = Cardinality(issued[k]) - 1

\* The removals clients are asking for.
settling ==
    {<<<<handler[p].queue, handler[p].id>>, handler[p].receipt>> :
        p \in {c \in Handlers : handler[c].at \in {"check", "remove"}}}
purging == {handler[p].queue : p \in {c \in Handlers : handler[c].at \in {"list", "clear"}}}

\* The service is a store of atomic peek-lock queues.
Atomic == INSTANCE PeekLockQueue
Implements == Atomic!Spec
=============================================================================
