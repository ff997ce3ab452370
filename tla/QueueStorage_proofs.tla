------------------------ MODULE QueueStorage_proofs ------------------------
(***************************************************************************)
(* Theorems about QueueStorage, for any queues, ids, handlers, timeouts    *)
(* and bounds.                                                             *)
(***************************************************************************)
EXTENDS QueueStorage, FiniteSetTheorems, TLAPS

\* What a request carries, by the call it makes next.
LEMMA HandlerTypes ==
  ASSUME TypeOK, NEW p \in Handlers
  PROVE  /\ Busy(p) => handler[p].queue \in Queues
         /\ handler[p].at = "put" => handler[p].since \in Nat
         /\ handler[p].at = "list" => handler[p].whole \in BOOLEAN
         /\ handler[p].at = "clear" => handler[p].whole \in BOOLEAN /\ handler[p].keys \subseteq Ids
         /\ handler[p].at = "get" =>
              handler[p].since \in Nat /\ handler[p].want \in Nat /\ handler[p].timeout \in Timeouts
         /\ handler[p].at = "reserve" =>
              /\ handler[p] \in Reserving
              /\ handler[p].now \in Nat /\ handler[p].want \in Nat /\ handler[p].timeout \in Timeouts
              /\ handler[p].candidates \in [Ids -> Message \union {NoMessage}]
         /\ handler[p].at \in {"check", "remove"} =>
              handler[p].id \in Ids /\ handler[p].receipt \in Receipts
<1>1. handler[p] \in HandlerState
  BY DEF TypeOK
<1>2. QED
  BY <1>1 DEF HandlerState, Reserving, Busy

\* A round of the reservation loop leaves a request that is still reserving.
LEMMA KeepsReserving ==
  ASSUME NEW h \in Reserving, NEW w \in Nat, NEW c \in [Ids -> Message \union {NoMessage}]
  PROVE  [h EXCEPT !.want = w, !.candidates = c] \in Reserving
<1>1. [h EXCEPT !.want = w] \in Reserving
  BY DEF Reserving
<1>2. ASSUME NEW g \in Reserving PROVE [g EXCEPT !.candidates = c] \in Reserving
  BY DEF Reserving
<1>3. QED
  BY <1>1, <1>2

\* The variables have their types whatever requests arrive and interleave.
THEOREM TypeCorrect == Spec => []TypeOK
<1> USE IdsAssumption, TimeoutsAssumption, BoundsAssumption, NoMessageAssumption
<1>1. Init => TypeOK
  BY DEF Init, TypeOK, Idle, HandlerState, Keys, Receipts
<1>2. TypeOK /\ [Next]_vars => TypeOK'
  <2> SUFFICES ASSUME TypeOK, [Next]_vars PROVE TypeOK'
    OBVIOUS
  <2>1. ASSUME NEW p \in Handlers, Arrive(p) PROVE TypeOK'
    <3>1. ASSUME NEW q \in Queues, CreateQueue(p, q) PROVE TypeOK'
      BY <3>1 DEF TypeOK, CreateQueue, Goto, store, HandlerState
    <3>2. ASSUME NEW q \in Queues, NEW whole \in BOOLEAN, ClearQueue(p, q, whole) PROVE TypeOK'
      BY <3>2 DEF TypeOK, ClearQueue, Goto, store, HandlerState
    <3>3. ASSUME NEW q \in Queues, PostMessage(p, q) PROVE TypeOK'
      BY <3>3 DEF TypeOK, PostMessage, Goto, store, HandlerState
    <3>4. ASSUME NEW q \in Queues, NEW n \in 1..MaxBatch, NEW timeout \in Timeouts,
                 GetMessages(p, q, n, timeout)
          PROVE  TypeOK'
      BY <3>4 DEF TypeOK, GetMessages, Goto, store, HandlerState
    <3>5. ASSUME NEW q \in Queues, NEW i \in Ids, NEW r \in 1..(nextReceipt - 1),
                 DeleteMessage(p, q, i, r)
          PROVE  TypeOK'
      BY <3>5 DEF TypeOK, DeleteMessage, Goto, store, HandlerState, Receipts
    <3>6. QED
      BY <2>1, <3>1, <3>2, <3>3, <3>4, <3>5 DEF Arrive
  <2>2. ASSUME NEW p \in Handlers, Proceed(p) PROVE TypeOK'
    <3>1. CASE PutQueue(p)
      BY <3>1 DEF TypeOK, PutQueue, Goto, Idle, HandlerState, Reserving
    <3>2. CASE StoreMessage(p)
      BY <3>2 DEF TypeOK, StoreMessage, PutMessage, Goto, Idle, HandlerState, Reserving, Keys, Receipts, Message
    <3>3. CASE ListKeys(p)
      <4>1. handler[p].queue \in Queues /\ handler[p].whole \in BOOLEAN
        BY <3>3, HandlerTypes DEF ListKeys, Busy
      <4>2. PICK state \in HandlerState : Goto(p, state)
        <5> DEFINE ids == {i \in Ids : Held(<<handler[p].queue, i>>)}
        <5>1. ids \subseteq Ids
          OBVIOUS
        <5>2. Clearing(p, ids)
          BY <3>3 DEF ListKeys
        <5> HIDE DEF ids
        <5>3. QED
          BY <4>1, <5>1, <5>2 DEF Clearing, AfterClear, Idle, HandlerState
      <4>3. QED
        BY <3>3, <4>2 DEF TypeOK, ListKeys, Goto, store
    <3>4. CASE DeleteKey(p)
      BY <3>4 DEF TypeOK, DeleteKey, Clearing, AfterClear, Goto, Idle, HandlerState, Reserving, Keys
    <3>5. CASE DropQueue(p)
      BY <3>5 DEF TypeOK, DropQueue, Goto, Idle, HandlerState
    <3>6. CASE ListVisible(p)
      <4>1. handler[p].queue \in Queues /\ handler[p].since \in Nat
            /\ handler[p].want \in Nat /\ handler[p].timeout \in Timeouts
        BY <3>6, HandlerTypes DEF ListVisible, Busy
      <4>2. \A now \in Nat : VisibleAt(handler[p].queue, now) \in [Ids -> Message \union {NoMessage}]
        BY <4>1 DEF TypeOK, VisibleAt, Held, Keys
      <4>3. PICK state \in HandlerState : Goto(p, state)
        <5>1. CASE Goto(p, Idle)
          BY <5>1 DEF Idle, HandlerState
        <5>2. ASSUME NEW now \in handler[p].since..clock,
                     Goto(p, [at |-> "reserve", queue |-> handler[p].queue, now |-> now,
                              want |-> handler[p].want, timeout |-> handler[p].timeout,
                              candidates |-> VisibleAt(handler[p].queue, now)])
              PROVE  \E state \in HandlerState : Goto(p, state)
          <6>1. now \in Nat
            BY <4>1 DEF TypeOK
          <6>2. QED
            BY <4>1, <4>2, <5>2, <6>1 DEF HandlerState, Reserving
        <5>3. QED
          BY <3>6, <5>1, <5>2 DEF ListVisible
      <4>4. QED
        BY <3>6, <4>3 DEF TypeOK, ListVisible, Goto, store
    <3>7. CASE Reserve(p)
      <4>1. /\ handler[p].queue \in Queues /\ handler[p].now \in Nat
            /\ handler[p].want \in Nat /\ handler[p].timeout \in Timeouts
            /\ handler[p].candidates \in [Ids -> Message \union {NoMessage}]
        BY <3>7, HandlerTypes DEF Reserve, Busy
      <4>. DEFINE h == handler[p]
                  left(i) == [h EXCEPT !.want = @ - 1, !.candidates[i] = NoMessage]
      <4>2. PICK i \in Ids :
              /\ i \in Todo(h.candidates)
              /\ PutMessage(<<h.queue, i>>, h.candidates[i].dequeueCount + 1, h.now + h.timeout)
              /\ Goto(p, IF left(i).want > 0 /\ Todo(left(i).candidates) # {} THEN left(i) ELSE Idle)
        BY <3>7 DEF Reserve, IsFirst
      <4>3. left(i).want > 0 => left(i) \in HandlerState
        <5>1. h \in Reserving
          BY <3>7, HandlerTypes DEF Reserve
        <5>2. left(i).want = h.want - 1 /\ h.want \in Nat
          BY <5>1 DEF Reserving
        <5>3. [h.candidates EXCEPT ![i] = NoMessage] \in [Ids -> Message \union {NoMessage}]
          BY <5>1 DEF Reserving
        <5>4. left(i) = [h EXCEPT !.want = h.want - 1,
                                  !.candidates = [h.candidates EXCEPT ![i] = NoMessage]]
          BY <5>1 DEF Reserving
        <5>5. left(i).want > 0 => left(i) \in Reserving
          <6>1. SUFFICES ASSUME left(i).want > 0 PROVE left(i) \in Reserving
            OBVIOUS
          <6>2. h.want - 1 \in Nat
            BY <5>2, <6>1
          <6> HIDE DEF left, h
          <6>3. [h EXCEPT !.want = h.want - 1,
                          !.candidates = [h.candidates EXCEPT ![i] = NoMessage]] \in Reserving
            BY <5>1, <5>3, <6>2, KeepsReserving
          <6>4. QED
            BY <5>4, <6>3
        <5>6. Reserving \subseteq HandlerState
          BY DEF HandlerState
        <5>7. QED
          BY <5>5, <5>6
      <4>4. PICK state \in HandlerState : Goto(p, state)
        BY <4>2, <4>3 DEF Idle, HandlerState
      <4>5. h.candidates[i] \in Message
        BY <4>1, <4>2 DEF Todo
      <4>6. PICK k \in Keys, d \in Nat, v \in Nat : PutMessage(k, d, v)
        <5>1. <<h.queue, i>> \in Keys
          BY <4>1 DEF Keys
        <5>2. h.candidates[i].dequeueCount \in Nat
          BY <4>5 DEF Message
        <5>3. h.now \in Nat /\ h.timeout \in Nat
          BY <4>1, TimeoutsAssumption
        <5>4. h.candidates[i].dequeueCount + 1 \in Nat /\ h.now + h.timeout \in Nat
          BY <5>2, <5>3
        <5>5. PutMessage(<<h.queue, i>>, h.candidates[i].dequeueCount + 1, h.now + h.timeout)
          BY <4>2
        <5> HIDE DEF h
        <5>6. QED
          BY <5>1, <5>4, <5>5
      <4>7. /\ nextReceipt' \in 1..(MaxReceipts + 1) /\ queues' \subseteq Queues /\ clock' \in Nat
            /\ nextReceipt \in Receipts
        BY <4>6 DEF TypeOK, PutMessage, Receipts
      <4>8. messages' \in [Keys -> Message \union {NoMessage}]
        BY <4>6, <4>7 DEF TypeOK, PutMessage, Message
      <4>9. issued' \in [Keys -> SUBSET Receipts]
        BY <4>6, <4>7 DEF TypeOK, PutMessage
      <4>10. handler' \in [Handlers -> HandlerState]
        BY <4>4 DEF TypeOK, Goto
      <4>11. QED
        BY <4>7, <4>8, <4>9, <4>10 DEF TypeOK
    <3>8. CASE CheckReceipt(p)
      BY <3>8 DEF TypeOK, CheckReceipt, Goto, store, Idle, HandlerState, Reserving
    <3>9. CASE RemoveMessage(p)
      BY <3>9 DEF TypeOK, RemoveMessage, Goto, Idle, HandlerState, Keys
    <3>10. QED
      BY <2>2, <3>1, <3>2, <3>3, <3>4, <3>5, <3>6, <3>7, <3>8, <3>9 DEF Proceed
  <2>3. ASSUME NEW p \in Handlers, Fail(p) PROVE TypeOK'
    BY <2>3 DEF TypeOK, Fail, Goto, store, Idle, HandlerState
  <2>4. CASE Crash
    BY <2>4 DEF TypeOK, Crash, store, Idle, HandlerState
  <2>5. CASE Tick
    BY <2>5 DEF TypeOK, Tick
  <2>6. CASE UNCHANGED vars
    BY <2>6 DEF TypeOK, vars
  <2>7. QED
    BY <2>1, <2>2, <2>3, <2>4, <2>5, <2>6 DEF Next
<1>3. QED
  BY <1>1, <1>2, PTL DEF Spec

-----------------------------------------------------------------------------
(* What kinds of steps do, for the proofs below *)

\* A request that arrives changes only its own state.
LEMMA ArriveEffect ==
  ASSUME NEW p \in Handlers, Arrive(p)
  PROVE  /\ UNCHANGED store
         /\ \E state : Goto(p, state) /\ state.at \in {"create", "list", "put", "get", "check"}
<1>1. PICK q \in Queues :
        \/ CreateQueue(p, q)
        \/ \E whole \in BOOLEAN : ClearQueue(p, q, whole)
        \/ PostMessage(p, q)
        \/ \E n \in 1..MaxBatch, timeout \in Timeouts : GetMessages(p, q, n, timeout)
        \/ \E i \in Ids, r \in 1..(nextReceipt - 1) : DeleteMessage(p, q, i, r)
  BY DEF Arrive
<1>2. CASE CreateQueue(p, q)
  BY <1>2 DEF CreateQueue
<1>3. ASSUME NEW whole \in BOOLEAN, ClearQueue(p, q, whole)
      PROVE  /\ UNCHANGED store
             /\ \E state : Goto(p, state) /\ state.at = "list"
  BY <1>3 DEF ClearQueue
<1>4. CASE PostMessage(p, q)
  BY <1>4 DEF PostMessage
<1>5. ASSUME NEW n \in 1..MaxBatch, NEW timeout \in Timeouts, GetMessages(p, q, n, timeout)
      PROVE  /\ UNCHANGED store
             /\ \E state : Goto(p, state) /\ state.at = "get"
  BY <1>5 DEF GetMessages
<1>6. ASSUME NEW i \in Ids, NEW r \in 1..(nextReceipt - 1), DeleteMessage(p, q, i, r)
      PROVE  /\ UNCHANGED store
             /\ \E state : Goto(p, state) /\ state.at = "check"
  BY <1>6 DEF DeleteMessage
<1>7. QED
  BY <1>1, <1>2, <1>3, <1>4, <1>5, <1>6

\* StoreMessage and Reserve write a message.
LEMMA WriteEffect ==
  ASSUME TypeOK, NEW p \in Handlers, StoreMessage(p) \/ Reserve(p)
  PROVE  \E k \in Keys, d \in Nat, v \in Nat : \E state :
           PutMessage(k, d, v) /\ Goto(p, state) /\ state.at \in {"idle", "reserve"}
<1>0. handler[p].queue \in Queues
  BY HandlerTypes DEF Busy, StoreMessage, Reserve
<1>1. CASE StoreMessage(p)
  <2>1. PICK i \in Ids, now \in handler[p].since..clock :
          PutMessage(<<handler[p].queue, i>>, 0, now)
    BY <1>1 DEF StoreMessage
  <2>2. Goto(p, Idle) /\ now \in Nat /\ <<handler[p].queue, i>> \in Keys
    BY <1>0, <1>1, HandlerTypes DEF StoreMessage, TypeOK, Keys
  <2>3. QED
    BY <2>1, <2>2 DEF Idle
<1>2. CASE Reserve(p)
  <2> DEFINE h == handler[p]
             left(i) == [h EXCEPT !.want = @ - 1, !.candidates[i] = NoMessage]
  <2>1. PICK i \in Ids :
          /\ i \in Todo(h.candidates)
          /\ PutMessage(<<h.queue, i>>, h.candidates[i].dequeueCount + 1, h.now + h.timeout)
          /\ Goto(p, IF left(i).want > 0 /\ Todo(left(i).candidates) # {} THEN left(i) ELSE Idle)
    BY <1>2 DEF Reserve, IsFirst
  <2>2. <<h.queue, i>> \in Keys
    BY <1>0 DEF Keys
  <2>3. h.candidates[i] \in Message /\ h.now \in Nat /\ h.timeout \in Nat
    BY <1>2, <2>1, HandlerTypes, TimeoutsAssumption DEF Reserve, Todo
  <2>4. h.candidates[i].dequeueCount + 1 \in Nat /\ h.now + h.timeout \in Nat
    BY <2>3 DEF Message
  <2>5. left(i).at = "reserve"
    BY <1>2, HandlerTypes DEF Reserve, Reserving
  <2> HIDE DEF left, h
  <2>6. QED
    BY <2>1, <2>2, <2>4, <2>5 DEF Idle
<1>3. QED
  BY <1>1, <1>2

\* ListKeys goes on to delete what it listed, or ends.
LEMMA ListKeysEffect ==
  ASSUME NEW p \in Handlers, ListKeys(p)
  PROVE  UNCHANGED store /\ \E state : Goto(p, state) /\ state.at \in {"idle", "drop", "clear"}
<1> DEFINE ids == {i \in Ids : Held(<<handler[p].queue, i>>)}
<1>1. Clearing(p, ids) /\ UNCHANGED store
  BY DEF ListKeys
<1> HIDE DEF ids
<1>2. CASE ids # {}
  BY <1>1, <1>2 DEF Clearing
<1>3. CASE ids = {} /\ handler[p].whole
  BY <1>1, <1>3 DEF Clearing, AfterClear
<1>4. CASE ids = {} /\ ~handler[p].whole
  BY <1>1, <1>4 DEF Clearing, AfterClear, Idle
<1>5. QED
  BY <1>2, <1>3, <1>4, <1>1

\* DeleteKey and RemoveMessage remove one message of the queue they are about.
LEMMA RemoveEffect ==
  ASSUME TypeOK, NEW p \in Handlers, DeleteKey(p) \/ RemoveMessage(p)
  PROVE  /\ UNCHANGED <<queues, clock, issued, nextReceipt>>
         /\ \E i \in Ids : messages' = [messages EXCEPT ![<<handler[p].queue, i>>] = NoMessage]
         /\ \E state : Goto(p, state) /\ state.at \in {"idle", "drop", "clear"}
<1>1. CASE DeleteKey(p)
  <2>1. PICK i \in Ids :
          /\ messages' = [messages EXCEPT ![<<handler[p].queue, i>>] = NoMessage]
          /\ Clearing(p, handler[p].keys \ {i})
    BY <1>1 DEF DeleteKey
  <2> DEFINE ids == handler[p].keys \ {i}
  <2>2. \E state : Goto(p, state) /\ state.at \in {"idle", "drop", "clear"}
    <3>1. CASE ids # {}
      BY <2>1, <3>1 DEF Clearing
    <3>2. CASE ids = {} /\ handler[p].whole
      BY <2>1, <3>2 DEF Clearing, AfterClear
    <3>3. CASE ids = {} /\ ~handler[p].whole
      BY <2>1, <3>3 DEF Clearing, AfterClear, Idle
    <3>4. QED
      BY <3>1, <3>2, <3>3
  <2>3. QED
    BY <1>1, <2>1, <2>2 DEF DeleteKey
<1>2. CASE RemoveMessage(p)
  <2>1. handler[p].id \in Ids
    BY <1>2, HandlerTypes DEF RemoveMessage
  <2>2. Goto(p, Idle) /\ Idle.at = "idle"
    BY <1>2 DEF RemoveMessage, Idle
  <2>3. QED
    BY <1>2, <2>1, <2>2 DEF RemoveMessage
<1>3. QED
  BY <1>1, <1>2

-----------------------------------------------------------------------------
(* Receipts *)

\* A receipt is issued once, for one message, and a request past its receipt
\* check carries one issued for the message it names.
ReceiptInv ==
    /\ \A k \in Keys : issued[k] \subseteq 1..(nextReceipt - 1)
    /\ ReceiptsDisjoint
    /\ \A p \in Handlers : handler[p].at = "remove" =>
         handler[p].receipt \in issued[<<handler[p].queue, handler[p].id>>]

\* Writing a message under a fresh receipt keeps receipts apart.
LEMMA PutMessageReceipts ==
  ASSUME TypeOK, ReceiptInv, NEW k \in Keys, NEW d, NEW v, PutMessage(k, d, v)
  PROVE  /\ \A j \in Keys : issued'[j] \subseteq 1..(nextReceipt' - 1)
         /\ ReceiptsDisjoint'
         /\ \A j \in Keys : issued[j] \subseteq issued'[j]
<1>1. /\ issued' = [issued EXCEPT ![k] = issued[k] \union {nextReceipt}]
      /\ nextReceipt' = nextReceipt + 1
      /\ messages' = [messages EXCEPT ![k] = [receipt |-> nextReceipt, dequeueCount |-> d,
                                              nextVisible |-> v]]
  BY DEF PutMessage
<1>2. /\ issued'[k] = issued[k] \union {nextReceipt}
      /\ \A j \in Keys : j # k => issued'[j] = issued[j]
  BY <1>1 DEF TypeOK
<1>3. nextReceipt \in Nat \ {0} /\ nextReceipt' = nextReceipt + 1
  BY <1>1, BoundsAssumption DEF TypeOK
<1>4. \A j \in Keys : nextReceipt \notin issued[j]
  BY <1>3 DEF ReceiptInv
<1>5. \A j \in Keys : issued'[j] \subseteq 1..(nextReceipt' - 1)
  BY <1>2, <1>3 DEF ReceiptInv
<1>6. \A k1, k2 \in Keys : k1 # k2 => issued'[k1] \intersect issued'[k2] = {}
  BY <1>2, <1>4 DEF ReceiptInv, ReceiptsDisjoint
<1>7. ASSUME NEW j \in Keys, messages'[j] # NoMessage
      PROVE  messages'[j].receipt \in issued'[j]
  <2>1. CASE j = k
    BY <1>1, <1>2, <2>1 DEF TypeOK
  <2>2. CASE j # k
    BY <1>1, <1>2, <1>7, <2>2 DEF TypeOK, ReceiptInv, ReceiptsDisjoint, Held
  <2>3. QED
    BY <2>1, <2>2
<1>8. QED
  BY <1>2, <1>5, <1>6, <1>7 DEF ReceiptsDisjoint, Held

\* A step that issues nothing, and at most removes messages, keeps receipts
\* apart.
LEMMA RemovalReceipts ==
  ASSUME TypeOK, ReceiptInv, UNCHANGED <<issued, nextReceipt>>,
         \A k \in Keys : messages'[k] \in {messages[k], NoMessage}
  PROVE  /\ \A k \in Keys : issued'[k] \subseteq 1..(nextReceipt' - 1)
         /\ ReceiptsDisjoint'
BY DEF ReceiptInv, ReceiptsDisjoint, Held

LEMMA ReceiptStep == TypeOK /\ TypeOK' /\ ReceiptInv /\ [Next]_vars => ReceiptInv'
<1> SUFFICES ASSUME TypeOK, TypeOK', ReceiptInv, [Next]_vars PROVE ReceiptInv'
  OBVIOUS
<1> DEFINE Carries(p) ==
             handler[p].at = "remove" =>
               handler[p].receipt \in issued[<<handler[p].queue, handler[p].id>>]
<1>1. \A p \in Handlers : Carries(p)
  BY DEF ReceiptInv
<1>2. ASSUME UNCHANGED <<issued, nextReceipt>>,
             \A k \in Keys : messages'[k] \in {messages[k], NoMessage},
             \A p \in Handlers : handler'[p] = handler[p] \/ handler'[p].at # "remove"
      PROVE  ReceiptInv'
  BY <1>1, <1>2, RemovalReceipts DEF ReceiptInv
<1>3. ASSUME NEW p \in Handlers, NEW state, Goto(p, state), state.at # "remove"
      PROVE  \A r \in Handlers : handler'[r] = handler[r] \/ handler'[r].at # "remove"
  BY <1>3 DEF Goto, TypeOK
<1>4. UNCHANGED messages => \A k \in Keys : messages'[k] \in {messages[k], NoMessage}
  OBVIOUS
<1>5. \A k \in Keys : messages' = [messages EXCEPT ![k] = NoMessage] =>
         \A j \in Keys : messages'[j] \in {messages[j], NoMessage}
  BY DEF TypeOK
<1>6. ASSUME NEW p \in Handlers, Arrive(p) PROVE ReceiptInv'
  BY <1>2, <1>3, <1>4, <1>6, ArriveEffect DEF store
<1>7. ASSUME NEW p \in Handlers, NEW k \in Keys, NEW d, NEW v, NEW state,
             PutMessage(k, d, v), Goto(p, state), state.at # "remove"
      PROVE  ReceiptInv'
  <2>1. \A r \in Handlers : Carries(r)'
    <3> SUFFICES ASSUME NEW r \in Handlers, handler'[r].at = "remove"
                 PROVE  handler'[r].receipt \in issued'[<<handler'[r].queue, handler'[r].id>>]
      OBVIOUS
    <3>1. handler'[r] = handler[r]
      BY <1>3, <1>7
    <3>2. handler[r].queue \in Queues /\ handler[r].id \in Ids
      BY <3>1, HandlerTypes DEF Busy
    <3>3. QED
      BY <1>1, <1>7, <3>1, <3>2, PutMessageReceipts DEF Keys
  <2>2. QED
    BY <1>7, <2>1, PutMessageReceipts DEF ReceiptInv
<1>8. ASSUME NEW p \in Handlers, Proceed(p) PROVE ReceiptInv'
  <2>0. Busy(p) => handler[p].queue \in Queues
    BY HandlerTypes
  <2>1. CASE PutQueue(p)
    BY <1>2, <1>3, <1>4, <2>1 DEF PutQueue, Idle
  <2>2. CASE StoreMessage(p) \/ Reserve(p)
    BY <1>7, <2>2, WriteEffect
  <2>3. CASE ListKeys(p)
    <3>1. PICK state : Goto(p, state) /\ state.at # "remove"
      BY <2>3 DEF ListKeys, Clearing, AfterClear, Idle
    <3>2. QED
      BY <1>2, <1>3, <1>4, <2>3, <3>1 DEF ListKeys, store
  <2>4. CASE DeleteKey(p) \/ RemoveMessage(p)
    <3>1. handler[p].queue \in Queues
      BY <2>0, <2>4 DEF DeleteKey, RemoveMessage, Busy
    <3>2. \A k \in Keys : messages'[k] \in {messages[k], NoMessage}
      BY <1>5, <2>4, <3>1, RemoveEffect DEF Keys
    <3>3. QED
      BY <1>2, <1>3, <2>4, <3>2, RemoveEffect
  <2>5. CASE DropQueue(p)
    BY <1>2, <1>3, <1>4, <2>5 DEF DropQueue, Idle
  <2>6. CASE ListVisible(p)
    <3>1. CASE Goto(p, Idle)
      BY <1>2, <1>3, <1>4, <2>6, <3>1 DEF ListVisible, store, Idle
    <3>2. ASSUME NEW state, Goto(p, state), state.at = "reserve" PROVE ReceiptInv'
      BY <1>2, <1>3, <1>4, <2>6, <3>2 DEF ListVisible, store
    <3>3. QED
      BY <2>6, <3>1, <3>2 DEF ListVisible
  <2>8. CASE CheckReceipt(p)
    <3> DEFINE k == <<handler[p].queue, handler[p].id>>
    <3>1. k \in Keys
      BY <2>0, <2>8, HandlerTypes DEF CheckReceipt, Busy, Keys
    <3>2. CASE Goto(p, Idle)
      BY <1>2, <1>3, <1>4, <2>8, <3>2 DEF CheckReceipt, store, Idle
    <3>3. CASE Held(k) /\ messages[k].receipt = handler[p].receipt
               /\ Goto(p, [handler[p] EXCEPT !.at = "remove"])
      <4>1. handler[p].receipt \in issued[k]
        BY <3>1, <3>3 DEF ReceiptInv, ReceiptsDisjoint
      <4>2. \A r \in Handlers : handler'[r].receipt = handler[r].receipt
              /\ handler'[r].queue = handler[r].queue /\ handler'[r].id = handler[r].id
              /\ (r # p => handler'[r] = handler[r])
        BY <3>3 DEF Goto, TypeOK
      <4>3. \A r \in Handlers : Carries(r)'
        BY <1>1, <2>8, <4>1, <4>2 DEF CheckReceipt, store
      <4>4. QED
        BY <1>4, <2>8, <4>3, RemovalReceipts DEF CheckReceipt, store, ReceiptInv
    <3>4. QED
      BY <2>8, <3>2, <3>3 DEF CheckReceipt
  <2>9. QED
    BY <1>8, <2>1, <2>2, <2>3, <2>4, <2>5, <2>6, <2>8 DEF Proceed
<1>9. ASSUME NEW p \in Handlers, Fail(p) PROVE ReceiptInv'
  BY <1>2, <1>3, <1>4, <1>9 DEF Fail, store, Idle
<1>10. CASE Crash
  BY <1>2, <1>4, <1>10 DEF Crash, store, Idle
<1>11. CASE Tick
  BY <1>2, <1>4, <1>11 DEF Tick
<1>12. CASE UNCHANGED vars
  BY <1>2, <1>4, <1>12 DEF vars
<1>13. QED
  BY <1>6, <1>8, <1>9, <1>10, <1>11, <1>12 DEF Next

LEMMA ReceiptInvariant == Spec => []ReceiptInv
<1>1. Init => ReceiptInv
  BY DEF Init, ReceiptInv, ReceiptsDisjoint, Held, Idle
<1>2. QED
  BY <1>1, ReceiptStep, TypeCorrect, PTL DEF Spec

\* No receipt ever opens two messages (newID, getMessages, handleMessage).
THEOREM ReceiptsStayDisjoint == Spec => []ReceiptsDisjoint
BY ReceiptInvariant, PTL DEF ReceiptInv

\* A step that removes a message is a DeleteKey or a RemoveMessage of its queue.
LEMMA LeavesStep ==
  ASSUME TypeOK, ReceiptInv, Next, NEW k \in Keys, Held(k), messages'[k] = NoMessage
  PROVE  \E p \in Handlers :
           /\ handler[p].at \in {"clear", "remove"} /\ handler[p].queue = k[1]
           /\ handler[p].at = "remove" =>
                handler[p].id = k[2] /\ handler[p].receipt \in issued[k]
<1>1. ~UNCHANGED messages
  BY DEF Held
<1>2. \A j \in Keys, d \in Nat, v \in Nat : ~PutMessage(j, d, v)
  <2> SUFFICES ASSUME NEW j \in Keys, NEW d \in Nat, NEW v \in Nat, PutMessage(j, d, v)
               PROVE  FALSE
    OBVIOUS
  <2>1. nextReceipt \in Receipts
    BY BoundsAssumption DEF PutMessage, TypeOK, Receipts
  <2>2. [receipt |-> nextReceipt, dequeueCount |-> d, nextVisible |-> v] \in Message
    BY <2>1 DEF Message
  <2>3. QED
    BY NoMessageAssumption, <2>2 DEF PutMessage, TypeOK, Held
<1>3. PICK p \in Handlers : DeleteKey(p) \/ RemoveMessage(p)
  BY <1>1, <1>2, ArriveEffect, WriteEffect DEF Next, Proceed, PutQueue, ListKeys, DropQueue,
       ListVisible, CheckReceipt, Fail, Crash, Tick, store
<1>4. CASE DeleteKey(p)
  BY <1>4 DEF DeleteKey, TypeOK, Held, Keys
<1>5. CASE RemoveMessage(p)
  BY <1>5 DEF RemoveMessage, TypeOK, Held, Keys, ReceiptInv
<1>6. QED
  BY <1>3, <1>4, <1>5

\* However requests interleave, fail or crash, a message leaves the store
\* only by a receipt issued for it or by a clear of its queue.
THEOREM NothingIsLost == Spec => LeavesOnlyBy
<1> DEFINE Leaves ==
      \A k \in Keys : Held(k) /\ messages'[k] = NoMessage =>
         \E p \in Handlers :
           /\ handler[p].at \in {"clear", "remove"} /\ handler[p].queue = k[1]
           /\ handler[p].at = "remove" =>
                handler[p].id = k[2] /\ handler[p].receipt \in issued[k]
<1>1. TypeOK /\ ReceiptInv /\ [Next]_vars => [Leaves]_vars
  BY LeavesStep
<1>2. QED
  BY <1>1, TypeCorrect, ReceiptInvariant, PTL DEF Spec, LeavesOnlyBy

-----------------------------------------------------------------------------
(* Visibility *)

\* The times a request carries are past, so that what it writes is bounded by
\* the clock and a timeout.
TimeInv ==
    /\ HiddenBounded
    /\ \A p \in Handlers :
         /\ handler[p].at \in {"put", "get"} => handler[p].since <= clock
         /\ handler[p].at = "reserve" => handler[p].now <= clock

LEMMA TimeStep == TypeOK /\ TypeOK' /\ TimeInv /\ [Next]_vars => TimeInv'
<1> SUFFICES ASSUME TypeOK, TypeOK', TimeInv, [Next]_vars PROVE TimeInv'
  OBVIOUS
<1> USE TimeoutsAssumption
<1> DEFINE InTime(h) == /\ h.at \in {"put", "get"} => h.since <= clock
                        /\ h.at = "reserve" => h.now <= clock
           Bounded(v) == \E timeout \in Timeouts : v <= clock + timeout
<1>1. ASSUME UNCHANGED clock, \A k \in Keys : messages'[k] \in {messages[k], NoMessage},
             \A p \in Handlers : InTime(handler'[p])
      PROVE  TimeInv'
  BY <1>1 DEF TimeInv, HiddenBounded, Held
<1>2. ASSUME NEW p \in Handlers, NEW state, Goto(p, state), InTime(state)
      PROVE  \A r \in Handlers : InTime(handler'[r])
  BY <1>2 DEF Goto, TypeOK, TimeInv
<1>3. UNCHANGED messages => \A k \in Keys : messages'[k] \in {messages[k], NoMessage}
  OBVIOUS
<1>4. clock \in Nat
  BY DEF TypeOK
<1>5. InTime(Idle)
  BY DEF Idle
<1>6. ASSUME NEW p \in Handlers, Arrive(p) PROVE TimeInv'
  <2>1. UNCHANGED store
    BY <1>6, ArriveEffect
  <2>2. PICK q \in Queues :
          \/ CreateQueue(p, q)
          \/ \E whole \in BOOLEAN : ClearQueue(p, q, whole)
          \/ PostMessage(p, q)
          \/ \E n \in 1..MaxBatch, timeout \in Timeouts : GetMessages(p, q, n, timeout)
          \/ \E i \in Ids, r \in 1..(nextReceipt - 1) : DeleteMessage(p, q, i, r)
    BY <1>6 DEF Arrive
  <2>3. CASE CreateQueue(p, q)
    BY <1>1, <1>2, <1>3, <2>1, <2>3 DEF CreateQueue, store
  <2>4. CASE \E whole \in BOOLEAN : ClearQueue(p, q, whole)
    BY <1>1, <1>2, <1>3, <2>1, <2>4 DEF ClearQueue, store
  <2>5. CASE PostMessage(p, q)
    BY <1>1, <1>2, <1>3, <1>4, <2>1, <2>5 DEF PostMessage, store
  <2>6. CASE \E n \in 1..MaxBatch, timeout \in Timeouts : GetMessages(p, q, n, timeout)
    BY <1>1, <1>2, <1>3, <1>4, <2>1, <2>6 DEF GetMessages, store
  <2>7. CASE \E i \in Ids, r \in 1..(nextReceipt - 1) : DeleteMessage(p, q, i, r)
    BY <1>1, <1>2, <1>3, <2>1, <2>7 DEF DeleteMessage, store
  <2>8. QED
    BY <2>2, <2>3, <2>4, <2>5, <2>6, <2>7
<1>7. ASSUME NEW p \in Handlers, NEW k \in Keys, NEW d, NEW v \in Nat, NEW state,
             PutMessage(k, d, v), Bounded(v), Goto(p, state), InTime(state)
      PROVE  TimeInv'
  <2>1. UNCHANGED clock /\ \A r \in Handlers : InTime(handler'[r])
    BY <1>2, <1>7 DEF PutMessage
  <2>2. /\ messages'[k].nextVisible = v
        /\ \A j \in Keys : j # k => messages'[j] = messages[j]
    BY <1>7 DEF PutMessage, TypeOK
  <2>3. QED
    BY <1>7, <2>1, <2>2 DEF TimeInv, HiddenBounded, Held
<1>8. ASSUME NEW p \in Handlers, Proceed(p) PROVE TimeInv'
  <2>0. Busy(p) => handler[p].queue \in Queues
    BY HandlerTypes
  <2>1. CASE PutQueue(p)
    BY <1>1, <1>2, <1>3, <1>5, <2>1 DEF PutQueue
  <2>2. CASE StoreMessage(p)
    <3>1. PICK i \in Ids, now \in handler[p].since..clock :
            PutMessage(<<handler[p].queue, i>>, 0, now)
      BY <2>2 DEF StoreMessage
    <3>2. now \in Nat /\ now <= clock + 0 /\ <<handler[p].queue, i>> \in Keys
      BY <1>4, <2>0, <2>2, HandlerTypes DEF StoreMessage, Busy, Keys
    <3>3. Goto(p, Idle)
      BY <2>2 DEF StoreMessage
    <3>4. QED
      BY <1>5, <1>7, <3>1, <3>2, <3>3
  <2>3. CASE ListKeys(p)
    <3>1. PICK state : Goto(p, state) /\ state.at \in {"idle", "drop", "clear"}
      BY <2>3, ListKeysEffect
    <3>2. QED
      BY <1>1, <1>2, <1>3, <2>3, <3>1 DEF ListKeys, store
  <2>4. CASE DeleteKey(p) \/ RemoveMessage(p)
    <3>1. handler[p].queue \in Queues
      BY <2>0, <2>4 DEF DeleteKey, RemoveMessage, Busy
    <3>2. \A k \in Keys : messages'[k] \in {messages[k], NoMessage}
      BY <2>4, <3>1, RemoveEffect DEF Keys, TypeOK
    <3>3. QED
      BY <1>1, <1>2, <2>4, <3>2, RemoveEffect
  <2>5. CASE DropQueue(p)
    BY <1>1, <1>2, <1>3, <1>5, <2>5 DEF DropQueue
  <2>6. CASE ListVisible(p)
    <3>1. UNCHANGED clock /\ UNCHANGED messages
      BY <2>6 DEF ListVisible, store
    <3>2. CASE Goto(p, Idle)
      BY <1>1, <1>2, <1>3, <1>5, <3>1, <3>2
    <3>3. ASSUME NEW now \in handler[p].since..clock, NEW state,
                 Goto(p, state), state.at = "reserve", state.now = now
          PROVE  TimeInv'
      <4>1. now <= clock
        BY <1>4, <2>6, HandlerTypes DEF ListVisible
      <4>2. QED
        BY <1>1, <1>2, <1>3, <3>1, <3>3, <4>1
    <3>4. QED
      BY <2>6, <3>2, <3>3 DEF ListVisible
  <2>7. CASE Reserve(p)
    <3> DEFINE h == handler[p]
               left(i) == [h EXCEPT !.want = @ - 1, !.candidates[i] = NoMessage]
    <3>1. PICK i \in Ids :
            /\ i \in Todo(h.candidates)
            /\ PutMessage(<<h.queue, i>>, h.candidates[i].dequeueCount + 1, h.now + h.timeout)
            /\ Goto(p, IF left(i).want > 0 /\ Todo(left(i).candidates) # {} THEN left(i) ELSE Idle)
      BY <2>7 DEF Reserve, IsFirst
    <3>2. /\ h \in Reserving /\ h.now \in Nat /\ h.now <= clock /\ h.timeout \in Timeouts
          /\ <<h.queue, i>> \in Keys
      BY <2>0, <2>7, HandlerTypes DEF Reserve, Busy, Keys, TimeInv
    <3>3. h.now + h.timeout \in Nat /\ Bounded(h.now + h.timeout)
      <4> HIDE DEF h
      <4>0. h.timeout \in Nat
        BY <3>2
      <4>1. h.now + h.timeout <= clock + h.timeout
        BY <1>4, <3>2, <4>0
      <4>2. QED
        BY <3>2, <4>0, <4>1
    <3>4. left(i).at = "reserve" /\ left(i).now = h.now
      BY <3>2 DEF Reserving
    <3>5. InTime(left(i))
      BY <3>2, <3>4
    <3> HIDE DEF left, h, InTime, Bounded
    <3>6. QED
      BY <1>5, <1>7, <3>1, <3>2, <3>3, <3>5
  <2>8. CASE CheckReceipt(p)
    <3>1. [handler[p] EXCEPT !.at = "remove"].at = "remove"
      BY <2>8, HandlerTypes DEF CheckReceipt, TypeOK, HandlerState, Reserving
    <3>2. QED
      BY <1>1, <1>2, <1>3, <1>5, <2>8, <3>1 DEF CheckReceipt, store
  <2>9. QED
    BY <1>8, <2>1, <2>2, <2>3, <2>4, <2>5, <2>6, <2>7, <2>8 DEF Proceed
<1>9. ASSUME NEW p \in Handlers, Fail(p) PROVE TimeInv'
  BY <1>1, <1>2, <1>3, <1>5, <1>9 DEF Fail, store
<1>10. CASE Crash
  BY <1>1, <1>3, <1>5, <1>10 DEF Crash, store
<1>11. CASE Tick
  <2>1. clock' = clock + 1 /\ UNCHANGED <<messages, handler>>
    BY <1>11 DEF Tick
  <2>2. HiddenBounded'
    BY <1>4, <2>1 DEF TimeInv, HiddenBounded, Held, TypeOK, Message
  <2>3. QED
    BY <1>4, <2>1, <2>2, HandlerTypes DEF TimeInv
<1>12. CASE UNCHANGED vars
  BY <1>12 DEF vars, TimeInv, HiddenBounded, Held
<1>13. QED
  BY <1>6, <1>8, <1>9, <1>10, <1>11, <1>12 DEF Next

LEMMA TimeInvariant == Spec => []TimeInv
<1>1. Init => TimeInv
  BY DEF Init, TimeInv, HiddenBounded, Held, Idle
<1>2. QED
  BY <1>1, TimeStep, TypeCorrect, PTL DEF Spec

\* No message stays hidden longer than some reader asked for, whatever the
\* reader wrote back and whenever it stopped.
THEOREM HiddenIsBounded == Spec => []HiddenBounded
BY TimeInvariant, PTL DEF TimeInv


-----------------------------------------------------------------------------
\* Writing a message adds one receipt to those of its key.
LEMMA OneMoreReceipt ==
  ASSUME TypeOK, ReceiptInv, NEW k \in Keys, NEW d \in Nat, NEW v \in Nat, PutMessage(k, d, v)
  PROVE  /\ Cardinality(issued[k]) \in Nat
         /\ Cardinality(issued'[k]) = Cardinality(issued[k]) + 1
<1>1. IsFiniteSet(issued[k])
  <2>1. IsFiniteSet(1..MaxReceipts)
    BY BoundsAssumption, FS_Interval
  <2>2. issued[k] \subseteq 1..MaxReceipts
    BY DEF TypeOK, Receipts
  <2>3. QED
    BY <2>1, <2>2, FS_Subset
<1>2. nextReceipt \notin issued[k]
  BY DEF ReceiptInv, TypeOK
<1>3. issued'[k] = issued[k] \union {nextReceipt}
  BY DEF PutMessage, TypeOK
<1>4. QED
  BY <1>1, <1>2, <1>3, FS_AddElement, FS_CardinalityType

\* Every copy of a message, stored or about to be written back, counts fewer
\* deliveries than its key has receipts.
CountInv ==
    /\ DequeueCountBound
    /\ \A p \in Handlers : handler[p].at = "reserve" =>
         \A i \in Todo(handler[p].candidates) :
           handler[p].candidates[i].dequeueCount < Cardinality(issued[<<handler[p].queue, i>>])

LEMMA CountStep ==
  ASSUME TypeOK, TypeOK', ReceiptInv, CountInv, [Next]_vars PROVE CountInv'
<1> DEFINE Counted(h) == h.at = "reserve" => \A i \in Todo(h.candidates) :
             h.candidates[i].dequeueCount < Cardinality(issued[<<h.queue, i>>])
<1>1. \A p \in Handlers : Counted(handler[p])
  BY DEF CountInv
<1>2. ASSUME NEW p \in Handlers, NEW state, Goto(p, state), Counted(state)
      PROVE  \A r \in Handlers : Counted(handler'[r])
  BY <1>1, <1>2 DEF Goto, TypeOK
<1>3. ASSUME UNCHANGED issued, \A k \in Keys : messages'[k] \in {messages[k], NoMessage},
             \A p \in Handlers : Counted(handler'[p])
      PROVE  CountInv'
  BY <1>3 DEF CountInv, DequeueCountBound, Held
<1>4. ASSUME UNCHANGED store, NEW p \in Handlers, NEW state, Goto(p, state), Counted(state)
      PROVE  CountInv'
  BY <1>2, <1>3, <1>4 DEF store
<1>5. ASSUME NEW p \in Handlers, NEW k \in Keys, NEW d \in Nat, NEW v \in Nat, NEW state,
             PutMessage(k, d, v), d <= Cardinality(issued[k]), Goto(p, state), Counted(state)
      PROVE  CountInv'
  <2>1. \A r \in Handlers : Counted(handler'[r])
    BY <1>2, <1>5
  <2>2. Cardinality(issued[k]) \in Nat /\ Cardinality(issued'[k]) = Cardinality(issued[k]) + 1
    BY <1>5, OneMoreReceipt
  <2>3. \A j \in Keys : j # k => issued'[j] = issued[j] /\ messages'[j] = messages[j]
    BY <1>5 DEF PutMessage, TypeOK
  <2>4. messages'[k].dequeueCount = d
    BY <1>5 DEF PutMessage, TypeOK
  <2>5. DequeueCountBound'
    BY <1>5, <2>2, <2>3, <2>4 DEF CountInv, DequeueCountBound, Held
  <2>6. ASSUME NEW r \in Handlers, handler'[r].at = "reserve",
               NEW i \in Todo(handler'[r].candidates)
        PROVE  handler'[r].candidates[i].dequeueCount < Cardinality(issued'[<<handler'[r].queue, i>>])
    <3> DEFINE j == <<handler'[r].queue, i>>
    <3>1. handler'[r] \in Reserving
      BY <2>6 DEF TypeOK, HandlerState, Reserving
    <3>2. j \in Keys /\ handler'[r].candidates[i].dequeueCount \in Nat
      BY <3>1 DEF Reserving, Todo, Keys, Message
    <3>3. handler'[r].candidates[i].dequeueCount < Cardinality(issued[j])
      BY <2>1, <2>6
    <3> HIDE DEF j
    <3>4. handler'[r].candidates[i].dequeueCount < Cardinality(issued'[j])
      BY <2>2, <2>3, <3>2, <3>3
    <3>5. QED
      BY <3>4 DEF j
  <2>7. QED
    BY <2>5, <2>6 DEF CountInv
<1>6. ASSUME NEW p \in Handlers, Proceed(p) PROVE CountInv'
  <2>0. /\ handler[p].at # "idle" => handler[p].queue \in Queues
        /\ handler[p].queue \in Queues => \A i \in Ids : <<handler[p].queue, i>> \in Keys
    BY HandlerTypes DEF Busy, Keys
  <2>1. CASE PutQueue(p) \/ DropQueue(p)
    BY <1>2, <1>3, <2>1 DEF PutQueue, DropQueue, Idle
  <2>2. CASE StoreMessage(p)
    <3>1. PICK i \in Ids, now \in handler[p].since..clock :
            PutMessage(<<handler[p].queue, i>>, 0, now)
      BY <2>2 DEF StoreMessage
    <3>2. now \in Nat /\ <<handler[p].queue, i>> \in Keys
      BY <2>0, <2>2, <3>1, HandlerTypes DEF StoreMessage, TypeOK
    <3>3. Goto(p, Idle) /\ Counted(Idle)
      BY <2>2 DEF StoreMessage, Idle
    <3>4. 0 <= Cardinality(issued[<<handler[p].queue, i>>])
      BY <3>1, <3>2, OneMoreReceipt
    <3>5. QED
      BY <1>5, <3>1, <3>2, <3>3, <3>4
  <2>3. CASE ListKeys(p)
    BY <1>4, <2>3, ListKeysEffect
  <2>4. CASE DeleteKey(p) \/ RemoveMessage(p)
    <3>1. handler[p].queue \in Queues
      BY <2>0, <2>4 DEF DeleteKey, RemoveMessage
    <3>2. \A k \in Keys : messages'[k] \in {messages[k], NoMessage}
      BY <2>4, <3>1, RemoveEffect DEF Keys, TypeOK
    <3>3. QED
      BY <1>2, <1>3, <2>4, <3>2, RemoveEffect
  <2>5. CASE ListVisible(p)
    <3>1. CASE Goto(p, Idle)
      BY <1>4, <2>5, <3>1 DEF ListVisible, Idle
    <3>2. ASSUME NEW now \in handler[p].since..clock, NEW state, Goto(p, state),
                 state.at = "reserve", state.queue = handler[p].queue,
                 state.candidates = VisibleAt(handler[p].queue, now)
          PROVE  CountInv'
      <4>1. handler[p].queue \in Queues
        BY <2>0, <2>5 DEF ListVisible
      <4>2. \A i \in Todo(state.candidates) :
              /\ <<handler[p].queue, i>> \in Keys /\ Held(<<handler[p].queue, i>>)
              /\ state.candidates[i] = messages[<<handler[p].queue, i>>]
        BY <2>0, <3>2, <4>1 DEF Todo, VisibleAt
      <4>3. Counted(state)
        BY <3>2, <4>2 DEF CountInv, DequeueCountBound
      <4>4. QED
        BY <1>4, <2>5, <3>2, <4>3 DEF ListVisible
    <3>3. QED
      BY <2>5, <3>1, <3>2 DEF ListVisible
  <2>6. CASE Reserve(p)
    <3> DEFINE h == handler[p]
               left(i) == [h EXCEPT !.want = @ - 1, !.candidates[i] = NoMessage]
    <3>1. PICK i \in Ids :
            /\ i \in Todo(h.candidates)
            /\ PutMessage(<<h.queue, i>>, h.candidates[i].dequeueCount + 1, h.now + h.timeout)
            /\ Goto(p, IF left(i).want > 0 /\ Todo(left(i).candidates) # {} THEN left(i) ELSE Idle)
      BY <2>6 DEF Reserve, IsFirst
    <3>2. h \in Reserving /\ h.now \in Nat /\ h.timeout \in Nat /\ <<h.queue, i>> \in Keys
      BY <2>0, <2>6, HandlerTypes, TimeoutsAssumption DEF Reserve
    <3>3. h.candidates[i] \in Message /\ h.candidates[i].dequeueCount \in Nat
      BY <3>1, <3>2 DEF Reserving, Todo, Message
    <3>4. h.candidates[i].dequeueCount < Cardinality(issued[<<h.queue, i>>])
      BY <1>1, <2>6, <3>1 DEF Reserve
    <3>5. /\ left(i).queue = h.queue
          /\ left(i).candidates = [h.candidates EXCEPT ![i] = NoMessage]
      BY <3>2 DEF Reserving
    <3>6. \A j \in Todo(left(i).candidates) :
            j \in Todo(h.candidates) /\ left(i).candidates[j] = h.candidates[j]
      BY <3>2, <3>5 DEF Todo, Reserving
    <3>7. Counted(left(i)) /\ Counted(Idle)
      <4>1. Counted(h) /\ h.at = "reserve"
        BY <1>1, <2>6 DEF Reserve
      <4> HIDE DEF left, h
      <4>2. QED
        BY <3>5, <3>6, <4>1 DEF Idle
    <3>8. PICK state : Goto(p, state) /\ Counted(state)
      <4> HIDE DEF left, h, Counted
      <4>1. QED
        BY <3>1, <3>7
    <3> HIDE DEF left, h, Counted
    <3>9. /\ h.candidates[i].dequeueCount + 1 \in Nat /\ h.now + h.timeout \in Nat
      BY <3>2, <3>3
    <3>10. Cardinality(issued[<<h.queue, i>>]) \in Nat
      BY <3>1, <3>2, <3>9, OneMoreReceipt
    <3>11. h.candidates[i].dequeueCount + 1 <= Cardinality(issued[<<h.queue, i>>])
      BY <3>3, <3>4, <3>10
    <3>12. QED
      BY <1>5, <3>1, <3>2, <3>8, <3>9, <3>11
  <2>7. CASE CheckReceipt(p)
    <3>1. [handler[p] EXCEPT !.at = "remove"].at = "remove"
      BY <2>7, HandlerTypes DEF CheckReceipt, TypeOK, HandlerState, Reserving
    <3>2. QED
      BY <1>4, <2>7, <3>1 DEF CheckReceipt, Idle
  <2>8. QED
    BY <1>6, <2>1, <2>2, <2>3, <2>4, <2>5, <2>6, <2>7 DEF Proceed
<1>7. ASSUME NEW p \in Handlers, Arrive(p) PROVE CountInv'
  BY <1>4, <1>7, ArriveEffect
<1>8. ASSUME NEW p \in Handlers, Fail(p) PROVE CountInv'
  BY <1>4, <1>8 DEF Fail, Idle
<1>9. CASE Crash
  BY <1>3, <1>9 DEF Crash, Idle, store
<1>10. CASE Tick \/ UNCHANGED vars
  BY <1>1, <1>3, <1>10 DEF Tick, vars
<1>11. QED
  BY <1>6, <1>7, <1>8, <1>9, <1>10 DEF Next

\* Readers that overlap may lose an increment of dequeueCount (getMessages
\* writes back what it listed), but never count a delivery that was not made.
THEOREM CountIsBounded == Spec => []DequeueCountBound
<1>1. Init => CountInv
  BY DEF Init, CountInv, DequeueCountBound, Held, Idle
<1>2. TypeOK /\ TypeOK' /\ ReceiptInv /\ CountInv /\ [Next]_vars => CountInv'
  BY CountStep
<1>3. CountInv => DequeueCountBound
  BY DEF CountInv
<1>4. QED
  BY <1>1, <1>2, <1>3, TypeCorrect, ReceiptInvariant, PTL DEF Spec

(***************************************************************************)
(* Requests that do not overlap: with one handler the service is a store   *)
(* of atomic peek-lock queues, whatever fails or crashes between calls.    *)
(***************************************************************************)

OneHandler == \A p, r \in Handlers : p = r

\* Between its calls a request finds the store as it last saw it.
Steady(p) ==
    LET h == handler[p] IN
    /\ h.at \notin {"idle", "create"} => h.queue \in queues
    /\ h.at = "drop" => \A i \in Ids : ~Held(<<h.queue, i>>)
    /\ h.at = "clear" => \A i \in Ids : Held(<<h.queue, i>>) => i \in h.keys
    /\ h.at = "reserve" => \A i \in Todo(h.candidates) :
         messages[<<h.queue, i>>] = h.candidates[i] /\ h.candidates[i].nextVisible <= h.now
    /\ h.at = "remove" =>
         Held(<<h.queue, h.id>>) /\ messages[<<h.queue, h.id>>].receipt = h.receipt

SerialInv ==
    /\ NoOrphans
    /\ \A p \in Handlers : Steady(p)

LEMMA SerialStep ==
  ASSUME OneHandler, TypeOK, TypeOK', SerialInv, [Next]_vars
  PROVE  SerialInv'
<1> DEFINE St(h) ==
      /\ h.at \notin {"idle", "create"} => h.queue \in queues
      /\ h.at = "drop" => \A i \in Ids : ~Held(<<h.queue, i>>)
      /\ h.at = "clear" => \A i \in Ids : Held(<<h.queue, i>>) => i \in h.keys
      /\ h.at = "reserve" => \A i \in Todo(h.candidates) :
           messages[<<h.queue, i>>] = h.candidates[i] /\ h.candidates[i].nextVisible <= h.now
      /\ h.at = "remove" =>
           Held(<<h.queue, h.id>>) /\ messages[<<h.queue, h.id>>].receipt = h.receipt
<1>1. \A p \in Handlers : St(handler[p])
  BY DEF SerialInv, Steady
<1>2. ASSUME NEW p \in Handlers, NEW state, Goto(p, state), St(state)'
      PROVE  \A r \in Handlers : Steady(r)'
  <2>1. \A r \in Handlers : handler'[r] = state
    BY <1>2 DEF OneHandler, Goto, TypeOK
  <2>2. QED
    BY <1>2, <2>1 DEF Steady
<1>3. St(Idle) /\ St(Idle)'
  BY DEF Idle
<1>4. ASSUME NEW p \in Handlers, NEW state, Goto(p, state), St(state), UNCHANGED store
      PROVE  SerialInv'
  <2>1. St(state)'
    BY <1>4 DEF store, Held, Todo
  <2>2. NoOrphans'
    BY <1>4 DEF store, SerialInv, NoOrphans, Held
  <2>3. QED
    BY <1>2, <1>4, <2>1, <2>2 DEF SerialInv
<1>5. ASSUME NEW p \in Handlers, Arrive(p) PROVE SerialInv'
  <2>1. UNCHANGED store
    BY <1>5, ArriveEffect
  <2>2. PICK q \in Queues :
          \/ CreateQueue(p, q)
          \/ \E whole \in BOOLEAN : ClearQueue(p, q, whole)
          \/ PostMessage(p, q)
          \/ \E n \in 1..MaxBatch, timeout \in Timeouts : GetMessages(p, q, n, timeout)
          \/ \E i \in Ids, r \in 1..(nextReceipt - 1) : DeleteMessage(p, q, i, r)
    BY <1>5 DEF Arrive
  <2>3. CASE CreateQueue(p, q)
    BY <1>4, <2>1, <2>3 DEF CreateQueue
  <2>4. CASE \E whole \in BOOLEAN : ClearQueue(p, q, whole)
    BY <1>4, <2>1, <2>4 DEF ClearQueue
  <2>5. CASE PostMessage(p, q)
    BY <1>4, <2>1, <2>5 DEF PostMessage
  <2>6. CASE \E n \in 1..MaxBatch, timeout \in Timeouts : GetMessages(p, q, n, timeout)
    BY <1>4, <2>1, <2>6 DEF GetMessages
  <2>7. CASE \E i \in Ids, r \in 1..(nextReceipt - 1) : DeleteMessage(p, q, i, r)
    BY <1>4, <2>1, <2>7 DEF DeleteMessage
  <2>8. QED
    BY <2>2, <2>3, <2>4, <2>5, <2>6, <2>7
<1>6. ASSUME NEW p \in Handlers, Proceed(p) PROVE SerialInv'
  <2> PICK h : h = handler[p]
    OBVIOUS
  <2> DEFINE key(i) == <<h.queue, i>>
  <2>0. /\ h.at # "idle" => h.queue \in Queues /\ \A i \in Ids : key(i) \in Keys
        /\ h.at \notin {"idle", "create"} => h.queue \in queues
    BY <1>1, HandlerTypes DEF Busy, Keys
  <2>1. CASE PutQueue(p)
    BY <1>2, <1>3, <2>1 DEF PutQueue, SerialInv, NoOrphans, Held
  <2>2. CASE StoreMessage(p)
    <3>1. PICK i \in Ids, now \in h.since..clock : PutMessage(key(i), 0, now)
      BY <2>2 DEF StoreMessage
    <3>2. \A k \in Keys : k # key(i) => messages'[k] = messages[k]
      BY <3>1 DEF PutMessage, TypeOK
    <3>3. h.queue \in queues /\ UNCHANGED queues /\ Goto(p, Idle)
      BY <2>0, <2>2, <3>1 DEF StoreMessage, PutMessage
    <3>4. NoOrphans'
      BY <3>2, <3>3 DEF SerialInv, NoOrphans, Held
    <3>5. QED
      BY <1>2, <1>3, <3>3, <3>4 DEF SerialInv
  <2>3. CASE ListKeys(p)
    <3> DEFINE ids == {i \in Ids : Held(key(i))}
    <3>1. Clearing(p, ids) /\ UNCHANGED store /\ h.queue \in queues
      BY <2>0, <2>3 DEF ListKeys
    <3>2. CASE ids = {} /\ h.whole
      <4>1. \A i \in Ids : ~Held(key(i))
        BY <3>2
      <4>2. Goto(p, [at |-> "drop", queue |-> h.queue])
        BY <3>1, <3>2 DEF Clearing, AfterClear
      <4>3. St([at |-> "drop", queue |-> h.queue])
        BY <3>1, <4>1
      <4>4. QED
        BY <1>4, <3>1, <4>2, <4>3
    <3>3. CASE ids = {} /\ ~h.whole
      BY <1>3, <1>4, <3>1, <3>3 DEF Clearing, AfterClear
    <3>4. CASE ids # {}
      <4> DEFINE state == [at |-> "clear", queue |-> h.queue, whole |-> h.whole, keys |-> ids]
      <4>1. Goto(p, state)
        BY <3>1, <3>4 DEF Clearing
      <4>2. St(state)
        BY <3>1
      <4>3. QED
        BY <1>4, <3>1, <4>1, <4>2
    <3>5. QED
      BY <3>2, <3>3, <3>4
  <2>4. CASE DeleteKey(p)
    <3>1. PICK i \in Ids :
            /\ messages' = [messages EXCEPT ![key(i)] = NoMessage]
            /\ Clearing(p, h.keys \ {i})
      BY <2>4 DEF DeleteKey
    <3>2. UNCHANGED queues /\ h.queue \in queues /\ h.at = "clear"
      BY <2>0, <2>4 DEF DeleteKey
    <3>3. /\ messages'[key(i)] = NoMessage
          /\ \A k \in Keys : k # key(i) => messages'[k] = messages[k]
      BY <2>0, <3>1, <3>2 DEF TypeOK
    <3>4. NoOrphans'
      BY <3>2, <3>3 DEF SerialInv, NoOrphans, Held
    <3>5. \A j \in Ids : Held(key(j))' => j \in h.keys \ {i}
      <4>1. \A j \in Ids : Held(key(j)) => j \in h.keys
        BY <1>1, <3>2
      <4>2. \A j \in Ids : j # i => key(j) # key(i)
        OBVIOUS
      <4>3. QED
        BY <2>0, <3>2, <3>3, <4>1, <4>2 DEF Held
    <3> DEFINE ids == h.keys \ {i}
    <3>6. CASE ids = {} /\ h.whole
      <4> DEFINE state == [at |-> "drop", queue |-> h.queue]
      <4>1. Goto(p, state)
        BY <3>1, <3>6 DEF Clearing, AfterClear
      <4>2. St(state)'
        BY <3>2, <3>5, <3>6
      <4>3. QED
        BY <1>2, <3>4, <4>1, <4>2 DEF SerialInv
    <3>7. CASE ids = {} /\ ~h.whole
      BY <1>2, <1>3, <3>1, <3>4, <3>7 DEF Clearing, AfterClear, SerialInv
    <3>8. CASE ids # {}
      <4> DEFINE state == [at |-> "clear", queue |-> h.queue, whole |-> h.whole, keys |-> ids]
      <4>1. Goto(p, state)
        BY <3>1, <3>8 DEF Clearing
      <4>2. St(state)'
        BY <3>2, <3>5
      <4>3. QED
        BY <1>2, <3>4, <4>1, <4>2 DEF SerialInv
    <3>9. QED
      BY <3>6, <3>7, <3>8
  <2>5. CASE DropQueue(p)
    <3>1. /\ \A i \in Ids : ~Held(<<h.queue, i>>)
          /\ queues' = queues \ {h.queue} /\ UNCHANGED messages /\ Goto(p, Idle)
      BY <1>1, <2>5 DEF DropQueue
    <3>2. NoOrphans'
      BY <3>1 DEF SerialInv, NoOrphans, Held, Keys
    <3>3. QED
      BY <1>2, <1>3, <3>1, <3>2 DEF SerialInv
  <2>6. CASE ListVisible(p)
    <3>1. UNCHANGED store /\ h.queue \in queues
      BY <2>0, <2>6 DEF ListVisible
    <3>2. CASE Goto(p, Idle)
      BY <1>3, <1>4, <3>1, <3>2
    <3>3. ASSUME NEW now \in h.since..clock, NEW state, Goto(p, state),
                 state = [at |-> "reserve", queue |-> h.queue, now |-> now, want |-> h.want,
                          timeout |-> h.timeout, candidates |-> VisibleAt(h.queue, now)]
          PROVE  SerialInv'
      <4>1. \A i \in Todo(VisibleAt(h.queue, now)) :
              /\ messages[<<h.queue, i>>] = VisibleAt(h.queue, now)[i]
              /\ VisibleAt(h.queue, now)[i].nextVisible <= now
        BY DEF Todo, VisibleAt
      <4> DEFINE seen == VisibleAt(h.queue, now)
      <4> HIDE DEF seen
      <4>2. /\ state.at = "reserve" /\ state.queue = h.queue /\ state.now = now
            /\ state.candidates = seen
        BY <3>3 DEF seen
      <4>3. \A i \in Todo(state.candidates) :
              /\ messages[<<state.queue, i>>] = state.candidates[i]
              /\ state.candidates[i].nextVisible <= state.now
        BY <4>1, <4>2 DEF seen
      <4>4. St(state)
        BY <3>1, <4>2, <4>3
      <4> HIDE DEF St
      <4>5. QED
        BY <1>4, <3>1, <3>3, <4>4
    <3>4. QED
      BY <2>6, <3>2, <3>3 DEF ListVisible
  <2>7. CASE Reserve(p)
    <3> DEFINE left(i) == [h EXCEPT !.want = @ - 1, !.candidates[i] = NoMessage]
    <3>1. PICK i \in Ids :
            /\ i \in Todo(h.candidates)
            /\ PutMessage(<<h.queue, i>>, h.candidates[i].dequeueCount + 1, h.now + h.timeout)
            /\ Goto(p, IF left(i).want > 0 /\ Todo(left(i).candidates) # {} THEN left(i) ELSE Idle)
      BY <2>7 DEF Reserve, IsFirst
    <3>2. h.at = "reserve" /\ h \in Reserving /\ h.queue \in queues /\ UNCHANGED queues
      BY <2>0, <2>7, <3>1, HandlerTypes DEF Reserve, PutMessage
    <3>3. \A k \in Keys : k # <<h.queue, i>> => messages'[k] = messages[k]
      BY <3>1 DEF PutMessage, TypeOK
    <3>4. NoOrphans'
      BY <3>2, <3>3 DEF SerialInv, NoOrphans, Held
    <3>5. /\ left(i).at = "reserve" /\ left(i).queue = h.queue /\ left(i).now = h.now
          /\ left(i).candidates = [h.candidates EXCEPT ![i] = NoMessage]
      BY <3>2 DEF Reserving
    <3>6. \A j \in Todo(left(i).candidates) :
            /\ j \in Todo(h.candidates) /\ j # i /\ j \in Ids
            /\ left(i).candidates[j] = h.candidates[j]
      BY <3>2, <3>5 DEF Todo, Reserving
    <3>7. \A j \in Todo(h.candidates) :
            messages[<<h.queue, j>>] = h.candidates[j] /\ h.candidates[j].nextVisible <= h.now
      BY <1>1, <3>2
    <3>8. \A j \in Ids : j # i => messages'[<<h.queue, j>>] = messages[<<h.queue, j>>]
      BY <2>0, <3>2, <3>3
    <3>9. St(left(i))'
      <4> HIDE DEF left
      <4>1. left(i).queue \in queues'
        BY <3>2, <3>5
      <4>2. \A j \in Todo(left(i).candidates) :
              /\ messages'[<<left(i).queue, j>>] = left(i).candidates[j]
              /\ left(i).candidates[j].nextVisible <= left(i).now
        BY <3>5, <3>6, <3>7, <3>8
      <4>3. QED
        BY <3>5, <4>1, <4>2 DEF Todo
    <3> HIDE DEF left, St
    <3>10. QED
      BY <1>2, <1>3, <3>1, <3>4, <3>9 DEF SerialInv
  <2>8. CASE CheckReceipt(p)
    <3>1. UNCHANGED store /\ h.at = "check" /\ h.queue \in queues
      BY <2>0, <2>8 DEF CheckReceipt
    <3>2. CASE Goto(p, Idle)
      BY <1>3, <1>4, <3>1, <3>2
    <3>3. ASSUME Held(<<h.queue, h.id>>), messages[<<h.queue, h.id>>].receipt = h.receipt,
                 Goto(p, [h EXCEPT !.at = "remove"])
          PROVE  SerialInv'
      <4> DEFINE state == [h EXCEPT !.at = "remove"]
      <4>1. h \in [at : {"check", "remove"}, queue : Queues, id : Ids, receipt : Receipts]
        BY <3>1 DEF TypeOK, HandlerState, Reserving
      <4>2. /\ state.at = "remove" /\ state.queue = h.queue /\ state.id = h.id
            /\ state.receipt = h.receipt
        BY <4>1
      <4>3. St(state)
        BY <3>1, <3>3, <4>2
      <4>4. QED
        BY <1>4, <3>1, <3>3, <4>3
    <3>4. QED
      BY <2>8, <3>2, <3>3 DEF CheckReceipt
  <2>9. CASE RemoveMessage(p)
    <3>1. /\ messages' = [messages EXCEPT ![<<h.queue, h.id>>] = NoMessage]
          /\ UNCHANGED queues /\ Goto(p, Idle)
      BY <2>9 DEF RemoveMessage
    <3>2. NoOrphans'
      BY <3>1 DEF SerialInv, NoOrphans, Held, TypeOK
    <3>3. QED
      BY <1>2, <1>3, <3>1, <3>2 DEF SerialInv
  <2>10. QED
    BY <1>6, <2>1, <2>2, <2>3, <2>4, <2>5, <2>6, <2>7, <2>8, <2>9 DEF Proceed
<1>7. ASSUME NEW p \in Handlers, Fail(p) PROVE SerialInv'
  BY <1>3, <1>4, <1>7 DEF Fail
<1>8. CASE Crash
  BY <1>8 DEF Crash, store, SerialInv, NoOrphans, Steady, Held, Idle
<1>9. CASE Tick
  BY <1>9 DEF Tick, SerialInv, NoOrphans, Steady, Held, Todo
<1>10. CASE UNCHANGED vars
  BY <1>10 DEF vars, SerialInv, NoOrphans, Steady, Held, Todo
<1>11. QED
  BY <1>5, <1>6, <1>7, <1>8, <1>9, <1>10 DEF Next

\* What clients ask for has the types of the atomic queues.
LEMMA AskedTypes ==
  ASSUME TypeOK'
  PROVE  settling' \in SUBSET (Keys \X Receipts) /\ purging' \in SUBSET Queues
<1>1. \A p \in Handlers : handler'[p] \in HandlerState
  BY DEF TypeOK
<1>2. ASSUME NEW h \in HandlerState
      PROVE  /\ h.at \in {"check", "remove"} => h.queue \in Queues /\ h.id \in Ids /\ h.receipt \in Receipts
             /\ h.at \in {"list", "clear"} => h.queue \in Queues
  BY DEF HandlerState, Reserving
<1>3. settling' \in SUBSET (Keys \X Receipts)
  BY <1>1, <1>2 DEF settling, Keys
<1>4. purging' \in SUBSET Queues
  BY <1>1, <1>2 DEF purging
<1>5. QED
  BY <1>3, <1>4

\* A request that goes on to no removal of its own asks for nothing new.
LEMMA NothingAsked ==
  ASSUME TypeOK, NEW p \in Handlers, NEW state, Goto(p, state),
         \/ state.at \notin {"check", "remove", "list", "clear"}
         \/ state.at = "clear" /\ handler[p].at = "clear" /\ state.queue = handler[p].queue
  PROVE  settling' \in SUBSET settling /\ purging' \in SUBSET purging
<1>1. handler'[p] = state /\ \A c \in Handlers : c # p => handler'[c] = handler[c]
  BY DEF Goto, TypeOK
<1>2. \A c \in Handlers : handler'[c].at \in {"check", "remove"} => handler'[c] = handler[c]
  BY <1>1
<1>3. \A c \in Handlers : handler'[c].at \in {"list", "clear"} =>
        handler[c].at \in {"list", "clear"} /\ handler'[c].queue = handler[c].queue
  BY <1>1
<1>4. settling' \in SUBSET settling
  BY <1>2 DEF settling
<1>5. purging' \in SUBSET purging
  BY <1>3 DEF purging
<1>6. QED
  BY <1>4, <1>5

\* Each call is a step of the atomic queues, or none.
LEMMA SerialRefines ==
  ASSUME TypeOK, TypeOK', ReceiptInv, TimeInv, SerialInv, [Next]_vars
  PROVE  [Atomic!Next]_(Atomic!vars)
<1> USE DEF Atomic!vars, Atomic!Keys, Keys
<1>1. UNCHANGED store => Atomic!Clients
  BY AskedTypes DEF store, Atomic!Clients
<1>2. \A k \in Keys : Held(k) <=> Atomic!Held(k)
  BY DEF Held, Atomic!Held
<1>3. nextReceipt <= MaxReceipts => nextReceipt \in Receipts /\ Atomic!Fresh(nextReceipt)
  BY BoundsAssumption DEF TypeOK, ReceiptInv, Receipts, Atomic!Fresh
<1>4. ASSUME NEW p \in Handlers, Proceed(p) PROVE [Atomic!Next]_(Atomic!vars)
  <2> PICK h : h = handler[p]
    OBVIOUS
  <2>0. /\ h.at # "idle" => h.queue \in Queues
        /\ h.at \notin {"idle", "create"} => h.queue \in queues
        /\ \A i \in Ids : h.queue \in Queues => <<h.queue, i>> \in Keys
    BY HandlerTypes DEF Busy, SerialInv, Steady
  <2>1. CASE PutQueue(p)
    <3>1. Atomic!Answer
      BY <2>1, NothingAsked DEF PutQueue, Idle, Atomic!Answer
    <3>2. QED
      BY <2>0, <2>1, <3>1 DEF PutQueue, Atomic!Next, Atomic!Create
  <2>2. CASE StoreMessage(p)
    <3>1. PICK i \in Ids, now \in h.since..clock :
            FreshId(i) /\ PutMessage(<<h.queue, i>>, 0, now)
      BY <2>2 DEF StoreMessage
    <3>2. now \in 0..clock /\ h.queue \in Queues /\ h.queue \in queues /\ <<h.queue, i>> \in Keys
      BY <2>0, <2>2, HandlerTypes DEF StoreMessage, TypeOK
    <3>3. Atomic!Answer
      BY <2>2, NothingAsked DEF StoreMessage, Idle, Atomic!Answer
    <3>4. Atomic!Send(<<h.queue, i>>, nextReceipt)
      BY <1>3, <3>1, <3>2, <3>3 DEF PutMessage, FreshId, Atomic!Send
    <3>5. QED
      BY <1>3, <3>1, <3>2, <3>4 DEF PutMessage, Atomic!Next
  <2>3. CASE ListKeys(p) \/ ListVisible(p) \/ CheckReceipt(p)
    BY <1>1, <2>3 DEF ListKeys, ListVisible, CheckReceipt, Atomic!Next
  <2>4. CASE DeleteKey(p)
    <3>1. PICK i \in Ids :
            /\ messages' = [messages EXCEPT ![<<h.queue, i>>] = NoMessage]
            /\ Clearing(p, h.keys \ {i})
      BY <2>4 DEF DeleteKey
    <3>2. <<h.queue, i>> \in Keys /\ h.queue \in queues /\ h.queue \in purging
      BY <2>0, <2>4 DEF DeleteKey, purging
    <3>3. Atomic!Answer
      <4>1. PICK state : /\ Goto(p, state)
                         /\ \/ state.at \in {"idle", "drop"}
                            \/ state.at = "clear" /\ state.queue = h.queue
        BY <3>1 DEF Clearing, AfterClear, Idle
      <4>2. h.at = "clear"
        BY <2>4 DEF DeleteKey
      <4>3. QED
        BY <4>1, <4>2, NothingAsked DEF Atomic!Answer
    <3>4. Atomic!Purge(<<h.queue, i>>)
      BY <2>4, <3>1, <3>2, <3>3 DEF DeleteKey, Atomic!Purge
    <3>5. QED
      BY <3>2, <3>4 DEF Atomic!Next
  <2>5. CASE DropQueue(p)
    <3>1. h.queue \in Queues /\ \A i \in Ids : ~Held(<<h.queue, i>>)
      BY <2>0, <2>5 DEF DropQueue, SerialInv, Steady
    <3>2. Atomic!Answer
      BY <2>5, NothingAsked DEF DropQueue, Idle, Atomic!Answer
    <3>3. Atomic!Drop(h.queue)
      BY <1>2, <2>5, <3>1, <3>2 DEF DropQueue, Atomic!Drop
    <3>4. QED
      BY <3>1, <3>3 DEF Atomic!Next
  <2>6. CASE Reserve(p)
    <3>1. PICK i \in Ids :
            /\ i \in Todo(h.candidates)
            /\ PutMessage(<<h.queue, i>>, h.candidates[i].dequeueCount + 1, h.now + h.timeout)
      BY <2>6 DEF Reserve, IsFirst
    <3> DEFINE k == <<h.queue, i>>
    <3>2. k \in Keys /\ h.candidates[i] # NoMessage /\ h.candidates[i] = messages[k]
          /\ messages[k].nextVisible <= h.now
      BY <2>0, <2>6, <3>1 DEF Reserve, Todo, SerialInv, Steady
    <3>3. h.now \in Nat /\ h.now <= clock /\ h.timeout \in Timeouts /\ clock \in Nat
      BY <2>6, HandlerTypes DEF Reserve, TimeInv, TypeOK
    <3>4. Held(k) /\ messages[k].nextVisible \in Nat
      BY <3>2 DEF TypeOK, Held, Message
    <3>5. h.now \in messages[k].nextVisible..clock /\ messages[k].nextVisible <= clock
      BY <3>2, <3>3, <3>4
    <3>6. /\ messages' = [messages EXCEPT
               ![k] = [receipt |-> nextReceipt, dequeueCount |-> messages[k].dequeueCount + 1,
                       nextVisible |-> h.now + h.timeout]]
          /\ issued' = [issued EXCEPT ![k] = issued[k] \union {nextReceipt}]
          /\ nextReceipt <= MaxReceipts /\ UNCHANGED <<queues, clock>>
      BY <3>1, <3>2 DEF PutMessage
    <3> HIDE DEF k
    <3>7. Atomic!Answer
      <4> DEFINE left(j) == [h EXCEPT !.want = @ - 1, !.candidates[j] = NoMessage]
      <4>1. PICK j \in Ids :
              Goto(p, IF left(j).want > 0 /\ Todo(left(j).candidates) # {} THEN left(j) ELSE Idle)
        BY <2>6 DEF Reserve
      <4>2. h \in Reserving
        BY <2>6, HandlerTypes DEF Reserve
      <4>3. left(j).at = "reserve"
        BY <4>2 DEF Reserving
      <4> HIDE DEF left
      <4>4. PICK state : Goto(p, state) /\ state.at \in {"idle", "reserve"}
        BY <4>1, <4>3 DEF Idle
      <4>5. QED
        BY <4>4, NothingAsked DEF Atomic!Answer
    <3>8. Atomic!Deliver(k, nextReceipt)
      BY <1>2, <1>3, <3>2, <3>3, <3>4, <3>5, <3>6, <3>7 DEF Atomic!Deliver
    <3>9. QED
      BY <1>3, <3>2, <3>6, <3>8 DEF Atomic!Next
  <2>7. CASE RemoveMessage(p)
    <3> DEFINE k == <<h.queue, h.id>>
    <3>1. k \in Keys /\ Held(k) /\ messages[k].receipt = h.receipt /\ h.receipt \in Receipts
      BY <2>0, <2>7, HandlerTypes DEF RemoveMessage, SerialInv, Steady
    <3>2. Atomic!Answer
      BY <2>7, NothingAsked DEF RemoveMessage, Idle, Atomic!Answer
    <3>3. <<k, h.receipt>> \in settling
      BY <2>7 DEF RemoveMessage, settling
    <3>4. Atomic!Settle(k, h.receipt)
      BY <1>2, <2>7, <3>1, <3>2, <3>3 DEF RemoveMessage, Atomic!Settle
    <3>5. QED
      BY <3>1, <3>4 DEF Atomic!Next
  <2>8. QED
    BY <1>4, <2>1, <2>2, <2>3, <2>4, <2>5, <2>6, <2>7 DEF Proceed
<1>5. ASSUME NEW p \in Handlers, Arrive(p) \/ Fail(p) PROVE [Atomic!Next]_(Atomic!vars)
  BY <1>1, <1>5, ArriveEffect DEF Fail, Atomic!Next
<1>6. CASE Crash
  BY <1>1, <1>6 DEF Crash, Atomic!Next
<1>7. CASE Tick
  BY <1>7 DEF Tick, Atomic!Tick, Atomic!Next, settling, purging
<1>8. CASE UNCHANGED vars
  BY <1>8 DEF vars, settling, purging
<1>9. QED
  BY <1>4, <1>5, <1>6, <1>7, <1>8 DEF Next

LEMMA SerialInvariant == ASSUME OneHandler PROVE Spec => []SerialInv
<1>1. Init => SerialInv
  BY DEF Init, SerialInv, NoOrphans, Steady, Held, Idle
<1>2. TypeOK /\ TypeOK' /\ SerialInv /\ [Next]_vars => SerialInv'
  BY SerialStep
<1>3. QED
  BY <1>1, <1>2, TypeCorrect, PTL DEF Spec

\* With requests that do not overlap, no message is in a queue that does not
\* exist, although deleteQueue may stop between any two of its calls.
THEOREM SerialNoOrphans == ASSUME OneHandler PROVE Spec => []NoOrphans
BY SerialInvariant, PTL DEF SerialInv

\* A step that writes the messages removes one, posts one under an unused key,
\* or delivers one that is visible as it is stored.
LEMMA SerialWrites ==
  ASSUME TypeOK, ReceiptInv, TimeInv, SerialInv, [Next]_vars,
         ~UNCHANGED <<messages, issued>>
  PROVE  \/ \E k \in Keys : messages' = [messages EXCEPT ![k] = NoMessage] /\ UNCHANGED issued
         \/ \E k \in Keys, v \in Nat : issued[k] = {} /\ ~Held(k) /\ PutMessage(k, 0, v)
         \/ \E k \in Keys, v \in Nat :
              /\ Held(k) /\ messages[k].nextVisible <= clock
              /\ PutMessage(k, messages[k].dequeueCount + 1, v)
<1>1. PICK p \in Handlers : StoreMessage(p) \/ Reserve(p) \/ DeleteKey(p) \/ RemoveMessage(p)
  BY ArriveEffect DEF Next, Proceed, PutQueue, ListKeys, DropQueue, ListVisible, CheckReceipt,
       Fail, Crash, Tick, store, vars
<1> PICK h : h = handler[p]
  OBVIOUS
<1>2. h.queue \in Queues /\ \A i \in Ids : <<h.queue, i>> \in Keys
  BY <1>1, HandlerTypes DEF Busy, Keys, StoreMessage, Reserve, DeleteKey, RemoveMessage
<1>3. CASE DeleteKey(p) \/ RemoveMessage(p)
  BY <1>2, <1>3, RemoveEffect
<1>4. CASE StoreMessage(p)
  <2>1. PICK i \in Ids, now \in h.since..clock :
          FreshId(i) /\ PutMessage(<<h.queue, i>>, 0, now)
    BY <1>4 DEF StoreMessage
  <2>2. now \in Nat
    BY <1>4, <2>1, HandlerTypes DEF StoreMessage, TypeOK
  <2>3. issued[<<h.queue, i>>] = {}
    BY <1>2, <2>1 DEF FreshId
  <2>4. ~Held(<<h.queue, i>>)
    BY <1>2, <2>3 DEF ReceiptInv, ReceiptsDisjoint
  <2>5. QED
    BY <1>2, <2>1, <2>2, <2>3, <2>4
<1>5. CASE Reserve(p)
  <2>1. PICK i \in Ids :
          /\ i \in Todo(h.candidates)
          /\ PutMessage(<<h.queue, i>>, h.candidates[i].dequeueCount + 1, h.now + h.timeout)
    BY <1>5 DEF Reserve, IsFirst
  <2> DEFINE k == <<h.queue, i>>
  <2>2. /\ k \in Keys /\ h.candidates[i] # NoMessage /\ h.candidates[i] = messages[k]
        /\ messages[k].nextVisible <= h.now
    BY <1>2, <1>5, <2>1 DEF Reserve, Todo, SerialInv, Steady
  <2>3. h.now \in Nat /\ h.now <= clock /\ h.timeout \in Timeouts /\ clock \in Nat
    BY <1>5, HandlerTypes DEF Reserve, TimeInv, TypeOK
  <2>4. Held(k) /\ messages[k].nextVisible \in Nat
    BY <2>2 DEF TypeOK, Held, Message
  <2> HIDE DEF k
  <2>5. messages[k].nextVisible <= clock
    BY <2>2, <2>3, <2>4
  <2>6. h.now + h.timeout \in Nat
    <3>1. h.now \in Nat /\ h.timeout \in Nat
      BY <2>3, TimeoutsAssumption
    <3>2. QED
      BY <3>1
  <2>7. PutMessage(k, messages[k].dequeueCount + 1, h.now + h.timeout)
    BY <2>1, <2>2 DEF k
  <2>8. QED
    BY <2>2, <2>4, <2>5, <2>6, <2>7
<1>6. QED
  BY <1>1, <1>3, <1>4, <1>5

\* With requests that do not overlap, a message is delivered only while it is
\* visible (getMessages), so no two readers hold it at once.
THEOREM SerialExclusive == ASSUME OneHandler PROVE Spec => ExclusiveReservation
<1> DEFINE Visible ==
      \A k \in Keys : Held(k) /\ issued'[k] # issued[k] => messages[k].nextVisible <= clock
<1>1. ASSUME TypeOK, ReceiptInv, TimeInv, SerialInv, [Next]_vars PROVE Visible
  <2> SUFFICES ASSUME NEW k \in Keys, Held(k), issued'[k] # issued[k]
               PROVE  messages[k].nextVisible <= clock
    OBVIOUS
  <2>1. \A j \in Keys, d \in Nat, v \in Nat : PutMessage(j, d, v) => k = j
    BY DEF PutMessage, TypeOK
  <2>2. QED
    BY <1>1, <2>1, SerialWrites DEF PutMessage, TypeOK
<1>2. QED
  BY <1>1, TypeCorrect, ReceiptInvariant, TimeInvariant, SerialInvariant, PTL
     DEF Spec, ExclusiveReservation

\* With requests that do not overlap, a message that was deleted does not come
\* back: only putMessage fills a key, and its id is new.
THEOREM SerialNoResurrection == ASSUME OneHandler PROVE Spec => NoResurrection
<1> DEFINE New ==
      \A k \in Keys : ~Held(k) /\ messages'[k] # NoMessage => issued[k] = {}
<1>1. ASSUME TypeOK, ReceiptInv, TimeInv, SerialInv, [Next]_vars PROVE New
  <2> SUFFICES ASSUME NEW k \in Keys, ~Held(k), messages'[k] # NoMessage
               PROVE  issued[k] = {}
    OBVIOUS
  <2>1. ~UNCHANGED <<messages, issued>>
    BY DEF Held
  <2>2. \A d, v : \A j \in Keys : PutMessage(j, d, v) => k = j
    BY DEF PutMessage, TypeOK, Held
  <2>3. \A j \in Keys : messages' # [messages EXCEPT ![j] = NoMessage]
    BY <1>1 DEF TypeOK, Held
  <2>4. QED
    BY <1>1, <2>1, <2>2, <2>3, SerialWrites
<1>2. QED
  BY <1>1, TypeCorrect, ReceiptInvariant, TimeInvariant, SerialInvariant, PTL
     DEF Spec, NoResurrection

\* With requests that do not overlap, a DELETE removes the message only under
\* the receipt of its latest delivery: nothing comes between the comparison
\* and the deletion (handleMessage).
THEOREM SerialDeletesLatest == ASSUME OneHandler PROVE Spec => DeletesLatest
<1> DEFINE Latest ==
      \A p \in Handlers, k \in Keys :
        handler[p].at = "remove" /\ Held(k) /\ messages'[k] = NoMessage =>
          messages[k].receipt = handler[p].receipt
<1>1. ASSUME OneHandler, TypeOK, ReceiptInv, SerialInv, [Next]_vars PROVE [Latest]_vars
  <2> SUFFICES ASSUME Next, NEW p \in Handlers, NEW k \in Keys,
                      handler[p].at = "remove", Held(k), messages'[k] = NoMessage
               PROVE  messages[k].receipt = handler[p].receipt
    BY <1>1
  <2>1. handler[p].queue = k[1] /\ handler[p].id = k[2]
    BY <1>1, LeavesStep DEF OneHandler
  <2>2. k = <<handler[p].queue, handler[p].id>>
    BY <2>1 DEF Keys
  <2>3. QED
    BY <1>1, <2>2 DEF SerialInv, Steady
<1>2. QED
  BY <1>1, TypeCorrect, ReceiptInvariant, SerialInvariant, PTL DEF Spec, DeletesLatest

\* With requests that do not overlap, dequeueCount is the number of times the
\* message was delivered (getMessages).
THEOREM SerialCountExact == ASSUME OneHandler PROVE Spec => []DequeueCountExact
<1>1. Init => DequeueCountExact
  BY DEF Init, DequeueCountExact, Held
<1>2. ASSUME TypeOK, ReceiptInv, TimeInv, SerialInv, DequeueCountExact, [Next]_vars
      PROVE  DequeueCountExact'
  <2>1. CASE UNCHANGED <<messages, issued>>
    BY <1>2, <2>1 DEF DequeueCountExact, Held
  <2>2. ASSUME NEW k \in Keys, messages' = [messages EXCEPT ![k] = NoMessage], UNCHANGED issued
        PROVE  DequeueCountExact'
    BY <1>2, <2>2 DEF DequeueCountExact, Held, TypeOK
  <2>3. ASSUME NEW k \in Keys, NEW d \in Nat, NEW v \in Nat,
               PutMessage(k, d, v), d = Cardinality(issued[k])
        PROVE  DequeueCountExact'
    <3>1. Cardinality(issued'[k]) - 1 = d
      BY <1>2, <2>3, OneMoreReceipt
    <3>2. messages'[k].dequeueCount = d
      BY <1>2, <2>3 DEF PutMessage, TypeOK
    <3>3. \A j \in Keys : j # k => messages'[j] = messages[j] /\ issued'[j] = issued[j]
      BY <1>2, <2>3 DEF PutMessage, TypeOK
    <3>4. QED
      BY <1>2, <3>1, <3>2, <3>3 DEF DequeueCountExact, Held
  <2>4. ASSUME NEW k \in Keys, NEW v \in Nat, issued[k] = {}, PutMessage(k, 0, v)
        PROVE  DequeueCountExact'
    BY <2>3, <2>4, FS_EmptySet
  <2>5. ASSUME NEW k \in Keys, NEW v \in Nat,
               Held(k), PutMessage(k, messages[k].dequeueCount + 1, v)
        PROVE  DequeueCountExact'
    <3>1. messages[k].dequeueCount \in Nat
      BY <1>2, <2>5 DEF TypeOK, Held, Message
    <3>2. messages[k].dequeueCount + 1 \in Nat
      BY <3>1
    <3>3. Cardinality(issued[k]) \in Nat
      BY <1>2, <2>5, <3>2, OneMoreReceipt
    <3>4. messages[k].dequeueCount + 1 = Cardinality(issued[k])
      BY <1>2, <2>5, <3>1, <3>3 DEF DequeueCountExact
    <3>5. QED
      BY <2>3, <2>5, <3>2, <3>4
  <2>6. QED
    BY <1>2, <2>1, <2>2, <2>4, <2>5, SerialWrites
<1>3. QED
  BY <1>1, <1>2, TypeCorrect, ReceiptInvariant, TimeInvariant, SerialInvariant, PTL DEF Spec

\* With requests that do not overlap, queue.go is a store of atomic
\* peek-lock queues: every database call is one of their steps, or none.
THEOREM SerialImplements == ASSUME OneHandler PROVE Spec => Implements
<1>1. Init => Atomic!Init
  BY DEF Init, Idle, Atomic!Init, Keys, Atomic!Keys, settling, purging
<1>2. TypeOK /\ TypeOK' /\ ReceiptInv /\ TimeInv /\ SerialInv /\ [Next]_vars
        => [Atomic!Next]_(Atomic!vars)
  BY SerialRefines
<1>3. QED
  BY <1>1, <1>2, TypeCorrect, ReceiptInvariant, TimeInvariant, SerialInvariant, PTL
     DEF Spec, Implements, Atomic!Spec
=============================================================================
