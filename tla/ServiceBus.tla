----------------------------- MODULE ServiceBus -----------------------------
(***************************************************************************)
(* Microsoft.ServiceBus (internal/services/servicebus): namespaces, queues,*)
(* topics and subscriptions of the control plane, the index by which the   *)
(* data plane knows them, and the messages: sent to a queue or to every    *)
(* subscription of a topic, received under a lock, completed with its      *)
(* token.                                                                  *)
(***************************************************************************)
EXTENDS ArmStore

CONSTANTS
    QueueIds,     \* <<group, namespace, queue>> triples
    SubIds,       \* <<group, namespace, topic, subscription>> quadruples
    MaxDraws,     \* bound on the ids and tokens drawn at random, for each mode
    Provisioned   \* modes that start with every entity stored and leave it so

ASSUME DrawsAssumption == MaxDraws \in [Modes -> Nat]

\* A database holds finitely many documents.
ASSUME IdsAssumption ==
    /\ \A q \in QueueIds : q = <<q[1], q[2], q[3]>>
    /\ \A i \in SubIds : i = <<i[1], i[2], i[3], i[4]>>
    /\ Provisioned # {} => IsFiniteSet(QueueIds) /\ IsFiniteSet(SubIds)

VARIABLE drawn    \* how many ids and tokens were drawn; none is drawn twice

vars == <<store, drawn>>

\* A group stands for a subscription with one of its resource groups.
Namespaces == {<<i[1], i[2]>> : i \in QueueIds \union SubIds}
TopicIds == {<<i[1], i[2], i[3]>> : i \in SubIds}

\* The data plane's urls have no group: it knows these by less of their name.
DataQueues == {<<q[2], q[3]>> : q \in QueueIds}
DataTopics == {<<t[2], t[3]>> : t \in TopicIds}
DataSubscriptions == {<<i[2], i[3], i[4]>> : i \in SubIds}

-----------------------------------------------------------------------------
(* The control plane *)

SBNamespace(n) == <<"servicebus.namespaces">> \o n
SBQueue(q) == <<"servicebus.queues">> \o q
SBTopic(t) == <<"servicebus.topics">> \o t
SBSubscription(i) == <<"servicebus.subscriptions">> \o i

\* The paths of the index keep a queue and a topic of one name apart, but not
\* two queues of one name in namespaces of one name.
QueueEntityPath(q) == <<"servicebus.dataplane.entities", q[1], "queues", q[2]>>
TopicEntityPath(t) == <<"servicebus.dataplane.entities", t[1], "topics", t[2]>>
SubscriptionEntityPath(i) == <<"servicebus.dataplane.entities", i[1], i[2], "subscriptions", i[3]>>

\* A broken DeleteMarked: the index entry stays.
DeleteOnly(c, k, path) == Deleting(c, k)

\* Store a record, then mark it in the index; remove it, then unmark it.
\* What is kept below a removed one stays.
PutMarked(c, k, path) == Begin(c, "put", k, <<Store(k, [state |-> "Succeeded"]), Store(path, TRUE)>>)
DeleteMarked(c, k, path) == Has(k) /\ Begin(c, "delete", k, <<Drop(k), Drop(path)>>)

PutNamespace(c, n) == Putting(c, SBNamespace(n), [state |-> "Succeeded"])
DeleteNamespace(c, n) == Deleting(c, SBNamespace(n))

PutQueue(c, q) ==
    /\ Has(SBNamespace(<<q[1], q[2]>>))
    /\ PutMarked(c, SBQueue(q), QueueEntityPath(Tail(q)))
DeleteQueue(c, q) == DeleteMarked(c, SBQueue(q), QueueEntityPath(Tail(q)))

PutTopic(c, t) ==
    /\ Has(SBNamespace(<<t[1], t[2]>>))
    /\ PutMarked(c, SBTopic(t), TopicEntityPath(Tail(t)))
DeleteTopic(c, t) == DeleteMarked(c, SBTopic(t), TopicEntityPath(Tail(t)))

PutSubscription(c, i) ==
    /\ Has(SBTopic(<<i[1], i[2], i[3]>>))
    /\ PutMarked(c, SBSubscription(i), SubscriptionEntityPath(Tail(i)))
DeleteSubscription(c, i) == DeleteMarked(c, SBSubscription(i), SubscriptionEntityPath(Tail(i)))

\* Each record with its entry in the index: two groups' namesakes share one.
Twins ==
    {<<SBQueue(q), QueueEntityPath(Tail(q))>> : q \in QueueIds}
    \union {<<SBTopic(t), TopicEntityPath(Tail(t))>> : t \in TopicIds}
    \union {<<SBSubscription(i), SubscriptionEntityPath(Tail(i))>> : i \in SubIds}

-----------------------------------------------------------------------------
(* Messages *)

MessagePrefixFor(q) == <<"servicebus.messages">> \o q
SubscriptionMessagePrefix(i) == <<"servicebus.messages", i[1], i[2], "subscriptions", i[3]>>

\* n ids or tokens no one else has, from the first on.
Draw(n) == drawn + n <= MaxDraws[mode] /\ drawn' = drawn + n

NewMessage == [locked |-> FALSE, token |-> 0, deliveryCount |-> 0]

StoreMessage(prefix, id) == Store(Append(prefix, id), NewMessage)

\* A name that is a queue's and a topic's is the queue's.
SendMessage(c, q) ==
    /\ Has(QueueEntityPath(q))
    /\ Draw(1)
    /\ Begin(c, "send", q, <<StoreMessage(MessagePrefixFor(q), drawn + 1)>>)

\* The subscriptions of every topic of that name, in any namespace of any
\* group; each gives its name to a prefix under this namespace.
SubscriptionsOf(topic) == {k \in InBucket("servicebus.subscriptions") : k[4] = topic}

\* A broken SendToTopic: every copy goes to the last subscription.
SendToLast(c, t) ==
    /\ ~Has(QueueEntityPath(t))
    /\ Has(TopicEntityPath(t))
    /\ LET subs == SetToSeq(SubscriptionsOf(t[2]))
       IN  /\ subs # <<>>
           /\ Draw(Len(subs))
           /\ Begin(c, "publish", t,
                 [i \in DOMAIN subs |->
                     StoreMessage(SubscriptionMessagePrefix(<<t[1], t[2], Last(subs)[5]>>), drawn + i)])

SendToTopic(c, t) ==
    /\ ~Has(QueueEntityPath(t))
    /\ Has(TopicEntityPath(t))
    /\ LET subs == SetToSeq(SubscriptionsOf(t[2]))
       IN  /\ subs # <<>>
           /\ Draw(Len(subs))
           /\ Begin(c, "publish", t,
                 [i \in DOMAIN subs |->
                     StoreMessage(SubscriptionMessagePrefix(<<t[1], t[2], subs[i][5]>>), drawn + i)])

\* A broken ReceiveMessages: it writes back under the queue's or the topic's
\* prefix.
ReceiveUnderEntity(c, prefix, n, lasts) ==
    LET free == {k \in Under(prefix) : ~docs[k].locked}
    IN  \E chosen \in SUBSET free :
           /\ chosen # {}
           /\ Cardinality(chosen) = IF Cardinality(free) < n THEN Cardinality(free) ELSE n
           /\ LET ms == SetToSeq(chosen)
              IN  /\ Draw(Len(ms))
                  /\ Begin(c, "receive", prefix,
                        [i \in DOMAIN ms |->
                            Store(Append(SubSeq(prefix, 1, 3), Last(ms[i])),
                                  [locked |-> lasts, token |-> drawn + i,
                                   deliveryCount |-> docs[ms[i]].deliveryCount + 1])])

\* Of the messages under a prefix that nobody holds, up to n are locked, each
\* under a token of its own, and written back; their ids are random, and so
\* is their order.  A lock may be asked to last no time.
ReceiveMessages(c, prefix, n, lasts) ==
    LET free == {k \in Under(prefix) : ~docs[k].locked}
    IN  \E chosen \in SUBSET free :
           /\ chosen # {}
           /\ Cardinality(chosen) = IF Cardinality(free) < n THEN Cardinality(free) ELSE n
           /\ LET ms == SetToSeq(chosen)
              IN  /\ Draw(Len(ms))
                  /\ Begin(c, "receive", prefix,
                        [i \in DOMAIN ms |->
                            Store(Append(prefix, Last(ms[i])),
                                  [locked |-> lasts, token |-> drawn + i,
                                   deliveryCount |-> docs[ms[i]].deliveryCount + 1])])

\* Completion asks for the token of the last lock, expired or not.
CompleteMessage(c, prefix, id, token) ==
    /\ token # 0
    /\ Has(Append(prefix, id))
    /\ docs[Append(prefix, id)].token = token
    /\ Begin(c, "complete", Append(prefix, id), <<Drop(Append(prefix, id))>>)
    /\ UNCHANGED drawn

\* A lock runs out.
Expire(k) ==
    /\ docs[k].locked
    /\ docs' = [docs EXCEPT ![k].locked = FALSE]
    /\ UNCHANGED <<calls, mode, drawn>>

-----------------------------------------------------------------------------

\* What the data plane serves: a queue, a subscription, while it is marked.
Sources ==
    {MessagePrefixFor(q) : q \in {q \in DataQueues : Has(QueueEntityPath(q))}}
    \union {SubscriptionMessagePrefix(i) :
              i \in {i \in DataSubscriptions : Has(SubscriptionEntityPath(i))}}

Control(c) ==
    /\ mode \notin Provisioned
    /\ \/ \E n \in Namespaces : PutNamespace(c, n) \/ DeleteNamespace(c, n)
       \/ \E q \in QueueIds : PutQueue(c, q) \/ DeleteQueue(c, q)
       \/ \E t \in TopicIds : PutTopic(c, t) \/ DeleteTopic(c, t)
       \/ \E i \in SubIds : PutSubscription(c, i) \/ DeleteSubscription(c, i)
    /\ UNCHANGED drawn

Messaging(c) ==
    \/ \E q \in DataQueues : SendMessage(c, q)
    \/ \E t \in DataTopics : SendToTopic(c, t)
    \/ \E prefix \in Sources :
          \/ \E n \in 1..2, lasts \in BOOLEAN : ReceiveMessages(c, prefix, n, lasts)
          \/ \E id \in 1..drawn, token \in 1..drawn : CompleteMessage(c, prefix, id, token)

Records ==
    {SBNamespace(n) : n \in Namespaces} \union {SBQueue(q) : q \in QueueIds}
    \union {SBTopic(t) : t \in TopicIds} \union {SBSubscription(i) : i \in SubIds}
Marks == {p[2] : p \in Twins}

\* What the requests of the control plane leave when all are made.
AllStored == [k \in Records \union Marks |-> IF k \in Records THEN [state |-> "Succeeded"] ELSE TRUE]

Init ==
    /\ StoreInit
    /\ docs = IF mode \in Provisioned THEN AllStored ELSE << >>
    /\ drawn = 0

Next ==
    \/ \E c \in Clients : Control(c) \/ Messaging(c)
    \/ StoreNext /\ UNCHANGED drawn
    \/ \E k \in InBucket("servicebus.messages") : Expire(k)

Spec == Init /\ [][Next]_vars
-----------------------------------------------------------------------------
(* What Service Bus promises *)

\* The subscriptions stored for a topic, by whatever group.
StoredSubscriptions(t) == {k \in InBucket("servicebus.subscriptions") : SubSeq(k, 3, 4) = t}

\* A message sent to a topic is stored once for each of its subscriptions and
\* nowhere else, as long as no other namespace has a topic of that name with
\* subscriptions.  (With one, "Contains" on the ids finds those as well; and
\* the subscriptions of one name of two groups get a copy each, under one
\* prefix.)
OneCopyPerSubscription ==
    [][\A c \in Clients :
          LET t == calls'[c].on
              copies == calls'[c].todo
          IN  ~Busy(c) /\ calls'[c].verb = "publish" /\ SubscriptionsOf(t[2]) = StoredSubscriptions(t) =>
                 /\ Len(copies) = Cardinality(StoredSubscriptions(t))
                 /\ {Front(copies[i].key) : i \in DOMAIN copies}
                       = {SubscriptionMessagePrefix(<<k[3], k[4], k[5]>>) : k \in StoredSubscriptions(t)}]_vars

\* When requests do not overlap, a receive only marks messages that are
\* stored: it gives no message a second life, under its own key or another,
\* unless it is of a queue that has a topic's name, whose prefix is that of
\* the topic's subscriptions too.  (When requests overlap, it writes back a
\* message that was completed since it was listed.)
ReceiveCreatesNothing ==
    [][\A c \in Clients :
          mode # "concurrent" /\ Busy(c) /\ calls[c].verb = "receive" /\ Tail(calls[c].on) \notin DataTopics
          => DOMAIN docs' = DOMAIN docs]_vars

\* The records that share an entry of the index.
RecordsOf(path) == {p[1] : p \in {p \in Twins : p[2] = path}}

\* When requests do not overlap and none is in progress, an entry of the index
\* has a record behind it, and it is there when all the records it may stand
\* for are: of a name that one group has, the data plane knows exactly what
\* is stored, whatever was created and deleted, in whatever order.
IndexAgrees ==
    mode = "serial" /\ (\A c \in Clients : ~Busy(c)) =>
       \A path \in Marks :
          /\ Has(path) => \E k \in RecordsOf(path) : Has(k)
          /\ (\A k \in RecordsOf(path) : Has(k)) => Has(path)

\* What dataplane_index.go says of the index, "maintained in parallel" with
\* the records it saves the data plane from walking: when requests do not
\* overlap, what is stored is served.  The deletion of a namesake in another
\* group breaks it: it unmarks the path of both.
IndexMissesNothing ==
    mode = "serial" /\ (\A c \in Clients : ~Busy(c)) =>
       \A p \in Twins : Has(p[1]) => Has(p[2])
=============================================================================
