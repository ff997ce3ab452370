------------------------- MODULE ServiceBus_proofs --------------------------
(***************************************************************************)
(* Theorems about ServiceBus, for any groups, namespaces, queues, topics,  *)
(* subscriptions, clients and bounds.                                      *)
(***************************************************************************)
EXTENDS ServiceBus, ArmStore_proofs

-----------------------------------------------------------------------------
(* The keys *)

\* The prefixes that messages are stored under: a queue's, and a
\* subscription's, whose name another namespace's topic may have given.
MessagePrefixes ==
    {MessagePrefixFor(q) : q \in DataQueues}
    \union {SubscriptionMessagePrefix(<<t[1], t[2], i[4]>>) : t \in DataTopics, i \in SubIds}

MessageKeys == {Append(p, n) : p \in MessagePrefixes, n \in Nat}

\* The keys of records and the prefixes of queues, spelled out.
LEMMA KeyForms ==
  /\ \A n \in Namespaces : SBNamespace(n) = <<"servicebus.namespaces", n[1], n[2]>>
  /\ \A q \in QueueIds : SBQueue(q) = <<"servicebus.queues", q[1], q[2], q[3]>>
  /\ \A q \in DataQueues : MessagePrefixFor(q) = <<"servicebus.messages", q[1], q[2]>>
  /\ \A t \in TopicIds : SBTopic(t) = <<"servicebus.topics", t[1], t[2], t[3]>>
  /\ \A i \in SubIds : SBSubscription(i) = <<"servicebus.subscriptions", i[1], i[2], i[3], i[4]>>
<1>1. ASSUME NEW b, NEW q, q = <<q[1], q[2]>> PROVE <<b>> \o q = <<b, q[1], q[2]>>
  <2>1. <<b>> \o <<q[1], q[2]>> = <<b, q[1], q[2]>>
    BY PrependedPair
  <2>2. QED
    BY <1>1, <2>1, Zenon
<1>2. ASSUME NEW b, NEW i, i = <<i[1], i[2], i[3]>> PROVE <<b>> \o i = <<b, i[1], i[2], i[3]>>
  <2>1. <<b>> \o <<i[1], i[2], i[3]>> = <<b, i[1], i[2], i[3]>>
    BY PrependedTriple
  <2>2. QED
    BY <1>2, <2>1, Zenon
<1>3. ASSUME NEW b, NEW i, i = <<i[1], i[2], i[3], i[4]>> PROVE <<b>> \o i = <<b, i[1], i[2], i[3], i[4]>>
  <2>1. <<b>> \o <<i[1], i[2], i[3], i[4]>> = <<b, i[1], i[2], i[3], i[4]>>
    BY PrependedQuadruple
  <2>2. QED
    BY <1>3, <2>1, Zenon
<1>4. \A q \in QueueIds : q = <<q[1], q[2], q[3]>>
  BY IdsAssumption, Zenon
<1>5. \A i \in SubIds : i = <<i[1], i[2], i[3], i[4]>>
  BY IdsAssumption, Zenon
<1>6. \A t \in TopicIds : t = <<t[1], t[2], t[3]>>
  BY DEF TopicIds
<1>7. \A n \in Namespaces : n = <<n[1], n[2]>>
  BY DEF Namespaces
<1>8. \A q \in DataQueues : q = <<q[1], q[2]>>
  BY DEF DataQueues
<1>9. \A n \in Namespaces : SBNamespace(n) = <<"servicebus.namespaces", n[1], n[2]>>
  BY <1>1, <1>7, Zenon DEF SBNamespace
<1>10. \A q \in QueueIds : SBQueue(q) = <<"servicebus.queues", q[1], q[2], q[3]>>
  BY <1>2, <1>4, Zenon DEF SBQueue
<1>11. \A q \in DataQueues : MessagePrefixFor(q) = <<"servicebus.messages", q[1], q[2]>>
  BY <1>1, <1>8, Zenon DEF MessagePrefixFor
<1>12. \A t \in TopicIds : SBTopic(t) = <<"servicebus.topics", t[1], t[2], t[3]>>
  BY <1>2, <1>6, Zenon DEF SBTopic
<1>13. \A i \in SubIds : SBSubscription(i) = <<"servicebus.subscriptions", i[1], i[2], i[3], i[4]>>
  BY <1>3, <1>5, Zenon DEF SBSubscription
<1>14. QED
  BY <1>9, <1>10, <1>11, <1>12, <1>13

\* The entries of the index that some records have, spelled out.
MarkForm(m) ==
    \/ \E q \in DataQueues : m = <<"servicebus.dataplane.entities", q[1], "queues", q[2]>>
    \/ \E t \in DataTopics : m = <<"servicebus.dataplane.entities", t[1], "topics", t[2]>>
    \/ \E i \in DataSubscriptions :
          m = <<"servicebus.dataplane.entities", i[1], i[2], "subscriptions", i[3]>>

LEMMA MarkForms == \A m \in Marks : MarkForm(m)
<1>1. \A a, b, c : Tail(<<a, b, c>>) = <<b, c>>
  OBVIOUS
<1>2. \A a, b, c, d : Tail(<<a, b, c, d>>) = <<b, c, d>>
  OBVIOUS
<1>3. ASSUME NEW q \in QueueIds PROVE Tail(q) = <<q[2], q[3]>>
  <2>1. PICK a, b, c : a = q[1] /\ b = q[2] /\ c = q[3]
    OBVIOUS
  <2>2. q = <<a, b, c>>
    BY <2>1, IdsAssumption
  <2>3. QED
    BY <1>1, <2>1, <2>2
<1>4. ASSUME NEW t \in TopicIds PROVE Tail(t) = <<t[2], t[3]>>
  <2>1. PICK a, b, c : t = <<a, b, c>>
    BY DEF TopicIds
  <2>2. QED
    BY <1>1, <2>1
<1>5. ASSUME NEW i \in SubIds PROVE Tail(i) = <<i[2], i[3], i[4]>>
  <2>1. PICK a, b, c, d : a = i[1] /\ b = i[2] /\ c = i[3] /\ d = i[4]
    OBVIOUS
  <2>2. i = <<a, b, c, d>>
    BY <2>1, IdsAssumption
  <2>3. QED
    BY <1>2, <2>1, <2>2
<1>6. \A q \in QueueIds : MarkForm(QueueEntityPath(Tail(q)))
  <2>1. \A q \in QueueIds : Tail(q) \in DataQueues
    BY <1>3 DEF DataQueues
  <2>2. QED
    BY <2>1 DEF MarkForm, QueueEntityPath
<1>7. \A t \in TopicIds : MarkForm(TopicEntityPath(Tail(t)))
  <2>1. \A t \in TopicIds : Tail(t) \in DataTopics
    BY <1>4 DEF DataTopics
  <2>2. QED
    BY <2>1 DEF MarkForm, TopicEntityPath
<1>8. \A i \in SubIds : MarkForm(SubscriptionEntityPath(Tail(i)))
  <2>1. \A i \in SubIds : Tail(i) \in DataSubscriptions
    BY <1>5 DEF DataSubscriptions
  <2>2. QED
    BY <2>1 DEF MarkForm, SubscriptionEntityPath
<1>9. ASSUME NEW p \in Twins PROVE MarkForm(p[2])
  <2>1. \/ \E q \in QueueIds : p[2] = QueueEntityPath(Tail(q))
        \/ \E t \in TopicIds : p[2] = TopicEntityPath(Tail(t))
        \/ \E i \in SubIds : p[2] = SubscriptionEntityPath(Tail(i))
    BY DEF Twins
  <2>2. QED
    BY <1>6, <1>7, <1>8, <2>1, Zenon
<1>10. QED
  BY <1>9 DEF Marks

\* The prefixes, spelled out.
QueuePrefix(p) == Len(p) = 3 /\ \E q \in DataQueues : p = <<"servicebus.messages", q[1], q[2]>>
SubscriptionPrefix(p) ==
    Len(p) = 5 /\ \E t \in DataTopics, i \in SubIds :
                     p = <<"servicebus.messages", t[1], t[2], "subscriptions", i[4]>>

LEMMA PrefixForms ==
  ASSUME NEW p \in MessagePrefixes
  PROVE  /\ p[1] = "servicebus.messages" /\ \E S : p \in Seq(S)
         /\ QueuePrefix(p) \/ SubscriptionPrefix(p)
<1>1. ASSUME NEW a, NEW b, p = <<"servicebus.messages", a, b>>
      PROVE  /\ p[1] = "servicebus.messages" /\ Len(p) = 3
             /\ p \in Seq({"servicebus.messages", a, b})
  BY <1>1
<1>2. ASSUME NEW a, NEW b, NEW s, p = <<"servicebus.messages", a, b, "subscriptions", s>>
      PROVE  /\ p[1] = "servicebus.messages" /\ Len(p) = 5
             /\ p \in Seq({"servicebus.messages", a, b, "subscriptions", s})
  BY <1>2
<1>3. \/ \E q \in DataQueues : p = <<"servicebus.messages", q[1], q[2]>>
      \/ \E t \in DataTopics, i \in SubIds : p = <<"servicebus.messages", t[1], t[2], "subscriptions", i[4]>>
  BY KeyForms DEF MessagePrefixes, SubscriptionMessagePrefix
<1>4. QED
  BY <1>1, <1>2, <1>3 DEF QueuePrefix, SubscriptionPrefix

\* Adding an id to a prefix, and taking it off.
LEMMA MessageKeyForms ==
  ASSUME NEW p \in MessagePrefixes, NEW n \in Nat
  PROVE  /\ \E S : Append(p, n) \in Seq(S)
         /\ Append(p, n)[1] = "servicebus.messages"
         /\ Len(Append(p, n)) = Len(p) + 1
         /\ Last(Append(p, n)) = n
         /\ Front(Append(p, n)) = p
         /\ \A j \in 1..Len(p) : Append(p, n)[j] = p[j]
<1>1. PICK S : p \in Seq(S)
  BY PrefixForms
<1>2. /\ Append(p, n) \in Seq(S \union {n})
      /\ Len(Append(p, n)) = Len(p) + 1
      /\ \A j \in 1..Len(p) : Append(p, n)[j] = p[j]
      /\ Last(Append(p, n)) = n
      /\ Front(Append(p, n)) = p
  <2>1. Append(p, n) \in Seq(S \union {n}) /\ Len(Append(p, n)) = Len(p) + 1
    BY <1>1, Appended
  <2>2. \A j \in 1..Len(p) : Append(p, n)[j] = p[j]
    BY <1>1, Appended
  <2>3. Last(Append(p, n)) = n
    BY <1>1, <2>1, Appended DEF Last
  <2>4. Front(Append(p, n)) = p
    BY <1>1, Appended, Zenon
  <2>5. QED
    BY <2>1, <2>2, <2>3, <2>4
<1>3. 1 \in 1..Len(p) /\ p[1] = "servicebus.messages"
  BY PrefixForms DEF QueuePrefix, SubscriptionPrefix
<1>4. QED
  BY <1>2, <1>3

Keys == Records \union Marks \union MessageKeys

\* Records, index entries and messages are kept apart; a record has one entry
\* in the index, which other records may share.
LEMMA KeysApart ==
  /\ Records \intersect Marks = {} /\ Records \intersect MessageKeys = {} /\ Marks \intersect MessageKeys = {}
  /\ \A n \in Namespaces, p \in Twins : SBNamespace(n) # p[1] /\ SBNamespace(n) # p[2]
  /\ \A p \in Twins : p[1] \in Records /\ p[2] \in Marks
  /\ \A p, r \in Twins : p[1] = r[1] => p[2] = r[2]
<1>1. ASSUME NEW k \in MessageKeys PROVE k[1] = "servicebus.messages"
  <2>1. PICK p \in MessagePrefixes, n \in Nat : k = Append(p, n)
    BY DEF MessageKeys
  <2>2. QED
    BY <2>1, MessageKeyForms
<1>2. \A k \in Records : k[1] \in {"servicebus.namespaces", "servicebus.queues", "servicebus.topics",
                                   "servicebus.subscriptions"}
  BY KeyForms DEF Records
<1>3. \A k \in Marks : k[1] = "servicebus.dataplane.entities"
  BY MarkForms DEF MarkForm
<1>4. \A p \in Twins : p[1] \in Records /\ p[2] \in Marks
  <2>1. \A p \in Twins : p[1] \in Records
    BY DEF Twins, Records
  <2>2. QED
    BY <2>1 DEF Marks
<1>5. \A n \in Namespaces, p \in Twins : SBNamespace(n) # p[1] /\ SBNamespace(n) # p[2]
  <2>1. \A n \in Namespaces : SBNamespace(n)[1] = "servicebus.namespaces"
    BY KeyForms
  <2>2. \A p \in Twins : p[1][1] # "servicebus.namespaces"
    BY KeyForms DEF Twins
  <2>3. QED
    BY <1>3, <1>4, <2>1, <2>2
<1>6. \A p, r \in Twins : p[1] = r[1] => p[2] = r[2]
  <2>1. \A q, r \in QueueIds : SBQueue(q) = SBQueue(r) => q = r
    <3>1. \A q, r \in QueueIds : SBQueue(q) = SBQueue(r) => q[1] = r[1] /\ q[2] = r[2] /\ q[3] = r[3]
      BY KeyForms
    <3>2. QED
      BY <3>1, IdsAssumption, Zenon
  <2>2. \A q, r \in TopicIds : SBTopic(q) = SBTopic(r) => q = r
    <3>1. \A q, r \in TopicIds : SBTopic(q) = SBTopic(r) => q[1] = r[1] /\ q[2] = r[2] /\ q[3] = r[3]
      BY KeyForms
    <3>2. \A t \in TopicIds : t = <<t[1], t[2], t[3]>>
      BY DEF TopicIds
    <3>3. QED
      BY <3>1, <3>2, Zenon
  <2>3. \A q, r \in SubIds : SBSubscription(q) = SBSubscription(r) => q = r
    <3>1. \A q, r \in SubIds : SBSubscription(q) = SBSubscription(r)
                                  => q[1] = r[1] /\ q[2] = r[2] /\ q[3] = r[3] /\ q[4] = r[4]
      BY KeyForms
    <3>2. ASSUME NEW q \in SubIds, NEW r \in SubIds, SBSubscription(q) = SBSubscription(r)
          PROVE  q = r
      <4>1. q = <<q[1], q[2], q[3], q[4]>> /\ r = <<r[1], r[2], r[3], r[4]>>
        BY IdsAssumption, Zenon
      <4>2. <<q[1], q[2], q[3], q[4]>> = <<r[1], r[2], r[3], r[4]>>
        BY <3>1, <3>2
      <4>3. QED
        BY <4>1, <4>2, Zenon
    <3>3. QED
      BY <3>2
  <2>4. /\ \A q \in QueueIds, t \in TopicIds : SBQueue(q) # SBTopic(t)
        /\ \A q \in QueueIds, i \in SubIds : SBQueue(q) # SBSubscription(i)
        /\ \A t \in TopicIds, i \in SubIds : SBTopic(t) # SBSubscription(i)
    BY KeyForms
  <2>5. QED
    BY <2>1, <2>2, <2>3, <2>4 DEF Twins
<1>7. QED
  BY <1>1, <1>2, <1>3, <1>4, <1>5, <1>6

\* Every key has a bucket and a name below it.
LEMMA KeysAreSequences ==
  \A k \in Keys : Len(k) \in Nat /\ Len(k) > 1 /\ \E S : k \in Seq(S)
<1>2. ASSUME NEW k, \E a, b, c : k = <<a, b, c>> PROVE Len(k) \in Nat /\ Len(k) > 1 /\ \E S : k \in Seq(S)
  <2>1. PICK a, b, c : k = <<a, b, c>>
    BY <1>2
  <2>2. Len(k) = 3 /\ k \in Seq({a, b, c})
    BY <2>1
  <2>3. QED
    BY <2>2
<1>3. ASSUME NEW k, \E a, b, c, d : k = <<a, b, c, d>> PROVE Len(k) \in Nat /\ Len(k) > 1 /\ \E S : k \in Seq(S)
  <2>1. PICK a, b, c, d : k = <<a, b, c, d>>
    BY <1>3
  <2>2. Len(k) = 4 /\ k \in Seq({a, b, c, d})
    BY <2>1
  <2>3. QED
    BY <2>2
<1>4. ASSUME NEW k, \E a, b, c, d, e : k = <<a, b, c, d, e>> PROVE Len(k) \in Nat /\ Len(k) > 1 /\ \E S : k \in Seq(S)
  <2>1. PICK a, b, c, d, e : k = <<a, b, c, d, e>>
    BY <1>4
  <2>2. Len(k) = 5 /\ k \in Seq({a, b, c, d, e})
    BY <2>1
  <2>3. QED
    BY <2>2
<1>5. ASSUME NEW k \in Records PROVE Len(k) \in Nat /\ Len(k) > 1 /\ \E S : k \in Seq(S)
  <2>1. \/ \E a, b, c : k = <<a, b, c>>
        \/ \E a, b, c, d : k = <<a, b, c, d>>
        \/ \E a, b, c, d, e : k = <<a, b, c, d, e>>
    BY KeyForms DEF Records
  <2>2. QED
    BY <1>2, <1>3, <1>4, <2>1, Zenon
<1>6. ASSUME NEW k \in Marks PROVE Len(k) \in Nat /\ Len(k) > 1 /\ \E S : k \in Seq(S)
  <2>1. (\E a, b, c, d : k = <<a, b, c, d>>) \/ (\E a, b, c, d, e : k = <<a, b, c, d, e>>)
    BY MarkForms DEF MarkForm
  <2>2. QED
    BY <1>3, <1>4, <2>1, Zenon
<1>7. ASSUME NEW k \in MessageKeys PROVE Len(k) \in Nat /\ Len(k) > 1 /\ \E S : k \in Seq(S)
  <2>1. PICK p \in MessagePrefixes, n \in Nat : k = Append(p, n)
    BY DEF MessageKeys
  <2>2. (\E S : Append(p, n) \in Seq(S)) /\ (Len(p) = 3 \/ Len(p) = 5) /\ Len(Append(p, n)) = Len(p) + 1
    BY MessageKeyForms, PrefixForms DEF QueuePrefix, SubscriptionPrefix
  <2>3. QED
    BY <2>1, <2>2
<1>8. QED
  BY <1>5, <1>6, <1>7 DEF Keys

\* A bucket has the keys that begin with its name.
LEMMA BucketKeys ==
  ASSUME DOMAIN docs \subseteq Keys, NEW b
  PROVE  InBucket(b) = {k \in DOMAIN docs : k[1] = b}
<1>1. ASSUME NEW k \in Keys PROVE IsStrictPrefix(<<b>>, k) <=> k[1] = b
  <2>1. PICK S : k \in Seq(S)
    BY KeysAreSequences
  <2>2. k \in Seq(S \union {b}) /\ <<b>> \in Seq(S \union {b}) /\ Len(<<b>>) = 1 /\ <<b>>[1] = b
    BY <2>1
  <2>3. Len(k) \in Nat /\ Len(k) > 1
    BY KeysAreSequences
  <2>4. IsStrictPrefix(<<b>>, k) <=> Len(<<b>>) < Len(k) /\ \A j \in 1..Len(<<b>>) : k[j] = <<b>>[j]
    BY <2>2, PrefixByNames
  <2>5. QED
    BY <2>2, <2>3, <2>4
<1>2. QED
  BY <1>1 DEF InBucket, Under

-----------------------------------------------------------------------------
(* Types *)

Succeeded == [state |-> "Succeeded"]

Message == [locked : BOOLEAN, token : Nat, deliveryCount : Nat]

\* The documents that may be stored under a key.
DocumentsOf(k) ==
    IF k \in Records THEN {Succeeded} ELSE IF k \in Marks THEN {TRUE} ELSE Message

\* The writes of a handler: there are no sweeps here.
Entries == {Drop(k) : k \in Keys} \union UNION {{Store(k, d) : d \in DocumentsOf(k)} : k \in Keys}
MessageEntries == {e \in Entries : e.key \in MessageKeys}

MessagingVerbs == {"send", "publish", "receive", "complete"}

First == CHOOSE c \in Clients : TRUE

\* The calls are those of the clients, one after the other unless requests
\* overlap; the database is finite, and has a document of its kind under
\* every key.
TypeInv ==
    /\ mode \in Modes
    /\ drawn \in Nat
    /\ Calls
    /\ \A w \in Workers : calls[w].todo \in Seq(Entries)
    /\ \A w \in Workers : ~Busy(w) => calls[w] = Idle
    /\ \A w \in Workers : Busy(w) => w \in Clients /\ (mode # "concurrent" => w = First)
    /\ IsFiniteSet(DOMAIN docs)
    /\ DOMAIN docs \subseteq Keys
    /\ \A k \in DOMAIN docs : docs[k] \in DocumentsOf(k)

-----------------------------------------------------------------------------
(* Requests *)

\* A request of the control plane: of a namespace, which has no entry in the
\* index, or of a record that has one.
Controlling(c) ==
    \/ \E n \in Namespaces :
          \/ Begin(c, "put", SBNamespace(n), <<Store(SBNamespace(n), Succeeded)>>)
          \/ Begin(c, "delete", SBNamespace(n), <<Drop(SBNamespace(n))>>)
    \/ \E p \in Twins :
          \/ Begin(c, "put", p[1], <<Store(p[1], Succeeded), Store(p[2], TRUE)>>)
          \/ Begin(c, "delete", p[1], <<Drop(p[1]), Drop(p[2])>>)

LEMMA ControlSteps ==
  ASSUME NEW c, Control(c)
  PROVE  Controlling(c) /\ drawn' = drawn
<1>1. ASSUME NEW n \in Namespaces, PutNamespace(c, n) \/ DeleteNamespace(c, n) PROVE Controlling(c)
  BY <1>1 DEF PutNamespace, DeleteNamespace, Putting, Deleting, Controlling, Succeeded
<1>2. ASSUME NEW p \in Twins, PutMarked(c, p[1], p[2]) \/ DeleteMarked(c, p[1], p[2]) PROVE Controlling(c)
  BY <1>2 DEF PutMarked, DeleteMarked, Controlling, Succeeded
<1>3. ASSUME NEW q \in QueueIds, PutQueue(c, q) \/ DeleteQueue(c, q) PROVE Controlling(c)
  <2>1. PICK p : p = <<SBQueue(q), QueueEntityPath(Tail(q))>>
    OBVIOUS
  <2>2. p \in Twins /\ p[1] = SBQueue(q) /\ p[2] = QueueEntityPath(Tail(q))
    BY <2>1 DEF Twins
  <2>3. QED
    BY <1>2, <1>3, <2>2 DEF PutQueue, DeleteQueue
<1>4. ASSUME NEW t \in TopicIds, PutTopic(c, t) \/ DeleteTopic(c, t) PROVE Controlling(c)
  <2>1. PICK p : p = <<SBTopic(t), TopicEntityPath(Tail(t))>>
    OBVIOUS
  <2>2. p \in Twins /\ p[1] = SBTopic(t) /\ p[2] = TopicEntityPath(Tail(t))
    BY <2>1 DEF Twins
  <2>3. QED
    BY <1>2, <1>4, <2>2 DEF PutTopic, DeleteTopic
<1>5. ASSUME NEW i \in SubIds, PutSubscription(c, i) \/ DeleteSubscription(c, i) PROVE Controlling(c)
  <2>1. PICK p : p = <<SBSubscription(i), SubscriptionEntityPath(Tail(i))>>
    OBVIOUS
  <2>2. p \in Twins /\ p[1] = SBSubscription(i) /\ p[2] = SubscriptionEntityPath(Tail(i))
    BY <2>1 DEF Twins
  <2>3. QED
    BY <1>2, <1>5, <2>2 DEF PutSubscription, DeleteSubscription
<1>6. QED
  BY <1>1, <1>3, <1>4, <1>5 DEF Control

\* The writes of a request of the control plane are entries.
LEMMA RecordEntries ==
  /\ \A k \in Records : Store(k, Succeeded) \in Entries /\ Drop(k) \in Entries
  /\ \A k \in Marks : Store(k, TRUE) \in Entries /\ Drop(k) \in Entries
  /\ \A k \in MessageKeys, d \in Message : Store(k, d) \in MessageEntries /\ Drop(k) \in MessageEntries
<1>1. ASSUME NEW k \in Keys, NEW d \in DocumentsOf(k) PROVE Store(k, d) \in Entries /\ Store(k, d).key = k
  <2>1. Store(k, d).key = k
    BY DEF Store
  <2>2. Store(k, d) \in Entries
    BY DEF Entries
  <2>3. QED
    BY <2>1, <2>2
<1>2. ASSUME NEW k \in Keys PROVE Drop(k) \in Entries /\ Drop(k).key = k
  BY DEF Entries, Drop
<1>3. ASSUME NEW k \in Records PROVE Store(k, Succeeded) \in Entries /\ Drop(k) \in Entries
  BY <1>1, <1>2 DEF Keys, DocumentsOf
<1>4. ASSUME NEW k \in Marks PROVE Store(k, TRUE) \in Entries /\ Drop(k) \in Entries
  BY <1>1, <1>2, KeysApart DEF Keys, DocumentsOf
<1>5. ASSUME NEW k \in MessageKeys, NEW d \in Message PROVE Store(k, d) \in MessageEntries /\ Drop(k) \in MessageEntries
  BY <1>1, <1>2, KeysApart DEF Keys, DocumentsOf, MessageEntries
<1>6. QED
  BY <1>3, <1>4, <1>5

\* What an entry does to the database.
LEMMA EntryForms ==
  ASSUME NEW e \in Entries
  PROVE  /\ e.key \in Keys
         /\ \/ e.do = "put" /\ e.doc \in DocumentsOf(e.key)
            \/ e.do = "delete"
BY DEF Entries, Store, Drop

\* What is asked of the writes of a topic's message, and of a receive.
Copied(t, copies) ==
    /\ Len(copies) = Cardinality(SubscriptionsOf(t[2]))
    /\ {Front(copies[i].key) : i \in DOMAIN copies}
          = {SubscriptionMessagePrefix(<<t[1], t[2], k[5]>>) : k \in SubscriptionsOf(t[2])}
Marking(prefix, todo) ==
    Tail(prefix) \notin DataTopics => \A i \in DOMAIN todo : todo[i].do = "put" /\ Has(todo[i].key)

Serving(c) ==
    \E on : \E verb \in MessagingVerbs, todo \in Seq(MessageEntries) :
       /\ Begin(c, verb, on, todo)
       /\ todo # <<>>
       /\ verb = "publish" => Copied(on, todo)
       /\ verb = "receive" => Marking(on, todo)

LEMMA NewMessageEntries ==
  ASSUME NEW p \in MessagePrefixes, NEW n \in Nat
  PROVE  /\ StoreMessage(p, n) \in MessageEntries
         /\ Front(StoreMessage(p, n).key) = p
<1>1. NewMessage \in Message
  BY DEF NewMessage, Message
<1>2. Append(p, n) \in MessageKeys
  BY DEF MessageKeys
<1>3. Store(Append(p, n), NewMessage) \in MessageEntries /\ Store(Append(p, n), NewMessage).key = Append(p, n)
  BY <1>1, <1>2, RecordEntries DEF Store
<1>4. QED
  BY <1>3, MessageKeyForms DEF StoreMessage

LEMMA SendSteps ==
  ASSUME TypeInv, NEW c, NEW q \in DataQueues, SendMessage(c, q)
  PROVE  Serving(c) /\ drawn' \in Nat
<1>1. PICK todo : todo = <<StoreMessage(MessagePrefixFor(q), drawn + 1)>>
  OBVIOUS
<1>2. StoreMessage(MessagePrefixFor(q), drawn + 1) \in MessageEntries
  BY NewMessageEntries DEF TypeInv, MessagePrefixes
<1>3. todo \in Seq(MessageEntries) /\ todo # <<>>
  BY <1>1, <1>2
<1>4. Begin(c, "send", q, todo)
  BY <1>1 DEF SendMessage
<1>5. drawn' \in Nat
  BY DEF TypeInv, SendMessage, Draw
<1>6. "send" \in MessagingVerbs /\ "send" # "publish" /\ "send" # "receive"
  BY DEF MessagingVerbs
<1>7. QED
  BY <1>3, <1>4, <1>5, <1>6, Zenon DEF Serving

\* The subscriptions that a topic's message goes to.
LEMMA SubscriptionsFound ==
  ASSUME TypeInv, NEW topic
  PROVE  /\ IsFiniteSet(SubscriptionsOf(topic))
         /\ \A k \in SubscriptionsOf(topic) : \E i \in SubIds :
               k = <<"servicebus.subscriptions", i[1], i[2], i[3], i[4]>> /\ k[5] = i[4]
<1>1. SubscriptionsOf(topic) \subseteq DOMAIN docs
  BY DEF SubscriptionsOf, InBucket, Under
<1>2. IsFiniteSet(SubscriptionsOf(topic))
  BY <1>1, FS_Subset DEF TypeInv
<1>3. \A k \in SubscriptionsOf(topic) : k \in Keys /\ k[1] = "servicebus.subscriptions"
  BY BucketKeys DEF SubscriptionsOf, TypeInv
<1>4. ASSUME NEW k \in Keys, k[1] = "servicebus.subscriptions"
      PROVE  \E i \in SubIds : k = <<"servicebus.subscriptions", i[1], i[2], i[3], i[4]>> /\ k[5] = i[4]
  <2>1. k \notin MessageKeys
    <3>1. ASSUME NEW p \in MessagePrefixes, NEW n \in Nat, k = Append(p, n) PROVE FALSE
      BY <1>4, <3>1, MessageKeyForms
    <3>2. QED
      BY <3>1 DEF MessageKeys
  <2>2. k \notin Marks
    BY <1>4, MarkForms DEF MarkForm
  <2>3. k \in Records
    BY <2>1, <2>2 DEF Keys
  <2>4. QED
    BY <1>4, <2>3, KeyForms DEF Records
<1>5. QED
  BY <1>2, <1>3, <1>4

LEMMA PublishSteps ==
  ASSUME TypeInv, NEW c, NEW t \in DataTopics, SendToTopic(c, t)
  PROVE  Serving(c) /\ drawn' \in Nat
<1>1. PICK found : found = SubscriptionsOf(t[2])
  OBVIOUS
<1>2. PICK subs : subs = SetToSeq(found)
  OBVIOUS
<1>3. PICK n : n = Cardinality(found)
  OBVIOUS
<1>4. /\ n \in Nat /\ Len(subs) = n /\ DOMAIN subs = 1..n
      /\ \A i \in 1..n : subs[i] \in found
      /\ \A k \in found : \E i \in 1..n : subs[i] = k
  BY <1>1, <1>2, <1>3, SubscriptionsFound, SetToSeqIsEnumeration
<1>5. PICK todo : todo = [i \in DOMAIN subs |->
                             StoreMessage(SubscriptionMessagePrefix(<<t[1], t[2], subs[i][5]>>), drawn + i)]
  OBVIOUS
<1>6. Begin(c, "publish", t, todo) /\ drawn' = drawn + Len(subs) /\ subs # <<>>
  BY <1>1, <1>2, <1>5 DEF SendToTopic, Draw
<1>7. \A k \in found : SubscriptionMessagePrefix(<<t[1], t[2], k[5]>>) \in MessagePrefixes
  BY <1>1, SubscriptionsFound DEF MessagePrefixes
<1>8. \A i \in 1..n : /\ todo[i] \in MessageEntries
                      /\ Front(todo[i].key) = SubscriptionMessagePrefix(<<t[1], t[2], subs[i][5]>>)
  <2> TAKE i \in 1..n
  <2>1. drawn + i \in Nat
    BY <1>4 DEF TypeInv
  <2>2. todo[i] = StoreMessage(SubscriptionMessagePrefix(<<t[1], t[2], subs[i][5]>>), drawn + i)
    BY <1>4, <1>5
  <2>3. SubscriptionMessagePrefix(<<t[1], t[2], subs[i][5]>>) \in MessagePrefixes
    BY <1>4, <1>7
  <2>4. QED
    BY <2>1, <2>2, <2>3, NewMessageEntries
<1>9. todo \in Seq(MessageEntries) /\ Len(todo) = n /\ DOMAIN todo = 1..n
  BY <1>4, <1>5, <1>8
<1>10. n # 0
  BY <1>2, <1>4, <1>6, EmptySeq
<1>11. todo # <<>>
  BY <1>9, <1>10
<1>12. {Front(todo[i].key) : i \in 1..n} = {SubscriptionMessagePrefix(<<t[1], t[2], k[5]>>) : k \in found}
  <2>1. PICK f : f = [k \in found |-> SubscriptionMessagePrefix(<<t[1], t[2], k[5]>>)]
    OBVIOUS
  <2>2. \A k \in found : f[k] = SubscriptionMessagePrefix(<<t[1], t[2], k[5]>>)
    BY <2>1
  <2>3. \A i \in 1..n : subs[i] \in found /\ Front(todo[i].key) = f[subs[i]]
    BY <1>4, <1>8, <2>2
  <2>4. {Front(todo[i].key) : i \in 1..n} = {f[k] : k \in found}
    BY <1>4, <2>3
  <2>5. QED
    BY <2>2, <2>4
<1>13. Copied(t, todo)
  BY <1>1, <1>3, <1>9, <1>12 DEF Copied
<1>14. drawn' \in Nat
  BY <1>4, <1>6 DEF TypeInv
<1>15. "publish" \in MessagingVerbs /\ "publish" # "receive"
  BY DEF MessagingVerbs
<1>16. QED
  BY <1>6, <1>9, <1>11, <1>13, <1>14, <1>15, Zenon DEF Serving

\* A message under a prefix is under no other, except that the messages of a
\* topic's subscriptions are also under the prefix of a queue of its name.
LEMMA MessagesUnder ==
  ASSUME TypeInv, NEW p \in MessagePrefixes, NEW k \in Under(p)
  PROVE  /\ k \in MessageKeys /\ Last(k) \in Nat
         /\ Append(p, Last(k)) \in MessageKeys
         /\ Tail(p) \notin DataTopics => Append(p, Last(k)) = k
<1>1. k \in DOMAIN docs /\ IsStrictPrefix(p, k) /\ k \in Keys
  BY DEF Under, TypeInv
<1>2. PICK S : p \in Seq(S)
  BY PrefixForms
<1>3. PICK T : k \in Seq(T)
  BY <1>1, KeysAreSequences
<1>4. p \in Seq(S \union T) /\ k \in Seq(S \union T)
  BY <1>2, <1>3
<1>5. Len(p) < Len(k) /\ \A j \in 1..Len(p) : k[j] = p[j]
  BY <1>1, <1>4, PrefixByNames
<1>6. (Len(p) = 3 \/ Len(p) = 5) /\ p[1] = "servicebus.messages"
  BY PrefixForms DEF QueuePrefix, SubscriptionPrefix
<1>7. k[1] = "servicebus.messages" /\ k[2] = p[2] /\ k[3] = p[3] /\ Len(k) > 3
  BY <1>4, <1>5, <1>6
<1>8. k \in MessageKeys
  <2>1. k \notin Records
    BY <1>7, KeyForms DEF Records
  <2>2. k \notin Marks
    BY <1>7, MarkForms DEF MarkForm
  <2>3. QED
    BY <1>1, <2>1, <2>2 DEF Keys
<1>9. PICK r \in MessagePrefixes, n \in Nat : k = Append(r, n)
  BY <1>8 DEF MessageKeys
<1>10. /\ Last(k) = n /\ Len(k) = Len(r) + 1 /\ (Len(r) = 3 \/ Len(r) = 5)
       /\ \A j \in 1..Len(r) : k[j] = r[j]
  BY <1>9, MessageKeyForms, PrefixForms DEF QueuePrefix, SubscriptionPrefix
<1>11. Append(p, n) \in MessageKeys
  BY DEF MessageKeys
<1>12. ASSUME Len(p) = Len(r) PROVE Append(p, n) = k
  <2>1. PICK R : r \in Seq(R)
    BY PrefixForms
  <2>2. p \in Seq(S \union R) /\ r \in Seq(S \union R)
    BY <1>2, <2>1
  <2>3. \A j \in 1..Len(p) : p[j] = r[j]
    BY <1>5, <1>10, <1>12
  <2>4. p = r
    BY <1>12, <2>2, <2>3, SeqEqual
  <2>5. QED
    BY <1>9, <2>4
<1>13. ASSUME Len(p) # Len(r) PROVE Tail(p) \in DataTopics
  <2>1. Len(p) = 3 /\ Len(r) = 5
    <3>1. PICK m, l : m = Len(p) /\ l = Len(r)
      OBVIOUS
    <3>2. m < l + 1 /\ m # l /\ (m = 3 \/ m = 5) /\ (l = 3 \/ l = 5)
      BY <1>5, <1>6, <1>10, <1>13, <3>1
    <3>3. m = 3 /\ l = 5
      BY <3>2
    <3>4. QED
      BY <3>1, <3>3
  <2>2. PICK t \in DataTopics, i \in SubIds : r = <<"servicebus.messages", t[1], t[2], "subscriptions", i[4]>>
    <3>1. Len(r) # 3
      BY <2>1
    <3>2. QueuePrefix(r) \/ SubscriptionPrefix(r)
      BY PrefixForms
    <3>3. SubscriptionPrefix(r)
      BY <3>1, <3>2, Zenon DEF QueuePrefix
    <3>4. QED
      BY <3>3 DEF SubscriptionPrefix
  <2>3. k[2] = t[1] /\ k[3] = t[2]
    BY <1>10, <2>1, <2>2
  <2>4. PICK q \in DataQueues : p = <<"servicebus.messages", q[1], q[2]>>
    <3>1. Len(p) # 5
      BY <2>1
    <3>2. QueuePrefix(p) \/ SubscriptionPrefix(p)
      BY PrefixForms
    <3>3. QueuePrefix(p)
      BY <3>1, <3>2, Zenon DEF SubscriptionPrefix
    <3>4. QED
      BY <3>3 DEF QueuePrefix
  <2>5. Tail(p) = <<t[1], t[2]>>
    <3>1. q[1] = t[1] /\ q[2] = t[2]
      BY <1>7, <2>3, <2>4
    <3>2. Tail(<<"servicebus.messages", t[1], t[2]>>) = <<t[1], t[2]>>
      OBVIOUS
    <3>3. QED
      BY <2>4, <3>1, <3>2, Zenon
  <2>6. t = <<t[1], t[2]>>
    BY DEF DataTopics
  <2>7. QED
    BY <2>5, <2>6, Zenon
<1>14. QED
  BY <1>8, <1>10, <1>11, <1>12, <1>13

LEMMA SourcesArePrefixes == Sources \subseteq MessagePrefixes
<1>1. ASSUME NEW i \in DataSubscriptions PROVE SubscriptionMessagePrefix(i) \in MessagePrefixes
  <2>1. PICK j \in SubIds : i = <<j[2], j[3], j[4]>>
    BY DEF DataSubscriptions
  <2>2. PICK u, t : u = <<j[1], j[2], j[3]>> /\ t = <<j[2], j[3]>>
    OBVIOUS
  <2>3. u \in TopicIds /\ t = <<u[2], u[3]>>
    BY <2>2 DEF TopicIds
  <2>4. t \in DataTopics
    BY <2>3 DEF DataTopics
  <2>5. SubscriptionMessagePrefix(<<t[1], t[2], j[4]>>) = SubscriptionMessagePrefix(i)
    BY <2>1, <2>2 DEF SubscriptionMessagePrefix
  <2>6. QED
    BY <2>4, <2>5 DEF MessagePrefixes
<1>2. QED
  BY <1>1 DEF Sources, MessagePrefixes

\* The message stored under a key.
LEMMA StoredMessage ==
  ASSUME TypeInv, NEW k \in DOMAIN docs, k \in MessageKeys
  PROVE  docs[k] \in Message
BY KeysApart DEF TypeInv, DocumentsOf

LEMMA ReceiveSteps ==
  ASSUME TypeInv, NEW c, NEW p \in MessagePrefixes, NEW n \in Nat, NEW lasts \in BOOLEAN,
         ReceiveMessages(c, p, n, lasts)
  PROVE  Serving(c) /\ drawn' \in Nat
<1>1. PICK chosen, ms, todo :
         /\ chosen # {} /\ chosen \subseteq Under(p) /\ ms = SetToSeq(chosen)
         /\ todo = [i \in DOMAIN ms |->
                      Store(Append(p, Last(ms[i])),
                            [locked |-> lasts, token |-> drawn + i,
                             deliveryCount |-> docs[ms[i]].deliveryCount + 1])]
         /\ drawn' = drawn + Len(ms)
         /\ Begin(c, "receive", p, todo)
  BY DEF ReceiveMessages, Draw
<1>2. IsFiniteSet(chosen) /\ chosen \subseteq DOMAIN docs
  BY <1>1, FS_Subset DEF Under, TypeInv
<1>3. PICK m : m = Cardinality(chosen)
  OBVIOUS
<1>4. m \in Nat /\ Len(ms) = m /\ DOMAIN ms = 1..m /\ \A i \in 1..m : ms[i] \in chosen
  BY <1>1, <1>2, <1>3, SetToSeqIsEnumeration
<1>5. m # 0
  BY <1>1, <1>2, <1>3, FS_EmptySet
<1>6. ASSUME NEW i \in 1..m
      PROVE  /\ todo[i] \in MessageEntries
             /\ todo[i].do = "put" /\ todo[i].key = Append(p, Last(ms[i]))
             /\ Tail(p) \notin DataTopics => todo[i].key = ms[i]
  <2>1. PICK k, d : /\ k = ms[i] /\ d = [locked |-> lasts, token |-> drawn + i,
                                         deliveryCount |-> docs[ms[i]].deliveryCount + 1]
    OBVIOUS
  <2>2. k \in Under(p) /\ k \in DOMAIN docs
    BY <1>1, <1>2, <1>4, <2>1
  <2>3. /\ k \in MessageKeys /\ Append(p, Last(k)) \in MessageKeys
        /\ Tail(p) \notin DataTopics => Append(p, Last(k)) = k
    BY <2>2, MessagesUnder
  <2>4. docs[k].deliveryCount \in Nat
    BY <2>2, <2>3, StoredMessage DEF Message
  <2>5. drawn + i \in Nat
    BY <1>4 DEF TypeInv
  <2>6. d \in Message
    BY <2>1, <2>4, <2>5 DEF Message
  <2>7. todo[i] = Store(Append(p, Last(k)), d)
    BY <1>1, <1>4, <2>1
  <2>8. Store(Append(p, Last(k)), d) \in MessageEntries
    BY <2>3, <2>6, RecordEntries
  <2>9. Store(Append(p, Last(k)), d).do = "put" /\ Store(Append(p, Last(k)), d).key = Append(p, Last(k))
    BY DEF Store
  <2>10. QED
    BY <2>1, <2>3, <2>7, <2>8, <2>9
<1>7. todo \in Seq(MessageEntries) /\ Len(todo) = m /\ DOMAIN todo = 1..m
  <2>1. \A i \in 1..m : todo[i] \in MessageEntries
    BY <1>6
  <2>2. DOMAIN todo = 1..m /\ todo = [i \in 1..m |-> todo[i]]
    BY <1>1, <1>4
  <2>3. QED
    BY <1>4, <2>1, <2>2
<1>8. todo # <<>>
  BY <1>5, <1>7
<1>9. Marking(p, todo)
  BY <1>2, <1>4, <1>6, <1>7 DEF Marking, Has
<1>10. drawn' \in Nat
  BY <1>1, <1>4 DEF TypeInv
<1>11. "receive" \in MessagingVerbs /\ "receive" # "publish"
  BY DEF MessagingVerbs
<1>12. QED
  BY <1>1, <1>7, <1>8, <1>9, <1>10, <1>11, Zenon DEF Serving

LEMMA CompleteSteps ==
  ASSUME TypeInv, NEW c, NEW p \in MessagePrefixes, NEW id \in Nat, NEW token,
         CompleteMessage(c, p, id, token)
  PROVE  Serving(c) /\ drawn' \in Nat
<1>1. PICK k, todo : k = Append(p, id) /\ todo = <<Drop(k)>>
  OBVIOUS
<1>2. k \in MessageKeys
  BY <1>1 DEF MessageKeys
<1>3. NewMessage \in Message
  BY DEF NewMessage, Message
<1>4. Drop(k) \in MessageEntries
  BY <1>2, <1>3, RecordEntries
<1>5. todo \in Seq(MessageEntries) /\ todo # <<>>
  BY <1>1, <1>4
<1>6. Begin(c, "complete", k, todo) /\ drawn' \in Nat
  BY <1>1 DEF CompleteMessage, TypeInv
<1>7. "complete" \in MessagingVerbs /\ "complete" # "publish" /\ "complete" # "receive"
  BY DEF MessagingVerbs
<1>8. QED
  BY <1>5, <1>6, <1>7, Zenon DEF Serving

LEMMA MessagingSteps ==
  ASSUME TypeInv, NEW c, Messaging(c)
  PROVE  Serving(c) /\ drawn' \in Nat
<1>1. MessagePrefixes = MessagePrefixes /\ \A n \in 1..2 : n \in Nat
  OBVIOUS
<1>2. \A n \in 1..drawn : n \in Nat
  BY DEF TypeInv
<1>3. QED
  BY <1>1, <1>2, SendSteps, PublishSteps, ReceiveSteps, CompleteSteps, SourcesArePrefixes DEF Messaging

\* Every step is a request, a write, the end of the process, or the end of a
\* lock.
LEMMA StepForms ==
  ASSUME TypeInv, [Next]_vars
  PROVE  \/ \E c \in Clients : (Controlling(c) \/ Serving(c)) /\ drawn' \in Nat
         \/ \E w \in Workers : Write(w) /\ drawn' = drawn
         \/ Crash /\ drawn' = drawn
         \/ \E k \in DOMAIN docs \intersect MessageKeys : Expire(k)
         \/ UNCHANGED vars
<1>1. ASSUME NEW c \in Clients, Control(c) PROVE Controlling(c) /\ drawn' \in Nat
  BY <1>1, ControlSteps DEF TypeInv
<1>2. ASSUME NEW c \in Clients, Messaging(c) PROVE Serving(c) /\ drawn' \in Nat
  BY <1>2, MessagingSteps
<1>3. ASSUME NEW k \in InBucket("servicebus.messages") PROVE k \in DOMAIN docs \intersect MessageKeys
  <2>1. k \in DOMAIN docs /\ k[1] = "servicebus.messages" /\ k \in Keys
    BY BucketKeys DEF TypeInv
  <2>2. k \notin Records
    BY <2>1, KeyForms DEF Records
  <2>3. k \notin Marks
    BY <2>1, MarkForms DEF MarkForm
  <2>4. QED
    BY <2>1, <2>2, <2>3 DEF Keys
<1>4. QED
  BY <1>1, <1>2, <1>3 DEF Next, StoreNext

-----------------------------------------------------------------------------
(* The types are kept *)

LEMMA TypeBegin ==
  ASSUME TypeInv, NEW c \in Clients, NEW verb, NEW on, NEW todo \in Seq(Entries), todo # <<>>,
         Begin(c, verb, on, todo), drawn' \in Nat
  PROVE  TypeInv'
<1>1. c \in Workers
  BY DEF Workers
<1>2. /\ ~Busy(c) /\ docs' = docs /\ mode' = mode /\ Calls'
      /\ mode # "concurrent" => c = First
      /\ calls'[c].todo = todo
      /\ \A w \in Workers \ {c} : calls'[w] = calls[w]
  BY <1>1, BeginEffect, ZenonT(40) DEF TypeInv, First
<1>3. \A w \in Workers : calls'[w].todo \in Seq(Entries)
  BY <1>2 DEF TypeInv
<1>4. \A w \in Workers : calls'[w].todo = <<>> => calls'[w] = Idle
  BY <1>2 DEF TypeInv, Busy
<1>5. \A w \in Workers : calls'[w].todo # <<>> => w \in Clients /\ (mode # "concurrent" => w = First)
  BY <1>2 DEF TypeInv, Busy
<1>6. QED
  BY <1>2, <1>3, <1>4, <1>5 DEF TypeInv, Busy

\* What a write writes, and what it leaves of its call.
LEMMA NextEntry ==
  ASSUME TypeInv, NEW c \in Workers, Write(c)
  PROVE  /\ Busy(c) /\ calls[c].todo \in Seq(Entries)
         /\ Head(calls[c].todo) \in Entries
         /\ Left(c) = Tail(calls[c].todo) /\ Left(c) \in Seq(Entries)
<1>1. Busy(c) /\ calls[c].todo \in Seq(Entries)
  BY WriteEffect DEF TypeInv
<1>2. Head(calls[c].todo) \in Entries /\ Tail(calls[c].todo) \in Seq(Entries)
  BY <1>1, SomethingLeft DEF Busy
<1>3. Head(calls[c].todo).do # "sweep"
  BY <1>2, EntryForms
<1>4. QED
  BY <1>1, <1>2, <1>3 DEF Left

LEMMA TypeWrite ==
  ASSUME TypeInv, NEW c \in Workers, Write(c), drawn' = drawn
  PROVE  TypeInv'
<1>1. /\ Busy(c) /\ mode' = mode /\ Calls'
      /\ docs' = Applied(Head(calls[c].todo))
      /\ calls'[c].todo = Left(c)
      /\ Left(c) = <<>> => calls'[c] = Idle
      /\ \A w \in Workers \ {c} : calls'[w] = calls[w]
  BY WriteEffect DEF TypeInv
<1>2. Head(calls[c].todo) \in Entries /\ Left(c) \in Seq(Entries)
  BY NextEntry
<1>3. PICK e : e = Head(calls[c].todo)
  OBVIOUS
<1>4. \A w \in Workers : calls'[w].todo \in Seq(Entries)
  BY <1>1, <1>2 DEF TypeInv
<1>5. \A w \in Workers : calls'[w].todo = <<>> => calls'[w] = Idle
  BY <1>1 DEF TypeInv, Busy
<1>6. \A w \in Workers : calls'[w].todo # <<>> => w \in Clients /\ (mode # "concurrent" => w = First)
  BY <1>1 DEF TypeInv, Busy
<1>7. /\ IsFiniteSet(DOMAIN docs') /\ DOMAIN docs' \subseteq Keys
      /\ \A k \in DOMAIN docs' : docs'[k] \in DocumentsOf(k)
  <2>1. IsFiniteSet(DOMAIN docs) /\ DOMAIN docs \subseteq Keys /\ \A k \in DOMAIN docs : docs[k] \in DocumentsOf(k)
    BY DEF TypeInv
  <2>2. CASE e.do = "put"
    <3>1. /\ DOMAIN docs' = DOMAIN docs \union {e.key} /\ docs'[e.key] = e.doc
          /\ \A k \in DOMAIN docs : k # e.key => docs'[k] = docs[k]
      BY <1>1, <1>3, <2>2, AppliedPut
    <3>2. e.key \in Keys /\ e.doc \in DocumentsOf(e.key)
      BY <1>2, <1>3, <2>2, EntryForms
    <3>3. IsFiniteSet(DOMAIN docs')
      BY <2>1, <3>1, FS_AddElement
    <3>4. QED
      BY <2>1, <3>1, <3>2, <3>3
  <2>3. CASE e.do = "delete"
    <3>1. DOMAIN docs' = DOMAIN docs \ {e.key} /\ \A k \in DOMAIN docs' : docs'[k] = docs[k]
      BY <1>1, <1>3, <2>3, AppliedDelete
    <3>2. IsFiniteSet(DOMAIN docs')
      BY <2>1, <3>1, FS_Subset
    <3>3. QED
      BY <2>1, <3>1, <3>2
  <2>4. QED
    BY <1>2, <1>3, <2>2, <2>3, EntryForms
<1>8. QED
  BY <1>1, <1>4, <1>5, <1>6, <1>7 DEF TypeInv, Busy

\* The end of a lock changes no key.
LEMMA ExpireEffect ==
  ASSUME TypeInv, NEW k \in DOMAIN docs \intersect MessageKeys, Expire(k)
  PROVE  /\ DOMAIN docs' = DOMAIN docs /\ calls' = calls /\ mode' = mode /\ drawn' = drawn
         /\ \A l \in DOMAIN docs : docs'[l] \in DocumentsOf(l)
<1>1. docs' = [docs EXCEPT ![k].locked = FALSE] /\ calls' = calls /\ mode' = mode /\ drawn' = drawn
  BY DEF Expire
<1>2. PICK m : m = docs[k]
  OBVIOUS
<1>3. m \in Message
  BY <1>2, StoredMessage
<1>4. [m EXCEPT !.locked = FALSE] \in Message
  BY <1>3 DEF Message
<1>5. docs' = [docs EXCEPT ![k] = [m EXCEPT !.locked = FALSE]]
  BY <1>1, <1>2
<1>6. DOMAIN docs' = DOMAIN docs /\ docs'[k] \in Message /\ \A l \in DOMAIN docs \ {k} : docs'[l] = docs[l]
  BY <1>4, <1>5
<1>7. QED
  BY <1>1, <1>6, KeysApart, ZenonT(40) DEF TypeInv, DocumentsOf

LEMMA TypeExpire ==
  ASSUME TypeInv, NEW k \in DOMAIN docs \intersect MessageKeys, Expire(k)
  PROVE  TypeInv'
BY ExpireEffect DEF TypeInv, Busy, Calls

\* A database with every entity of an instance.
LEMMA AllStoredIsFinite ==
  ASSUME Provisioned # {}
  PROVE  IsFiniteSet(DOMAIN AllStored)
<1>1. IsFiniteSet(QueueIds) /\ IsFiniteSet(SubIds)
  BY IdsAssumption
<1>2. IsFiniteSet(Namespaces)
  <2>1. PICK Ids : Ids = QueueIds \union SubIds
    OBVIOUS
  <2>2. IsFiniteSet(Ids)
    BY <1>1, <2>1, FS_Union
  <2>3. PICK f : f = [i \in Ids |-> <<i[1], i[2]>>]
    OBVIOUS
  <2>4. \A i \in Ids : f[i] = <<i[1], i[2]>>
    BY <2>3
  <2>5. IsFiniteSet({f[i] : i \in Ids})
    BY <2>2, <2>3, FiniteValues
  <2>6. QED
    BY <2>1, <2>4, <2>5 DEF Namespaces
<1>3. IsFiniteSet(TopicIds)
  <2>1. PICK f : f = [i \in SubIds |-> <<i[1], i[2], i[3]>>]
    OBVIOUS
  <2>2. \A i \in SubIds : f[i] = <<i[1], i[2], i[3]>>
    BY <2>1
  <2>3. IsFiniteSet({f[i] : i \in SubIds})
    BY <1>1, <2>1, FiniteValues
  <2>4. QED
    BY <2>2, <2>3 DEF TopicIds
<1>4. IsFiniteSet(Records)
  <2>1. IsFiniteSet({SBNamespace(n) : n \in Namespaces})
    <3>1. PICK f : f = [n \in Namespaces |-> SBNamespace(n)]
      OBVIOUS
    <3>2. \A n \in Namespaces : f[n] = SBNamespace(n)
      BY <3>1
    <3>3. IsFiniteSet({f[n] : n \in Namespaces})
      BY <1>1, <1>2, <1>3, <3>1, FiniteValues
    <3>4. QED
      BY <3>2, <3>3
  <2>2. IsFiniteSet({SBQueue(q) : q \in QueueIds})
    <3>1. PICK f : f = [q \in QueueIds |-> SBQueue(q)]
      OBVIOUS
    <3>2. \A q \in QueueIds : f[q] = SBQueue(q)
      BY <3>1
    <3>3. IsFiniteSet({f[q] : q \in QueueIds})
      BY <1>1, <1>2, <1>3, <3>1, FiniteValues
    <3>4. QED
      BY <3>2, <3>3
  <2>3. IsFiniteSet({SBTopic(t) : t \in TopicIds})
    <3>1. PICK f : f = [t \in TopicIds |-> SBTopic(t)]
      OBVIOUS
    <3>2. \A t \in TopicIds : f[t] = SBTopic(t)
      BY <3>1
    <3>3. IsFiniteSet({f[t] : t \in TopicIds})
      BY <1>1, <1>2, <1>3, <3>1, FiniteValues
    <3>4. QED
      BY <3>2, <3>3
  <2>4. IsFiniteSet({SBSubscription(i) : i \in SubIds})
    <3>1. PICK f : f = [i \in SubIds |-> SBSubscription(i)]
      OBVIOUS
    <3>2. \A i \in SubIds : f[i] = SBSubscription(i)
      BY <3>1
    <3>3. IsFiniteSet({f[i] : i \in SubIds})
      BY <1>1, <1>2, <1>3, <3>1, FiniteValues
    <3>4. QED
      BY <3>2, <3>3
  <2>5. QED
    BY <2>1, <2>2, <2>3, <2>4, FS_Union DEF Records
<1>5. IsFiniteSet(Marks)
  <2>1. IsFiniteSet({QueueEntityPath(Tail(q)) : q \in QueueIds})
    <3>1. PICK f : f = [q \in QueueIds |-> QueueEntityPath(Tail(q))]
      OBVIOUS
    <3>2. \A q \in QueueIds : f[q] = QueueEntityPath(Tail(q))
      BY <3>1
    <3>3. IsFiniteSet({f[q] : q \in QueueIds})
      BY <1>1, <1>2, <1>3, <3>1, FiniteValues
    <3>4. QED
      BY <3>2, <3>3
  <2>2. IsFiniteSet({TopicEntityPath(Tail(t)) : t \in TopicIds})
    <3>1. PICK f : f = [t \in TopicIds |-> TopicEntityPath(Tail(t))]
      OBVIOUS
    <3>2. \A t \in TopicIds : f[t] = TopicEntityPath(Tail(t))
      BY <3>1
    <3>3. IsFiniteSet({f[t] : t \in TopicIds})
      BY <1>1, <1>2, <1>3, <3>1, FiniteValues
    <3>4. QED
      BY <3>2, <3>3
  <2>3. IsFiniteSet({SubscriptionEntityPath(Tail(i)) : i \in SubIds})
    <3>1. PICK f : f = [i \in SubIds |-> SubscriptionEntityPath(Tail(i))]
      OBVIOUS
    <3>2. \A i \in SubIds : f[i] = SubscriptionEntityPath(Tail(i))
      BY <3>1
    <3>3. IsFiniteSet({f[i] : i \in SubIds})
      BY <1>1, <1>2, <1>3, <3>1, FiniteValues
    <3>4. QED
      BY <3>2, <3>3
  <2>4. Marks = {QueueEntityPath(Tail(q)) : q \in QueueIds}
                \union {TopicEntityPath(Tail(t)) : t \in TopicIds}
                \union {SubscriptionEntityPath(Tail(i)) : i \in SubIds}
    <3>1. ASSUME NEW q \in QueueIds PROVE QueueEntityPath(Tail(q)) \in Marks
      <4>1. PICK p : p = <<SBQueue(q), QueueEntityPath(Tail(q))>>
        OBVIOUS
      <4>2. p \in Twins /\ p[2] = QueueEntityPath(Tail(q))
        BY <4>1 DEF Twins
      <4>3. QED
        BY <4>2, KeysApart
    <3>2. ASSUME NEW t \in TopicIds PROVE TopicEntityPath(Tail(t)) \in Marks
      <4>1. PICK p : p = <<SBTopic(t), TopicEntityPath(Tail(t))>>
        OBVIOUS
      <4>2. p \in Twins /\ p[2] = TopicEntityPath(Tail(t))
        BY <4>1 DEF Twins
      <4>3. QED
        BY <4>2, KeysApart
    <3>3. ASSUME NEW i \in SubIds PROVE SubscriptionEntityPath(Tail(i)) \in Marks
      <4>1. PICK p : p = <<SBSubscription(i), SubscriptionEntityPath(Tail(i))>>
        OBVIOUS
      <4>2. p \in Twins /\ p[2] = SubscriptionEntityPath(Tail(i))
        BY <4>1 DEF Twins
      <4>3. QED
        BY <4>2, KeysApart
    <3>4. ASSUME NEW m \in Marks
          PROVE  \/ \E q \in QueueIds : m = QueueEntityPath(Tail(q))
                 \/ \E t \in TopicIds : m = TopicEntityPath(Tail(t))
                 \/ \E i \in SubIds : m = SubscriptionEntityPath(Tail(i))
      BY DEF Marks, Twins
    <3>5. QED
      BY <3>1, <3>2, <3>3, <3>4
  <2>5. QED
    BY <2>1, <2>2, <2>3, <2>4, FS_Union
<1>6. DOMAIN AllStored = Records \union Marks
  BY DEF AllStored
<1>7. QED
  BY <1>4, <1>5, <1>6, FS_Union

LEMMA TypeInit == Init => TypeInv
<1> SUFFICES ASSUME Init PROVE TypeInv
  OBVIOUS
<1>1. /\ mode \in Modes /\ drawn = 0 /\ calls = [w \in Workers |-> Idle]
      /\ docs = IF mode \in Provisioned THEN AllStored ELSE << >>
  BY DEF Init, StoreInit
<1>2. Calls /\ \A w \in Workers : ~Busy(w) /\ calls[w].todo = <<>> /\ calls[w] = Idle
  BY <1>1, AllIdle
<1>3. \A w \in Workers : calls[w].todo \in Seq(Entries)
  BY <1>2, EmptySeq
<1>4. /\ IsFiniteSet(DOMAIN docs) /\ DOMAIN docs \subseteq Keys
      /\ \A k \in DOMAIN docs : docs[k] \in DocumentsOf(k)
  <2>1. CASE mode \in Provisioned
    <3>1. docs = AllStored
      BY <1>1, <2>1
    <3>2. IsFiniteSet(DOMAIN docs)
      BY <2>1, <3>1, AllStoredIsFinite
    <3>3. QED
      BY <3>1, <3>2, KeysApart DEF AllStored, Keys, DocumentsOf, Succeeded
  <2>2. CASE mode \notin Provisioned
    <3>1. DOMAIN docs = {}
      BY <1>1, <2>2
    <3>2. QED
      BY <3>1, FS_EmptySet
  <2>3. QED
    BY <2>1, <2>2
<1>5. QED
  BY <1>1, <1>2, <1>3, <1>4 DEF TypeInv

LEMMA ServingEntries ==
  ASSUME NEW todo \in Seq(MessageEntries) PROVE todo \in Seq(Entries)
BY DEF MessageEntries

LEMMA TypeStep == TypeInv /\ [Next]_vars => TypeInv'
<1> SUFFICES ASSUME TypeInv, [Next]_vars PROVE TypeInv'
  OBVIOUS
<1>1. ASSUME NEW c \in Clients, Controlling(c), drawn' \in Nat PROVE TypeInv'
  <2>1. \A n \in Namespaces : SBNamespace(n) \in Records
    BY DEF Records
  <2>2. ASSUME NEW k \in Records
        PROVE  /\ <<Store(k, Succeeded)>> \in Seq(Entries) /\ <<Store(k, Succeeded)>> # <<>>
               /\ <<Drop(k)>> \in Seq(Entries) /\ <<Drop(k)>> # <<>>
    BY RecordEntries
  <2>3. ASSUME NEW p \in Twins
        PROVE  /\ <<Store(p[1], Succeeded), Store(p[2], TRUE)>> \in Seq(Entries)
               /\ <<Store(p[1], Succeeded), Store(p[2], TRUE)>> # <<>>
               /\ <<Drop(p[1]), Drop(p[2])>> \in Seq(Entries) /\ <<Drop(p[1]), Drop(p[2])>> # <<>>
    <3>1. p[1] \in Records /\ p[2] \in Marks
      BY KeysApart
    <3>2. /\ Store(p[1], Succeeded) \in Entries /\ Store(p[2], TRUE) \in Entries
          /\ Drop(p[1]) \in Entries /\ Drop(p[2]) \in Entries
      BY <3>1, RecordEntries
    <3>3. \A a, b \in Entries : <<a, b>> \in Seq(Entries) /\ <<a, b>> # <<>>
      OBVIOUS
    <3>4. QED
      BY <3>2, <3>3, Zenon
  <2>4. QED
    BY <1>1, <2>1, <2>2, <2>3, TypeBegin DEF Controlling
<1>2. ASSUME NEW c \in Clients, Serving(c), drawn' \in Nat PROVE TypeInv'
  BY <1>2, TypeBegin, ServingEntries DEF Serving
<1>3. ASSUME NEW w \in Workers, Write(w), drawn' = drawn PROVE TypeInv'
  BY <1>3, TypeWrite
<1>4. ASSUME Crash, drawn' = drawn PROVE TypeInv'
  <2>1. calls' = [w \in Workers |-> Idle] /\ docs' = docs /\ mode' = mode
    BY <1>4 DEF Crash
  <2>2. Calls' /\ \A w \in Workers : calls'[w] = Idle /\ calls'[w].todo = <<>>
    BY <2>1 DEF Calls, Idle
  <2>3. \A w \in Workers : calls'[w].todo \in Seq(Entries)
    BY <2>2, EmptySeq
  <2>4. QED
    BY <1>4, <2>1, <2>2, <2>3 DEF TypeInv, Busy
<1>5. ASSUME NEW k \in DOMAIN docs \intersect MessageKeys, Expire(k) PROVE TypeInv'
  BY <1>5, TypeExpire
<1>6. CASE UNCHANGED vars
  BY <1>6 DEF vars, store, TypeInv, Busy, Calls
<1>7. QED
  BY <1>1, <1>2, <1>3, <1>4, <1>5, <1>6, StepForms

\* In every state the database is finite and has documents of its kind under
\* its keys, and a handler has left only documents of their kind to write, one
\* handler at a time unless requests overlap.
THEOREM TypeCorrect == Spec => []TypeInv
BY TypeInit, TypeStep, PTL DEF Spec

-----------------------------------------------------------------------------
(* The index agrees with the records *)

\* What IndexAgrees says of an entry.
Good(path) ==
    /\ Has(path) => \E p \in Twins : p[2] = path /\ Has(p[1])
    /\ (\A p \in Twins : p[2] = path => Has(p[1])) => Has(path)

\* Where the only handler stands: it writes no record that is in the index,
\* or it writes a record and then its entry.  Every entry is as it should be,
\* but for the one it is about to write; with it, the record is written.
IndexInv ==
    mode = "serial" =>
       LET todo == calls[First].todo
       IN  \/ /\ \A i \in DOMAIN todo : \A p \in Twins : todo[i].key # p[1] /\ todo[i].key # p[2]
              /\ \A m \in Marks : Good(m)
           \/ \E p \in Twins :
                 /\ \/ todo = <<Store(p[1], Succeeded), Store(p[2], TRUE)>> \/ todo = <<Drop(p[1]), Drop(p[2])>>
                 /\ \A m \in Marks : Good(m)
           \/ \E p \in Twins :
                 /\ \/ todo = <<Store(p[2], TRUE)>> /\ Has(p[1])
                    \/ todo = <<Drop(p[2])>> /\ ~Has(p[1])
                 /\ \A m \in Marks : m # p[2] => Good(m)

\* A record is no entry.
LEMMA TwinKeys == \A p \in Twins, m \in Marks : p[1] # m
BY KeysApart

\* An entry depends on itself and on the records that share it.
LEMMA GoodStays ==
  ASSUME NEW m \in Marks, Good(m), Has(m)' <=> Has(m),
         \A p \in Twins : p[2] = m => (Has(p[1])' <=> Has(p[1]))
  PROVE  Good(m)'
BY DEF Good

LEMMA IndexBegin ==
  ASSUME TypeInv, IndexInv, NEW c \in Clients, NEW verb, NEW on, NEW todo,
         Begin(c, verb, on, todo), mode = "serial"
  PROVE  /\ c = First /\ calls'[First].todo = todo /\ docs' = docs
         /\ \A m \in Marks : Good(m) /\ Good(m)'
<1>1. c \in Workers
  BY DEF Workers
<1>2. c = First /\ calls'[First].todo = todo /\ docs' = docs /\ ~Busy(First)
  BY <1>1, BeginEffect DEF TypeInv, First
<1>3. calls[First].todo = <<>>
  BY <1>2 DEF Busy
<1>4. \A m \in Marks : Good(m)
  BY <1>3 DEF IndexInv
<1>5. \A k : Has(k)' <=> Has(k)
  BY <1>2 DEF Has
<1>6. QED
  BY <1>2, <1>4, <1>5, GoodStays

\* What is stored after a write.
LEMMA HasAfter ==
  ASSUME NEW e \in Entries, docs' = Applied(e), NEW k
  PROVE  Has(k)' <=> IF k = e.key THEN e.do = "put" ELSE Has(k)
<1>1. CASE e.do = "put"
  BY <1>1, AppliedPut DEF Has
<1>2. CASE e.do = "delete"
  BY <1>2, AppliedDelete DEF Has
<1>3. QED
  BY <1>1, <1>2, EntryForms

LEMMA IndexWrite ==
  ASSUME TypeInv, IndexInv, NEW c \in Workers, Write(c)
  PROVE  IndexInv'
<1> SUFFICES ASSUME mode' = "serial" PROVE IndexInv'
  BY DEF IndexInv
<1>1. mode = "serial" /\ c = First /\ calls'[First].todo = Tail(calls[First].todo)
  BY WriteEffect, NextEntry DEF TypeInv
<1>2. PICK e, todo : todo = calls[First].todo /\ e = Head(todo)
  OBVIOUS
<1>3. e \in Entries /\ todo \in Seq(Entries) /\ todo # <<>> /\ docs' = Applied(e)
  BY <1>1, <1>2, NextEntry, WriteEffect DEF Busy, TypeInv
<1>4. \A k : Has(k)' <=> IF k = e.key THEN e.do = "put" ELSE Has(k)
  BY <1>3, HasAfter
<1>5. calls'[First].todo = Tail(todo)
  BY <1>1, <1>2
<1>6. CASE /\ \A i \in DOMAIN todo : \A p \in Twins : todo[i].key # p[1] /\ todo[i].key # p[2]
           /\ \A m \in Marks : Good(m)
  <2>1. /\ e = todo[1] /\ 1 \in DOMAIN todo
        /\ \A i \in DOMAIN Tail(todo) : i + 1 \in DOMAIN todo /\ Tail(todo)[i] = todo[i + 1]
    BY <1>2, <1>3, SomethingLeft
  <2>2. \A p \in Twins : (Has(p[1])' <=> Has(p[1])) /\ (Has(p[2])' <=> Has(p[2]))
    BY <1>4, <1>6, <2>1
  <2>3. \A m \in Marks : Has(m)' <=> Has(m)
    BY <2>2 DEF Marks
  <2>4. \A m \in Marks : Good(m)'
    BY <1>6, <2>2, <2>3, GoodStays
  <2>5. \A i \in DOMAIN Tail(todo) : \A p \in Twins : Tail(todo)[i].key # p[1] /\ Tail(todo)[i].key # p[2]
    BY <1>6, <2>1
  <2>6. QED
    BY <1>5, <2>4, <2>5 DEF IndexInv
<1>7. ASSUME NEW p \in Twins, e.key = p[1], \A m \in Marks : Good(m)
      PROVE  \A m \in Marks : m # p[2] => Good(m)'
  <2> SUFFICES ASSUME NEW m \in Marks, m # p[2] PROVE Good(m)'
    OBVIOUS
  <2>1. Has(m)' <=> Has(m)
    BY <1>4, <1>7, TwinKeys
  <2>2. ASSUME NEW r \in Twins, r[2] = m PROVE Has(r[1])' <=> Has(r[1])
    <3>1. r[1] # p[1]
      BY <2>2, KeysApart
    <3>2. QED
      BY <1>4, <1>7, <3>1
  <2>3. QED
    BY <1>7, <2>1, <2>2, GoodStays
<1>8. ASSUME NEW p \in Twins, todo = <<Store(p[1], Succeeded), Store(p[2], TRUE)>>, \A m \in Marks : Good(m)
      PROVE  IndexInv'
  <2>1. e = Store(p[1], Succeeded) /\ Tail(todo) = <<Store(p[2], TRUE)>>
    <3>1. \A a, b : Head(<<a, b>>) = a /\ Tail(<<a, b>>) = <<b>>
      OBVIOUS
    <3>2. QED
      BY <1>2, <1>8, <3>1, Zenon
  <2>2. e.key = p[1] /\ e.do = "put"
    BY <2>1 DEF Store
  <2>3. Has(p[1])'
    BY <1>4, <2>2
  <2>4. \A m \in Marks : m # p[2] => Good(m)'
    BY <1>7, <1>8, <2>2
  <2>5. QED
    BY <1>5, <2>1, <2>3, <2>4 DEF IndexInv
<1>9. ASSUME NEW p \in Twins, todo = <<Drop(p[1]), Drop(p[2])>>, \A m \in Marks : Good(m)
      PROVE  IndexInv'
  <2>1. e = Drop(p[1]) /\ Tail(todo) = <<Drop(p[2])>>
    BY <1>2, <1>9
  <2>2. e.key = p[1] /\ e.do # "put"
    BY <2>1 DEF Drop
  <2>3. ~Has(p[1])'
    BY <1>4, <2>2
  <2>4. \A m \in Marks : m # p[2] => Good(m)'
    BY <1>7, <1>9, <2>2
  <2>5. QED
    BY <1>5, <2>1, <2>3, <2>4 DEF IndexInv
<1>10. ASSUME NEW p \in Twins, \A m \in Marks : m # p[2] => Good(m),
              \/ todo = <<Store(p[2], TRUE)>> /\ Has(p[1])
              \/ todo = <<Drop(p[2])>> /\ ~Has(p[1])
      PROVE  IndexInv'
  <2>1. Tail(todo) = <<>> /\ e.key = p[2] /\ (e.do = "put" <=> Has(p[1]))
    <3>1. \A a : Head(<<a>>) = a /\ Tail(<<a>>) = <<>>
      OBVIOUS
    <3>2. Tail(todo) = <<>> /\ ((e = Store(p[2], TRUE) /\ Has(p[1])) \/ (e = Drop(p[2]) /\ ~Has(p[1])))
      <4>1. ASSUME todo = <<Store(p[2], TRUE)>> PROVE Tail(todo) = <<>> /\ e = Store(p[2], TRUE)
        BY <1>2, <3>1, <4>1, Zenon
      <4>2. ASSUME todo = <<Drop(p[2])>> PROVE Tail(todo) = <<>> /\ e = Drop(p[2])
        BY <1>2, <3>1, <4>2, Zenon
      <4>3. CASE todo = <<Store(p[2], TRUE)>> /\ Has(p[1])
        BY <4>1, <4>3
      <4>4. CASE todo = <<Drop(p[2])>> /\ ~Has(p[1])
        BY <4>2, <4>4
      <4>5. QED
        BY <1>10, <4>3, <4>4
    <3>3. QED
      BY <3>2 DEF Store, Drop
  <2>2. \A r \in Twins : Has(r[1])' <=> Has(r[1])
    <3>1. p[2] \in Marks
      BY KeysApart
    <3>2. QED
      BY <1>4, <2>1, <3>1, TwinKeys
  <2>3. Good(p[2])'
    <3>1. Has(p[2])' <=> Has(p[1])'
      BY <1>4, <2>1, <2>2
    <3>2. QED
      BY <3>1 DEF Good
  <2>4. \A m \in Marks : m # p[2] => Good(m)'
    <3>1. \A m \in Marks : m # p[2] => (Has(m)' <=> Has(m))
      BY <1>4, <2>1
    <3>2. QED
      BY <1>10, <2>2, <3>1, GoodStays
  <2>5. \A m \in Marks : Good(m)'
    BY <2>3, <2>4
  <2>6. \A i \in DOMAIN Tail(todo) : \A r \in Twins : Tail(todo)[i].key # r[1] /\ Tail(todo)[i].key # r[2]
    BY <2>1
  <2>7. QED
    BY <1>5, <2>5, <2>6 DEF IndexInv
<1>11. QED
  BY <1>1, <1>2, <1>6, <1>8, <1>9, <1>10 DEF IndexInv

LEMMA IndexInit == Init => IndexInv
<1> SUFFICES ASSUME Init PROVE IndexInv
  OBVIOUS
<1>1. /\ calls = [w \in Workers |-> Idle]
      /\ docs = IF mode \in Provisioned THEN AllStored ELSE << >>
  BY DEF Init, StoreInit
<1>2. First \in Workers
  BY WorkersAssumption DEF First, Workers
<1>3. calls[First].todo = <<>>
  BY <1>1, <1>2 DEF Idle
<1>4. \A m \in Marks : \E p \in Twins : p[2] = m
  BY DEF Marks
<1>5. \A m \in Marks : Good(m)
  <2>1. CASE mode \in Provisioned
    <3>1. DOMAIN docs = Records \union Marks
      BY <1>1, <2>1 DEF AllStored
    <3>2. \A p \in Twins : Has(p[1])
      BY <3>1, KeysApart DEF Has
    <3>3. \A m \in Marks : Has(m)
      BY <3>1 DEF Has
    <3>4. QED
      BY <1>4, <3>2, <3>3 DEF Good
  <2>2. CASE mode \notin Provisioned
    <3>1. \A k : ~Has(k)
      BY <1>1, <2>2 DEF Has
    <3>2. QED
      BY <1>4, <3>1 DEF Good
  <2>3. QED
    BY <2>1, <2>2
<1>6. QED
  BY <1>3, <1>5 DEF IndexInv

LEMMA IndexStep == TypeInv /\ IndexInv /\ [Next]_vars => IndexInv'
<1> SUFFICES ASSUME TypeInv, IndexInv, [Next]_vars, mode' = "serial" PROVE IndexInv'
  BY DEF IndexInv
<1>1. ASSUME NEW c \in Clients, Controlling(c) PROVE IndexInv'
  <2>1. mode' = mode
    BY <1>1 DEF Controlling, Begin
  <2>2. ASSUME NEW n \in Namespaces, NEW verb, NEW e \in {Store(SBNamespace(n), Succeeded), Drop(SBNamespace(n))},
               Begin(c, verb, SBNamespace(n), <<e>>)
        PROVE  IndexInv'
    <3>1. calls'[First].todo = <<e>> /\ \A m \in Marks : Good(m)'
      BY <2>1, <2>2, IndexBegin
    <3>2. e.key = SBNamespace(n)
      BY <2>2 DEF Store, Drop
    <3>3. \A i \in DOMAIN <<e>> : \A p \in Twins : <<e>>[i].key # p[1] /\ <<e>>[i].key # p[2]
      BY <3>2, KeysApart
    <3>4. QED
      BY <3>1, <3>3 DEF IndexInv
  <2>3. ASSUME NEW p \in Twins, NEW verb, NEW todo, Begin(c, verb, p[1], todo),
               todo = <<Store(p[1], Succeeded), Store(p[2], TRUE)>> \/ todo = <<Drop(p[1]), Drop(p[2])>>
        PROVE  IndexInv'
    <3>1. calls'[First].todo = todo /\ \A m \in Marks : Good(m)'
      BY <2>1, <2>3, IndexBegin
    <3>2. QED
      BY <2>3, <3>1 DEF IndexInv
  <2>4. QED
    BY <1>1, <2>2, <2>3 DEF Controlling
<1>2. ASSUME NEW c \in Clients, Serving(c) PROVE IndexInv'
  <2>1. PICK on : \E verb \in MessagingVerbs, todo \in Seq(MessageEntries) : Begin(c, verb, on, todo)
    BY <1>2 DEF Serving
  <2>2. PICK verb \in MessagingVerbs, todo \in Seq(MessageEntries) : Begin(c, verb, on, todo)
    BY <2>1
  <2>3. mode' = mode
    BY <2>2 DEF Begin
  <2>4. calls'[First].todo = todo /\ \A m \in Marks : Good(m)'
    BY <2>2, <2>3, IndexBegin
  <2>5. \A i \in DOMAIN todo : todo[i].key \in MessageKeys
    BY DEF MessageEntries
  <2>6. \A i \in DOMAIN todo : \A p \in Twins : todo[i].key # p[1] /\ todo[i].key # p[2]
    BY <2>5, KeysApart
  <2>7. QED
    BY <2>4, <2>6 DEF IndexInv
<1>3. ASSUME NEW w \in Workers, Write(w) PROVE IndexInv'
  BY <1>3, IndexWrite
<1>4. ASSUME Crash PROVE IndexInv'
  BY <1>4 DEF Crash
<1>5. ASSUME NEW k \in DOMAIN docs \intersect MessageKeys, Expire(k) PROVE IndexInv'
  <2>1. calls' = calls /\ mode' = mode /\ \A l : Has(l)' <=> Has(l)
    BY <1>5, ExpireEffect DEF Has
  <2>2. \A m \in Marks : Good(m) => Good(m)'
    BY <2>1, GoodStays
  <2>3. QED
    BY <2>1, <2>2 DEF IndexInv
<1>6. CASE UNCHANGED vars
  <2>1. calls' = calls /\ mode' = mode /\ \A l : Has(l)' <=> Has(l)
    BY <1>6 DEF vars, store, Has
  <2>2. \A m \in Marks : Good(m) => Good(m)'
    BY <2>1, GoodStays
  <2>3. QED
    BY <2>1, <2>2 DEF IndexInv
<1>7. QED
  BY <1>1, <1>2, <1>3, <1>4, <1>5, <1>6, StepForms

LEMMA IndexSafe == TypeInv /\ IndexInv => IndexAgrees
<1> SUFFICES ASSUME TypeInv, IndexInv, mode = "serial", \A c \in Clients : ~Busy(c), NEW m \in Marks
             PROVE  /\ Has(m) => \E k \in RecordsOf(m) : Has(k)
                    /\ (\A k \in RecordsOf(m) : Has(k)) => Has(m)
  BY DEF IndexAgrees
<1>1. First \in Clients
  BY WorkersAssumption DEF First
<1>2. calls[First].todo = <<>>
  BY <1>1 DEF Busy
<1>3. Good(m)
  BY <1>2 DEF IndexInv
<1>4. \A p \in Twins : p[2] = m => p[1] \in RecordsOf(m)
  BY DEF RecordsOf
<1>5. \A k \in RecordsOf(m) : \E p \in Twins : p[2] = m /\ p[1] = k
  BY DEF RecordsOf
<1>6. QED
  BY <1>3, <1>4, <1>5 DEF Good

\* When requests do not overlap and none is in progress, an entry of the index
\* has a record behind it, and is there when all the records that share it
\* are, however many groups have namesakes.
THEOREM IndexIsRight == Spec => []IndexAgrees
BY TypeInit, TypeStep, IndexInit, IndexStep, IndexSafe, PTL DEF Spec

-----------------------------------------------------------------------------
(* A receive creates nothing *)

\* When requests do not overlap, what a receive has left to write is under
\* keys that are stored.
ReceiveInv ==
    mode # "concurrent" =>
       \A c \in Clients : Busy(c) /\ calls[c].verb = "receive" => Marking(calls[c].on, calls[c].todo)

LEMMA ReceiveInit == Init => ReceiveInv
<1> SUFFICES ASSUME Init PROVE ReceiveInv
  OBVIOUS
<1>1. \A w \in Workers : ~Busy(w)
  BY AllIdle DEF Init, StoreInit
<1>2. QED
  BY <1>1 DEF ReceiveInv, Workers

\* Where the handler of a receive stands before its next write.
LEMMA ReceiveWrite ==
  ASSUME TypeInv, ReceiveInv, mode # "concurrent", NEW c \in Clients, Write(c),
         calls[c].verb = "receive", Tail(calls[c].on) \notin DataTopics
  PROVE  /\ DOMAIN docs' = DOMAIN docs
         /\ \A i \in DOMAIN Left(c) : Left(c)[i].do = "put" /\ Left(c)[i].key \in DOMAIN docs'
<1>1. c \in Workers
  BY DEF Workers
<1>2. PICK todo : todo = calls[c].todo
  OBVIOUS
<1>3. Busy(c) /\ todo \in Seq(Entries) /\ todo # <<>> /\ Left(c) = Tail(todo)
  BY <1>1, <1>2, NextEntry DEF Busy
<1>4. \A i \in DOMAIN todo : todo[i].do = "put" /\ Has(todo[i].key)
  BY <1>2, <1>3 DEF ReceiveInv, Marking
<1>5. /\ Head(todo) = todo[1] /\ 1 \in DOMAIN todo
      /\ \A i \in DOMAIN Tail(todo) : i + 1 \in DOMAIN todo /\ Tail(todo)[i] = todo[i + 1]
  BY <1>3, SomethingLeft
<1>6. PICK e : e = todo[1]
  OBVIOUS
<1>7. docs' = Applied(e) /\ e.do = "put" /\ Has(e.key)
  BY <1>1, <1>2, <1>4, <1>5, <1>6, WriteEffect DEF TypeInv
<1>8. DOMAIN docs' = DOMAIN docs \union {e.key}
  BY <1>7, AppliedPut
<1>9. DOMAIN docs' = DOMAIN docs
  BY <1>7, <1>8 DEF Has
<1>10. \A i \in DOMAIN Tail(todo) : Tail(todo)[i].do = "put" /\ Has(Tail(todo)[i].key)
  BY <1>4, <1>5
<1>11. QED
  BY <1>3, <1>9, <1>10 DEF Has

LEMMA ReceiveStep == TypeInv /\ ReceiveInv /\ [Next]_vars => ReceiveInv'
<1> SUFFICES ASSUME TypeInv, ReceiveInv, [Next]_vars, mode' # "concurrent",
                    NEW d \in Clients, Busy(d)', calls'[d].verb = "receive"
             PROVE  Marking(calls[d].on, calls[d].todo)'
  BY DEF ReceiveInv
<1>1. d \in Workers
  BY DEF Workers
<1>2. ASSUME NEW c \in Clients, NEW verb, NEW on, NEW todo, Begin(c, verb, on, todo),
             verb = "receive" => Marking(on, todo)
      PROVE  Marking(calls[d].on, calls[d].todo)'
  <2>1. c \in Workers
    BY DEF Workers
  <2>2. /\ ~Busy(c) /\ docs' = docs /\ mode' = mode
        /\ calls'[c].verb = verb /\ calls'[c].on = on /\ calls'[c].todo = todo
        /\ \A w \in Workers \ {c} : calls'[w] = calls[w]
    BY <1>2, <2>1, BeginEffect DEF TypeInv
  <2>3. CASE d = c
    BY <1>2, <2>2, <2>3 DEF Marking, Has
  <2>4. CASE d # c
    BY <1>1, <2>2, <2>4 DEF ReceiveInv, Marking, Has, Busy
  <2>5. QED
    BY <2>3, <2>4
<1>3. ASSUME NEW c \in Clients, Controlling(c) PROVE Marking(calls[d].on, calls[d].todo)'
  BY <1>2, <1>3 DEF Controlling
<1>4. ASSUME NEW c \in Clients, Serving(c) PROVE Marking(calls[d].on, calls[d].todo)'
  BY <1>2, <1>4 DEF Serving
<1>5. ASSUME NEW w \in Workers, Write(w) PROVE Marking(calls[d].on, calls[d].todo)'
  <2>1. /\ Busy(w) /\ mode' = mode /\ calls'[w].todo = Left(w)
        /\ Left(w) # <<>> => calls'[w].verb = calls[w].verb /\ calls'[w].on = calls[w].on
        /\ \A v \in Workers \ {w} : calls'[v] = calls[v]
    BY <1>5, WriteEffect DEF TypeInv
  <2>2. w = First /\ w \in Clients
    BY <2>1 DEF TypeInv
  <2>3. \A v \in Workers : Busy(v) => v = First
    BY <2>1 DEF TypeInv
  <2>4. d = w
    BY <1>1, <2>1, <2>2, <2>3 DEF Busy
  <2>5. calls[w].verb = "receive" /\ calls'[w].on = calls[w].on
    BY <2>1, <2>4 DEF Busy
  <2>6. mode # "concurrent"
    BY <2>1
  <2>7. ASSUME Tail(calls[w].on) \notin DataTopics
        PROVE  \A i \in DOMAIN Left(w) : Left(w)[i].do = "put" /\ Left(w)[i].key \in DOMAIN docs'
    BY <1>5, <2>2, <2>5, <2>6, <2>7, ReceiveWrite
  <2>8. calls'[d].todo = Left(w) /\ calls'[d].on = calls[w].on
    BY <2>1, <2>4, <2>5
  <2>9. QED
    BY <2>7, <2>8, Zenon DEF Marking, Has
<1>6. CASE Crash
  <2>1. calls'[d].todo = <<>>
    BY <1>1, <1>6 DEF Crash, Idle
  <2>2. QED
    BY <2>1 DEF Busy
<1>7. ASSUME NEW k \in DOMAIN docs \intersect MessageKeys, Expire(k) PROVE Marking(calls[d].on, calls[d].todo)'
  BY <1>7, ExpireEffect DEF ReceiveInv, Marking, Has, Busy
<1>8. CASE UNCHANGED vars
  BY <1>8 DEF vars, store, ReceiveInv, Marking, Has, Busy
<1>9. QED
  BY <1>3, <1>4, <1>5, <1>6, <1>7, <1>8, StepForms

LEMMA ReceiveSafe ==
  ASSUME TypeInv, ReceiveInv, [Next]_vars, NEW c \in Clients,
         mode # "concurrent", Busy(c), calls[c].verb = "receive", Tail(calls[c].on) \notin DataTopics
  PROVE  DOMAIN docs' = DOMAIN docs
<1>1. ASSUME NEW d \in Clients, NEW verb, NEW on, NEW todo, Begin(d, verb, on, todo) PROVE docs' = docs
  BY <1>1 DEF Begin
<1>2. ASSUME NEW d \in Clients, Controlling(d) \/ Serving(d) PROVE docs' = docs
  BY <1>1, <1>2 DEF Controlling, Serving
<1>3. ASSUME NEW w \in Workers, Write(w) PROVE DOMAIN docs' = DOMAIN docs
  <2>1. w = c
    <3>1. c \in Workers /\ Busy(w)
      BY <1>3 DEF Workers, Write
    <3>2. QED
      BY <3>1 DEF TypeInv
  <2>2. QED
    BY <1>3, <2>1, ReceiveWrite
<1>4. CASE Crash \/ UNCHANGED vars
  BY <1>4 DEF Crash, vars, store
<1>5. ASSUME NEW k \in DOMAIN docs \intersect MessageKeys, Expire(k) PROVE DOMAIN docs' = DOMAIN docs
  BY <1>5, ExpireEffect
<1>6. QED
  BY <1>2, <1>3, <1>4, <1>5, StepForms

\* When requests do not overlap, even when the process may end between two
\* writes, a receive gives no message a second life: it writes only under the
\* keys of messages that are stored, unless the queue has a topic's name.
THEOREM ReceivesOnlyMark == Spec => ReceiveCreatesNothing
<1>1. TypeInv /\ ReceiveInv /\ [Next]_vars =>
         [\A c \in Clients :
            mode # "concurrent" /\ Busy(c) /\ calls[c].verb = "receive" /\ Tail(calls[c].on) \notin DataTopics
            => DOMAIN docs' = DOMAIN docs]_vars
  BY ReceiveSafe
<1>2. QED
  BY <1>1, TypeInit, TypeStep, ReceiveInit, ReceiveStep, PTL DEF Spec, ReceiveCreatesNothing

-----------------------------------------------------------------------------
(* One copy for each subscription *)

\* The subscriptions stored for a topic, among those of its name.
LEMMA StoredSubscriptionNames ==
  ASSUME TypeInv, NEW t
  PROVE  /\ StoredSubscriptions(t) \subseteq SubscriptionsOf(t[2])
         /\ \A k \in StoredSubscriptions(t) : k[3] = t[1] /\ k[4] = t[2]
<1>1. ASSUME NEW k \in StoredSubscriptions(t)
      PROVE  k \in SubscriptionsOf(t[2]) /\ k[3] = t[1] /\ k[4] = t[2]
  <2>1. k \in InBucket("servicebus.subscriptions") /\ SubSeq(k, 3, 4) = t
    BY DEF StoredSubscriptions
  <2>2. k \in SubscriptionsOf(k[4])
    BY <2>1 DEF SubscriptionsOf
  <2>3. PICK i \in SubIds : k = <<"servicebus.subscriptions", i[1], i[2], i[3], i[4]>>
    BY <2>2, SubscriptionsFound
  <2>4. SubSeq(k, 3, 4)[1] = i[2] /\ SubSeq(k, 3, 4)[2] = i[3]
    BY <2>3
  <2>5. k[3] = i[2] /\ k[4] = i[3]
    BY <2>3
  <2>6. QED
    BY <2>1, <2>2, <2>4, <2>5
<1>2. QED
  BY <1>1

\* What OneCopyPerSubscription says of a step.
Copies(c) ==
    LET t == calls'[c].on
        copies == calls'[c].todo
    IN  ~Busy(c) /\ calls'[c].verb = "publish" /\ SubscriptionsOf(t[2]) = StoredSubscriptions(t) =>
           /\ Len(copies) = Cardinality(StoredSubscriptions(t))
           /\ {Front(copies[i].key) : i \in DOMAIN copies}
                 = {SubscriptionMessagePrefix(<<k[3], k[4], k[5]>>) : k \in StoredSubscriptions(t)}

LEMMA CopiesMade ==
  ASSUME TypeInv, [Next]_vars, NEW c \in Clients
  PROVE  Copies(c)
<1> SUFFICES ASSUME ~Busy(c), calls'[c].verb = "publish" PROVE Copies(c)
  BY DEF Copies
<1>1. c \in Workers /\ calls[c].verb = "none"
  BY DEF Workers, TypeInv, Idle
<1>2. ASSUME NEW d \in Clients, NEW verb, NEW on, NEW todo, Begin(d, verb, on, todo)
      PROVE  d = c /\ verb = "publish" /\ on = calls'[c].on /\ todo = calls'[c].todo
  <2>1. d \in Workers
    BY DEF Workers
  <2>2. /\ calls'[d].verb = verb /\ calls'[d].on = on /\ calls'[d].todo = todo
        /\ \A w \in Workers \ {d} : calls'[w] = calls[w]
    <3>1. Calls
      BY DEF TypeInv
    <3>2. QED
      BY <1>2, <2>1, <3>1, BeginEffect, ZenonT(40)
  <2>3. QED
    BY <1>1, <2>2
<1>3. ASSUME NEW d \in Clients, Controlling(d) PROVE FALSE
  <2>1. "put" # "publish" /\ "delete" # "publish"
    OBVIOUS
  <2>2. PICK verb, on, todo : Begin(d, verb, on, todo) /\ verb # "publish"
    BY <1>3, <2>1, Zenon DEF Controlling
  <2>3. QED
    BY <1>2, <2>2
<1>4. ASSUME calls'[c] = calls[c] \/ calls'[c] = Idle PROVE FALSE
  BY <1>1, <1>4 DEF Idle
<1>5. ASSUME NEW w \in Workers, Write(w) PROVE FALSE
  <2>1. Busy(w) /\ \A v \in Workers \ {w} : calls'[v] = calls[v]
    BY <1>5, WriteEffect DEF TypeInv
  <2>2. QED
    BY <1>1, <1>4, <2>1
<1>6. ASSUME Crash PROVE FALSE
  BY <1>1, <1>4, <1>6 DEF Crash
<1>7. ASSUME NEW k \in DOMAIN docs \intersect MessageKeys, Expire(k) PROVE FALSE
  BY <1>4, <1>7, ExpireEffect
<1>8. ASSUME UNCHANGED vars PROVE FALSE
  BY <1>4, <1>8 DEF vars, store
<1>9. PICK d \in Clients : Serving(d)
  BY <1>3, <1>5, <1>6, <1>7, <1>8, StepForms
<1>10. PICK t, copies : t = calls'[c].on /\ copies = calls'[c].todo
  OBVIOUS
<1>11. Copied(t, copies)
  BY <1>2, <1>9, <1>10 DEF Serving
<1>12. ASSUME SubscriptionsOf(t[2]) = StoredSubscriptions(t)
       PROVE  /\ Len(copies) = Cardinality(StoredSubscriptions(t))
              /\ {Front(copies[i].key) : i \in DOMAIN copies}
                    = {SubscriptionMessagePrefix(<<k[3], k[4], k[5]>>) : k \in StoredSubscriptions(t)}
  <2>1. \A k \in StoredSubscriptions(t) :
           SubscriptionMessagePrefix(<<k[3], k[4], k[5]>>) = SubscriptionMessagePrefix(<<t[1], t[2], k[5]>>)
    BY StoredSubscriptionNames, Zenon
  <2>2. {SubscriptionMessagePrefix(<<k[3], k[4], k[5]>>) : k \in StoredSubscriptions(t)}
           = {SubscriptionMessagePrefix(<<t[1], t[2], k[5]>>) : k \in StoredSubscriptions(t)}
    BY <2>1
  <2>3. QED
    BY <1>11, <1>12, <2>2, Zenon DEF Copied
<1>13. QED
  BY <1>10, <1>12, Zenon DEF Copies

\* A message sent to a topic is written once for each of its subscriptions,
\* under the prefix of each, and nowhere else, whatever requests overlap and
\* whenever the process ends, unless another namespace has a topic of that
\* name with subscriptions.
THEOREM OneCopyEach == Spec => OneCopyPerSubscription
<1>1. TypeInv /\ [Next]_vars => \A c \in Clients : Copies(c)
  BY CopiesMade
<1>2. TypeInv /\ [Next]_vars =>
         [\A c \in Clients :
            LET t == calls'[c].on
                copies == calls'[c].todo
            IN  ~Busy(c) /\ calls'[c].verb = "publish" /\ SubscriptionsOf(t[2]) = StoredSubscriptions(t) =>
                   /\ Len(copies) = Cardinality(StoredSubscriptions(t))
                   /\ {Front(copies[i].key) : i \in DOMAIN copies}
                         = {SubscriptionMessagePrefix(<<k[3], k[4], k[5]>>) : k \in StoredSubscriptions(t)}]_vars
  BY <1>1 DEF Copies
<1>3. QED
  BY <1>2, TypeInit, TypeStep, PTL DEF Spec, OneCopyPerSubscription
=============================================================================
