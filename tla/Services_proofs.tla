-------------------------- MODULE Services_proofs --------------------------
(***************************************************************************)
(* The safety properties of Services, for any names, requests, clients and *)
(* couriers.  Every handler is first brought to one of a few forms         *)
(* (Request), by what it leaves to write; the properties are then proved   *)
(* about those forms, with the invariants                                  *)
(*                                                                         *)
(*   FormInv     keys, documents and pending writes have their form        *)
(*   AloneInv    when requests do not overlap, one client's call goes on   *)
(*   OrphanInv   what lies in a document is stored, and goes, in order     *)
(*   LedInv      entries of an index come after what they lead to          *)
(*   KeptInv     a PUT was computed from the document still stored         *)
(*   SurviveInv  a pending write takes only what its call names            *)
(***************************************************************************)
EXTENDS Services, ArmStore_proofs

\* Who calls when requests do not overlap.
First == CHOOSE c \in Clients : TRUE

-----------------------------------------------------------------------------
(* The kinds of documents *)

\* Those that keep a list of other resources, with its field.
ListFields ==
    {<<"network.virtualnetworks", "subnets">>, <<"network.nsgs", "rules">>,
     <<"network.routetables", "routes">>, <<"network.privatednszones", "records">>}

NestedKinds == {f[1] : f \in ListFields}

\* Those deleted with what lies in them, and those that lie in another one.
OuterKinds ==
    {"apimanagement.services", "apimanagement.apis", "apimanagement.products",
     "blob.containers", "table.tables", "aks.managedclusters"}

InnerKinds == DOMAIN Outer \union {"aks.agentpools"}

\* Those that a data plane finds through its index.
IndexedKinds == {"cosmosdb.containers", "eventgrid.topics"}

\* Keys are sequences, and those of the kinds that the properties are about
\* have so many names.
KeyForm(k) ==
    /\ IsList(k) /\ k # <<>>
    /\ Head(k) \in NestedKinds \union {"eventgrid.dataplane.topics"} => k = <<Head(k), k[2]>>
    /\ Head(k) \in {"apimanagement.apis", "apimanagement.products", "apimanagement.subscriptions",
                    "blob.blobs", "table.entities", "aks.agentpools"} => k = <<Head(k), k[2], k[3]>>
    /\ Head(k) \in {"apimanagement.operations", "apimanagement.productapis"} => k = <<Head(k), k[2], k[3], k[4]>>
    /\ Head(k) = "cosmosdb.dataplane.containers" => k = <<Head(k), k[2], k[3], k[4]>>

\* The document that another one lies in.
OuterOf(k) == <<Outer[Head(k)][1]>> \o SubSeq(k, 2, Outer[Head(k)][2])

-----------------------------------------------------------------------------
(* What requests ask *)

\* A document that keeps a list keeps the one it has.
ListKept(k, d) ==
    \A f \in ListFields : Head(k) = f[1] =>
        LET list == Kept(k, f[2], <<>>)
        IN  IF Head(k) = "network.privatednszones"
            THEN d = [body |-> d.body, records |-> list, count |-> Len(list)]
            ELSE \/ f[2] = "subnets" /\ d = [body |-> d.body, subnets |-> list]
                 \/ f[2] = "rules" /\ d = [body |-> d.body, rules |-> list]
                 \/ f[2] = "routes" /\ d = [body |-> d.body, routes |-> list]

\* It lies in one that is stored.
OuterStored(k) ==
    /\ Head(k) \in DOMAIN Outer => Has(OuterOf(k))
    /\ Head(k) = "aks.agentpools" => Has(Cluster(k[2]))

\* It keeps what a PUT or a merge does not change.
FieldsKept(verb, k, d) ==
    Has(k) =>
       /\ verb = "put" /\ Head(k) \in DOMAIN Lasting => d[Lasting[Head(k)]] = docs[k][Lasting[Head(k)]]
       /\ verb = "merge" => DOMAIN docs[k].properties \subseteq DOMAIN d.properties

\* One document is put.
OnePut(c) ==
    \E verb, k, d :
       /\ Begin(c, verb, k, <<Store(k, d)>>)
       /\ verb \in {"put", "insert", "merge", "set"}
       /\ Head(k) \notin Indexes \union IndexedKinds \union {"aks.managedclusters"}
       /\ KeyForm(k) /\ ListKept(k, d) /\ OuterStored(k) /\ FieldsKept(verb, k, d)
       /\ verb = "merge" => Head(k) = "table.entities"

\* One document is deleted, which none lies in.
OneDrop(c) ==
    \E k :
       /\ Begin(c, "delete", k, <<Drop(k)>>)
       /\ Head(k) \notin Indexes \union IndexedKinds \union OuterKinds
       /\ IsList(k) /\ k # <<>>

\* An entry of a list is put or deleted.
EntryPut(c) ==
    \/ \E v, s : \E prefix \in Ranges : PutSubnet(c, v, s, prefix)
    \/ \E n, r, priority : PutSecurityRule(c, n, r, priority)
    \/ \E n, r, hop : PutRoute(c, n, r, hop)
    \/ \E n, r, ttl : PutPrivateDNSRecordSet(c, n, r, ttl)
EntryDrop(c) ==
    \/ \E v, s : DeleteSubnet(c, v, s)
    \/ \E n, r : DeleteSecurityRule(c, n, r)
    \/ \E n, r : DeleteRoute(c, n, r)
    \/ \E n, r : DeletePrivateDNSRecordSet(c, n, r)

\* A document is put or deleted with its entry in an index.
IndexedPut(c) ==
    \/ \E g \in Groups : \E a, d, n, paths : PutContainer(c, g, a, d, n, paths)
    \/ \E g, t : PutTopic(c, g, t)
IndexedDrop(c) ==
    \/ \E g, a, d, n : DeleteContainer(c, g, a, d, n)
    \/ \E g, t : DeleteTopic(c, g, t)

\* A deletion in cascade.
Cascade(c) ==
    \/ \E s : DeleteService(c, s)
    \/ \E s, a : DeleteAPI(c, s, a)
    \/ \E s, p : DeleteProduct(c, s, p)
    \/ \E n : DeleteBlobContainer(c, n)
    \/ \E n : DeleteTable(c, n)
    \/ \E k : DeleteManagedCluster(c, k)

ClusterPut(c) ==
    \E k, requested : IsFiniteSet(DOMAIN requested) /\ PutManagedCluster(c, k, requested)

Request(c) ==
    \/ OnePut(c) \/ OneDrop(c)
    \/ EntryPut(c) \/ EntryDrop(c)
    \/ IndexedPut(c) \/ IndexedDrop(c)
    \/ Cascade(c) \/ ClusterPut(c)
    \/ \E s : DeleteSite(c, s)
    \/ \E a : CreateNotifications(c, a)

-----------------------------------------------------------------------------
(* Every request is one of those *)

\* The kinds that no property tells from others.
SpecialKinds ==
    {"network.virtualnetworks", "network.nsgs", "network.routetables", "network.privatednszones",
     "sql.databases", "keyvault.secrets", "containerregistry.registries", "sql.servers", "appservice.sites",
     "apimanagement.operations", "apimanagement.productapis", "apimanagement.apis", "apimanagement.products",
     "apimanagement.subscriptions", "blob.blobs", "table.entities", "aks.agentpools", "aks.managedclusters",
     "cosmosdb.dataplane.containers", "eventgrid.dataplane.topics", "cosmosdb.containers", "eventgrid.topics"}

LEMMA KindSets ==
  /\ NestedKinds = {"network.virtualnetworks", "network.nsgs", "network.routetables", "network.privatednszones"}
  /\ DOMAIN Outer = {"apimanagement.operations", "apimanagement.productapis", "apimanagement.apis",
                 "apimanagement.products", "apimanagement.subscriptions", "blob.blobs", "table.entities"}
  /\ DOMAIN Lasting = {"sql.databases", "keyvault.secrets", "containerregistry.registries", "sql.servers",
                 "appservice.sites"}
<1>1. NestedKinds = {"network.virtualnetworks", "network.nsgs", "network.routetables", "network.privatednszones"}
  BY DEF NestedKinds, ListFields
<1>2. QED
  BY <1>1 DEF Outer, Lasting

LEMMA PlainPut ==
  ASSUME NEW c, NEW k, NEW d, Putting(c, k, d), Head(k) \notin SpecialKinds, IsList(k), k # <<>>
  PROVE  Request(c)
<1>1. KeyForm(k) /\ OuterStored(k) /\ FieldsKept("put", k, d)
  BY KindSets DEF KeyForm, OuterStored, FieldsKept, SpecialKinds
<1>2. ListKept(k, d)
  BY DEF ListKept, ListFields, SpecialKinds
<1>3. Head(k) \notin Indexes \union IndexedKinds \union {"aks.managedclusters"}
  BY DEF SpecialKinds, Indexes, IndexedKinds
<1>4. OnePut(c)
  BY <1>1, <1>2, <1>3 DEF OnePut, Putting
<1>5. QED
  BY <1>4 DEF Request

LEMMA PlainDrop ==
  ASSUME NEW c, NEW k, Begin(c, "delete", k, <<Drop(k)>>),
         Head(k) \notin Indexes \union IndexedKinds \union OuterKinds, IsList(k), k # <<>>
  PROVE  Request(c)
<1>1. OneDrop(c)
  BY DEF OneDrop
<1>2. QED
  BY <1>1 DEF Request

\* The keys of one, two, three and four names.
LEMMA Tuples ==
  /\ \A b, x : Head(<<b, x>>) = b /\ IsList(<<b, x>>) /\ <<b, x>> # <<>>
  /\ \A b, x, y : Head(<<b, x, y>>) = b /\ IsList(<<b, x, y>>) /\ <<b, x, y>> # <<>>
  /\ \A b, x, y, z : Head(<<b, x, y, z>>) = b /\ IsList(<<b, x, y, z>>) /\ <<b, x, y, z>> # <<>>
  /\ \A b, x, y, z, u : Head(<<b, x, y, z, u>>) = b /\ IsList(<<b, x, y, z, u>>) /\ <<b, x, y, z, u>> # <<>>
<1>1. \A b, x : IsList(<<b, x>>)
  <2> TAKE b, x
  <2>1. <<b, x>> \in Seq({b, x})
    OBVIOUS
  <2>2. QED
    BY <2>1, Zenon DEF IsList
<1>2. \A b, x, y : IsList(<<b, x, y>>)
  <2> TAKE b, x, y
  <2>1. <<b, x, y>> \in Seq({b, x, y})
    OBVIOUS
  <2>2. QED
    BY <2>1, Zenon DEF IsList
<1>3. \A b, x, y, z : IsList(<<b, x, y, z>>)
  <2> TAKE b, x, y, z
  <2>1. <<b, x, y, z>> \in Seq({b, x, y, z})
    OBVIOUS
  <2>2. QED
    BY <2>1, Zenon DEF IsList
<1>4. \A b, x, y, z, u : IsList(<<b, x, y, z, u>>)
  <2> TAKE b, x, y, z, u
  <2>1. <<b, x, y, z, u>> \in Seq({b, x, y, z, u})
    OBVIOUS
  <2>2. QED
    BY <2>1, Zenon DEF IsList
<1>5. QED
  BY <1>1, <1>2, <1>3, <1>4

LEMMA AddressRequests ==
  ASSUME NEW c, AddressNext(c)
  PROVE  Request(c)
<1>1. ASSUME NEW v, NEW b, PutVirtualNetwork(c, v, b)
      PROVE  Request(c)
  <2>1. PICK k, d : k = VNet(v) /\ d = [body |-> b, subnets |-> Kept(VNet(v), "subnets", <<>>)]
    BY Zenon
  <2>2. k = <<"network.virtualnetworks", v>> /\ Head(k) = "network.virtualnetworks" /\ IsList(k) /\ k # <<>>
    BY <2>1, Tuples DEF VNet
  <2>3. KeyForm(k) /\ OuterStored(k) /\ FieldsKept("put", k, d)
    BY <2>2, KindSets DEF KeyForm, OuterStored, FieldsKept
  <2>4. ListKept(k, d)
    BY <2>1, <2>2 DEF ListKept, ListFields
  <2>5. Head(k) \notin Indexes \union IndexedKinds \union {"aks.managedclusters"}
    BY <2>2 DEF Indexes, IndexedKinds
  <2>6. OnePut(c)
    BY <1>1, <2>1, <2>2, <2>3, <2>4, <2>5 DEF OnePut, PutVirtualNetwork, Putting
  <2>7. QED
    BY <2>6 DEF Request
<1>2. ASSUME NEW v, DeleteVirtualNetwork(c, v) PROVE Request(c)
  BY <1>2, PlainDrop, Tuples DEF DeleteVirtualNetwork, Deleting, VNet, Indexes, IndexedKinds, OuterKinds
<1>3. ASSUME NEW v, NEW s, NEW p \in Ranges, PutSubnet(c, v, s, p) PROVE Request(c)
  BY <1>3 DEF Request, EntryPut
<1>4. ASSUME NEW v, NEW s, DeleteSubnet(c, v, s) PROVE Request(c)
  BY <1>4 DEF Request, EntryDrop
<1>5. QED
  BY <1>1, <1>2, <1>3, <1>4 DEF AddressNext

LEMMA PlainSet ==
  ASSUME NEW c, NEW k, NEW d, Begin(c, "set", k, <<Store(k, d)>>), Head(k) \notin SpecialKinds, IsList(k), k # <<>>
  PROVE  Request(c)
<1>1. KeyForm(k) /\ OuterStored(k) /\ FieldsKept("set", k, d)
  BY KindSets DEF KeyForm, OuterStored, FieldsKept, SpecialKinds
<1>2. ListKept(k, d)
  BY DEF ListKept, ListFields, SpecialKinds
<1>3. Head(k) \notin Indexes \union IndexedKinds \union {"aks.managedclusters"}
  BY DEF SpecialKinds, Indexes, IndexedKinds
<1>4. OnePut(c)
  BY <1>1, <1>2, <1>3 DEF OnePut
<1>5. QED
  BY <1>4 DEF Request

LEMMA PrependedOne == \A a, b : <<a>> \o <<b>> = <<a, b>>
<1> TAKE a, b
<1>1. PICK t : t = <<b>>
  BY Zenon
<1>2. t \in Seq({b}) /\ Len(t) = 1 /\ t[1] = b
  BY <1>1
<1>3. /\ <<a>> \o t \in Seq({b} \union {a}) /\ Len(<<a>> \o t) = Len(t) + 1 /\ (<<a>> \o t)[1] = a
      /\ \A i \in 1..Len(t) : (<<a>> \o t)[i + 1] = t[i]
  <2>1. PICK S : S = {b}
    BY Zenon
  <2>2. t \in Seq(S)
    BY <1>2, <2>1
  <2>3. /\ <<a>> \o t \in Seq(S \union {a}) /\ Len(<<a>> \o t) = Len(t) + 1 /\ (<<a>> \o t)[1] = a
        /\ \A i \in 1..Len(t) : (<<a>> \o t)[i + 1] = t[i]
    BY <2>2, Prepended
  <2>4. QED
    BY <2>1, <2>3
<1>4. (<<a>> \o t)[1 + 1] = b
  BY <1>2, <1>3
<1>5. PICK s : s = <<a>> \o t
  BY Zenon
<1>6. s \in Seq({b, a}) /\ Len(s) = 2 /\ s[1] = a /\ s[2] = b
  BY <1>2, <1>3, <1>4, <1>5
<1>7. s = <<a, b>>
  BY <1>6
<1>8. QED
  BY <1>1, <1>5, <1>7, Zenon

\* The document that a nested one lies in, spelled out.
LEMMA OuterKeys ==
  /\ \A s, a : OuterOf(<<"apimanagement.apis", s, a>>) = ApimService(s)
  /\ \A s, a : OuterOf(<<"apimanagement.products", s, a>>) = ApimService(s)
  /\ \A s, a : OuterOf(<<"apimanagement.subscriptions", s, a>>) = ApimService(s)
  /\ \A s, a, o : OuterOf(<<"apimanagement.operations", s, a, o>>) = Api(s, a)
  /\ \A s, a, o : OuterOf(<<"apimanagement.productapis", s, a, o>>) = Product(s, a)
  /\ \A s, a : OuterOf(<<"blob.blobs", s, a>>) = BlobContainer(s)
  /\ \A s, a : OuterOf(<<"table.entities", s, a>>) = Table(s)
<1>1. ASSUME NEW b, NEW s, NEW a, NEW k, k = <<b, s, a>> PROVE SubSeq(k, 2, 2) = <<s>> /\ Head(k) = b
  <2>1. k \in Seq({b, s, a}) /\ Len(k) = 3 /\ k[2] = s /\ Head(k) = b
    BY <1>1
  <2>2. PICK S : k \in Seq(S)
    BY <2>1
  <2>3. SubSeq(k, 2, 2) \in Seq(S) /\ Len(SubSeq(k, 2, 2)) = 1 /\ SubSeq(k, 2, 2)[1] = s
    BY <2>1, <2>2, SubSeqProperties
  <2>4. PICK u : u = SubSeq(k, 2, 2)
    BY Zenon
  <2>5. u \in Seq(S) /\ Len(u) = 1 /\ u[1] = s
    BY <2>3, <2>4
  <2>6. u = <<s>>
    BY <2>5
  <2>7. QED
    BY <2>1, <2>4, <2>6, Zenon
<1>2. ASSUME NEW b, NEW s, NEW a, NEW o, NEW k, k = <<b, s, a, o>> PROVE SubSeq(k, 2, 3) = <<s, a>> /\ Head(k) = b
  <2>1. k \in Seq({b, s, a, o}) /\ Len(k) = 4 /\ k[2] = s /\ k[3] = a /\ Head(k) = b
    BY <1>2
  <2>2. PICK S : k \in Seq(S)
    BY <2>1
  <2>3. /\ SubSeq(k, 2, 3) \in Seq(S) /\ Len(SubSeq(k, 2, 3)) = 2
        /\ SubSeq(k, 2, 3)[1] = s /\ SubSeq(k, 2, 3)[2] = a
    BY <2>1, <2>2, SubSeqProperties
  <2>4. PICK u : u = SubSeq(k, 2, 3)
    BY Zenon
  <2>5. u \in Seq(S) /\ Len(u) = 2 /\ u[1] = s /\ u[2] = a
    BY <2>3, <2>4
  <2>6. u = <<s, a>>
    BY <2>5
  <2>7. QED
    BY <2>1, <2>4, <2>6, Zenon
<1>3. /\ Outer["apimanagement.operations"][1] = "apimanagement.apis" /\ Outer["apimanagement.operations"][2] = 3
      /\ Outer["apimanagement.productapis"][1] = "apimanagement.products" /\ Outer["apimanagement.productapis"][2] = 3
      /\ Outer["blob.blobs"][1] = "blob.containers" /\ Outer["blob.blobs"][2] = 2
      /\ Outer["table.entities"][1] = "table.tables" /\ Outer["table.entities"][2] = 2
      /\ \A b \in {"apimanagement.apis", "apimanagement.products", "apimanagement.subscriptions"} :
            Outer[b][1] = "apimanagement.services" /\ Outer[b][2] = 2
  BY DEF Outer
<1>4. ASSUME NEW b, NEW x, NEW s, NEW a, Outer[b][1] = x, Outer[b][2] = 2
      PROVE  OuterOf(<<b, s, a>>) = <<x, s>>
  <2>1. PICK k : k = <<b, s, a>>
    BY Zenon
  <2>2. SubSeq(k, 2, 2) = <<s>> /\ Head(k) = b
    BY <1>1, <2>1
  <2>3. OuterOf(k) = <<x>> \o <<s>>
    BY <1>4, <2>2, Zenon DEF OuterOf
  <2>4. QED
    BY <2>1, <2>3, PrependedOne, Zenon
<1>5. ASSUME NEW b, NEW x, NEW s, NEW a, NEW o, Outer[b][1] = x, Outer[b][2] = 3
      PROVE  OuterOf(<<b, s, a, o>>) = <<x, s, a>>
  <2>1. PICK k : k = <<b, s, a, o>>
    BY Zenon
  <2>2. SubSeq(k, 2, 3) = <<s, a>> /\ Head(k) = b
    BY <1>2, <2>1
  <2>3. OuterOf(k) = <<x>> \o <<s, a>>
    BY <1>5, <2>2, Zenon DEF OuterOf
  <2>4. QED
    BY <2>1, <2>3, PrependedPair, Zenon
<1>6. QED
  BY <1>3, <1>4, <1>5 DEF ApimService, Api, Product, BlobContainer, Table

LEMMA EdgeRequests ==
  ASSUME NEW c, EdgeNext(c)
  PROVE  Request(c)
<1>1. ASSUME NEW n, NEW b, PutLoadBalancer(c, n, b) PROVE Request(c)
  BY <1>1, PlainPut, Tuples DEF PutLoadBalancer, LoadBalancer, SpecialKinds
<1>2. ASSUME NEW n, NEW b, PutPublicIP(c, n, b) PROVE Request(c)
  BY <1>2, PlainPut, Tuples DEF PutPublicIP, PublicIP, SpecialKinds
<1>3. ASSUME NEW n, DeleteLoadBalancer(c, n) PROVE Request(c)
  BY <1>3, PlainDrop, Tuples DEF DeleteLoadBalancer, LoadBalancer, Deleting, Indexes, IndexedKinds, OuterKinds
<1>4. ASSUME NEW n, DeletePublicIP(c, n) PROVE Request(c)
  BY <1>4, PlainDrop, Tuples DEF DeletePublicIP, PublicIP, Deleting, Indexes, IndexedKinds, OuterKinds
<1>5. QED
  BY <1>1, <1>2, <1>3, <1>4 DEF EdgeNext

LEMMA MachineRequests ==
  ASSUME NEW c, ComputeNext(c)
  PROVE  Request(c)
<1>1. ASSUME NEW m, NEW nics, NEW ref, NEW t, PutVirtualMachine(c, m, nics, ref, t) PROVE Request(c)
  BY <1>1, PlainPut, Tuples DEF PutVirtualMachine, VM, SpecialKinds
<1>2. ASSUME NEW m, DeleteVirtualMachine(c, m) PROVE Request(c)
  BY <1>2, PlainDrop, Tuples DEF DeleteVirtualMachine, VM, Deleting, Indexes, IndexedKinds, OuterKinds
<1>3. ASSUME NEW m, NEW power, SetPowerState(c, m, power) PROVE Request(c)
  <2>1. \E d : Begin(c, "set", VM(m), <<Store(VM(m), d)>>)
    BY <1>3 DEF SetPowerState
  <2>2. QED
    BY <2>1, PlainSet, Tuples DEF VM, SpecialKinds
<1>4. ASSUME NEW m, DeleteDisk(c, m) PROVE Request(c)
  BY <1>4, PlainDrop, Tuples DEF DeleteDisk, Disk, Deleting, Indexes, IndexedKinds, OuterKinds
<1>5. ASSUME NEW m, NEW option, NEW size, PutDisk(c, m, option, size) PROVE Request(c)
  <2>1. \E d : Putting(c, Disk(m), d)
    BY <1>5, Zenon DEF PutDisk
  <2>2. QED
    BY <2>1, PlainPut, Tuples DEF Disk, SpecialKinds
<1>6. QED
  BY <1>1, <1>2, <1>3, <1>4, <1>5, Zenon DEF ComputeNext, StartVirtualMachine, PowerOffVirtualMachine

LEMMA IdentityRequests ==
  ASSUME NEW c, IdentityNext(c)
  PROVE  Request(c)
<1>1. ASSUME NEW r, NEW s, PutRoleDefinition(c, r, s) PROVE Request(c)
  BY <1>1, PlainPut, Tuples DEF PutRoleDefinition, RoleDefinition, SpecialKinds
<1>2. ASSUME NEW r, DeleteRoleDefinition(c, r) PROVE Request(c)
  BY <1>2, PlainDrop, Tuples DEF DeleteRoleDefinition, RoleDefinition, Deleting, Indexes, IndexedKinds, OuterKinds
<1>3. ASSUME NEW s, NEW r, NEW a, NEW b, PutRoleAssignment(c, s, r, a, b) PROVE Request(c)
  <2>1. \E d : Putting(c, RoleAssignment(s, r), d)
    BY <1>3, Zenon DEF PutRoleAssignment
  <2>2. QED
    BY <2>1, PlainPut, Tuples DEF RoleAssignment, SpecialKinds
<1>4. ASSUME NEW s, NEW r, DeleteRoleAssignment(c, s, r) PROVE Request(c)
  BY <1>4, PlainDrop, Tuples DEF DeleteRoleAssignment, RoleAssignment, Deleting, Indexes, IndexedKinds, OuterKinds
<1>5. ASSUME NEW r, NEW tags, PutUserAssignedIdentity(c, r, tags) PROVE Request(c)
  BY <1>5, PlainPut, Tuples DEF PutUserAssignedIdentity, Identity, SpecialKinds
<1>6. ASSUME NEW r, DeleteUserAssignedIdentity(c, r) PROVE Request(c)
  BY <1>6, PlainDrop, Tuples DEF DeleteUserAssignedIdentity, Identity, Deleting, Indexes, IndexedKinds, OuterKinds
<1>7. QED
  BY <1>1, <1>2, <1>3, <1>4, <1>5, <1>6 DEF IdentityNext

LEMMA GraphRequests ==
  ASSUME NEW c, GraphNext(c)
  PROVE  Request(c)
<1>1. ASSUME NEW name, CreateApplication(c, name) PROVE Request(c)
  BY <1>1, PlainPut, Tuples DEF CreateApplication, Application, Putting, SpecialKinds
<1>2. ASSUME NEW id, DeleteApplication(c, id) PROVE Request(c)
  BY <1>2, PlainDrop, Tuples DEF DeleteApplication, Application, Deleting, Indexes, IndexedKinds, OuterKinds
<1>3. ASSUME NEW id, NEW name, CreateServicePrincipal(c, id, name) PROVE Request(c)
  BY <1>3, PlainPut, Tuples DEF CreateServicePrincipal, ServicePrincipal, SpecialKinds
<1>4. ASSUME NEW id, DeleteServicePrincipal(c, id) PROVE Request(c)
  BY <1>4, PlainDrop, Tuples DEF DeleteServicePrincipal, ServicePrincipal, Deleting, Indexes, IndexedKinds, OuterKinds
<1>5. QED
  BY <1>1, <1>2, <1>3, <1>4 DEF GraphNext

LEMMA MonitorRequests ==
  ASSUME NEW c, MonitorNext(c)
  PROVE  Request(c)
<1>1. ASSUME NEW a, NEW on, NEW rs, PutActionGroup(c, a, on, rs) PROVE Request(c)
  BY <1>1, PlainPut, Tuples DEF PutActionGroup, ActionGroup, SpecialKinds
<1>2. ASSUME NEW a, DeleteActionGroup(c, a) PROVE Request(c)
  BY <1>2, PlainDrop, Tuples DEF DeleteActionGroup, ActionGroup, Deleting, Indexes, IndexedKinds, OuterKinds
<1>3. ASSUME NEW a, CreateNotifications(c, a) PROVE Request(c)
  BY <1>3 DEF Request
<1>4. ASSUME NEW a, NEW scopes, NEW severity, PutMetricAlert(c, a, scopes, severity) PROVE Request(c)
  BY <1>4, PlainPut, Tuples DEF PutMetricAlert, MetricAlert, SpecialKinds
<1>5. ASSUME NEW a, DeleteMetricAlert(c, a) PROVE Request(c)
  BY <1>5, PlainDrop, Tuples DEF DeleteMetricAlert, MetricAlert, Deleting, Indexes, IndexedKinds, OuterKinds
<1>6. ASSUME NEW a, NEW days, PutWorkspace(c, a, days) PROVE Request(c)
  <2>1. \E doc : Putting(c, Workspace(a), doc)
    BY <1>6, Zenon DEF PutWorkspace
  <2>2. QED
    BY <2>1, PlainPut, Tuples DEF Workspace, SpecialKinds
<1>7. ASSUME NEW a, DeleteWorkspace(c, a) PROVE Request(c)
  BY <1>7, PlainDrop, Tuples DEF DeleteWorkspace, Workspace, Deleting, Indexes, IndexedKinds, OuterKinds
<1>8. QED
  BY <1>1, <1>2, <1>3, <1>4, <1>5, <1>6, <1>7 DEF MonitorNext

LEMMA NSGRequests ==
  ASSUME NEW c, NSGNext(c)
  PROVE  Request(c)
<1>1. ASSUME NEW n, NEW b, PutNSG(c, n, b) PROVE Request(c)
  <2>1. PICK k, d, verb : k = NSG(n) /\ Begin(c, verb, k, <<Store(k, d)>>) /\ verb = "put" /\ d = [body |-> b, rules |-> Kept(NSG(n), "rules", <<>>)]
    BY <1>1 DEF PutNSG, Putting, Kept
  <2>2. k = <<"network.nsgs", n>> /\ Head(k) = "network.nsgs" /\ IsList(k) /\ k # <<>>
    BY <2>1, Tuples DEF NSG
  <2>3. KeyForm(k)
    BY <2>2, KindSets DEF KeyForm
  <2>4. OuterStored(k)
    BY <2>2, KindSets DEF OuterStored
  <2>5. FieldsKept(verb, k, d)
    BY <2>1, <2>2, KindSets DEF FieldsKept, Lasting
  <2>6. ListKept(k, d)
    BY <2>1, <2>2 DEF ListKept, ListFields
  <2>7. Head(k) \notin Indexes \union IndexedKinds \union {"aks.managedclusters"}
    BY <2>2 DEF Indexes, IndexedKinds
  <2>8. OnePut(c)
    BY <2>1, <2>2, <2>3, <2>4, <2>5, <2>6, <2>7 DEF OnePut
  <2>9. QED
    BY <2>8 DEF Request
<1>2. ASSUME NEW n, DeleteNSG(c, n) PROVE Request(c)
  BY <1>2, PlainDrop, Tuples DEF DeleteNSG, NSG, Deleting, Indexes, IndexedKinds, OuterKinds
<1>3. ASSUME NEW n, NEW r, NEW p, PutSecurityRule(c, n, r, p) PROVE Request(c)
  BY <1>3 DEF Request, EntryPut
<1>4. ASSUME NEW n, NEW r, DeleteSecurityRule(c, n, r) PROVE Request(c)
  BY <1>4 DEF Request, EntryDrop
<1>5. QED
  BY <1>1, <1>2, <1>3, <1>4 DEF NSGNext

LEMMA RouteRequests ==
  ASSUME NEW c, RouteNext(c)
  PROVE  Request(c)
<1>1. ASSUME NEW n, NEW b, PutRouteTable(c, n, b) PROVE Request(c)
  <2>1. PICK k, d, verb : k = RouteTable(n) /\ Begin(c, verb, k, <<Store(k, d)>>) /\ verb = "put" /\ d = [body |-> b, routes |-> Kept(RouteTable(n), "routes", <<>>)]
    BY <1>1 DEF PutRouteTable, Putting, Kept
  <2>2. k = <<"network.routetables", n>> /\ Head(k) = "network.routetables" /\ IsList(k) /\ k # <<>>
    BY <2>1, Tuples DEF RouteTable
  <2>3. KeyForm(k)
    BY <2>2, KindSets DEF KeyForm
  <2>4. OuterStored(k)
    BY <2>2, KindSets DEF OuterStored
  <2>5. FieldsKept(verb, k, d)
    BY <2>1, <2>2, KindSets DEF FieldsKept, Lasting
  <2>6. ListKept(k, d)
    BY <2>1, <2>2 DEF ListKept, ListFields
  <2>7. Head(k) \notin Indexes \union IndexedKinds \union {"aks.managedclusters"}
    BY <2>2 DEF Indexes, IndexedKinds
  <2>8. OnePut(c)
    BY <2>1, <2>2, <2>3, <2>4, <2>5, <2>6, <2>7 DEF OnePut
  <2>9. QED
    BY <2>8 DEF Request
<1>2. ASSUME NEW n, DeleteRouteTable(c, n) PROVE Request(c)
  BY <1>2, PlainDrop, Tuples DEF DeleteRouteTable, RouteTable, Deleting, Indexes, IndexedKinds, OuterKinds
<1>3. ASSUME NEW n, NEW r, NEW hop, PutRoute(c, n, r, hop) PROVE Request(c)
  BY <1>3 DEF Request, EntryPut
<1>4. ASSUME NEW n, NEW r, DeleteRoute(c, n, r) PROVE Request(c)
  BY <1>4 DEF Request, EntryDrop
<1>5. QED
  BY <1>1, <1>2, <1>3, <1>4 DEF RouteNext

LEMMA DNSRequests ==
  ASSUME NEW c, DNSNext(c)
  PROVE  Request(c)
<1>1. ASSUME NEW n, NEW b, PutPrivateDNSZone(c, n, b) PROVE Request(c)
  <2>1. PICK k, d, verb : k = Zone(n) /\ Begin(c, verb, k, <<Store(k, d)>>) /\ verb = "put"
                                /\ d = [body |-> b, records |-> Kept(Zone(n), "records", <<>>), count |-> Len(Kept(Zone(n), "records", <<>>))]
    BY <1>1 DEF PutPrivateDNSZone, Putting, Kept
  <2>2. k = <<"network.privatednszones", n>> /\ Head(k) = "network.privatednszones" /\ IsList(k) /\ k # <<>>
    BY <2>1, Tuples DEF Zone
  <2>3. KeyForm(k)
    BY <2>2, KindSets DEF KeyForm
  <2>4. OuterStored(k)
    BY <2>2, KindSets DEF OuterStored
  <2>5. FieldsKept(verb, k, d)
    BY <2>1, <2>2, KindSets DEF FieldsKept, Lasting
  <2>6. ListKept(k, d)
    BY <2>1, <2>2 DEF ListKept, ListFields
  <2>7. Head(k) \notin Indexes \union IndexedKinds \union {"aks.managedclusters"}
    BY <2>2 DEF Indexes, IndexedKinds
  <2>8. OnePut(c)
    BY <2>1, <2>2, <2>3, <2>4, <2>5, <2>6, <2>7 DEF OnePut
  <2>9. QED
    BY <2>8 DEF Request
<1>2. ASSUME NEW n, DeletePrivateDNSZone(c, n) PROVE Request(c)
  BY <1>2, PlainDrop, Tuples DEF DeletePrivateDNSZone, Zone, Deleting, Indexes, IndexedKinds, OuterKinds
<1>3. ASSUME NEW n, NEW r, NEW ttl, PutPrivateDNSRecordSet(c, n, r, ttl) PROVE Request(c)
  BY <1>3 DEF Request, EntryPut
<1>4. ASSUME NEW n, NEW r, DeletePrivateDNSRecordSet(c, n, r) PROVE Request(c)
  BY <1>4 DEF Request, EntryDrop
<1>5. QED
  BY <1>1, <1>2, <1>3, <1>4 DEF DNSNext

LEMMA SqlRequests ==
  ASSUME NEW c, SqlNext(c)
  PROVE  Request(c)
<1>1. ASSUME NEW s, NEW l, NEW tls, PutServer(c, s, l, tls) PROVE Request(c)
  <2>1. PICK k, d, verb : k = Server(s) /\ Begin(c, verb, k, <<Store(k, d)>>) /\ verb = "put"
                                /\ (Has(k) => d.login = docs[k].login)
    BY <1>1 DEF PutServer, Putting, Kept
  <2>2. k = <<"sql.servers", s>> /\ Head(k) = "sql.servers" /\ IsList(k) /\ k # <<>>
    BY <2>1, Tuples DEF Server
  <2>3. KeyForm(k)
    BY <2>2, KindSets DEF KeyForm
  <2>4. OuterStored(k)
    BY <2>2, KindSets DEF OuterStored
  <2>5. FieldsKept(verb, k, d)
    BY <2>1, <2>2, KindSets DEF FieldsKept, Lasting
  <2>6. ListKept(k, d)
    BY <2>1, <2>2 DEF ListKept, ListFields
  <2>7. Head(k) \notin Indexes \union IndexedKinds \union {"aks.managedclusters"}
    BY <2>2 DEF Indexes, IndexedKinds
  <2>8. OnePut(c)
    BY <2>1, <2>2, <2>3, <2>4, <2>5, <2>6, <2>7 DEF OnePut
  <2>9. QED
    BY <2>8 DEF Request
<1>2. ASSUME NEW s, DeleteServer(c, s) PROVE Request(c)
  BY <1>2, PlainDrop, Tuples DEF DeleteServer, Server, Deleting, Indexes, IndexedKinds, OuterKinds
<1>3. ASSUME NEW s, NEW n, NEW r, NEW sku, NEW day, PutDatabase(c, s, n, r, sku, day) PROVE Request(c)
  <2>1. PICK k, d, verb : k = Database(s, n) /\ Begin(c, verb, k, <<Store(k, d)>>) /\ verb = "put"
                                /\ (Has(k) => d.created = docs[k].created)
    <3>1. PICK k, redundancy, kind :
             Putting(c, k, [created |-> Kept(k, "created", day), redundancy |-> redundancy, sku |-> kind])
             /\ k = Database(s, n)
      BY <1>3, Zenon DEF PutDatabase
    <3>2. PICK d : d = [created |-> Kept(k, "created", day), redundancy |-> redundancy, sku |-> kind]
      BY Zenon
    <3>3. Has(k) => d.created = docs[k].created
      BY <3>2 DEF Kept
    <3>4. QED
      BY <3>1, <3>2, <3>3 DEF Putting
  <2>2. k = <<"sql.databases", s, n>> /\ Head(k) = "sql.databases" /\ IsList(k) /\ k # <<>>
    BY <2>1, Tuples DEF Database
  <2>3. KeyForm(k)
    BY <2>2, KindSets DEF KeyForm
  <2>4. OuterStored(k)
    BY <2>2, KindSets DEF OuterStored
  <2>5. FieldsKept(verb, k, d)
    BY <2>1, <2>2, KindSets DEF FieldsKept, Lasting
  <2>6. ListKept(k, d)
    BY <2>1, <2>2 DEF ListKept, ListFields
  <2>7. Head(k) \notin Indexes \union IndexedKinds \union {"aks.managedclusters"}
    BY <2>2 DEF Indexes, IndexedKinds
  <2>8. OnePut(c)
    BY <2>1, <2>2, <2>3, <2>4, <2>5, <2>6, <2>7 DEF OnePut
  <2>9. QED
    BY <2>8 DEF Request
<1>4. ASSUME NEW s, NEW d, DeleteDatabase(c, s, d) PROVE Request(c)
  BY <1>4, PlainDrop, Tuples DEF DeleteDatabase, Database, Deleting, Indexes, IndexedKinds, OuterKinds
<1>5. ASSUME NEW s, NEW d, NEW start, NEW end, PutFirewallRule(c, s, d, start, end) PROVE Request(c)
  <2>1. \E doc : Putting(c, FirewallRule(s, d), doc)
    BY <1>5, Zenon DEF PutFirewallRule
  <2>2. QED
    BY <2>1, PlainPut, Tuples DEF FirewallRule, SpecialKinds
<1>6. ASSUME NEW s, NEW d, DeleteFirewallRule(c, s, d) PROVE Request(c)
  BY <1>6, PlainDrop, Tuples DEF DeleteFirewallRule, FirewallRule, Deleting, Indexes, IndexedKinds, OuterKinds
<1>7. ASSUME NEW s, NEW p, NEW type, PutConnectionPolicy(c, s, p, type) PROVE Request(c)
  <2>1. \E doc : Putting(c, ConnectionPolicy(s, p), doc)
    BY <1>7, Zenon DEF PutConnectionPolicy
  <2>2. QED
    BY <2>1, PlainPut, Tuples DEF ConnectionPolicy, SpecialKinds
<1>8. QED
  BY <1>1, <1>2, <1>3, <1>4, <1>5, <1>6, <1>7, Zenon DEF SqlNext

LEMMA VaultRequests ==
  ASSUME NEW c, VaultNext(c)
  PROVE  Request(c)
<1>1. ASSUME NEW v, NEW b, PutVault(c, v, b) PROVE Request(c)
  BY <1>1, PlainPut, Tuples DEF PutVault, Vault, SpecialKinds
<1>2. ASSUME NEW v, DeleteVault(c, v) PROVE Request(c)
  BY <1>2, PlainDrop, Tuples DEF DeleteVault, Vault, Deleting, Indexes, IndexedKinds, OuterKinds
<1>3. ASSUME NEW v, NEW n, NEW x, NEW now, SetSecret(c, v, n, x, now) PROVE Request(c)
  <2>1. PICK k, d, verb : k = Secret(v, n) /\ Begin(c, verb, k, <<Store(k, d)>>) /\ verb = "put"
                                /\ (Has(k) => d.created = docs[k].created)
    BY <1>3 DEF SetSecret, Putting, Kept
  <2>2. k = <<"keyvault.secrets", v, n>> /\ Head(k) = "keyvault.secrets" /\ IsList(k) /\ k # <<>>
    BY <2>1, Tuples DEF Secret
  <2>3. KeyForm(k)
    BY <2>2, KindSets DEF KeyForm
  <2>4. OuterStored(k)
    BY <2>2, KindSets DEF OuterStored
  <2>5. FieldsKept(verb, k, d)
    BY <2>1, <2>2, KindSets DEF FieldsKept, Lasting
  <2>6. ListKept(k, d)
    BY <2>1, <2>2 DEF ListKept, ListFields
  <2>7. Head(k) \notin Indexes \union IndexedKinds \union {"aks.managedclusters"}
    BY <2>2 DEF Indexes, IndexedKinds
  <2>8. OnePut(c)
    BY <2>1, <2>2, <2>3, <2>4, <2>5, <2>6, <2>7 DEF OnePut
  <2>9. QED
    BY <2>8 DEF Request
<1>4. ASSUME NEW v, NEW n, NEW x, NEW now, CreateKey(c, v, n, x, now) PROVE Request(c)
  BY <1>4, PlainPut, Tuples DEF CreateKey, Key, SpecialKinds
<1>5. ASSUME NEW v, NEW n, NEW x, NEW now, CreateCertificate(c, v, n, x, now) PROVE Request(c)
  BY <1>5, PlainPut, Tuples DEF CreateCertificate, Certificate, SpecialKinds
<1>6. ASSUME NEW v, NEW n, DeleteSecret(c, v, n) PROVE Request(c)
  BY <1>6, PlainDrop, Tuples DEF DeleteSecret, Secret, Deleting, Indexes, IndexedKinds, OuterKinds
<1>7. ASSUME NEW v, NEW n, DeleteKey(c, v, n) PROVE Request(c)
  BY <1>7, PlainDrop, Tuples DEF DeleteKey, Key, Deleting, Indexes, IndexedKinds, OuterKinds
<1>8. ASSUME NEW v, NEW n, DeleteCertificate(c, v, n) PROVE Request(c)
  BY <1>8, PlainDrop, Tuples DEF DeleteCertificate, Certificate, Deleting, Indexes, IndexedKinds, OuterKinds
<1>9. QED
  BY <1>1, <1>2, <1>3, <1>4, <1>5, <1>6, <1>7, <1>8 DEF VaultNext

LEMMA CosmosRequests ==
  ASSUME NEW c, CosmosNext(c)
  PROVE  Request(c)
<1>1. ASSUME NEW g, NEW a, PutAccount(c, g, a, {}) PROVE Request(c)
  BY <1>1, PlainPut, Tuples DEF PutAccount, Account, SpecialKinds
<1>2. ASSUME NEW g, NEW a, DeleteAccount(c, g, a) PROVE Request(c)
  BY <1>2, PlainDrop, Tuples DEF DeleteAccount, Account, Deleting, Indexes, IndexedKinds, OuterKinds
<1>3. ASSUME NEW g, NEW a, NEW d, PutCosmosDatabase(c, g, a, d) PROVE Request(c)
  BY <1>3, PlainPut, Tuples DEF PutCosmosDatabase, CosmosDatabase, SpecialKinds
<1>4. ASSUME NEW g, NEW a, NEW d, DeleteCosmosDatabase(c, g, a, d) PROVE Request(c)
  BY <1>4, PlainDrop, Tuples DEF DeleteCosmosDatabase, CosmosDatabase, Deleting, Indexes, IndexedKinds, OuterKinds
<1>5. ASSUME NEW g \in Groups, NEW a, NEW d, NEW n, NEW paths, PutContainer(c, g, a, d, n, paths) PROVE Request(c)
  BY <1>5 DEF Request, IndexedPut
<1>6. ASSUME NEW g, NEW a, NEW d, NEW n, DeleteContainer(c, g, a, d, n) PROVE Request(c)
  BY <1>6 DEF Request, IndexedDrop
<1>7. ASSUME NEW a, NEW d, NEW n, NEW id, NEW x, PutDocument(c, a, d, n, id, x) PROVE Request(c)
  BY <1>7, PlainPut, Tuples DEF PutDocument, Document, SpecialKinds
<1>8. ASSUME NEW a, NEW d, NEW n, NEW id, NEW x, CreateDocument(c, a, d, n, id, x) PROVE Request(c)
  <2>1. \E i : Putting(c, Document(a, d, n, i), x)
    BY <1>8, Zenon DEF CreateDocument
  <2>2. QED
    BY <2>1, PlainPut, Tuples DEF Document, SpecialKinds
<1>9. ASSUME NEW a, NEW d, NEW n, NEW id, DeleteDocument(c, a, d, n, id) PROVE Request(c)
  BY <1>9, PlainDrop, Tuples DEF DeleteDocument, Document, Deleting, Indexes, IndexedKinds, OuterKinds
<1>10. QED
  BY <1>1, <1>2, <1>3, <1>4, <1>5, <1>6, <1>7, <1>8, <1>9, Zenon DEF CosmosNext

LEMMA ApimRequests ==
  ASSUME NEW c, ApimNext(c)
  PROVE  Request(c)
<1>1. ASSUME NEW s, NEW x, PutService(c, s, x) PROVE Request(c)
  BY <1>1, PlainPut, Tuples DEF PutService, ApimService, SpecialKinds
<1>2. ASSUME NEW s, DeleteService(c, s) PROVE Request(c)
  BY <1>2 DEF Request, Cascade
<1>3. ASSUME NEW s, NEW a, NEW x, PutAPI(c, s, a, x) PROVE Request(c)
  <2>1. PICK k, d, verb : k = Api(s, a) /\ Begin(c, verb, k, <<Store(k, d)>>) /\ verb = "put"
    BY <1>3 DEF PutAPI, Putting, Kept
  <2>2. k = <<"apimanagement.apis", s, a>> /\ Head(k) = "apimanagement.apis" /\ IsList(k) /\ k # <<>>
    BY <2>1, Tuples DEF Api
  <2>3. KeyForm(k)
    BY <2>2, KindSets DEF KeyForm
  <2>4. OuterStored(k)
    BY <1>3, <2>1, <2>2, OuterKeys, KindSets DEF OuterStored, PutAPI
  <2>5. FieldsKept(verb, k, d)
    BY <2>1, <2>2, KindSets DEF FieldsKept, Lasting
  <2>6. ListKept(k, d)
    BY <2>1, <2>2 DEF ListKept, ListFields
  <2>7. Head(k) \notin Indexes \union IndexedKinds \union {"aks.managedclusters"}
    BY <2>2 DEF Indexes, IndexedKinds
  <2>8. OnePut(c)
    BY <2>1, <2>2, <2>3, <2>4, <2>5, <2>6, <2>7 DEF OnePut
  <2>9. QED
    BY <2>8 DEF Request
<1>4. ASSUME NEW s, NEW a, DeleteAPI(c, s, a) PROVE Request(c)
  BY <1>4 DEF Request, Cascade
<1>5. ASSUME NEW s, NEW a, NEW o, NEW x, PutOperation(c, s, a, o, x) PROVE Request(c)
  <2>1. PICK k, d, verb : k = ApiOperation(s, a, o) /\ Begin(c, verb, k, <<Store(k, d)>>) /\ verb = "put"
    BY <1>5 DEF PutOperation, Putting, Kept
  <2>2. k = <<"apimanagement.operations", s, a, o>> /\ Head(k) = "apimanagement.operations" /\ IsList(k) /\ k # <<>>
    BY <2>1, Tuples DEF ApiOperation
  <2>3. KeyForm(k)
    BY <2>2, KindSets DEF KeyForm
  <2>4. OuterStored(k)
    BY <1>5, <2>1, <2>2, OuterKeys, KindSets DEF OuterStored, PutOperation
  <2>5. FieldsKept(verb, k, d)
    BY <2>1, <2>2, KindSets DEF FieldsKept, Lasting
  <2>6. ListKept(k, d)
    BY <2>1, <2>2 DEF ListKept, ListFields
  <2>7. Head(k) \notin Indexes \union IndexedKinds \union {"aks.managedclusters"}
    BY <2>2 DEF Indexes, IndexedKinds
  <2>8. OnePut(c)
    BY <2>1, <2>2, <2>3, <2>4, <2>5, <2>6, <2>7 DEF OnePut
  <2>9. QED
    BY <2>8 DEF Request
<1>6. ASSUME NEW s, NEW a, NEW o, DeleteOperation(c, s, a, o) PROVE Request(c)
  BY <1>6, PlainDrop, Tuples DEF DeleteOperation, ApiOperation, Deleting, Indexes, IndexedKinds, OuterKinds
<1>7. ASSUME NEW s, NEW p, NEW x, PutProduct(c, s, p, x) PROVE Request(c)
  <2>1. PICK k, d, verb : k = Product(s, p) /\ Begin(c, verb, k, <<Store(k, d)>>) /\ verb = "put"
    BY <1>7 DEF PutProduct, Putting, Kept
  <2>2. k = <<"apimanagement.products", s, p>> /\ Head(k) = "apimanagement.products" /\ IsList(k) /\ k # <<>>
    BY <2>1, Tuples DEF Product
  <2>3. KeyForm(k)
    BY <2>2, KindSets DEF KeyForm
  <2>4. OuterStored(k)
    BY <1>7, <2>1, <2>2, OuterKeys, KindSets DEF OuterStored, PutProduct
  <2>5. FieldsKept(verb, k, d)
    BY <2>1, <2>2, KindSets DEF FieldsKept, Lasting
  <2>6. ListKept(k, d)
    BY <2>1, <2>2 DEF ListKept, ListFields
  <2>7. Head(k) \notin Indexes \union IndexedKinds \union {"aks.managedclusters"}
    BY <2>2 DEF Indexes, IndexedKinds
  <2>8. OnePut(c)
    BY <2>1, <2>2, <2>3, <2>4, <2>5, <2>6, <2>7 DEF OnePut
  <2>9. QED
    BY <2>8 DEF Request
<1>8. ASSUME NEW s, NEW p, NEW x, PutApimSubscription(c, s, p, x) PROVE Request(c)
  <2>1. PICK k, d, verb : k = ApimSubscription(s, p) /\ Begin(c, verb, k, <<Store(k, d)>>) /\ verb = "put"
    BY <1>8 DEF PutApimSubscription, Putting, Kept
  <2>2. k = <<"apimanagement.subscriptions", s, p>> /\ Head(k) = "apimanagement.subscriptions" /\ IsList(k) /\ k # <<>>
    BY <2>1, Tuples DEF ApimSubscription
  <2>3. KeyForm(k)
    BY <2>2, KindSets DEF KeyForm
  <2>4. OuterStored(k)
    BY <1>8, <2>1, <2>2, OuterKeys, KindSets DEF OuterStored, PutApimSubscription
  <2>5. FieldsKept(verb, k, d)
    BY <2>1, <2>2, KindSets DEF FieldsKept, Lasting
  <2>6. ListKept(k, d)
    BY <2>1, <2>2 DEF ListKept, ListFields
  <2>7. Head(k) \notin Indexes \union IndexedKinds \union {"aks.managedclusters"}
    BY <2>2 DEF Indexes, IndexedKinds
  <2>8. OnePut(c)
    BY <2>1, <2>2, <2>3, <2>4, <2>5, <2>6, <2>7 DEF OnePut
  <2>9. QED
    BY <2>8 DEF Request
<1>9. ASSUME NEW s, NEW p, DeleteProduct(c, s, p) PROVE Request(c)
  BY <1>9 DEF Request, Cascade
<1>10. ASSUME NEW s, NEW p, DeleteApimSubscription(c, s, p) PROVE Request(c)
  BY <1>10, PlainDrop, Tuples DEF DeleteApimSubscription, ApimSubscription, Deleting, Indexes, IndexedKinds, OuterKinds
<1>11. ASSUME NEW s, NEW p, NEW a, PutProductAPI(c, s, p, a) PROVE Request(c)
  <2>1. PICK k, d, verb : k = ProductAPI(s, p, a) /\ Begin(c, verb, k, <<Store(k, d)>>) /\ verb = "put"
    BY <1>11 DEF PutProductAPI, Putting, Kept
  <2>2. k = <<"apimanagement.productapis", s, p, a>> /\ Head(k) = "apimanagement.productapis" /\ IsList(k) /\ k # <<>>
    BY <2>1, Tuples DEF ProductAPI
  <2>3. KeyForm(k)
    BY <2>2, KindSets DEF KeyForm
  <2>4. OuterStored(k)
    BY <1>11, <2>1, <2>2, OuterKeys, KindSets DEF OuterStored, PutProductAPI
  <2>5. FieldsKept(verb, k, d)
    BY <2>1, <2>2, KindSets DEF FieldsKept, Lasting
  <2>6. ListKept(k, d)
    BY <2>1, <2>2 DEF ListKept, ListFields
  <2>7. Head(k) \notin Indexes \union IndexedKinds \union {"aks.managedclusters"}
    BY <2>2 DEF Indexes, IndexedKinds
  <2>8. OnePut(c)
    BY <2>1, <2>2, <2>3, <2>4, <2>5, <2>6, <2>7 DEF OnePut
  <2>9. QED
    BY <2>8 DEF Request
<1>12. ASSUME NEW s, NEW p, NEW a, DeleteProductAPI(c, s, p, a) PROVE Request(c)
  BY <1>12, PlainDrop, Tuples DEF DeleteProductAPI, ProductAPI, Deleting, Indexes, IndexedKinds, OuterKinds
<1>13. QED
  BY <1>1, <1>2, <1>3, <1>4, <1>5, <1>6, <1>7, <1>8, <1>9, <1>10, <1>11, <1>12 DEF ApimNext

LEMMA ClusterRequests ==
  ASSUME NEW c, AksNext(c)
  PROVE  Request(c)
<1>1. ASSUME NEW k, NEW requested, IsFiniteSet(DOMAIN requested), PutManagedCluster(c, k, requested) PROVE Request(c)
  BY <1>1 DEF Request, ClusterPut
<1>2. ASSUME NEW k, NEW p, NEW q, PutAgentPool(c, k, p, q) PROVE Request(c)
  <2>1. PICK on, d, verb : on = AgentPool(k, p) /\ Begin(c, verb, on, <<Store(on, d)>>) /\ verb = "put"
    BY <1>2, Zenon DEF PutAgentPool, Putting, Kept
  <2>2. on = <<"aks.agentpools", k, p>> /\ Head(on) = "aks.agentpools" /\ IsList(on) /\ on # <<>>
    BY <2>1, Tuples DEF AgentPool
  <2>3. KeyForm(on)
    BY <2>2, KindSets DEF KeyForm
  <2>4. OuterStored(on)
    BY <1>2, <2>2, KindSets, Zenon DEF OuterStored, PutAgentPool
  <2>5. FieldsKept(verb, on, d)
    BY <2>1, <2>2, KindSets DEF FieldsKept, Lasting
  <2>6. ListKept(on, d)
    BY <2>1, <2>2 DEF ListKept, ListFields
  <2>7. Head(on) \notin Indexes \union IndexedKinds \union {"aks.managedclusters"}
    BY <2>2 DEF Indexes, IndexedKinds
  <2>8. OnePut(c)
    BY <2>1, <2>2, <2>3, <2>4, <2>5, <2>6, <2>7 DEF OnePut
  <2>9. QED
    BY <2>8 DEF Request
<1>3. ASSUME NEW k, DeleteManagedCluster(c, k) PROVE Request(c)
  BY <1>3 DEF Request, Cascade
<1>4. ASSUME NEW k, NEW p, DeleteAgentPool(c, k, p) PROVE Request(c)
  BY <1>4, PlainDrop, Tuples DEF DeleteAgentPool, AgentPool, Deleting, Indexes, IndexedKinds, OuterKinds
<1>5. ASSUME NEW k, NEW p \in PoolNames, NEW q, PutManagedCluster(c, k, [x \in {p} |-> q]) PROVE Request(c)
  <2>1. IsFiniteSet(DOMAIN [x \in {p} |-> q])
    BY FS_Singleton, Zenon
  <2>2. QED
    BY <1>1, <1>5, <2>1
<1>6. ASSUME NEW k, NEW T, NEW q \in [PoolNames -> T], PutManagedCluster(c, k, q) PROVE Request(c)
  BY <1>1, <1>6, PoolsAssumption
<1>7. ASSUME NEW k, PutManagedCluster(c, k, << >>) PROVE Request(c)
  <2>1. IsFiniteSet(DOMAIN << >>)
    BY FS_EmptySet
  <2>2. QED
    BY <1>1, <1>7, <2>1
<1>8. PICK k \in ClusterNames :
         \/ PutManagedCluster(c, k, << >>) \/ DeleteManagedCluster(c, k)
         \/ \E p \in PoolNames, q \in PoolRequests : PutManagedCluster(c, k, [x \in {p} |-> q])
         \/ \E p \in PoolNames, q \in PoolRequests : PutAgentPool(c, k, p, q)
         \/ \E q \in [PoolNames -> {[mode |-> "User", count |-> 2]}] : PutManagedCluster(c, k, q)
         \/ \E p \in PoolNames : DeleteAgentPool(c, k, p)
  BY Zenon DEF AksNext
<1>9. QED
  BY <1>2, <1>3, <1>4, <1>5, <1>6, <1>7, <1>8, ZenonT(40)

LEMMA WebRequests ==
  ASSUME NEW c, WebNext(c)
  PROVE  Request(c)
<1>1. ASSUME NEW p, NEW linux, NEW asked, PutPlan(c, p, linux, asked) PROVE Request(c)
  BY <1>1, PlainPut, Tuples, Zenon DEF PutPlan, Plan, SpecialKinds
<1>2. ASSUME NEW p, DeletePlan(c, p) PROVE Request(c)
  BY <1>2, PlainDrop, Tuples DEF DeletePlan, Plan, Deleting, Indexes, IndexedKinds, OuterKinds
<1>3. ASSUME NEW s, NEW p, NEW t, PutSite(c, s, p, t) PROVE Request(c)
  <2>1. PICK k, d, verb : k = Site(s) /\ Begin(c, verb, k, <<Store(k, d)>>) /\ verb = "put"
                                /\ (Has(k) => d.state = docs[k].state)
    <3>1. PICK k, identity :
             Putting(c, k, [plan |-> p, identity |-> identity, state |-> Kept(k, "state", "Running")])
             /\ k = Site(s)
      BY <1>3, Zenon DEF PutSite
    <3>2. PICK d : d = [plan |-> p, identity |-> identity, state |-> Kept(k, "state", "Running")]
      BY Zenon
    <3>3. Has(k) => d.state = docs[k].state
      BY <3>2 DEF Kept
    <3>4. QED
      BY <3>1, <3>2, <3>3 DEF Putting
  <2>2. k = <<"appservice.sites", s>> /\ Head(k) = "appservice.sites" /\ IsList(k) /\ k # <<>>
    BY <2>1, Tuples DEF Site
  <2>3. KeyForm(k)
    BY <2>2, KindSets DEF KeyForm
  <2>4. OuterStored(k)
    BY <2>2, KindSets DEF OuterStored
  <2>5. FieldsKept(verb, k, d)
    BY <2>1, <2>2, KindSets DEF FieldsKept, Lasting
  <2>6. ListKept(k, d)
    BY <2>1, <2>2 DEF ListKept, ListFields
  <2>7. Head(k) \notin Indexes \union IndexedKinds \union {"aks.managedclusters"}
    BY <2>2 DEF Indexes, IndexedKinds
  <2>8. OnePut(c)
    BY <2>1, <2>2, <2>3, <2>4, <2>5, <2>6, <2>7 DEF OnePut
  <2>9. QED
    BY <2>8 DEF Request
<1>4. ASSUME NEW s, DeleteSite(c, s) PROVE Request(c)
  BY <1>4 DEF Request
<1>5. ASSUME NEW s, NEW state, SetSiteState(c, s, state) PROVE Request(c)
  <2>1. PICK k, d, verb : k = Site(s) /\ Begin(c, verb, k, <<Store(k, d)>>) /\ verb = "set"
    BY <1>5 DEF SetSiteState, Putting, Kept
  <2>2. k = <<"appservice.sites", s>> /\ Head(k) = "appservice.sites" /\ IsList(k) /\ k # <<>>
    BY <2>1, Tuples DEF Site
  <2>3. KeyForm(k)
    BY <2>2, KindSets DEF KeyForm
  <2>4. OuterStored(k)
    BY <2>2, KindSets DEF OuterStored
  <2>5. FieldsKept(verb, k, d)
    BY <2>1, <2>2, KindSets DEF FieldsKept, Lasting
  <2>6. ListKept(k, d)
    BY <2>1, <2>2 DEF ListKept, ListFields
  <2>7. Head(k) \notin Indexes \union IndexedKinds \union {"aks.managedclusters"}
    BY <2>2 DEF Indexes, IndexedKinds
  <2>8. OnePut(c)
    BY <2>1, <2>2, <2>3, <2>4, <2>5, <2>6, <2>7 DEF OnePut
  <2>9. QED
    BY <2>8 DEF Request
<1>6. ASSUME NEW s, NEW x, PutAppSettings(c, s, x) PROVE Request(c)
  BY <1>6, PlainPut, Tuples DEF PutAppSettings, AppSettings, SpecialKinds
<1>7. ASSUME NEW s, NEW f, NEW x, NEW off, PutFunction(c, s, f, x, off) PROVE Request(c)
  BY <1>7, PlainPut, Tuples DEF PutFunction, Function, SpecialKinds
<1>8. ASSUME NEW s, NEW f, DeleteFunction(c, s, f) PROVE Request(c)
  BY <1>8, PlainDrop, Tuples DEF DeleteFunction, Function, Deleting, Indexes, IndexedKinds, OuterKinds
<1>9. QED
  BY <1>1, <1>2, <1>3, <1>4, <1>5, <1>6, <1>7, <1>8 DEF WebNext, StartSite, StopSite, RestartSite

LEMMA ResourceRequests ==
  ASSUME NEW c, ResourceNext(c)
  PROVE  Request(c)
<1>1. ASSUME NEW g, NEW tags, PutResourceGroup(c, g, tags) PROVE Request(c)
  BY <1>1, PlainPut, Tuples DEF PutResourceGroup, Group, SpecialKinds
<1>2. ASSUME NEW g, DeleteResourceGroup(c, g) PROVE Request(c)
  BY <1>2, PlainDrop, Tuples DEF DeleteResourceGroup, Group, Deleting, Indexes, IndexedKinds, OuterKinds
<1>3. ASSUME NEW g, NEW n, NEW sku, NEW kind, PutStorageAccount(c, g, n, sku, kind) PROVE Request(c)
  <2>1. \E doc : Putting(c, StorageAccount(g, n), doc)
    BY <1>3, Zenon DEF PutStorageAccount
  <2>2. QED
    BY <2>1, PlainPut, Tuples DEF StorageAccount, SpecialKinds
<1>4. ASSUME NEW g, NEW n, DeleteStorageAccount(c, g, n) PROVE Request(c)
  BY <1>4, PlainDrop, Tuples DEF DeleteStorageAccount, StorageAccount, Deleting, Indexes, IndexedKinds, OuterKinds
<1>5. ASSUME NEW g, NEW n, NEW sku, NEW admin, NEW today, PutRegistry(c, g, n, sku, admin, today) PROVE Request(c)
  <2>1. PICK k, d, verb : k = Registry(g, n) /\ Begin(c, verb, k, <<Store(k, d)>>) /\ verb = "put"
                                /\ (Has(k) => d.created = docs[k].created)
    BY <1>5 DEF PutRegistry, Putting, Kept
  <2>2. k = <<"containerregistry.registries", g, n>> /\ Head(k) = "containerregistry.registries" /\ IsList(k) /\ k # <<>>
    BY <2>1, Tuples DEF Registry
  <2>3. KeyForm(k)
    BY <2>2, KindSets DEF KeyForm
  <2>4. OuterStored(k)
    BY <2>2, KindSets DEF OuterStored
  <2>5. FieldsKept(verb, k, d)
    BY <2>1, <2>2, KindSets DEF FieldsKept, Lasting
  <2>6. ListKept(k, d)
    BY <2>1, <2>2 DEF ListKept, ListFields
  <2>7. Head(k) \notin Indexes \union IndexedKinds \union {"aks.managedclusters"}
    BY <2>2 DEF Indexes, IndexedKinds
  <2>8. OnePut(c)
    BY <2>1, <2>2, <2>3, <2>4, <2>5, <2>6, <2>7 DEF OnePut
  <2>9. QED
    BY <2>8 DEF Request
<1>6. ASSUME NEW g, NEW n, DeleteRegistry(c, g, n) PROVE Request(c)
  BY <1>6, PlainDrop, Tuples DEF DeleteRegistry, Registry, Deleting, Indexes, IndexedKinds, OuterKinds
<1>7. QED
  BY <1>1, <1>2, <1>3, <1>4, <1>5, <1>6, Zenon DEF ResourceNext

LEMMA BlobRequests ==
  ASSUME NEW c, BlobNext(c)
  PROVE  Request(c)
<1>1. ASSUME NEW n, CreateContainer(c, n) PROVE Request(c)
  BY <1>1, PlainPut, Tuples DEF CreateContainer, BlobContainer, SpecialKinds
<1>2. ASSUME NEW n, DeleteBlobContainer(c, n) PROVE Request(c)
  BY <1>2 DEF Request, Cascade
<1>3. ASSUME NEW n, NEW b, NEW x, PutBlob(c, n, b, x) PROVE Request(c)
  <2>1. PICK k, d, verb : k = Blob(n, b) /\ Begin(c, verb, k, <<Store(k, d)>>) /\ verb = "put"
    BY <1>3 DEF PutBlob, Putting, Kept
  <2>2. k = <<"blob.blobs", n, b>> /\ Head(k) = "blob.blobs" /\ IsList(k) /\ k # <<>>
    BY <2>1, Tuples DEF Blob
  <2>3. KeyForm(k)
    BY <2>2, KindSets DEF KeyForm
  <2>4. OuterStored(k)
    BY <1>3, <2>1, <2>2, OuterKeys, KindSets DEF OuterStored, PutBlob
  <2>5. FieldsKept(verb, k, d)
    BY <2>1, <2>2, KindSets DEF FieldsKept, Lasting
  <2>6. ListKept(k, d)
    BY <2>1, <2>2 DEF ListKept, ListFields
  <2>7. Head(k) \notin Indexes \union IndexedKinds \union {"aks.managedclusters"}
    BY <2>2 DEF Indexes, IndexedKinds
  <2>8. OnePut(c)
    BY <2>1, <2>2, <2>3, <2>4, <2>5, <2>6, <2>7 DEF OnePut
  <2>9. QED
    BY <2>8 DEF Request
<1>4. ASSUME NEW n, NEW b, DeleteBlob(c, n, b) PROVE Request(c)
  BY <1>4, PlainDrop, Tuples DEF DeleteBlob, Blob, Deleting, Indexes, IndexedKinds, OuterKinds
<1>5. QED
  BY <1>1, <1>2, <1>3, <1>4 DEF BlobNext

LEMMA TableRequests ==
  ASSUME NEW c, TableNext(c)
  PROVE  Request(c)
<1>1. ASSUME NEW n, CreateTable(c, n) PROVE Request(c)
  BY <1>1, PlainPut, Tuples DEF CreateTable, Table, SpecialKinds
<1>2. ASSUME NEW n, DeleteTable(c, n) PROVE Request(c)
  BY <1>2 DEF Request, Cascade
<1>3. ASSUME NEW n, NEW e, NEW m, DeleteEntity(c, n, e, m) PROVE Request(c)
  BY <1>3, PlainDrop, Tuples DEF DeleteEntity, Entity, Deleting, Indexes, IndexedKinds, OuterKinds
<1>4. ASSUME NEW n, NEW e, NEW x, NEW t, InsertEntity(c, n, e, x, t) PROVE Request(c)
  <2>1. PICK k, d, verb : k = Entity(n, e) /\ Begin(c, verb, k, <<Store(k, d)>>) /\ verb = "insert"
    BY <1>4 DEF InsertEntity, Putting, Kept
  <2>2. k = <<"table.entities", n, e>> /\ Head(k) = "table.entities" /\ IsList(k) /\ k # <<>>
    BY <2>1, Tuples DEF Entity
  <2>3. KeyForm(k)
    BY <2>2, KindSets DEF KeyForm
  <2>4. OuterStored(k)
    BY <1>4, <2>1, <2>2, OuterKeys, KindSets DEF OuterStored, InsertEntity, TableExists
  <2>5. FieldsKept(verb, k, d)
    BY <2>1, <2>2, KindSets DEF FieldsKept, Lasting
  <2>6. ListKept(k, d)
    BY <2>1, <2>2 DEF ListKept, ListFields
  <2>7. Head(k) \notin Indexes \union IndexedKinds \union {"aks.managedclusters"}
    BY <2>2 DEF Indexes, IndexedKinds
  <2>8. OnePut(c)
    BY <2>1, <2>2, <2>3, <2>4, <2>5, <2>6, <2>7 DEF OnePut
  <2>9. QED
    BY <2>8 DEF Request
<1>5. ASSUME NEW n, NEW e, NEW x, NEW merge, NEW m, NEW t, UpsertEntity(c, n, e, x, merge, m, t) PROVE Request(c)
  <2>1. PICK k, d, verb : /\ k = Entity(n, e) /\ Begin(c, verb, k, <<Store(k, d)>>)
                          /\ verb \in {"put", "merge"}
                          /\ verb = "merge" /\ Has(k) => DOMAIN docs[k].properties \subseteq DOMAIN d.properties
    <3>1. PICK k, d, verb :
             /\ k = Entity(n, e) /\ Begin(c, verb, k, <<Store(k, d)>>)
             /\ verb = (IF merge THEN "merge" ELSE "put")
             /\ d = [etag |-> t, properties |-> IF merge /\ Has(k) THEN Merged(x, docs[k].properties) ELSE x]
      BY <1>5, Zenon DEF UpsertEntity
    <3>2. verb = "merge" /\ Has(k) => d.properties = Merged(x, docs[k].properties)
      BY <3>1
    <3>3. verb = "merge" /\ Has(k) => DOMAIN docs[k].properties \subseteq DOMAIN d.properties
      BY <3>2 DEF Merged
    <3>4. verb \in {"put", "merge"}
      BY <3>1
    <3>5. QED
      BY <3>1, <3>3, <3>4
  <2>2. k = <<"table.entities", n, e>> /\ Head(k) = "table.entities" /\ IsList(k) /\ k # <<>>
    BY <2>1, Tuples DEF Entity
  <2>3. KeyForm(k)
    BY <2>2, KindSets DEF KeyForm
  <2>4. OuterStored(k)
    <3>1. Has(Table(n))
      BY <1>5, Zenon DEF UpsertEntity, TableExists
    <3>2. QED
      BY <2>2, <3>1, OuterKeys, KindSets DEF OuterStored
  <2>5. FieldsKept(verb, k, d)
    BY <2>1, <2>2, KindSets DEF FieldsKept, Lasting
  <2>6. ListKept(k, d)
    BY <2>1, <2>2 DEF ListKept, ListFields
  <2>7. Head(k) \notin Indexes \union IndexedKinds \union {"aks.managedclusters"}
    BY <2>2 DEF Indexes, IndexedKinds
  <2>8. OnePut(c)
    BY <2>1, <2>2, <2>3, <2>4, <2>5, <2>6, <2>7 DEF OnePut
  <2>9. QED
    BY <2>8 DEF Request
<1>6. QED
  BY <1>1, <1>2, <1>3, <1>4, <1>5 DEF TableNext

LEMMA InterfaceNextRequests ==
  ASSUME NEW c, InterfaceNext(c)
  PROVE  Request(c)
<1>1. ASSUME NEW n, NEW r, PutNetworkInterface(c, n, r) PROVE Request(c)
  <2>1. PICK d : Putting(c, NIC(n), d)
    BY <1>1, Zenon DEF PutNetworkInterface
  <2>2. QED
    BY <2>1, PlainPut, Tuples DEF NIC, SpecialKinds
<1>2. ASSUME NEW n, DeleteNetworkInterface(c, n) PROVE Request(c)
  BY <1>2, PlainDrop, Tuples DEF DeleteNetworkInterface, Deleting, NIC, Indexes, IndexedKinds, OuterKinds
<1>3. QED
  BY <1>1, <1>2 DEF InterfaceNext

LEMMA EventRequests ==
  ASSUME NEW c, EventGridNext(c)
  PROVE  Request(c) \/ \E t : Publish(t)
<1>1. ASSUME NEW g, NEW t, PutTopic(c, g, t) PROVE Request(c)
  BY <1>1 DEF Request, IndexedPut
<1>2. ASSUME NEW g, NEW t, DeleteTopic(c, g, t) PROVE Request(c)
  BY <1>2 DEF Request, IndexedDrop
<1>3. ASSUME NEW g, NEW t, NEW e, NEW d, PutEventSubscription(c, g, t, e, d) PROVE Request(c)
  BY <1>3, PlainPut, Tuples DEF PutEventSubscription, EventSubscription, SpecialKinds
<1>4. ASSUME NEW g, NEW t, NEW e, DeleteEventSubscription(c, g, t, e) PROVE Request(c)
  BY <1>4, PlainDrop, Tuples DEF DeleteEventSubscription, Deleting, EventSubscription, Indexes, IndexedKinds, OuterKinds
<1>5. QED
  BY <1>1, <1>2, <1>3, <1>4 DEF EventGridNext

LEMMA Asks ==
  ASSUME NEW c, Asked(c)
  PROVE  Request(c) \/ (scenario = "events" /\ \E t : Publish(t))
<1>1. ASSUME scenario = "events", EventGridNext(c) PROVE Request(c) \/ (scenario = "events" /\ \E t : Publish(t))
  BY <1>1, EventRequests
<1>2. ASSUME NEW n, DeleteNetworkInterface(c, n) PROVE Request(c)
  BY <1>2, PlainDrop, Tuples DEF DeleteNetworkInterface, Deleting, NIC, Indexes, IndexedKinds, OuterKinds
<1>3. QED
  BY <1>1, <1>2, AddressRequests, InterfaceNextRequests, NSGRequests, RouteRequests, EdgeRequests, DNSRequests,
     MachineRequests, SqlRequests, VaultRequests, CosmosRequests, ApimRequests, ClusterRequests, WebRequests,
     MonitorRequests, IdentityRequests, GraphRequests, ResourceRequests, BlobRequests, TableRequests, Zenon
     DEF Asked

-----------------------------------------------------------------------------
(* What is stored and what is left to write *)

\* A document whose list has one entry for each name.
DocForm(k, d) ==
    /\ KeyForm(k)
    /\ Head(k) = "network.virtualnetworks" =>
          /\ d = [body |-> d.body, subnets |-> d.subnets] /\ IsList(d.subnets) /\ Unique(d.subnets)
          /\ \A i \in DOMAIN d.subnets : d.subnets[i].prefix \in Ranges
    /\ Head(k) = "network.nsgs" =>
          d = [body |-> d.body, rules |-> d.rules] /\ IsList(d.rules) /\ Unique(d.rules)
    /\ Head(k) = "network.routetables" =>
          d = [body |-> d.body, routes |-> d.routes] /\ IsList(d.routes) /\ Unique(d.routes)
    /\ Head(k) = "network.privatednszones" =>
          /\ d = [body |-> d.body, records |-> d.records, count |-> d.count]
          /\ IsList(d.records) /\ Unique(d.records) /\ d.count = Len(d.records)

EntryForm(e) ==
    \/ e = Store(e.key, e.doc) /\ DocForm(e.key, e.doc)
    \/ e = Drop(e.key)
    \/ e = Sweep(e.under, e.inner)
    \/ e = Post(e.key) /\ Head(e.key) \in {"eventgrid.eventsubscriptions", "monitor.actionGroups"}

TodoForm(todo) == IsList(todo) /\ \A i \in DOMAIN todo : EntryForm(todo[i])

FormInv ==
    /\ Calls
    /\ IsFiniteSet(DOMAIN docs)
    /\ \A k \in DOMAIN docs : DocForm(k, docs[k])
    /\ \A w \in Workers : TodoForm(calls[w].todo)

LEMMA EntryForms ==
  /\ \A k, d : DocForm(k, d) => EntryForm(Store(k, d))
  /\ \A k : EntryForm(Drop(k))
  /\ \A under, inner : EntryForm(Sweep(under, inner))
  /\ \A k : Head(k) \in {"eventgrid.eventsubscriptions", "monitor.actionGroups"} => EntryForm(Post(k))
<1>1. /\ \A k, d : Store(k, d).key = k /\ Store(k, d).doc = d
      /\ \A k : Drop(k).key = k /\ Post(k).key = k
      /\ \A under, inner : Sweep(under, inner).under = under /\ Sweep(under, inner).inner = inner
  BY DEF Store, Drop, Post, Sweep
<1>2. QED
  BY <1>1, Zenon DEF EntryForm

\* One, two and four writes.
LEMMA FewWrites ==
  /\ TodoForm(<<>>)
  /\ \A a : EntryForm(a) => TodoForm(<<a>>)
  /\ \A a, b : EntryForm(a) /\ EntryForm(b) => TodoForm(<<a, b>>)
  /\ \A a, b, c, d : EntryForm(a) /\ EntryForm(b) /\ EntryForm(c) /\ EntryForm(d) => TodoForm(<<a, b, c, d>>)
<1>1. TodoForm(<<>>)
  BY EmptySeq DEF TodoForm, IsList
<1>2. ASSUME NEW a, EntryForm(a) PROVE TodoForm(<<a>>)
  <2>1. PICK t : t = <<a>>
    BY Zenon
  <2>2. t \in Seq({a}) /\ \A i \in DOMAIN t : t[i] = a
    BY <2>1
  <2>3. TodoForm(t)
    BY <1>2, <2>2 DEF TodoForm, IsList
  <2>4. QED
    BY <2>1, <2>3
<1>3. ASSUME NEW a, NEW b, EntryForm(a), EntryForm(b) PROVE TodoForm(<<a, b>>)
  <2>1. PICK t : t = <<a, b>>
    BY Zenon
  <2>2. t \in Seq({a, b}) /\ \A i \in DOMAIN t : t[i] \in {a, b}
    BY <2>1
  <2>3. TodoForm(t)
    BY <1>3, <2>2 DEF TodoForm, IsList
  <2>4. QED
    BY <2>1, <2>3
<1>4. ASSUME NEW a, NEW b, NEW c, NEW d, EntryForm(a), EntryForm(b), EntryForm(c), EntryForm(d)
      PROVE  TodoForm(<<a, b, c, d>>)
  <2>1. PICK t : t = <<a, b, c, d>>
    BY Zenon
  <2>2. t \in Seq({a, b, c, d}) /\ \A i \in DOMAIN t : t[i] \in {a, b, c, d}
    BY <2>1
  <2>3. TodoForm(t)
    BY <1>4, <2>2 DEF TodoForm, IsList
  <2>4. QED
    BY <2>1, <2>3
<1>5. QED
  BY <1>1, <1>2, <1>3, <1>4

\* One list after another.
LEMMA Joined ==
  ASSUME NEW s, NEW t, IsList(s), IsList(t)
  PROVE  /\ IsList(s \o t) /\ Len(s) \in Nat /\ Len(t) \in Nat
         /\ Len(s \o t) = Len(s) + Len(t) /\ DOMAIN (s \o t) = 1..(Len(s) + Len(t))
         /\ \A i \in 1..Len(s) : (s \o t)[i] = s[i]
         /\ \A i \in 1..Len(t) : (s \o t)[Len(s) + i] = t[i]
<1>1. PICK S, T, U : s \in Seq(S) /\ t \in Seq(T) /\ U = S \union T
  BY Zenon DEF IsList
<1>2. s \in Seq(U) /\ t \in Seq(U) /\ Len(s) \in Nat /\ Len(t) \in Nat
  BY <1>1
<1>3. /\ s \o t \in Seq(U) /\ Len(s \o t) = Len(s) + Len(t)
      /\ \A i \in 1..Len(s) + Len(t) : (s \o t)[i] = IF i <= Len(s) THEN s[i] ELSE t[i - Len(s)]
  BY <1>2, ConcatProperties
<1>4. PICK u : u = s \o t
  BY Zenon
<1>5. /\ IsList(u) /\ DOMAIN u = 1..(Len(s) + Len(t))
      /\ \A i \in 1..Len(s) : u[i] = s[i]
      /\ \A i \in 1..Len(t) : u[Len(s) + i] = t[i]
  BY <1>2, <1>3, <1>4 DEF IsList
<1>6. QED
  BY <1>2, <1>3, <1>4, <1>5

LEMMA JoinedForm ==
  ASSUME NEW s, NEW t, TodoForm(s), TodoForm(t)
  PROVE  TodoForm(s \o t)
<1>1. IsList(s) /\ IsList(t)
  BY DEF TodoForm
<1>2. PICK u : u = s \o t
  BY Zenon
<1>3. /\ IsList(u) /\ Len(s) \in Nat /\ Len(t) \in Nat
      /\ DOMAIN u = 1..(Len(s) + Len(t))
      /\ \A i \in 1..Len(s) : u[i] = s[i]
      /\ \A i \in 1..Len(t) : u[Len(s) + i] = t[i]
  BY <1>1, <1>2, Joined
<1>4. DOMAIN s = 1..Len(s) /\ DOMAIN t = 1..Len(t)
  BY <1>1, ListShape
<1>5. ASSUME NEW i \in DOMAIN u PROVE EntryForm(u[i])
  <2>1. i \in 1..Len(s) \/ \E j \in 1..Len(t) : i = Len(s) + j
    <3>1. CASE i <= Len(s)
      BY <1>3, <3>1
    <3>2. CASE i > Len(s)
      <4>1. i - Len(s) \in 1..Len(t) /\ i = Len(s) + (i - Len(s))
        BY <1>3, <3>2
      <4>2. QED
        BY <4>1
    <3>3. QED
      BY <1>3, <3>1, <3>2
  <2>2. CASE i \in 1..Len(s)
    BY <1>3, <1>4, <2>2 DEF TodoForm
  <2>3. CASE \E j \in 1..Len(t) : i = Len(s) + j
    BY <1>3, <1>4, <2>3 DEF TodoForm
  <2>4. QED
    BY <2>1, <2>2, <2>3
<1>6. TodoForm(u)
  BY <1>3, <1>5 DEF TodoForm
<1>7. QED
  BY <1>2, <1>6

\* The keys under a prefix are finitely many, and listed once each.
LEMMA Listing ==
  ASSUME NEW prefix, IsFiniteSet(DOMAIN docs)
  PROVE  /\ IsList(SetToSeq(Under(prefix)))
         /\ Len(SetToSeq(Under(prefix))) \in Nat
         /\ DOMAIN SetToSeq(Under(prefix)) = 1..Len(SetToSeq(Under(prefix)))
         /\ \A i \in 1..Len(SetToSeq(Under(prefix))) : SetToSeq(Under(prefix))[i] \in Under(prefix)
         /\ \A k \in Under(prefix) : \E i \in 1..Len(SetToSeq(Under(prefix))) : SetToSeq(Under(prefix))[i] = k
<1>1. PICK U : U = Under(prefix)
  OBVIOUS
<1>2. IsFiniteSet(U)
  <2>1. U \in SUBSET DOMAIN docs
    BY <1>1 DEF Under
  <2>2. QED
    BY <2>1, FS_Subset
<1>3. PICK s : s = SetToSeq(U)
  OBVIOUS
<1>4. /\ Cardinality(U) \in Nat /\ s \in Seq(U) /\ Len(s) = Cardinality(U) /\ DOMAIN s = 1..Cardinality(U)
      /\ \A x \in U : \E i \in 1..Cardinality(U) : s[i] = x
  BY <1>2, <1>3, SetToSeqIsEnumeration
<1>5. IsList(s) /\ \A i \in 1..Len(s) : s[i] \in U
  BY <1>4 DEF IsList
<1>6. QED
  BY <1>1, <1>3, <1>4, <1>5

\* What a sweep becomes.
LEMMA SweptOne ==
  ASSUME NEW e, e.inner = "", IsFiniteSet(DOMAIN docs)
  PROVE  /\ IsList(Deletions(e))
         /\ \A i \in DOMAIN Deletions(e) : \E k \in Under(e.under) : Deletions(e)[i] = Drop(k)
         /\ \A k \in Under(e.under) : \E i \in DOMAIN Deletions(e) : Deletions(e)[i] = Drop(k)
<1>1. PICK keys : keys = SetToSeq(Under(e.under))
  BY Zenon
<1>2. /\ Len(keys) \in Nat /\ DOMAIN keys = 1..Len(keys)
      /\ \A i \in 1..Len(keys) : keys[i] \in Under(e.under)
      /\ \A k \in Under(e.under) : \E i \in 1..Len(keys) : keys[i] = k
  BY <1>1, Listing, Zenon
<1>3. PICK n : n = Len(keys)
  BY Zenon
<1>4. PICK d : d = [i \in 1..n |-> Drop(keys[i])]
  BY Zenon
<1>5. Deletions(e) = d
  BY <1>1, <1>2, <1>3, <1>4, Zenon DEF Deletions
<1>6. IsList(d) /\ DOMAIN d = 1..n
  BY <1>2, <1>3, <1>4, ListOf, Zenon
<1>7. \A i \in 1..n : d[i] = Drop(keys[i])
  BY <1>4, Zenon
<1>8. ASSUME NEW i \in DOMAIN d PROVE \E k \in Under(e.under) : d[i] = Drop(k)
  <2>1. i \in 1..n
    BY <1>6, Zenon
  <2>2. keys[i] \in Under(e.under) /\ d[i] = Drop(keys[i])
    BY <1>2, <1>3, <1>7, <2>1, Zenon
  <2>3. QED
    BY <2>2
<1>9. \A k \in Under(e.under) : \E i \in DOMAIN d : d[i] = Drop(k)
  BY <1>2, <1>3, <1>6, <1>7, Zenon
<1>10. QED
  BY <1>5, <1>6, <1>8, <1>9, Zenon

\* Positions in a list of pairs.
LEMMA Pairs ==
  ASSUME NEW n \in Nat
  PROVE  /\ 2 * n \in Nat
         /\ \A j \in 1..n : /\ 2 * j \in 1..(2 * n) /\ (2 * j + 1) \div 2 = j /\ (2 * j) % 2 = 0 /\ 2 * j > 1
                            /\ 2 * j - 1 \in 1..(2 * n) /\ (2 * j - 1 + 1) \div 2 = j /\ (2 * j - 1) % 2 = 1
         /\ \A i \in 1..(2 * n) : \E j \in 1..n : i = 2 * j \/ i = 2 * j - 1
<1>1. 2 * n \in Nat
  OBVIOUS
<1>2. ASSUME NEW j \in 1..n
      PROVE  /\ 2 * j \in 1..(2 * n) /\ (2 * j + 1) \div 2 = j /\ (2 * j) % 2 = 0 /\ 2 * j > 1
             /\ 2 * j - 1 \in 1..(2 * n) /\ (2 * j - 1 + 1) \div 2 = j /\ (2 * j - 1) % 2 = 1
  OBVIOUS
<1>3. ASSUME NEW i \in 1..(2 * n) PROVE \E j \in 1..n : i = 2 * j \/ i = 2 * j - 1
  <2>1. (i + 1) \div 2 \in 1..n /\ (i = 2 * ((i + 1) \div 2) \/ i = 2 * ((i + 1) \div 2) - 1)
    OBVIOUS
  <2>2. QED
    BY <2>1
<1>4. QED
  BY <1>1, <1>2, <1>3

LEMMA ZeroOne == \A x : x = 0 => x # 1
OBVIOUS

DeletionAt(keys, inner, i) ==
    IF i % 2 = 1 THEN Sweep(Below(inner, keys[(i + 1) \div 2]), "") ELSE Drop(keys[(i + 1) \div 2])

LEMMA SweptTwo ==
  ASSUME NEW e, e.inner # "", IsFiniteSet(DOMAIN docs)
  PROVE  /\ IsList(Deletions(e))
         /\ \A i \in DOMAIN Deletions(e) : \E k \in Under(e.under) :
               \/ Deletions(e)[i] = Sweep(Below(e.inner, k), "")
               \/ i > 1 /\ Deletions(e)[i] = Drop(k) /\ Deletions(e)[i - 1] = Sweep(Below(e.inner, k), "")
         /\ \A k \in Under(e.under) : \E i \in DOMAIN Deletions(e) : Deletions(e)[i] = Drop(k)
<1>1. PICK keys : keys = SetToSeq(Under(e.under))
  BY Zenon
<1>2. /\ Len(keys) \in Nat /\ DOMAIN keys = 1..Len(keys)
      /\ \A i \in 1..Len(keys) : keys[i] \in Under(e.under)
      /\ \A k \in Under(e.under) : \E i \in 1..Len(keys) : keys[i] = k
  BY <1>1, Listing, Zenon
<1>3. PICK n \in Nat : n = Len(keys)
  BY <1>2, Zenon
<1>4. PICK d : d = [i \in 1..(2 * n) |-> DeletionAt(keys, e.inner, i)]
  BY Zenon
<1>5. Deletions(e) = d
  BY <1>1, <1>2, <1>3, <1>4, Zenon DEF Deletions, DeletionAt
<1>6. IsList(d) /\ DOMAIN d = 1..(2 * n)
  <2>1. 2 * n \in Nat
    BY <1>3, Pairs, Zenon
  <2>2. QED
    BY <1>4, <2>1, ListOf, Zenon
<1>7. \A j \in 1..n : d[2 * j] = Drop(keys[j]) /\ d[2 * j - 1] = Sweep(Below(e.inner, keys[j]), "")
                      /\ 2 * j \in 1..(2 * n) /\ 2 * j - 1 \in 1..(2 * n)
  <2> TAKE j \in 1..n
  <2>1. /\ 2 * j \in 1..(2 * n) /\ (2 * j + 1) \div 2 = j /\ (2 * j) % 2 = 0
        /\ 2 * j - 1 \in 1..(2 * n) /\ (2 * j - 1 + 1) \div 2 = j /\ (2 * j - 1) % 2 = 1
    BY Pairs, Zenon
  <2>2. PICK p, q : p = 2 * j /\ q = 2 * j - 1
    OBVIOUS
  <2>3. /\ p \in 1..(2 * n) /\ (p + 1) \div 2 = j /\ p % 2 = 0
        /\ q \in 1..(2 * n) /\ (q + 1) \div 2 = j /\ q % 2 = 1
    BY <2>1, <2>2, Zenon
  <2>4. d[p] = Drop(keys[j]) /\ d[q] = Sweep(Below(e.inner, keys[j]), "")
    <3>1. d[p] = DeletionAt(keys, e.inner, p) /\ d[q] = DeletionAt(keys, e.inner, q)
      BY <1>4, <2>3
    <3>2. p % 2 # 1
      BY <2>3, ZeroOne, Zenon
    <3>3. QED
      BY <2>3, <3>1, <3>2, Zenon DEF DeletionAt
  <2>5. QED
    BY <2>1, <2>2, <2>4, Zenon
<1>8. \A i \in 1..(2 * n) : \E j \in 1..n : i = 2 * j \/ i = 2 * j - 1
  BY <1>3, Pairs, Zenon
<1>9. ASSUME NEW i \in 1..(2 * n)
      PROVE  \E k \in Under(e.under) :
               \/ d[i] = Sweep(Below(e.inner, k), "")
               \/ i > 1 /\ d[i] = Drop(k) /\ d[i - 1] = Sweep(Below(e.inner, k), "")
  <2>1. PICK j \in 1..n : i = 2 * j \/ i = 2 * j - 1
    BY <1>8, Zenon
  <2>2. keys[j] \in Under(e.under)
    BY <1>2, <1>3, Zenon
  <2>3. CASE i = 2 * j
    BY <1>7, <2>2, <2>3, Pairs, Zenon
  <2>4. CASE i = 2 * j - 1
    BY <1>7, <2>2, <2>4, Zenon
  <2>5. QED
    BY <2>1, <2>3, <2>4, Zenon
<1>10. \A k \in Under(e.under) : \E i \in 1..(2 * n) : d[i] = Drop(k)
  <2> TAKE k \in Under(e.under)
  <2>1. PICK j \in 1..n : keys[j] = k
    BY <1>2, <1>3, Zenon
  <2>2. PICK p : p = 2 * j
    OBVIOUS
  <2>3. p \in 1..(2 * n) /\ d[p] = Drop(k)
    BY <1>7, <2>1, <2>2, Zenon
  <2>4. QED
    BY <2>3
<1>11. QED
  BY <1>5, <1>6, <1>9, <1>10, Zenon

LEMMA SweptForm ==
  ASSUME NEW e, IsFiniteSet(DOMAIN docs)
  PROVE  TodoForm(Deletions(e))
<1>1. CASE e.inner = ""
  <2>1. IsList(Deletions(e)) /\ \A i \in DOMAIN Deletions(e) : \E k \in Under(e.under) : Deletions(e)[i] = Drop(k)
    BY <1>1, SweptOne, Zenon
  <2>2. QED
    BY <2>1, EntryForms, Zenon DEF TodoForm
<1>2. CASE e.inner # ""
  <2>1. IsList(Deletions(e)) /\ \A i \in DOMAIN Deletions(e) : \E k \in Under(e.under) :
               \/ Deletions(e)[i] = Sweep(Below(e.inner, k), "")
               \/ Deletions(e)[i] = Drop(k)
    BY <1>2, SweptTwo, Zenon
  <2>2. QED
    BY <2>1, EntryForms, Zenon DEF TodoForm
<1>3. QED
  BY <1>1, <1>2, Zenon

LEMMA EmptyList == IsList(<<>>) /\ Unique(<<>>) /\ Len(<<>>) = 0 /\ DOMAIN <<>> = {}
<1>1. IsList(<<>>)
  BY EmptySeq DEF IsList
<1>2. QED
  BY <1>1 DEF Unique

LEMMA KeptForm ==
  ASSUME FormInv, NEW k, NEW d, KeyForm(k), ListKept(k, d)
  PROVE  DocForm(k, d)
<1>1. Has(k) => DocForm(k, docs[k])
  BY DEF FormInv, Has
<1>2. ASSUME Head(k) = "network.virtualnetworks"
      PROVE  /\ d = [body |-> d.body, subnets |-> d.subnets] /\ IsList(d.subnets) /\ Unique(d.subnets)
             /\ \A i \in DOMAIN d.subnets : d.subnets[i].prefix \in Ranges
  <2>1. d = [body |-> d.body, subnets |-> Kept(k, "subnets", <<>>)]
    BY <1>2 DEF ListKept, ListFields
  <2>2. PICK l : l = Kept(k, "subnets", <<>>)
    OBVIOUS
  <2>3. IsList(l) /\ Unique(l) /\ \A i \in DOMAIN l : l[i].prefix \in Ranges
    BY <1>1, <1>2, <2>2, EmptyList DEF Kept, DocForm
  <2>4. d.subnets = l
    BY <2>1, <2>2
  <2>5. QED
    BY <2>1, <2>2, <2>3, <2>4
<1>3. ASSUME Head(k) = "network.nsgs"
      PROVE  d = [body |-> d.body, rules |-> d.rules] /\ IsList(d.rules) /\ Unique(d.rules)
  <2>1. d = [body |-> d.body, rules |-> Kept(k, "rules", <<>>)]
    BY <1>3 DEF ListKept, ListFields
  <2>2. PICK l : l = Kept(k, "rules", <<>>)
    OBVIOUS
  <2>3. IsList(l) /\ Unique(l)
    BY <1>1, <1>3, <2>2, EmptyList DEF Kept, DocForm
  <2>4. d.rules = l
    BY <2>1, <2>2
  <2>5. QED
    BY <2>1, <2>2, <2>3, <2>4
<1>4. ASSUME Head(k) = "network.routetables"
      PROVE  d = [body |-> d.body, routes |-> d.routes] /\ IsList(d.routes) /\ Unique(d.routes)
  <2>1. d = [body |-> d.body, routes |-> Kept(k, "routes", <<>>)]
    BY <1>4 DEF ListKept, ListFields
  <2>2. PICK l : l = Kept(k, "routes", <<>>)
    OBVIOUS
  <2>3. IsList(l) /\ Unique(l)
    BY <1>1, <1>4, <2>2, EmptyList DEF Kept, DocForm
  <2>4. d.routes = l
    BY <2>1, <2>2
  <2>5. QED
    BY <2>1, <2>2, <2>3, <2>4
<1>5. ASSUME Head(k) = "network.privatednszones"
      PROVE  /\ d = [body |-> d.body, records |-> d.records, count |-> d.count]
             /\ IsList(d.records) /\ Unique(d.records) /\ d.count = Len(d.records)
  <2>1. PICK l : l = Kept(k, "records", <<>>)
    OBVIOUS
  <2>2. d = [body |-> d.body, records |-> l, count |-> Len(l)]
    BY <1>5, <2>1 DEF ListKept, ListFields
  <2>3. IsList(l) /\ Unique(l)
    BY <1>1, <1>5, <2>1, EmptyList DEF Kept, DocForm
  <2>4. d.records = l /\ d.count = Len(l)
    BY <2>2
  <2>5. QED
    BY <2>2, <2>3, <2>4
<1>6. QED
  BY <1>2, <1>3, <1>4, <1>5, Zenon DEF DocForm

\* What an entry put in a list, or taken out of it, makes of its document.
LEMMA EntryDocs ==
  ASSUME FormInv, NEW k, Has(k)
  PROVE  /\ Head(k) = "network.virtualnetworks" => \A entry :
               /\ entry.prefix \in Ranges =>
                     DocForm(k, [docs[k] EXCEPT !["subnets"] = Upsert(@, entry)])
               /\ \A name : DocForm(k, [docs[k] EXCEPT !["subnets"] = Without(@, name)])
         /\ Head(k) = "network.nsgs" => \A entry :
               /\ DocForm(k, [docs[k] EXCEPT !["rules"] = Upsert(@, entry)])
               /\ \A name : DocForm(k, [docs[k] EXCEPT !["rules"] = Without(@, name)])
         /\ Head(k) = "network.routetables" => \A entry :
               /\ DocForm(k, [docs[k] EXCEPT !["routes"] = Upsert(@, entry)])
               /\ \A name : DocForm(k, [docs[k] EXCEPT !["routes"] = Without(@, name)])
         /\ Head(k) = "network.privatednszones" => \A l :
               IsList(l) /\ Unique(l) => DocForm(k, [docs[k] EXCEPT !.records = l, !.count = Len(l)])
<1>1. PICK d : d = docs[k]
  OBVIOUS
<1>2. DocForm(k, d) /\ KeyForm(k)
  BY <1>1 DEF FormInv, Has, DocForm
<1>3. ASSUME Head(k) = "network.virtualnetworks", NEW l, IsList(l), Unique(l), \A i \in DOMAIN l : l[i].prefix \in Ranges
      PROVE  DocForm(k, [d EXCEPT !["subnets"] = l])
  <2>1. d = [body |-> d.body, subnets |-> d.subnets]
    BY <1>2, <1>3 DEF DocForm
  <2>2. PICK e : e = [d EXCEPT !["subnets"] = l]
    BY Zenon
  <2>3. e = [body |-> e.body, subnets |-> e.subnets] /\ e.subnets = l
    BY <2>1, <2>2, Zenon
  <2>4. DocForm(k, e)
    BY <1>2, <1>3, <2>3 DEF DocForm
  <2>5. QED
    BY <2>2, <2>4
<1>4. ASSUME Head(k) = "network.nsgs", NEW l, IsList(l), Unique(l)
      PROVE  DocForm(k, [d EXCEPT !["rules"] = l])
  <2>1. d = [body |-> d.body, rules |-> d.rules]
    BY <1>2, <1>4 DEF DocForm
  <2>2. PICK e : e = [d EXCEPT !["rules"] = l]
    BY Zenon
  <2>3. e = [body |-> e.body, rules |-> e.rules] /\ e.rules = l
    BY <2>1, <2>2, Zenon
  <2>4. DocForm(k, e)
    BY <1>2, <1>4, <2>3 DEF DocForm
  <2>5. QED
    BY <2>2, <2>4
<1>5. ASSUME Head(k) = "network.routetables", NEW l, IsList(l), Unique(l)
      PROVE  DocForm(k, [d EXCEPT !["routes"] = l])
  <2>1. d = [body |-> d.body, routes |-> d.routes]
    BY <1>2, <1>5 DEF DocForm
  <2>2. PICK e : e = [d EXCEPT !["routes"] = l]
    BY Zenon
  <2>3. e = [body |-> e.body, routes |-> e.routes] /\ e.routes = l
    BY <2>1, <2>2, Zenon
  <2>4. DocForm(k, e)
    BY <1>2, <1>5, <2>3 DEF DocForm
  <2>5. QED
    BY <2>2, <2>4
<1>6. ASSUME Head(k) = "network.privatednszones", NEW l, IsList(l), Unique(l)
      PROVE  DocForm(k, [d EXCEPT !.records = l, !.count = Len(l)])
  <2>1. d = [body |-> d.body, records |-> d.records, count |-> d.count]
    BY <1>2, <1>6 DEF DocForm
  <2>2. PICK e, n : e = [d EXCEPT !.records = l, !.count = n] /\ n = Len(l)
    BY Zenon
  <2>3. e = [body |-> e.body, records |-> e.records, count |-> e.count] /\ e.records = l /\ e.count = n
    BY <2>1, <2>2, Zenon
  <2>4. DocForm(k, e)
    BY <1>2, <1>6, <2>2, <2>3 DEF DocForm
  <2>5. QED
    BY <2>2, <2>4
<1>7. /\ Head(k) = "network.virtualnetworks" =>
            IsList(d["subnets"]) /\ Unique(d["subnets"]) /\ \A i \in DOMAIN d["subnets"] : d["subnets"][i].prefix \in Ranges
      /\ Head(k) = "network.nsgs" => IsList(d["rules"]) /\ Unique(d["rules"])
      /\ Head(k) = "network.routetables" => IsList(d["routes"]) /\ Unique(d["routes"])
  BY <1>2 DEF DocForm
<1>8. ASSUME Head(k) = "network.virtualnetworks", NEW entry
      PROVE  /\ entry.prefix \in Ranges => DocForm(k, [d EXCEPT !["subnets"] = Upsert(@, entry)])
             /\ \A name : DocForm(k, [d EXCEPT !["subnets"] = Without(@, name)])
  <2>1. PICK l : l = d["subnets"]
    OBVIOUS
  <2>2. IsList(l) /\ Unique(l) /\ \A i \in DOMAIN l : l[i].prefix \in Ranges
    BY <1>7, <1>8, <2>1
  <2>3. ASSUME entry.prefix \in Ranges PROVE DocForm(k, [d EXCEPT !["subnets"] = Upsert(l, entry)])
    <3>1. PICK u : u = Upsert(l, entry)
      OBVIOUS
    <3>2. IsList(u) /\ Unique(u) /\ \A i \in DOMAIN u : u[i] = entry \/ \E j \in DOMAIN l : u[i] = l[j]
      BY <2>2, <3>1, UpsertKeeps
    <3>3. \A i \in DOMAIN u : u[i].prefix \in Ranges
      BY <2>2, <2>3, <3>2
    <3>4. QED
      BY <1>3, <1>8, <3>1, <3>2, <3>3
  <2>4. ASSUME NEW name PROVE DocForm(k, [d EXCEPT !["subnets"] = Without(l, name)])
    <3>1. PICK u : u = Without(l, name)
      OBVIOUS
    <3>2. IsList(u) /\ Unique(u) /\ \A i \in DOMAIN u : \E j \in DOMAIN l : u[i] = l[j]
      BY <2>2, <3>1, WithoutKeeps
    <3>3. \A i \in DOMAIN u : u[i].prefix \in Ranges
      BY <2>2, <3>2
    <3>4. QED
      BY <1>3, <1>8, <3>1, <3>2, <3>3
  <2>5. QED
    BY <2>1, <2>3, <2>4
<1>9. ASSUME Head(k) = "network.nsgs", NEW entry
      PROVE  /\ DocForm(k, [d EXCEPT !["rules"] = Upsert(@, entry)])
             /\ \A name : DocForm(k, [d EXCEPT !["rules"] = Without(@, name)])
  <2>1. PICK l : l = d["rules"]
    OBVIOUS
  <2>2. IsList(l) /\ Unique(l)
    BY <1>7, <1>9, <2>1
  <2>3. IsList(Upsert(l, entry)) /\ Unique(Upsert(l, entry))
        /\ \A name : IsList(Without(l, name)) /\ Unique(Without(l, name))
    BY <2>2, UpsertKeeps, WithoutKeeps
  <2>4. DocForm(k, [d EXCEPT !["rules"] = Upsert(l, entry)])
        /\ \A name : DocForm(k, [d EXCEPT !["rules"] = Without(l, name)])
    BY <1>4, <1>9, <2>3
  <2>5. QED
    BY <2>1, <2>4
<1>10. ASSUME Head(k) = "network.routetables", NEW entry
       PROVE  /\ DocForm(k, [d EXCEPT !["routes"] = Upsert(@, entry)])
              /\ \A name : DocForm(k, [d EXCEPT !["routes"] = Without(@, name)])
  <2>1. PICK l : l = d["routes"]
    OBVIOUS
  <2>2. IsList(l) /\ Unique(l)
    BY <1>7, <1>10, <2>1
  <2>3. IsList(Upsert(l, entry)) /\ Unique(Upsert(l, entry))
        /\ \A name : IsList(Without(l, name)) /\ Unique(Without(l, name))
    BY <2>2, UpsertKeeps, WithoutKeeps
  <2>4. DocForm(k, [d EXCEPT !["routes"] = Upsert(l, entry)])
        /\ \A name : DocForm(k, [d EXCEPT !["routes"] = Without(l, name)])
    BY <1>5, <1>10, <2>3
  <2>5. QED
    BY <2>1, <2>4
<1>11. QED
  BY <1>1, <1>6, <1>8, <1>9, <1>10, Zenon

\* The list that a document of that key keeps.
Listed(k, d) ==
    CASE Head(k) = "network.virtualnetworks" -> d.subnets
      [] Head(k) = "network.nsgs" -> d.rules
      [] Head(k) = "network.routetables" -> d.routes
      [] Head(k) = "network.privatednszones" -> d.records
      [] OTHER -> <<>>

\* Put instead of the one stored, it loses no entry but those.
KeepsNames(k, d, lost) == Names(Listed(k, docs[k])) \ lost \subseteq Names(Listed(k, d))

LEMMA EntryNames ==
  ASSUME FormInv, NEW k, Has(k)
  PROVE  /\ Head(k) = "network.virtualnetworks" =>
               /\ \A entry : KeepsNames(k, [docs[k] EXCEPT !["subnets"] = Upsert(@, entry)], {})
               /\ \A name : KeepsNames(k, [docs[k] EXCEPT !["subnets"] = Without(@, name)], {name})
         /\ Head(k) = "network.nsgs" =>
               /\ \A entry : KeepsNames(k, [docs[k] EXCEPT !["rules"] = Upsert(@, entry)], {})
               /\ \A name : KeepsNames(k, [docs[k] EXCEPT !["rules"] = Without(@, name)], {name})
         /\ Head(k) = "network.routetables" =>
               /\ \A entry : KeepsNames(k, [docs[k] EXCEPT !["routes"] = Upsert(@, entry)], {})
               /\ \A name : KeepsNames(k, [docs[k] EXCEPT !["routes"] = Without(@, name)], {name})
         /\ Head(k) = "network.privatednszones" => \A l, lost :
               Names(docs[k].records) \ lost \subseteq Names(l) =>
                  KeepsNames(k, [docs[k] EXCEPT !.records = l, !.count = Len(l)], lost)
<1>1. PICK d : d = docs[k]
  OBVIOUS
<1>2. DocForm(k, d)
  BY <1>1 DEF FormInv, Has
<1>3. ASSUME Head(k) = "network.virtualnetworks"
      PROVE  /\ \A entry : KeepsNames(k, [d EXCEPT !["subnets"] = Upsert(@, entry)], {})
             /\ \A name : KeepsNames(k, [d EXCEPT !["subnets"] = Without(@, name)], {name})
  <2>1. IsList(d.subnets) /\ Unique(d.subnets) /\ d = [body |-> d.body, subnets |-> d.subnets]
    BY <1>2, <1>3 DEF DocForm
  <2>2. \A l : [d EXCEPT !["subnets"] = l].subnets = l
    BY <2>1
  <2>3. \A l, lost : Names(d.subnets) \ lost \subseteq Names(l) => KeepsNames(k, [d EXCEPT !["subnets"] = l], lost)
    BY <1>1, <1>3, <2>2, Zenon DEF KeepsNames, Listed
  <2>4. /\ \A entry : Names(d.subnets) \ {} \subseteq Names(Upsert(d.subnets, entry))
        /\ \A name : Names(d.subnets) \ {name} \subseteq Names(Without(d.subnets, name))
    BY <2>1, UpsertKeeps, WithoutKeeps
  <2>5. QED
    BY <2>3, <2>4, Zenon
<1>4. ASSUME Head(k) = "network.nsgs"
      PROVE  /\ \A entry : KeepsNames(k, [d EXCEPT !["rules"] = Upsert(@, entry)], {})
             /\ \A name : KeepsNames(k, [d EXCEPT !["rules"] = Without(@, name)], {name})
  <2>1. IsList(d.rules) /\ Unique(d.rules) /\ d = [body |-> d.body, rules |-> d.rules]
    BY <1>2, <1>4 DEF DocForm
  <2>2. \A l : [d EXCEPT !["rules"] = l].rules = l
    BY <2>1
  <2>3. \A l, lost : Names(d.rules) \ lost \subseteq Names(l) => KeepsNames(k, [d EXCEPT !["rules"] = l], lost)
    BY <1>1, <1>4, <2>2, Zenon DEF KeepsNames, Listed
  <2>4. /\ \A entry : Names(d.rules) \ {} \subseteq Names(Upsert(d.rules, entry))
        /\ \A name : Names(d.rules) \ {name} \subseteq Names(Without(d.rules, name))
    BY <2>1, UpsertKeeps, WithoutKeeps
  <2>5. QED
    BY <2>3, <2>4, Zenon
<1>5. ASSUME Head(k) = "network.routetables"
      PROVE  /\ \A entry : KeepsNames(k, [d EXCEPT !["routes"] = Upsert(@, entry)], {})
             /\ \A name : KeepsNames(k, [d EXCEPT !["routes"] = Without(@, name)], {name})
  <2>1. IsList(d.routes) /\ Unique(d.routes) /\ d = [body |-> d.body, routes |-> d.routes]
    BY <1>2, <1>5 DEF DocForm
  <2>2. \A l : [d EXCEPT !["routes"] = l].routes = l
    BY <2>1
  <2>3. \A l, lost : Names(d.routes) \ lost \subseteq Names(l) => KeepsNames(k, [d EXCEPT !["routes"] = l], lost)
    BY <1>1, <1>5, <2>2, Zenon DEF KeepsNames, Listed
  <2>4. /\ \A entry : Names(d.routes) \ {} \subseteq Names(Upsert(d.routes, entry))
        /\ \A name : Names(d.routes) \ {name} \subseteq Names(Without(d.routes, name))
    BY <2>1, UpsertKeeps, WithoutKeeps
  <2>5. QED
    BY <2>3, <2>4, Zenon
<1>6. ASSUME Head(k) = "network.privatednszones", NEW l, NEW lost, Names(d.records) \ lost \subseteq Names(l)
      PROVE  KeepsNames(k, [d EXCEPT !.records = l, !.count = Len(l)], lost)
  <2>1. d = [body |-> d.body, records |-> d.records, count |-> d.count]
    BY <1>2, <1>6 DEF DocForm
  <2>2. [d EXCEPT !.records = l, !.count = Len(l)].records = l
    BY <2>1
  <2>3. QED
    BY <1>1, <1>6, <2>2, Zenon DEF KeepsNames, Listed
<1>7. QED
  BY <1>1, <1>3, <1>4, <1>5, <1>6, Zenon

\* A handler that puts or deletes an entry of a list.
EntryWrite(c) ==
    \E verb, k, name, d :
       /\ Begin(c, verb, Append(k, name), <<Store(k, d)>>)
       /\ Has(k) /\ Head(k) \in NestedKinds /\ DocForm(k, d)
       /\ \/ verb = "put" /\ KeepsNames(k, d, {})
          \/ verb = "delete" /\ KeepsNames(k, d, {name})

\* The writes that a request leaves to do.
LEMMA EntryWrites ==
  ASSUME FormInv, NEW c, EntryPut(c) \/ EntryDrop(c)
  PROVE  EntryWrite(c)
<1>1. ASSUME NEW v, NEW s, NEW prefix \in Ranges, PutSubnet(c, v, s, prefix)
      PROVE  EntryWrite(c)
  <2>1. PICK k, entry : k = VNet(v) /\ entry = [name |-> s, prefix |-> prefix]
    OBVIOUS
  <2>2. Has(k) /\ Begin(c, "put", Append(k, entry.name),
                        <<Store(k, [docs[k] EXCEPT !["subnets"] = Upsert(@, entry)])>>)
    BY <1>1, <2>1, Zenon DEF PutSubnet, PuttingIn
  <2>3. entry.prefix \in Ranges /\ Head(k) = "network.virtualnetworks"
    BY <2>1, Tuples DEF VNet
  <2>4. DocForm(k, [docs[k] EXCEPT !["subnets"] = Upsert(@, entry)])
    BY <2>2, <2>3, EntryDocs, Zenon
  <2>5. KeepsNames(k, [docs[k] EXCEPT !["subnets"] = Upsert(@, entry)], {})
    BY <2>2, <2>3, EntryNames, Zenon
  <2>6. Head(k) \in NestedKinds
    BY <2>3, KindSets
  <2>7. QED
    BY <2>2, <2>4, <2>5, <2>6, Zenon DEF EntryWrite
<1>2. ASSUME NEW n, NEW r, NEW p, PutSecurityRule(c, n, r, p)
      PROVE  EntryWrite(c)
  <2>1. PICK k, entry : k = NSG(n) /\ entry = [name |-> r, priority |-> p]
    OBVIOUS
  <2>2. Has(k) /\ Begin(c, "put", Append(k, entry.name),
                        <<Store(k, [docs[k] EXCEPT !["rules"] = Upsert(@, entry)])>>)
    BY <1>2, <2>1, Zenon DEF PutSecurityRule, PuttingIn
  <2>3. Head(k) = "network.nsgs"
    BY <2>1, Tuples DEF NSG
  <2>4. DocForm(k, [docs[k] EXCEPT !["rules"] = Upsert(@, entry)])
    BY <2>2, <2>3, EntryDocs, Zenon
  <2>5. KeepsNames(k, [docs[k] EXCEPT !["rules"] = Upsert(@, entry)], {})
    BY <2>2, <2>3, EntryNames, Zenon
  <2>6. Head(k) \in NestedKinds
    BY <2>3, KindSets
  <2>7. QED
    BY <2>2, <2>4, <2>5, <2>6, Zenon DEF EntryWrite
<1>3. ASSUME NEW n, NEW r, NEW hop, PutRoute(c, n, r, hop)
      PROVE  EntryWrite(c)
  <2>1. PICK k, entry : k = RouteTable(n) /\ entry = [name |-> r, hop |-> hop]
    OBVIOUS
  <2>2. Has(k) /\ Begin(c, "put", Append(k, entry.name),
                        <<Store(k, [docs[k] EXCEPT !["routes"] = Upsert(@, entry)])>>)
    BY <1>3, <2>1, Zenon DEF PutRoute, PuttingIn
  <2>3. Head(k) = "network.routetables"
    BY <2>1, Tuples DEF RouteTable
  <2>4. DocForm(k, [docs[k] EXCEPT !["routes"] = Upsert(@, entry)])
    BY <2>2, <2>3, EntryDocs, Zenon
  <2>5. KeepsNames(k, [docs[k] EXCEPT !["routes"] = Upsert(@, entry)], {})
    BY <2>2, <2>3, EntryNames, Zenon
  <2>6. Head(k) \in NestedKinds
    BY <2>3, KindSets
  <2>7. QED
    BY <2>2, <2>4, <2>5, <2>6, Zenon DEF EntryWrite
<1>4. ASSUME NEW n, Has(Zone(n))
      PROVE  /\ IsList(docs[Zone(n)].records) /\ Unique(docs[Zone(n)].records)
             /\ \A l : IsList(l) /\ Unique(l) => DocForm(Zone(n), [docs[Zone(n)] EXCEPT !.records = l, !.count = Len(l)])
             /\ \A l, lost : Names(docs[Zone(n)].records) \ lost \subseteq Names(l) =>
                   KeepsNames(Zone(n), [docs[Zone(n)] EXCEPT !.records = l, !.count = Len(l)], lost)
             /\ Head(Zone(n)) \in NestedKinds
  <2>1. PICK k : k = Zone(n)
    OBVIOUS
  <2>2. Head(k) = "network.privatednszones"
    BY <2>1, Tuples DEF Zone
  <2>3. DocForm(k, docs[k])
    BY <1>4, <2>1 DEF FormInv, Has
  <2>4. IsList(docs[k].records) /\ Unique(docs[k].records)
    BY <2>2, <2>3 DEF DocForm
  <2>5. \A l, lost : Names(docs[k].records) \ lost \subseteq Names(l) =>
           KeepsNames(k, [docs[k] EXCEPT !.records = l, !.count = Len(l)], lost)
    BY <1>4, <2>1, <2>2, EntryNames, Zenon
  <2>6. Head(k) \in NestedKinds
    BY <2>2, KindSets
  <2>7. QED
    BY <1>4, <2>1, <2>2, <2>4, <2>5, <2>6, EntryDocs, Zenon
<1>5. ASSUME NEW n, NEW r, NEW ttl, PutPrivateDNSRecordSet(c, n, r, ttl)
      PROVE  EntryWrite(c)
  <2>1. PICK k, entry, l : /\ k = Zone(n) /\ entry = [name |-> r, ttl |-> ttl]
                           /\ l = Upsert(docs[k].records, entry)
    OBVIOUS
  <2>2. Has(k) /\ Begin(c, "put", Append(k, r), <<Store(k, [docs[k] EXCEPT !.records = l, !.count = Len(l)])>>)
    BY <1>5, <2>1, Zenon DEF PutPrivateDNSRecordSet
  <2>3. IsList(l) /\ Unique(l) /\ Names(docs[k].records) \ {} \subseteq Names(l)
    BY <1>4, <2>1, <2>2, UpsertKeeps, Zenon
  <2>4. /\ DocForm(k, [docs[k] EXCEPT !.records = l, !.count = Len(l)])
        /\ KeepsNames(k, [docs[k] EXCEPT !.records = l, !.count = Len(l)], {})
        /\ Head(k) \in NestedKinds
    BY <1>4, <2>1, <2>2, <2>3, Zenon
  <2>5. QED
    BY <2>2, <2>4, Zenon DEF EntryWrite
<1>6. ASSUME NEW n, NEW r, DeletePrivateDNSRecordSet(c, n, r)
      PROVE  EntryWrite(c)
  <2>1. PICK k, l : k = Zone(n) /\ l = Without(docs[k].records, r)
    OBVIOUS
  <2>2. Has(k) /\ Begin(c, "delete", Append(k, r), <<Store(k, [docs[k] EXCEPT !.records = l, !.count = Len(l)])>>)
    BY <1>6, <2>1, Zenon DEF DeletePrivateDNSRecordSet
  <2>3. IsList(l) /\ Unique(l) /\ Names(docs[k].records) \ {r} \subseteq Names(l)
    BY <1>4, <2>1, <2>2, WithoutKeeps, Zenon
  <2>4. /\ DocForm(k, [docs[k] EXCEPT !.records = l, !.count = Len(l)])
        /\ KeepsNames(k, [docs[k] EXCEPT !.records = l, !.count = Len(l)], {r})
        /\ Head(k) \in NestedKinds
    BY <1>4, <2>1, <2>2, <2>3, Zenon
  <2>5. QED
    BY <2>2, <2>4, Zenon DEF EntryWrite
<1>7. ASSUME NEW v, NEW s, DeleteSubnet(c, v, s)
      PROVE  EntryWrite(c)
  <2>1. PICK k : k = VNet(v)
    OBVIOUS
  <2>2. Has(k) /\ Begin(c, "delete", Append(k, s), <<Store(k, [docs[k] EXCEPT !["subnets"] = Without(@, s)])>>)
    BY <1>7, <2>1, Zenon DEF DeleteSubnet, DeletingIn
  <2>3. Head(k) = "network.virtualnetworks"
    BY <2>1, Tuples DEF VNet
  <2>4. DocForm(k, [docs[k] EXCEPT !["subnets"] = Without(@, s)])
    BY <2>2, <2>3, EntryDocs, Zenon
  <2>5. KeepsNames(k, [docs[k] EXCEPT !["subnets"] = Without(@, s)], {s})
    BY <2>2, <2>3, EntryNames, Zenon
  <2>6. Head(k) \in NestedKinds
    BY <2>3, KindSets
  <2>7. QED
    BY <2>2, <2>4, <2>5, <2>6, Zenon DEF EntryWrite
<1>8. ASSUME NEW n, NEW r, DeleteSecurityRule(c, n, r)
      PROVE  EntryWrite(c)
  <2>1. PICK k : k = NSG(n)
    OBVIOUS
  <2>2. Has(k) /\ Begin(c, "delete", Append(k, r), <<Store(k, [docs[k] EXCEPT !["rules"] = Without(@, r)])>>)
    BY <1>8, <2>1, Zenon DEF DeleteSecurityRule, DeletingIn
  <2>3. Head(k) = "network.nsgs"
    BY <2>1, Tuples DEF NSG
  <2>4. DocForm(k, [docs[k] EXCEPT !["rules"] = Without(@, r)])
    BY <2>2, <2>3, EntryDocs, Zenon
  <2>5. KeepsNames(k, [docs[k] EXCEPT !["rules"] = Without(@, r)], {r})
    BY <2>2, <2>3, EntryNames, Zenon
  <2>6. Head(k) \in NestedKinds
    BY <2>3, KindSets
  <2>7. QED
    BY <2>2, <2>4, <2>5, <2>6, Zenon DEF EntryWrite
<1>9. ASSUME NEW n, NEW r, DeleteRoute(c, n, r)
      PROVE  EntryWrite(c)
  <2>1. PICK k : k = RouteTable(n)
    OBVIOUS
  <2>2. Has(k) /\ Begin(c, "delete", Append(k, r), <<Store(k, [docs[k] EXCEPT !["routes"] = Without(@, r)])>>)
    BY <1>9, <2>1, Zenon DEF DeleteRoute, DeletingIn
  <2>3. Head(k) = "network.routetables"
    BY <2>1, Tuples DEF RouteTable
  <2>4. DocForm(k, [docs[k] EXCEPT !["routes"] = Without(@, r)])
    BY <2>2, <2>3, EntryDocs, Zenon
  <2>5. KeepsNames(k, [docs[k] EXCEPT !["routes"] = Without(@, r)], {r})
    BY <2>2, <2>3, EntryNames, Zenon
  <2>6. Head(k) \in NestedKinds
    BY <2>3, KindSets
  <2>7. QED
    BY <2>2, <2>4, <2>5, <2>6, Zenon DEF EntryWrite
<1>10. QED
  BY <1>1, <1>2, <1>3, <1>5, <1>6, <1>7, <1>8, <1>9, Zenon DEF EntryPut, EntryDrop

\* A document of a kind that keeps no list.
LEMMA PlainForm ==
  ASSUME NEW k, NEW d, KeyForm(k), Head(k) \notin NestedKinds
  PROVE  DocForm(k, d)
BY KindSets DEF DocForm

LEMMA IndexedWrites ==
  ASSUME NEW c, IndexedPut(c) \/ IndexedDrop(c)
  PROVE  \E verb, on, todo : Begin(c, verb, on, todo) /\ TodoForm(todo)
<1>1. ASSUME NEW k, NEW d, k = <<Head(k), k[2], k[3], k[4]>>, Head(k) = "cosmosdb.dataplane.containers",
             IsList(k), k # <<>>
      PROVE  DocForm(k, d)
  BY <1>1, PlainForm, KindSets DEF KeyForm
<1>2. ASSUME NEW k, NEW d, Head(k) \in {"cosmosdb.containers", "eventgrid.topics"}, IsList(k), k # <<>>
      PROVE  DocForm(k, d)
  BY <1>2, PlainForm, KindSets DEF KeyForm
<1>3. ASSUME NEW k, NEW d, k = <<Head(k), k[2]>>, Head(k) = "eventgrid.dataplane.topics",
             IsList(k), k # <<>>
      PROVE  DocForm(k, d)
  BY <1>3, PlainForm, KindSets DEF KeyForm
<1>4. ASSUME NEW g, NEW a, NEW d, NEW n, NEW x, NEW y
      PROVE  DocForm(Container(g, a, d, n), x) /\ DocForm(ContainerEntity(a, d, n), y)
  BY <1>1, <1>2, Tuples DEF Container, ContainerEntity
<1>5. ASSUME NEW g, NEW t, NEW x, NEW y
      PROVE  DocForm(Topic(g, t), x) /\ DocForm(DataPlaneTopic(t), y)
  BY <1>2, <1>3, Tuples DEF Topic, DataPlaneTopic
<1>6. ASSUME NEW g, NEW a, NEW d, NEW n, NEW paths, PutContainer(c, g, a, d, n, paths)
      PROVE  \E verb, on, todo : Begin(c, verb, on, todo) /\ TodoForm(todo)
  BY <1>4, <1>6, EntryForms, FewWrites, Zenon DEF PutContainer
<1>7. ASSUME NEW g, NEW t, PutTopic(c, g, t)
      PROVE  \E verb, on, todo : Begin(c, verb, on, todo) /\ TodoForm(todo)
  BY <1>5, <1>7, EntryForms, FewWrites, Zenon DEF PutTopic
<1>8. ASSUME NEW g, NEW a, NEW d, NEW n, DeleteContainer(c, g, a, d, n)
      PROVE  \E verb, on, todo : Begin(c, verb, on, todo) /\ TodoForm(todo)
  BY <1>8, EntryForms, FewWrites, Zenon DEF DeleteContainer
<1>9. ASSUME NEW g, NEW t, DeleteTopic(c, g, t)
      PROVE  \E verb, on, todo : Begin(c, verb, on, todo) /\ TodoForm(todo)
  BY <1>9, EntryForms, FewWrites, Zenon DEF DeleteTopic
<1>10. QED
  BY <1>6, <1>7, <1>8, <1>9, Zenon DEF IndexedPut, IndexedDrop

LEMMA CascadeWrites ==
  ASSUME NEW c, Cascade(c)
  PROVE  \E verb, on, todo : Begin(c, verb, on, todo) /\ TodoForm(todo)
<1>1. ASSUME NEW s, DeleteService(c, s)
      PROVE  \E verb, on, todo : Begin(c, verb, on, todo) /\ TodoForm(todo)
  BY <1>1, EntryForms, FewWrites, Zenon DEF DeleteService, AllAPIs, AllProducts, AllSubscriptions
<1>2. ASSUME NEW s, NEW a, DeleteAPI(c, s, a)
      PROVE  \E verb, on, todo : Begin(c, verb, on, todo) /\ TodoForm(todo)
  BY <1>2, EntryForms, FewWrites, Zenon DEF DeleteAPI
<1>3. ASSUME NEW s, NEW p, DeleteProduct(c, s, p)
      PROVE  \E verb, on, todo : Begin(c, verb, on, todo) /\ TodoForm(todo)
  BY <1>3, EntryForms, FewWrites, Zenon DEF DeleteProduct
<1>4. ASSUME NEW n, DeleteBlobContainer(c, n)
      PROVE  \E verb, on, todo : Begin(c, verb, on, todo) /\ TodoForm(todo)
  BY <1>4, EntryForms, FewWrites, Zenon DEF DeleteBlobContainer
<1>5. ASSUME NEW n, DeleteTable(c, n)
      PROVE  \E verb, on, todo : Begin(c, verb, on, todo) /\ TodoForm(todo)
  BY <1>5, EntryForms, FewWrites, Zenon DEF DeleteTable
<1>6. ASSUME NEW k, DeleteManagedCluster(c, k)
      PROVE  \E verb, on, todo : Begin(c, verb, on, todo) /\ TodoForm(todo)
  BY <1>6, EntryForms, FewWrites, Zenon DEF DeleteManagedCluster, DeleteAgentPoolsForCluster
<1>7. QED
  BY <1>1, <1>2, <1>3, <1>4, <1>5, <1>6, Zenon DEF Cascade

\* The pools one by one, then the cluster.
ClusterWrites(k, todo) ==
    /\ IsList(todo) /\ Len(todo) \in Nat \ {0}
    /\ \A i \in 1..(Len(todo) - 1) : \E p, d : todo[i] = Store(AgentPool(k, p), d)
    /\ \E d : todo[Len(todo)] = Store(Cluster(k), d)

\* The pools that a request stands for.
ProfilesOf(requested) ==
    IF requested = << >> THEN DefaultAgentPoolProfiles
    ELSE [p \in DOMAIN requested |-> PoolOf(requested[p], "System")]

LEMMA OneMore ==
  ASSUME NEW s, IsList(s), NEW x
  PROVE  /\ IsList(s \o <<x>>) /\ Len(s \o <<x>>) = Len(s) + 1
         /\ \A i \in 1..Len(s) : (s \o <<x>>)[i] = s[i]
         /\ (s \o <<x>>)[Len(s) + 1] = x
<1>1. PICK t : t = <<x>>
  BY Zenon
<1>2. IsList(t) /\ Len(t) = 1 /\ t[1] = x
  <2>1. t \in Seq({x})
    BY <1>1
  <2>2. QED
    BY <1>1, <2>1, Zenon DEF IsList
<1>3. PICK u : u = s \o t
  BY Zenon
<1>4. /\ IsList(u) /\ Len(u) = Len(s) + Len(t)
      /\ \A i \in 1..Len(s) : u[i] = s[i]
      /\ \A i \in 1..Len(t) : u[Len(s) + i] = t[i]
  <2>1. IsList(s) /\ IsList(t)
    BY <1>2
  <2>2. /\ IsList(s \o t) /\ Len(s) \in Nat /\ Len(t) \in Nat
        /\ Len(s \o t) = Len(s) + Len(t) /\ DOMAIN (s \o t) = 1..(Len(s) + Len(t))
        /\ \A i \in 1..Len(s) : (s \o t)[i] = s[i]
        /\ \A i \in 1..Len(t) : (s \o t)[Len(s) + i] = t[i]
    BY <2>1, Joined
  <2>3. QED
    BY <1>3, <2>2
<1>5. u[Len(s) + 1] = x
  BY <1>2, <1>4
<1>6. QED
  BY <1>1, <1>2, <1>3, <1>4, <1>5

LEMMA ClusterPutWrites ==
  ASSUME NEW c, ClusterPut(c)
  PROVE  \E k, todo : Begin(c, "put", Cluster(k), todo) /\ ClusterWrites(k, todo)
<1>1. PICK k, requested : IsFiniteSet(DOMAIN requested) /\ PutManagedCluster(c, k, requested)
  BY Zenon DEF ClusterPut
<1>2. PICK profiles : profiles = ProfilesOf(requested)
  OBVIOUS
<1>3. PICK order : order = SetToSeq(DOMAIN profiles)
  OBVIOUS
<1>4. IsFiniteSet(DOMAIN profiles)
  <2>1. CASE requested = << >>
    <3>1. DOMAIN profiles = {DefaultPool}
      BY <1>2, <2>1 DEF DefaultAgentPoolProfiles, ProfilesOf
    <3>2. QED
      BY <3>1, FS_Singleton, Zenon
  <2>2. CASE requested # << >>
    BY <1>1, <1>2, <2>2 DEF ProfilesOf
  <2>3. QED
    BY <2>1, <2>2
<1>5. PICK n \in Nat : DOMAIN order = 1..n
  BY <1>3, <1>4, SetToSeqIsEnumeration
<1>6. PICK pools : pools = [i \in DOMAIN order |-> PersistAgentPoolFromProfile(k, order[i], profiles[order[i]])]
  BY Zenon
<1>7. PICK last : last = <<Store(Cluster(k), [profiles |-> profiles])>>
  BY Zenon
<1>8. Begin(c, "put", Cluster(k), pools \o last)
  <2>1. LET all == ProfilesOf(requested)
            first == SetToSeq(DOMAIN all)
        IN  Begin(c, "put", Cluster(k),
                  [i \in DOMAIN first |-> PersistAgentPoolFromProfile(k, first[i], all[first[i]])]
                  \o <<Store(Cluster(k), [profiles |-> all])>>)
    BY <1>1, Zenon DEF PutManagedCluster, ProfilesOf
  <2>2. QED
    BY <1>2, <1>3, <1>6, <1>7, <2>1, Zenon
<1>9. IsList(pools) /\ Len(pools) = n /\ \A i \in 1..n : \E p, d : pools[i] = Store(AgentPool(k, p), d)
  <2>1. pools = [i \in 1..n |-> pools[i]]
    BY <1>5, <1>6
  <2>2. IsList(pools) /\ Len(pools) = n
    BY <2>1, ListOf
  <2>3. \A i \in 1..n : pools[i] = Store(AgentPool(k, order[i]), profiles[order[i]])
    BY <1>5, <1>6 DEF PersistAgentPoolFromProfile
  <2>4. QED
    BY <2>2, <2>3
<1>10. PICK doc : last = <<Store(Cluster(k), doc)>>
  BY <1>7
<1>11. PICK todo : todo = pools \o last
  BY Zenon
<1>12. /\ IsList(todo) /\ Len(todo) = n + 1
       /\ \A i \in 1..n : todo[i] = pools[i]
       /\ todo[n + 1] = Store(Cluster(k), doc)
  <2>1. /\ IsList(todo) /\ Len(todo) = Len(pools) + 1
        /\ \A i \in 1..Len(pools) : todo[i] = pools[i]
        /\ todo[Len(pools) + 1] = Store(Cluster(k), doc)
    <3>1. IsList(pools)
      BY <1>9
    <3>2. PICK s : s = Store(Cluster(k), doc)
      OBVIOUS
    <3>3. /\ IsList(pools \o <<s>>) /\ Len(pools \o <<s>>) = Len(pools) + 1
          /\ \A i \in 1..Len(pools) : (pools \o <<s>>)[i] = pools[i]
          /\ (pools \o <<s>>)[Len(pools) + 1] = s
      BY <3>1, OneMore
    <3>4. todo = pools \o <<s>>
      BY <1>10, <1>11, <3>2, Zenon
    <3>5. QED
      BY <3>2, <3>3, <3>4, Zenon
  <2>2. QED
    BY <1>9, <2>1, Zenon
<1>13. Len(todo) \in Nat \ {0} /\ Len(todo) - 1 = n
  BY <1>12
<1>14. ClusterWrites(k, todo)
  <2>1. ASSUME NEW i \in 1..n PROVE \E p, d : todo[i] = Store(AgentPool(k, p), d)
    <3>1. PICK p, d : pools[i] = Store(AgentPool(k, p), d)
      BY <1>9
    <3>2. todo[i] = pools[i]
      BY <1>12
    <3>3. QED
      BY <3>1, <3>2
  <2>2. \E d : todo[Len(todo)] = Store(Cluster(k), d)
    BY <1>12, Zenon
  <2>3. QED
    BY <1>12, <1>13, <2>1, <2>2, Zenon DEF ClusterWrites
<1>15. QED
  BY <1>8, <1>11, <1>14, Zenon

LEMMA ClusterWritesForm ==
  ASSUME NEW k, NEW todo, ClusterWrites(k, todo)
  PROVE  TodoForm(todo)
<1>1. \A p, d : EntryForm(Store(AgentPool(k, p), d))
  <2> TAKE p, d
  <2>1. PICK a : a = AgentPool(k, p)
    OBVIOUS
  <2>2. KeyForm(a) /\ Head(a) \notin NestedKinds
    BY <2>1, Tuples, KindSets DEF AgentPool, KeyForm
  <2>3. QED
    BY <2>1, <2>2, PlainForm, EntryForms
<1>2. \A d : EntryForm(Store(Cluster(k), d))
  <2> TAKE d
  <2>1. PICK a : a = Cluster(k)
    OBVIOUS
  <2>2. KeyForm(a) /\ Head(a) \notin NestedKinds
    BY <2>1, Tuples, KindSets DEF Cluster, KeyForm
  <2>3. QED
    BY <2>1, <2>2, PlainForm, EntryForms
<1>3. IsList(todo) /\ Len(todo) \in Nat \ {0} /\ DOMAIN todo = 1..Len(todo)
  BY ListShape, SMTT(30) DEF ClusterWrites
<1>4. PICK n \in Nat \ {0} : n = Len(todo)
  BY <1>3, Zenon
<1>5. ASSUME NEW i \in 1..n PROVE EntryForm(todo[i])
  <2>1. i \in 1..(n - 1) \/ i = n
    BY <1>4
  <2>2. QED
    BY <1>1, <1>2, <1>4, <2>1, Zenon DEF ClusterWrites
<1>6. QED
  BY <1>3, <1>4, <1>5 DEF TodoForm

LEMMA RequestForm ==
  ASSUME FormInv, NEW c, Request(c)
  PROVE  \E verb, on, todo : Begin(c, verb, on, todo) /\ TodoForm(todo)
<1>1. CASE OnePut(c)
  <2>1. PICK verb, k, d : Begin(c, verb, k, <<Store(k, d)>>) /\ KeyForm(k) /\ ListKept(k, d)
    BY <1>1, Zenon DEF OnePut
  <2>2. TodoForm(<<Store(k, d)>>)
    BY <2>1, KeptForm, EntryForms, FewWrites
  <2>3. QED
    BY <2>1, <2>2, Zenon
<1>2. CASE OneDrop(c)
  BY <1>2, EntryForms, FewWrites, Zenon DEF OneDrop
<1>3. CASE EntryPut(c) \/ EntryDrop(c)
  BY <1>3, EntryWrites, EntryForms, FewWrites, Zenon DEF EntryWrite
<1>4. CASE IndexedPut(c) \/ IndexedDrop(c)
  BY <1>4, IndexedWrites
<1>5. CASE Cascade(c)
  BY <1>5, CascadeWrites
<1>6. CASE ClusterPut(c)
  BY <1>6, ClusterPutWrites, ClusterWritesForm, Zenon
<1>7. ASSUME NEW s, DeleteSite(c, s)
      PROVE  \E verb, on, todo : Begin(c, verb, on, todo) /\ TodoForm(todo)
  BY <1>7, EntryForms, FewWrites, Zenon DEF DeleteSite
<1>8. ASSUME NEW a, CreateNotifications(c, a)
      PROVE  \E verb, on, todo : Begin(c, verb, on, todo) /\ TodoForm(todo)
  <2>1. Head(ActionGroup(a)) = "monitor.actionGroups"
    BY Tuples DEF ActionGroup
  <2>2. TodoForm(<<Post(ActionGroup(a))>>)
    BY <2>1, EntryForms, FewWrites
  <2>3. QED
    BY <1>8, <2>2, Zenon DEF CreateNotifications
<1>9. QED
  BY <1>1, <1>2, <1>3, <1>4, <1>5, <1>6, <1>7, <1>8, Zenon DEF Request

-----------------------------------------------------------------------------
(* One entry for each name *)

LEMMA BeginForm ==
  ASSUME FormInv, NEW c \in Workers, NEW verb, NEW on, NEW todo, Begin(c, verb, on, todo), TodoForm(todo)
  PROVE  FormInv'
<1>1. /\ docs' = docs /\ calls'[c].todo = todo /\ \A w \in Workers \ {c} : calls'[w] = calls[w]
      /\ Calls'
  BY BeginEffect, ZenonT(40) DEF FormInv
<1>2. \A w \in Workers : TodoForm(calls'[w].todo)
  BY <1>1 DEF FormInv
<1>3. QED
  BY <1>1, <1>2 DEF FormInv

\* What is left after one write.
LEMMA LeftForm ==
  ASSUME FormInv, NEW w \in Workers, Busy(w)
  PROVE  TodoForm(Left(w)) /\ EntryForm(Head(calls[w].todo))
<1>1. PICK t : t = calls[w].todo
  OBVIOUS
<1>2. TodoForm(t) /\ t # <<>>
  BY <1>1 DEF FormInv, Busy
<1>3. PICK S : t \in Seq(S)
  BY <1>2 DEF TodoForm, IsList
<1>4. /\ Head(t) = t[1] /\ Tail(t) \in Seq(S) /\ Len(t) \in Nat \ {0} /\ Len(Tail(t)) = Len(t) - 1
      /\ \A i \in 1..(Len(t) - 1) : Tail(t)[i] = t[i + 1]
  BY <1>2, <1>3, SomethingLeft
<1>5. DOMAIN t = 1..Len(t) /\ DOMAIN Tail(t) = 1..(Len(t) - 1)
  BY <1>3, <1>4
<1>6. TodoForm(Tail(t))
  <2>1. \A i \in 1..(Len(t) - 1) : i + 1 \in 1..Len(t)
    BY <1>4
  <2>2. QED
    BY <1>2, <1>4, <1>5, <2>1 DEF TodoForm, IsList
<1>7. 1 \in DOMAIN t
  BY <1>4, <1>5
<1>8. EntryForm(Head(t))
  BY <1>2, <1>4, <1>7 DEF TodoForm
<1>9. TodoForm(Deletions(Head(t)))
  BY SweptForm DEF FormInv
<1>10. TodoForm(Left(w))
  BY <1>1, <1>6, <1>9, JoinedForm DEF Left
<1>11. QED
  BY <1>1, <1>8, <1>10

LEMMA StoredForm ==
  ASSUME FormInv, NEW e, EntryForm(e), e.do # "deliver", docs' = Applied(e)
  PROVE  IsFiniteSet(DOMAIN docs') /\ \A k \in DOMAIN docs' : DocForm(k, docs'[k])
<1>1. CASE e = Store(e.key, e.doc) /\ DocForm(e.key, e.doc)
  <2>1. e.do = "put"
    BY <1>1 DEF Store
  <2>2. /\ DOMAIN docs' = DOMAIN docs \union {e.key} /\ docs'[e.key] = e.doc
        /\ \A k \in DOMAIN docs : k # e.key => docs'[k] = docs[k]
    BY <2>1, AppliedPut
  <2>3. IsFiniteSet(DOMAIN docs')
    BY <2>2, FS_AddElement DEF FormInv
  <2>4. ASSUME NEW k \in DOMAIN docs' PROVE DocForm(k, docs'[k])
    BY <1>1, <2>2 DEF FormInv
  <2>5. QED
    BY <2>3, <2>4
<1>2. CASE e = Drop(e.key)
  <2>1. e.do = "delete"
    BY <1>2 DEF Drop
  <2>2. DOMAIN docs' = DOMAIN docs \ {e.key} /\ \A k \in DOMAIN docs' : docs'[k] = docs[k]
    BY <2>1, AppliedDelete
  <2>3. IsFiniteSet(DOMAIN docs')
    BY <2>2, FS_RemoveElement DEF FormInv
  <2>4. ASSUME NEW k \in DOMAIN docs' PROVE DocForm(k, docs'[k])
    BY <2>2 DEF FormInv
  <2>5. QED
    BY <2>3, <2>4
<1>3. CASE e = Sweep(e.under, e.inner)
  <2>1. e.do = "sweep"
    BY <1>3 DEF Sweep
  <2>2. docs' = docs
    BY <2>1, AppliedSweep
  <2>3. QED
    BY <2>2 DEF FormInv
<1>4. CASE e = Post(e.key)
  BY <1>4 DEF Post
<1>5. QED
  BY <1>1, <1>2, <1>3, <1>4 DEF EntryForm

LEMMA WriteForm ==
  ASSUME FormInv, NEW w \in Workers, Write(w)
  PROVE  FormInv'
<1>1. /\ Busy(w) /\ docs' = Applied(Head(calls[w].todo)) /\ Head(calls[w].todo).do # "deliver"
      /\ calls'[w].todo = Left(w) /\ (\A v \in Workers \ {w} : calls'[v] = calls[v]) /\ Calls'
  BY WriteEffect DEF FormInv
<1>2. TodoForm(Left(w)) /\ EntryForm(Head(calls[w].todo))
  BY <1>1, LeftForm
<1>3. IsFiniteSet(DOMAIN docs') /\ \A k \in DOMAIN docs' : DocForm(k, docs'[k])
  BY <1>1, <1>2, StoredForm
<1>4. \A v \in Workers : TodoForm(calls'[v].todo)
  BY <1>1, <1>2 DEF FormInv
<1>5. QED
  BY <1>1, <1>3, <1>4 DEF FormInv

-----------------------------------------------------------------------------
(* Keys under a prefix *)

LEMMA PrefixOfList ==
  ASSUME NEW p, IsList(p), NEW k, IsList(k)
  PROVE  /\ IsPrefix(p, k) <=> Len(p) <= Len(k) /\ \A j \in 1..Len(p) : k[j] = p[j]
         /\ IsStrictPrefix(p, k) <=> Len(p) < Len(k) /\ \A j \in 1..Len(p) : k[j] = p[j]
<1>1. PICK S, T, U : p \in Seq(S) /\ k \in Seq(T) /\ U = S \union T
  BY Zenon DEF IsList
<1>2. p \in Seq(U) /\ k \in Seq(U)
  BY <1>1
<1>3. QED
  BY <1>2, PrefixByNames

\* A sequence that is not empty starts with its head.
LEMMA HeadIsFirst ==
  ASSUME NEW k, IsList(k), k # <<>>
  PROVE  Head(k) = k[1] /\ Len(k) \in Nat \ {0}
<1>1. PICK S : k \in Seq(S)
  BY DEF IsList
<1>2. QED
  BY <1>1, SomethingLeft

\* Prefixes of one, two and three names.
LEMMA UnderNames ==
  ASSUME NEW k, IsList(k), k # <<>>
  PROVE  /\ \A b : IsStrictPrefix(<<b>>, k) <=> Len(k) > 1 /\ Head(k) = b
         /\ \A b, x : IsStrictPrefix(<<b, x>>, k) <=> Len(k) > 2 /\ Head(k) = b /\ k[2] = x
         /\ \A b, x, y : IsStrictPrefix(<<b, x, y>>, k) <=> Len(k) > 3 /\ Head(k) = b /\ k[2] = x /\ k[3] = y
<1>1. Head(k) = k[1] /\ Len(k) \in Nat \ {0}
  BY HeadIsFirst
<1>2. ASSUME NEW b PROVE IsStrictPrefix(<<b>>, k) <=> Len(k) > 1 /\ Head(k) = b
  <2>1. PICK p : p = <<b>>
    BY Zenon
  <2>2. p \in Seq({b}) /\ Len(p) = 1 /\ p[1] = b
    BY <2>1
  <2>3. IsList(p)
    BY <2>2 DEF IsList
  <2>4. IsStrictPrefix(p, k) <=> Len(p) < Len(k) /\ \A j \in 1..Len(p) : k[j] = p[j]
    BY <2>3, PrefixOfList
  <2>5. IsStrictPrefix(p, k) <=> Len(k) > 1 /\ Head(k) = b
    BY <1>1, <2>2, <2>4
  <2>6. QED
    BY <2>1, <2>5
<1>3. ASSUME NEW b, NEW x PROVE IsStrictPrefix(<<b, x>>, k) <=> Len(k) > 2 /\ Head(k) = b /\ k[2] = x
  <2>1. PICK p : p = <<b, x>>
    BY Zenon
  <2>2. p \in Seq({b, x}) /\ Len(p) = 2 /\ p[1] = b /\ p[2] = x
    BY <2>1
  <2>3. IsList(p)
    BY <2>2 DEF IsList
  <2>4. IsStrictPrefix(p, k) <=> Len(p) < Len(k) /\ \A j \in 1..Len(p) : k[j] = p[j]
    BY <2>3, PrefixOfList
  <2>5. IsStrictPrefix(p, k) <=> Len(k) > 2 /\ Head(k) = b /\ k[2] = x
    BY <1>1, <2>2, <2>4
  <2>6. QED
    BY <2>1, <2>5
<1>4. ASSUME NEW b, NEW x, NEW y
      PROVE  IsStrictPrefix(<<b, x, y>>, k) <=> Len(k) > 3 /\ Head(k) = b /\ k[2] = x /\ k[3] = y
  <2>1. PICK p : p = <<b, x, y>>
    BY Zenon
  <2>2. p \in Seq({b, x, y}) /\ Len(p) = 3 /\ p[1] = b /\ p[2] = x /\ p[3] = y
    BY <2>1
  <2>3. IsList(p)
    BY <2>2 DEF IsList
  <2>4. IsStrictPrefix(p, k) <=> Len(p) < Len(k) /\ \A j \in 1..Len(p) : k[j] = p[j]
    BY <2>3, PrefixOfList
  <2>5. IsStrictPrefix(p, k) <=> Len(k) > 3 /\ Head(k) = b /\ k[2] = x /\ k[3] = y
    BY <1>1, <2>2, <2>4
  <2>6. QED
    BY <2>1, <2>5
<1>5. QED
  BY <1>2, <1>3, <1>4

-----------------------------------------------------------------------------
(* Calls over HTTP *)

\* A delivery given to a courier that had none.
Given(w, call) ==
    /\ w \in Couriers /\ ~Busy(w)
    /\ \E g, t : \E k \in Under(<<"eventgrid.eventsubscriptions", g, t>>) :
          call = [verb |-> "deliver", on |-> k, todo |-> <<Post(k)>>]

LEMMA PublishEffect ==
  ASSUME FormInv, NEW t, Publish(t)
  PROVE  /\ docs' = docs /\ mode' = mode /\ Calls'
         /\ mode = "concurrent" \/ \A c \in Clients : ~Busy(c)
         /\ \A w \in Workers : calls'[w] = calls[w] \/ Given(w, calls'[w])
<1>1. PICK subs : subs = SetToSeq(ListEventSubscriptionRecords(docs[DataPlaneTopic(t)].group, t))
  OBVIOUS
<1>2. PICK free : free = SetToSeq({w \in Couriers : ~Busy(w)})
  OBVIOUS
<1>3. PICK given : given = [w \in Workers |-> {i \in DOMAIN subs : free[i] = w}]
  BY Zenon
<1>4. PICK call : call = [w \in Workers |->
                  IF given[w] = {} THEN calls[w]
                  ELSE LET k == subs[CHOOSE i \in given[w] : TRUE]
                       IN  [verb |-> "deliver", on |-> k, todo |-> <<Post(k)>>]]
  BY Zenon
<1>5. /\ docs' = docs /\ mode' = mode /\ calls' = call
      /\ Len(subs) <= Len(free)
      /\ mode = "concurrent" \/ \A c \in Clients : ~Busy(c)
  BY <1>1, <1>2, <1>3, <1>4, Zenon DEF Publish
<1>6. PICK g : subs = SetToSeq(Under(<<"eventgrid.eventsubscriptions", g, t>>))
  BY <1>1, Zenon DEF ListEventSubscriptionRecords
<1>7. PICK U : U = Under(<<"eventgrid.eventsubscriptions", g, t>>)
  OBVIOUS
<1>8. Len(subs) \in Nat /\ DOMAIN subs = 1..Len(subs) /\ \A i \in 1..Len(subs) : subs[i] \in U
  <2>1. IsFiniteSet(DOMAIN docs)
    BY DEF FormInv
  <2>2. QED
    BY <1>6, <1>7, <2>1, Listing
<1>9. PICK F : F = {w \in Couriers : ~Busy(w)}
  BY Zenon
<1>10. Len(free) \in Nat /\ DOMAIN free = 1..Len(free) /\ \A i \in 1..Len(free) : free[i] \in F
  <2>1. F \in SUBSET Couriers
    BY <1>9
  <2>2. IsFiniteSet(F)
    BY <2>1, CouriersAssumption, FS_Subset
  <2>3. Cardinality(F) \in Nat /\ free \in Seq(F) /\ Len(free) = Cardinality(F) /\ DOMAIN free = 1..Cardinality(F)
    BY <1>2, <1>9, <2>2, SetToSeqIsEnumeration
  <2>4. QED
    BY <2>3
<1>11. ASSUME NEW w \in Workers
       PROVE  /\ call[w] = calls[w] \/ Given(w, call[w])
              /\ call[w] = [verb |-> call[w].verb, on |-> call[w].on, todo |-> call[w].todo]
  <2>1. CASE given[w] = {}
    <3>1. call[w] = calls[w]
      BY <1>4, <2>1
    <3>2. QED
      BY <3>1 DEF FormInv, Calls
  <2>2. CASE given[w] # {}
    <3>1. PICK i : i = (CHOOSE j \in given[w] : TRUE)
      OBVIOUS
    <3>2. i \in given[w]
      BY <2>2, <3>1
    <3>3. i \in DOMAIN subs /\ free[i] = w
      BY <1>3, <3>2
    <3>4. subs[i] \in U /\ i \in 1..Len(free)
      BY <1>5, <1>8, <1>10, <3>3
    <3>5. w \in Couriers /\ ~Busy(w)
      BY <1>9, <1>10, <3>3, <3>4
    <3>6. call[w] = [verb |-> "deliver", on |-> subs[i], todo |-> <<Post(subs[i])>>]
      BY <1>4, <2>2, <3>1, Zenon
    <3>7. PICK todo : todo = <<Post(subs[i])>>
      BY Zenon
    <3>8. call[w] = [verb |-> call[w].verb, on |-> call[w].on, todo |-> call[w].todo]
      BY <3>6, <3>7
    <3>9. Given(w, call[w])
      BY <1>7, <3>4, <3>5, <3>6, Zenon DEF Given
    <3>10. QED
      BY <3>8, <3>9
  <2>3. QED
    BY <2>1, <2>2
<1>12. Calls'
  BY <1>4, <1>5, <1>11, Zenon DEF Calls
<1>13. QED
  BY <1>5, <1>11, <1>12, Zenon

\* What a delivery that has been given away is for.
LEMMA GivenForm ==
  ASSUME FormInv, NEW w, NEW call, Given(w, call)
  PROVE  /\ call.verb = "deliver"
         /\ \E k \in DOMAIN docs : /\ call.todo = <<Post(k)>> /\ call.on = k
                                   /\ Head(k) = "eventgrid.eventsubscriptions"
<1>1. PICK g, t : \E k \in Under(<<"eventgrid.eventsubscriptions", g, t>>) :
          call = [verb |-> "deliver", on |-> k, todo |-> <<Post(k)>>]
  BY Zenon DEF Given
<1>2. PICK k \in Under(<<"eventgrid.eventsubscriptions", g, t>>) :
          call = [verb |-> "deliver", on |-> k, todo |-> <<Post(k)>>]
  BY <1>1
<1>3. k \in DOMAIN docs /\ IsStrictPrefix(<<"eventgrid.eventsubscriptions", g, t>>, k)
  BY DEF Under
<1>4. IsList(k) /\ k # <<>>
  BY <1>3 DEF FormInv, DocForm, KeyForm
<1>5. Head(k) = "eventgrid.eventsubscriptions"
  BY <1>3, <1>4, UnderNames
<1>6. call.verb = "deliver" /\ call.on = k /\ call.todo = <<Post(k)>>
  BY <1>2
<1>7. QED
  BY <1>3, <1>5, <1>6

\* A delivery ends, or goes on to write the document back.
LEMMA DeliverEffect ==
  ASSUME FormInv, NEW w \in Workers, Deliver(w)
  PROVE  /\ docs' = docs /\ mode' = mode /\ Calls' /\ Busy(w)
         /\ \A v \in Workers \ {w} : calls'[v] = calls[v]
         /\ \E k : /\ Head(calls[w].todo) = Post(k)
                   /\ Head(k) \in {"eventgrid.eventsubscriptions", "monitor.actionGroups"}
                   /\ \/ calls'[w] = Idle
                      \/ /\ Has(k) /\ KeyForm(k) /\ calls'[w].verb = calls[w].verb /\ calls'[w].on = calls[w].on
                         /\ \E d : calls'[w].todo = <<Store(k, d)>>
<1>1. PICK e : e = Head(calls[w].todo)
  OBVIOUS
<1>2. PICK k : k = e.key
  OBVIOUS
<1>3. Busy(w) /\ e.do = "deliver" /\ docs' = docs /\ mode' = mode
  BY <1>1 DEF Deliver
<1>4. EntryForm(e)
  BY <1>1, <1>3, LeftForm
<1>5. e = Post(k) /\ Head(k) \in {"eventgrid.eventsubscriptions", "monitor.actionGroups"}
  BY <1>2, <1>3, <1>4 DEF EntryForm, Store, Drop, Sweep
<1>6. \/ calls' = [calls EXCEPT ![w] = Idle]
      \/ /\ Outcomes(k) # {}
         /\ \E d : calls' = [calls EXCEPT ![w].todo = <<Store(k, d)>>]
  BY <1>1, <1>2, Zenon DEF Deliver
<1>7. DOMAIN calls = Workers
  BY DEF FormInv, Calls
<1>8. calls[w] = [verb |-> calls[w].verb, on |-> calls[w].on, todo |-> calls[w].todo]
  BY DEF FormInv, Calls
<1>9. ASSUME calls' = [calls EXCEPT ![w] = Idle]
      PROVE  Calls' /\ (\A v \in Workers \ {w} : calls'[v] = calls[v]) /\ calls'[w] = Idle
  <2>1. calls'[w] = Idle /\ \A v \in Workers \ {w} : calls'[v] = calls[v]
    BY <1>7, <1>9
  <2>2. calls' = [v \in Workers |-> calls'[v]]
    BY <1>7, <1>9, Zenon
  <2>3. \A v \in Workers : calls'[v] = [verb |-> calls'[v].verb, on |-> calls'[v].on, todo |-> calls'[v].todo]
    BY <2>1, Zenon DEF FormInv, Calls, Idle
  <2>4. Calls'
    BY <2>2, <2>3 DEF Calls
  <2>5. QED
    BY <2>1, <2>4
<1>10. ASSUME \E d : Outcomes(k) # {} /\ calls' = [calls EXCEPT ![w].todo = <<Store(k, d)>>]
       PROVE  /\ Calls' /\ \A v \in Workers \ {w} : calls'[v] = calls[v]
              /\ Has(k) /\ calls'[w].verb = calls[w].verb /\ calls'[w].on = calls[w].on
              /\ \E d : calls'[w].todo = <<Store(k, d)>>
  <2>1. PICK d : Outcomes(k) # {} /\ calls' = [calls EXCEPT ![w].todo = <<Store(k, d)>>]
    BY <1>10, Zenon
  <2>2. PICK todo : todo = <<Store(k, d)>>
    BY Zenon
  <2>3. PICK call : call = [calls[w] EXCEPT !.todo = todo]
    BY Zenon
  <2>4. call = [verb |-> calls[w].verb, on |-> calls[w].on, todo |-> todo]
    BY <1>8, <2>3
  <2>5. calls' = [calls EXCEPT ![w] = call]
    BY <2>1, <2>2, <2>3, Zenon
  <2>6. calls'[w] = call /\ \A v \in Workers \ {w} : calls'[v] = calls[v]
    BY <1>7, <2>5
  <2>7. call = [verb |-> call.verb, on |-> call.on, todo |-> call.todo]
    BY <2>4
  <2>8. calls' = [v \in Workers |-> calls'[v]]
    BY <1>7, <2>5, Zenon
  <2>9. Calls'
    BY <2>6, <2>7, <2>8 DEF FormInv, Calls
  <2>10. Has(k)
    BY <2>1 DEF Outcomes
  <2>11. calls'[w].verb = calls[w].verb /\ calls'[w].on = calls[w].on /\ calls'[w].todo = <<Store(k, d)>>
    BY <2>2, <2>4, <2>6
  <2>12. QED
    BY <2>6, <2>9, <2>10, <2>11
<1>11. Has(k) => KeyForm(k)
  BY DEF FormInv, DocForm, Has
<1>12. QED
  BY <1>1, <1>3, <1>5, <1>6, <1>9, <1>10, <1>11

LEMMA PublishForm ==
  ASSUME FormInv, NEW t, Publish(t)
  PROVE  FormInv'
<1>1. /\ docs' = docs /\ Calls'
      /\ \A w \in Workers : calls'[w] = calls[w] \/ Given(w, calls'[w])
  BY PublishEffect
<1>2. ASSUME NEW w \in Workers PROVE TodoForm(calls'[w].todo)
  <2>1. CASE calls'[w] = calls[w]
    BY <2>1 DEF FormInv
  <2>2. CASE Given(w, calls'[w])
    <3>1. PICK k : calls'[w].todo = <<Post(k)>> /\ Head(k) = "eventgrid.eventsubscriptions"
      BY <2>2, GivenForm
    <3>2. TodoForm(<<Post(k)>>)
      BY <3>1, EntryForms, FewWrites
    <3>3. QED
      BY <3>1, <3>2, Zenon
  <2>3. QED
    BY <1>1, <2>1, <2>2
<1>3. QED
  BY <1>1, <1>2 DEF FormInv

LEMMA DeliverForm ==
  ASSUME FormInv, NEW w \in Workers, Deliver(w)
  PROVE  FormInv'
<1>1. /\ docs' = docs /\ Calls' /\ \A v \in Workers \ {w} : calls'[v] = calls[v]
  BY DeliverEffect
<1>2. PICK k : /\ Head(k) \in {"eventgrid.eventsubscriptions", "monitor.actionGroups"}
               /\ \/ calls'[w] = Idle
                  \/ KeyForm(k) /\ \E d : calls'[w].todo = <<Store(k, d)>>
  BY DeliverEffect
<1>3. TodoForm(calls'[w].todo)
  <2>1. CASE calls'[w] = Idle
    <3>1. calls'[w].todo = <<>>
      BY <2>1 DEF Idle
    <3>2. QED
      BY <3>1, FewWrites
  <2>2. CASE KeyForm(k) /\ \E d : calls'[w].todo = <<Store(k, d)>>
    <3>1. PICK d : calls'[w].todo = <<Store(k, d)>>
      BY <2>2
    <3>2. DocForm(k, d)
      BY <1>2, <2>2, PlainForm, KindSets
    <3>3. TodoForm(<<Store(k, d)>>)
      BY <3>2, EntryForms, FewWrites
    <3>4. QED
      BY <3>1, <3>3, Zenon
  <2>3. QED
    BY <1>2, <2>1, <2>2
<1>4. QED
  BY <1>1, <1>3 DEF FormInv

LEMMA CrashForm ==
  ASSUME FormInv, Crash
  PROVE  FormInv'
<1>1. calls' = [w \in Workers |-> Idle] /\ docs' = docs
  BY DEF Crash
<1>2. Calls' /\ \A w \in Workers : calls'[w].todo = <<>>
  BY <1>1 DEF Calls, Idle
<1>3. QED
  BY <1>1, <1>2, FewWrites DEF FormInv

LEMMA InitForm == Init => FormInv
<1> SUFFICES ASSUME Init PROVE FormInv
  OBVIOUS
<1>1. calls = [w \in Workers |-> Idle]
  BY DEF Init, StoreInit
<1>2. Calls /\ \A w \in Workers : TodoForm(calls[w].todo)
  BY <1>1, AllIdle, FewWrites
<1>3. IsFiniteSet(DOMAIN docs) /\ \A k \in DOMAIN docs : DocForm(k, docs[k])
  <2>1. CASE scenario = "machines"
    <3>1. PICK keys : keys = {NIC(n) : n \in NICNames}
      BY Zenon
    <3>2. docs = [k \in keys |-> [configs |-> <<>>]]
      BY <2>1, <3>1 DEF Init, Interfaces
    <3>3. IsFiniteSet(keys)
      <4>1. PICK f : f = [n \in NICNames |-> NIC(n)]
        BY Zenon
      <4>2. f = [n \in NICNames |-> f[n]] /\ keys = {f[n] : n \in NICNames}
        BY <3>1, <4>1
      <4>3. IsFiniteSet(NICNames)
        BY <2>1, InterfacesAssumption DEF Init
      <4>4. QED
        BY <4>2, <4>3, FiniteValues
    <3>4. ASSUME NEW k \in keys PROVE KeyForm(k) /\ Head(k) \notin NestedKinds
      <4>1. PICK n : k = <<"network.networkinterfaces", n>>
        BY <3>1 DEF NIC
      <4>2. Head(k) = "network.networkinterfaces" /\ IsList(k) /\ k # <<>>
        BY <4>1, Tuples
      <4>3. QED
        BY <4>2, KindSets DEF KeyForm
    <3>5. DOMAIN docs = keys
      BY <3>2
    <3>6. QED
      BY <3>3, <3>4, <3>5, PlainForm
  <2>2. CASE scenario # "machines"
    <3>1. docs = << >>
      BY <2>2 DEF Init
    <3>2. DOMAIN docs = {}
      BY <3>1
    <3>3. QED
      BY <3>2, FS_EmptySet
  <2>3. QED
    BY <2>1, <2>2
<1>4. QED
  BY <1>2, <1>3 DEF FormInv

LEMMA NextForm == FormInv /\ [Next]_vars => FormInv'
<1> SUFFICES ASSUME FormInv, [Next]_vars PROVE FormInv'
  OBVIOUS
<1>1. ASSUME NEW c \in Clients, Asked(c) PROVE FormInv'
  <2>1. CASE Request(c)
    <3>1. PICK verb, on, todo : Begin(c, verb, on, todo) /\ TodoForm(todo)
      BY <2>1, RequestForm, Zenon
    <3>2. c \in Workers
      BY DEF Workers
    <3>3. QED
      BY <3>1, <3>2, BeginForm
  <2>2. QED
    BY <1>1, <2>1, Asks, PublishForm
<1>2. ASSUME NEW w \in Workers, Write(w) PROVE FormInv'
  BY <1>2, WriteForm
<1>3. ASSUME NEW w \in Workers, Deliver(w) PROVE FormInv'
  BY <1>3, DeliverForm
<1>4. CASE Crash
  BY <1>4, CrashForm
<1>5. CASE UNCHANGED vars
  <2>1. docs' = docs /\ calls' = calls
    BY <1>5 DEF vars, store
  <2>2. QED
    BY <2>1 DEF FormInv, Calls
<1>6. QED
  BY <1>1, <1>2, <1>3, <1>4, <1>5 DEF Next

LEMMA FormHolds == Spec => []FormInv
<1>1. QED
  BY InitForm, NextForm, PTL DEF Spec

\* An entry of a list is found by its name alone, and a zone counts its
\* record sets, whatever requests overlap and wherever a deletion is cut
\* short: FormInv says it also of what handlers have left to write.
THEOREM EntriesAreNamed == Spec => []OneEntryPerName
<1>1. FormInv => OneEntryPerName
  <2> SUFFICES ASSUME FormInv, NEW k \in DOMAIN docs
               PROVE  /\ \A i, j \in DOMAIN Nested(k) : Nested(k)[i].name = Nested(k)[j].name => i = j
                      /\ Head(k) = "network.privatednszones" => docs[k].count = Len(docs[k].records)
    BY Zenon DEF OneEntryPerName
  <2>1. DocForm(k, docs[k])
    BY DEF FormInv
  <2>2. Unique(<<>>)
    BY EmptyList
  <2>3. Unique(Nested(k))
    BY <2>1, <2>2 DEF Nested, DocForm
  <2>4. \A i, j \in DOMAIN Nested(k) : Nested(k)[i].name = Nested(k)[j].name => i = j
    BY <2>3 DEF Unique
  <2>5. Head(k) = "network.privatednszones" => docs[k].count = Len(docs[k].records)
    BY <2>1 DEF DocForm
  <2>6. QED
    BY <2>4, <2>5
<1>2. QED
  BY <1>1, FormHolds, PTL

-----------------------------------------------------------------------------
(* One client after the other *)

\* A courier posts for an event subscription, and writes that one back.
EventWrite(e) ==
    /\ Head(e.key) = "eventgrid.eventsubscriptions"
    /\ e = Post(e.key) \/ e = Store(e.key, e.doc)

\* When requests do not overlap only the first client has any; couriers
\* deliver events, and nothing else.
AloneInv ==
    /\ mode # "concurrent" => \A c \in Clients \ {First} : calls[c] = Idle
    /\ \A w \in Couriers : /\ calls[w].verb \in {"none", "deliver"}
                           /\ Busy(w) => scenario = "events"
                           /\ \A i \in DOMAIN calls[w].todo : EventWrite(calls[w].todo[i])

\* What that client has left to write.
Agenda == calls[First].todo

\* A courier writes an event subscription, or nothing is written.
Aside ==
    /\ calls'[First] = calls[First]
    /\ \/ docs' = docs
       \/ \E k : /\ scenario = "events"
                 /\ Head(k) = "eventgrid.eventsubscriptions"
                 /\ DOMAIN docs' = DOMAIN docs \union {k}
                 /\ \A x \in DOMAIN docs : x # k => docs'[x] = docs[x]

LEMMA FirstIsAClient ==
  /\ First \in Clients /\ First \in Workers /\ First \notin Couriers
  /\ \A w \in Workers : w \in Clients \/ w \in Couriers
  /\ \A c \in Clients : c \in Workers /\ c \notin Couriers
BY WorkersAssumption DEF First, Workers

LEMMA SmallLists ==
  /\ \A a : Len(<<a>>) = 1 /\ DOMAIN <<a>> = {1} /\ <<a>>[1] = a
  /\ \A a, b : Len(<<a, b>>) = 2 /\ DOMAIN <<a, b>> = {1, 2} /\ <<a, b>>[1] = a /\ <<a, b>>[2] = b
  /\ \A a, b, c, d : /\ Len(<<a, b, c, d>>) = 4 /\ DOMAIN <<a, b, c, d>> = {1, 2, 3, 4}
                     /\ <<a, b, c, d>>[1] = a /\ <<a, b, c, d>>[2] = b
                     /\ <<a, b, c, d>>[3] = c /\ <<a, b, c, d>>[4] = d
<1>1. ASSUME NEW a PROVE Len(<<a>>) = 1 /\ DOMAIN <<a>> = {1} /\ <<a>>[1] = a
  OBVIOUS
<1>2. ASSUME NEW a, NEW b
      PROVE  Len(<<a, b>>) = 2 /\ DOMAIN <<a, b>> = {1, 2} /\ <<a, b>>[1] = a /\ <<a, b>>[2] = b
  OBVIOUS
<1>3. ASSUME NEW a, NEW b, NEW c, NEW d
      PROVE  /\ Len(<<a, b, c, d>>) = 4 /\ DOMAIN <<a, b, c, d>> = {1, 2, 3, 4}
             /\ <<a, b, c, d>>[1] = a /\ <<a, b, c, d>>[2] = b
             /\ <<a, b, c, d>>[3] = c /\ <<a, b, c, d>>[4] = d
  OBVIOUS
<1>4. QED
  BY <1>1, <1>2, <1>3

LEMMA EventWrites ==
  ASSUME NEW k, Head(k) = "eventgrid.eventsubscriptions"
  PROVE  EventWrite(Post(k)) /\ \A d : EventWrite(Store(k, d))
<1>1. Post(k).key = k /\ \A d : Store(k, d).key = k /\ Store(k, d).doc = d
  BY DEF Post, Store
<1>2. QED
  BY <1>1, Zenon DEF EventWrite

LEMMA InitAlone == Init => AloneInv
<1> SUFFICES ASSUME Init PROVE AloneInv
  OBVIOUS
<1>1. calls = [w \in Workers |-> Idle]
  BY DEF Init, StoreInit
<1>2. \A w \in Workers : calls[w] = Idle
  BY <1>1
<1>3. Idle.verb = "none" /\ Idle.todo = <<>> /\ DOMAIN <<>> = {}
  BY DEF Idle
<1>4. QED
  BY <1>2, <1>3, FirstIsAClient DEF AloneInv, Busy, Workers

\* A list l is what is left of t after its first write, by position.
Follows(t, l) ==
    /\ Len(t) \in Nat \ {0} /\ DOMAIN t = 1..Len(t) /\ Head(t) = t[1]
    /\ EntryForm(t[1])
    /\ t[1].do # "sweep" => /\ DOMAIN l = 1..(Len(t) - 1) /\ Len(l) = Len(t) - 1
                            /\ \A i \in 1..(Len(t) - 1) : l[i] = t[i + 1]
    /\ t[1].do = "sweep" => \E m \in Nat :
          /\ DOMAIN Deletions(t[1]) = 1..m
          /\ DOMAIN l = 1..(m + (Len(t) - 1))
          /\ \A i \in 1..m : l[i] = Deletions(t[1])[i]
          /\ \A i \in 1..(Len(t) - 1) : l[m + i] = t[i + 1]

LEMMA LeftByPosition ==
  ASSUME FormInv, NEW w \in Workers, Busy(w), NEW t, t = calls[w].todo
  PROVE  IsList(t) /\ Follows(t, Left(w))
<1>1. TodoForm(t) /\ t # <<>>
  BY DEF FormInv, Busy
<1>2. PICK S : t \in Seq(S)
  BY <1>1 DEF TodoForm, IsList
<1>3. /\ Head(t) = t[1] /\ Tail(t) \in Seq(S) /\ Len(t) \in Nat \ {0} /\ Len(Tail(t)) = Len(t) - 1
      /\ \A i \in 1..(Len(t) - 1) : Tail(t)[i] = t[i + 1]
  BY <1>1, <1>2, SomethingLeft
<1>4. DOMAIN t = 1..Len(t) /\ DOMAIN Tail(t) = 1..(Len(t) - 1) /\ 1 \in DOMAIN t
  BY <1>2, <1>3
<1>5. EntryForm(t[1])
  BY <1>1, <1>4 DEF TodoForm
<1>6. ASSUME t[1].do # "sweep"
      PROVE  /\ DOMAIN Left(w) = 1..(Len(t) - 1) /\ Len(Left(w)) = Len(t) - 1
             /\ \A i \in 1..(Len(t) - 1) : Left(w)[i] = t[i + 1]
  <2>1. Left(w) = Tail(t)
    BY <1>3, <1>6 DEF Left
  <2>2. QED
    BY <1>3, <1>4, <2>1
<1>7. ASSUME t[1].do = "sweep"
      PROVE  \E m \in Nat :
               /\ DOMAIN Deletions(t[1]) = 1..m
               /\ DOMAIN Left(w) = 1..(m + (Len(t) - 1))
               /\ \A i \in 1..m : Left(w)[i] = Deletions(t[1])[i]
               /\ \A i \in 1..(Len(t) - 1) : Left(w)[m + i] = t[i + 1]
  <2>1. Left(w) = Deletions(t[1]) \o Tail(t)
    BY <1>3, <1>7, Zenon DEF Left
  <2>2. PICK d : d = Deletions(t[1])
    OBVIOUS
  <2>3. IsList(d)
    BY <2>2, SweptForm DEF FormInv, TodoForm
  <2>4. IsList(Tail(t))
    BY <1>3 DEF IsList
  <2>5. PICK u : u = Tail(t)
    BY Zenon
  <2>6. /\ Len(d) \in Nat /\ DOMAIN (d \o u) = 1..(Len(d) + Len(u))
        /\ \A i \in 1..Len(d) : (d \o u)[i] = d[i]
        /\ \A i \in 1..Len(u) : (d \o u)[Len(d) + i] = u[i]
    BY <2>3, <2>4, <2>5, Joined
  <2>7. PICK l : l = d \o u
    BY Zenon
  <2>8. /\ Len(d) \in Nat /\ DOMAIN l = 1..(Len(d) + (Len(t) - 1))
        /\ \A i \in 1..Len(d) : l[i] = d[i]
        /\ \A i \in 1..(Len(t) - 1) : l[Len(d) + i] = t[i + 1]
    BY <1>3, <2>5, <2>6, <2>7, SMTT(30)
  <2>9. DOMAIN d = 1..Len(d)
    BY <2>3, ListShape
  <2>10. Left(w) = l
    BY <2>1, <2>2, <2>5, <2>7
  <2>11. QED
    BY <2>2, <2>8, <2>9, <2>10, Zenon
<1>8. QED
  BY <1>1, <1>3, <1>4, <1>5, <1>6, <1>7, Zenon DEF TodoForm, Follows

\* A courier's write.
LEMMA CourierWrite ==
  ASSUME FormInv, AloneInv, NEW w \in Couriers, Write(w)
  PROVE  /\ Aside
         /\ calls'[w] = Idle \/ calls'[w].verb = calls[w].verb
         /\ \A i \in DOMAIN calls'[w].todo : EventWrite(calls'[w].todo[i])
<1>1. w \in Workers
  BY DEF Workers
<1>2. /\ Busy(w) /\ docs' = Applied(Head(calls[w].todo)) /\ Head(calls[w].todo).do # "deliver"
      /\ calls'[w].todo = Left(w)
      /\ Left(w) = <<>> => calls'[w] = Idle
      /\ Left(w) # <<>> => calls'[w].verb = calls[w].verb
      /\ \A v \in Workers \ {w} : calls'[v] = calls[v]
  BY <1>1, WriteEffect DEF FormInv
<1>3. PICK t : t = calls[w].todo
  OBVIOUS
<1>4. /\ Len(t) \in Nat \ {0} /\ DOMAIN t = 1..Len(t) /\ Head(t) = t[1]
      /\ t[1].do # "sweep" => /\ DOMAIN Left(w) = 1..(Len(t) - 1)
                              /\ \A i \in 1..(Len(t) - 1) : Left(w)[i] = t[i + 1]
  BY <1>1, <1>2, <1>3, LeftByPosition DEF Follows
<1>5. \A i \in DOMAIN t : EventWrite(t[i])
  BY <1>3 DEF AloneInv
<1>6. PICK e : e = t[1]
  OBVIOUS
<1>7. EventWrite(e) /\ e.do # "deliver" /\ docs' = Applied(e)
  BY <1>2, <1>3, <1>4, <1>5, <1>6
<1>8. e.do = "put" /\ Head(e.key) = "eventgrid.eventsubscriptions"
  <2>1. Post(e.key).do = "deliver" /\ Store(e.key, e.doc).do = "put"
    BY DEF Post, Store
  <2>2. QED
    BY <1>7, <2>1 DEF EventWrite
<1>9. /\ DOMAIN docs' = DOMAIN docs \union {e.key}
      /\ \A x \in DOMAIN docs : x # e.key => docs'[x] = docs[x]
  BY <1>7, <1>8, AppliedPut
<1>10. calls'[First] = calls[First]
  BY <1>2, FirstIsAClient
<1>11. Aside
  <2>1. scenario = "events"
    BY <1>2 DEF AloneInv
  <2>2. QED
    BY <1>8, <1>9, <1>10, <2>1 DEF Aside
<1>12. ASSUME NEW i \in DOMAIN calls'[w].todo PROVE EventWrite(calls'[w].todo[i])
  <2>1. DOMAIN calls'[w].todo = 1..(Len(t) - 1) /\ \A j \in 1..(Len(t) - 1) : calls'[w].todo[j] = t[j + 1]
    BY <1>2, <1>4, <1>6, <1>8
  <2>2. i + 1 \in DOMAIN t
    BY <1>4, <1>12, <2>1
  <2>3. QED
    BY <1>5, <1>12, <2>1, <2>2
<1>13. QED
  BY <1>2, <1>11, <1>12

\* A courier's delivery.
LEMMA CourierDelivery ==
  ASSUME FormInv, AloneInv, NEW w \in Couriers, Deliver(w)
  PROVE  /\ Aside
         /\ calls'[w] = Idle \/ calls'[w].verb = calls[w].verb
         /\ \A i \in DOMAIN calls'[w].todo : EventWrite(calls'[w].todo[i])
<1>1. w \in Workers
  BY DEF Workers
<1>2. docs' = docs /\ Busy(w) /\ \A v \in Workers \ {w} : calls'[v] = calls[v]
  BY <1>1, DeliverEffect
<1>3. PICK k : /\ Head(calls[w].todo) = Post(k)
               /\ \/ calls'[w] = Idle
                  \/ calls'[w].verb = calls[w].verb /\ \E d : calls'[w].todo = <<Store(k, d)>>
  BY <1>1, DeliverEffect
<1>4. PICK t : t = calls[w].todo
  OBVIOUS
<1>5. Len(t) \in Nat \ {0} /\ DOMAIN t = 1..Len(t) /\ Head(t) = t[1]
  BY <1>1, <1>2, <1>4, LeftByPosition DEF Follows
<1>6. EventWrite(Post(k))
  BY <1>3, <1>4, <1>5 DEF AloneInv
<1>7. Head(k) = "eventgrid.eventsubscriptions"
  <2>1. Post(k).key = k
    BY DEF Post
  <2>2. QED
    BY <1>6, <2>1 DEF EventWrite
<1>8. Aside
  BY <1>2, FirstIsAClient DEF Aside
<1>9. CASE calls'[w] = Idle
  <2>1. calls'[w].todo = <<>>
    BY <1>9 DEF Idle
  <2>2. DOMAIN calls'[w].todo = {}
    BY <2>1
  <2>3. QED
    BY <1>8, <1>9, <2>2
<1>10. CASE calls'[w].verb = calls[w].verb /\ \E d : calls'[w].todo = <<Store(k, d)>>
  <2>1. PICK d : calls'[w].todo = <<Store(k, d)>>
    BY <1>10
  <2>2. EventWrite(Store(k, d))
    BY <1>7, EventWrites
  <2>3. DOMAIN calls'[w].todo = {1} /\ calls'[w].todo[1] = Store(k, d)
    BY <2>1, SmallLists, Zenon
  <2>4. QED
    BY <1>8, <1>10, <2>2, <2>3
<1>11. QED
  BY <1>3, <1>9, <1>10

LEMMA BeginsIdle ==
  ASSUME NEW c, Request(c)
  PROVE  \E verb, on, todo : Begin(c, verb, on, todo)
<1>1. CASE EntryPut(c) \/ EntryDrop(c)
  BY <1>1, Zenon DEF EntryPut, EntryDrop, PutSubnet, PuttingIn, PutSecurityRule, PutRoute, PutPrivateDNSRecordSet,
     DeleteSubnet, DeletingIn, DeleteSecurityRule, DeleteRoute, DeletePrivateDNSRecordSet
<1>2. CASE IndexedPut(c) \/ IndexedDrop(c)
  BY <1>2, Zenon DEF IndexedPut, IndexedDrop, PutContainer, PutTopic, DeleteContainer, DeleteTopic
<1>3. CASE Cascade(c)
  BY <1>3, Zenon DEF Cascade, DeleteService, DeleteAPI, DeleteProduct, DeleteBlobContainer, DeleteTable,
     DeleteManagedCluster
<1>4. CASE ClusterPut(c)
  BY <1>4, ClusterPutWrites, Zenon
<1>5. CASE OnePut(c)
  BY <1>5, Zenon DEF OnePut
<1>6. CASE OneDrop(c)
  BY <1>6, Zenon DEF OneDrop
<1>7. QED
  BY <1>1, <1>2, <1>3, <1>4, <1>5, <1>6, Zenon DEF Request, DeleteSite, CreateNotifications

LEMMA RequestAlone ==
  ASSUME FormInv, AloneInv, NEW c \in Clients, Request(c), scenario' = scenario
  PROVE  /\ AloneInv'
         /\ docs' = docs /\ mode' = mode
         /\ mode # "concurrent" => c = First
<1>1. PICK verb, on, todo : Begin(c, verb, on, todo)
  BY BeginsIdle
<1>2. c \in Workers /\ c \notin Couriers
  BY FirstIsAClient
<1>3. /\ docs' = docs /\ mode' = mode /\ (mode # "concurrent" => c = First)
      /\ \A w \in Workers \ {c} : calls'[w] = calls[w]
  BY <1>1, <1>2, BeginEffect, Zenon DEF FormInv, First
<1>4. \A w \in Couriers : calls'[w] = calls[w]
  BY <1>2, <1>3 DEF Workers
<1>5. mode' # "concurrent" => \A d \in Clients \ {First} : calls'[d] = Idle
  BY <1>3 DEF Workers, AloneInv
<1>6. QED
  BY <1>3, <1>4, <1>5 DEF AloneInv, Busy

LEMMA PublishAlone ==
  ASSUME FormInv, AloneInv, NEW t, Publish(t), scenario = "events", scenario' = scenario
  PROVE  AloneInv' /\ Aside /\ mode' = mode
<1>1. /\ docs' = docs /\ mode' = mode
      /\ \A w \in Workers : calls'[w] = calls[w] \/ Given(w, calls'[w])
  BY PublishEffect
<1>2. \A c \in Clients : calls'[c] = calls[c]
  BY <1>1, FirstIsAClient DEF Given
<1>3. ASSUME NEW w \in Couriers
      PROVE  /\ calls'[w].verb \in {"none", "deliver"}
             /\ \A i \in DOMAIN calls'[w].todo : EventWrite(calls'[w].todo[i])
  <2>1. CASE calls'[w] = calls[w]
    BY <2>1 DEF AloneInv
  <2>2. CASE Given(w, calls'[w])
    <3>1. calls'[w].verb = "deliver"
      BY <2>2, GivenForm
    <3>2. PICK k : calls'[w].todo = <<Post(k)>> /\ Head(k) = "eventgrid.eventsubscriptions"
      BY <2>2, GivenForm
    <3>3. DOMAIN calls'[w].todo = {1} /\ calls'[w].todo[1] = Post(k)
      BY <3>2, SmallLists, Zenon
    <3>4. QED
      BY <3>1, <3>2, <3>3, EventWrites
  <2>3. w \in Workers
    BY DEF Workers
  <2>4. QED
    BY <1>1, <2>1, <2>2, <2>3
<1>4. AloneInv'
  BY <1>1, <1>2, <1>3 DEF AloneInv
<1>5. QED
  BY <1>1, <1>2, <1>4, FirstIsAClient DEF Aside

\* A write or a delivery, whoever's.
LEMMA StepAlone ==
  ASSUME FormInv, AloneInv, NEW w \in Workers, Write(w) \/ Deliver(w), scenario' = scenario
  PROVE  /\ AloneInv' /\ mode' = mode
         /\ mode # "concurrent" => w = First \/ Aside
<1>1. mode' = mode /\ Busy(w) /\ \A v \in Workers \ {w} : calls'[v] = calls[v]
  BY WriteEffect, DeliverEffect DEF FormInv
<1>2. CASE w \in Couriers
  <2>1. /\ Aside /\ (calls'[w] = Idle \/ calls'[w].verb = calls[w].verb)
        /\ \A i \in DOMAIN calls'[w].todo : EventWrite(calls'[w].todo[i])
    BY <1>2, CourierWrite, CourierDelivery
  <2>2. \A c \in Clients : calls'[c] = calls[c]
    BY <1>1, <1>2, FirstIsAClient
  <2>3. scenario = "events"
    BY <1>1, <1>2 DEF AloneInv
  <2>4. Idle.verb = "none"
    BY DEF Idle
  <2>5. calls'[w].verb \in {"none", "deliver"}
    BY <1>2, <2>1, <2>4 DEF AloneInv
  <2>6. ASSUME NEW v \in Couriers
        PROVE  /\ calls'[v].verb \in {"none", "deliver"}
               /\ \A i \in DOMAIN calls'[v].todo : EventWrite(calls'[v].todo[i])
    <3>1. CASE v = w
      BY <2>1, <2>5, <3>1
    <3>2. CASE v # w
      <4>1. calls'[v] = calls[v]
        BY <1>1, <3>2 DEF Workers
      <4>2. QED
        BY <4>1 DEF AloneInv
    <3>3. QED
      BY <3>1, <3>2
  <2>7. AloneInv'
    BY <1>1, <2>2, <2>3, <2>6 DEF AloneInv
  <2>8. QED
    BY <1>1, <2>1, <2>7
<1>3. CASE w \in Clients
  <2>1. Idle.todo = <<>>
    BY DEF Idle
  <2>2. mode # "concurrent" => w = First
    BY <1>1, <1>3, <2>1 DEF AloneInv, Busy
  <2>3. \A v \in Couriers : calls'[v] = calls[v]
    BY <1>1, <1>3, FirstIsAClient DEF Workers
  <2>4. mode' # "concurrent" => \A c \in Clients \ {First} : calls'[c] = Idle
    BY <1>1, <2>2 DEF AloneInv, Workers
  <2>5. AloneInv'
    BY <2>3, <2>4 DEF AloneInv, Busy
  <2>6. QED
    BY <1>1, <2>2, <2>5
<1>4. QED
  BY <1>2, <1>3, FirstIsAClient

\* A step when requests do not overlap.
SoloStep ==
    \/ Request(First)
    \/ Write(First)
    \/ Deliver(First)
    \/ Crash
    \/ Aside

LEMMA NextAlone ==
  ASSUME FormInv, AloneInv, [Next]_vars
  PROVE  AloneInv' /\ mode' = mode /\ scenario' = scenario /\ (mode # "concurrent" => SoloStep)
<1>1. CASE Next
  <2>1. scenario' = scenario
    BY <1>1 DEF Next
  <2>2. ASSUME NEW c \in Clients, Asked(c) PROVE AloneInv' /\ mode' = mode /\ (mode # "concurrent" => SoloStep)
    <3>1. CASE Request(c)
      <4>1. AloneInv' /\ mode' = mode /\ (mode # "concurrent" => c = First)
        BY <2>1, <3>1, RequestAlone
      <4>2. QED
        BY <3>1, <4>1, Zenon DEF SoloStep
    <3>2. CASE scenario = "events" /\ \E t : Publish(t)
      BY <2>1, <3>2, PublishAlone DEF SoloStep
    <3>3. QED
      BY <2>2, <3>1, <3>2, Asks
  <2>3. ASSUME NEW w \in Workers, Write(w) \/ Deliver(w)
        PROVE  AloneInv' /\ mode' = mode /\ (mode # "concurrent" => SoloStep)
    <3>1. AloneInv' /\ mode' = mode /\ (mode # "concurrent" => w = First \/ Aside)
      BY <2>1, <2>3, StepAlone
    <3>2. QED
      BY <2>3, <3>1, Zenon DEF SoloStep
  <2>4. ASSUME Crash PROVE AloneInv' /\ mode' = mode /\ (mode # "concurrent" => SoloStep)
    <3>1. mode' = mode /\ calls' = [w \in Workers |-> Idle]
      BY <2>4 DEF Crash
    <3>2. \A w \in Workers : calls'[w] = Idle
      BY <3>1
    <3>3. Idle.verb = "none" /\ Idle.todo = <<>> /\ DOMAIN <<>> = {}
      BY DEF Idle
    <3>4. AloneInv'
      BY <3>2, <3>3, FirstIsAClient DEF AloneInv, Busy, Workers
    <3>5. QED
      BY <2>4, <3>1, <3>4 DEF SoloStep
  <2>5. QED
    BY <1>1, <2>1, <2>2, <2>3, <2>4 DEF Next
<1>2. CASE UNCHANGED vars
  <2>1. docs' = docs /\ calls' = calls /\ mode' = mode /\ scenario' = scenario
    BY <1>2 DEF vars, store
  <2>2. AloneInv'
    BY <2>1 DEF AloneInv, Busy
  <2>3. Aside
    BY <2>1 DEF Aside
  <2>4. QED
    BY <2>1, <2>2, <2>3 DEF SoloStep
<1>3. QED
  BY <1>1, <1>2

-----------------------------------------------------------------------------
(* What becomes of the agenda *)

\* One document is put or deleted, and comes off the agenda.
Wrote(t, u) ==
    /\ Len(t) \in Nat \ {0} /\ DOMAIN t = 1..Len(t)
    /\ t[1].do \in {"put", "delete"} /\ EntryForm(t[1])
    /\ docs' = Applied(t[1])
    /\ DOMAIN u = 1..(Len(t) - 1) /\ Len(u) = Len(t) - 1
    /\ \A i \in 1..(Len(t) - 1) : u[i] = t[i + 1]

\* A sweep becomes deletions, which come before the rest.
Swept(t, u) ==
    /\ Len(t) \in Nat \ {0} /\ DOMAIN t = 1..Len(t)
    /\ t[1].do = "sweep" /\ EntryForm(t[1])
    /\ docs' = docs
    /\ \E m \in Nat :
          /\ DOMAIN Deletions(t[1]) = 1..m
          /\ DOMAIN u = 1..(m + (Len(t) - 1))
          /\ \A i \in 1..m : u[i] = Deletions(t[1])[i]
          /\ \A i \in 1..(Len(t) - 1) : u[m + i] = t[i + 1]

\* A handler that has called out writes the outcome.
Answered(t, u) ==
    /\ Len(t) \in Nat \ {0} /\ DOMAIN t = 1..Len(t)
    /\ t[1].do = "deliver"
    /\ docs' = docs
    /\ \/ u = <<>>
       \/ \E k, d : u = <<Store(k, d)>> /\ Head(k) \in {"eventgrid.eventsubscriptions", "monitor.actionGroups"}

LEMMA SoloWrite ==
  ASSUME FormInv, Write(First)
  PROVE  /\ Wrote(Agenda, Agenda') \/ Swept(Agenda, Agenda')
         /\ Agenda' # <<>> => calls'[First].verb = calls[First].verb /\ calls'[First].on = calls[First].on
         /\ Agenda' = <<>> => calls'[First] = Idle
         /\ \A w \in Workers \ {First} : calls'[w] = calls[w]
<1>1. /\ Busy(First) /\ docs' = Applied(Head(calls[First].todo)) /\ Head(calls[First].todo).do # "deliver"
      /\ calls'[First].todo = Left(First)
      /\ Left(First) = <<>> => calls'[First] = Idle
      /\ Left(First) # <<>> => calls'[First].verb = calls[First].verb /\ calls'[First].on = calls[First].on
      /\ \A v \in Workers \ {First} : calls'[v] = calls[v]
  BY FirstIsAClient, WriteEffect DEF FormInv
<1>2. PICK t : t = Agenda /\ t = calls[First].todo
  BY DEF Agenda
<1>3. PICK u : u = Left(First)
  OBVIOUS
<1>4. Follows(t, u)
  BY <1>1, <1>2, <1>3, FirstIsAClient, LeftByPosition
<1>5. Agenda' = u
  BY <1>1, <1>3 DEF Agenda
<1>6. PICK e : e = t[1]
  OBVIOUS
<1>7. docs' = Applied(e) /\ e.do # "deliver" /\ EntryForm(e)
  BY <1>1, <1>2, <1>4, <1>6 DEF Agenda, Follows
<1>8. e.do \in {"put", "delete", "sweep"}
  BY <1>7 DEF EntryForm, Store, Drop, Sweep, Post
<1>9. e.do = "sweep" => docs' = docs
  BY <1>7, AppliedSweep
<1>10. Wrote(t, u) \/ Swept(t, u)
  <2>1. CASE e.do = "sweep"
    BY <1>4, <1>6, <1>7, <1>9, <2>1, Zenon DEF Swept, Follows
  <2>2. CASE e.do # "sweep"
    BY <1>4, <1>6, <1>7, <1>8, <2>2, Zenon DEF Wrote, Follows
  <2>3. QED
    BY <2>1, <2>2
<1>11. QED
  BY <1>1, <1>2, <1>3, <1>5, <1>10

LEMMA SoloDelivery ==
  ASSUME FormInv, Deliver(First)
  PROVE  /\ Answered(Agenda, Agenda')
         /\ \/ calls'[First] = Idle
            \/ calls'[First].verb = calls[First].verb /\ calls'[First].on = calls[First].on
         /\ \A w \in Workers \ {First} : calls'[w] = calls[w]
<1>1. docs' = docs /\ Busy(First) /\ \A v \in Workers \ {First} : calls'[v] = calls[v]
  BY FirstIsAClient, DeliverEffect
<1>2. PICK k : /\ Head(calls[First].todo) = Post(k)
               /\ Head(k) \in {"eventgrid.eventsubscriptions", "monitor.actionGroups"}
               /\ \/ calls'[First] = Idle
                  \/ /\ calls'[First].verb = calls[First].verb /\ calls'[First].on = calls[First].on
                     /\ \E d : calls'[First].todo = <<Store(k, d)>>
  BY FirstIsAClient, DeliverEffect
<1>3. PICK t : t = Agenda
  OBVIOUS
<1>4. Len(t) \in Nat \ {0} /\ DOMAIN t = 1..Len(t) /\ Head(t) = t[1]
  BY <1>1, <1>3, FirstIsAClient, LeftByPosition DEF Agenda, Follows
<1>5. t[1].do = "deliver"
  <2>1. Post(k).do = "deliver"
    BY DEF Post
  <2>2. QED
    BY <1>2, <1>3, <1>4, <2>1 DEF Agenda
<1>6. Agenda' = <<>> \/ \E d : Agenda' = <<Store(k, d)>>
  BY <1>2 DEF Agenda, Idle
<1>7. Answered(t, Agenda')
  BY <1>1, <1>2, <1>4, <1>5, <1>6, Zenon DEF Answered
<1>8. QED
  BY <1>1, <1>2, <1>3, <1>7, Zenon

-----------------------------------------------------------------------------
(* Nothing is left without what it lies in *)

\* The documents that lie in another one; a cluster is put after its pools,
\* which the end of the process may leave without it.
Inside(k) == Head(k) \in DOMAIN Outer \/ (Head(k) = "aks.agentpools" /\ mode = "serial")

Holder(k) == IF Head(k) = "aks.agentpools" THEN Cluster(k[2]) ELSE OuterOf(k)

Removes(e, k) == e = Drop(k) \/ (e.do = "sweep" /\ IsStrictPrefix(e.under, k))

\* It has its holder, or is a pool whose cluster comes later on the agenda.
Homed(k, t, from) ==
    \/ Has(Holder(k))
    \/ Head(k) = "aks.agentpools" /\ \E j \in DOMAIN t : j > from /\ \E d : t[j] = Store(Holder(k), d)

StoredHomed(t) == \A k \in DOMAIN docs : Inside(k) => Homed(k, t, 0)
PutsHomed(t) == \A i \in DOMAIN t : \A k, d : t[i] = Store(k, d) /\ Inside(k) => Homed(k, t, i)

\* What lies in a document goes before it.
DropsEmpty(t) ==
    \A i \in DOMAIN t : \A x : t[i] = Drop(x) =>
       \A k \in DOMAIN docs : Inside(k) /\ Holder(k) = x => \E j \in DOMAIN t : j < i /\ Removes(t[j], k)

\* A sweep deletes what nothing lies in, or sweeps below it first.
SweepForm(e) ==
    \/ e.inner = "" /\ IsList(e.under) /\ e.under # <<>> /\ Head(e.under) \in InnerKinds \ OuterKinds
    \/ \E s : e = Sweep(<<"apimanagement.apis", s>>, "apimanagement.operations")
    \/ \E s : e = Sweep(<<"apimanagement.products", s>>, "apimanagement.productapis")
SweepsLeaves(t) == \A i \in DOMAIN t : t[i].do = "sweep" => SweepForm(t[i])

\* A handler puts, or deletes, or calls out.
OneSort(t) ==
    \/ \A i \in DOMAIN t : t[i].do = "put"
    \/ \A i \in DOMAIN t : t[i].do \in {"delete", "sweep"}
    \/ \A i \in DOMAIN t : t[i].do = "deliver"

Orderly(t) == StoredHomed(t) /\ PutsHomed(t) /\ DropsEmpty(t) /\ SweepsLeaves(t) /\ OneSort(t)

OrphanInv == mode # "concurrent" => Orderly(Agenda)

LEMMA Kinds ==
  /\ InnerKinds = {"apimanagement.operations", "apimanagement.productapis", "apimanagement.apis",
                   "apimanagement.products", "apimanagement.subscriptions", "blob.blobs", "table.entities",
                   "aks.agentpools"}
  /\ \A k : Inside(k) => Head(k) \in InnerKinds
BY KindSets DEF InnerKinds, Inside

\* The writes apart.
LEMMA WriteKinds ==
  /\ \A k, d : Store(k, d).do = "put" /\ Store(k, d).key = k /\ Store(k, d).doc = d
  /\ \A k : Drop(k).do = "delete" /\ Drop(k).key = k
  /\ \A k : Post(k).do = "deliver" /\ Post(k).key = k
  /\ \A u, i : Sweep(u, i).do = "sweep" /\ Sweep(u, i).under = u /\ Sweep(u, i).inner = i
BY DEF Store, Drop, Post, Sweep

LEMMA Holders ==
  ASSUME NEW k, KeyForm(k), Inside(k)
  PROVE  /\ Head(k) \in {"apimanagement.apis", "apimanagement.products", "apimanagement.subscriptions"} =>
               k = <<Head(k), k[2], k[3]>> /\ Holder(k) = ApimService(k[2])
         /\ Head(k) = "apimanagement.operations" =>
               k = <<Head(k), k[2], k[3], k[4]>> /\ Holder(k) = Api(k[2], k[3])
         /\ Head(k) = "apimanagement.productapis" =>
               k = <<Head(k), k[2], k[3], k[4]>> /\ Holder(k) = Product(k[2], k[3])
         /\ Head(k) = "blob.blobs" => k = <<Head(k), k[2], k[3]>> /\ Holder(k) = BlobContainer(k[2])
         /\ Head(k) = "table.entities" => k = <<Head(k), k[2], k[3]>> /\ Holder(k) = Table(k[2])
         /\ Head(k) = "aks.agentpools" => k = <<Head(k), k[2], k[3]>> /\ Holder(k) = Cluster(k[2])
<1>1. /\ Head(k) \in {"apimanagement.apis", "apimanagement.products", "apimanagement.subscriptions",
                      "blob.blobs", "table.entities", "aks.agentpools"} => k = <<Head(k), k[2], k[3]>>
      /\ Head(k) \in {"apimanagement.operations", "apimanagement.productapis"} => k = <<Head(k), k[2], k[3], k[4]>>
  BY DEF KeyForm
<1>2. Head(k) # "aks.agentpools" => Holder(k) = OuterOf(k)
  BY DEF Holder
<1>3. Head(k) = "aks.agentpools" => Holder(k) = Cluster(k[2])
  BY DEF Holder
<1>4. PICK a, b, c : a = k[2] /\ b = k[3] /\ c = k[4]
  OBVIOUS
<1>5. CASE Head(k) \in {"apimanagement.apis", "apimanagement.products", "apimanagement.subscriptions",
                        "blob.blobs", "table.entities"}
  <2>1. k = <<Head(k), a, b>>
    BY <1>1, <1>4, <1>5
  <2>2. /\ Head(k) \in {"apimanagement.apis", "apimanagement.products", "apimanagement.subscriptions"} =>
               OuterOf(k) = ApimService(a)
        /\ Head(k) = "blob.blobs" => OuterOf(k) = BlobContainer(a)
        /\ Head(k) = "table.entities" => OuterOf(k) = Table(a)
    <3>1. CASE Head(k) = "apimanagement.apis"
      BY <2>1, <3>1, OuterKeys
    <3>2. CASE Head(k) = "apimanagement.products"
      BY <2>1, <3>2, OuterKeys
    <3>3. CASE Head(k) = "apimanagement.subscriptions"
      BY <2>1, <3>3, OuterKeys
    <3>4. CASE Head(k) = "blob.blobs"
      BY <2>1, <3>4, OuterKeys
    <3>5. CASE Head(k) = "table.entities"
      BY <2>1, <3>5, OuterKeys
    <3>6. QED
      BY <1>5, <3>1, <3>2, <3>3, <3>4, <3>5
  <2>3. QED
    BY <1>1, <1>2, <1>4, <1>5, <2>2
<1>6. CASE Head(k) \in {"apimanagement.operations", "apimanagement.productapis"}
  <2>1. k = <<Head(k), a, b, c>>
    BY <1>1, <1>4, <1>6
  <2>2. /\ Head(k) = "apimanagement.operations" => OuterOf(k) = Api(a, b)
        /\ Head(k) = "apimanagement.productapis" => OuterOf(k) = Product(a, b)
    <3>1. CASE Head(k) = "apimanagement.operations"
      BY <2>1, <3>1, OuterKeys
    <3>2. CASE Head(k) = "apimanagement.productapis"
      BY <2>1, <3>2, OuterKeys
    <3>3. QED
      BY <1>6, <3>1, <3>2
  <2>3. QED
    BY <1>1, <1>2, <1>4, <1>6, <2>2
<1>7. CASE Head(k) = "aks.agentpools"
  BY <1>1, <1>3, <1>7
<1>8. QED
  BY <1>5, <1>6, <1>7, Kinds

LEMMA HolderKinds ==
  ASSUME NEW k, KeyForm(k), Inside(k)
  PROVE  Head(Holder(k)) \in OuterKinds
<1>1. \A a : /\ Head(ApimService(a)) = "apimanagement.services" /\ Head(BlobContainer(a)) = "blob.containers"
             /\ Head(Table(a)) = "table.tables" /\ Head(Cluster(a)) = "aks.managedclusters"
  BY Tuples DEF ApimService, BlobContainer, Table, Cluster
<1>2. \A a, b : Head(Api(a, b)) = "apimanagement.apis" /\ Head(Product(a, b)) = "apimanagement.products"
  BY Tuples DEF Api, Product
<1>3. QED
  BY <1>1, <1>2, Holders, Kinds DEF OuterKinds

\* A document that nothing lies in may go.
LEMMA NobodysHolder ==
  ASSUME FormInv, NEW x, Head(x) \notin OuterKinds
  PROVE  \A k \in DOMAIN docs : Inside(k) => Holder(k) # x
<1>1. \A k \in DOMAIN docs : KeyForm(k)
  BY DEF FormInv, DocForm
<1>2. QED
  BY <1>1, HolderKinds

-----------------------------------------------------------------------------
(* Steps *)

\* Nothing pending but what starts.
LEMMA StoredHomedStarts ==
  ASSUME StoredHomed(<<>>), NEW t
  PROVE  StoredHomed(t) /\ \A k \in DOMAIN docs : Inside(k) => Has(Holder(k))
<1>1. DOMAIN <<>> = {}
  OBVIOUS
<1>2. \A k \in DOMAIN docs : Inside(k) => Has(Holder(k))
  BY <1>1 DEF StoredHomed, Homed
<1>3. QED
  BY <1>2 DEF StoredHomed, Homed

\* A few puts whose documents have their holder.
LEMMA PutsOrderly ==
  ASSUME StoredHomed(<<>>), NEW t, \A i \in DOMAIN t : \E k, d : t[i] = Store(k, d) /\ (Inside(k) => Homed(k, t, i))
  PROVE  Orderly(t)
<1>1. StoredHomed(t)
  BY StoredHomedStarts
<1>2. \A i \in DOMAIN t : t[i].do = "put"
  BY WriteKinds
<1>3. ASSUME NEW i \in DOMAIN t, NEW k, NEW d, t[i] = Store(k, d), Inside(k) PROVE Homed(k, t, i)
  <2>1. PICK x, y : t[i] = Store(x, y) /\ (Inside(x) => Homed(x, t, i))
    OBVIOUS
  <2>2. x = k
    <3>1. Store(x, y).key = x /\ Store(k, d).key = k
      BY WriteKinds
    <3>2. Store(x, y) = Store(k, d)
      BY <1>3, <2>1
    <3>3. QED
      BY <3>1, <3>2, Zenon
  <2>3. QED
    BY <1>3, <2>1, <2>2
<1>4. DropsEmpty(t) /\ SweepsLeaves(t) /\ OneSort(t)
  BY <1>2, WriteKinds DEF DropsEmpty, SweepsLeaves, OneSort
<1>5. QED
  BY <1>1, <1>3, <1>4 DEF Orderly, PutsHomed

\* Sweeps, and then deletions.
LEMMA DropsOrderly ==
  ASSUME FormInv, StoredHomed(<<>>), NEW t,
         \A i \in DOMAIN t : (\E x : t[i] = Drop(x)) \/ (t[i].do = "sweep" /\ SweepForm(t[i])),
         DropsEmpty(t)
  PROVE  Orderly(t)
<1>1. StoredHomed(t)
  BY StoredHomedStarts
<1>2. \A i \in DOMAIN t : t[i].do \in {"delete", "sweep"}
  BY WriteKinds
<1>3. PutsHomed(t) /\ SweepsLeaves(t) /\ OneSort(t)
  BY <1>2, WriteKinds DEF PutsHomed, SweepsLeaves, OneSort
<1>4. QED
  BY <1>1, <1>3 DEF Orderly

\* A deletion on the agenda, of something nothing lies in.
LEMMA LeavesOrderly ==
  ASSUME FormInv, StoredHomed(<<>>), NEW t,
         \A i \in DOMAIN t : \E x : t[i] = Drop(x) /\ Head(x) \notin OuterKinds
  PROVE  Orderly(t)
<1>1. ASSUME NEW i \in DOMAIN t, NEW x, t[i] = Drop(x) PROVE \A k \in DOMAIN docs : Inside(k) => Holder(k) # x
  <2>1. PICK y : t[i] = Drop(y) /\ Head(y) \notin OuterKinds
    OBVIOUS
  <2>2. x = y
    <3>1. t[i].key = x /\ t[i].key = y
      BY <1>1, <2>1, WriteKinds, Zenon
    <3>2. QED
      BY <3>1
  <2>3. QED
    BY <2>1, <2>2, NobodysHolder
<1>2. DropsEmpty(t)
  BY <1>1, Zenon DEF DropsEmpty
<1>3. QED
  BY <1>2, DropsOrderly

\* What lies in a document is under the prefix that its deletion sweeps.
LEMMA LiesUnder ==
  ASSUME NEW k, KeyForm(k), Inside(k)
  PROVE  /\ \A s : Holder(k) = ApimService(s) =>
               \/ IsStrictPrefix(<<"apimanagement.apis", s>>, k)
               \/ IsStrictPrefix(<<"apimanagement.products", s>>, k)
               \/ IsStrictPrefix(<<"apimanagement.subscriptions", s>>, k)
         /\ \A s, a : Holder(k) = Api(s, a) => IsStrictPrefix(<<"apimanagement.operations", s, a>>, k)
         /\ \A s, a : Holder(k) = Product(s, a) => IsStrictPrefix(<<"apimanagement.productapis", s, a>>, k)
         /\ \A s : Holder(k) = BlobContainer(s) => IsStrictPrefix(<<"blob.blobs", s>>, k)
         /\ \A s : Holder(k) = Table(s) => IsStrictPrefix(<<"table.entities", s>>, k)
         /\ \A s : Holder(k) = Cluster(s) => IsStrictPrefix(<<"aks.agentpools", s>>, k)
<1>1. /\ \A a, b : ApimService(a) = ApimService(b) => a = b
      /\ \A a, b : BlobContainer(a) = BlobContainer(b) => a = b
      /\ \A a, b : Table(a) = Table(b) => a = b
      /\ \A a, b : Cluster(a) = Cluster(b) => a = b
  BY DEF ApimService, BlobContainer, Table, Cluster
<1>2. /\ \A a, b, c, d : Api(a, b) = Api(c, d) => a = c /\ b = d
      /\ \A a, b, c, d : Product(a, b) = Product(c, d) => a = c /\ b = d
  BY DEF Api, Product
<1>3. /\ \A a : /\ Head(ApimService(a)) = "apimanagement.services" /\ Head(BlobContainer(a)) = "blob.containers"
                /\ Head(Table(a)) = "table.tables" /\ Head(Cluster(a)) = "aks.managedclusters"
      /\ \A a, b : Head(Api(a, b)) = "apimanagement.apis" /\ Head(Product(a, b)) = "apimanagement.products"
  BY Tuples DEF ApimService, BlobContainer, Table, Cluster, Api, Product
<1>4. IsList(k) /\ k # <<>>
  BY DEF KeyForm
<1>5. PICK a, b, c : a = k[2] /\ b = k[3] /\ c = k[4]
  OBVIOUS
<1>6. /\ k = <<Head(k), a, b>> => Len(k) = 3
      /\ k = <<Head(k), a, b, c>> => Len(k) = 4
  <2>1. \A x, y, z : Len(<<x, y, z>>) = 3
    OBVIOUS
  <2>2. \A x, y, z, u : Len(<<x, y, z, u>>) = 4
    OBVIOUS
  <2>3. QED
    BY <2>1, <2>2, Zenon
<1>7. /\ k = <<Head(k), a, b>> => IsStrictPrefix(<<Head(k), a>>, k)
      /\ k = <<Head(k), a, b, c>> => IsStrictPrefix(<<Head(k), a, b>>, k)
  BY <1>4, <1>5, <1>6, UnderNames
<1>8. CASE Head(k) \in {"apimanagement.apis", "apimanagement.products", "apimanagement.subscriptions"}
  <2>1. k = <<Head(k), a, b>> /\ Holder(k) = ApimService(a)
    BY <1>5, <1>8, Holders
  <2>2. IsStrictPrefix(<<Head(k), a>>, k)
    BY <1>7, <2>1
  <2>3. \A s : Holder(k) = ApimService(s) => s = a
    BY <1>1, <2>1, Zenon
  <2>4. QED
    BY <1>3, <1>8, <2>1, <2>2, <2>3
<1>9. CASE Head(k) = "apimanagement.operations"
  <2>1. k = <<Head(k), a, b, c>> /\ Holder(k) = Api(a, b)
    BY <1>5, <1>9, Holders
  <2>2. IsStrictPrefix(<<Head(k), a, b>>, k)
    BY <1>7, <2>1
  <2>3. \A s, x : Holder(k) = Api(s, x) => s = a /\ x = b
    BY <1>2, <2>1, Zenon
  <2>4. QED
    BY <1>3, <1>9, <2>1, <2>2, <2>3
<1>10. CASE Head(k) = "apimanagement.productapis"
  <2>1. k = <<Head(k), a, b, c>> /\ Holder(k) = Product(a, b)
    BY <1>5, <1>10, Holders
  <2>2. IsStrictPrefix(<<Head(k), a, b>>, k)
    BY <1>7, <2>1
  <2>3. \A s, x : Holder(k) = Product(s, x) => s = a /\ x = b
    BY <1>2, <2>1, Zenon
  <2>4. QED
    BY <1>3, <1>10, <2>1, <2>2, <2>3
<1>11. CASE Head(k) = "blob.blobs"
  <2>1. k = <<Head(k), a, b>> /\ Holder(k) = BlobContainer(a)
    BY <1>5, <1>11, Holders
  <2>2. IsStrictPrefix(<<Head(k), a>>, k) /\ \A s : Holder(k) = BlobContainer(s) => s = a
    BY <1>1, <1>7, <2>1
  <2>3. QED
    BY <1>3, <1>11, <2>1, <2>2
<1>12. CASE Head(k) = "table.entities"
  <2>1. k = <<Head(k), a, b>> /\ Holder(k) = Table(a)
    BY <1>5, <1>12, Holders
  <2>2. IsStrictPrefix(<<Head(k), a>>, k) /\ \A s : Holder(k) = Table(s) => s = a
    BY <1>1, <1>7, <2>1
  <2>3. QED
    BY <1>3, <1>12, <2>1, <2>2
<1>13. CASE Head(k) = "aks.agentpools"
  <2>1. k = <<Head(k), a, b>> /\ Holder(k) = Cluster(a)
    BY <1>5, <1>13, Holders
  <2>2. IsStrictPrefix(<<Head(k), a>>, k) /\ \A s : Holder(k) = Cluster(s) => s = a
    BY <1>1, <1>7, <2>1
  <2>3. QED
    BY <1>3, <1>13, <2>1, <2>2
<1>14. QED
  BY <1>8, <1>9, <1>10, <1>11, <1>12, <1>13, Kinds

\* Sweeps of kinds that nothing lies in.
LEMMA LeafSweeps ==
  /\ \A b, x : b \in InnerKinds \ OuterKinds => SweepForm(Sweep(<<b, x>>, ""))
  /\ \A b, x, y : b \in InnerKinds \ OuterKinds => SweepForm(Sweep(<<b, x, y>>, ""))
  /\ \A s : SweepForm(AllAPIs(s)) /\ SweepForm(AllProducts(s)) /\ SweepForm(AllSubscriptions(s))
<1>1. \A u : IsList(u) /\ u # <<>> /\ Head(u) \in InnerKinds \ OuterKinds => SweepForm(Sweep(u, ""))
  <2> SUFFICES ASSUME NEW u, IsList(u), u # <<>>, Head(u) \in InnerKinds \ OuterKinds
               PROVE  SweepForm(Sweep(u, ""))
    BY Zenon
  <2>1. Sweep(u, "").under = u /\ Sweep(u, "").inner = ""
    BY DEF Sweep
  <2>2. QED
    BY <2>1, Zenon DEF SweepForm
<1>2. /\ \A b, x : b \in InnerKinds \ OuterKinds => SweepForm(Sweep(<<b, x>>, ""))
      /\ \A b, x, y : b \in InnerKinds \ OuterKinds => SweepForm(Sweep(<<b, x, y>>, ""))
  <2>1. \A b, x : Head(<<b, x>>) = b /\ IsList(<<b, x>>) /\ <<b, x>> # <<>>
    BY Tuples, Zenon
  <2>2. \A b, x, y : Head(<<b, x, y>>) = b /\ IsList(<<b, x, y>>) /\ <<b, x, y>> # <<>>
    BY Tuples
  <2>3. QED
    BY <1>1, <2>1, <2>2, Zenon
<1>3. "apimanagement.subscriptions" \in InnerKinds \ OuterKinds
  BY Kinds DEF OuterKinds
<1>4. QED
  BY <1>2, <1>3, Zenon DEF SweepForm, AllAPIs, AllProducts, AllSubscriptions

LEMMA OneBeforeTwo == \A D, i : D = {1, 2} /\ i = 2 => 1 \in D /\ 1 < i
OBVIOUS

\* One sweep, then one deletion.
LEMMA SweepThenDrop ==
  ASSUME FormInv, StoredHomed(<<>>), NEW under, NEW x, SweepForm(Sweep(under, "")),
         \A k \in DOMAIN docs : Inside(k) /\ Holder(k) = x => IsStrictPrefix(under, k)
  PROVE  Orderly(<<Sweep(under, ""), Drop(x)>>)
<1>1. PICK e, f, t : e = Sweep(under, "") /\ f = Drop(x) /\ t = <<e, f>>
  BY Zenon
<1>2. DOMAIN t = {1, 2} /\ t[1] = e /\ t[2] = f
  BY <1>1, SmallLists, Zenon
<1>3. e.do = "sweep" /\ e.under = under /\ f.do = "delete" /\ f.key = x /\ SweepForm(e)
  BY <1>1, Zenon DEF Sweep, Drop
<1>4. \A i \in DOMAIN t : (\E y : t[i] = Drop(y)) \/ (t[i].do = "sweep" /\ SweepForm(t[i]))
  BY <1>1, <1>2, <1>3, Zenon
<1>5. ASSUME NEW i \in DOMAIN t, NEW y, t[i] = Drop(y), NEW k \in DOMAIN docs, Inside(k), Holder(k) = y
      PROVE  \E j \in DOMAIN t : j < i /\ Removes(t[j], k)
  <2>1. t[i].do = "delete" /\ t[i].key = y
    BY <1>5, WriteKinds, Zenon
  <2>2. i = 2 /\ y = x
    BY <1>2, <1>3, <2>1, Zenon
  <2>3. Removes(t[1], k)
    BY <1>2, <1>3, <1>5, <2>2 DEF Removes
  <2>4. 1 \in DOMAIN t /\ 1 < i
    BY <1>2, <2>2, OneBeforeTwo, Zenon
  <2>5. QED
    BY <2>3, <2>4
<1>6. DropsEmpty(t)
  BY <1>5, Zenon DEF DropsEmpty
<1>7. Orderly(t)
  BY <1>4, <1>6, DropsOrderly, Zenon
<1>8. QED
  BY <1>1, <1>7, Zenon

LEMMA CascadeOrderly ==
  ASSUME FormInv, StoredHomed(<<>>), NEW c, Cascade(c)
  PROVE  \E verb, on, todo : Begin(c, verb, on, todo) /\ Orderly(todo)
<1>1. \A k \in DOMAIN docs : KeyForm(k)
  BY DEF FormInv, DocForm
<1>2. ASSUME NEW s, DeleteService(c, s)
      PROVE  \E verb, on, todo : Begin(c, verb, on, todo) /\ Orderly(todo)
  <2>1. PICK x, a, b, d, e, t : /\ x = ApimService(s) /\ a = AllAPIs(s) /\ b = AllProducts(s)
                                /\ d = AllSubscriptions(s) /\ e = Drop(x) /\ t = <<a, b, d, e>>
    BY Zenon
  <2>2. DOMAIN t = {1, 2, 3, 4} /\ t[1] = a /\ t[2] = b /\ t[3] = d /\ t[4] = e
    BY <2>1, SmallLists
  <2>3. /\ a.do = "sweep" /\ a.under = <<"apimanagement.apis", s>>
        /\ b.do = "sweep" /\ b.under = <<"apimanagement.products", s>>
        /\ d.do = "sweep" /\ d.under = <<"apimanagement.subscriptions", s>>
        /\ e.do = "delete" /\ e.key = x
    BY <2>1, Zenon DEF AllAPIs, AllProducts, AllSubscriptions, Sweep, Drop
  <2>4. SweepForm(a) /\ SweepForm(b) /\ SweepForm(d)
    BY <2>1, LeafSweeps, Zenon
  <2>5. \A i \in DOMAIN t : (\E y : t[i] = Drop(y)) \/ (t[i].do = "sweep" /\ SweepForm(t[i]))
    BY <2>1, <2>2, <2>3, <2>4
  <2>6. ASSUME NEW i \in DOMAIN t, NEW y, t[i] = Drop(y), NEW k \in DOMAIN docs, Inside(k), Holder(k) = y
        PROVE  \E j \in DOMAIN t : j < i /\ Removes(t[j], k)
    <3>1. t[i].do = "delete" /\ t[i].key = y
      BY <2>6, WriteKinds
    <3>2. i = 4 /\ y = x
      BY <2>2, <2>3, <3>1
    <3>3. IsStrictPrefix(a.under, k) \/ IsStrictPrefix(b.under, k) \/ IsStrictPrefix(d.under, k)
      BY <1>1, <2>1, <2>3, <2>6, <3>2, LiesUnder
    <3>4. Removes(t[1], k) \/ Removes(t[2], k) \/ Removes(t[3], k)
      BY <2>2, <2>3, <3>3 DEF Removes
    <3>5. QED
      BY <2>2, <3>2, <3>4
  <2>7. DropsEmpty(t)
    BY <2>6, Zenon DEF DropsEmpty
  <2>8. Orderly(t)
    BY <2>5, <2>7, DropsOrderly
  <2>9. Begin(c, "delete", x, t)
    BY <1>2, <2>1, Zenon DEF DeleteService
  <2>10. QED
    BY <2>8, <2>9
<1>3. InnerKinds \ OuterKinds = {"apimanagement.operations", "apimanagement.productapis",
                                 "apimanagement.subscriptions", "blob.blobs", "table.entities", "aks.agentpools"}
  BY Kinds DEF OuterKinds
<1>4. ASSUME NEW s, NEW a, DeleteAPI(c, s, a)
      PROVE  \E verb, on, todo : Begin(c, verb, on, todo) /\ Orderly(todo)
  <2>1. PICK under : under = <<"apimanagement.operations", s, a>>
    BY Zenon
  <2>2. SweepForm(Sweep(under, ""))
    BY <1>3, <2>1, LeafSweeps, Zenon
  <2>3. \A k \in DOMAIN docs : Inside(k) /\ Holder(k) = Api(s, a) => IsStrictPrefix(under, k)
    BY <1>1, <2>1, LiesUnder
  <2>4. Orderly(<<Sweep(under, ""), Drop(Api(s, a))>>)
    BY <2>2, <2>3, SweepThenDrop
  <2>5. QED
    BY <1>4, <2>1, <2>4, Zenon DEF DeleteAPI
<1>5. ASSUME NEW s, NEW p, DeleteProduct(c, s, p)
      PROVE  \E verb, on, todo : Begin(c, verb, on, todo) /\ Orderly(todo)
  <2>1. PICK under : under = <<"apimanagement.productapis", s, p>>
    BY Zenon
  <2>2. SweepForm(Sweep(under, ""))
    BY <1>3, <2>1, LeafSweeps, Zenon
  <2>3. \A k \in DOMAIN docs : Inside(k) /\ Holder(k) = Product(s, p) => IsStrictPrefix(under, k)
    BY <1>1, <2>1, LiesUnder
  <2>4. Orderly(<<Sweep(under, ""), Drop(Product(s, p))>>)
    BY <2>2, <2>3, SweepThenDrop
  <2>5. QED
    BY <1>5, <2>1, <2>4, Zenon DEF DeleteProduct
<1>6. ASSUME NEW n, DeleteBlobContainer(c, n)
      PROVE  \E verb, on, todo : Begin(c, verb, on, todo) /\ Orderly(todo)
  <2>1. PICK under : under = <<"blob.blobs", n>>
    BY Zenon
  <2>2. SweepForm(Sweep(under, ""))
    BY <1>3, <2>1, LeafSweeps, Zenon
  <2>3. \A k \in DOMAIN docs : Inside(k) /\ Holder(k) = BlobContainer(n) => IsStrictPrefix(under, k)
    BY <1>1, <2>1, LiesUnder
  <2>4. Orderly(<<Sweep(under, ""), Drop(BlobContainer(n))>>)
    BY <2>2, <2>3, SweepThenDrop
  <2>5. QED
    BY <1>6, <2>1, <2>4, Zenon DEF DeleteBlobContainer
<1>7. ASSUME NEW n, DeleteTable(c, n)
      PROVE  \E verb, on, todo : Begin(c, verb, on, todo) /\ Orderly(todo)
  <2>1. PICK under : under = <<"table.entities", n>>
    BY Zenon
  <2>2. SweepForm(Sweep(under, ""))
    BY <1>3, <2>1, LeafSweeps, Zenon
  <2>3. \A k \in DOMAIN docs : Inside(k) /\ Holder(k) = Table(n) => IsStrictPrefix(under, k)
    BY <1>1, <2>1, LiesUnder
  <2>4. Orderly(<<Sweep(under, ""), Drop(Table(n))>>)
    BY <2>2, <2>3, SweepThenDrop
  <2>5. QED
    BY <1>7, <2>1, <2>4, Zenon DEF DeleteTable
<1>8. ASSUME NEW n, DeleteManagedCluster(c, n)
      PROVE  \E verb, on, todo : Begin(c, verb, on, todo) /\ Orderly(todo)
  <2>1. PICK under : under = <<"aks.agentpools", n>>
    BY Zenon
  <2>2. SweepForm(Sweep(under, ""))
    BY <1>3, <2>1, LeafSweeps, Zenon
  <2>3. \A k \in DOMAIN docs : Inside(k) /\ Holder(k) = Cluster(n) => IsStrictPrefix(under, k)
    BY <1>1, <2>1, LiesUnder
  <2>4. Orderly(<<Sweep(under, ""), Drop(Cluster(n))>>)
    BY <2>2, <2>3, SweepThenDrop
  <2>5. QED
    BY <1>8, <2>1, <2>4, Zenon DEF DeleteManagedCluster, DeleteAgentPoolsForCluster
<1>9. QED
  BY <1>2, <1>4, <1>5, <1>6, <1>7, <1>8, Zenon DEF Cascade

\* A pool, then another one, then the cluster.
LEMMA ClusterOrderly ==
  ASSUME StoredHomed(<<>>), NEW k, NEW t, ClusterWrites(k, t)
  PROVE  Orderly(t)
<1>1. IsList(t) /\ Len(t) \in Nat \ {0} /\ DOMAIN t = 1..Len(t)
  BY ListShape, SMTT(30) DEF ClusterWrites
<1>2. PICK n \in Nat \ {0} : n = Len(t)
  BY <1>1, Zenon
<1>3. PICK last : t[n] = Store(Cluster(k), last)
  BY <1>2 DEF ClusterWrites
<1>4. ASSUME NEW i \in 1..(n - 1), NEW p, NEW d, t[i] = Store(AgentPool(k, p), d)
      PROVE  Inside(AgentPool(k, p)) => Homed(AgentPool(k, p), t, i)
  <2>1. Head(AgentPool(k, p)) = "aks.agentpools" /\ AgentPool(k, p)[2] = k
    BY Tuples DEF AgentPool
  <2>2. Holder(AgentPool(k, p)) = Cluster(k)
    BY <2>1 DEF Holder
  <2>3. n \in DOMAIN t /\ n > i
    BY <1>1, <1>2
  <2>4. QED
    BY <1>3, <2>1, <2>2, <2>3, Zenon DEF Homed
<1>5. ~Inside(Cluster(k))
  <2>1. Head(Cluster(k)) = "aks.managedclusters"
    BY Tuples DEF Cluster
  <2>2. QED
    BY <2>1, Kinds
<1>6. ASSUME NEW i \in DOMAIN t PROVE \E x, d : t[i] = Store(x, d) /\ (Inside(x) => Homed(x, t, i))
  <2>1. i \in 1..(n - 1) \/ i = n
    BY <1>1, <1>2
  <2>2. CASE i \in 1..(n - 1)
    <3>1. PICK p, d : t[i] = Store(AgentPool(k, p), d)
      BY <1>2, <2>2 DEF ClusterWrites
    <3>2. QED
      BY <1>4, <2>2, <3>1, Zenon
  <2>3. CASE i = n
    BY <1>3, <1>5, <2>3, Zenon
  <2>4. QED
    BY <2>1, <2>2, <2>3
<1>7. QED
  BY <1>6, PutsOrderly

LEMMA RequestOrderly ==
  ASSUME FormInv, StoredHomed(<<>>), NEW c, Request(c)
  PROVE  \E verb, on, todo : Begin(c, verb, on, todo) /\ Orderly(todo)
<1>1. ASSUME NEW k, NEW d, Inside(k) => Has(Holder(k)) PROVE Orderly(<<Store(k, d)>>)
  <2>1. PICK e, t : e = Store(k, d) /\ t = <<e>>
    BY Zenon
  <2>2. DOMAIN t = {1} /\ t[1] = e
    BY <2>1, SmallLists
  <2>3. \A i : Inside(k) => Homed(k, t, i)
    BY <1>1 DEF Homed
  <2>4. \A i \in DOMAIN t : \E x, y : t[i] = Store(x, y) /\ (Inside(x) => Homed(x, t, i))
    BY <2>1, <2>2, <2>3
  <2>5. Orderly(t)
    BY <2>4, PutsOrderly
  <2>6. QED
    BY <2>1, <2>5
<1>2. ASSUME NEW k, NEW d, NEW x, NEW y, ~Inside(k), ~Inside(x) PROVE Orderly(<<Store(k, d), Store(x, y)>>)
  <2>1. PICK e, f, t : e = Store(k, d) /\ f = Store(x, y) /\ t = <<e, f>>
    BY Zenon
  <2>2. DOMAIN t = {1, 2} /\ t[1] = e /\ t[2] = f
    BY <2>1, SmallLists
  <2>3. \A i \in DOMAIN t : \E a, b : t[i] = Store(a, b) /\ (Inside(a) => Homed(a, t, i))
    BY <1>2, <2>1, <2>2
  <2>4. Orderly(t)
    BY <2>3, PutsOrderly
  <2>5. QED
    BY <2>1, <2>4
<1>3. ASSUME NEW x, Head(x) \notin OuterKinds PROVE Orderly(<<Drop(x)>>)
  <2>1. PICK e, t : e = Drop(x) /\ t = <<e>>
    BY Zenon
  <2>2. DOMAIN t = {1} /\ t[1] = e
    BY <2>1, SmallLists
  <2>3. \A i \in DOMAIN t : \E y : t[i] = Drop(y) /\ Head(y) \notin OuterKinds
    BY <1>3, <2>1, <2>2
  <2>4. Orderly(t)
    BY <2>3, LeavesOrderly
  <2>5. QED
    BY <2>1, <2>4
<1>4. ASSUME NEW x, NEW y, Head(x) \notin OuterKinds, Head(y) \notin OuterKinds PROVE Orderly(<<Drop(x), Drop(y)>>)
  <2>1. PICK e, f, t : e = Drop(x) /\ f = Drop(y) /\ t = <<e, f>>
    BY Zenon
  <2>2. DOMAIN t = {1, 2} /\ t[1] = e /\ t[2] = f
    BY <2>1, SmallLists
  <2>3. \A i \in DOMAIN t : \E z : t[i] = Drop(z) /\ Head(z) \notin OuterKinds
    BY <1>4, <2>1, <2>2
  <2>4. Orderly(t)
    BY <2>3, LeavesOrderly
  <2>5. QED
    BY <2>1, <2>4
<1>5. ASSUME OnePut(c) PROVE \E verb, on, todo : Begin(c, verb, on, todo) /\ Orderly(todo)
  <2>1. PICK verb, k, d : Begin(c, verb, k, <<Store(k, d)>>) /\ OuterStored(k)
    BY <1>5, Zenon DEF OnePut
  <2>2. Inside(k) => Has(Holder(k))
    BY <2>1, KindSets DEF OuterStored, Inside, Holder
  <2>3. QED
    BY <1>1, <2>1, <2>2, Zenon
<1>6. ASSUME OneDrop(c) PROVE \E verb, on, todo : Begin(c, verb, on, todo) /\ Orderly(todo)
  <2>1. PICK k : Begin(c, "delete", k, <<Drop(k)>>) /\ Head(k) \notin OuterKinds
    BY <1>6, Zenon DEF OneDrop
  <2>2. QED
    BY <1>3, <2>1, Zenon
<1>7. ASSUME EntryPut(c) \/ EntryDrop(c) PROVE \E verb, on, todo : Begin(c, verb, on, todo) /\ Orderly(todo)
  <2>1. PICK verb, k, name, d : Begin(c, verb, Append(k, name), <<Store(k, d)>>) /\ Head(k) \in NestedKinds
    BY <1>7, EntryWrites, Zenon DEF EntryWrite
  <2>2. ~Inside(k)
    BY <2>1, Kinds, KindSets
  <2>3. QED
    BY <1>1, <2>1, <2>2, Zenon
<1>8. ASSUME IndexedPut(c) \/ IndexedDrop(c) PROVE \E verb, on, todo : Begin(c, verb, on, todo) /\ Orderly(todo)
  <2>1. /\ \A g, a, d, n : Head(Container(g, a, d, n)) = "cosmosdb.containers"
        /\ \A a, d, n : Head(ContainerEntity(a, d, n)) = "cosmosdb.dataplane.containers"
        /\ \A g, t : Head(Topic(g, t)) = "eventgrid.topics"
        /\ \A t : Head(DataPlaneTopic(t)) = "eventgrid.dataplane.topics"
    BY Tuples DEF Container, ContainerEntity, Topic, DataPlaneTopic
  <2>2. \A k : Head(k) \in {"cosmosdb.containers", "cosmosdb.dataplane.containers", "eventgrid.topics",
                            "eventgrid.dataplane.topics"} => ~Inside(k) /\ Head(k) \notin OuterKinds
    BY Kinds DEF OuterKinds
  <2>3. ASSUME NEW g, NEW a, NEW d, NEW n, NEW paths, PutContainer(c, g, a, d, n, paths)
        PROVE  \E verb, on, todo : Begin(c, verb, on, todo) /\ Orderly(todo)
    <3>1. ~Inside(Container(g, a, d, n)) /\ ~Inside(ContainerEntity(a, d, n))
      BY <2>1, <2>2
    <3>2. QED
      BY <1>2, <2>3, <3>1, Zenon DEF PutContainer
  <2>4. ASSUME NEW g, NEW t, PutTopic(c, g, t)
        PROVE  \E verb, on, todo : Begin(c, verb, on, todo) /\ Orderly(todo)
    <3>1. ~Inside(Topic(g, t)) /\ ~Inside(DataPlaneTopic(t))
      BY <2>1, <2>2
    <3>2. QED
      BY <1>2, <2>4, <3>1, Zenon DEF PutTopic
  <2>5. ASSUME NEW g, NEW a, NEW d, NEW n, DeleteContainer(c, g, a, d, n)
        PROVE  \E verb, on, todo : Begin(c, verb, on, todo) /\ Orderly(todo)
    <3>1. Head(Container(g, a, d, n)) \notin OuterKinds /\ Head(ContainerEntity(a, d, n)) \notin OuterKinds
      BY <2>1, <2>2
    <3>2. QED
      BY <1>4, <2>5, <3>1, Zenon DEF DeleteContainer
  <2>6. ASSUME NEW g, NEW t, DeleteTopic(c, g, t)
        PROVE  \E verb, on, todo : Begin(c, verb, on, todo) /\ Orderly(todo)
    <3>1. Head(Topic(g, t)) \notin OuterKinds /\ Head(DataPlaneTopic(t)) \notin OuterKinds
      BY <2>1, <2>2
    <3>2. QED
      BY <1>4, <2>6, <3>1, Zenon DEF DeleteTopic
  <2>7. QED
    BY <1>8, <2>3, <2>4, <2>5, <2>6, Zenon DEF IndexedPut, IndexedDrop
<1>9. ASSUME NEW s, DeleteSite(c, s) PROVE \E verb, on, todo : Begin(c, verb, on, todo) /\ Orderly(todo)
  <2>1. Head(Site(s)) \notin OuterKinds /\ Head(AppSettings(s)) \notin OuterKinds
    BY Tuples DEF Site, AppSettings, OuterKinds
  <2>2. QED
    BY <1>4, <1>9, <2>1, Zenon DEF DeleteSite
<1>10. ASSUME NEW a, CreateNotifications(c, a) PROVE \E verb, on, todo : Begin(c, verb, on, todo) /\ Orderly(todo)
  <2>1. PICK e, t : e = Post(ActionGroup(a)) /\ t = <<e>>
    BY Zenon
  <2>2. DOMAIN t = {1} /\ t[1] = e
    BY <2>1, SmallLists
  <2>3. e.do = "deliver"
    BY <2>1 DEF Post
  <2>4. \A i \in DOMAIN t : t[i].do = "deliver"
    BY <2>2, <2>3
  <2>5. PutsHomed(t) /\ DropsEmpty(t) /\ SweepsLeaves(t) /\ OneSort(t)
    BY <2>4, WriteKinds DEF PutsHomed, DropsEmpty, SweepsLeaves, OneSort
  <2>6. Orderly(t)
    BY <2>5, StoredHomedStarts DEF Orderly
  <2>7. QED
    BY <1>10, <2>1, <2>6, Zenon DEF CreateNotifications
<1>11. ASSUME ClusterPut(c) PROVE \E verb, on, todo : Begin(c, verb, on, todo) /\ Orderly(todo)
  BY <1>11, ClusterPutWrites, ClusterOrderly, Zenon
<1>12. QED
  BY <1>5, <1>6, <1>7, <1>8, <1>9, <1>10, <1>11, CascadeOrderly, Zenon DEF Request

\* What the next state's parts say of an agenda.
LEMMA OrderlyNext ==
  ASSUME mode' = mode, NEW u,
         \A k \in DOMAIN docs' : Inside(k) =>
            \/ Holder(k) \in DOMAIN docs'
            \/ Head(k) = "aks.agentpools" /\ \E j \in DOMAIN u : j > 0 /\ \E d : u[j] = Store(Holder(k), d),
         \A i \in DOMAIN u : \A k, d : u[i] = Store(k, d) /\ Inside(k) =>
            \/ Holder(k) \in DOMAIN docs'
            \/ Head(k) = "aks.agentpools" /\ \E j \in DOMAIN u : j > i /\ \E x : u[j] = Store(Holder(k), x),
         \A i \in DOMAIN u : \A x : u[i] = Drop(x) =>
            \A k \in DOMAIN docs' : Inside(k) /\ Holder(k) = x => \E j \in DOMAIN u : j < i /\ Removes(u[j], k),
         SweepsLeaves(u), OneSort(u), Agenda' = u
  PROVE  Orderly(Agenda)'
<1>1. \A k : Inside(k)' = Inside(k)
  BY DEF Inside
<1>2. \A k, f : (Homed(k, Agenda, f))' <=>
            \/ Holder(k) \in DOMAIN docs'
            \/ Head(k) = "aks.agentpools" /\ \E j \in DOMAIN u : j > f /\ \E d : u[j] = Store(Holder(k), d)
  BY DEF Homed, Has
<1>3. StoredHomed(Agenda)'
  BY <1>1, <1>2, Zenon DEF StoredHomed
<1>4. PutsHomed(Agenda)'
  <2>1. \A i \in DOMAIN u : \A k, d : u[i] = Store(k, d) /\ Inside(k)' => (Homed(k, Agenda, i))'
    BY <1>1, <1>2
  <2>2. \A k, d : Store(k, d)' = Store(k, d)
    BY DEF Store
  <2>3. QED
    BY <2>1, <2>2 DEF PutsHomed, Store
<1>5. DropsEmpty(Agenda)'
  BY <1>1, Zenon DEF DropsEmpty
<1>6. SweepsLeaves(Agenda)'
  BY Zenon DEF SweepsLeaves
<1>7. OneSort(Agenda)'
  BY Zenon DEF OneSort
<1>8. QED
  BY <1>3, <1>4, <1>5, <1>6, <1>7 DEF Orderly

LEMMA IdleOrderly ==
  ASSUME mode' = mode, docs' = docs, Agenda' = <<>>, \A k \in DOMAIN docs : Inside(k) => Has(Holder(k))
  PROVE  Orderly(Agenda)'
<1>1. PICK u : u = <<>>
  OBVIOUS
<1>2. DOMAIN u = {}
  BY <1>1
<1>3. SweepsLeaves(u) /\ OneSort(u)
  BY <1>2 DEF SweepsLeaves, OneSort
<1>4. \A k \in DOMAIN docs' : Inside(k) => Holder(k) \in DOMAIN docs'
  BY DEF Has
<1>5. QED
  BY <1>1, <1>2, <1>3, <1>4, OrderlyNext

\* Sorts are told by any of their writes.
LEMMA SortOf ==
  ASSUME NEW t, OneSort(t), NEW i \in DOMAIN t
  PROVE  /\ t[i].do = "put" => \A j \in DOMAIN t : t[j].do = "put"
         /\ t[i].do \in {"delete", "sweep"} => \A j \in DOMAIN t : t[j].do \in {"delete", "sweep"}
         /\ t[i].do = "deliver" => \A j \in DOMAIN t : t[j].do = "deliver"
BY DEF OneSort

LEMMA RestOneSort ==
  ASSUME NEW t, NEW u, OneSort(t), SweepsLeaves(t), NEW n \in Nat \ {0}, DOMAIN t = 1..n, DOMAIN u = 1..(n - 1),
         \A i \in 1..(n - 1) : u[i] = t[i + 1]
  PROVE  OneSort(u) /\ SweepsLeaves(u)
<1>1. \A i \in 1..(n - 1) : i + 1 \in 1..n
  OBVIOUS
<1>2. \A i \in DOMAIN u : i + 1 \in DOMAIN t /\ u[i] = t[i + 1]
  BY <1>1
<1>3. QED
  BY <1>2, Zenon DEF OneSort, SweepsLeaves

LEMMA PutOrderly ==
  ASSUME FormInv, mode' = mode, NEW t, NEW u, Orderly(t), Wrote(t, u), t[1].do = "put", Agenda' = u
  PROVE  Orderly(Agenda)'
<1>1. PICK n \in Nat \ {0} : n = Len(t)
  BY Zenon DEF Wrote
<1>2. /\ DOMAIN t = 1..n /\ EntryForm(t[1]) /\ docs' = Applied(t[1])
      /\ DOMAIN u = 1..(n - 1)
      /\ \A i \in 1..(n - 1) : u[i] = t[i + 1]
  BY <1>1 DEF Wrote
<1>3. PICK x, d : t[1] = Store(x, d)
  BY <1>2, WriteKinds DEF EntryForm
<1>4. DOMAIN docs' = DOMAIN docs \union {x}
  <2>1. PICK e : e = t[1]
    OBVIOUS
  <2>2. e.do = "put" /\ e.key = x /\ docs' = Applied(e)
    BY <1>2, <1>3, <2>1 DEF Store
  <2>3. QED
    BY <2>2, AppliedPut, Zenon
<1>5. 1 \in DOMAIN t /\ \A j \in DOMAIN t : t[j].do = "put"
  <2>1. 1 \in DOMAIN t
    BY <1>2
  <2>2. QED
    BY <2>1, SortOf DEF Orderly
<1>6. \A j \in DOMAIN t : j # 1 => j - 1 \in DOMAIN u /\ u[j - 1] = t[j]
  BY <1>2
<1>7. \A i \in DOMAIN u : i + 1 \in DOMAIN t /\ u[i] = t[i + 1]
  BY <1>2
<1>8. ASSUME NEW k, NEW f \in Nat, Homed(k, t, f + 1)
      PROVE  \/ Holder(k) \in DOMAIN docs'
             \/ Head(k) = "aks.agentpools" /\ \E j \in DOMAIN u : j > f /\ \E y : u[j] = Store(Holder(k), y)
  <2>1. CASE Has(Holder(k))
    BY <1>4, <2>1 DEF Has
  <2>2. CASE Head(k) = "aks.agentpools" /\ \E j \in DOMAIN t : j > f + 1 /\ \E y : t[j] = Store(Holder(k), y)
    <3>1. PICK j \in DOMAIN t : j > f + 1 /\ \E y : t[j] = Store(Holder(k), y)
      BY <2>2
    <3>2. j - 1 \in DOMAIN u /\ u[j - 1] = t[j] /\ j - 1 > f
      BY <1>2, <1>6, <3>1
    <3>3. QED
      BY <2>2, <3>1, <3>2, Zenon
  <2>3. QED
    BY <1>8, <2>1, <2>2 DEF Homed
<1>9. ASSUME NEW k, Homed(k, t, 0)
      PROVE  \/ Holder(k) \in DOMAIN docs'
             \/ Head(k) = "aks.agentpools" /\ \E j \in DOMAIN u : j > 0 /\ \E y : u[j] = Store(Holder(k), y)
  <2>1. CASE Has(Holder(k))
    BY <1>4, <2>1 DEF Has
  <2>2. CASE Head(k) = "aks.agentpools" /\ \E j \in DOMAIN t : j > 0 /\ \E y : t[j] = Store(Holder(k), y)
    <3>1. PICK j \in DOMAIN t : j > 0 /\ \E y : t[j] = Store(Holder(k), y)
      BY <2>2
    <3>2. CASE j = 1
      <4>1. PICK y : Store(x, d) = Store(Holder(k), y)
        BY <1>3, <3>1, <3>2
      <4>2. x = Holder(k)
        BY <4>1, WriteKinds
      <4>3. QED
        BY <1>4, <4>2
    <3>3. CASE j # 1
      <4>1. j - 1 \in DOMAIN u /\ u[j - 1] = t[j] /\ j - 1 > 0
        BY <1>2, <1>6, <3>3
      <4>2. QED
        BY <2>2, <3>1, <4>1, Zenon
    <3>4. QED
      BY <3>2, <3>3
  <2>3. QED
    BY <1>9, <2>1, <2>2 DEF Homed
<1>10. ASSUME NEW k \in DOMAIN docs', Inside(k)
       PROVE  \/ Holder(k) \in DOMAIN docs'
              \/ Head(k) = "aks.agentpools" /\ \E j \in DOMAIN u : j > 0 /\ \E y : u[j] = Store(Holder(k), y)
  <2>1. CASE k \in DOMAIN docs
    BY <1>9, <1>10, <2>1 DEF Orderly, StoredHomed
  <2>2. CASE k = x
    <3>1. Homed(k, t, 1)
      BY <1>3, <1>5, <1>10, <2>2 DEF Orderly, PutsHomed
    <3>2. 0 \in Nat /\ 0 + 1 = 1
      OBVIOUS
    <3>3. QED
      BY <1>8, <3>1, <3>2
  <2>3. QED
    BY <1>4, <2>1, <2>2
<1>11. ASSUME NEW i \in DOMAIN u, NEW k, NEW y, u[i] = Store(k, y), Inside(k)
       PROVE  \/ Holder(k) \in DOMAIN docs'
              \/ Head(k) = "aks.agentpools" /\ \E j \in DOMAIN u : j > i /\ \E z : u[j] = Store(Holder(k), z)
  <2>1. i + 1 \in DOMAIN t /\ t[i + 1] = Store(k, y) /\ i \in Nat
    BY <1>2, <1>7, <1>11
  <2>2. Homed(k, t, i + 1)
    BY <1>11, <2>1 DEF Orderly, PutsHomed
  <2>3. QED
    BY <1>8, <2>1, <2>2
<1>12. \A i \in DOMAIN u : u[i].do = "put"
  BY <1>5, <1>7
<1>13. \A i \in DOMAIN u : \A y : u[i] # Drop(y)
  BY <1>12, WriteKinds
<1>14. OneSort(u) /\ SweepsLeaves(u)
  BY <1>12 DEF OneSort, SweepsLeaves
<1>15. QED
  BY <1>10, <1>11, <1>13, <1>14, OrderlyNext

LEMMA DropOrderly ==
  ASSUME FormInv, mode' = mode, NEW t, NEW u, Orderly(t), Wrote(t, u), t[1].do = "delete", Agenda' = u
  PROVE  Orderly(Agenda)'
<1>1. PICK n \in Nat \ {0} : n = Len(t)
  BY Zenon DEF Wrote
<1>2. /\ DOMAIN t = 1..n /\ EntryForm(t[1]) /\ docs' = Applied(t[1])
      /\ DOMAIN u = 1..(n - 1)
      /\ \A i \in 1..(n - 1) : u[i] = t[i + 1]
  BY <1>1 DEF Wrote
<1>3. PICK x : t[1] = Drop(x)
  BY <1>2, WriteKinds DEF EntryForm
<1>4. DOMAIN docs' = DOMAIN docs \ {x}
  <2>1. PICK e : e = t[1]
    OBVIOUS
  <2>2. e.do = "delete" /\ e.key = x /\ docs' = Applied(e)
    BY <1>2, <1>3, <2>1 DEF Drop
  <2>3. QED
    BY <2>2, AppliedDelete, Zenon
<1>5. 1 \in DOMAIN t /\ \A j \in DOMAIN t : t[j].do \in {"delete", "sweep"}
  <2>1. 1 \in DOMAIN t
    BY <1>2
  <2>2. QED
    BY <2>1, SortOf DEF Orderly
<1>6. \A i \in DOMAIN u : i + 1 \in DOMAIN t /\ u[i] = t[i + 1]
  BY <1>2
<1>7. \A k \in DOMAIN docs : Inside(k) => Has(Holder(k)) /\ Holder(k) # x
  <2> SUFFICES ASSUME NEW k \in DOMAIN docs, Inside(k) PROVE Has(Holder(k)) /\ Holder(k) # x
    OBVIOUS
  <2>1. \A j \in DOMAIN t : \A d : t[j] # Store(Holder(k), d)
    BY <1>5, WriteKinds
  <2>2. Homed(k, t, 0)
    BY DEF Orderly, StoredHomed
  <2>3. Has(Holder(k))
    BY <2>1, <2>2, Zenon DEF Homed
  <2>4. ASSUME Holder(k) = x PROVE FALSE
    <3>1. \E j \in DOMAIN t : j < 1 /\ Removes(t[j], k)
      BY <1>3, <1>5, <2>4 DEF Orderly, DropsEmpty
    <3>2. QED
      BY <1>2, <3>1
  <2>5. QED
    BY <2>3, <2>4
<1>8. \A k \in DOMAIN docs' : Inside(k) => Holder(k) \in DOMAIN docs'
  BY <1>4, <1>7 DEF Has
<1>9. \A i \in DOMAIN u : \A k, d : u[i] # Store(k, d)
  BY <1>5, <1>6, WriteKinds
<1>10. ASSUME NEW i \in DOMAIN u, NEW y, u[i] = Drop(y), NEW k \in DOMAIN docs', Inside(k), Holder(k) = y
       PROVE  \E j \in DOMAIN u : j < i /\ Removes(u[j], k)
  <2>1. i + 1 \in DOMAIN t /\ t[i + 1] = Drop(y) /\ k \in DOMAIN docs
    BY <1>4, <1>6, <1>10
  <2>2. PICK j \in DOMAIN t : j < i + 1 /\ Removes(t[j], k)
    BY <1>10, <2>1 DEF Orderly, DropsEmpty
  <2>3. j # 1
    <3>1. ASSUME Removes(t[1], k) PROVE FALSE
      <4>1. Drop(x) = Drop(k)
        BY <1>3, <3>1, WriteKinds DEF Removes
      <4>2. x = k
        BY <4>1, WriteKinds
      <4>3. QED
        BY <1>4, <1>10, <4>2
    <3>2. QED
      BY <2>2, <3>1
  <2>4. j - 1 \in DOMAIN u /\ u[j - 1] = t[j] /\ j - 1 < i
    BY <1>2, <1>10, <2>2, <2>3
  <2>5. QED
    BY <2>2, <2>4, Zenon
<1>11. OneSort(u) /\ SweepsLeaves(u)
  BY <1>1, <1>2, RestOneSort DEF Orderly
<1>12. QED
  BY <1>8, <1>9, <1>10, <1>11, OrderlyNext, SMTT(30)

LEMMA BelowNames ==
  ASSUME NEW inner, NEW b, NEW x, NEW y
  PROVE  Below(inner, <<b, x, y>>) = <<inner, x, y>>
<1>1. Tail(<<b, x, y>>) = <<x, y>>
  OBVIOUS
<1>2. QED
  BY <1>1, PrependedPair, Zenon DEF Below

\* What a sweep becomes deletes all that it lists, each after what lies in it.
LEMMA SweepListed ==
  ASSUME FormInv, NEW e, e.do = "sweep", SweepForm(e), NEW d, d = Deletions(e)
  PROVE  /\ \A i \in DOMAIN d : d[i].do \in {"delete", "sweep"} /\ (d[i].do = "sweep" => SweepForm(d[i]))
         /\ \A i \in DOMAIN d : \A x : d[i] = Drop(x) =>
               \A k \in DOMAIN docs : Inside(k) /\ Holder(k) = x => \E j \in DOMAIN d : j < i /\ Removes(d[j], k)
         /\ \A k \in Under(e.under) : \E i \in DOMAIN d : d[i] = Drop(k)
<1>1. IsFiniteSet(DOMAIN docs) /\ \A k \in DOMAIN docs : KeyForm(k) /\ IsList(k) /\ k # <<>>
  BY DEF FormInv, DocForm, KeyForm
<1>2. CASE e.inner = ""
  <2>1. /\ \A i \in DOMAIN d : \E k \in Under(e.under) : d[i] = Drop(k)
        /\ \A k \in Under(e.under) : \E i \in DOMAIN d : d[i] = Drop(k)
    BY <1>1, <1>2, SweptOne, Zenon
  <2>2. IsList(e.under) /\ e.under # <<>> /\ Head(e.under) \in InnerKinds \ OuterKinds
    <3>1. \A s : e # Sweep(<<"apimanagement.apis", s>>, "apimanagement.operations")
      <4>1. \A s : Sweep(<<"apimanagement.apis", s>>, "apimanagement.operations").inner # ""
        BY DEF Sweep
      <4>2. QED
        BY <1>2, <4>1, Zenon
    <3>2. \A s : e # Sweep(<<"apimanagement.products", s>>, "apimanagement.productapis")
      <4>1. \A s : Sweep(<<"apimanagement.products", s>>, "apimanagement.productapis").inner # ""
        BY DEF Sweep
      <4>2. QED
        BY <1>2, <4>1, Zenon
    <3>3. QED
      BY <3>1, <3>2, Zenon DEF SweepForm
  <2>3. ASSUME NEW k \in Under(e.under) PROVE Head(k) \notin OuterKinds
    <3>1. PICK p : p = e.under
      OBVIOUS
    <3>2. k \in DOMAIN docs /\ IsStrictPrefix(p, k)
      BY <3>1 DEF Under
    <3>3. IsList(k) /\ k # <<>> /\ IsList(p) /\ p # <<>>
      BY <1>1, <2>2, <3>1, <3>2
    <3>4. Head(k) = k[1] /\ Head(p) = p[1] /\ Len(p) \in Nat \ {0}
      BY <3>3, HeadIsFirst
    <3>5. \A j \in 1..Len(p) : k[j] = p[j]
      BY <3>2, <3>3, PrefixOfList
    <3>6. 1 \in 1..Len(p)
      BY <3>4
    <3>7. QED
      BY <2>2, <3>1, <3>4, <3>5, <3>6
  <2>4. ASSUME NEW i \in DOMAIN d, NEW x, d[i] = Drop(x), NEW k \in DOMAIN docs, Inside(k) PROVE Holder(k) # x
    <3>1. PICK y \in Under(e.under) : d[i] = Drop(y)
      BY <2>1
    <3>2. x = y
      BY <2>4, <3>1 DEF Drop
    <3>3. QED
      BY <2>3, <2>4, <3>1, <3>2, NobodysHolder
  <2>5. \A i \in DOMAIN d : d[i].do = "delete"
    BY <2>1 DEF Drop
  <2>6. QED
    BY <2>1, <2>4, <2>5, Zenon
<1>3. ASSUME NEW inner, NEW kind, NEW s, e = Sweep(<<kind, s>>, inner),
             \/ kind = "apimanagement.apis" /\ inner = "apimanagement.operations"
             \/ kind = "apimanagement.products" /\ inner = "apimanagement.productapis"
      PROVE  /\ \A i \in DOMAIN d : d[i].do \in {"delete", "sweep"} /\ (d[i].do = "sweep" => SweepForm(d[i]))
             /\ \A i \in DOMAIN d : \A x : d[i] = Drop(x) =>
                   \A k \in DOMAIN docs : Inside(k) /\ Holder(k) = x => \E j \in DOMAIN d : j < i /\ Removes(d[j], k)
             /\ \A k \in Under(e.under) : \E i \in DOMAIN d : d[i] = Drop(k)
  <2>1. e.under = <<kind, s>> /\ e.inner = inner /\ inner # ""
    BY <1>3, Zenon DEF Sweep
  <2>2. /\ IsList(d)
        /\ \A i \in DOMAIN d : \E k \in Under(e.under) :
              \/ d[i] = Sweep(Below(inner, k), "")
              \/ i > 1 /\ d[i] = Drop(k) /\ d[i - 1] = Sweep(Below(inner, k), "")
        /\ \A k \in Under(e.under) : \E i \in DOMAIN d : d[i] = Drop(k)
    BY <1>1, <2>1, SweptTwo, Zenon
  <2>3. inner \in InnerKinds \ OuterKinds
    BY <1>3, Kinds DEF OuterKinds
  <2>4. ASSUME NEW k \in Under(e.under)
        PROVE  \E a : k = <<kind, s, a>> /\ Below(inner, k) = <<inner, s, a>>
    <3>1. k \in DOMAIN docs /\ IsStrictPrefix(<<kind, s>>, k)
      BY <2>1, Zenon DEF Under
    <3>2. Head(k) = kind /\ k[2] = s
      BY <1>1, <3>1, UnderNames
    <3>3. k = <<Head(k), k[2], k[3]>>
      BY <1>1, <1>3, <3>1, <3>2 DEF KeyForm
    <3>4. PICK a : a = k[3]
      OBVIOUS
    <3>5. k = <<kind, s, a>>
      BY <3>2, <3>3, <3>4
    <3>6. QED
      BY <3>5, BelowNames
  <2>5. ASSUME NEW k \in Under(e.under) PROVE SweepForm(Sweep(Below(inner, k), ""))
    <3>1. PICK a : Below(inner, k) = <<inner, s, a>>
      BY <2>4
    <3>2. SweepForm(Sweep(<<inner, s, a>>, ""))
      BY <2>3, LeafSweeps, Zenon
    <3>3. QED
      BY <3>1, <3>2, Zenon
  <2>6. ASSUME NEW i \in DOMAIN d
        PROVE  d[i].do \in {"delete", "sweep"} /\ (d[i].do = "sweep" => SweepForm(d[i]))
    <3>1. PICK k \in Under(e.under) : d[i] = Sweep(Below(inner, k), "") \/ d[i] = Drop(k)
      BY <2>2, Zenon
    <3>2. d[i] = Drop(k) => d[i].do = "delete"
      BY DEF Drop
    <3>3. d[i] = Sweep(Below(inner, k), "") => d[i].do = "sweep" /\ SweepForm(d[i])
      <4>1. Sweep(Below(inner, k), "").do = "sweep"
        BY DEF Sweep
      <4>2. QED
        BY <2>5, <4>1, Zenon
    <3>4. QED
      BY <3>1, <3>2, <3>3, Zenon
  <2>7. ASSUME NEW i \in DOMAIN d, NEW x, d[i] = Drop(x), NEW k \in DOMAIN docs, Inside(k), Holder(k) = x
        PROVE  \E j \in DOMAIN d : j < i /\ Removes(d[j], k)
    <3>1. PICK y \in Under(e.under) :
              \/ d[i] = Sweep(Below(inner, y), "")
              \/ i > 1 /\ d[i] = Drop(y) /\ d[i - 1] = Sweep(Below(inner, y), "")
      BY <2>2, Zenon
    <3>2. d[i] # Sweep(Below(inner, y), "")
      <4>1. Drop(x).do = "delete" /\ Sweep(Below(inner, y), "").do = "sweep"
        BY DEF Drop, Sweep
      <4>2. Drop(x) # Sweep(Below(inner, y), "")
        BY <4>1
      <4>3. QED
        BY <2>7, <4>2, Zenon
    <3>3. i > 1 /\ d[i] = Drop(y) /\ d[i - 1] = Sweep(Below(inner, y), "")
      BY <3>1, <3>2, Zenon
    <3>4. x = y
      <4>1. Drop(x).key = x /\ Drop(y).key = y
        BY DEF Drop
      <4>2. Drop(x) = Drop(y)
        BY <2>7, <3>3
      <4>3. QED
        BY <4>1, <4>2, Zenon
    <3>5. PICK a : y = <<kind, s, a>> /\ Below(inner, y) = <<inner, s, a>>
      BY <2>4
    <3>6. /\ kind = "apimanagement.apis" => y = Api(s, a)
          /\ kind = "apimanagement.products" => y = Product(s, a)
      BY <3>5 DEF Api, Product
    <3>7. IsStrictPrefix(<<inner, s, a>>, k)
      BY <1>1, <1>3, <2>7, <3>4, <3>6, LiesUnder
    <3>8. Removes(d[i - 1], k)
      <4>1. PICK f : f = Sweep(<<inner, s, a>>, "")
        BY Zenon
      <4>2. f.do = "sweep" /\ f.under = <<inner, s, a>>
        BY <4>1, Zenon DEF Sweep
      <4>3. Removes(f, k)
        BY <3>7, <4>2 DEF Removes
      <4>4. QED
        BY <3>3, <3>5, <4>1, <4>3, Zenon
    <3>9. i - 1 \in DOMAIN d /\ i - 1 < i
      <4>1. DOMAIN d = 1..Len(d) /\ Len(d) \in Nat
        BY <2>2, ListShape, Zenon
      <4>2. PICK N \in Nat : DOMAIN d = 1..N
        BY <4>1, Zenon
      <4>3. i \in 1..N /\ i > 1
        BY <2>7, <3>3, <4>2, Zenon
      <4>4. i - 1 \in 1..N /\ i - 1 < i
        BY <4>2, <4>3
      <4>5. QED
        BY <4>2, <4>4
    <3>10. QED
      BY <3>8, <3>9
  <2>8. QED
    BY <2>2, <2>6, <2>7, Zenon
<1>4. QED
  BY <1>2, <1>3, Zenon DEF SweepForm

LEMMA SweptOrderly ==
  ASSUME FormInv, mode' = mode, NEW t, NEW u, Orderly(t), Swept(t, u), Agenda' = u
  PROVE  Orderly(Agenda)'
<1>1. PICK n \in Nat \ {0} : n = Len(t)
  BY Zenon DEF Swept
<1>2. PICK e, d : e = t[1] /\ d = Deletions(t[1])
  OBVIOUS
<1>3. PICK m \in Nat : /\ DOMAIN d = 1..m
                       /\ DOMAIN u = 1..(m + (n - 1))
                       /\ \A i \in 1..m : u[i] = d[i]
                       /\ \A i \in 1..(n - 1) : u[m + i] = t[i + 1]
  BY <1>1, <1>2, Zenon DEF Swept
<1>4. DOMAIN t = 1..n /\ e.do = "sweep" /\ docs' = docs
  BY <1>1, <1>2 DEF Swept
<1>5. 1 \in DOMAIN t
  BY <1>4
<1>6. (\A j \in DOMAIN t : t[j].do \in {"delete", "sweep"}) /\ SweepForm(e)
  BY <1>2, <1>4, <1>5, SortOf DEF Orderly, SweepsLeaves
<1>7. /\ \A i \in DOMAIN d : d[i].do \in {"delete", "sweep"} /\ (d[i].do = "sweep" => SweepForm(d[i]))
      /\ \A i \in DOMAIN d : \A x : d[i] = Drop(x) =>
            \A k \in DOMAIN docs : Inside(k) /\ Holder(k) = x => \E j \in DOMAIN d : j < i /\ Removes(d[j], k)
      /\ \A k \in Under(e.under) : \E i \in DOMAIN d : d[i] = Drop(k)
  BY <1>2, <1>4, <1>6, SweepListed
<1>8. \A i \in DOMAIN u : i \in DOMAIN d \/ \E j \in 1..(n - 1) : i = m + j
  <2> SUFFICES ASSUME NEW i \in 1..(m + (n - 1)) PROVE i \in 1..m \/ \E j \in 1..(n - 1) : i = m + j
    BY <1>3, Zenon
  <2>1. i \notin 1..m => i - m \in 1..(n - 1) /\ i = m + (i - m)
    OBVIOUS
  <2>2. QED
    BY <2>1
<1>9. /\ \A i \in DOMAIN d : i \in DOMAIN u /\ u[i] = d[i]
      /\ \A i \in 1..(n - 1) : m + i \in DOMAIN u /\ u[m + i] = t[i + 1] /\ i + 1 \in DOMAIN t
  BY <1>3, <1>4
<1>10. \A i \in DOMAIN u : u[i].do \in {"delete", "sweep"} /\ (u[i].do = "sweep" => SweepForm(u[i]))
  BY <1>6, <1>7, <1>8, <1>9 DEF Orderly, SweepsLeaves
<1>11. OneSort(u) /\ SweepsLeaves(u)
  BY <1>10 DEF OneSort, SweepsLeaves
<1>12. \A i \in DOMAIN u : \A k, x : u[i] # Store(k, x)
  BY <1>10, WriteKinds
<1>13. \A k \in DOMAIN docs' : Inside(k) => Holder(k) \in DOMAIN docs'
  <2> SUFFICES ASSUME NEW k \in DOMAIN docs, Inside(k) PROVE Has(Holder(k))
    BY <1>4 DEF Has
  <2>1. \A j \in DOMAIN t : \A x : t[j] # Store(Holder(k), x)
    BY <1>6, WriteKinds
  <2>2. Homed(k, t, 0)
    BY DEF Orderly, StoredHomed
  <2>3. QED
    BY <2>1, <2>2, Zenon DEF Homed
<1>14. ASSUME NEW i \in DOMAIN u, NEW x, u[i] = Drop(x), NEW k \in DOMAIN docs', Inside(k), Holder(k) = x
       PROVE  \E j \in DOMAIN u : j < i /\ Removes(u[j], k)
  <2>1. CASE i \in DOMAIN d
    <3>1. PICK j \in DOMAIN d : j < i /\ Removes(d[j], k)
      BY <1>4, <1>7, <1>9, <1>14, <2>1
    <3>2. QED
      BY <1>9, <3>1
  <2>2. ASSUME NEW h \in 1..(n - 1), i = m + h
        PROVE  \E j \in DOMAIN u : j < i /\ Removes(u[j], k)
    <3>1. h + 1 \in DOMAIN t /\ t[h + 1] = Drop(x) /\ k \in DOMAIN docs
      BY <1>4, <1>9, <1>14, <2>2
    <3>2. PICK j \in DOMAIN t : j < h + 1 /\ Removes(t[j], k)
      BY <1>14, <3>1 DEF Orderly, DropsEmpty
    <3>3. CASE j = 1
      <4>1. e # Drop(k)
        BY <1>4 DEF Drop
      <4>2. k \in Under(e.under)
        BY <1>2, <3>1, <3>2, <3>3, <4>1 DEF Removes, Under
      <4>3. PICK l \in DOMAIN d : d[l] = Drop(k)
        BY <1>7, <4>2
      <4>4. l \in DOMAIN u /\ Removes(u[l], k)
        BY <1>9, <4>3 DEF Removes
      <4>5. l < i
        BY <1>3, <2>2, <4>3
      <4>6. QED
        BY <4>4, <4>5
    <3>4. CASE j # 1
      <4>1. j - 1 \in 1..(n - 1) /\ (j - 1) + 1 = j /\ m + (j - 1) < i
        BY <1>4, <2>2, <3>2, <3>4
      <4>2. m + (j - 1) \in DOMAIN u /\ u[m + (j - 1)] = t[j]
        BY <1>9, <4>1
      <4>3. QED
        BY <3>2, <4>1, <4>2
    <3>5. QED
      BY <3>3, <3>4
  <2>3. QED
    BY <1>8, <2>1, <2>2
<1>15. QED
  BY <1>11, <1>12, <1>13, <1>14, OrderlyNext, SMTT(30)

\* The first client's agenda is kept, and what is put has no holder.
LEMMA AsideOrderly ==
  ASSUME mode' = mode, Orderly(Agenda), Aside
  PROVE  Orderly(Agenda)'
<1>1. PICK t : t = Agenda
  OBVIOUS
<1>2. Agenda' = t /\ Orderly(t)
  BY <1>1 DEF Aside, Agenda, First
<1>3. \A k \in DOMAIN docs : k \in DOMAIN docs'
  BY Zenon DEF Aside
<1>4. \A k \in DOMAIN docs' : Inside(k) => k \in DOMAIN docs
  <2>1. \A k : Inside(k) => Head(k) # "eventgrid.eventsubscriptions"
    BY Kinds
  <2>2. QED
    BY <2>1 DEF Aside
<1>5. \A k, f : Homed(k, t, f) => \/ Holder(k) \in DOMAIN docs'
                                  \/ Head(k) = "aks.agentpools" /\ \E j \in DOMAIN t : j > f /\ \E d : t[j] = Store(Holder(k), d)
  BY <1>3, Zenon DEF Homed, Has
<1>6. \A k \in DOMAIN docs' : Inside(k) =>
         \/ Holder(k) \in DOMAIN docs'
         \/ Head(k) = "aks.agentpools" /\ \E j \in DOMAIN t : j > 0 /\ \E d : t[j] = Store(Holder(k), d)
  BY <1>2, <1>4, <1>5, Zenon DEF Orderly, StoredHomed
<1>7. \A i \in DOMAIN t : \A k, d : t[i] = Store(k, d) /\ Inside(k) =>
         \/ Holder(k) \in DOMAIN docs'
         \/ Head(k) = "aks.agentpools" /\ \E j \in DOMAIN t : j > i /\ \E x : t[j] = Store(Holder(k), x)
  BY <1>2, <1>5, Zenon DEF Orderly, PutsHomed
<1>8. \A i \in DOMAIN t : \A x : t[i] = Drop(x) =>
         \A k \in DOMAIN docs' : Inside(k) /\ Holder(k) = x => \E j \in DOMAIN t : j < i /\ Removes(t[j], k)
  BY <1>2, <1>4, Zenon DEF Orderly, DropsEmpty
<1>9. QED
  BY <1>2, <1>6, <1>7, <1>8, OrderlyNext DEF Orderly

LEMMA AnsweredOrderly ==
  ASSUME mode' = mode, NEW t, NEW u, Orderly(t), Answered(t, u), Agenda' = u
  PROVE  Orderly(Agenda)'
<1>1. 1 \in DOMAIN t /\ t[1].do = "deliver" /\ docs' = docs
  <2>1. PICK n \in Nat \ {0} : DOMAIN t = 1..n
    BY DEF Answered
  <2>2. 1 \in 1..n
    BY <2>1
  <2>3. QED
    BY <2>1, <2>2 DEF Answered
<1>2. \A j \in DOMAIN t : t[j].do = "deliver"
  BY <1>1, SortOf DEF Orderly
<1>3. \A k \in DOMAIN docs : Inside(k) => Has(Holder(k))
  <2>1. \A j \in DOMAIN t : \A k, d : t[j] # Store(k, d)
    BY <1>2, WriteKinds
  <2>2. QED
    BY <2>1, Zenon DEF Orderly, StoredHomed, Homed
<1>4. CASE u = <<>>
  BY <1>1, <1>3, <1>4, IdleOrderly
<1>5. ASSUME NEW k, NEW d, u = <<Store(k, d)>>, Head(k) \in {"eventgrid.eventsubscriptions", "monitor.actionGroups"}
      PROVE  Orderly(Agenda)'
  <2>1. PICK e : e = Store(k, d)
    OBVIOUS
  <2>2. DOMAIN u = {1} /\ u[1] = e
    BY <1>5, <2>1, SmallLists, Zenon
  <2>3. e.do = "put" /\ e.key = k
    BY <2>1 DEF Store
  <2>4. \A i \in DOMAIN u : u[i].do = "put" /\ u[i].key = k
    BY <2>2, <2>3
  <2>5. OneSort(u) /\ SweepsLeaves(u)
    BY <2>4 DEF OneSort, SweepsLeaves
  <2>6. \A i \in DOMAIN u : \A x : u[i] # Drop(x)
    BY <2>4, WriteKinds
  <2>7. \A i \in DOMAIN u : \A x, y : u[i] = Store(x, y) => x = k
    BY <2>4, WriteKinds
  <2>8. ~Inside(k)
    BY <1>5, Kinds
  <2>9. \A x \in DOMAIN docs' : Inside(x) => Holder(x) \in DOMAIN docs'
    BY <1>1, <1>3 DEF Has
  <2>10. QED
    BY <2>5, <2>6, <2>7, <2>8, <2>9, OrderlyNext
<1>6. QED
  BY <1>4, <1>5, Zenon DEF Answered

LEMMA CrashOrderly ==
  ASSUME Orderly(Agenda), Crash
  PROVE  Orderly(Agenda)'
<1>1. mode = "crashing" /\ mode' = mode /\ docs' = docs /\ calls' = [w \in Workers |-> Idle]
  BY DEF Crash
<1>2. Agenda' = <<>>
  BY <1>1, FirstIsAClient DEF Agenda, First, Idle
<1>3. \A k \in DOMAIN docs : Inside(k) => Has(Holder(k))
  <2>1. \A k : Inside(k) => Head(k) # "aks.agentpools"
    BY <1>1, KindSets DEF Inside
  <2>2. QED
    BY <2>1, Zenon DEF Orderly, StoredHomed, Homed
<1>4. QED
  BY <1>1, <1>2, <1>3, IdleOrderly

LEMMA RequestStep ==
  ASSUME FormInv, Orderly(Agenda), Request(First)
  PROVE  Orderly(Agenda)'
<1>1. \A verb, on, todo : Begin(First, verb, on, todo) =>
         Agenda = <<>> /\ docs' = docs /\ mode' = mode /\ Agenda' = todo
  <2> SUFFICES ASSUME NEW verb, NEW on, NEW todo, Begin(First, verb, on, todo)
               PROVE  Agenda = <<>> /\ docs' = docs /\ mode' = mode /\ Agenda' = todo
    OBVIOUS
  <2>1. ~Busy(First) /\ docs' = docs /\ mode' = mode /\ calls'[First].todo = todo
    BY FirstIsAClient, BeginEffect, Zenon DEF FormInv
  <2>2. QED
    BY <2>1 DEF Agenda, Busy, First
<1>2. PICK v, o, d : Begin(First, v, o, d)
  BY BeginsIdle
<1>3. StoredHomed(<<>>) /\ docs' = docs /\ mode' = mode
  BY <1>1, <1>2 DEF Orderly
<1>4. PICK verb, on, u : Begin(First, verb, on, u) /\ Orderly(u)
  BY <1>3, RequestOrderly
<1>5. Agenda' = u
  BY <1>1, <1>4
<1>6. \A k, f : Homed(k, u, f) => \/ Holder(k) \in DOMAIN docs'
                                  \/ Head(k) = "aks.agentpools" /\ \E j \in DOMAIN u : j > f /\ \E x : u[j] = Store(Holder(k), x)
  BY <1>3, Zenon DEF Homed, Has
<1>7. \A k \in DOMAIN docs' : Inside(k) =>
         \/ Holder(k) \in DOMAIN docs'
         \/ Head(k) = "aks.agentpools" /\ \E j \in DOMAIN u : j > 0 /\ \E x : u[j] = Store(Holder(k), x)
  BY <1>3, <1>4, <1>6, Zenon DEF Orderly, StoredHomed
<1>8. \A i \in DOMAIN u : \A k, x : u[i] = Store(k, x) /\ Inside(k) =>
         \/ Holder(k) \in DOMAIN docs'
         \/ Head(k) = "aks.agentpools" /\ \E j \in DOMAIN u : j > i /\ \E y : u[j] = Store(Holder(k), y)
  BY <1>4, <1>6, Zenon DEF Orderly, PutsHomed
<1>9. \A i \in DOMAIN u : \A x : u[i] = Drop(x) =>
         \A k \in DOMAIN docs' : Inside(k) /\ Holder(k) = x => \E j \in DOMAIN u : j < i /\ Removes(u[j], k)
  BY <1>3, <1>4, Zenon DEF Orderly, DropsEmpty
<1>10. QED
  BY <1>3, <1>4, <1>5, <1>7, <1>8, <1>9, OrderlyNext DEF Orderly

LEMMA InitOrderly == Init => Orderly(Agenda)
<1> SUFFICES ASSUME Init PROVE Orderly(Agenda)
  OBVIOUS
<1>1. Agenda = <<>>
  BY FirstIsAClient DEF Init, StoreInit, Agenda, Idle
<1>2. \A k \in DOMAIN docs : ~Inside(k)
  <2>1. \A k \in DOMAIN docs : Head(k) = "network.networkinterfaces"
    <3>1. CASE scenario = "machines"
      <4>1. DOMAIN docs = {NIC(n) : n \in NICNames}
        BY <3>1 DEF Init, Interfaces
      <4>2. \A n : Head(NIC(n)) = "network.networkinterfaces"
        BY Tuples DEF NIC
      <4>3. QED
        BY <4>1, <4>2
    <3>2. CASE scenario # "machines"
      <4>1. docs = <<>>
        BY <3>2 DEF Init
      <4>2. DOMAIN docs = {}
        BY <4>1
      <4>3. QED
        BY <4>2
    <3>3. QED
      BY <3>1, <3>2
  <2>2. QED
    BY <2>1, Kinds
<1>3. PICK t : t = <<>>
  OBVIOUS
<1>4. DOMAIN t = {}
  BY <1>3
<1>5. Orderly(t)
  BY <1>2, <1>4 DEF Orderly, StoredHomed, PutsHomed, DropsEmpty, SweepsLeaves, OneSort
<1>6. QED
  BY <1>1, <1>3, <1>5

LEMMA NextOrderly == FormInv /\ AloneInv /\ OrphanInv /\ [Next]_vars => OrphanInv'
<1> SUFFICES ASSUME FormInv, AloneInv, OrphanInv, [Next]_vars PROVE OrphanInv'
  OBVIOUS
<1>1. mode' = mode /\ (mode # "concurrent" => SoloStep)
  BY NextAlone
<1> SUFFICES ASSUME mode # "concurrent" PROVE Orderly(Agenda)'
  BY <1>1 DEF OrphanInv
<1>2. SoloStep /\ Orderly(Agenda)
  BY <1>1 DEF OrphanInv
<1>3. CASE Request(First)
  BY <1>2, <1>3, RequestStep
<1>4. CASE Write(First)
  <2>1. PICK t, u : t = Agenda /\ u = Agenda'
    OBVIOUS
  <2>2. Wrote(t, u) \/ Swept(t, u)
    BY <1>4, <2>1, SoloWrite
  <2>3. CASE Swept(t, u)
    BY <1>1, <1>2, <2>1, <2>3, SweptOrderly
  <2>4. CASE Wrote(t, u)
    <3>1. t[1].do = "put" \/ t[1].do = "delete"
      BY <2>4 DEF Wrote
    <3>2. QED
      BY <1>1, <1>2, <2>1, <2>4, <3>1, PutOrderly, DropOrderly
  <2>5. QED
    BY <2>2, <2>3, <2>4
<1>5. CASE Deliver(First)
  <2>1. PICK t, u : t = Agenda /\ u = Agenda'
    OBVIOUS
  <2>2. Answered(t, u)
    BY <1>5, <2>1, SoloDelivery
  <2>3. QED
    BY <1>1, <1>2, <2>1, <2>2, AnsweredOrderly
<1>6. CASE Crash
  BY <1>2, <1>6, CrashOrderly
<1>7. CASE Aside
  BY <1>1, <1>2, <1>7, AsideOrderly
<1>8. QED
  BY <1>2, <1>3, <1>4, <1>5, <1>6, <1>7 DEF SoloStep

LEMMA OrderHolds == Spec => [](FormInv /\ AloneInv /\ OrphanInv)
<1>1. Init => FormInv /\ AloneInv /\ OrphanInv
  BY InitForm, InitAlone, InitOrderly DEF OrphanInv
<1>2. FormInv /\ AloneInv /\ OrphanInv /\ [Next]_vars => FormInv' /\ AloneInv' /\ OrphanInv'
  BY NextForm, NextAlone, NextOrderly
<1>3. QED
  BY <1>1, <1>2, PTL DEF Spec

\* A deletion in cascade leaves nothing behind, wherever the process ends, for
\* any requests, names and clients: what lies in a document is swept before
\* the document, and the deletions a sweep becomes keep that order.  A cluster
\* whose PUT has ended is there with its pools.
THEOREM NoOrphans == Spec => []CascadeLeavesNoOrphans
<1>1. ASSUME FormInv, AloneInv, OrphanInv PROVE CascadeLeavesNoOrphans
  <2>1. ASSUME NEW k \in DOMAIN docs, mode # "concurrent", Inside(k),
               Head(k) # "aks.agentpools" \/ \A w \in Workers : ~Busy(w)
        PROVE  Has(Holder(k))
    <3>1. Homed(k, Agenda, 0)
      BY <1>1, <2>1 DEF OrphanInv, Orderly, StoredHomed
    <3>2. CASE Head(k) # "aks.agentpools"
      BY <3>1, <3>2 DEF Homed
    <3>3. CASE \A w \in Workers : ~Busy(w)
      <4>1. Agenda = <<>> /\ DOMAIN <<>> = {}
        BY <3>3, FirstIsAClient DEF Busy, Agenda
      <4>2. QED
        BY <3>1, <4>1 DEF Homed
    <3>4. QED
      BY <2>1, <3>2, <3>3
  <2>2. ASSUME NEW k \in DOMAIN docs, mode # "concurrent", Head(k) \in DOMAIN Outer PROVE Has(OuterOf(k))
    <3>1. Head(k) # "aks.agentpools" /\ Inside(k)
      BY <2>2, KindSets DEF Inside
    <3>2. QED
      BY <2>1, <2>2, <3>1 DEF Holder
  <2>3. ASSUME NEW k \in DOMAIN docs, mode = "serial", Head(k) = "aks.agentpools", \A w \in Workers : ~Busy(w)
        PROVE  Has(Cluster(k[2]))
    <3>1. Inside(k) /\ Holder(k) = Cluster(k[2])
      BY <2>3 DEF Inside, Holder
    <3>2. QED
      BY <2>1, <2>3, <3>1
  <2>4. QED
    BY <2>2, <2>3, Zenon DEF CascadeLeavesNoOrphans, OuterOf
<1>2. QED
  BY <1>1, OrderHolds, PTL

-----------------------------------------------------------------------------
(* The indexes of the data planes *)

\* Entry k of an index, with its document, leads to r.
Leads(k, d, r) ==
    \/ Head(k) = "cosmosdb.dataplane.containers" /\ \E g \in Groups : r = Container(g, k[2], k[3], k[4])
    \/ Head(k) = "eventgrid.dataplane.topics" /\ r = Topic(d.group, k[2])

\* The entry that a resource has in an index.
Marks(k, r) ==
    \/ \E g, a, d, n : r = Container(g, a, d, n) /\ k = ContainerEntity(a, d, n)
    \/ \E g, t : r = Topic(g, t) /\ k = DataPlaneTopic(t)

\* It leads to something stored, or is about to go.
EntriesLead(t) ==
    \A k \in DOMAIN docs : Head(k) \in Indexes =>
       (\E r \in DOMAIN docs : Leads(k, docs[k], r)) \/ \E i \in DOMAIN t : t[i] = Drop(k)

\* It is put after what it leads to.
EntriesFollow(t) ==
    \A i \in DOMAIN t : \A k, d : t[i] = Store(k, d) /\ Head(k) \in Indexes =>
       \E r : Leads(k, d, r) /\ (Has(r) \/ \E j \in DOMAIN t : j < i /\ \E x : t[j] = Store(r, x))

\* It goes after what it leads to.
EntriesGo(t) ==
    \A i \in DOMAIN t : \A k, r : t[i] = Drop(r) /\ Marks(k, r) => \E j \in DOMAIN t : j > i /\ t[j] = Drop(k)

Led(t) == EntriesLead(t) /\ EntriesFollow(t) /\ EntriesGo(t)

LedInv == mode = "serial" => Led(Agenda)

LEMMA MarkKinds ==
  /\ \A k, r : Marks(k, r) => Head(r) \in IndexedKinds
  /\ \A k, d, r : KeyForm(k) /\ Leads(k, d, r) => Marks(k, r)
  /\ \A a, d, n, k : k = ContainerEntity(a, d, n) => Head(k) = "cosmosdb.dataplane.containers" /\ k[2] = a /\ k[3] = d /\ k[4] = n
  /\ \A t, k : k = DataPlaneTopic(t) => Head(k) = "eventgrid.dataplane.topics" /\ k[2] = t
<1>1. /\ \A g, a, d, n : Head(Container(g, a, d, n)) = "cosmosdb.containers"
      /\ \A g, t : Head(Topic(g, t)) = "eventgrid.topics"
  BY Tuples DEF Container, Topic
<1>2. \A k, r : Marks(k, r) => Head(r) \in IndexedKinds
  BY <1>1 DEF Marks, IndexedKinds
<1>3. ASSUME NEW k, NEW d, NEW r, KeyForm(k), Leads(k, d, r) PROVE Marks(k, r)
  <2>1. CASE Head(k) = "cosmosdb.dataplane.containers" /\ \E g \in Groups : r = Container(g, k[2], k[3], k[4])
    <3>1. k = <<"cosmosdb.dataplane.containers", k[2], k[3], k[4]>>
      BY <1>3, <2>1 DEF KeyForm
    <3>2. k = ContainerEntity(k[2], k[3], k[4])
      BY <3>1, Zenon DEF ContainerEntity
    <3>3. QED
      BY <2>1, <3>2, Zenon DEF Marks
  <2>2. CASE Head(k) = "eventgrid.dataplane.topics" /\ r = Topic(d.group, k[2])
    <3>1. k = <<"eventgrid.dataplane.topics", k[2]>>
      BY <1>3, <2>2 DEF KeyForm
    <3>2. k = DataPlaneTopic(k[2])
      BY <3>1, Zenon DEF DataPlaneTopic
    <3>3. QED
      BY <2>2, <3>2, Zenon DEF Marks
  <2>3. QED
    BY <1>3, <2>1, <2>2 DEF Leads
<1>4. ASSUME NEW a, NEW d, NEW n, NEW k, k = ContainerEntity(a, d, n)
      PROVE  Head(k) = "cosmosdb.dataplane.containers" /\ k[2] = a /\ k[3] = d /\ k[4] = n
  BY <1>4 DEF ContainerEntity
<1>5. ASSUME NEW t, NEW k, k = DataPlaneTopic(t)
      PROVE  Head(k) = "eventgrid.dataplane.topics" /\ k[2] = t
  BY <1>5 DEF DataPlaneTopic
<1>6. QED
  BY <1>2, <1>3, <1>4, <1>5

\* What the next state's parts say of the indexes.
LEMMA LedNext ==
  ASSUME NEW u, Agenda' = u,
         \A k \in DOMAIN docs' : Head(k) \in Indexes =>
            (\E r \in DOMAIN docs' : Leads(k, docs'[k], r)) \/ \E i \in DOMAIN u : u[i] = Drop(k),
         \A i \in DOMAIN u : \A k, d : u[i] = Store(k, d) /\ Head(k) \in Indexes =>
            \E r : Leads(k, d, r) /\ (r \in DOMAIN docs' \/ \E j \in DOMAIN u : j < i /\ \E x : u[j] = Store(r, x)),
         EntriesGo(u)
  PROVE  Led(Agenda)'
<1>1. EntriesLead(Agenda)'
  BY Zenon DEF EntriesLead
<1>2. EntriesFollow(Agenda)'
  BY DEF EntriesFollow, Has
<1>3. EntriesGo(Agenda)'
  BY Zenon DEF EntriesGo
<1>4. QED
  BY <1>1, <1>2, <1>3 DEF Led

\* Writes that no index is about.
Unmarked(e) ==
    /\ e.do = "put" => Head(e.key) \notin Indexes
    /\ e.do = "delete" => Head(e.key) \notin IndexedKinds

LEMMA UnmarkedWrites ==
  ASSUME NEW t, \A i \in DOMAIN t : Unmarked(t[i])
  PROVE  /\ \A i \in DOMAIN t : \A k, d : t[i] = Store(k, d) => Head(k) \notin Indexes
         /\ EntriesGo(t)
<1>1. ASSUME NEW i \in DOMAIN t, NEW k, NEW d, t[i] = Store(k, d) PROVE Head(k) \notin Indexes
  <2>1. Store(k, d).do = "put" /\ Store(k, d).key = k
    BY DEF Store
  <2>2. Unmarked(Store(k, d))
    BY <1>1
  <2>3. QED
    BY <2>1, <2>2, Zenon DEF Unmarked
<1>2. ASSUME NEW i \in DOMAIN t, NEW r, t[i] = Drop(r) PROVE Head(r) \notin IndexedKinds
  <2>1. Drop(r).do = "delete" /\ Drop(r).key = r
    BY DEF Drop
  <2>2. Unmarked(Drop(r))
    BY <1>2
  <2>3. QED
    BY <2>1, <2>2, Zenon DEF Unmarked
<1>3. EntriesGo(t)
  BY <1>2, MarkKinds DEF EntriesGo
<1>4. QED
  BY <1>1, <1>3

LEMMA PutLed ==
  ASSUME FormInv, NEW t, NEW u, OneSort(t), Led(t), Wrote(t, u), t[1].do = "put", Agenda' = u
  PROVE  Led(Agenda)'
<1>1. PICK n \in Nat \ {0} : n = Len(t)
  BY Zenon DEF Wrote
<1>2. /\ DOMAIN t = 1..n /\ EntryForm(t[1]) /\ docs' = Applied(t[1])
      /\ DOMAIN u = 1..(n - 1)
      /\ \A i \in 1..(n - 1) : u[i] = t[i + 1]
  BY <1>1 DEF Wrote
<1>3. PICK x, d : t[1] = Store(x, d)
  BY <1>2, WriteKinds DEF EntryForm
<1>4. /\ DOMAIN docs' = DOMAIN docs \union {x} /\ docs'[x] = d
      /\ \A k \in DOMAIN docs : k # x => docs'[k] = docs[k]
  <2>1. PICK e : e = t[1]
    OBVIOUS
  <2>2. e.do = "put" /\ e.key = x /\ e.doc = d /\ docs' = Applied(e)
    BY <1>2, <1>3, <2>1 DEF Store
  <2>3. QED
    BY <2>2, AppliedPut
<1>5. 1 \in DOMAIN t /\ \A j \in DOMAIN t : t[j].do = "put"
  <2>1. 1 \in DOMAIN t
    BY <1>2
  <2>2. QED
    BY <2>1, SortOf
<1>6. \A j \in DOMAIN t : j # 1 => j - 1 \in DOMAIN u /\ u[j - 1] = t[j]
  BY <1>2
<1>7. \A i \in DOMAIN u : i \in Nat /\ i + 1 \in DOMAIN t /\ u[i] = t[i + 1]
  BY <1>2
<1>8. \A i \in DOMAIN t : \A y : t[i] # Drop(y)
  BY <1>5, WriteKinds
<1>9. ASSUME NEW k \in DOMAIN docs', Head(k) \in Indexes
      PROVE  \E r \in DOMAIN docs' : Leads(k, docs'[k], r)
  <2>1. CASE k = x
    <3>1. PICK r : Leads(x, d, r) /\ (Has(r) \/ \E j \in DOMAIN t : j < 1 /\ \E y : t[j] = Store(r, y))
      BY <1>3, <1>5, <1>9, <2>1 DEF Led, EntriesFollow
    <3>2. Has(r)
      BY <1>2, <3>1
    <3>3. QED
      BY <1>4, <2>1, <3>1, <3>2 DEF Has
  <2>2. CASE k # x
    <3>1. k \in DOMAIN docs /\ docs'[k] = docs[k]
      BY <1>4, <2>2
    <3>2. PICK r \in DOMAIN docs : Leads(k, docs[k], r)
      BY <1>8, <1>9, <3>1 DEF Led, EntriesLead
    <3>3. QED
      BY <1>4, <3>1, <3>2
  <2>3. QED
    BY <2>1, <2>2
<1>10. ASSUME NEW i \in DOMAIN u, NEW k, NEW y, u[i] = Store(k, y), Head(k) \in Indexes
       PROVE  \E r : Leads(k, y, r) /\ (r \in DOMAIN docs' \/ \E j \in DOMAIN u : j < i /\ \E z : u[j] = Store(r, z))
  <2>1. i \in Nat /\ i + 1 \in DOMAIN t /\ t[i + 1] = Store(k, y)
    BY <1>7, <1>10
  <2>2. PICK r : Leads(k, y, r) /\ (Has(r) \/ \E j \in DOMAIN t : j < i + 1 /\ \E z : t[j] = Store(r, z))
    BY <1>10, <2>1 DEF Led, EntriesFollow
  <2>3. CASE Has(r)
    BY <1>4, <2>2, <2>3 DEF Has
  <2>4. ASSUME NEW j \in DOMAIN t, j < i + 1, NEW z, t[j] = Store(r, z)
        PROVE  r \in DOMAIN docs' \/ \E h \in DOMAIN u : h < i /\ \E v : u[h] = Store(r, v)
    <3>1. CASE j = 1
      <4>1. Store(r, z).key = r /\ Store(x, d).key = x
        BY DEF Store
      <4>2. Store(r, z) = Store(x, d)
        BY <1>3, <2>4, <3>1
      <4>3. r = x
        BY <4>1, <4>2, Zenon
      <4>4. QED
        BY <1>4, <4>3
    <3>2. CASE j # 1
      <4>1. j - 1 \in DOMAIN u /\ u[j - 1] = Store(r, z)
        BY <1>6, <2>4, <3>2
      <4>2. j - 1 < i
        BY <1>2, <2>1, <2>4
      <4>3. QED
        BY <4>1, <4>2
    <3>3. QED
      BY <3>1, <3>2
  <2>5. QED
    BY <2>2, <2>3, <2>4
<1>11. EntriesGo(u)
  BY <1>7, <1>8 DEF EntriesGo
<1>12. QED
  BY <1>9, <1>10, <1>11, LedNext, SMTT(30)

LEMMA DropLed ==
  ASSUME FormInv, NEW t, NEW u, OneSort(t), Led(t), Wrote(t, u), t[1].do = "delete", Agenda' = u
  PROVE  Led(Agenda)'
<1>1. PICK n \in Nat \ {0} : n = Len(t)
  BY Zenon DEF Wrote
<1>2. /\ DOMAIN t = 1..n /\ EntryForm(t[1]) /\ docs' = Applied(t[1])
      /\ DOMAIN u = 1..(n - 1)
      /\ \A i \in 1..(n - 1) : u[i] = t[i + 1]
  BY <1>1 DEF Wrote
<1>3. PICK x : t[1] = Drop(x)
  BY <1>2, WriteKinds DEF EntryForm
<1>4. DOMAIN docs' = DOMAIN docs \ {x} /\ \A k \in DOMAIN docs' : docs'[k] = docs[k]
  <2>1. PICK e : e = t[1]
    OBVIOUS
  <2>2. e.do = "delete" /\ e.key = x /\ docs' = Applied(e)
    BY <1>2, <1>3, <2>1 DEF Drop
  <2>3. QED
    BY <2>2, AppliedDelete
<1>5. 1 \in DOMAIN t /\ \A j \in DOMAIN t : t[j].do \in {"delete", "sweep"}
  <2>1. 1 \in DOMAIN t
    BY <1>2
  <2>2. QED
    BY <2>1, SortOf
<1>6. \A j \in DOMAIN t : j # 1 => j - 1 \in DOMAIN u /\ u[j - 1] = t[j]
  BY <1>2
<1>7. \A i \in DOMAIN u : i \in Nat /\ i + 1 \in DOMAIN t /\ u[i] = t[i + 1]
  BY <1>2
<1>8. ASSUME NEW k \in DOMAIN docs', NEW j \in DOMAIN t, t[j] = Drop(k) PROVE \E i \in DOMAIN u : u[i] = Drop(k)
  <2>1. j # 1
    <3>1. Drop(k).key = k /\ Drop(x).key = x /\ k # x
      BY <1>4 DEF Drop
    <3>2. QED
      BY <1>3, <1>8, <3>1, Zenon
  <2>2. QED
    BY <1>6, <1>8, <2>1
<1>9. ASSUME NEW k \in DOMAIN docs', Head(k) \in Indexes
      PROVE  (\E r \in DOMAIN docs' : Leads(k, docs'[k], r)) \/ \E i \in DOMAIN u : u[i] = Drop(k)
  <2>1. k \in DOMAIN docs /\ docs'[k] = docs[k] /\ KeyForm(k)
    BY <1>4 DEF FormInv, DocForm
  <2>2. ASSUME NEW r \in DOMAIN docs, Leads(k, docs[k], r), r = x PROVE \E i \in DOMAIN u : u[i] = Drop(k)
    <3>1. Marks(k, x)
      BY <2>1, <2>2, MarkKinds
    <3>2. \E j \in DOMAIN t : j > 1 /\ t[j] = Drop(k)
      BY <1>3, <1>5, <3>1 DEF Led, EntriesGo
    <3>3. QED
      BY <1>8, <3>2
  <2>3. ASSUME NEW r \in DOMAIN docs, Leads(k, docs[k], r), r # x PROVE \E s \in DOMAIN docs' : Leads(k, docs'[k], s)
    BY <1>4, <2>1, <2>3
  <2>4. (\E r \in DOMAIN docs : Leads(k, docs[k], r)) \/ \E j \in DOMAIN t : t[j] = Drop(k)
    BY <1>9, <2>1 DEF Led, EntriesLead
  <2>5. QED
    BY <1>8, <2>2, <2>3, <2>4
<1>10. \A i \in DOMAIN u : \A k, y : u[i] # Store(k, y)
  BY <1>5, <1>7, WriteKinds
<1>11. ASSUME NEW i \in DOMAIN u, NEW k, NEW r, u[i] = Drop(r), Marks(k, r)
       PROVE  \E j \in DOMAIN u : j > i /\ u[j] = Drop(k)
  <2>1. i \in Nat /\ i + 1 \in DOMAIN t /\ t[i + 1] = Drop(r)
    BY <1>7, <1>11
  <2>2. PICK j \in DOMAIN t : j > i + 1 /\ t[j] = Drop(k)
    BY <1>11, <2>1 DEF Led, EntriesGo
  <2>3. j \in Nat /\ j # 1 /\ j - 1 > i
    BY <1>2, <2>1, <2>2
  <2>4. QED
    BY <1>6, <2>2, <2>3
<1>12. EntriesGo(u)
  BY <1>11 DEF EntriesGo
<1>13. QED
  BY <1>9, <1>10, <1>12, LedNext, SMTT(30)

\* A sweep lists no resource that an index is about.
LEMMA SweepUnmarked ==
  ASSUME FormInv, NEW e, e.do = "sweep", SweepForm(e), NEW d, d = Deletions(e)
  PROVE  \A i \in DOMAIN d : \A x : d[i] = Drop(x) => Head(x) \notin IndexedKinds
<1>1. IsFiniteSet(DOMAIN docs) /\ \A k \in DOMAIN docs : IsList(k) /\ k # <<>>
  BY DEF FormInv, DocForm, KeyForm
<1>2. ASSUME NEW k \in Under(e.under) PROVE Head(k) \notin IndexedKinds
  <2>1. PICK p : p = e.under
    OBVIOUS
  <2>2. k \in DOMAIN docs /\ IsStrictPrefix(p, k) /\ IsList(k) /\ k # <<>>
    BY <1>1, <2>1 DEF Under
  <2>3. CASE IsList(p) /\ p # <<>> /\ Head(p) \in InnerKinds \ OuterKinds
    <3>1. Head(k) = k[1] /\ Head(p) = p[1] /\ Len(p) \in Nat \ {0}
      BY <2>2, <2>3, HeadIsFirst
    <3>2. \A j \in 1..Len(p) : k[j] = p[j]
      BY <2>2, <2>3, PrefixOfList
    <3>3. 1 \in 1..Len(p)
      BY <3>1
    <3>4. Head(k) \in InnerKinds
      BY <2>3, <3>1, <3>2, <3>3
    <3>5. QED
      BY <3>4, Kinds DEF IndexedKinds
  <2>4. ASSUME NEW s, NEW b, p = <<b, s>>, b \in {"apimanagement.apis", "apimanagement.products"}
        PROVE  Head(k) \notin IndexedKinds
    <3>1. Head(k) = b
      BY <2>2, <2>4, UnderNames
    <3>2. QED
      BY <2>4, <3>1 DEF IndexedKinds
  <2>5. \A u, i : Sweep(u, i).under = u
    BY DEF Sweep
  <2>6. \A s, b, i : e = Sweep(<<b, s>>, i) => p = <<b, s>>
    BY <2>1, <2>5
  <2>7. \/ IsList(p) /\ p # <<>> /\ Head(p) \in InnerKinds \ OuterKinds
        \/ \E s : p = <<"apimanagement.apis", s>>
        \/ \E s : p = <<"apimanagement.products", s>>
    BY <2>1, <2>6, Zenon DEF SweepForm
  <2>8. QED
    BY <2>3, <2>4, <2>7
<1>3. ASSUME NEW i \in DOMAIN d, NEW x, d[i] = Drop(x) PROVE x \in Under(e.under)
  <2>1. \E k \in Under(e.under) : d[i] = Drop(k) \/ d[i] = Sweep(Below(e.inner, k), "")
    <3>1. CASE e.inner = ""
      BY <1>1, <3>1, SweptOne, Zenon
    <3>2. CASE e.inner # ""
      BY <1>1, <3>2, SweptTwo, Zenon
    <3>3. QED
      BY <3>1, <3>2, Zenon
  <2>2. PICK k \in Under(e.under) : d[i] = Drop(k) \/ d[i] = Sweep(Below(e.inner, k), "")
    BY <2>1, Zenon
  <2>3. Drop(x).do = "delete" /\ Drop(x).key = x /\ Drop(k).key = k /\ Sweep(Below(e.inner, k), "").do = "sweep"
    BY DEF Drop, Sweep
  <2>4. x = k
    BY <1>3, <2>2, <2>3, Zenon
  <2>5. QED
    BY <2>4
<1>4. QED
  BY <1>2, <1>3

LEMMA SweptLed ==
  ASSUME FormInv, NEW t, NEW u, OneSort(t), SweepsLeaves(t), Led(t), Swept(t, u), Agenda' = u
  PROVE  Led(Agenda)'
<1>1. PICK n \in Nat \ {0} : n = Len(t)
  BY Zenon DEF Swept
<1>2. PICK e, d : e = t[1] /\ d = Deletions(t[1])
  OBVIOUS
<1>3. PICK m \in Nat : /\ DOMAIN d = 1..m
                       /\ DOMAIN u = 1..(m + (n - 1))
                       /\ \A i \in 1..m : u[i] = d[i]
                       /\ \A i \in 1..(n - 1) : u[m + i] = t[i + 1]
  BY <1>1, <1>2, Zenon DEF Swept
<1>4. DOMAIN t = 1..n /\ e.do = "sweep" /\ docs' = docs
  BY <1>1, <1>2 DEF Swept
<1>5. 1 \in DOMAIN t
  BY <1>4
<1>6. (\A j \in DOMAIN t : t[j].do \in {"delete", "sweep"}) /\ SweepForm(e)
  BY <1>2, <1>4, <1>5, SortOf DEF SweepsLeaves
<1>7. \A i \in DOMAIN d : \A x : d[i] = Drop(x) => Head(x) \notin IndexedKinds
  BY <1>2, <1>4, <1>6, SweepUnmarked
<1>8. \A i \in DOMAIN d : d[i].do \in {"delete", "sweep"}
  BY <1>2, <1>4, <1>6, SweepListed
<1>9. \A i \in DOMAIN u : i \in DOMAIN d \/ \E j \in 1..(n - 1) : i = m + j
  <2> SUFFICES ASSUME NEW i \in 1..(m + (n - 1)) PROVE i \in 1..m \/ \E j \in 1..(n - 1) : i = m + j
    BY <1>3
  <2>1. i \notin 1..m => i - m \in 1..(n - 1) /\ i = m + (i - m)
    OBVIOUS
  <2>2. QED
    BY <2>1
<1>10. /\ \A i \in DOMAIN d : i \in DOMAIN u /\ u[i] = d[i]
       /\ \A i \in 1..(n - 1) : m + i \in DOMAIN u /\ u[m + i] = t[i + 1] /\ i + 1 \in DOMAIN t
  BY <1>3, <1>4
<1>11. \A j \in DOMAIN t : j # 1 => j - 1 \in 1..(n - 1) /\ (j - 1) + 1 = j
  BY <1>4
<1>12. ASSUME NEW k \in DOMAIN docs', Head(k) \in Indexes
       PROVE  (\E r \in DOMAIN docs' : Leads(k, docs'[k], r)) \/ \E i \in DOMAIN u : u[i] = Drop(k)
  <2>1. ASSUME NEW j \in DOMAIN t, t[j] = Drop(k) PROVE \E i \in DOMAIN u : u[i] = Drop(k)
    <3>1. j # 1
      <4>1. Drop(k).do = "delete"
        BY DEF Drop
      <4>2. QED
        BY <1>2, <1>4, <2>1, <4>1
    <3>2. m + (j - 1) \in DOMAIN u /\ u[m + (j - 1)] = t[(j - 1) + 1]
      BY <1>10, <1>11, <3>1
    <3>3. QED
      BY <1>11, <2>1, <3>1, <3>2
  <2>2. (\E r \in DOMAIN docs : Leads(k, docs[k], r)) \/ \E j \in DOMAIN t : t[j] = Drop(k)
    BY <1>4, <1>12 DEF Led, EntriesLead
  <2>3. QED
    BY <1>4, <2>1, <2>2
<1>13. \A i \in DOMAIN u : \A k, x : u[i] # Store(k, x)
  <2>1. \A i \in DOMAIN u : u[i].do \in {"delete", "sweep"}
    BY <1>6, <1>8, <1>9, <1>10
  <2>2. QED
    BY <2>1, WriteKinds
<1>14. ASSUME NEW i \in DOMAIN u, NEW k, NEW r, u[i] = Drop(r), Marks(k, r)
       PROVE  \E j \in DOMAIN u : j > i /\ u[j] = Drop(k)
  <2>1. Head(r) \in IndexedKinds
    BY <1>14, MarkKinds
  <2>2. i \notin DOMAIN d
    BY <1>7, <1>10, <1>14, <2>1
  <2>3. PICK h \in 1..(n - 1) : i = m + h
    BY <1>9, <2>2
  <2>4. h + 1 \in DOMAIN t /\ t[h + 1] = Drop(r)
    BY <1>10, <1>14, <2>3
  <2>5. PICK j \in DOMAIN t : j > h + 1 /\ t[j] = Drop(k)
    BY <1>14, <2>4 DEF Led, EntriesGo
  <2>6. j \in Nat /\ j # 1 /\ m + (j - 1) > i
    BY <1>4, <2>3, <2>5
  <2>7. m + (j - 1) \in DOMAIN u /\ u[m + (j - 1)] = t[(j - 1) + 1]
    BY <1>10, <1>11, <2>6
  <2>8. u[m + (j - 1)] = Drop(k)
    BY <1>11, <2>5, <2>6, <2>7
  <2>9. QED
    BY <2>6, <2>7, <2>8
<1>15. EntriesGo(u)
  BY <1>14 DEF EntriesGo
<1>16. QED
  BY <1>12, <1>13, <1>15, LedNext, SMTT(30)

LEMMA AsideLed ==
  ASSUME Led(Agenda), Aside
  PROVE  Led(Agenda)'
<1>1. PICK t : t = Agenda
  OBVIOUS
<1>2. Agenda' = t /\ Led(t)
  BY <1>1 DEF Aside, Agenda, First
<1>3. /\ \A k \in DOMAIN docs : k \in DOMAIN docs'
      /\ \A k \in DOMAIN docs' : Head(k) \in Indexes => k \in DOMAIN docs /\ docs'[k] = docs[k]
  BY Zenon DEF Aside, Indexes
<1>4. \A k \in DOMAIN docs' : Head(k) \in Indexes =>
         (\E r \in DOMAIN docs' : Leads(k, docs'[k], r)) \/ \E i \in DOMAIN t : t[i] = Drop(k)
  <2> SUFFICES ASSUME NEW k \in DOMAIN docs', Head(k) \in Indexes
               PROVE  (\E r \in DOMAIN docs' : Leads(k, docs'[k], r)) \/ \E i \in DOMAIN t : t[i] = Drop(k)
    OBVIOUS
  <2>1. k \in DOMAIN docs /\ docs'[k] = docs[k]
    BY <1>3
  <2>2. (\E r \in DOMAIN docs : Leads(k, docs[k], r)) \/ \E i \in DOMAIN t : t[i] = Drop(k)
    BY <1>2, <2>1 DEF Led, EntriesLead
  <2>3. QED
    BY <1>3, <2>1, <2>2
<1>5. \A i \in DOMAIN t : \A k, d : t[i] = Store(k, d) /\ Head(k) \in Indexes =>
         \E r : Leads(k, d, r) /\ (r \in DOMAIN docs' \/ \E j \in DOMAIN t : j < i /\ \E x : t[j] = Store(r, x))
  BY <1>2, <1>3, ZenonT(40) DEF Led, EntriesFollow, Has
<1>6. QED
  BY <1>2, <1>4, <1>5, LedNext DEF Led

LEMMA AnsweredLed ==
  ASSUME NEW t, NEW u, OneSort(t), Led(t), Answered(t, u), Agenda' = u
  PROVE  Led(Agenda)'
<1>1. 1 \in DOMAIN t /\ t[1].do = "deliver" /\ docs' = docs
  <2>1. PICK n \in Nat \ {0} : DOMAIN t = 1..n
    BY DEF Answered
  <2>2. 1 \in 1..n
    BY <2>1
  <2>3. QED
    BY <2>1, <2>2 DEF Answered
<1>2. \A j \in DOMAIN t : \A x : t[j] # Drop(x)
  <2>1. \A j \in DOMAIN t : t[j].do = "deliver"
    BY <1>1, SortOf
  <2>2. QED
    BY <2>1, WriteKinds
<1>3. \A k \in DOMAIN docs' : Head(k) \in Indexes => \E r \in DOMAIN docs' : Leads(k, docs'[k], r)
  BY <1>1, <1>2 DEF Led, EntriesLead
<1>4. \A i \in DOMAIN u : Unmarked(u[i])
  <2>1. CASE u = <<>>
    <3>1. DOMAIN u = {}
      BY <2>1
    <3>2. QED
      BY <3>1
  <2>2. ASSUME NEW k, NEW d, u = <<Store(k, d)>>, Head(k) \in {"eventgrid.eventsubscriptions", "monitor.actionGroups"}
        PROVE  \A i \in DOMAIN u : Unmarked(u[i])
    <3>1. PICK e : e = Store(k, d)
      OBVIOUS
    <3>2. DOMAIN u = {1} /\ u[1] = e
      BY <2>2, <3>1, SmallLists, Zenon
    <3>3. e.do = "put" /\ e.key = k
      BY <3>1 DEF Store
    <3>4. Unmarked(e)
      BY <2>2, <3>3 DEF Unmarked, Indexes
    <3>5. QED
      BY <3>2, <3>4
  <2>3. QED
    BY <2>1, <2>2, Zenon DEF Answered
<1>5. (\A i \in DOMAIN u : \A k, d : u[i] = Store(k, d) => Head(k) \notin Indexes) /\ EntriesGo(u)
  BY <1>4, UnmarkedWrites
<1>6. QED
  BY <1>3, <1>5, LedNext

-----------------------------------------------------------------------------
(* Requests and the indexes *)

\* What a request leaves to write, for the indexes.
TodoLed(todo) == EntriesFollow(todo) /\ EntriesGo(todo)

LEMMA UnmarkedLed ==
  ASSUME NEW t, \A i \in DOMAIN t : Unmarked(t[i])
  PROVE  TodoLed(t)
<1>1. (\A i \in DOMAIN t : \A k, d : t[i] = Store(k, d) => Head(k) \notin Indexes) /\ EntriesGo(t)
  BY UnmarkedWrites
<1>2. QED
  BY <1>1, Zenon DEF TodoLed, EntriesFollow

LEMMA UnmarkedEach ==
  /\ \A k, d : Head(k) \notin Indexes => Unmarked(Store(k, d))
  /\ \A k : Head(k) \notin IndexedKinds => Unmarked(Drop(k))
  /\ \A u, i : Unmarked(Sweep(u, i))
  /\ \A k : Unmarked(Post(k))
<1>1. /\ \A k, d : Store(k, d).do = "put" /\ Store(k, d).key = k
      /\ \A k : Drop(k).do = "delete" /\ Drop(k).key = k
      /\ \A u, i : Sweep(u, i).do = "sweep"
      /\ \A k : Post(k).do = "deliver"
  BY WriteKinds
<1>2. "put" # "delete" /\ "sweep" # "put" /\ "sweep" # "delete" /\ "deliver" # "put" /\ "deliver" # "delete"
  OBVIOUS
<1>3. QED
  BY <1>1, <1>2, Zenon DEF Unmarked

LEMMA UnmarkedLists ==
  /\ \A a : Unmarked(a) => TodoLed(<<a>>)
  /\ \A a, b : Unmarked(a) /\ Unmarked(b) => TodoLed(<<a, b>>)
  /\ \A a, b, c, d : Unmarked(a) /\ Unmarked(b) /\ Unmarked(c) /\ Unmarked(d) => TodoLed(<<a, b, c, d>>)
<1>1. ASSUME NEW a, Unmarked(a) PROVE TodoLed(<<a>>)
  <2>1. PICK t : t = <<a>>
    BY Zenon
  <2>2. DOMAIN t = {1} /\ t[1] = a
    BY <2>1, SmallLists
  <2>3. \A i \in DOMAIN t : Unmarked(t[i])
    BY <1>1, <2>2
  <2>4. QED
    BY <2>1, <2>3, UnmarkedLed
<1>2. ASSUME NEW a, NEW b, Unmarked(a), Unmarked(b) PROVE TodoLed(<<a, b>>)
  <2>1. PICK t : t = <<a, b>>
    BY Zenon
  <2>2. DOMAIN t = {1, 2} /\ t[1] = a /\ t[2] = b
    BY <2>1, SmallLists
  <2>3. \A i \in DOMAIN t : Unmarked(t[i])
    BY <1>2, <2>2
  <2>4. QED
    BY <2>1, <2>3, UnmarkedLed
<1>3. ASSUME NEW a, NEW b, NEW c, NEW d, Unmarked(a), Unmarked(b), Unmarked(c), Unmarked(d)
      PROVE  TodoLed(<<a, b, c, d>>)
  <2>1. PICK t : t = <<a, b, c, d>>
    BY Zenon
  <2>2. DOMAIN t = {1, 2, 3, 4} /\ t[1] = a /\ t[2] = b /\ t[3] = c /\ t[4] = d
    BY <2>1, SmallLists
  <2>3. \A i \in DOMAIN t : Unmarked(t[i])
    BY <1>3, <2>2
  <2>4. QED
    BY <2>1, <2>3, UnmarkedLed
<1>4. QED
  BY <1>1, <1>2, <1>3

\* A resource, then its entry.
LEMMA FollowLed ==
  ASSUME NEW k, NEW d, NEW r, NEW x, Leads(k, d, r), Head(r) \notin Indexes
  PROVE  TodoLed(<<Store(r, x), Store(k, d)>>)
<1>1. PICK e, f, t : e = Store(r, x) /\ f = Store(k, d) /\ t = <<e, f>>
  BY Zenon
<1>2. DOMAIN t = {1, 2} /\ t[1] = e /\ t[2] = f
  BY <1>1, SmallLists
<1>3. e.do = "put" /\ e.key = r /\ f.do = "put" /\ f.key = k /\ f.doc = d
  BY <1>1 DEF Store
<1>4. ASSUME NEW i \in DOMAIN t, NEW y, NEW z, t[i] = Store(y, z), Head(y) \in Indexes
      PROVE  \E s : Leads(y, z, s) /\ \E j \in DOMAIN t : j < i /\ \E v : t[j] = Store(s, v)
  <2>1. Store(y, z).key = y /\ Store(y, z).doc = z
    BY DEF Store
  <2>2. i = 2
    BY <1>2, <1>3, <1>4, <2>1
  <2>3. y = k /\ z = d
    BY <1>2, <1>3, <1>4, <2>1, <2>2
  <2>4. 1 \in DOMAIN t /\ 1 < i
    BY <1>2, <2>2, OneBeforeTwo, Zenon
  <2>5. QED
    BY <1>1, <1>2, <2>3, <2>4, Zenon
<1>5. EntriesFollow(t)
  BY <1>4 DEF EntriesFollow
<1>6. \A i \in DOMAIN t : \A y : t[i] # Drop(y)
  BY <1>2, <1>3, WriteKinds
<1>7. EntriesGo(t)
  BY <1>6, Zenon DEF EntriesGo
<1>8. QED
  BY <1>1, <1>5, <1>7 DEF TodoLed

LEMMA TwoAfterOne == \A D, i : D = {1, 2} /\ i = 1 => 2 \in D /\ 2 > i
OBVIOUS

\* A resource goes, then its only entry, which is no resource.
LEMMA GoLed ==
  ASSUME NEW r, NEW k, \A y : Marks(y, r) => y = k, Head(k) \notin IndexedKinds
  PROVE  TodoLed(<<Drop(r), Drop(k)>>)
<1>1. PICK e, f, t : e = Drop(r) /\ f = Drop(k) /\ t = <<e, f>>
  BY Zenon
<1>2. DOMAIN t = {1, 2} /\ t[1] = e /\ t[2] = f
  BY <1>1, SmallLists
<1>3. e.do = "delete" /\ e.key = r /\ f.do = "delete" /\ f.key = k
  BY <1>1 DEF Drop
<1>4. ASSUME NEW i \in DOMAIN t, NEW y, NEW s, t[i] = Drop(s), Marks(y, s)
      PROVE  \E j \in DOMAIN t : j > i /\ t[j] = Drop(y)
  <2>1. Drop(s).key = s
    BY DEF Drop
  <2>2. Head(s) \in IndexedKinds
    BY <1>4, MarkKinds
  <2>3. i = 1
    BY <1>2, <1>3, <1>4, <2>1, <2>2
  <2>4. s = r
    BY <1>2, <1>3, <1>4, <2>1, <2>3
  <2>5. y = k
    BY <1>4, <2>4
  <2>6. 2 \in DOMAIN t /\ 2 > i
    BY <1>2, <2>3, TwoAfterOne, Zenon
  <2>7. QED
    BY <1>1, <1>2, <2>5, <2>6, Zenon
<1>5. EntriesGo(t)
  BY <1>4, Zenon DEF EntriesGo
<1>6. \A i \in DOMAIN t : \A y, z : t[i] # Store(y, z)
  BY <1>2, <1>3, WriteKinds
<1>7. EntriesFollow(t)
  BY <1>6, Zenon DEF EntriesFollow
<1>8. QED
  BY <1>1, <1>5, <1>7 DEF TodoLed

LEMMA RequestLed ==
  ASSUME FormInv, NEW c, Request(c)
  PROVE  \E verb, on, todo : Begin(c, verb, on, todo) /\ TodoLed(todo)
<1>1. /\ \A k, d : Head(k) \notin Indexes => TodoLed(<<Store(k, d)>>)
      /\ \A k : Head(k) \notin IndexedKinds => TodoLed(<<Drop(k)>>)
      /\ \A k, u, i : Head(k) \notin IndexedKinds => TodoLed(<<Sweep(u, i), Drop(k)>>)
      /\ \A k, x : Head(k) \notin IndexedKinds /\ Head(x) \notin IndexedKinds => TodoLed(<<Drop(k), Drop(x)>>)
      /\ \A k : TodoLed(<<Post(k)>>)
  BY UnmarkedLists, UnmarkedEach, Zenon
<1>2. CASE OnePut(c)
  <2>1. PICK verb, k, d : Begin(c, verb, k, <<Store(k, d)>>) /\ Head(k) \notin Indexes \union IndexedKinds \union {"aks.managedclusters"}
    BY <1>2, Zenon DEF OnePut
  <2>2. Head(k) \notin Indexes
    BY <2>1
  <2>3. QED
    BY <1>1, <2>1, <2>2, Zenon
<1>3. CASE OneDrop(c)
  <2>1. PICK k : Begin(c, "delete", k, <<Drop(k)>>) /\ Head(k) \notin Indexes \union IndexedKinds \union OuterKinds
    BY <1>3, Zenon DEF OneDrop
  <2>2. Head(k) \notin IndexedKinds
    BY <2>1
  <2>3. QED
    BY <1>1, <2>1, <2>2, Zenon
<1>4. CASE EntryPut(c) \/ EntryDrop(c)
  <2>1. PICK verb, k, name, d : Begin(c, verb, Append(k, name), <<Store(k, d)>>) /\ Head(k) \in NestedKinds
    BY <1>4, EntryWrites, Zenon DEF EntryWrite
  <2>2. Head(k) \notin Indexes
    BY <2>1, KindSets DEF Indexes
  <2>3. QED
    BY <1>1, <2>1, <2>2, Zenon
<1>5. ASSUME NEW g \in Groups, NEW a, NEW d, NEW n, NEW paths, PutContainer(c, g, a, d, n, paths)
      PROVE  \E verb, on, todo : Begin(c, verb, on, todo) /\ TodoLed(todo)
  <2>1. PICK r, k : r = Container(g, a, d, n) /\ k = ContainerEntity(a, d, n)
    OBVIOUS
  <2>2. Head(k) = "cosmosdb.dataplane.containers" /\ k[2] = a /\ k[3] = d /\ k[4] = n
    BY <2>1, MarkKinds
  <2>3. Leads(k, TRUE, r)
    BY <2>1, <2>2, Zenon DEF Leads
  <2>4. Head(r) \notin Indexes
    BY <2>1, Tuples DEF Container, Indexes
  <2>5. TodoLed(<<Store(r, [paths |-> paths]), Store(k, TRUE)>>)
    BY <2>3, <2>4, FollowLed
  <2>6. QED
    BY <1>5, <2>1, <2>5, Zenon DEF PutContainer
<1>6. ASSUME NEW g, NEW t, PutTopic(c, g, t)
      PROVE  \E verb, on, todo : Begin(c, verb, on, todo) /\ TodoLed(todo)
  <2>1. PICK r, k, d : r = Topic(g, t) /\ k = DataPlaneTopic(t) /\ d = [group |-> g]
    BY Zenon
  <2>2. Head(k) = "eventgrid.dataplane.topics" /\ k[2] = t /\ d.group = g
    BY <2>1, MarkKinds
  <2>3. Leads(k, d, r)
    BY <2>1, <2>2 DEF Leads
  <2>4. Head(r) \notin Indexes
    BY <2>1, Tuples DEF Topic, Indexes
  <2>5. TodoLed(<<Store(r, [schema |-> "EventGridSchema"]), Store(k, d)>>)
    BY <2>3, <2>4, FollowLed
  <2>6. QED
    BY <1>6, <2>1, <2>5, Zenon DEF PutTopic
<1>7. ASSUME NEW g, NEW a, NEW d, NEW n, DeleteContainer(c, g, a, d, n)
      PROVE  \E verb, on, todo : Begin(c, verb, on, todo) /\ TodoLed(todo)
  <2>1. PICK r, k : r = Container(g, a, d, n) /\ k = ContainerEntity(a, d, n)
    OBVIOUS
  <2>2. /\ \A h, x, y, z : Container(h, x, y, z) = Container(g, a, d, n) => x = a /\ y = d /\ z = n
        /\ \A h, x : Topic(h, x) # Container(g, a, d, n)
    BY DEF Container, Topic
  <2>3. \A y : Marks(y, r) => y = k
    BY <2>1, <2>2 DEF Marks
  <2>4. Head(k) \notin IndexedKinds
    BY <2>1, MarkKinds DEF IndexedKinds
  <2>5. TodoLed(<<Drop(r), Drop(k)>>)
    BY <2>3, <2>4, GoLed
  <2>6. QED
    BY <1>7, <2>1, <2>5, Zenon DEF DeleteContainer
<1>8. ASSUME NEW g, NEW t, DeleteTopic(c, g, t)
      PROVE  \E verb, on, todo : Begin(c, verb, on, todo) /\ TodoLed(todo)
  <2>1. PICK r, k : r = Topic(g, t) /\ k = DataPlaneTopic(t)
    OBVIOUS
  <2>2. /\ \A h, x : Topic(h, x) = Topic(g, t) => x = t
        /\ \A h, x, y, z : Topic(g, t) # Container(h, x, y, z)
    BY DEF Container, Topic
  <2>3. \A y : Marks(y, r) => y = k
    BY <2>1, <2>2 DEF Marks
  <2>4. Head(k) \notin IndexedKinds
    BY <2>1, MarkKinds DEF IndexedKinds
  <2>5. TodoLed(<<Drop(r), Drop(k)>>)
    BY <2>3, <2>4, GoLed
  <2>6. QED
    BY <1>8, <2>1, <2>5, Zenon DEF DeleteTopic
<1>9. CASE IndexedPut(c) \/ IndexedDrop(c)
  BY <1>5, <1>6, <1>7, <1>8, <1>9, Zenon DEF IndexedPut, IndexedDrop
<1>10. CASE Cascade(c)
  <2>1. /\ \A s : Head(ApimService(s)) \notin IndexedKinds
        /\ \A s, a : Head(Api(s, a)) \notin IndexedKinds /\ Head(Product(s, a)) \notin IndexedKinds
        /\ \A n : Head(BlobContainer(n)) \notin IndexedKinds
        /\ \A n : Head(Table(n)) \notin IndexedKinds /\ Head(Cluster(n)) \notin IndexedKinds
    BY Tuples DEF ApimService, Api, Product, BlobContainer, Table, Cluster, IndexedKinds
  <2>2. ASSUME NEW s, DeleteService(c, s)
        PROVE  \E verb, on, todo : Begin(c, verb, on, todo) /\ TodoLed(todo)
    <3>1. TodoLed(<<AllAPIs(s), AllProducts(s), AllSubscriptions(s), Drop(ApimService(s))>>)
      BY <2>1, UnmarkedLists, UnmarkedEach, Zenon DEF AllAPIs, AllProducts, AllSubscriptions
    <3>2. QED
      BY <2>2, <3>1, Zenon DEF DeleteService
  <2>3. QED
    BY <1>1, <1>10, <2>1, <2>2, Zenon DEF Cascade, DeleteAPI, DeleteProduct, DeleteBlobContainer, DeleteTable,
       DeleteManagedCluster, DeleteAgentPoolsForCluster
<1>11. ASSUME NEW s, DeleteSite(c, s) PROVE \E verb, on, todo : Begin(c, verb, on, todo) /\ TodoLed(todo)
  <2>1. Head(Site(s)) \notin IndexedKinds /\ Head(AppSettings(s)) \notin IndexedKinds
    BY Tuples DEF Site, AppSettings, IndexedKinds
  <2>2. QED
    BY <1>1, <1>11, <2>1, Zenon DEF DeleteSite
<1>12. ASSUME NEW a, CreateNotifications(c, a) PROVE \E verb, on, todo : Begin(c, verb, on, todo) /\ TodoLed(todo)
  BY <1>1, <1>12, Zenon DEF CreateNotifications
<1>13. CASE ClusterPut(c)
  <2>1. PICK k, todo : Begin(c, "put", Cluster(k), todo) /\ ClusterWrites(k, todo)
    BY <1>13, ClusterPutWrites
  <2>2. Len(todo) \in Nat \ {0} /\ DOMAIN todo = 1..Len(todo)
    BY <2>1, ListShape, SMTT(30) DEF ClusterWrites
  <2>3. PICK n \in Nat \ {0} : n = Len(todo)
    BY <2>2, Zenon
  <2>4. \A i \in DOMAIN todo : i \in 1..(n - 1) \/ i = n
    BY <2>2, <2>3
  <2>5. /\ \A i \in 1..(n - 1) : \E p, d : todo[i] = Store(AgentPool(k, p), d)
        /\ \E d : todo[n] = Store(Cluster(k), d)
    BY <2>1, <2>3, Zenon DEF ClusterWrites
  <2>6. (\A p : Head(AgentPool(k, p)) \notin Indexes) /\ Head(Cluster(k)) \notin Indexes
    BY Tuples DEF AgentPool, Cluster, Indexes
  <2>7. (\A p, d : Unmarked(Store(AgentPool(k, p), d))) /\ \A d : Unmarked(Store(Cluster(k), d))
    BY <2>6, UnmarkedEach, Zenon
  <2>8. \A i \in DOMAIN todo : Unmarked(todo[i])
    BY <2>4, <2>5, <2>7, Zenon
  <2>9. QED
    BY <2>1, <2>8, UnmarkedLed, Zenon
<1>14. QED
  BY <1>2, <1>3, <1>4, <1>9, <1>10, <1>11, <1>12, <1>13, Zenon DEF Request

LEMMA RequestStepLed ==
  ASSUME FormInv, Led(Agenda), Request(First)
  PROVE  Led(Agenda)'
<1>1. PICK verb, on, u : Begin(First, verb, on, u) /\ TodoLed(u)
  BY RequestLed
<1>2. ~Busy(First) /\ docs' = docs /\ calls'[First].todo = u
  BY <1>1, FirstIsAClient, BeginEffect, Zenon DEF FormInv
<1>3. Agenda = <<>> /\ Agenda' = u /\ DOMAIN <<>> = {}
  BY <1>2 DEF Agenda, Busy, First
<1>4. \A k \in DOMAIN docs' : Head(k) \in Indexes => \E r \in DOMAIN docs' : Leads(k, docs'[k], r)
  BY <1>2, <1>3 DEF Led, EntriesLead
<1>5. \A i \in DOMAIN u : \A k, d : u[i] = Store(k, d) /\ Head(k) \in Indexes =>
         \E r : Leads(k, d, r) /\ (r \in DOMAIN docs' \/ \E j \in DOMAIN u : j < i /\ \E x : u[j] = Store(r, x))
  BY <1>1, <1>2 DEF TodoLed, EntriesFollow, Has
<1>6. QED
  BY <1>1, <1>3, <1>4, <1>5, LedNext DEF TodoLed

LEMMA InitLed == Init => Led(Agenda)
<1> SUFFICES ASSUME Init PROVE Led(Agenda)
  OBVIOUS
<1>1. Agenda = <<>>
  BY FirstIsAClient DEF Init, StoreInit, Agenda, Idle
<1>2. \A k \in DOMAIN docs : Head(k) \notin Indexes
  <2>1. CASE scenario = "machines"
    <3>1. DOMAIN docs = {NIC(n) : n \in NICNames}
      BY <2>1 DEF Init, Interfaces
    <3>2. \A n : Head(NIC(n)) = "network.networkinterfaces"
      BY Tuples DEF NIC
    <3>3. QED
      BY <3>1, <3>2 DEF Indexes
  <2>2. CASE scenario # "machines"
    <3>1. docs = <<>>
      BY <2>2 DEF Init
    <3>2. DOMAIN docs = {}
      BY <3>1
    <3>3. QED
      BY <3>2
  <2>3. QED
    BY <2>1, <2>2
<1>3. PICK t : t = <<>>
  OBVIOUS
<1>4. DOMAIN t = {}
  BY <1>3
<1>5. Led(t)
  BY <1>2, <1>4 DEF Led, EntriesLead, EntriesFollow, EntriesGo
<1>6. QED
  BY <1>1, <1>3, <1>5

LEMMA NextLed == FormInv /\ AloneInv /\ OrphanInv /\ LedInv /\ [Next]_vars => LedInv'
<1> SUFFICES ASSUME FormInv, AloneInv, OrphanInv, LedInv, [Next]_vars PROVE LedInv'
  OBVIOUS
<1>1. mode' = mode /\ (mode # "concurrent" => SoloStep)
  BY NextAlone
<1> SUFFICES ASSUME mode = "serial" PROVE Led(Agenda)'
  BY <1>1 DEF LedInv
<1>2. SoloStep /\ Orderly(Agenda) /\ Led(Agenda)
  BY <1>1 DEF OrphanInv, LedInv
<1>3. CASE Request(First)
  BY <1>2, <1>3, RequestStepLed
<1>4. CASE Write(First)
  <2>1. PICK t, u : t = Agenda /\ u = Agenda'
    OBVIOUS
  <2>2. Wrote(t, u) \/ Swept(t, u)
    BY <1>4, <2>1, SoloWrite
  <2>3. OneSort(t) /\ SweepsLeaves(t) /\ Led(t)
    BY <1>2, <2>1 DEF Orderly
  <2>4. CASE Swept(t, u)
    BY <2>1, <2>3, <2>4, SweptLed
  <2>5. CASE Wrote(t, u)
    <3>1. t[1].do = "put" \/ t[1].do = "delete"
      BY <2>5 DEF Wrote
    <3>2. QED
      BY <2>1, <2>3, <2>5, <3>1, PutLed, DropLed
  <2>6. QED
    BY <2>2, <2>4, <2>5
<1>5. CASE Deliver(First)
  <2>1. PICK t, u : t = Agenda /\ u = Agenda'
    OBVIOUS
  <2>2. Answered(t, u)
    BY <1>5, <2>1, SoloDelivery
  <2>3. QED
    BY <1>2, <2>1, <2>2, AnsweredLed DEF Orderly
<1>6. CASE Crash
  BY <1>6 DEF Crash
<1>7. CASE Aside
  BY <1>2, <1>7, AsideLed
<1>8. QED
  BY <1>2, <1>3, <1>4, <1>5, <1>6, <1>7 DEF SoloStep

\* Between requests, an entry of a data plane's index leads to a stored
\* resource, for any names and groups: it is put after what it leads to, and
\* goes after it in the same call.
THEOREM IndexesLead == Spec => []IndexLeadsToStored
<1>1. ASSUME FormInv, LedInv PROVE IndexLeadsToStored
  <2> SUFFICES ASSUME mode = "serial", \A c \in Clients : ~Busy(c)
               PROVE  /\ \A k \in InBucket("cosmosdb.dataplane.containers") :
                            \E g \in Groups : Has(Container(g, k[2], k[3], k[4]))
                      /\ \A k \in InBucket("eventgrid.dataplane.topics") : Has(Topic(docs[k].group, k[2]))
    BY DEF IndexLeadsToStored
  <2>1. Agenda = <<>> /\ DOMAIN <<>> = {}
    BY FirstIsAClient DEF Busy, Agenda
  <2>2. \A k \in DOMAIN docs : Head(k) \in Indexes => \E r \in DOMAIN docs : Leads(k, docs[k], r)
    BY <1>1, <2>1 DEF LedInv, Led, EntriesLead
  <2>3. \A b : \A k \in InBucket(b) : k \in DOMAIN docs /\ Head(k) = b
    <3> SUFFICES ASSUME NEW b, NEW k \in InBucket(b) PROVE k \in DOMAIN docs /\ Head(k) = b
      OBVIOUS
    <3>1. k \in DOMAIN docs /\ IsStrictPrefix(<<b>>, k)
      BY DEF InBucket, Under
    <3>2. IsList(k) /\ k # <<>>
      BY <1>1, <3>1 DEF FormInv, DocForm, KeyForm
    <3>3. QED
      BY <3>1, <3>2, UnderNames
  <2>4. ASSUME NEW k \in InBucket("cosmosdb.dataplane.containers")
        PROVE  \E g \in Groups : Has(Container(g, k[2], k[3], k[4]))
    <3>1. k \in DOMAIN docs /\ Head(k) = "cosmosdb.dataplane.containers"
      BY <2>3
    <3>2. PICK r \in DOMAIN docs : Leads(k, docs[k], r)
      BY <2>2, <3>1 DEF Indexes
    <3>3. QED
      BY <3>1, <3>2 DEF Leads, Has
  <2>5. ASSUME NEW k \in InBucket("eventgrid.dataplane.topics") PROVE Has(Topic(docs[k].group, k[2]))
    <3>1. k \in DOMAIN docs /\ Head(k) = "eventgrid.dataplane.topics"
      BY <2>3
    <3>2. PICK r \in DOMAIN docs : Leads(k, docs[k], r)
      BY <2>2, <3>1 DEF Indexes
    <3>3. QED
      BY <3>1, <3>2 DEF Leads, Has
  <2>6. QED
    BY <2>4, <2>5
<1>2. Init => FormInv /\ AloneInv /\ OrphanInv /\ LedInv
  BY InitForm, InitAlone, InitOrderly, InitLed DEF OrphanInv, LedInv
<1>3. /\ FormInv /\ AloneInv /\ OrphanInv /\ LedInv /\ [Next]_vars
      => FormInv' /\ AloneInv' /\ OrphanInv' /\ LedInv'
  BY NextForm, NextAlone, NextOrderly, NextLed
<1>4. QED
  BY <1>1, <1>2, <1>3, PTL DEF Spec

-----------------------------------------------------------------------------
(* What PUTs keep *)

\* Calls that a document outlives.
Keeping(call) == (call.verb = "put" /\ Head(call.on) \in DOMAIN Lasting) \/ call.verb = "merge"

\* They put one document, which keeps what it should.
KeptInv ==
    mode # "concurrent" /\ Keeping(calls[First]) =>
       /\ calls[First].verb = "merge" => Head(calls[First].on) = "table.entities"
       /\ \E d : /\ Agenda = <<Store(calls[First].on, d)>>
                 /\ FieldsKept(calls[First].verb, calls[First].on, d)

\* A call like that, as it begins.
KeepingCall(verb, on, todo) ==
    (verb = "put" /\ Head(on) \in DOMAIN Lasting) \/ verb = "merge" =>
       /\ verb = "merge" => Head(on) = "table.entities"
       /\ \E d : todo = <<Store(on, d)>> /\ FieldsKept(verb, on, d)

LEMMA RequestKept ==
  ASSUME FormInv, NEW c, Request(c)
  PROVE  \E verb, on, todo : Begin(c, verb, on, todo) /\ KeepingCall(verb, on, todo)
<1>1. \A on, todo : KeepingCall("delete", on, todo) /\ KeepingCall("notify", on, todo)
  BY DEF KeepingCall
<1>2. \A on, todo : Head(on) \notin DOMAIN Lasting => KeepingCall("put", on, todo)
  BY DEF KeepingCall
<1>3. CASE OnePut(c)
  <2>1. PICK verb, k, d : /\ Begin(c, verb, k, <<Store(k, d)>>) /\ FieldsKept(verb, k, d)
                          /\ verb = "merge" => Head(k) = "table.entities"
    BY <1>3, Zenon DEF OnePut
  <2>2. KeepingCall(verb, k, <<Store(k, d)>>)
    BY <2>1, Zenon DEF KeepingCall
  <2>3. QED
    BY <2>1, <2>2
<1>4. CASE OneDrop(c)
  BY <1>1, <1>4, Zenon DEF OneDrop
<1>5. CASE EntryPut(c) \/ EntryDrop(c)
  <2>1. PICK verb, k, name, d : /\ Begin(c, verb, Append(k, name), <<Store(k, d)>>)
                                /\ Has(k) /\ Head(k) \in NestedKinds
                                /\ verb = "put" \/ verb = "delete"
    BY <1>5, EntryWrites, Zenon DEF EntryWrite
  <2>2. k = <<Head(k), k[2]>>
    BY <2>1 DEF FormInv, DocForm, KeyForm, Has
  <2>3. PICK a, b : k = <<a, b>> /\ a = Head(k)
    BY <2>2
  <2>4. Head(Append(k, name)) = a
    BY <2>3
  <2>5. Head(Append(k, name)) \notin DOMAIN Lasting
    BY <2>1, <2>3, <2>4, KindSets
  <2>6. QED
    BY <1>1, <1>2, <2>1, <2>5, Zenon
<1>6. /\ \A g, a, d, n : Head(Container(g, a, d, n)) \notin DOMAIN Lasting
      /\ \A g, t : Head(Topic(g, t)) \notin DOMAIN Lasting
      /\ \A k : Head(Cluster(k)) \notin DOMAIN Lasting
  BY Tuples, KindSets DEF Container, Topic, Cluster
<1>7. CASE IndexedPut(c) \/ IndexedDrop(c)
  BY <1>1, <1>2, <1>6, <1>7, Zenon DEF IndexedPut, IndexedDrop, PutContainer, PutTopic, DeleteContainer, DeleteTopic
<1>8. CASE Cascade(c)
  BY <1>1, <1>8, Zenon DEF Cascade, DeleteService, DeleteAPI, DeleteProduct, DeleteBlobContainer, DeleteTable,
     DeleteManagedCluster
<1>9. CASE ClusterPut(c)
  BY <1>2, <1>6, <1>9, ClusterPutWrites, Zenon
<1>10. CASE (\E s : DeleteSite(c, s)) \/ \E a : CreateNotifications(c, a)
  BY <1>1, <1>10, Zenon DEF DeleteSite, CreateNotifications
<1>11. QED
  BY <1>3, <1>4, <1>5, <1>7, <1>8, <1>9, <1>10, Zenon DEF Request

\* What a single put leaves.
LEMMA OnePutWritten ==
  ASSUME FormInv, NEW k, NEW d, Agenda = <<Store(k, d)>>
  PROVE  /\ ~Deliver(First)
         /\ Write(First) => /\ calls'[First] = Idle
                            /\ DOMAIN docs' = DOMAIN docs \union {k} /\ docs'[k] = d
                            /\ \A x \in DOMAIN docs : x # k => docs'[x] = docs[x]
<1>1. PICK t, e : t = Agenda /\ e = Store(k, d) /\ t = <<e>>
  OBVIOUS
<1>2. Len(t) = 1 /\ DOMAIN t = {1} /\ t[1] = e /\ e.do = "put" /\ e.key = k /\ e.doc = d
  <2>1. e.do = "put" /\ e.key = k /\ e.doc = d
    BY <1>1 DEF Store
  <2>2. QED
    BY <1>1, <2>1, SmallLists
<1>3. ~Deliver(First)
  <2>1. Deliver(First) => t[1].do = "deliver"
    BY <1>1, SoloDelivery DEF Answered
  <2>2. QED
    BY <1>2, <2>1
<1>4. ASSUME Write(First)
      PROVE  /\ calls'[First] = Idle
             /\ DOMAIN docs' = DOMAIN docs \union {k} /\ docs'[k] = d
             /\ \A x \in DOMAIN docs : x # k => docs'[x] = docs[x]
  <2>1. PICK u : u = Agenda'
    OBVIOUS
  <2>2. (Wrote(t, u) \/ Swept(t, u)) /\ (u = <<>> => calls'[First] = Idle)
    BY <1>1, <1>4, <2>1, SoloWrite
  <2>3. ~Swept(t, u)
    BY <1>2 DEF Swept
  <2>4. docs' = Applied(t[1]) /\ DOMAIN u = 1..(Len(t) - 1)
    BY <2>2, <2>3 DEF Wrote
  <2>5. docs' = Applied(e)
    BY <1>2, <2>4
  <2>6. DOMAIN u = {}
    BY <1>2, <2>4
  <2>7. u = <<>>
    <3>1. TodoForm(u)
      BY <1>4, <2>1, FirstIsAClient, WriteForm DEF FormInv, Agenda, First
    <3>2. IsList(u)
      BY <3>1 DEF TodoForm
    <3>3. PICK S : u \in Seq(S)
      BY <3>2 DEF IsList
    <3>4. QED
      BY <2>6, <3>3
  <2>8. QED
    BY <1>2, <2>2, <2>5, <2>7, AppliedPut, Zenon
<1>5. QED
  BY <1>3, <1>4

\* Nobody else's call is one of those.
LEMMA OthersKeepNothing ==
  ASSUME AloneInv, mode # "concurrent", NEW w \in Workers, calls[w].verb \in {"put", "merge", "delete"}
  PROVE  w = First
<1>1. Idle.verb = "none"
  BY DEF Idle
<1>2. CASE w \in Couriers
  BY <1>2 DEF AloneInv
<1>3. CASE w \in Clients
  BY <1>1, <1>3 DEF AloneInv
<1>4. QED
  BY <1>2, <1>3, FirstIsAClient

LEMMA NextKept == FormInv /\ AloneInv /\ KeptInv /\ [Next]_vars => KeptInv'
<1> SUFFICES ASSUME FormInv, AloneInv, KeptInv, [Next]_vars PROVE KeptInv'
  OBVIOUS
<1>1. mode' = mode /\ (mode # "concurrent" => SoloStep)
  BY NextAlone
<1> SUFFICES ASSUME mode # "concurrent", Keeping(calls'[First])
             PROVE  /\ calls'[First].verb = "merge" => Head(calls'[First].on) = "table.entities"
                    /\ \E d : /\ Agenda' = <<Store(calls'[First].on, d)>>
                              /\ (FieldsKept(calls[First].verb, calls[First].on, d))'
  BY <1>1 DEF KeptInv, Keeping, Store, First
<1>2. calls'[First] # Idle
  BY DEF Keeping, Idle
<1>3. CASE Request(First)
  <2>1. PICK verb, on, todo : Begin(First, verb, on, todo) /\ KeepingCall(verb, on, todo)
    BY <1>3, RequestKept
  <2>2. docs' = docs /\ calls'[First].verb = verb /\ calls'[First].on = on /\ calls'[First].todo = todo
    BY <2>1, FirstIsAClient, BeginEffect, Zenon DEF FormInv
  <2>3. Agenda' = todo
    BY <2>2 DEF Agenda, First
  <2>4. (verb = "merge" => Head(on) = "table.entities") /\ \E d : todo = <<Store(on, d)>> /\ FieldsKept(verb, on, d)
    BY <2>1, <2>2, Zenon DEF KeepingCall, Keeping
  <2>5. PICK d : todo = <<Store(on, d)>> /\ FieldsKept(verb, on, d)
    BY <2>4
  <2>6. (FieldsKept(calls[First].verb, calls[First].on, d))'
    BY <2>2, <2>5 DEF FieldsKept, Has, First
  <2>7. QED
    BY <2>2, <2>3, <2>4, <2>5, <2>6
<1>4. ASSUME Write(First) \/ Deliver(First) PROVE FALSE
  <2>1. calls'[First].verb = calls[First].verb /\ calls'[First].on = calls[First].on
    <3>1. CASE Write(First)
      BY <1>2, <3>1, SoloWrite
    <3>2. CASE Deliver(First)
      BY <1>2, <3>2, SoloDelivery
    <3>3. QED
      BY <1>4, <3>1, <3>2
  <2>2. Keeping(calls[First])
    BY <2>1 DEF Keeping
  <2>3. PICK d : Agenda = <<Store(calls[First].on, d)>>
    BY <2>2 DEF KeptInv
  <2>4. QED
    BY <1>2, <1>4, <2>3, OnePutWritten, Zenon
<1>5. CASE Crash
  <2>1. calls'[First] = Idle
    BY <1>5, FirstIsAClient DEF Crash
  <2>2. QED
    BY <1>2, <2>1
<1>6. CASE Aside
  <2>1. calls'[First] = calls[First] /\ Agenda' = Agenda
    BY <1>6 DEF Aside, Agenda, First
  <2>2. Keeping(calls[First])
    BY <2>1
  <2>3. PICK d : /\ Agenda = <<Store(calls[First].on, d)>>
                 /\ FieldsKept(calls[First].verb, calls[First].on, d)
                 /\ calls[First].verb = "merge" => Head(calls[First].on) = "table.entities"
    BY <2>2 DEF KeptInv
  <2>4. PICK k, v : k = calls[First].on /\ v = calls[First].verb
    OBVIOUS
  <2>5. Head(k) # "eventgrid.eventsubscriptions"
    BY <2>2, <2>3, <2>4, KindSets DEF Keeping
  <2>6. (k \in DOMAIN docs' <=> k \in DOMAIN docs) /\ (k \in DOMAIN docs => docs'[k] = docs[k])
    BY <1>6, <2>5, Zenon DEF Aside
  <2>7. (FieldsKept(calls[First].verb, calls[First].on, d))'
    BY <2>1, <2>3, <2>4, <2>6, Zenon DEF FieldsKept, Has, First
  <2>8. QED
    BY <2>1, <2>3, <2>7
<1>7. QED
  BY <1>1, <1>3, <1>4, <1>5, <1>6 DEF SoloStep

LEMMA InitKept == Init => KeptInv
<1> SUFFICES ASSUME Init PROVE KeptInv
  OBVIOUS
<1>1. calls[First] = Idle
  BY FirstIsAClient DEF Init, StoreInit
<1>2. ~Keeping(calls[First])
  BY <1>1 DEF Keeping, Idle
<1>3. QED
  BY <1>2 DEF KeptInv

\* Of the documents, a step while such a call is on writes that call's only.
LEMMA KeepingStep ==
  ASSUME FormInv, AloneInv, KeptInv, [Next]_vars, mode # "concurrent", Keeping(calls[First])
  PROVE  \E d : /\ FieldsKept(calls[First].verb, calls[First].on, d)
                /\ \A k \in DOMAIN docs \intersect DOMAIN docs' :
                      Head(k) \in DOMAIN Lasting \union {"table.entities"} =>
                         docs'[k] = docs[k] \/ (k = calls[First].on /\ docs'[k] = d)
<1>1. SoloStep
  BY NextAlone
<1>2. PICK on, d : /\ on = calls[First].on
                   /\ Agenda = <<Store(on, d)>>
                   /\ FieldsKept(calls[First].verb, on, d)
  BY DEF KeptInv
<1>3. ~Deliver(First)
  BY <1>2, OnePutWritten, Zenon
<1>4. CASE Request(First)
  <2>1. docs' = docs
    BY <1>4, FirstIsAClient, BeginsIdle, BeginEffect, Zenon DEF FormInv
  <2>2. QED
    BY <1>2, <2>1
<1>5. CASE Write(First)
  <2>1. docs'[on] = d /\ \A k \in DOMAIN docs : k # on => docs'[k] = docs[k]
    <3>1. Agenda = <<Store(on, d)>>
      BY <1>2
    <3>2. QED
      BY <1>5, <3>1, OnePutWritten, Zenon
  <2>2. \A k \in DOMAIN docs \intersect DOMAIN docs' : docs'[k] = docs[k] \/ (k = on /\ docs'[k] = d)
    BY <2>1
  <2>3. QED
    BY <1>2, <2>2, Zenon
<1>6. CASE Crash
  BY <1>2, <1>6 DEF Crash
<1>7. CASE Aside
  <2>1. \A k : Head(k) \in DOMAIN Lasting \union {"table.entities"} => Head(k) # "eventgrid.eventsubscriptions"
    BY KindSets
  <2>2. QED
    BY <1>2, <1>7, <2>1, Zenon DEF Aside
<1>8. QED
  BY <1>1, <1>3, <1>4, <1>5, <1>6, <1>7 DEF SoloStep

\* A PUT over a stored resource keeps what only its first one sets, and a
\* merge the properties that it does not name, for any requests: what such a
\* call has left to write was computed from the document that is still there.
THEOREM PutsKeep == Spec => KeptAcrossPuts
<1>1. ASSUME FormInv, AloneInv, KeptInv, [Next]_vars, mode # "concurrent",
             NEW k \in DOMAIN docs \intersect DOMAIN docs'
      PROVE  /\ Head(k) \in DOMAIN Lasting /\ (\E w \in Workers : calls[w].verb = "put" /\ calls[w].on = k) =>
                   docs'[k][Lasting[Head(k)]] = docs[k][Lasting[Head(k)]]
             /\ Head(k) = "table.entities" /\ (\E w \in Workers : calls[w].verb = "merge") =>
                   DOMAIN docs[k].properties \subseteq DOMAIN docs'[k].properties
  <2>1. ASSUME Head(k) \in DOMAIN Lasting, NEW w \in Workers, calls[w].verb = "put", calls[w].on = k
        PROVE  docs'[k][Lasting[Head(k)]] = docs[k][Lasting[Head(k)]]
    <3>1. w = First
      BY <1>1, <2>1, OthersKeepNothing
    <3>2. Keeping(calls[First])
      BY <2>1, <3>1 DEF Keeping
    <3>3. PICK d : FieldsKept("put", k, d) /\ (docs'[k] = docs[k] \/ docs'[k] = d)
      BY <1>1, <2>1, <3>1, <3>2, KeepingStep
    <3>4. QED
      BY <1>1, <2>1, <3>3 DEF FieldsKept, Has
  <2>2. ASSUME Head(k) = "table.entities", NEW w \in Workers, calls[w].verb = "merge"
        PROVE  DOMAIN docs[k].properties \subseteq DOMAIN docs'[k].properties
    <3>1. w = First
      BY <1>1, <2>2, OthersKeepNothing
    <3>2. Keeping(calls[First])
      BY <2>2, <3>1 DEF Keeping
    <3>3. PICK d : /\ FieldsKept("merge", calls[First].on, d)
                   /\ docs'[k] = docs[k] \/ (k = calls[First].on /\ docs'[k] = d)
      BY <1>1, <2>2, <3>1, <3>2, KeepingStep
    <3>4. QED
      BY <1>1, <3>3 DEF FieldsKept, Has
  <2>3. QED
    BY <2>1, <2>2
<1>2. FormInv /\ AloneInv /\ KeptInv /\ [Next]_vars =>
         [\A k \in DOMAIN docs \intersect DOMAIN docs' : mode # "concurrent" =>
             /\ Head(k) \in DOMAIN Lasting /\ (\E w \in Workers : calls[w].verb = "put" /\ calls[w].on = k) =>
                   docs'[k][Lasting[Head(k)]] = docs[k][Lasting[Head(k)]]
             /\ Head(k) = "table.entities" /\ (\E w \in Workers : calls[w].verb = "merge") =>
                   DOMAIN docs[k].properties \subseteq DOMAIN docs'[k].properties]_vars
  BY <1>1, Zenon
<1>3. Init => FormInv /\ AloneInv /\ KeptInv
  BY InitForm, InitAlone, InitKept
<1>4. FormInv /\ AloneInv /\ KeptInv /\ [Next]_vars => FormInv' /\ AloneInv' /\ KeptInv'
  BY NextForm, NextAlone, NextKept
<1>5. QED
  BY <1>2, <1>3, <1>4, PTL DEF Spec, KeptAcrossPuts

-----------------------------------------------------------------------------
(* What a request takes away *)

\* A resource is the one named, or one below it.
NamedBy(on, x) == IsList(on) /\ on # <<>> /\ IsPrefix(Tail(on), Tail(x))

\* A write that takes nothing but that; a document with a list is apart.
Spared(verb, on, e) ==
    /\ e.do = "put" => Head(e.key) \notin NestedKinds
    /\ e.do = "delete" /\ Head(e.key) \notin Indexes => verb = "delete" /\ NamedBy(on, e.key)
    /\ e.do = "sweep" => verb = "delete" /\ NamedBy(on, e.under) /\ IsList(e.under) /\ e.under # <<>>

\* The entries that the list loses are the one named.
Lossless(verb, on, x, d) ==
    Has(x) => \A n \in Names(Listed(x, docs[x])) \ Names(Listed(x, d)) : verb = "delete" /\ on = Append(x, n)

Spares(verb, on, t) ==
    \/ \A i \in DOMAIN t : Spared(verb, on, t[i])
    \/ \E x, d : t = <<Store(x, d)>> /\ Head(x) \in NestedKinds /\ Lossless(verb, on, x, d)

SurviveInv == mode # "concurrent" => Spares(calls[First].verb, calls[First].on, Agenda)

LEMMA TailOfList ==
  ASSUME NEW x, IsList(x), x # <<>>
  PROVE  /\ IsList(Tail(x)) /\ Len(x) \in Nat \ {0} /\ Len(Tail(x)) = Len(x) - 1
         /\ \A j \in 1..(Len(x) - 1) : Tail(x)[j] = x[j + 1]
<1>1. PICK S : x \in Seq(S)
  BY DEF IsList
<1>2. /\ Tail(x) \in Seq(S) /\ Len(x) \in Nat \ {0} /\ Len(Tail(x)) = Len(x) - 1
      /\ \A j \in 1..(Len(x) - 1) : Tail(x)[j] = x[j + 1]
  BY <1>1, SomethingLeft
<1>3. QED
  BY <1>2 DEF IsList

\* By positions: from the second name on.
LEMMA NamedByPosition ==
  ASSUME NEW on, IsList(on), on # <<>>, NEW x, IsList(x), x # <<>>
  PROVE  NamedBy(on, x) <=> Len(on) <= Len(x) /\ \A j \in 2..Len(on) : x[j] = on[j]
<1>1. PICK p, q : p = Tail(on) /\ q = Tail(x)
  BY Zenon
<1>2. PICK m \in Nat \ {0}, n \in Nat \ {0} : m = Len(on) /\ n = Len(x)
  BY TailOfList
<1>3. /\ IsList(p) /\ Len(p) = m - 1 /\ \A j \in 1..(m - 1) : p[j] = on[j + 1]
      /\ IsList(q) /\ Len(q) = n - 1 /\ \A j \in 1..(n - 1) : q[j] = x[j + 1]
  BY <1>1, <1>2, TailOfList
<1>4. IsPrefix(p, q) <=> m - 1 <= n - 1 /\ \A j \in 1..(m - 1) : q[j] = p[j]
  BY <1>3, PrefixOfList
<1>5. NamedBy(on, x) <=> IsPrefix(p, q)
  BY <1>1 DEF NamedBy
<1>6. ASSUME m <= n, \A j \in 1..(m - 1) : q[j] = p[j], NEW j \in 2..m PROVE x[j] = on[j]
  <2>1. j - 1 \in 1..(m - 1) /\ j - 1 \in 1..(n - 1) /\ (j - 1) + 1 = j
    BY <1>2, <1>6
  <2>2. QED
    BY <1>3, <1>6, <2>1, Zenon
<1>7. ASSUME m <= n, \A j \in 2..m : x[j] = on[j], NEW j \in 1..(m - 1) PROVE q[j] = p[j]
  <2>1. j + 1 \in 2..m /\ j \in 1..(n - 1)
    BY <1>2, <1>7
  <2>2. QED
    BY <1>3, <1>7, <2>1
<1>8. m - 1 <= n - 1 <=> m <= n
  BY <1>2
<1>9. QED
  BY <1>2, <1>4, <1>5, <1>6, <1>7, <1>8

LEMMA NamedSelf ==
  ASSUME NEW on, IsList(on), on # <<>>
  PROVE  NamedBy(on, on)
<1>1. Len(on) \in Nat
  BY TailOfList
<1>2. Len(on) <= Len(on) /\ \A j \in 2..Len(on) : on[j] = on[j]
  BY <1>1
<1>3. QED
  BY <1>2, NamedByPosition

\* What lies below a key.
LEMMA NamedBelow ==
  ASSUME NEW on, NEW x, IsList(x), x # <<>>, NamedBy(on, x)
  PROVE  /\ \A k : IsList(k) /\ k # <<>> /\ IsStrictPrefix(x, k) => NamedBy(on, k)
         /\ \A n : NamedBy(on, Append(x, n))
<1>1. IsList(on) /\ on # <<>>
  BY DEF NamedBy
<1>2. PICK m \in Nat \ {0}, n \in Nat \ {0} : m = Len(on) /\ n = Len(x)
  BY <1>1, TailOfList
<1>3. m <= n /\ \A j \in 2..m : x[j] = on[j]
  BY <1>1, <1>2, NamedByPosition
<1>4. ASSUME NEW k, IsList(k), k # <<>>, NEW l \in Nat, l = Len(k), n <= l, \A j \in 1..n : k[j] = x[j]
      PROVE  NamedBy(on, k)
  <2>1. m <= l /\ \A j \in 2..m : j \in 1..n
    BY <1>3, <1>4
  <2>2. \A j \in 2..m : k[j] = on[j]
    BY <1>3, <1>4, <2>1
  <2>3. QED
    BY <1>1, <1>2, <1>4, <2>1, <2>2, NamedByPosition
<1>5. ASSUME NEW k, IsList(k), k # <<>>, IsStrictPrefix(x, k) PROVE NamedBy(on, k)
  <2>1. PICK l \in Nat : l = Len(k)
    BY <1>5, TailOfList
  <2>2. n < l /\ \A j \in 1..n : k[j] = x[j]
    BY <1>2, <1>5, <2>1, PrefixOfList
  <2>3. QED
    BY <1>4, <1>5, <2>1, <2>2
<1>6. ASSUME NEW a PROVE NamedBy(on, Append(x, a))
  <2>1. PICK S : x \in Seq(S)
    BY DEF IsList
  <2>2. PICK k : k = Append(x, a)
    BY Zenon
  <2>3. k \in Seq(S \union {a}) /\ Len(k) = n + 1 /\ \A j \in 1..n : k[j] = x[j]
    BY <1>2, <2>1, <2>2, Appended
  <2>4. IsList(k) /\ k # <<>>
    BY <2>3 DEF IsList
  <2>5. NamedBy(on, k)
    BY <1>4, <2>3, <2>4
  <2>6. QED
    BY <2>2, <2>5
<1>7. QED
  BY <1>5, <1>6

\* The resources stored, by the documents.
LEMMA StoredParts ==
  \A r : r \in Stored <=> \E k \in DOMAIN docs :
            /\ Head(k) \notin Indexes
            /\ r = k \/ \E n \in Names(Listed(k, docs[k])) : r = Append(k, n)
<1>1. \A k : Nested(k) = Listed(k, docs[k])
  BY DEF Nested, Listed
<1>2. \A k : {Append(k, Nested(k)[i].name) : i \in DOMAIN Nested(k)} = {Append(k, n) : n \in Names(Listed(k, docs[k]))}
  BY <1>1 DEF Names
<1>3. QED
  BY <1>2 DEF Stored

LEMMA StoredPartsNext ==
  \A r : r \in Stored' <=> \E k \in DOMAIN docs' :
            /\ Head(k) \notin Indexes
            /\ r = k \/ \E n \in Names(Listed(k, docs'[k])) : r = Append(k, n)
<1>1. \A k : Nested(k)' = Listed(k, docs'[k])
  BY DEF Nested, Listed
<1>2. \A k : {Append(k, Nested(k)'[i].name) : i \in DOMAIN Nested(k)'} = {Append(k, n) : n \in Names(Listed(k, docs'[k]))}
  BY <1>1 DEF Names
<1>3. QED
  BY <1>2 DEF Stored

LEMMA NothingListed ==
  ASSUME NEW k, Head(k) \notin NestedKinds, NEW d
  PROVE  Names(Listed(k, d)) = {}
<1>1. Listed(k, d) = <<>>
  BY KindSets DEF Listed
<1>2. QED
  BY <1>1 DEF Names

\* Names alone decide, not the bucket.
LEMMA SameNames ==
  /\ \A a, b, x : NamedBy(<<a, x>>, <<b, x>>)
  /\ \A a, b, x, y : NamedBy(<<a, x, y>>, <<b, x, y>>)
<1>1. ASSUME NEW a, NEW b, NEW x PROVE NamedBy(<<a, x>>, <<b, x>>)
  <2>1. PICK s, t : s = <<a, x>> /\ t = <<b, x>>
    BY Zenon
  <2>2. IsList(s) /\ s # <<>> /\ IsList(t) /\ t # <<>>
    BY <2>1, Tuples
  <2>3. Len(s) = 2 /\ Len(t) = 2 /\ s[2] = t[2]
    BY <2>1
  <2>4. Len(s) <= Len(t) /\ \A j \in 2..Len(s) : t[j] = s[j]
    BY <2>3
  <2>5. NamedBy(s, t)
    BY <2>2, <2>4, NamedByPosition
  <2>6. QED
    BY <2>1, <2>5
<1>2. ASSUME NEW a, NEW b, NEW x, NEW y PROVE NamedBy(<<a, x, y>>, <<b, x, y>>)
  <2>1. PICK s, t : s = <<a, x, y>> /\ t = <<b, x, y>>
    BY Zenon
  <2>2. IsList(s) /\ s # <<>> /\ IsList(t) /\ t # <<>>
    BY <2>1, Tuples
  <2>3. Len(s) = 3 /\ Len(t) = 3 /\ s[2] = t[2] /\ s[3] = t[3]
    BY <2>1
  <2>4. Len(s) <= Len(t) /\ \A j \in 2..Len(s) : t[j] = s[j]
    BY <2>3
  <2>5. NamedBy(s, t)
    BY <2>2, <2>4, NamedByPosition
  <2>6. QED
    BY <2>1, <2>5
<1>3. QED
  BY <1>1, <1>2

\* The same names in another bucket.
LEMMA BelowNamed ==
  ASSUME NEW on, NEW k, IsList(k), k # <<>>, NamedBy(on, k), NEW b
  PROVE  LET x == Below(b, k) IN IsList(x) /\ x # <<>> /\ NamedBy(on, x)
<1>1. PICK S : k \in Seq(S)
  BY DEF IsList
<1>2. PICK q : q = Tail(k)
  BY Zenon
<1>3. q \in Seq(S) /\ Len(q) = Len(k) - 1 /\ Len(k) \in Nat \ {0} /\ \A j \in 1..(Len(k) - 1) : q[j] = k[j + 1]
  BY <1>1, <1>2, SomethingLeft
<1>4. PICK x : x = <<b>> \o q
  BY Zenon
<1>5. x \in Seq(S \union {b}) /\ Len(x) = Len(q) + 1 /\ \A j \in 1..Len(q) : x[j + 1] = q[j]
  BY <1>3, <1>4, Prepended
<1>6. PICK n \in Nat \ {0} : n = Len(k)
  BY <1>3
<1>7. Len(x) = n /\ Len(q) = n - 1
  BY <1>3, <1>5, <1>6
<1>8. IsList(x) /\ x # <<>>
  BY <1>5, <1>7 DEF IsList
<1>9. IsList(on) /\ on # <<>>
  BY DEF NamedBy
<1>10. PICK m \in Nat \ {0} : m = Len(on)
  BY <1>9, TailOfList
<1>11. m <= n /\ \A j \in 2..m : k[j] = on[j]
  BY <1>6, <1>9, <1>10, NamedByPosition
<1>12. ASSUME NEW j \in 2..m PROVE x[j] = on[j]
  <2>1. j - 1 \in 1..(n - 1) /\ (j - 1) + 1 = j
    BY <1>11
  <2>2. x[j] = q[j - 1] /\ q[j - 1] = k[j]
    BY <1>3, <1>5, <1>6, <1>7, <2>1
  <2>3. QED
    BY <1>11, <2>2
<1>13. NamedBy(on, x)
  BY <1>7, <1>8, <1>9, <1>10, <1>11, <1>12, NamedByPosition
<1>14. QED
  BY <1>2, <1>4, <1>8, <1>13 DEF Below

\* Each write, and lists of them.
LEMMA SparedEach ==
  /\ \A verb, on, k, d : Head(k) \notin NestedKinds => Spared(verb, on, Store(k, d))
  /\ \A on, k : NamedBy(on, k) => Spared("delete", on, Drop(k))
  /\ \A verb, on, k : Head(k) \in Indexes => Spared(verb, on, Drop(k))
  /\ \A on, u, i : NamedBy(on, u) /\ IsList(u) /\ u # <<>> => Spared("delete", on, Sweep(u, i))
  /\ \A verb, on, k : Spared(verb, on, Post(k))
<1>1. /\ \A k, d : Store(k, d).do = "put" /\ Store(k, d).key = k
      /\ \A k : Drop(k).do = "delete" /\ Drop(k).key = k
      /\ \A u, i : Sweep(u, i).do = "sweep" /\ Sweep(u, i).under = u
      /\ \A k : Post(k).do = "deliver"
  BY WriteKinds
<1>2. /\ "put" # "delete" /\ "sweep" # "put" /\ "sweep" # "delete" /\ "put" # "sweep" /\ "delete" # "put"
      /\ "delete" # "sweep" /\ "deliver" # "put" /\ "deliver" # "delete" /\ "deliver" # "sweep"
  OBVIOUS
<1>3. QED
  BY <1>1, <1>2, Zenon DEF Spared

LEMMA SparedLists ==
  ASSUME NEW verb, NEW on
  PROVE  /\ \A a : Spared(verb, on, a) => Spares(verb, on, <<a>>)
         /\ \A a, b : Spared(verb, on, a) /\ Spared(verb, on, b) => Spares(verb, on, <<a, b>>)
         /\ \A a, b, c, d : /\ Spared(verb, on, a) /\ Spared(verb, on, b)
                            /\ Spared(verb, on, c) /\ Spared(verb, on, d)
                            => Spares(verb, on, <<a, b, c, d>>)
<1>1. ASSUME NEW a, Spared(verb, on, a) PROVE Spares(verb, on, <<a>>)
  <2>1. PICK t : t = <<a>>
    BY Zenon
  <2>2. DOMAIN t = {1} /\ t[1] = a
    BY <2>1, SmallLists
  <2>3. \A i \in DOMAIN t : Spared(verb, on, t[i])
    BY <1>1, <2>2
  <2>4. QED
    BY <2>1, <2>3 DEF Spares
<1>2. ASSUME NEW a, NEW b, Spared(verb, on, a), Spared(verb, on, b) PROVE Spares(verb, on, <<a, b>>)
  <2>1. PICK t : t = <<a, b>>
    BY Zenon
  <2>2. DOMAIN t = {1, 2} /\ t[1] = a /\ t[2] = b
    BY <2>1, SmallLists
  <2>3. \A i \in DOMAIN t : Spared(verb, on, t[i])
    BY <1>2, <2>2
  <2>4. QED
    BY <2>1, <2>3 DEF Spares
<1>3. ASSUME NEW a, NEW b, NEW c, NEW d, Spared(verb, on, a), Spared(verb, on, b), Spared(verb, on, c), Spared(verb, on, d)
      PROVE  Spares(verb, on, <<a, b, c, d>>)
  <2>1. PICK t : t = <<a, b, c, d>>
    BY Zenon
  <2>2. DOMAIN t = {1, 2, 3, 4} /\ t[1] = a /\ t[2] = b /\ t[3] = c /\ t[4] = d
    BY <2>1, SmallLists
  <2>3. \A i \in DOMAIN t : Spared(verb, on, t[i])
    BY <1>3, <2>2
  <2>4. QED
    BY <2>1, <2>3 DEF Spares
<1>4. QED
  BY <1>1, <1>2, <1>3

\* A document put again has the list that is stored.
LEMMA KeptLossless ==
  ASSUME NEW verb, NEW on, NEW k, NEW d, ListKept(k, d), Head(k) \in NestedKinds
  PROVE  Lossless(verb, on, k, d)
<1> SUFFICES ASSUME Has(k) PROVE Listed(k, docs[k]) = Listed(k, d)
  BY DEF Lossless
<1>1. CASE Head(k) = "network.virtualnetworks"
  <2>1. d = [body |-> d.body, subnets |-> Kept(k, "subnets", <<>>)]
    BY <1>1 DEF ListKept, ListFields
  <2>2. d.subnets = Kept(k, "subnets", <<>>)
    BY <2>1
  <2>3. QED
    BY <1>1, <2>2 DEF Kept, Listed
<1>2. CASE Head(k) = "network.nsgs"
  <2>1. d = [body |-> d.body, rules |-> Kept(k, "rules", <<>>)]
    BY <1>2 DEF ListKept, ListFields
  <2>2. d.rules = Kept(k, "rules", <<>>)
    BY <2>1
  <2>3. QED
    BY <1>2, <2>2 DEF Kept, Listed
<1>3. CASE Head(k) = "network.routetables"
  <2>1. d = [body |-> d.body, routes |-> Kept(k, "routes", <<>>)]
    BY <1>3 DEF ListKept, ListFields
  <2>2. d.routes = Kept(k, "routes", <<>>)
    BY <2>1
  <2>3. QED
    BY <1>3, <2>2 DEF Kept, Listed
<1>4. CASE Head(k) = "network.privatednszones"
  <2>1. PICK l : l = Kept(k, "records", <<>>)
    OBVIOUS
  <2>2. d = [body |-> d.body, records |-> l, count |-> Len(l)]
    BY <1>4, <2>1 DEF ListKept, ListFields
  <2>3. d.records = l
    BY <2>2
  <2>4. QED
    BY <1>4, <2>1, <2>3 DEF Kept, Listed
<1>5. QED
  BY <1>1, <1>2, <1>3, <1>4, KindSets

LEMMA RequestSpares ==
  ASSUME FormInv, NEW c, Request(c)
  PROVE  \E verb, on, todo : Begin(c, verb, on, todo) /\ Spares(verb, on, todo)
<1>1. CASE OnePut(c)
  <2>1. PICK verb, k, d : Begin(c, verb, k, <<Store(k, d)>>) /\ ListKept(k, d)
    BY <1>1, Zenon DEF OnePut
  <2>2. CASE Head(k) \in NestedKinds
    <3>1. Spares(verb, k, <<Store(k, d)>>)
      BY <2>1, <2>2, KeptLossless, Zenon DEF Spares
    <3>2. QED
      BY <2>1, <3>1, Zenon
  <2>3. CASE Head(k) \notin NestedKinds
    <3>1. Spares(verb, k, <<Store(k, d)>>)
      BY <2>3, SparedEach, SparedLists, Zenon
    <3>2. QED
      BY <2>1, <3>1, Zenon
  <2>4. QED
    BY <2>2, <2>3
<1>2. CASE OneDrop(c)
  <2>1. PICK k : Begin(c, "delete", k, <<Drop(k)>>) /\ IsList(k) /\ k # <<>>
    BY <1>2, Zenon DEF OneDrop
  <2>2. Spares("delete", k, <<Drop(k)>>)
    BY <2>1, NamedSelf, SparedEach, SparedLists, Zenon
  <2>3. QED
    BY <2>1, <2>2, Zenon
<1>3. CASE EntryPut(c) \/ EntryDrop(c)
  <2>1. PICK verb, k, name, d : /\ Begin(c, verb, Append(k, name), <<Store(k, d)>>) /\ Head(k) \in NestedKinds
                                /\ (verb = "put" /\ KeepsNames(k, d, {})) \/ (verb = "delete" /\ KeepsNames(k, d, {name}))
    BY <1>3, EntryWrites, Zenon DEF EntryWrite
  <2>2. Lossless(verb, Append(k, name), k, d)
    BY <2>1 DEF Lossless, KeepsNames
  <2>3. Spares(verb, Append(k, name), <<Store(k, d)>>)
    BY <2>1, <2>2, Zenon DEF Spares
  <2>4. QED
    BY <2>1, <2>3, Zenon
<1>4. /\ \A g, a, d, n : Head(Container(g, a, d, n)) \notin NestedKinds
      /\ \A a, d, n : Head(ContainerEntity(a, d, n)) \notin NestedKinds /\ Head(ContainerEntity(a, d, n)) \in Indexes
      /\ \A g, t : Head(Topic(g, t)) \notin NestedKinds
      /\ \A t : Head(DataPlaneTopic(t)) \notin NestedKinds /\ Head(DataPlaneTopic(t)) \in Indexes
  BY Tuples, KindSets DEF Container, ContainerEntity, Topic, DataPlaneTopic, Indexes
<1>5. CASE IndexedPut(c)
  BY <1>4, <1>5, SparedEach, SparedLists, Zenon DEF IndexedPut, PutContainer, PutTopic
<1>6. CASE IndexedDrop(c)
  <2>1. /\ \A g, a, d, n : NamedBy(Container(g, a, d, n), Container(g, a, d, n))
        /\ \A g, t : NamedBy(Topic(g, t), Topic(g, t))
    BY Tuples, NamedSelf, Zenon DEF Container, Topic
  <2>2. QED
    BY <1>4, <1>6, <2>1, SparedEach, SparedLists, Zenon DEF IndexedDrop, DeleteContainer, DeleteTopic
<1>7. CASE Cascade(c)
  <2>1. /\ \A a, x, i : Spared("delete", <<a, x>>, Drop(<<a, x>>))
        /\ \A a, b, x, i : Spared("delete", <<a, x>>, Sweep(<<b, x>>, i))
        /\ \A a, x, y, i : Spared("delete", <<a, x, y>>, Drop(<<a, x, y>>))
        /\ \A a, b, x, y, i : Spared("delete", <<a, x, y>>, Sweep(<<b, x, y>>, i))
    BY SameNames, Tuples, SparedEach, Zenon
  <2>2. ASSUME NEW s, DeleteService(c, s)
        PROVE  \E verb, on, todo : Begin(c, verb, on, todo) /\ Spares(verb, on, todo)
    <3>1. Spares("delete", ApimService(s), <<AllAPIs(s), AllProducts(s), AllSubscriptions(s), Drop(ApimService(s))>>)
      BY <2>1, SparedLists, Zenon DEF AllAPIs, AllProducts, AllSubscriptions, ApimService
    <3>2. QED
      BY <2>2, <3>1, Zenon DEF DeleteService
  <2>3. ASSUME NEW s, NEW a, DeleteAPI(c, s, a)
        PROVE  \E verb, on, todo : Begin(c, verb, on, todo) /\ Spares(verb, on, todo)
    <3>1. Spares("delete", Api(s, a), <<Sweep(<<"apimanagement.operations", s, a>>, ""), Drop(Api(s, a))>>)
      BY <2>1, SparedLists, Zenon DEF Api
    <3>2. QED
      BY <2>3, <3>1, Zenon DEF DeleteAPI
  <2>4. ASSUME NEW s, NEW a, DeleteProduct(c, s, a)
        PROVE  \E verb, on, todo : Begin(c, verb, on, todo) /\ Spares(verb, on, todo)
    <3>1. Spares("delete", Product(s, a), <<Sweep(<<"apimanagement.productapis", s, a>>, ""), Drop(Product(s, a))>>)
      BY <2>1, SparedLists, Zenon DEF Product
    <3>2. QED
      BY <2>4, <3>1, Zenon DEF DeleteProduct
  <2>5. /\ \A n : Spares("delete", BlobContainer(n), <<Sweep(<<"blob.blobs", n>>, ""), Drop(BlobContainer(n))>>)
        /\ \A n : Spares("delete", Table(n), <<Sweep(<<"table.entities", n>>, ""), Drop(Table(n))>>)
        /\ \A n : Spares("delete", Cluster(n), <<DeleteAgentPoolsForCluster(n), Drop(Cluster(n))>>)
    BY <2>1, SparedLists, Zenon DEF BlobContainer, Table, Cluster, DeleteAgentPoolsForCluster
  <2>6. QED
    BY <1>7, <2>2, <2>3, <2>4, <2>5, Zenon DEF Cascade, DeleteBlobContainer, DeleteTable, DeleteManagedCluster
<1>8. ASSUME NEW s, DeleteSite(c, s) PROVE \E verb, on, todo : Begin(c, verb, on, todo) /\ Spares(verb, on, todo)
  <2>1. Spares("delete", Site(s), <<Drop(Site(s)), Drop(AppSettings(s))>>)
    BY SameNames, SparedEach, SparedLists, Zenon DEF Site, AppSettings
  <2>2. QED
    BY <1>8, <2>1, Zenon DEF DeleteSite
<1>9. ASSUME NEW a, CreateNotifications(c, a) PROVE \E verb, on, todo : Begin(c, verb, on, todo) /\ Spares(verb, on, todo)
  BY <1>9, SparedEach, SparedLists, Zenon DEF CreateNotifications
<1>10. CASE ClusterPut(c)
  <2>1. PICK k, todo : Begin(c, "put", Cluster(k), todo) /\ ClusterWrites(k, todo)
    BY <1>10, ClusterPutWrites
  <2>2. Len(todo) \in Nat \ {0} /\ DOMAIN todo = 1..Len(todo)
    BY <2>1, ListShape DEF ClusterWrites
  <2>3. PICK n \in Nat \ {0} : n = Len(todo)
    BY <2>2, Zenon
  <2>4. \A i \in DOMAIN todo : i \in 1..(n - 1) \/ i = n
    BY <2>2, <2>3
  <2>5. /\ \A i \in 1..(n - 1) : \E p, d : todo[i] = Store(AgentPool(k, p), d)
        /\ \E d : todo[n] = Store(Cluster(k), d)
    BY <2>1, <2>3, Zenon DEF ClusterWrites
  <2>6. (\A p : Head(AgentPool(k, p)) \notin NestedKinds) /\ Head(Cluster(k)) \notin NestedKinds
    BY Tuples, KindSets DEF AgentPool, Cluster
  <2>7. /\ \A p, d : Spared("put", Cluster(k), Store(AgentPool(k, p), d))
        /\ \A d : Spared("put", Cluster(k), Store(Cluster(k), d))
    BY <2>6, SparedEach, Zenon
  <2>8. \A i \in DOMAIN todo : Spared("put", Cluster(k), todo[i])
    BY <2>4, <2>5, <2>7, Zenon
  <2>9. Spares("put", Cluster(k), todo)
    BY <2>8 DEF Spares
  <2>10. QED
    BY <2>1, <2>9, Zenon
<1>11. QED
  BY <1>1, <1>2, <1>3, <1>5, <1>6, <1>7, <1>8, <1>9, <1>10, Zenon DEF Request

LEMMA SparedAll ==
  ASSUME NEW u, Agenda' = u, \A i \in DOMAIN u : Spared(calls'[First].verb, calls'[First].on, u[i])
  PROVE  (Spares(calls[First].verb, calls[First].on, Agenda))'
BY DEF Spares, First

\* Documents with lists are as they were, and so is what is left to write.
LEMMA SparesSame ==
  ASSUME NEW v, NEW o, NEW t, Spares(v, o, t),
         Agenda' = t, calls'[First].verb = v, calls'[First].on = o,
         \A k : Head(k) \in NestedKinds =>
            (k \in DOMAIN docs' <=> k \in DOMAIN docs) /\ (k \in DOMAIN docs => docs'[k] = docs[k])
  PROVE  (Spares(calls[First].verb, calls[First].on, Agenda))'
<1>1. CASE \A i \in DOMAIN t : Spared(v, o, t[i])
  BY <1>1, SparedAll
<1>2. ASSUME NEW x, NEW d, t = <<Store(x, d)>>, Head(x) \in NestedKinds, Lossless(v, o, x, d)
      PROVE  (Spares(calls[First].verb, calls[First].on, Agenda))'
  <2>1. (Lossless(calls[First].verb, calls[First].on, x, d))'
    <3>1. x \in DOMAIN docs' => x \in DOMAIN docs /\ docs'[x] = docs[x]
      BY <1>2
    <3>2. x \in DOMAIN docs =>
             \A n \in Names(Listed(x, docs[x])) \ Names(Listed(x, d)) : v = "delete" /\ o = Append(x, n)
      BY <1>2 DEF Lossless, Has
    <3>3. x \in DOMAIN docs' =>
             \A n \in Names(Listed(x, docs'[x])) \ Names(Listed(x, d)) : v = "delete" /\ o = Append(x, n)
      BY <3>1, <3>2
    <3>4. /\ (Names(Listed(x, docs[x])))' = Names(Listed(x, docs'[x]))
          /\ (Names(Listed(x, d)))' = Names(Listed(x, d))
      BY DEF Names, Listed
    <3>5. QED
      BY <3>3, <3>4 DEF Lossless, Has, First
  <2>2. Agenda' = <<Store(x, d)>>
    BY <1>2
  <2>3. QED
    BY <1>2, <2>1, <2>2 DEF Spares, First, Store
<1>3. QED
  BY <1>1, <1>2, Zenon DEF Spares

LEMMA WroteSpares ==
  ASSUME FormInv, Write(First), Spares(calls[First].verb, calls[First].on, Agenda), Wrote(Agenda, Agenda')
  PROVE  (Spares(calls[First].verb, calls[First].on, Agenda))'
<1>1. PICK t, u : t = Agenda /\ u = Agenda'
  OBVIOUS
<1>2. /\ u # <<>> => calls'[First].verb = calls[First].verb /\ calls'[First].on = calls[First].on
      /\ u = <<>> => calls'[First] = Idle
  BY <1>1, SoloWrite
<1>3. CASE u = <<>>
  <2>1. DOMAIN u = {}
    BY <1>3
  <2>2. QED
    BY <1>1, <2>1, SparedAll
<1>4. CASE u # <<>> /\ \A i \in DOMAIN t : Spared(calls[First].verb, calls[First].on, t[i])
  <2>1. PICK n \in Nat \ {0} : n = Len(t)
    BY <1>1, Zenon DEF Wrote
  <2>2. DOMAIN t = 1..n /\ DOMAIN u = 1..(n - 1) /\ \A i \in 1..(n - 1) : u[i] = t[i + 1]
    BY <1>1, <2>1 DEF Wrote
  <2>3. \A i \in DOMAIN u : i + 1 \in DOMAIN t /\ u[i] = t[i + 1]
    BY <2>2
  <2>4. \A i \in DOMAIN u : Spared(calls'[First].verb, calls'[First].on, u[i])
    BY <1>2, <1>4, <2>3
  <2>5. QED
    BY <1>1, <2>4, SparedAll, SMTT(30)
<1>5. ASSUME NEW x, NEW d, t = <<Store(x, d)>> PROVE u = <<>>
  <2>1. Agenda = <<Store(x, d)>>
    BY <1>1, <1>5
  <2>2. calls'[First] = Idle
    BY <2>1, OnePutWritten, Zenon
  <2>3. QED
    BY <1>1, <2>2 DEF Agenda, Idle, First
<1>6. QED
  BY <1>1, <1>3, <1>4, <1>5, Zenon DEF Spares

\* A key is a list, and a sweep finds those below what the call is for.
LEMMA SweptSpares ==
  ASSUME FormInv, Write(First), Spares(calls[First].verb, calls[First].on, Agenda), Swept(Agenda, Agenda')
  PROVE  (Spares(calls[First].verb, calls[First].on, Agenda))'
<1>1. PICK t, u, v, o : t = Agenda /\ u = Agenda' /\ v = calls[First].verb /\ o = calls[First].on
  OBVIOUS
<1>2. PICK n \in Nat \ {0} : n = Len(t)
  BY <1>1, Zenon DEF Swept
<1>3. PICK e, d : e = t[1] /\ d = Deletions(t[1])
  OBVIOUS
<1>4. PICK m \in Nat : /\ DOMAIN d = 1..m
                       /\ DOMAIN u = 1..(m + (n - 1))
                       /\ \A i \in 1..m : u[i] = d[i]
                       /\ \A i \in 1..(n - 1) : u[m + i] = t[i + 1]
  BY <1>1, <1>2, <1>3, Zenon DEF Swept
<1>5. DOMAIN t = 1..n /\ e.do = "sweep"
  BY <1>1, <1>2, <1>3 DEF Swept
<1>6. \A i \in DOMAIN t : Spared(v, o, t[i])
  <2>1. ASSUME NEW x, NEW y, t = <<Store(x, y)>> PROVE FALSE
    <3>1. t[1] = Store(x, y)
      BY <2>1
    <3>2. e.do = "put"
      BY <1>3, <3>1 DEF Store
    <3>3. QED
      BY <1>5, <3>2
  <2>2. QED
    BY <1>1, <2>1, Zenon DEF Spares
<1>7. 1 \in DOMAIN t
  BY <1>5
<1>8. v = "delete" /\ NamedBy(o, e.under) /\ IsList(e.under) /\ e.under # <<>>
  BY <1>3, <1>5, <1>6, <1>7 DEF Spared
<1>9. \A k \in Under(e.under) : IsList(k) /\ k # <<>> /\ NamedBy(o, k)
  <2>1. \A k \in Under(e.under) : IsList(k) /\ k # <<>> /\ IsStrictPrefix(e.under, k)
    BY DEF FormInv, DocForm, KeyForm, Under
  <2>2. QED
    BY <1>8, <2>1, NamedBelow
<1>10. \A k \in Under(e.under) : Spared(v, o, Drop(k)) /\ Spared(v, o, Sweep(Below(e.inner, k), ""))
  BY <1>8, <1>9, BelowNamed, SparedEach, Zenon
<1>11. \A i \in DOMAIN d : \E k \in Under(e.under) : d[i] = Drop(k) \/ d[i] = Sweep(Below(e.inner, k), "")
  <2>1. IsFiniteSet(DOMAIN docs)
    BY DEF FormInv
  <2>2. CASE e.inner = ""
    BY <1>3, <2>1, <2>2, SweptOne, Zenon
  <2>3. CASE e.inner # ""
    BY <1>3, <2>1, <2>3, SweptTwo, Zenon
  <2>4. QED
    BY <2>2, <2>3
<1>12. \A i \in DOMAIN d : Spared(v, o, d[i])
  BY <1>10, <1>11, Zenon
<1>13. ASSUME NEW i \in DOMAIN u PROVE Spared(v, o, u[i])
  <2>1. CASE i \in 1..m
    BY <1>4, <1>12, <2>1
  <2>2. CASE i \notin 1..m
    <3>1. i - m \in 1..(n - 1) /\ m + (i - m) = i /\ (i - m) + 1 \in 1..n
      BY <1>4, <1>13, <2>2
    <3>2. u[i] = t[(i - m) + 1]
      BY <1>4, <3>1
    <3>3. QED
      BY <1>5, <1>6, <3>1, <3>2
  <2>3. QED
    BY <2>1, <2>2
<1>14. CASE u = <<>>
  <2>1. DOMAIN u = {}
    BY <1>14
  <2>2. QED
    BY <1>1, <2>1, SparedAll
<1>15. CASE u # <<>>
  <2>1. calls'[First].verb = v /\ calls'[First].on = o
    BY <1>1, <1>15, SoloWrite
  <2>2. QED
    BY <1>1, <1>13, <2>1, SparedAll
<1>16. QED
  BY <1>14, <1>15

LEMMA NextSurvive == FormInv /\ AloneInv /\ SurviveInv /\ [Next]_vars => SurviveInv'
<1> SUFFICES ASSUME FormInv, AloneInv, SurviveInv, [Next]_vars PROVE SurviveInv'
  OBVIOUS
<1>1. mode' = mode /\ (mode # "concurrent" => SoloStep)
  BY NextAlone
<1> SUFFICES ASSUME mode # "concurrent" PROVE (Spares(calls[First].verb, calls[First].on, Agenda))'
  BY <1>1 DEF SurviveInv
<1>2. SoloStep /\ Spares(calls[First].verb, calls[First].on, Agenda)
  BY <1>1 DEF SurviveInv
<1>3. CASE Request(First)
  <2>1. PICK verb, on, todo : Begin(First, verb, on, todo) /\ Spares(verb, on, todo)
    BY <1>3, RequestSpares
  <2>2. docs' = docs /\ calls'[First].verb = verb /\ calls'[First].on = on /\ calls'[First].todo = todo
    BY <2>1, FirstIsAClient, BeginEffect, Zenon DEF FormInv
  <2>3. Agenda' = todo
    BY <2>2 DEF Agenda, First
  <2>4. QED
    BY <2>1, <2>2, <2>3, SparesSame
<1>4. CASE Write(First)
  <2>1. Wrote(Agenda, Agenda') \/ Swept(Agenda, Agenda')
    BY <1>4, SoloWrite
  <2>2. QED
    BY <1>2, <1>4, <2>1, WroteSpares, SweptSpares
<1>5. CASE Deliver(First)
  <2>1. PICK u : u = Agenda'
    OBVIOUS
  <2>2. u = <<>> \/ \E k, d : u = <<Store(k, d)>> /\ Head(k) \in {"eventgrid.eventsubscriptions", "monitor.actionGroups"}
    BY <1>5, <2>1, SoloDelivery DEF Answered
  <2>3. CASE u = <<>>
    <3>1. DOMAIN u = {}
      BY <2>3
    <3>2. QED
      BY <2>1, <3>1, SparedAll
  <2>4. ASSUME NEW k, NEW d, u = <<Store(k, d)>>, Head(k) \in {"eventgrid.eventsubscriptions", "monitor.actionGroups"}
        PROVE  (Spares(calls[First].verb, calls[First].on, Agenda))'
    <3>1. DOMAIN u = {1} /\ u[1] = Store(k, d)
      BY <2>4, SmallLists
    <3>2. Head(k) \notin NestedKinds
      BY <2>4, KindSets
    <3>3. Spared(calls'[First].verb, calls'[First].on, Store(k, d))
      BY <3>2, SparedEach
    <3>4. \A i \in DOMAIN u : Spared(calls'[First].verb, calls'[First].on, u[i])
      BY <3>1, <3>3
    <3>5. QED
      BY <2>1, <3>4, SparedAll
  <2>5. QED
    BY <2>2, <2>3, <2>4, Zenon
<1>6. CASE Crash
  <2>1. calls'[First] = Idle
    BY <1>6, FirstIsAClient DEF Crash
  <2>2. PICK u : u = Agenda'
    OBVIOUS
  <2>3. u = <<>> /\ DOMAIN <<>> = {}
    BY <2>1, <2>2 DEF Agenda, Idle, First
  <2>4. QED
    BY <2>2, <2>3, SparedAll
<1>7. CASE Aside
  <2>1. calls'[First] = calls[First] /\ Agenda' = Agenda
    BY <1>7 DEF Aside, Agenda, First
  <2>2. \A k : Head(k) \in NestedKinds => Head(k) # "eventgrid.eventsubscriptions"
    BY KindSets
  <2>3. \A k : Head(k) \in NestedKinds =>
           (k \in DOMAIN docs' <=> k \in DOMAIN docs) /\ (k \in DOMAIN docs => docs'[k] = docs[k])
    BY <1>7, <2>2, Zenon DEF Aside
  <2>4. QED
    BY <1>2, <2>1, <2>3, SparesSame
<1>8. QED
  BY <1>2, <1>3, <1>4, <1>5, <1>6, <1>7 DEF SoloStep

LEMMA InitSurvive == Init => SurviveInv
<1> SUFFICES ASSUME Init PROVE SurviveInv
  OBVIOUS
<1>1. PICK t : t = Agenda
  OBVIOUS
<1>2. t = <<>>
  BY <1>1, FirstIsAClient DEF Init, StoreInit, Agenda, Idle
<1>3. DOMAIN t = {}
  BY <1>2
<1>4. QED
  BY <1>1, <1>3 DEF SurviveInv, Spares

\* A document that is as it was keeps what it stands for.
LEMMA SameStored ==
  ASSUME NEW r, r \notin Stored',
         NEW x, Head(x) \notin Indexes, r = x \/ \E n \in Names(Listed(x, docs[x])) : r = Append(x, n)
  PROVE  ~(x \in DOMAIN docs' /\ docs'[x] = docs[x])
BY StoredPartsNext, Zenon

\* What goes with the write of one document.
LEMMA WriteTakes ==
  ASSUME FormInv, NEW t, Wrote(t, Agenda'), NEW v, NEW o, Spares(v, o, t), NEW r \in Stored, r \notin Stored'
  PROVE  v = "delete" /\ NamedBy(o, r)
<1>1. PICK x \in DOMAIN docs : Head(x) \notin Indexes /\ (r = x \/ \E n \in Names(Listed(x, docs[x])) : r = Append(x, n))
  BY StoredParts
<1>2. IsList(x) /\ x # <<>>
  BY <1>1 DEF FormInv, DocForm, KeyForm
<1>3. PICK e : e = t[1]
  OBVIOUS
<1>4. 1 \in DOMAIN t /\ e.do \in {"put", "delete"} /\ docs' = Applied(e)
  <2>1. PICK n \in Nat \ {0} : DOMAIN t = 1..n
    BY Zenon DEF Wrote
  <2>2. 1 \in 1..n
    BY <2>1
  <2>3. QED
    BY <1>3, <2>1, <2>2, SMTT(30) DEF Wrote
<1>5. ~(x \in DOMAIN docs' /\ docs'[x] = docs[x])
  BY <1>1, SameStored
<1>6. CASE e.do = "put"
  <2>1. DOMAIN docs' = DOMAIN docs \union {e.key} /\ docs'[e.key] = e.doc /\ \A k \in DOMAIN docs : k # e.key => docs'[k] = docs[k]
    BY <1>4, <1>6, AppliedPut
  <2>2. x = e.key /\ x \in DOMAIN docs' /\ docs'[x] = e.doc
    BY <1>5, <2>1
  <2>3. r # x
    BY <1>1, <2>2, StoredPartsNext, Zenon
  <2>4. PICK n \in Names(Listed(x, docs[x])) : r = Append(x, n)
    BY <1>1, <2>3
  <2>5. n \notin Names(Listed(x, e.doc))
    BY <1>1, <2>2, <2>4, StoredPartsNext, Zenon
  <2>6. Head(x) \in NestedKinds
    BY <2>4, NothingListed
  <2>7. ~\A i \in DOMAIN t : Spared(v, o, t[i])
    BY <1>3, <1>4, <1>6, <2>2, <2>6 DEF Spared
  <2>8. PICK y, d : t = <<Store(y, d)>> /\ Lossless(v, o, y, d)
    BY <2>7, Zenon DEF Spares
  <2>9. e = Store(y, d)
    BY <1>3, <2>8
  <2>10. y = x /\ d = e.doc
    BY <2>2, <2>9 DEF Store
  <2>11. v = "delete" /\ o = r
    BY <1>1, <2>4, <2>5, <2>8, <2>10 DEF Lossless, Has
  <2>12. IsList(r) /\ r # <<>>
    <3>1. PICK S : x \in Seq(S)
      BY <1>2 DEF IsList
    <3>2. PICK k : k = Append(x, n)
      BY Zenon
    <3>3. k \in Seq(S \union {n}) /\ Len(k) = Len(x) + 1 /\ Len(x) \in Nat
      BY <3>1, <3>2, Appended
    <3>4. k # <<>> /\ IsList(k)
      BY <3>3 DEF IsList
    <3>5. QED
      BY <2>4, <3>2, <3>4
  <2>13. QED
    BY <2>11, <2>12, NamedSelf
<1>7. CASE e.do = "delete"
  <2>1. DOMAIN docs' = DOMAIN docs \ {e.key} /\ \A k \in DOMAIN docs' : docs'[k] = docs[k]
    BY <1>4, <1>7, AppliedDelete
  <2>2. x = e.key
    BY <1>5, <2>1
  <2>3. \A i \in DOMAIN t : Spared(v, o, t[i])
    <3>1. ASSUME NEW y, NEW d, t = <<Store(y, d)>> PROVE FALSE
      <4>1. e = Store(y, d)
        BY <1>3, <3>1
      <4>2. QED
        BY <1>7, <4>1 DEF Store
    <3>2. QED
      BY <3>1, Zenon DEF Spares
  <2>4. v = "delete" /\ NamedBy(o, x)
    BY <1>1, <1>3, <1>4, <1>7, <2>2, <2>3 DEF Spared
  <2>5. QED
    BY <1>1, <1>2, <2>4, NamedBelow, Zenon
<1>8. QED
  BY <1>4, <1>6, <1>7

LEMMA SurviveStep ==
  ASSUME FormInv, AloneInv, SurviveInv, [Next]_vars, mode # "concurrent", NEW r \in Stored, r \notin Stored'
  PROVE  calls[First].verb = "delete" /\ NamedBy(calls[First].on, r)
<1>1. SoloStep
  BY NextAlone
<1>2. PICK x \in DOMAIN docs : Head(x) \notin Indexes /\ (r = x \/ \E n \in Names(Listed(x, docs[x])) : r = Append(x, n))
  BY StoredParts
<1>3. ~(x \in DOMAIN docs' /\ docs'[x] = docs[x])
  BY <1>2, SameStored
<1>4. docs' # docs
  BY <1>3
<1>5. CASE Request(First)
  <2>1. docs' = docs
    BY <1>5, FirstIsAClient, BeginsIdle, BeginEffect, Zenon DEF FormInv
  <2>2. QED
    BY <1>4, <2>1
<1>6. CASE Write(First)
  <2>1. Wrote(Agenda, Agenda')
    BY <1>4, <1>6, SoloWrite DEF Swept
  <2>2. Spares(calls[First].verb, calls[First].on, Agenda)
    BY DEF SurviveInv
  <2>3. QED
    BY <2>1, <2>2, WriteTakes
<1>7. CASE Deliver(First)
  BY <1>4, <1>7, SoloDelivery DEF Answered
<1>8. CASE Crash
  BY <1>4, <1>8 DEF Crash
<1>9. CASE Aside
  <2>1. PICK k : /\ Head(k) = "eventgrid.eventsubscriptions"
                 /\ DOMAIN docs' = DOMAIN docs \union {k}
                 /\ \A y \in DOMAIN docs : y # k => docs'[y] = docs[y]
    BY <1>4, <1>9, Zenon DEF Aside
  <2>2. x = k /\ x \in DOMAIN docs'
    BY <1>3, <2>1
  <2>3. Head(x) \notin NestedKinds
    BY <2>1, <2>2, KindSets
  <2>4. r = x
    BY <1>2, <2>3, NothingListed
  <2>5. r \in Stored'
    BY <1>2, <2>2, <2>4, StoredPartsNext, Zenon
  <2>6. QED
    BY <2>5
<1>10. QED
  BY <1>1, <1>5, <1>6, <1>7, <1>8, <1>9 DEF SoloStep

\* Nothing goes but what a DELETE in progress names and what lies below it,
\* for any requests and wherever the process ends: a document put again is
\* written with the list that is stored, and what a sweep lists lies below
\* what the call is for.
THEOREM NothingElseGoes == Spec => ChildrenSurvive
<1>1. ASSUME FormInv, AloneInv, SurviveInv, [Next]_vars, mode # "concurrent", NEW r \in Stored \ Stored'
      PROVE  \E w \in Workers : calls[w].verb = "delete" /\ IsPrefix(Tail(calls[w].on), Tail(r))
  <2>1. calls[First].verb = "delete" /\ NamedBy(calls[First].on, r)
    BY <1>1, SurviveStep
  <2>2. QED
    BY <2>1, FirstIsAClient DEF NamedBy
<1>2. FormInv /\ AloneInv /\ SurviveInv /\ [Next]_vars =>
         [\A r \in Stored \ Stored' : mode # "concurrent" =>
             \E w \in Workers : calls[w].verb = "delete" /\ IsPrefix(Tail(calls[w].on), Tail(r))]_vars
  BY <1>1, Zenon
<1>3. Init => FormInv /\ AloneInv /\ SurviveInv
  BY InitForm, InitAlone, InitSurvive
<1>4. FormInv /\ AloneInv /\ SurviveInv /\ [Next]_vars => FormInv' /\ AloneInv' /\ SurviveInv'
  BY NextForm, NextAlone, NextSurvive
<1>5. QED
  BY <1>2, <1>3, <1>4, PTL DEF Spec, ChildrenSurvive
=============================================================================
