------------------------------ MODULE Services ------------------------------
(***************************************************************************)
(* The services of internal/services over one database.  They share its    *)
(* file and no bucket, and only virtual machines look at another one's     *)
(* documents, so that a behaviour exercises one group of operations        *)
(* (scenario), one request after the other, with the process ending at any *)
(* point, or with requests that overlap (mode).                            *)
(***************************************************************************)
EXTENDS Compute, Sql, KeyVault, CosmosDb, ApiManagement, Aks, WebApps, Notifications, Identity, Resources, Storage

CONSTANTS
    Scenarios,    \* the groups of operations to exercise
    Interrupted,  \* those also exercised with the process ending at any point
    Overlapping   \* those also exercised with requests that overlap

ASSUME ScenariosAssumption == Interrupted \union Overlapping \subseteq Scenarios

\* A database holds finitely many documents, also at first.
ASSUME InterfacesAssumption == "machines" \in Scenarios => IsFiniteSet(NICNames)

VARIABLE scenario

vars == <<store, scenario>>

-----------------------------------------------------------------------------

\* Interfaces for the machines to be attached to.
Interfaces == [k \in {NIC(n) : n \in NICNames} |-> [configs |-> <<>>]]

Init ==
    /\ StoreInit
    /\ scenario \in Scenarios
    /\ docs = IF scenario = "machines" THEN Interfaces ELSE << >>
    /\ mode = "crashing" => scenario \in Interrupted
    /\ mode = "concurrent" => scenario \in Overlapping

Asked(c) ==
    \/ scenario = "addresses" /\ AddressNext(c)
    \/ scenario = "interfaces" /\ (AddressNext(c) \/ InterfaceNext(c))
    \/ scenario = "security groups" /\ NSGNext(c)
    \/ scenario = "routes" /\ RouteNext(c)
    \/ scenario = "edge" /\ EdgeNext(c)
    \/ scenario = "dns" /\ DNSNext(c)
    \/ scenario = "machines" /\ (ComputeNext(c) \/ \E n \in NICNames : DeleteNetworkInterface(c, n))
    \/ scenario = "sql" /\ SqlNext(c)
    \/ scenario = "vaults" /\ VaultNext(c)
    \/ scenario = "cosmos" /\ CosmosNext(c)
    \/ scenario = "apis" /\ ApimNext(c)
    \/ scenario = "clusters" /\ AksNext(c)
    \/ scenario = "web" /\ WebNext(c)
    \/ scenario = "events" /\ EventGridNext(c)
    \/ scenario = "monitor" /\ MonitorNext(c)
    \/ scenario = "roles" /\ IdentityNext(c)
    \/ scenario = "graph" /\ GraphNext(c)
    \/ scenario = "groups" /\ ResourceNext(c)
    \/ scenario = "blobs" /\ BlobNext(c)
    \/ scenario = "tables" /\ TableNext(c)

Next ==
    /\ \/ \E c \in Clients : Asked(c)
       \/ \E w \in Workers : Write(w) \/ Deliver(w)
       \/ Crash
    /\ UNCHANGED scenario

\* A handler and a delivery run to their end: net/http and the ten seconds'
\* timeout of a call see to it.
Spec ==
    /\ Init
    /\ [][Next]_vars
    /\ \A w \in Workers : WF_vars(Write(w) /\ UNCHANGED scenario) /\ WF_vars(Deliver(w) /\ UNCHANGED scenario)
-----------------------------------------------------------------------------
(* What the services keep true *)

\* The list a document keeps of the resources nested in it.
Nested(k) ==
    CASE Head(k) = "network.virtualnetworks" -> docs[k].subnets
      [] Head(k) = "network.nsgs" -> docs[k].rules
      [] Head(k) = "network.routetables" -> docs[k].routes
      [] Head(k) = "network.privatednszones" -> docs[k].records
      [] OTHER -> <<>>

\* A nested resource has one entry, whatever requests overlap, and a zone
\* counts its record sets: handlers update a list they have read before.
OneEntryPerName ==
    \A k \in DOMAIN docs :
       /\ \A i, j \in DOMAIN Nested(k) : Nested(k)[i].name = Nested(k)[j].name => i = j
       /\ Head(k) = "network.privatednszones" => docs[k].count = Len(docs[k].records)

Indexes == {"cosmosdb.dataplane.containers", "eventgrid.dataplane.topics"}

\* The resources stored: a document of its own, or an entry of another one.
Stored ==
    UNION {{k} \union {Append(k, Nested(k)[i].name) : i \in DOMAIN Nested(k)} :
              k \in {k \in DOMAIN docs : Head(k) \notin Indexes}}

\* When requests do not overlap, nothing goes but what a DELETE in progress
\* names, and what is named below it: putting a network, a security group or
\* a zone again keeps the subnets, rules and records put in it since, and a
\* deletion takes no other resource with it, even when the process ends.
ChildrenSurvive ==
    [][\A r \in Stored \ Stored' : mode # "concurrent" =>
          \E w \in Workers : calls[w].verb = "delete" /\ IsPrefix(Tail(calls[w].on), Tail(r))]_vars

\* The bucket of the resource that one of a bucket lies in, for the services
\* that delete what lies in a resource before the resource, with the length
\* of its key.
Outer ==
    [bucket \in {"apimanagement.operations", "apimanagement.productapis", "apimanagement.apis",
                 "apimanagement.products", "apimanagement.subscriptions", "blob.blobs", "table.entities"} |->
        CASE bucket = "apimanagement.operations" -> <<"apimanagement.apis", 3>>
          [] bucket = "apimanagement.productapis" -> <<"apimanagement.products", 3>>
          [] bucket = "blob.blobs" -> <<"blob.containers", 2>>
          [] bucket = "table.entities" -> <<"table.tables", 2>>
          [] OTHER -> <<"apimanagement.services", 2>>]

\* A deletion in cascade leaves nothing behind, wherever it is cut short: an
\* operation has its API, an API its service, a blob its container.  A cluster
\* is put after its pools, and has them once its PUT has ended.
CascadeLeavesNoOrphans ==
    \A k \in DOMAIN docs :
       /\ mode # "concurrent" /\ Head(k) \in DOMAIN Outer =>
             Has(<<Outer[Head(k)][1]>> \o SubSeq(k, 2, Outer[Head(k)][2]))
       /\ mode = "serial" /\ Head(k) = "aks.agentpools" /\ (\A w \in Workers : ~Busy(w)) =>
             Has(Cluster(k[2]))

\* The fields a PUT of that resource does not change.
Lasting ==
    [bucket \in {"sql.databases", "keyvault.secrets", "containerregistry.registries", "sql.servers",
                 "appservice.sites"} |->
        CASE bucket = "sql.servers" -> "login"
          [] bucket = "appservice.sites" -> "state"
          [] OTHER -> "created"]

\* When requests do not overlap, a PUT over a stored resource keeps what only
\* its first one sets, whatever it asks and whatever the clock shows: the date
\* of creation, the administrator's login, the state a site was left in.  A
\* merge keeps the properties of an entity that it does not name.
KeptAcrossPuts ==
    [][\A k \in DOMAIN docs \intersect DOMAIN docs' : mode # "concurrent" =>
          /\ Head(k) \in DOMAIN Lasting /\ (\E w \in Workers : calls[w].verb = "put" /\ calls[w].on = k) =>
                docs'[k][Lasting[Head(k)]] = docs[k][Lasting[Head(k)]]
          /\ Head(k) = "table.entities" /\ (\E w \in Workers : calls[w].verb = "merge") =>
                DOMAIN docs[k].properties \subseteq DOMAIN docs'[k].properties]_vars

\* When requests do not overlap and none is in progress, the index of a data
\* plane leads to what is stored: a container of that name, the topic of the
\* group it gives.  The two are written one after the other, and names are
\* shared by groups.
IndexLeadsToStored ==
    mode = "serial" /\ (\A c \in Clients : ~Busy(c)) =>
       /\ \A k \in InBucket("cosmosdb.dataplane.containers") : \E g \in Groups : Has(Container(g, k[2], k[3], k[4]))
       /\ \A k \in InBucket("eventgrid.dataplane.topics") : Has(Topic(docs[k].group, k[2]))

\* Every request is answered and every delivery ends, also a deletion in
\* cascade while others go on storing under the same prefix.
HandlersEnd == \A w \in Workers : Busy(w) ~> ~Busy(w)

\* The addresses that a subnet's interfaces have, other than this one,
\* however they spell its id.
TakenByOthers(k, id) ==
    {docs[at[1]].configs[at[2]].ip :
        at \in UNION {ConfigsOn(<<id[1], id[2], spelt>>) : spelt \in Spellings}
               \ ({k} \X (1..2))}

\* What nic.go says of the addresses it gives out: each is "the next free
\* one" of the subnet.  It comes from a count of the interfaces that spell the
\* subnet's id that way, so that an address that was asked for, the deletion
\* of an interface, its second PUT or another spelling lead to one in use.
AddressIsFree ==
    [][\A k \in DOMAIN docs' :
          /\ mode = "serial"
          /\ Head(k) = "network.networkinterfaces"
          /\ k \in DOMAIN docs => docs'[k] # docs[k]
          => \A i \in DOMAIN docs'[k].configs :
                docs'[k].configs[i].dynamic =>
                   docs'[k].configs[i].ip \notin TakenByOthers(k, docs'[k].configs[i].subnet)]_vars
=============================================================================
