------------------------------ MODULE Network ------------------------------
(***************************************************************************)
(* Microsoft.Network (internal/services/network): virtual networks with    *)
(* their subnets, network interfaces that take an address of a subnet,     *)
(* security groups, route tables, load balancers, public addresses and     *)
(* private DNS zones.  A name stands for a resource's                      *)
(* {subscription}/{resource group}/{name}.                                 *)
(***************************************************************************)
EXTENDS ArmStore

CONSTANTS
    NetNames,     \* names of top-level resources
    NICNames,
    PartNames,    \* names of subnets, rules, routes and record sets
    Bodies,       \* contents the emulator stores and returns as they are
    Ranges,       \* address prefixes, <<base, size>> with size a power of 2
    RecordTypes,  \* of DNS record sets
    Spellings     \* ways to write an id that lead to the same resource

ASSUME RangesAssumption == \A p \in Ranges : p[1] \in Nat /\ p[2] \in Nat \ {0}

-----------------------------------------------------------------------------
(* Virtual networks and subnets *)

VNet(v) == <<"network.virtualnetworks", v>>

\* A broken PutVirtualNetwork: it stores the request.
PutVirtualNetworkAnew(c, v, b) == Putting(c, VNet(v), [body |-> b, subnets |-> <<>>])

\* A PUT of the network carries no subnets: those stored stay.
PutVirtualNetwork(c, v, b) ==
    Putting(c, VNet(v), [body |-> b, subnets |-> Kept(VNet(v), "subnets", <<>>)])

DeleteVirtualNetwork(c, v) == Deleting(c, VNet(v))

PutSubnet(c, v, s, prefix) ==
    PuttingIn(c, VNet(v), "subnets", [name |-> s, prefix |-> prefix])

DeleteSubnet(c, v, s) == DeletingIn(c, VNet(v), "subnets", s)

\* A subnet's id is its network, its name and a spelling: it is parsed without
\* regard to the case of its keywords or to slashes around it.
FindSubnetByID(id) ==
    Has(VNet(id[1])) /\ Lists(docs[VNet(id[1])].subnets, id[2])

PrefixOf(id) == Named(docs[VNet(id[1])].subnets, id[2]).prefix

-----------------------------------------------------------------------------
(* Network interfaces *)

NIC(n) == <<"network.networkinterfaces", n>>

\* Parsed as well, and never compared: the name is all of it.
FindNICByID(n) == Has(NIC(n))

\* The IP configurations of the stored interfaces, as <<interface, position>>,
\* whose subnet's id is, as the client spelt it, this one.
ConfigsOn(id) ==
    {at \in InBucket("network.networkinterfaces") \X (1..2) :
        at[2] \in DOMAIN docs[at[1]].configs /\ docs[at[1]].configs[at[2]].subnet = id}

CountNICsOnSubnet(id) == Cardinality(ConfigsOn(id))

\* The address four after the network's, and one more for each in use; none
\* when that leaves the prefix.
AllocateIP(prefix, used) ==
    LET address == prefix[1] + 4 + used
    IN  IF address < prefix[1] + prefix[2] THEN {address} ELSE {}

\* A requested configuration names a subnet and, when its method is Static,
\* may name an address (0 when it names none), which is taken as it is.
Keeps(q) == q.static /\ q.ip # 0

\* Every configuration must name a stored subnet, and the allocation see
\* only the interfaces stored before this request.
PutNetworkInterface(c, n, requested) ==
    /\ requested # <<>>
    /\ \A i \in DOMAIN requested :
          /\ FindSubnetByID(requested[i].subnet)
          /\ \/ Keeps(requested[i])
             \/ AllocateIP(PrefixOf(requested[i].subnet), CountNICsOnSubnet(requested[i].subnet)) # {}
    /\ Putting(c, NIC(n),
          [configs |-> [i \in DOMAIN requested |->
              LET q == requested[i]
              IN  [subnet |-> q.subnet,
                   dynamic |-> ~q.static,
                   ip |-> IF Keeps(q) THEN q.ip
                          ELSE CHOOSE a \in AllocateIP(PrefixOf(q.subnet), CountNICsOnSubnet(q.subnet)) : TRUE]]])

DeleteNetworkInterface(c, n) == Deleting(c, NIC(n))

-----------------------------------------------------------------------------
(* Security groups, route tables *)

NSG(n) == <<"network.nsgs", n>>

PutNSG(c, n, b) ==
    Putting(c, NSG(n), [body |-> b, rules |-> Kept(NSG(n), "rules", <<>>)])
DeleteNSG(c, n) == Deleting(c, NSG(n))

\* A rule is taken with a priority of 100 to 4096; no other rule is read.
ValidPriority(p) == p \in 100..4096
PutSecurityRule(c, n, r, priority) ==
    ValidPriority(priority) /\ PuttingIn(c, NSG(n), "rules", [name |-> r, priority |-> priority])
DeleteSecurityRule(c, n, r) == DeletingIn(c, NSG(n), "rules", r)

RouteTable(n) == <<"network.routetables", n>>

NextHopTypes == {"VirtualAppliance", "VirtualNetworkGateway", "VnetLocal", "Internet", "None"}

PutRouteTable(c, n, b) ==
    Putting(c, RouteTable(n), [body |-> b, routes |-> Kept(RouteTable(n), "routes", <<>>)])
DeleteRouteTable(c, n) == Deleting(c, RouteTable(n))

PutRoute(c, n, r, hop) ==
    hop \in NextHopTypes /\ PuttingIn(c, RouteTable(n), "routes", [name |-> r, hop |-> hop])
DeleteRoute(c, n, r) == DeletingIn(c, RouteTable(n), "routes", r)

-----------------------------------------------------------------------------
(* Load balancers, public addresses *)

LoadBalancer(n) == <<"network.loadbalancers", n>>

\* All of a load balancer is in its PUT, and replaces what is stored.
PutLoadBalancer(c, n, b) == Putting(c, LoadBalancer(n), [body |-> b])
DeleteLoadBalancer(c, n) == Deleting(c, LoadBalancer(n))

PublicIP(n) == <<"network.publicips", n>>

\* The address written in the 20.0.0.0/8 block: three bytes of a hash of the
\* id, the first never 0.
FakePublicIP(sum) ==
    LET b2 == (sum \div 65536) % 256
    IN  <<20, IF b2 = 0 THEN 1 ELSE b2, (sum \div 256) % 256, sum % 256>>

\* The hash of a name, from the outcomes that matter: a second byte of 0 or not.
HashOf(n) == IF n = (CHOOSE m \in NetNames : TRUE) THEN 258 ELSE 131844

PutPublicIP(c, n, b) ==
    Putting(c, PublicIP(n), [body |-> b, address |-> Kept(PublicIP(n), "address", FakePublicIP(HashOf(n)))])
DeletePublicIP(c, n) == Deleting(c, PublicIP(n))

-----------------------------------------------------------------------------
(* Private DNS *)

Zone(n) == <<"network.privatednszones", n>>

PutPrivateDNSZone(c, n, b) ==
    LET records == Kept(Zone(n), "records", <<>>)
    IN  Putting(c, Zone(n), [body |-> b, records |-> records, count |-> Len(records)])
DeletePrivateDNSZone(c, n) == Deleting(c, Zone(n))

\* A record set is found by its name and its type.
PutPrivateDNSRecordSet(c, n, r, ttl) ==
    /\ ttl > 0
    /\ Has(Zone(n))
    /\ LET records == Upsert(docs[Zone(n)].records, [name |-> r, ttl |-> ttl])
       IN  Begin(c, "put", Append(Zone(n), r),
                 <<Store(Zone(n), [docs[Zone(n)] EXCEPT !.records = records, !.count = Len(records)])>>)

DeletePrivateDNSRecordSet(c, n, r) ==
    /\ Has(Zone(n))
    /\ Lists(docs[Zone(n)].records, r)
    /\ LET records == Without(docs[Zone(n)].records, r)
       IN  Begin(c, "delete", Append(Zone(n), r),
                 <<Store(Zone(n), [docs[Zone(n)] EXCEPT !.records = records, !.count = Len(records)])>>)

-----------------------------------------------------------------------------
(* What one client may ask of each part *)

AddressNext(c) ==
    \/ \E v \in NetNames, b \in Bodies : PutVirtualNetwork(c, v, b)
    \/ \E v \in NetNames : DeleteVirtualNetwork(c, v)
    \/ \E v \in NetNames, s \in PartNames, p \in Ranges : PutSubnet(c, v, s, p)
    \/ \E v \in NetNames, s \in PartNames : DeleteSubnet(c, v, s)

\* A configuration on a subnet; one more with it, Static without an address; a
\* fixed address that the allocation will come to.
RequestsOn(id) ==
    LET q == [subnet |-> id, static |-> FALSE, ip |-> 0]
    IN  {<<q>>, <<q, [q EXCEPT !.static = TRUE]>>, <<[q EXCEPT !.static = TRUE, !.ip = 5]>>}
InterfaceRequests ==
    UNION {RequestsOn(<<v, s, spelt>>) : v \in NetNames, s \in PartNames, spelt \in Spellings}

InterfaceNext(c) ==
    \/ \E n \in NICNames, r \in InterfaceRequests : PutNetworkInterface(c, n, r)
    \/ \E n \in NICNames : DeleteNetworkInterface(c, n)

NSGNext(c) ==
    \/ \E n \in NetNames, b \in Bodies : PutNSG(c, n, b)
    \/ \E n \in NetNames : DeleteNSG(c, n)
    \/ \E n \in NetNames, r \in PartNames, p \in {99, 100, 4096} : PutSecurityRule(c, n, r, p)
    \/ \E n \in NetNames, r \in PartNames : DeleteSecurityRule(c, n, r)

RouteNext(c) ==
    \/ \E n \in NetNames, b \in Bodies : PutRouteTable(c, n, b)
    \/ \E n \in NetNames : DeleteRouteTable(c, n)
    \/ \E n \in NetNames, r \in PartNames, hop \in {"Internet", "Peering"} : PutRoute(c, n, r, hop)
    \/ \E n \in NetNames, r \in PartNames : DeleteRoute(c, n, r)

EdgeNext(c) ==
    \/ \E n \in NetNames, b \in Bodies : PutLoadBalancer(c, n, b) \/ PutPublicIP(c, n, b)
    \/ \E n \in NetNames : DeleteLoadBalancer(c, n) \/ DeletePublicIP(c, n)

DNSNext(c) ==
    \/ \E n \in NetNames, b \in Bodies : PutPrivateDNSZone(c, n, b)
    \/ \E n \in NetNames : DeletePrivateDNSZone(c, n)
    \/ \E n \in NetNames, r \in PartNames \X RecordTypes, ttl \in 0..1 : PutPrivateDNSRecordSet(c, n, r, ttl)
    \/ \E n \in NetNames, r \in PartNames \X RecordTypes : DeletePrivateDNSRecordSet(c, n, r)
=============================================================================
