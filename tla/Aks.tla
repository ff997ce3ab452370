-------------------------------- MODULE Aks --------------------------------
(***************************************************************************)
(* Microsoft.ContainerService (internal/services/aks): managed clusters    *)
(* and their agent pools.  A cluster's pools are the documents kept under  *)
(* its name; the list in its own document is the one its last PUT carried. *)
(***************************************************************************)
EXTENDS ArmStore

CONSTANTS
    ClusterNames,
    PoolNames,    \* one of them is the pool a cluster without any is given
    DefaultPool

\* A request carries finitely many pools.
ASSUME PoolsAssumption == DefaultPool \in PoolNames /\ IsFiniteSet(PoolNames)

-----------------------------------------------------------------------------

Cluster(k) == <<"aks.managedclusters", k>>
AgentPool(k, p) == <<"aks.agentpools", k, p>>

PoolModes == {"System", "User"}

\* A pool as stored, from a request that may leave out its mode and count.
PoolOf(q, default) ==
    [mode |-> IF q.mode = "" THEN default ELSE q.mode,
     count |-> IF q.count = 0 THEN 1 ELSE q.count]

DefaultAgentPoolProfiles == [p \in {DefaultPool} |-> [mode |-> "System", count |-> 1]]

PersistAgentPoolFromProfile(k, p, profile) == Store(AgentPool(k, p), profile)

\* The pools of the request are stored, then the cluster; a pool it leaves
\* out stays.
PutManagedCluster(c, k, requested) ==
    LET profiles == IF requested = << >> THEN DefaultAgentPoolProfiles
                    ELSE [p \in DOMAIN requested |-> PoolOf(requested[p], "System")]
        order == SetToSeq(DOMAIN profiles)
    IN  /\ \A p \in DOMAIN profiles : profiles[p].mode \in PoolModes
        /\ Begin(c, "put", Cluster(k),
                 [i \in DOMAIN order |-> PersistAgentPoolFromProfile(k, order[i], profiles[order[i]])]
                 \o <<Store(Cluster(k), [profiles |-> profiles])>>)

DeleteAgentPoolsForCluster(k) == Sweep(<<"aks.agentpools", k>>, "")

DeleteManagedCluster(c, k) ==
    /\ Has(Cluster(k))
    /\ Begin(c, "delete", Cluster(k), <<DeleteAgentPoolsForCluster(k), Drop(Cluster(k))>>)

PutAgentPool(c, k, p, q) ==
    /\ Has(Cluster(k))
    /\ q.mode \in PoolModes \union {""}
    /\ Putting(c, AgentPool(k, p), PoolOf(q, "User"))

DeleteAgentPool(c, k, p) == Has(Cluster(k)) /\ Deleting(c, AgentPool(k, p))

-----------------------------------------------------------------------------

PoolRequests == [mode : {"", "User", "Spot"}, count : {0, 2}]

AksNext(c) ==
    \E k \in ClusterNames :
       \/ PutManagedCluster(c, k, << >>)
       \/ \E p \in PoolNames, q \in PoolRequests :
             PutManagedCluster(c, k, [x \in {p} |-> q]) \/ PutAgentPool(c, k, p, q)
       \/ \E q \in [PoolNames -> {[mode |-> "User", count |-> 2]}] : PutManagedCluster(c, k, q)
       \/ DeleteManagedCluster(c, k)
       \/ \E p \in PoolNames : DeleteAgentPool(c, k, p)
=============================================================================
