------------------------------ MODULE CosmosDb ------------------------------
(***************************************************************************)
(* Microsoft.DocumentDB (internal/services/cosmosdb): accounts, databases  *)
(* and containers of the control plane, named within a resource group; the *)
(* index by which the data plane finds a container, which knows no groups; *)
(* and the documents.                                                      *)
(***************************************************************************)
EXTENDS ArmStore

CONSTANTS
    Groups,       \* {subscription}/{resource group} pairs
    AccountNames,
    DatabaseNames,
    ContainerNames,
    DocumentIds,
    Contents      \* of documents

-----------------------------------------------------------------------------

Account(g, a) == <<"cosmosdb.accounts", g, a>>
CosmosDatabase(g, a, d) == <<"cosmosdb.databases", g, a, d>>
Container(g, a, d, n) == <<"cosmosdb.containers", g, a, d, n>>
ContainerEntity(a, d, n) == <<"cosmosdb.dataplane.containers", a, d, n>>
Document(a, d, n, id) == <<"cosmosdb.documents", a, d, n, id>>

\* An account is replaced whole; a request without locations has its own.
PutAccount(c, g, a, locations) ==
    Putting(c, Account(g, a), [locations |-> IF locations = {} THEN {"location"} ELSE locations])

DeleteAccount(c, g, a) == Deleting(c, Account(g, a))

PutCosmosDatabase(c, g, a, d) ==
    Has(Account(g, a)) /\ Putting(c, CosmosDatabase(g, a, d), [id |-> d])

DeleteCosmosDatabase(c, g, a, d) == Deleting(c, CosmosDatabase(g, a, d))

\* A container must have a partition key.  It is stored, then marked.
PutContainer(c, g, a, d, n, paths) ==
    /\ Has(CosmosDatabase(g, a, d))
    /\ paths # <<>>
    /\ Begin(c, "put", Container(g, a, d, n),
             <<Store(Container(g, a, d, n), [paths |-> paths]),
               Store(ContainerEntity(a, d, n), TRUE)>>)

\* It is removed, then unmarked; its documents stay.
DeleteContainer(c, g, a, d, n) ==
    /\ Has(Container(g, a, d, n))
    /\ Begin(c, "delete", Container(g, a, d, n),
             <<Drop(Container(g, a, d, n)), Drop(ContainerEntity(a, d, n))>>)

-----------------------------------------------------------------------------
(* The data plane *)

\* A container can be reached when it is marked, whatever else is stored.
DataPlaneContainerExists(a, d, n) == Has(ContainerEntity(a, d, n))

\* PUT of a document: insert or replace.
PutDocument(c, a, d, n, id, x) ==
    /\ DataPlaneContainerExists(a, d, n)
    /\ Putting(c, Document(a, d, n, id), x)

\* POST: the document's own id, or a new one; it replaces as PUT does.
CreateDocument(c, a, d, n, id, x) ==
    /\ DataPlaneContainerExists(a, d, n)
    /\ \E chosen \in IF id = "" THEN {i \in DocumentIds : ~Has(Document(a, d, n, i))} ELSE {id} :
          Putting(c, Document(a, d, n, chosen), x)

DeleteDocument(c, a, d, n, id) ==
    DataPlaneContainerExists(a, d, n) /\ Deleting(c, Document(a, d, n, id))

-----------------------------------------------------------------------------

CosmosNext(c) ==
    \/ \E g \in Groups, a \in AccountNames :
          \/ PutAccount(c, g, a, {})
          \/ DeleteAccount(c, g, a)
          \/ \E d \in DatabaseNames :
                \/ PutCosmosDatabase(c, g, a, d)
                \/ DeleteCosmosDatabase(c, g, a, d)
                \/ \E n \in ContainerNames :
                      \/ \E paths \in {<<>>, <<"/id">>} : PutContainer(c, g, a, d, n, paths)
                      \/ DeleteContainer(c, g, a, d, n)
    \/ \E a \in AccountNames, d \in DatabaseNames, n \in ContainerNames :
          \/ \E id \in DocumentIds, x \in Contents : PutDocument(c, a, d, n, id, x)
          \/ \E id \in DocumentIds \union {""}, x \in Contents : CreateDocument(c, a, d, n, id, x)
          \/ \E id \in DocumentIds : DeleteDocument(c, a, d, n, id)
=============================================================================
