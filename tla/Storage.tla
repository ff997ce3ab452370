------------------------------ MODULE Storage ------------------------------
(***************************************************************************)
(* The data planes of Blob and Table Storage (internal/services/blob and   *)
(* table): containers of blobs, tables of entities.  Deleting a container  *)
(* or a table deletes what it holds first, one database call at a time.    *)
(*                                                                         *)
(* An account is not named: requests name one, and nothing looks it up.    *)
(***************************************************************************)
EXTENDS ArmStore

CONSTANTS
    ContainerIds, \* names of blob containers
    BlobNames,
    TableNames,
    EntityKeys,   \* a partition key and a row key
    Payloads,     \* contents of blobs, and values of an entity's properties
    Fields,       \* an entity's properties
    Ticks         \* instants an entity's ETag is made of

-----------------------------------------------------------------------------
(* Blobs *)

BlobContainer(n) == <<"blob.containers", n>>
Blob(n, b) == <<"blob.blobs", n, b>>

CreateContainer(c, n) == ~Has(BlobContainer(n)) /\ Putting(c, BlobContainer(n), [name |-> n])

DeleteBlobContainer(c, n) ==
    /\ Has(BlobContainer(n))
    /\ Begin(c, "delete", BlobContainer(n), <<Sweep(<<"blob.blobs", n>>, ""), Drop(BlobContainer(n))>>)

\* A blob is replaced whole.
PutBlob(c, n, b, x) == Has(BlobContainer(n)) /\ Putting(c, Blob(n, b), [content |-> x])

\* A deletion does not look at the container.
DeleteBlob(c, n, b) == Deleting(c, Blob(n, b))

-----------------------------------------------------------------------------
(* Tables *)

Table(n) == <<"table.tables", n>>
Entity(n, e) == <<"table.entities", n, e>>

CreateTable(c, n) == ~Has(Table(n)) /\ Putting(c, Table(n), [name |-> n])

DeleteTable(c, n) ==
    /\ Has(Table(n))
    /\ Begin(c, "delete", Table(n), <<Sweep(<<"table.entities", n>>, ""), Drop(Table(n))>>)

\* Every route to an entity asks for the table first.
TableExists(n) == Has(Table(n))

ETagNow(k, t) == Has(k) => t > docs[k].etag

InsertEntity(c, n, e, properties, t) ==
    /\ TableExists(n)
    /\ ~Has(Entity(n, e))
    /\ Begin(c, "insert", Entity(n, e), <<Store(Entity(n, e), [etag |-> t, properties |-> properties])>>)

\* The condition a request makes of the version it writes over: none (0), or
\* its ETag.
Meets(k, ifMatch) == ifMatch = 0 \/ ifMatch = docs[k].etag

\* The properties asked for, and the others as they were.
Merged(properties, stored) ==
    [f \in DOMAIN properties \union DOMAIN stored |->
        IF f \in DOMAIN properties THEN properties[f] ELSE stored[f]]

\* PUT replaces an entity or creates it, MERGE keeps the properties the
\* request does not have; the condition is for an entity that is there.
UpsertEntity(c, n, e, properties, merge, ifMatch, t) ==
    LET k == Entity(n, e)
    IN  /\ TableExists(n)
        /\ Has(k) => Meets(k, ifMatch)
        /\ ETagNow(k, t)
        /\ Begin(c, IF merge THEN "merge" ELSE "put", k,
                 <<Store(k, [etag |-> t,
                             properties |-> IF merge /\ Has(k) THEN Merged(properties, docs[k].properties)
                                            ELSE properties])>>)

DeleteEntity(c, n, e, ifMatch) ==
    /\ TableExists(n)
    /\ Has(Entity(n, e)) /\ Meets(Entity(n, e), ifMatch)
    /\ Deleting(c, Entity(n, e))

-----------------------------------------------------------------------------

BlobNext(c) ==
    \E n \in ContainerIds :
       \/ CreateContainer(c, n)
       \/ DeleteBlobContainer(c, n)
       \/ \E b \in BlobNames :
             \/ \E x \in Payloads : PutBlob(c, n, b, x)
             \/ DeleteBlob(c, n, b)

TableNext(c) ==
    \E n \in TableNames :
       \/ CreateTable(c, n)
       \/ DeleteTable(c, n)
       \/ \E e \in EntityKeys, ifMatch \in {0} \union Ticks :
             \/ DeleteEntity(c, n, e, ifMatch)
             \/ \E f \in Fields, x \in Payloads, t \in Ticks :
                   \/ InsertEntity(c, n, e, (f :> x), t)
                   \/ \E merge \in BOOLEAN : UpsertEntity(c, n, e, (f :> x), merge, ifMatch, t)
=============================================================================
