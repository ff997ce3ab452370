----------------------------- MODULE Resources -----------------------------
(***************************************************************************)
(* Resource groups, storage accounts and container registries              *)
(* (internal/services/resourcemanager, storageaccounts and                 *)
(* containerregistry).                                                     *)
(***************************************************************************)
EXTENDS ArmStore

CONSTANTS
    ResourceGroups,
    RegistryNames, \* of registries and storage accounts
    Skus,          \* contents the emulator stores and returns as they are
    Dates

-----------------------------------------------------------------------------

Group(g) == <<"resourcemanager.resourcegroups", g>>
StorageAccount(g, n) == <<"storage.storageaccounts", g, n>>
Registry(g, n) == <<"containerregistry.registries", g, n>>

PutResourceGroup(c, g, tags) == Putting(c, Group(g), [tags |-> tags])

\* Nothing in the group goes with it, and nothing needs it.
DeleteResourceGroup(c, g) == Deleting(c, Group(g))

PutStorageAccount(c, g, n, sku, kind) ==
    Putting(c, StorageAccount(g, n), [sku |-> sku, kind |-> IF kind = "" THEN "StorageV2" ELSE kind])
DeleteStorageAccount(c, g, n) == Deleting(c, StorageAccount(g, n))

\* A registry keeps the date of its creation; its tier is its SKU's name
\* when the request has none, and its policies are always the defaults.
PutRegistry(c, g, n, sku, admin, today) ==
    Putting(c, Registry(g, n),
            [sku |-> sku, admin |-> admin, created |-> Kept(Registry(g, n), "created", today)])
DeleteRegistry(c, g, n) == Deleting(c, Registry(g, n))

-----------------------------------------------------------------------------

ResourceNext(c) ==
    \E g \in ResourceGroups :
       \/ \E tags \in Skus : PutResourceGroup(c, g, tags)
       \/ DeleteResourceGroup(c, g)
       \/ \E n \in RegistryNames :
             \/ \E sku \in Skus, kind \in {"", "BlobStorage"} : PutStorageAccount(c, g, n, sku, kind)
             \/ DeleteStorageAccount(c, g, n)
             \/ \E sku \in Skus, admin \in BOOLEAN, today \in Dates : PutRegistry(c, g, n, sku, admin, today)
             \/ DeleteRegistry(c, g, n)
=============================================================================
