------------------------------ MODULE Identity ------------------------------
(***************************************************************************)
(* Who may do what (internal/services/authorization, graph and             *)
(* managedidentity): role definitions and assignments, applications and    *)
(* service principals, user-assigned identities.                           *)
(***************************************************************************)
EXTENDS ArmStore

CONSTANTS
    RoleNames,    \* of definitions, assignments and identities
    Scopes,       \* an assignment is kept under a subscription or a group
    Guids         \* ids drawn at random, never one drawn before

ASSUME ScopesAssumption == Scopes \subseteq {"subscription", "resourcegroup"}

-----------------------------------------------------------------------------
(* Roles *)

RoleDefinition(r) == <<"authorization.roledefinitions", r>>
RoleAssignment(scope, r) == <<"authorization.roleassignments", scope, r>>

PutRoleDefinition(c, r, scopes) == scopes # {} /\ Putting(c, RoleDefinition(r), [scopes |-> scopes])
DeleteRoleDefinition(c, r) == Deleting(c, RoleDefinition(r))

\* The definition and the principal must be named; they need not be stored.
PutRoleAssignment(c, scope, r, definition, principal) ==
    /\ definition # "" /\ principal # ""
    /\ Putting(c, RoleAssignment(scope, r), [definition |-> definition, principal |-> principal])
DeleteRoleAssignment(c, scope, r) == Deleting(c, RoleAssignment(scope, r))

-----------------------------------------------------------------------------
(* Graph *)

Application(id) == <<"graph.applications", id>>
ServicePrincipal(id) == <<"graph.serviceprincipals", id>>

\* A principal's id is computed from its application's, so that there is one
\* for each application; the hash has no collision that a test would see.
FakeObjectID(appId) == <<"object", appId>>

\* Ids that no application has: a new one is drawn from them.
Fresh == {i \in Guids : ~Has(Application(i)) /\ \A k \in InBucket("graph.applications") : docs[k].appId # i}

CreateApplication(c, name) ==
    \E id \in Fresh, appId \in Fresh :
       /\ id # appId
       /\ Begin(c, "put", Application(id), <<Store(Application(id), [appId |-> appId, name |-> name])>>)
DeleteApplication(c, id) == Deleting(c, Application(id))

\* The application need not be there; a second creation replaces the first.
CreateServicePrincipal(c, appId, name) ==
    Putting(c, ServicePrincipal(FakeObjectID(appId)), [appId |-> appId, name |-> name])
DeleteServicePrincipal(c, id) == Deleting(c, ServicePrincipal(id))

-----------------------------------------------------------------------------
(* Identities *)

Identity(r) == <<"managedidentity.userassignedidentities", r>>

\* The ids of an identity are made with it and kept.
PutUserAssignedIdentity(c, r, tags) ==
    Putting(c, Identity(r), [tags |-> tags, ids |-> Kept(Identity(r), "ids", <<"principal", r>>)])
DeleteUserAssignedIdentity(c, r) == Deleting(c, Identity(r))

-----------------------------------------------------------------------------

IdentityNext(c) ==
    \/ \E r \in RoleNames :
          \/ \E s \in SUBSET Scopes : PutRoleDefinition(c, r, s)
          \/ DeleteRoleDefinition(c, r)
          \/ \E s \in Scopes : PutRoleAssignment(c, s, r, r, "someone")
          \/ \E s \in Scopes : DeleteRoleAssignment(c, s, r)
          \/ \E tags \in BOOLEAN : PutUserAssignedIdentity(c, r, tags)
          \/ DeleteUserAssignedIdentity(c, r)

GraphNext(c) ==
    \/ CreateApplication(c, "app")
    \/ \E id \in Guids : DeleteApplication(c, id)
    \/ \E id \in Guids : CreateServicePrincipal(c, id, "principal")
    \/ \E id \in Guids : DeleteServicePrincipal(c, FakeObjectID(id))
=============================================================================
