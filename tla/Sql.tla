-------------------------------- MODULE Sql --------------------------------
(***************************************************************************)
(* Microsoft.Sql (internal/services/sql): servers, and the databases,      *)
(* firewall rules and connection policies kept under them.  A resource is  *)
(* named by its server and its own name.                                   *)
(***************************************************************************)
EXTENDS ArmStore

CONSTANTS
    ServerNames,
    ServerParts,  \* names of databases, rules and policies
    Logins,       \* administrator logins, and contents stored as they are
    Days          \* times a creation can be recorded at

-----------------------------------------------------------------------------

Server(s) == <<"sql.servers", s>>
Database(s, d) == <<"sql.databases", s, d>>
FirewallRule(s, r) == <<"sql.firewallrules", s, r>>
ConnectionPolicy(s, p) == <<"sql.connectionpolicies", s, p>>

\* The login and the version of a server do not change after its creation;
\* every other field is the request's.
PutServer(c, s, login, tls) ==
    Putting(c, Server(s), [login |-> Kept(Server(s), "login", login), tls |-> tls])

\* The server goes and nothing kept under it.
DeleteServer(c, s) == Deleting(c, Server(s))

\* What is not asked for is taken from the database as it was: its creation
\* date always, its redundancy and its SKU when the request has none.
PutDatabase(c, s, d, redundancy, sku, day) ==
    LET k == Database(s, d)
        kept == Kept(k, "redundancy", "")
    IN  /\ Has(Server(s))
        /\ Putting(c, k,
              [created |-> Kept(k, "created", day),
               redundancy |-> IF redundancy # "" THEN redundancy
                              ELSE IF kept # "" THEN kept ELSE "Geo",
               sku |-> IF sku # "" THEN sku ELSE Kept(k, "sku", "")])

\* No request on a child but its PUT looks at the server.
DeleteDatabase(c, s, d) == Deleting(c, Database(s, d))

PutFirewallRule(c, s, r, start, end) ==
    /\ Has(Server(s))
    /\ start # "" /\ end # ""
    /\ Putting(c, FirewallRule(s, r), [start |-> start, end |-> end])
DeleteFirewallRule(c, s, r) == Deleting(c, FirewallRule(s, r))

PutConnectionPolicy(c, s, p, type) ==
    /\ Has(Server(s))
    /\ Putting(c, ConnectionPolicy(s, p), [type |-> IF type = "" THEN "Default" ELSE type])

-----------------------------------------------------------------------------

SqlNext(c) ==
    \/ \E s \in ServerNames, l \in Logins, tls \in {"1.2"} : PutServer(c, s, l, tls)
    \/ \E s \in ServerNames : DeleteServer(c, s)
    \/ \E s \in ServerNames, d \in ServerParts :
          \/ \E day \in Days, r \in {"", "Local"}, sku \in {"", "Basic"} : PutDatabase(c, s, d, r, sku, day)
          \/ DeleteDatabase(c, s, d)
          \/ \E start \in {"", "10.0.0.1"} : PutFirewallRule(c, s, d, start, "10.0.0.9")
          \/ DeleteFirewallRule(c, s, d)
    \/ \E s \in ServerNames, type \in {"", "Proxy"} : PutConnectionPolicy(c, s, "default", type)
=============================================================================
