--------------------------- MODULE MCAlgorithms ---------------------------
(* Instances of the algorithms for TLC. *)
EXTENDS Algorithms

Lit(v) == [kind |-> "literal", of |-> v]
Par(p) == [kind |-> "parameters", of |-> p]
Var(v) == [kind |-> "variables", of |-> v]

\* One parameter in every way it can be declared and supplied, two variables
\* of up to two leaves, which refer to anything, and a resource that uses
\* both or a parameter.
MCLeaves == {Lit("a"), Par("p"), Var("v"), Var("w")}
MCRaw == UNION {[1..n -> MCLeaves] : n \in 1..2}
MCTemplates ==
    [declared : Given({"p"}, {<<>>, <<"a">>}), supplied : Given({"p"}, {<<"b">>}),
     variables : Given({"v", "w"}, MCRaw), uses : {<<Var("v"), Var("w")>>, <<Var("v"), Par("p")>>}]

\* Two types of one namespace and one of another.
MCTypeOf == [p1 |-> <<"A", "x">>, p2 |-> <<"B", "y">>, p3 |-> <<"A", "z">>]

MCTokens == {"subscriptions", "resourceGroups", "providers", "Microsoft.Network", "Microsoft.ServiceBus",
             "virtualNetworks", "subnets", "networkInterfaces", "namespaces", "topics", "servers"}
MCTypes == {<<"Microsoft.Network", <<"networkInterfaces">>>>,
            <<"Microsoft.Network", <<"virtualNetworks", "subnets">>>>,
            <<"Microsoft.ServiceBus", <<"namespaces", "topics", "subscriptions">>>>,
            <<"Microsoft.Network", <<"virtualNetworks", "subnets", "servers">>>>}

\* Two units, and a width that some of the intervals pass.
MCUnits == [second |-> 1, minute |-> 3]
MCMonthDays == <<3, 2, 4>>
=============================================================================
