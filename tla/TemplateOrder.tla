--------------------------- MODULE TemplateOrder ----------------------------
(***************************************************************************)
(* orderByDependencies of internal/services/deployments/template.go: the   *)
(* depth-first search that orders the resources of a template so that each *)
(* one is deployed after those it depends on.  The recursion of visit is   *)
(* its call stack; an action is one step of the loop in visit or of the    *)
(* loop that calls it.                                                     *)
(***************************************************************************)
EXTENDS Integers, Sequences, FiniteSets

CONSTANTS
    Paths,        \* ARM paths a resource may have or a dependsOn may name
    MaxResources  \* bound on the resources of a template

\* A resolved resource: its path, and the paths its dependsOn evaluates to
\* (entries that do not evaluate are skipped by the code).
Resource == [path : Paths, dependsOn : SUBSET Paths]

ASSUME MaxAssumption == MaxResources \in Nat

VARIABLES
    resources,  \* the template, in the order it declares them
    next,       \* the resource the outer loop visits next
    stack,      \* the calls of visit in progress, outermost first
    pending,    \* of each resource, the dependencies visit has yet to follow
    color,      \* white: not visited; gray: being visited; black: ordered
    order,      \* the resources ordered so far
    verdict     \* "running", "ordered", or "cycle" for the 400 answer

vars == <<resources, next, stack, pending, color, order, verdict>>

Index == DOMAIN resources

\* Every variable has the type the code gives it.
TypeOK ==
    /\ \E n \in 0..MaxResources : resources \in [1..n -> Resource]
    /\ next \in Nat \ {0}
    /\ stack \in Seq(Index)
    /\ pending \in [Index -> SUBSET Index]
    /\ color \in [Index -> {"white", "gray", "black"}]
    /\ order \in Seq(Index)
    /\ verdict \in {"running", "ordered", "cycle"}

-----------------------------------------------------------------------------

\* pathToIdx: of resources with one path, the last declared is found.
Named(path, j) ==
    /\ resources[j].path = path
    /\ \A other \in Index : other > j => resources[other].path # path

\* The resources of the template that i depends on.
Deps(i) == {j \in Index : j # i /\ \E path \in resources[i].dependsOn : Named(path, j)}

Init ==
    /\ \E n \in 0..MaxResources : resources \in [1..n -> Resource]
    /\ next = 1
    /\ stack = <<>>
    /\ pending = [i \in Index |-> Deps(i)]
    /\ color = [i \in Index |-> "white"]
    /\ order = <<>>
    /\ verdict = "running"

Top == stack[Len(stack)]

Call(i) ==
    /\ color[i] = "white"
    /\ color' = [color EXCEPT ![i] = "gray"]
    /\ stack' = Append(stack, i)

\* The outer loop: visit the next resource, which returns at once if black.
VisitNext ==
    /\ verdict = "running" /\ stack = <<>> /\ next \in Index
    /\ next' = next + 1
    /\ \/ Call(next)
       \/ color[next] = "black" /\ UNCHANGED <<color, stack>>
    /\ UNCHANGED <<resources, pending, order, verdict>>

\* Fault: a gray resource is taken for one already ordered.
FollowThroughGray ==
    /\ verdict = "running" /\ stack # <<>>
    /\ \E j \in pending[Top] :
         /\ pending' = [pending EXCEPT ![Top] = @ \ {j}]
         /\ \/ Call(j)
            \/ color[j] # "white" /\ UNCHANGED <<color, stack>>
    /\ UNCHANGED <<resources, next, order, verdict>>

\* Fault: the dependency followed is not taken off the list.
FollowAgain ==
    /\ verdict = "running" /\ stack # <<>>
    /\ \E j \in pending[Top] :
         \/ Call(j) /\ UNCHANGED verdict
         \/ color[j] = "black" /\ UNCHANGED <<color, stack, verdict>>
         \/ color[j] = "gray" /\ verdict' = "cycle" /\ UNCHANGED <<color, stack>>
    /\ UNCHANGED <<resources, next, pending, order>>

\* Follow a dependency of the innermost call; a gray one closes a cycle.
Follow ==
    /\ verdict = "running" /\ stack # <<>>
    /\ \E j \in pending[Top] :
         /\ pending' = [pending EXCEPT ![Top] = @ \ {j}]
         /\ \/ Call(j) /\ UNCHANGED verdict
            \/ color[j] = "black" /\ UNCHANGED <<color, stack, verdict>>
            \/ color[j] = "gray" /\ verdict' = "cycle" /\ UNCHANGED <<color, stack>>
    /\ UNCHANGED <<resources, next, order>>

\* Fault: a resource is ordered before its dependencies are followed.
FinishEarly ==
    /\ verdict = "running" /\ stack # <<>>
    /\ color' = [color EXCEPT ![Top] = "black"]
    /\ order' = Append(order, Top)
    /\ stack' = SubSeq(stack, 1, Len(stack) - 1)
    /\ UNCHANGED <<resources, next, pending, verdict>>

\* Every dependency of the innermost call is ordered: order it and return.
Finish ==
    /\ verdict = "running" /\ stack # <<>>
    /\ pending[Top] = {}
    /\ color' = [color EXCEPT ![Top] = "black"]
    /\ order' = Append(order, Top)
    /\ stack' = SubSeq(stack, 1, Len(stack) - 1)
    /\ UNCHANGED <<resources, next, pending, verdict>>

\* Every resource was visited.
Done ==
    /\ verdict = "running" /\ stack = <<>> /\ next \notin Index
    /\ verdict' = "ordered"
    /\ UNCHANGED <<resources, next, stack, pending, color, order>>

Step == VisitNext \/ Follow \/ Finish \/ Done

Next == Step \/ (verdict # "running" /\ UNCHANGED vars)

Spec == Init /\ [][Next]_vars /\ WF_vars(Step)

-----------------------------------------------------------------------------

\* Whatever is ordered comes after every resource it depends on, whatever the
\* order of declaration (dispatchResources relies on it).
DependenciesFirst ==
    \A k \in 1..Len(order) : \A j \in Deps(order[k]) : \E m \in 1..(k - 1) : order[m] = j

\* No resource is ordered twice, and a search that succeeds leaves none out.
EachOnce ==
    /\ \A k, m \in 1..Len(order) : order[k] = order[m] => k = m
    /\ verdict = "ordered" => \A i \in Index : \E k \in 1..Len(order) : order[k] = i

\* There is a cycle when some resources each depend on another of them.
Cyclic == \E cycle \in (SUBSET Index) \ {{}} : \A i \in cycle : \E j \in cycle : j \in Deps(i)

\* A template is refused if and only if its dependencies have a cycle: a
\* dependency on itself, on a resource elsewhere, or met twice is none.
VerdictIsRight == (verdict = "cycle" => Cyclic) /\ (verdict = "ordered" => ~Cyclic)

\* The search of any template ends.
Ends == <>(verdict # "running")
=============================================================================
