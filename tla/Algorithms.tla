---------------------------- MODULE Algorithms ----------------------------
(***************************************************************************)
(* The computations of the emulator that are not about shared state, each  *)
(* a task of its own:                                                      *)
(*   "template"    what putDeployment does with a template before and      *)
(*                 after it dispatches the resources: it evaluates the     *)
(*                 expressions, orders the resources and lists providers;  *)
(*   "id"          a path is rewritten, routed and parsed;                 *)
(*   "recurrence"  a recurring workflow computes when to fire.             *)
(***************************************************************************)
EXTENDS TemplateOrder, TemplateResolution, Providers, ResourceIds, Recurrences

CONSTANT TypeOf  \* the namespace and type of the resource at each path

ASSUME TypeOfAssumption == \A p \in Paths : p \in DOMAIN TypeOf /\ TypeOf[p] = <<TypeOf[p][1], TypeOf[p][2]>>

VARIABLE task

allVars == <<task, vars, resolution, listing, ids, firing>>

-----------------------------------------------------------------------------

\* A template with nothing to evaluate and one with nothing to order.
Plain == [declared |-> << >>, supplied |-> << >>, variables |-> << >>, uses |-> <<>>]

ResolutionIdle ==
    /\ template = Plain
    /\ phase = "resolved"
    /\ left = {}
    /\ parameters = << >>
    /\ variables = << >>
    /\ values = <<>>

OrderIdle ==
    /\ resources = <<>>
    /\ next = 1
    /\ stack = <<>>
    /\ pending = << >>
    /\ color = << >>
    /\ order = <<>>
    /\ verdict = "running"

IdsIdle ==
    /\ asked = NoId
    /\ path = <<>>
    /\ rest = <<>>
    /\ id = NoId
    /\ parsing = "before"

FiringIdle ==
    /\ frequency = "month"
    /\ interval = 1
    /\ anchor = 0
    /\ now = 0
    /\ due = 0
    /\ loop = "asking"

AllInit ==
    /\ ListingInit
    /\ \/ task = "template" /\ ResolutionInit /\ OrderIdle /\ IdsIdle /\ FiringIdle
       \/ task = "template" /\ ResolutionIdle /\ Init /\ IdsIdle /\ FiringIdle
       \/ task = "id" /\ ResolutionIdle /\ OrderIdle /\ IdsInit /\ FiringIdle
       \/ task = "recurrence" /\ ResolutionIdle /\ OrderIdle /\ IdsIdle /\ FiringInit

\* The stages of putDeployment follow one another; a refusal ends them.
Resolve ==
    /\ task = "template"
    /\ ResolutionNext
    /\ UNCHANGED <<task, vars, listing, ids, firing>>

Order ==
    /\ task = "template" /\ phase = "resolved"
    /\ Step
    /\ UNCHANGED <<task, resolution, listing, ids, firing>>

BuildProviders ==
    /\ task = "template" /\ verdict = "ordered"
    /\ \/ Collect([k \in DOMAIN order |-> TypeOf[resources[order[k]].path]])
       \/ met = Len(order) /\ ListingNext
    /\ UNCHANGED <<task, vars, resolution, ids, firing>>

ParseId ==
    /\ task = "id"
    /\ IdsNext
    /\ UNCHANGED <<task, vars, resolution, listing, firing>>

Recur ==
    /\ task = "recurrence"
    /\ FiringNext
    /\ UNCHANGED <<task, vars, resolution, listing, ids>>

\* No loop of these waits for anything but the timer.
AllSpec ==
    /\ AllInit
    /\ [][Resolve \/ Order \/ BuildProviders \/ ParseId \/ Recur]_allVars
    /\ WF_allVars(Resolve \/ Order \/ BuildProviders)

-----------------------------------------------------------------------------

\* Every template is answered: refused for an expression or for a cycle, or
\* resolved, ordered and listed.  Neither the walks nor the search go on for
\* ever, whatever refers to what.
TemplatesAnswered ==
    task = "template" ~>
       phase = "refused" \/ verdict = "cycle" \/ (verdict = "ordered" /\ met = Len(order) /\ placed = Len(keys))
=============================================================================
