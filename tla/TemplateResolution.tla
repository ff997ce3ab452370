-------------------------- MODULE TemplateResolution ------------------------
(***************************************************************************)
(* How a deployment evaluates its template (resolveParameters,             *)
(* resolveVariables and resolveResources of template.go): parameters, then *)
(* variables, then what the resources use, each in a loop that stops at    *)
(* the first error.  The first two loops range over Go maps, in any order. *)
(*                                                                         *)
(* A JSON value stands for the sequence of its leaves, and an expression   *)
(* is a leaf: a literal, parameters('p') or variables('v').                *)
(***************************************************************************)
EXTENDS Integers, Sequences, SequencesExt, FiniteSets

CONSTANTS
    ParameterNames, VariableNames,
    Literals,      \* the leaves that are no expression
    Templates      \* the templates, with the values supplied, to resolve

Leaf == [kind : {"literal"}, of : Literals]
        \union [kind : {"parameters"}, of : ParameterNames]
        \union [kind : {"variables"}, of : VariableNames]

\* Partial functions: the names in the domain are those that are given.
Given(names, values) == UNION {[some -> values] : some \in SUBSET names}

\* "declared" gives each declared parameter its default, <<>> for none;
\* "uses" is what the resources' name, location, properties, sku and identity
\* say, in their order.
ASSUME NamesAssumption == IsFiniteSet(VariableNames)
ASSUME TemplatesAssumption ==
    \A t \in Templates :
       /\ t.declared \in Given(ParameterNames, {<<>>} \union {<<v>> : v \in Literals})
       /\ t.supplied \in Given(ParameterNames, {<<v>> : v \in Literals})
       /\ DOMAIN t.variables \subseteq VariableNames
       /\ \A v \in DOMAIN t.variables : t.variables[v] \in Seq(Leaf)
       /\ t.uses \in Seq(Leaf)

VARIABLES
    template,
    phase,         \* the loop in progress, "resolved", or "refused" for the 400 answer
    left,          \* the names the loop has not met
    parameters,    \* what evalContext holds
    variables,
    values         \* what the uses gave

resolution == <<template, phase, left, parameters, variables, values>>

-----------------------------------------------------------------------------

Set(f, x, y) == [z \in DOMAIN f \union {x} |-> IF z = x THEN y ELSE f[z]]

\* callFunction: a name that the context does not hold is an error.
Evaluates(leaf) ==
    /\ leaf.kind = "parameters" => leaf.of \in DOMAIN parameters
    /\ leaf.kind = "variables" => leaf.of \in DOMAIN variables

EvalExpression(leaf) ==
    CASE leaf.kind = "parameters" -> parameters[leaf.of]
      [] leaf.kind = "variables" -> variables[leaf.of]
      [] OTHER -> <<leaf.of>>

\* resolveValue: every leaf is evaluated in its place.
ResolveValue(raw) == FlattenSeq([i \in DOMAIN raw |-> EvalExpression(raw[i])])

ResolutionInit ==
    /\ template \in Templates
    /\ phase = "parameters"
    /\ left = DOMAIN template.declared
    /\ parameters = << >>
    /\ variables = << >>
    /\ values = <<>>

Refuse == phase' = "refused" /\ UNCHANGED <<template, left, parameters, variables, values>>

\* A broken ResolveParameter: a default hides the value supplied.
ResolveParameterByDefault(p) ==
    /\ phase = "parameters"
    /\ p \in left
    /\ left' = left \ {p}
    /\ \/ template.declared[p] # <<>> /\ parameters' = Set(parameters, p, template.declared[p])
       \/ /\ template.declared[p] = <<>>
          /\ p \in DOMAIN template.supplied
          /\ parameters' = Set(parameters, p, template.supplied[p])
    /\ UNCHANGED <<template, phase, variables, values>>

\* The value supplied, or else the default.
ResolveParameter(p) ==
    /\ phase = "parameters"
    /\ p \in left
    /\ left' = left \ {p}
    /\ \/ p \in DOMAIN template.supplied /\ parameters' = Set(parameters, p, template.supplied[p])
       \/ /\ p \notin DOMAIN template.supplied
          /\ template.declared[p] # <<>>
          /\ parameters' = Set(parameters, p, template.declared[p])
    /\ UNCHANGED <<template, phase, variables, values>>

\* Neither: the deployment is refused.
MissParameter(p) ==
    /\ phase = "parameters"
    /\ p \in left \ DOMAIN template.supplied
    /\ template.declared[p] = <<>>
    /\ Refuse

ParametersResolved ==
    /\ phase = "parameters" /\ left = {}
    /\ phase' = "variables"
    /\ left' = DOMAIN template.variables
    /\ UNCHANGED <<template, parameters, variables, values>>

\* A variable is resolved when the loop meets it, from what is resolved then.
ResolveVariable(v) ==
    /\ phase = "variables"
    /\ v \in left
    /\ \A i \in DOMAIN template.variables[v] : Evaluates(template.variables[v][i])
    /\ variables' = Set(variables, v, ResolveValue(template.variables[v]))
    /\ left' = left \ {v}
    /\ UNCHANGED <<template, phase, parameters, values>>

MissVariable(v) ==
    /\ phase = "variables"
    /\ v \in left
    /\ \E i \in DOMAIN template.variables[v] : ~Evaluates(template.variables[v][i])
    /\ Refuse

VariablesResolved ==
    /\ phase = "variables" /\ left = {}
    /\ phase' = "resources"
    /\ UNCHANGED <<template, left, parameters, variables, values>>

\* The next expression that a resource uses.
ResolveResource ==
    /\ phase = "resources" /\ Len(values) < Len(template.uses)
    /\ LET leaf == template.uses[Len(values) + 1]
       IN  \/ /\ Evaluates(leaf)
              /\ values' = Append(values, EvalExpression(leaf))
              /\ UNCHANGED <<template, phase, left, parameters, variables>>
           \/ ~Evaluates(leaf) /\ Refuse

ResourcesResolved ==
    /\ phase = "resources" /\ Len(values) = Len(template.uses)
    /\ phase' = "resolved"
    /\ UNCHANGED <<template, left, parameters, variables, values>>

ResolutionNext ==
    \/ \E p \in ParameterNames : ResolveParameter(p) \/ MissParameter(p)
    \/ ParametersResolved
    \/ \E v \in VariableNames : ResolveVariable(v) \/ MissVariable(v)
    \/ VariablesResolved
    \/ ResolveResource
    \/ ResourcesResolved

-----------------------------------------------------------------------------

\* What a template means, with no order of evaluation: a parameter is the
\* value supplied, or else its default, and a variable is replaced by what it
\* says, as often as it takes.
Meaning[depth \in Nat] ==
    [leaf \in Leaf |->
        CASE leaf.kind = "literal" -> <<leaf.of>>
          [] leaf.kind = "parameters" ->
                IF leaf.of \in DOMAIN template.supplied THEN template.supplied[leaf.of] ELSE template.declared[leaf.of]
          [] OTHER -> IF depth = 0 THEN <<>> ELSE
                LET raw == template.variables[leaf.of]
                IN  FlattenSeq([i \in DOMAIN raw |-> Meaning[depth - 1][raw[i]]])]

\* The names that the expressions of a sequence refer to.
Refers(kind, raw) == {raw[i].of : i \in {i \in DOMAIN raw : raw[i].kind = kind}}

ReferredTo(kind) ==
    UNION {Refers(kind, raw) : raw \in {template.uses} \union {template.variables[v] : v \in DOMAIN template.variables}}

\* Something the template needs is not there.
Incomplete ==
    \/ \E p \in DOMAIN template.declared : template.declared[p] = <<>> /\ p \notin DOMAIN template.supplied
    \/ ~(ReferredTo("parameters") \subseteq DOMAIN template.declared)
    \/ ~(ReferredTo("variables") \subseteq DOMAIN template.variables)

\* Whatever the order in which Go walks the parameters and variables, a
\* template that is resolved has given its resources what it means, and a
\* complete one is refused only when one of its variables refers to a variable.
\* (There the order of the walk decides, although the comment of
\* resolveVariables says that it is the declared one.)
ResolutionIsRight ==
    /\ phase = "resolved" =>
          values = [i \in DOMAIN template.uses |-> Meaning[Cardinality(VariableNames)][template.uses[i]]]
    /\ phase = "refused" =>
          Incomplete \/ \E v \in DOMAIN template.variables : Refers("variables", template.variables[v]) # {}
=============================================================================
