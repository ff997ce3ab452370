----------------------------- MODULE Providers -----------------------------
(***************************************************************************)
(* buildProviders of deployments.go: the namespaces and resource types     *)
(* that a deployment touched, as Terraform reads them to clean up.  The    *)
(* code keeps a pointer to the element of each namespace in a slice that   *)
(* it goes on appending to: when the slice is full, append copies it to a  *)
(* new array of twice the capacity, and the pointers stay with the old one.*)
(*                                                                         *)
(* The locations of a type are left out.                                   *)
(***************************************************************************)
EXTENDS Integers, Sequences, SequencesExt, FiniteSets

VARIABLES
    met,         \* how many resources the first loop has met
    keys,        \* the namespace and type of the resources, without repetition
    placed,      \* the keys that the second loop has met
    arrays,      \* the arrays behind the slice, the last one being the slice's
    byNamespace  \* namespace -> the array and position of its element

listing == <<met, keys, placed, arrays, byNamespace>>

-----------------------------------------------------------------------------

Capacity(a) == 2 ^ (a - 1)

\* append: in place, or in a new array.
Appended(provider) ==
    IF arrays # <<>> /\ Len(Last(arrays)) < Capacity(Len(arrays))
    THEN [arrays EXCEPT ![Len(arrays)] = Append(@, provider)]
    ELSE Append(arrays, IF arrays = <<>> THEN <<provider>> ELSE Append(Last(arrays), provider))

ListingInit ==
    /\ met = 0
    /\ keys = <<>>
    /\ placed = 0
    /\ arrays = <<>>
    /\ byNamespace = << >>

\* The first loop: each pair once, in the order of the resources.
Collect(pairs) ==
    /\ met < Len(pairs)
    /\ met' = met + 1
    /\ keys' = IF pairs[met + 1] \in ToSet(keys) THEN keys ELSE Append(keys, pairs[met + 1])
    /\ UNCHANGED <<placed, arrays, byNamespace>>

\* A broken NewNamespace: the pointer is to the first element of the slice.
NewNamespaceAtFirst ==
    /\ placed < Len(keys)
    /\ LET key == keys[placed + 1]
           after == Appended([namespace |-> key[1], types |-> <<key[2]>>])
       IN  /\ key[1] \notin DOMAIN byNamespace
           /\ arrays' = after
           /\ byNamespace' = [n \in DOMAIN byNamespace \union {key[1]} |->
                 IF n = key[1] THEN <<Len(after), 1>> ELSE byNamespace[n]]
    /\ placed' = placed + 1
    /\ UNCHANGED <<met, keys>>

\* The type of a namespace not met before.
NewNamespace ==
    /\ placed < Len(keys)
    /\ LET key == keys[placed + 1]
           after == Appended([namespace |-> key[1], types |-> <<key[2]>>])
       IN  /\ key[1] \notin DOMAIN byNamespace
           /\ arrays' = after
           /\ byNamespace' = [n \in DOMAIN byNamespace \union {key[1]} |->
                 IF n = key[1] THEN <<Len(after), Len(Last(after))>> ELSE byNamespace[n]]
    /\ placed' = placed + 1
    /\ UNCHANGED <<met, keys>>

\* Another type of a namespace, written through its pointer.
AnotherType ==
    /\ placed < Len(keys)
    /\ LET key == keys[placed + 1] IN
          /\ key[1] \in DOMAIN byNamespace
          /\ arrays' = [arrays EXCEPT ![byNamespace[key[1]][1]][byNamespace[key[1]][2]].types = Append(@, key[2])]
    /\ placed' = placed + 1
    /\ UNCHANGED <<met, keys, byNamespace>>

ListingNext == NewNamespace \/ AnotherType

-----------------------------------------------------------------------------

Providers == IF arrays = <<>> THEN <<>> ELSE Last(arrays)

\* The types of one namespace follow one another.
Contiguous == \A i, j, k \in DOMAIN keys : i < j /\ j < k /\ keys[i][1] = keys[k][1] => keys[j][1] = keys[i][1]

\* Where a key is listed: an element, and a type of it.
Places(key) ==
    {at \in {<<j, k>> : j \in DOMAIN Providers, k \in DOMAIN keys} :
       /\ Providers[at[1]].namespace = key[1]
       /\ at[2] \in DOMAIN Providers[at[1]].types
       /\ Providers[at[1]].types[at[2]] = key[2]}

\* Every namespace is listed once, and when the types of a namespace follow
\* one another in the order of deployment each type is listed once, under its
\* namespace.  (A type met after another namespace made the slice move is
\* written to the old array, and Terraform does not learn of it.)
TypesListed ==
    /\ \A i \in 1..placed : Cardinality({j \in DOMAIN Providers : Providers[j].namespace = keys[i][1]}) = 1
    /\ Contiguous => \A i \in 1..placed : Cardinality(Places(keys[i])) = 1
=============================================================================
