------------------------ MODULE Algorithms_proofs ------------------------
(***************************************************************************)
(* Theorems about the computations of Algorithms, for templates, paths and *)
(* calendars of any size.  Each computation has its invariant, which the   *)
(* steps of the others leave alone; what a recursion computes is proved by *)
(* way of the least number at which it would be wrong.                     *)
(***************************************************************************)
EXTENDS Algorithms, SequenceTheorems, FiniteSetTheorems, WellFoundedInduction, TLAPS

\* A set of numbers has a least one.
LEMMA Least ==
  ASSUME NEW T \in SUBSET Nat, T # {}
  PROVE  \E m \in T : \A k \in T : m <= k
<1>1. PICK m \in T : \A k \in T : <<k, m>> \notin OpToRel(<, Nat)
  BY NatLessThanWellFounded, WFMin, Zenon
<1>2. \A k \in T : ~(k < m)
  BY <1>1, Zenon DEF OpToRel
<1>3. QED
  BY <1>2

-----------------------------------------------------------------------------

\* The order of a template.

AllNext == Resolve \/ Order \/ BuildProviders \/ ParseId \/ Recur

\* A deployment begins with a template to order, which may be empty, and only
\* the search works at the order.
LEMMA OrderWithin ==
  /\ AllInit => Init
  /\ [AllNext]_allVars => [Next]_vars
<1>1. AllInit => Init
  <2>1. OrderIdle => Init
    <3> SUFFICES ASSUME OrderIdle PROVE Init
      OBVIOUS
    <3>1. Index = {} /\ 0 \in 0..MaxResources /\ resources \in [1..0 -> Resource]
      BY MaxAssumption DEF OrderIdle, Index
    <3>2. pending = [i \in Index |-> Deps(i)] /\ color = [i \in Index |-> "white"]
      BY <3>1 DEF OrderIdle
    <3>3. QED
      BY <3>1, <3>2 DEF OrderIdle, Init
  <2>2. QED
    BY <2>1 DEF AllInit
<1>2. [AllNext]_allVars => [Next]_vars
  BY DEF AllNext, allVars, Resolve, Order, BuildProviders, ParseId, Recur, Next
<1>3. QED
  BY <1>1, <1>2

\* Deps and Cyclic as functions of the template, which never changes.
DepsOf(r, i) ==
    {j \in DOMAIN r : /\ j # i
                      /\ \E p \in r[i].dependsOn :
                           /\ r[j].path = p
                           /\ \A other \in DOMAIN r : other > j => r[other].path # p}

CyclicOf(r) ==
    \E cycle \in (SUBSET DOMAIN r) \ {{}} : \A i \in cycle : \E j \in cycle : j \in DepsOf(r, i)

On(s, i) == \E k \in 1..Len(s) : s[k] = i
Distinct(s) == \A k, m \in 1..Len(s) : s[k] = s[m] => k = m

\* A dependency of a gray resource that is no longer pending is ordered, or
\* is the call the resource waits for.
Waits(c, s, i, j) == c[j] = "black" \/ \E k \in 1..(Len(s) - 1) : s[k] = i /\ s[k + 1] = j

ColorInv ==
    /\ \A i \in Index : color[i] = "black" <=> On(order, i)
    /\ \A i \in Index : color[i] = "gray" <=> On(stack, i)
    /\ \A i \in Index : i < next => color[i] # "white"
    /\ Distinct(order) /\ Distinct(stack)

PendingInv ==
    /\ \A i \in Index : color[i] = "white" => pending[i] = DepsOf(resources, i)
    /\ \A i \in Index : pending[i] \subseteq DepsOf(resources, i)
    /\ \A k \in 1..(Len(stack) - 1) : stack[k + 1] \in DepsOf(resources, stack[k])
    /\ verdict # "cycle" =>
         \A i \in Index : color[i] = "gray" =>
           \A j \in DepsOf(resources, i) \ pending[i] : Waits(color, stack, i, j)

BlackInv ==
    /\ \A i \in Index : color[i] = "black" =>
         \A j \in DepsOf(resources, i) : color[j] = "black"
    /\ \A k \in 1..Len(order) : \A j \in DepsOf(resources, order[k]) :
         \E m \in 1..(k - 1) : order[m] = j

\* Resources that are ordered have no cycle among them.
NoBlackCycle ==
    \A S \in SUBSET Index : S # {} /\ (\A i \in S : color[i] = "black") =>
      \E i \in S : \A j \in S : j \notin DepsOf(resources, i)

VerdictInv ==
    /\ verdict = "cycle" => CyclicOf(resources)
    /\ verdict = "ordered" => \A i \in Index : color[i] = "black"

OrderInv == TypeOK /\ ColorInv /\ PendingInv /\ BlackInv /\ NoBlackCycle /\ VerdictInv

-----------------------------------------------------------------------------

LEMMA SameDeps ==
  /\ \A i \in Index : Deps(i) = DepsOf(resources, i)
  /\ Cyclic <=> CyclicOf(resources)
<1>1. \A i \in Index : Deps(i) = DepsOf(resources, i)
  BY DEF Deps, DepsOf, Named, Index
<1>2. QED
  BY <1>1 DEF Cyclic, CyclicOf, Index

LEMMA DepsType == ASSUME NEW r, NEW i PROVE DepsOf(r, i) \subseteq DOMAIN r /\ i \notin DepsOf(r, i)
BY DEF DepsOf

LEMMA Push ==
  ASSUME NEW S, NEW s \in Seq(S), NEW x \in S
  PROVE  /\ Append(s, x) \in Seq(S)
         /\ Len(s) \in Nat /\ Len(Append(s, x)) = Len(s) + 1
         /\ \A k \in 1..Len(s) : Append(s, x)[k] = s[k]
         /\ Append(s, x)[Len(s) + 1] = x
         /\ \A y : On(Append(s, x), y) <=> On(s, y) \/ y = x
         /\ Distinct(s) /\ ~On(s, x) => Distinct(Append(s, x))
<1>1. /\ Append(s, x) \in Seq(S)
      /\ Len(s) \in Nat /\ Len(Append(s, x)) = Len(s) + 1
      /\ \A k \in 1..Len(s) : Append(s, x)[k] = s[k]
      /\ Append(s, x)[Len(s) + 1] = x
  OBVIOUS
<1>2. \A y : On(Append(s, x), y) <=> On(s, y) \/ y = x
  BY <1>1 DEF On
<1>3. Distinct(s) /\ ~On(s, x) => Distinct(Append(s, x))
  BY <1>1 DEF On, Distinct
<1>4. QED
  BY <1>1, <1>2, <1>3

LEMMA Pop ==
  ASSUME NEW S, NEW s \in Seq(S), s # <<>>, Distinct(s)
  PROVE  /\ Len(s) \in Nat \ {0} /\ s[Len(s)] \in S
         /\ SubSeq(s, 1, Len(s) - 1) \in Seq(S) /\ Len(SubSeq(s, 1, Len(s) - 1)) = Len(s) - 1
         /\ \A k \in 1..(Len(s) - 1) : SubSeq(s, 1, Len(s) - 1)[k] = s[k]
         /\ \A y : On(SubSeq(s, 1, Len(s) - 1), y) <=> On(s, y) /\ y # s[Len(s)]
         /\ Distinct(SubSeq(s, 1, Len(s) - 1))
<1> DEFINE t == SubSeq(s, 1, Len(s) - 1)
<1>1. Len(s) \in Nat \ {0} /\ \A k \in 1..Len(s) : s[k] \in S
  BY EmptySeq, ElementOfSeq
<1>2. /\ t \in Seq(S) /\ Len(t) = Len(s) - 1
      /\ \A k \in 1..(Len(s) - 1) : t[k] = s[k]
  <2> DEFINE last == Len(s) - 1
  <2>1. last \in Nat /\ 1 \in Int /\ last \in Int
    BY <1>1
  <2>2. \A k \in 1..last : s[k] \in S
    BY <1>1
  <2>3. t \in Seq(S) /\ Len(t) = (IF 1 <= last THEN last - 1 + 1 ELSE 0)
        /\ \A k \in 1..(last - 1 + 1) : t[k] = s[1 + k - 1]
    BY <2>1, <2>2, SubSeqProperties
  <2>4. Len(t) = Len(s) - 1
    <3>1. CASE Len(s) # 1
      <4>1. PICK n \in Nat \ {0} : n = Len(s)
        BY <1>1
      <4>2. n - 1 \in Nat /\ 1 <= n - 1
        BY <3>1, <4>1
      <4>3. last = n - 1
        BY <4>1
      <4>4. QED
        BY <2>3, <4>2, <4>3
    <3>2. CASE Len(s) = 1
      BY <2>3, <3>2
    <3>3. QED
      BY <3>1, <3>2
  <2>5. \A k \in 1..(Len(s) - 1) : t[k] = s[k]
    <3>1. SUFFICES ASSUME NEW k \in 1..(Len(s) - 1) PROVE t[k] = s[k]
      OBVIOUS
    <3>2. k \in 1..(last - 1 + 1) /\ 1 + k - 1 = k
      BY <1>1
    <3>3. QED
      BY <2>3, <3>2
  <2>6. QED
    BY <2>3, <2>4, <2>5
<1> HIDE DEF t
<1>3. \A y : On(t, y) <=> On(s, y) /\ y # s[Len(s)]
  BY <1>1, <1>2 DEF On, Distinct
<1>4. Distinct(t)
  BY <1>1, <1>2 DEF Distinct
<1> USE DEF t
<1>5. QED
  BY <1>1, <1>2, <1>3, <1>4

LEMMA TopFacts ==
  ASSUME OrderInv, stack # <<>>
  PROVE  Len(stack) \in Nat \ {0} /\ Top \in Index /\ color[Top] = "gray"
<1>1. Len(stack) \in Nat \ {0} /\ Top \in Index
  BY EmptySeq, ElementOfSeq DEF OrderInv, TypeOK, Top
<1>2. QED
  BY <1>1 DEF OrderInv, ColorInv, On, Top

\* A dependency on a gray resource closes a cycle: the calls from it up.
LEMMA GrayCloses ==
  ASSUME OrderInv, stack # <<>>, NEW j \in DepsOf(resources, Top), color[j] = "gray"
  PROVE  CyclicOf(resources)
<1>1. j \in Index
  BY DepsType DEF Index
<1>2. stack \in Seq(Index) /\ Len(stack) \in Nat \ {0}
  BY TopFacts DEF OrderInv, TypeOK
<1>3. PICK m \in 1..Len(stack) : stack[m] = j
  BY <1>1 DEF OrderInv, ColorInv, On
<1> DEFINE cycle == {stack[k] : k \in m..Len(stack)}
<1>4. cycle \in (SUBSET Index) \ {{}}
  <2>1. \A k \in m..Len(stack) : stack[k] \in Index
    BY <1>2, <1>3, ElementOfSeq
  <2>2. stack[m] \in cycle
    BY <1>2, <1>3
  <2>3. cycle \subseteq Index
    BY <2>1
  <2>4. cycle # {}
    BY <2>2
  <2> HIDE DEF cycle
  <2>5. QED
    BY <2>3, <2>4
<1>5. ASSUME NEW i \in cycle PROVE \E d \in cycle : d \in DepsOf(resources, i)
  <2>1. PICK k \in m..Len(stack) : i = stack[k]
    OBVIOUS
  <2>2. CASE k = Len(stack)
    <3>1. j \in cycle
      BY <1>2, <1>3
    <3>2. QED
      BY <2>1, <2>2, <3>1 DEF Top
  <2>3. CASE k # Len(stack)
    <3>1. k + 1 \in m..Len(stack) /\ k \in 1..(Len(stack) - 1)
      BY <1>2, <1>3, <2>3
    <3>2. stack[k + 1] \in cycle /\ stack[k + 1] \in DepsOf(resources, stack[k])
      BY <3>1 DEF OrderInv, PendingInv
    <3>3. QED
      BY <2>1, <3>2
  <2>4. QED
    BY <2>2, <2>3
<1>6. QED
  BY <1>4, <1>5 DEF CyclicOf, Index

\* A call of visit: what it leaves true whoever makes it.
LEMMA CallKeeps ==
  ASSUME OrderInv, NEW i \in Index, Call(i), UNCHANGED <<resources, order, verdict>>,
         verdict = "running", \A k \in Index : k < next' => k < next \/ k = i
  PROVE  /\ stack' \in Seq(Index)' /\ (color \in [Index -> {"white", "gray", "black"}])'
         /\ ColorInv' /\ BlackInv' /\ NoBlackCycle' /\ VerdictInv'
<1>1. stack \in Seq(Index) /\ Index' = Index /\ resources' = resources /\ order' = order
  BY DEF OrderInv, TypeOK, Index
<1>2. color[i] = "white" /\ color' = [color EXCEPT ![i] = "gray"] /\ stack' = Append(stack, i)
  BY DEF Call
<1>3. color \in [Index -> {"white", "gray", "black"}]
  BY DEF OrderInv, TypeOK
<1>4. /\ \A k \in Index : k # i => color'[k] = color[k]
      /\ color'[i] = "gray"
  BY <1>2, <1>3
<1>5. ~On(stack, i)
  BY <1>2 DEF OrderInv, ColorInv
<1>6. /\ stack' \in Seq(Index)
      /\ \A y : On(stack', y) <=> On(stack, y) \/ y = i
      /\ Distinct(stack')
  BY <1>1, <1>2, <1>5, Push DEF OrderInv, ColorInv
<1>7. ColorInv'
  BY <1>1, <1>2, <1>4, <1>6 DEF OrderInv, ColorInv
<1>8. BlackInv'
  BY <1>1, <1>2, <1>4, DepsType DEF OrderInv, BlackInv, Index
<1>9. NoBlackCycle'
  BY <1>1, <1>4 DEF OrderInv, NoBlackCycle
<1>10. VerdictInv'
  BY DEF VerdictInv
<1>11. QED
  BY <1>1, <1>2, <1>3, <1>6, <1>7, <1>8, <1>9, <1>10

LEMMA VisitStep == ASSUME OrderInv, VisitNext PROVE OrderInv'
<1>1. Index' = Index /\ resources' = resources /\ next \in Nat \ {0} /\ next' = next + 1
  BY DEF OrderInv, TypeOK, VisitNext, Index
<1>2. CASE Call(next)
  <2>1. \A k \in Index : k < next' => k < next \/ k = next
    BY <1>1 DEF OrderInv, TypeOK, Index
  <2>2. /\ (stack \in Seq(Index))' /\ (color \in [Index -> {"white", "gray", "black"}])'
        /\ ColorInv' /\ BlackInv' /\ NoBlackCycle' /\ VerdictInv'
    BY <1>2, <2>1, CallKeeps DEF VisitNext
  <2>3. TypeOK'
    BY <1>1, <2>2 DEF OrderInv, TypeOK, VisitNext
  <2>4. stack' = Append(<<>>, next) /\ Len(stack') = 1
    BY <1>2 DEF VisitNext, Call
  <2>5. /\ color[next] = "white" /\ pending' = pending /\ Len(stack) = 0
        /\ color' = [color EXCEPT ![next] = "gray"]
        /\ color \in [Index -> {"white", "gray", "black"}]
    BY <1>2 DEF VisitNext, Call, OrderInv, TypeOK
  <2>6. PendingInv'
    <3>1. ASSUME NEW a \in Index, color'[a] = "gray",
                 NEW j \in DepsOf(resources, a) \ pending[a], verdict # "cycle"
          PROVE  Waits(color', stack', a, j)
      <4>1. a # next
        BY <1>1, <2>5 DEF OrderInv, PendingInv
      <4>2. color[a] = "gray" /\ Waits(color, stack, a, j)
        BY <2>5, <3>1, <4>1 DEF OrderInv, PendingInv
      <4>3. j \in Index
        BY <3>1, DepsType DEF Index
      <4>4. color[j] = "black"
        BY <2>5, <4>2 DEF Waits
      <4>5. QED
        BY <2>5, <4>3, <4>4 DEF Waits
    <3>2. \A a \in Index : color'[a] = "white" => pending'[a] = DepsOf(resources, a)
      BY <1>2, <2>5 DEF OrderInv, PendingInv
    <3>3. \A a \in Index : pending'[a] \subseteq DepsOf(resources, a)
      BY <2>5 DEF OrderInv, PendingInv
    <3>4. \A k \in 1..(Len(stack') - 1) : stack'[k + 1] \in DepsOf(resources, stack'[k])
      BY <2>4
    <3>5. verdict = "running" /\ verdict' = verdict
      BY DEF VisitNext
    <3>6. QED
      BY <1>1, <2>5, <3>1, <3>2, <3>3, <3>4, <3>5 DEF PendingInv
  <2>7. QED
    BY <2>2, <2>3, <2>6 DEF OrderInv
<1>3. CASE color[next] = "black" /\ UNCHANGED <<color, stack>>
  <2>1. UNCHANGED <<resources, stack, pending, color, order, verdict>>
    BY <1>3 DEF VisitNext
  <2>2. TypeOK' /\ BlackInv' /\ NoBlackCycle' /\ VerdictInv' /\ PendingInv'
    <3>1. TypeOK'
      BY <1>1, <2>1 DEF OrderInv, TypeOK
    <3>2. BlackInv' /\ NoBlackCycle'
      BY <1>1, <2>1 DEF OrderInv, BlackInv, NoBlackCycle
    <3>3. VerdictInv'
      BY <1>1, <2>1 DEF OrderInv, VerdictInv
    <3>4. PendingInv'
      BY <1>1, <2>1 DEF OrderInv, PendingInv
    <3>5. QED
      BY <3>1, <3>2, <3>3, <3>4
  <2>3. \A k \in Index : k < next' => k < next \/ k = next
    BY <1>1 DEF OrderInv, TypeOK, Index
  <2>4. ColorInv'
    BY <1>1, <1>3, <2>3 DEF OrderInv, ColorInv, VisitNext
  <2>5. QED
    BY <2>2, <2>4 DEF OrderInv
<1>4. QED
  BY <1>2, <1>3 DEF VisitNext

LEMMA FollowStep == ASSUME OrderInv, Follow PROVE OrderInv'
<1>1. /\ Index' = Index /\ resources' = resources /\ next' = next /\ order' = order
      /\ verdict = "running" /\ stack # <<>>
      /\ stack \in Seq(Index) /\ pending \in [Index -> SUBSET Index]
      /\ color \in [Index -> {"white", "gray", "black"}]
  BY DEF OrderInv, TypeOK, Follow, Index
<1>2. Len(stack) \in Nat \ {0} /\ Top \in Index /\ color[Top] = "gray"
  BY <1>1, TopFacts
<1>3. PICK j \in pending[Top] :
        /\ pending' = [pending EXCEPT ![Top] = @ \ {j}]
        /\ \/ Call(j) /\ UNCHANGED verdict
           \/ color[j] = "black" /\ UNCHANGED <<color, stack, verdict>>
           \/ color[j] = "gray" /\ verdict' = "cycle" /\ UNCHANGED <<color, stack>>
  BY DEF Follow
<1>4. j \in Index /\ j \in DepsOf(resources, Top)
  BY <1>1, <1>2 DEF OrderInv, PendingInv
<1>5. PICK top : top = Top
  OBVIOUS
<1>6. /\ pending' \in [Index -> SUBSET Index]
      /\ \A k \in Index : k # top => pending'[k] = pending[k]
      /\ pending'[top] = pending[top] \ {j}
  BY <1>1, <1>2, <1>3, <1>5
<1>7. CASE Call(j) /\ UNCHANGED verdict
  <2>1. /\ (stack \in Seq(Index))' /\ (color \in [Index -> {"white", "gray", "black"}])'
        /\ ColorInv' /\ BlackInv' /\ NoBlackCycle' /\ VerdictInv'
    BY <1>1, <1>4, <1>7, CallKeeps
  <2>2. TypeOK'
    BY <1>1, <1>6, <1>7, <2>1 DEF OrderInv, TypeOK
  <2>3. /\ color[j] = "white" /\ color' = [color EXCEPT ![j] = "gray"]
        /\ stack' = Append(stack, j)
    BY <1>7 DEF Call
  <2>4. /\ \A k \in Index : k # j => color'[k] = color[k]
        /\ color'[j] = "gray" /\ j # top
    BY <1>1, <1>2, <1>4, <1>5, <2>3
  <2>5. /\ Len(stack') = Len(stack) + 1 /\ Len(stack) \in Nat
        /\ \A k \in 1..Len(stack) : stack'[k] = stack[k]
        /\ stack'[Len(stack) + 1] = j
    BY <1>1, <1>4, <2>3, Push
  <2>6. stack'[Len(stack)] = top
    BY <1>2, <1>5, <2>5 DEF Top
  <2>7. \A i \in Index : color'[i] = "white" => pending'[i] = DepsOf(resources, i)
    BY <1>2, <1>5, <1>6, <2>4 DEF OrderInv, PendingInv
  <2>8. \A i \in Index : pending'[i] \subseteq DepsOf(resources, i)
    BY <1>6 DEF OrderInv, PendingInv
  <2>9. \A k \in 1..(Len(stack') - 1) : stack'[k + 1] \in DepsOf(resources, stack'[k])
    <3>1. SUFFICES ASSUME NEW k \in 1..Len(stack)
                   PROVE  stack'[k + 1] \in DepsOf(resources, stack'[k])
      BY <2>5
    <3>2. CASE k = Len(stack)
      BY <1>4, <1>5, <2>5, <2>6, <3>2
    <3>3. CASE k # Len(stack)
      <4>1. k \in 1..(Len(stack) - 1) /\ k + 1 \in 1..Len(stack)
        BY <2>5, <3>3
      <4>2. QED
        BY <2>5, <4>1 DEF OrderInv, PendingInv
    <3>4. QED
      BY <3>2, <3>3
  <2>10. ASSUME NEW i \in Index, color'[i] = "gray",
                NEW d \in DepsOf(resources, i) \ pending'[i]
         PROVE  Waits(color', stack', i, d)
    <3>1. d \in Index
      BY DepsType DEF Index
    <3>2. i # j
      BY <1>6, <2>3, <2>4 DEF OrderInv, PendingInv
    <3>3. CASE d \notin pending[i]
      <4>1. Waits(color, stack, i, d)
        BY <1>1, <2>4, <2>10, <3>2, <3>3 DEF OrderInv, PendingInv
      <4>2. CASE color[d] = "black"
        BY <2>3, <2>4, <3>1, <4>2 DEF Waits
      <4>3. ASSUME NEW k \in 1..(Len(stack) - 1), stack[k] = i, stack[k + 1] = d
            PROVE  Waits(color', stack', i, d)
        <5>1. k \in 1..Len(stack) /\ k + 1 \in 1..Len(stack) /\ k \in 1..(Len(stack') - 1)
          BY <2>5
        <5>2. stack'[k] = i /\ stack'[k + 1] = d
          BY <2>5, <4>3, <5>1
        <5>3. QED
          BY <5>1, <5>2 DEF Waits
      <4>4. QED
        BY <4>1, <4>2, <4>3 DEF Waits
    <3>4. CASE d \in pending[i]
      <4>1. i = top /\ d = j
        BY <1>6, <3>4
      <4>2. Len(stack) \in 1..(Len(stack') - 1)
        BY <1>2, <2>5
      <4>3. QED
        BY <2>5, <2>6, <4>1, <4>2 DEF Waits
    <3>5. QED
      BY <3>3, <3>4
  <2>11. PendingInv'
    BY <1>1, <2>7, <2>8, <2>9, <2>10 DEF PendingInv
  <2>12. QED
    BY <2>1, <2>2, <2>11 DEF OrderInv
<1>8. CASE color' = color /\ stack' = stack
           /\ \/ color[j] = "black" /\ verdict' = verdict
              \/ color[j] = "gray" /\ verdict' = "cycle"
  <2>1. TypeOK' /\ ColorInv' /\ BlackInv' /\ NoBlackCycle'
    <3>1. TypeOK'
      BY <1>1, <1>6, <1>8 DEF OrderInv, TypeOK
    <3>2. ColorInv'
      BY <1>1, <1>8 DEF OrderInv, ColorInv
    <3>3. BlackInv' /\ NoBlackCycle'
      <4>1. /\ BlackInv /\ NoBlackCycle
            /\ Index' = Index /\ resources' = resources /\ order' = order /\ color' = color
        BY <1>1, <1>8 DEF OrderInv
      <4>2. \A i \in Index' : color'[i] = "black" => \A d \in DepsOf(resources', i) : color'[d] = "black"
        BY <4>1 DEF BlackInv
      <4>3. \A k \in 1..Len(order') : \A d \in DepsOf(resources', order'[k]) :
              \E m \in 1..(k - 1) : order'[m] = d
        BY <4>1 DEF BlackInv
      <4>4. NoBlackCycle'
        BY <4>1 DEF NoBlackCycle
      <4>5. BlackInv'
        BY <4>2, <4>3 DEF BlackInv
      <4>6. QED
        BY <4>4, <4>5
    <3>4. QED
      BY <3>1, <3>2, <3>3
  <2>2. VerdictInv'
    <3>1. CASE color[j] = "black" /\ verdict' = verdict
      BY <1>1, <3>1 DEF VerdictInv
    <3>2. CASE color[j] = "gray" /\ verdict' = "cycle"
      BY <1>1, <1>4, <3>2, GrayCloses DEF VerdictInv
    <3>3. QED
      BY <1>8, <3>1, <3>2
  <2>3. \A i \in Index : color[i] = "white" => pending'[i] = DepsOf(resources, i)
    BY <1>2, <1>5, <1>6 DEF OrderInv, PendingInv
  <2>4. \A i \in Index : pending'[i] \subseteq DepsOf(resources, i)
    BY <1>6 DEF OrderInv, PendingInv
  <2>5. ASSUME verdict' # "cycle", NEW i \in Index, color[i] = "gray",
               NEW d \in DepsOf(resources, i) \ pending'[i]
        PROVE  Waits(color, stack, i, d)
    <3>1. CASE d \notin pending[i]
      BY <1>1, <2>5, <3>1 DEF OrderInv, PendingInv
    <3>2. CASE d \in pending[i]
      BY <1>6, <1>8, <2>5, <3>2 DEF Waits
    <3>3. QED
      BY <3>1, <3>2
  <2>6. PendingInv'
    BY <1>1, <1>8, <2>3, <2>4, <2>5 DEF OrderInv, PendingInv
  <2>7. QED
    BY <2>1, <2>2, <2>6 DEF OrderInv
<1>9. CASE color[j] = "black" /\ UNCHANGED <<color, stack, verdict>>
  <2>1. color' = color /\ stack' = stack /\ color[j] = "black" /\ verdict' = verdict
    BY <1>9
  <2>2. QED
    BY <1>8, <2>1
<1>10. CASE color[j] = "gray" /\ verdict' = "cycle" /\ UNCHANGED <<color, stack>>
  <2>1. color' = color /\ stack' = stack /\ color[j] = "gray" /\ verdict' = "cycle"
    BY <1>10
  <2>2. QED
    BY <1>8, <2>1
<1>11. QED
  BY <1>3, <1>7, <1>9, <1>10

LEMMA FinishStep == ASSUME OrderInv, Finish PROVE OrderInv'
<1>1. /\ Index' = Index /\ resources' = resources /\ next' = next /\ pending' = pending
      /\ verdict' = verdict /\ verdict = "running" /\ stack # <<>>
      /\ stack \in Seq(Index) /\ order \in Seq(Index)
      /\ color \in [Index -> {"white", "gray", "black"}]
      /\ Distinct(stack) /\ Distinct(order)
  BY DEF OrderInv, TypeOK, ColorInv, Finish, Index
<1>2. PICK top : top = Top
  OBVIOUS
<1>3. /\ Len(stack) \in Nat \ {0} /\ top \in Index /\ color[top] = "gray"
      /\ stack[Len(stack)] = top /\ pending[top] = {}
      /\ color' = [color EXCEPT ![top] = "black"]
      /\ order' = Append(order, top)
      /\ stack' = SubSeq(stack, 1, Len(stack) - 1)
  BY <1>1, <1>2, TopFacts DEF Finish, Top
<1>4. /\ color' \in [Index -> {"white", "gray", "black"}]
      /\ \A k \in Index : k # top => color'[k] = color[k]
      /\ color'[top] = "black"
  BY <1>1, <1>3
<1>5. /\ stack' \in Seq(Index) /\ Len(stack') = Len(stack) - 1
      /\ \A k \in 1..(Len(stack) - 1) : stack'[k] = stack[k]
      /\ \A y : On(stack', y) <=> On(stack, y) /\ y # top
      /\ Distinct(stack')
  <2>1. PICK t : t = SubSeq(stack, 1, Len(stack) - 1)
    OBVIOUS
  <2>2. /\ t \in Seq(Index) /\ Len(t) = Len(stack) - 1
        /\ \A k \in 1..(Len(stack) - 1) : t[k] = stack[k]
        /\ \A y : On(t, y) <=> On(stack, y) /\ y # stack[Len(stack)]
        /\ Distinct(t)
    <3>1. stack # <<>> /\ stack \in Seq(Index) /\ Distinct(stack)
      BY <1>1
    <3>2. QED
      BY <2>1, <3>1, Pop, Zenon
  <2>3. stack' = t
    BY <1>3, <2>1
  <2>4. QED
    BY <1>3, <2>2, <2>3
<1>6. ~On(order, top)
  BY <1>3 DEF OrderInv, ColorInv
<1>7. /\ order' \in Seq(Index) /\ Len(order) \in Nat /\ Len(order') = Len(order) + 1
      /\ \A k \in 1..Len(order) : order'[k] = order[k]
      /\ order'[Len(order) + 1] = top
      /\ \A y : On(order', y) <=> On(order, y) \/ y = top
      /\ Distinct(order')
  BY <1>1, <1>3, <1>6, Push
<1>8. TypeOK'
  BY <1>1, <1>4, <1>5, <1>7 DEF OrderInv, TypeOK
<1>9. ColorInv'
  <2>1. \A i \in Index : color'[i] = "black" <=> On(order', i)
    BY <1>4, <1>7 DEF OrderInv, ColorInv
  <2>2. \A i \in Index : color'[i] = "gray" <=> On(stack', i)
    BY <1>3, <1>4, <1>5 DEF OrderInv, ColorInv
  <2>3. \A i \in Index : i < next => color'[i] # "white"
    BY <1>4 DEF OrderInv, ColorInv
  <2>4. QED
    BY <1>1, <1>5, <1>7, <2>1, <2>2, <2>3 DEF ColorInv
<1>10. PendingInv'
  <2>1. \A i \in Index : color'[i] = "white" => pending[i] = DepsOf(resources, i)
    BY <1>3, <1>4 DEF OrderInv, PendingInv
  <2>2. \A k \in 1..(Len(stack') - 1) : stack'[k + 1] \in DepsOf(resources, stack'[k])
    <3>1. SUFFICES ASSUME NEW k \in 1..(Len(stack') - 1)
                   PROVE  stack'[k + 1] \in DepsOf(resources, stack'[k])
      OBVIOUS
    <3>2. k \in 1..(Len(stack) - 1) /\ k + 1 \in 1..(Len(stack) - 1)
      BY <1>3, <1>5
    <3>3. stack'[k] = stack[k] /\ stack'[k + 1] = stack[k + 1]
      BY <1>5, <3>2
    <3>4. QED
      BY <3>2, <3>3 DEF OrderInv, PendingInv
  <2>3. ASSUME NEW i \in Index, color'[i] = "gray", NEW j \in DepsOf(resources, i) \ pending[i]
        PROVE  Waits(color', stack', i, j)
    <3>1. j \in Index
      BY DepsType DEF Index
    <3>2. Waits(color, stack, i, j)
      BY <1>1, <1>4, <2>3 DEF OrderInv, PendingInv
    <3>3. CASE color[j] = "black"
      BY <1>4, <3>1, <3>3 DEF Waits
    <3>4. ASSUME NEW k \in 1..(Len(stack) - 1), stack[k] = i, stack[k + 1] = j
          PROVE  Waits(color', stack', i, j)
      <4>1. CASE k = Len(stack) - 1
        <5>1. k + 1 = Len(stack)
          BY <1>3, <4>1
        <5>2. j = top
          BY <1>3, <3>4, <5>1
        <5>3. QED
          BY <1>4, <5>2 DEF Waits
      <4>2. CASE k # Len(stack) - 1
        <5>1. k + 1 \in 1..(Len(stack) - 1) /\ k \in 1..(Len(stack') - 1)
          BY <1>3, <1>5, <4>2
        <5>2. stack'[k] = i /\ stack'[k + 1] = j
          BY <1>5, <3>4, <5>1
        <5>3. QED
          BY <5>1, <5>2 DEF Waits
      <4>3. QED
        BY <4>1, <4>2
    <3>5. QED
      BY <3>2, <3>3, <3>4 DEF Waits
  <2>4. \A i \in Index : pending[i] \subseteq DepsOf(resources, i)
    BY DEF OrderInv, PendingInv
  <2>5. QED
    BY <1>1, <2>1, <2>2, <2>3, <2>4 DEF PendingInv
<1>11. \A j \in DepsOf(resources, top) : j \in Index /\ color[j] = "black"
  <2>1. SUFFICES ASSUME NEW j \in DepsOf(resources, top) PROVE j \in Index /\ color[j] = "black"
    OBVIOUS
  <2>2. j \in Index
    BY DepsType DEF Index
  <2>3. Waits(color, stack, top, j)
    BY <1>1, <1>3 DEF OrderInv, PendingInv
  <2>4. \A k \in 1..(Len(stack) - 1) : stack[k] # top
    BY <1>1, <1>3 DEF Distinct
  <2>5. QED
    BY <2>2, <2>3, <2>4 DEF Waits
<1>12. BlackInv'
  <2>1. ASSUME NEW i \in Index, color'[i] = "black", NEW j \in DepsOf(resources, i)
        PROVE  color'[j] = "black"
    <3>1. j \in Index
      BY DepsType DEF Index
    <3>2. color[j] = "black"
      BY <1>4, <1>11, <2>1 DEF OrderInv, BlackInv
    <3>3. QED
      BY <1>4, <3>1, <3>2
  <2>2. ASSUME NEW k \in 1..Len(order'), NEW j \in DepsOf(resources, order'[k])
        PROVE  \E m \in 1..(k - 1) : order'[m] = j
    <3>1. CASE k = Len(order) + 1
      <4>1. On(order, j)
        BY <1>7, <1>11, <2>2, <3>1 DEF OrderInv, ColorInv
      <4>2. PICK m \in 1..Len(order) : order[m] = j
        BY <4>1 DEF On
      <4>3. QED
        BY <1>7, <3>1, <4>2
    <3>2. CASE k # Len(order) + 1
      <4>1. k \in 1..Len(order) /\ order'[k] = order[k]
        BY <1>7, <2>2, <3>2
      <4>2. PICK m \in 1..(k - 1) : order[m] = j
        BY <2>2, <4>1 DEF OrderInv, BlackInv
      <4>3. m \in 1..Len(order)
        BY <1>7, <4>1
      <4>4. QED
        BY <1>7, <4>2, <4>3
    <3>3. QED
      BY <3>1, <3>2
  <2>3. QED
    BY <1>1, <2>1, <2>2 DEF BlackInv
<1>13. NoBlackCycle'
  <2>1. SUFFICES ASSUME NEW S \in SUBSET Index, S # {}, \A i \in S : color'[i] = "black"
                 PROVE  \E i \in S : \A j \in S : j \notin DepsOf(resources, i)
    BY <1>1 DEF NoBlackCycle
  <2> DEFINE others == S \ {top}
  <2>2. \A i \in others : color[i] = "black"
    BY <1>4, <2>1
  <2>3. CASE others = {}
    <3>1. S = {top}
      BY <2>1, <2>3
    <3>2. QED
      BY <3>1, DepsType
  <2>4. CASE others # {}
    <3>1. PICK i \in others : \A j \in others : j \notin DepsOf(resources, i)
      <4>1. others \in SUBSET Index
        OBVIOUS
      <4> HIDE DEF others
      <4>2. QED
        BY <2>2, <2>4, <4>1 DEF OrderInv, NoBlackCycle
    <3>2. top \notin DepsOf(resources, i)
      BY <1>3, <2>2, <3>1 DEF OrderInv, BlackInv
    <3>3. QED
      BY <3>1, <3>2
  <2>5. QED
    BY <2>3, <2>4
<1>14. VerdictInv'
  BY <1>1 DEF VerdictInv
<1>15. QED
  BY <1>8, <1>9, <1>10, <1>12, <1>13, <1>14 DEF OrderInv

LEMMA DoneStep == ASSUME OrderInv, Done PROVE OrderInv'
<1>1. /\ Index' = Index /\ resources' = resources /\ stack = <<>> /\ verdict' = "ordered"
      /\ UNCHANGED <<next, stack, pending, color, order>> /\ next \notin Index
      /\ color \in [Index -> {"white", "gray", "black"}] /\ next \in Nat \ {0}
  BY DEF OrderInv, TypeOK, Done, Index
<1>2. PICK n \in 0..MaxResources : Index = 1..n
  BY DEF OrderInv, TypeOK, Index
<1>3. \A i \in Index : i < next
  BY <1>1, <1>2, MaxAssumption
<1>4. \A i \in Index : ~On(stack, i)
  BY <1>1 DEF On
<1>5. \A i \in Index : color[i] = "black"
  BY <1>1, <1>3, <1>4 DEF OrderInv, ColorInv
<1>6. TypeOK' /\ ColorInv' /\ BlackInv' /\ NoBlackCycle'
  <2>1. TypeOK'
    BY <1>1 DEF OrderInv, TypeOK
  <2>2. ColorInv'
    BY <1>1 DEF OrderInv, ColorInv
  <2>3. BlackInv' /\ NoBlackCycle'
    BY <1>1 DEF OrderInv, BlackInv, NoBlackCycle
  <2>4. QED
    BY <2>1, <2>2, <2>3
<1>7. PendingInv'
  BY <1>1, <1>5 DEF OrderInv, PendingInv
<1>8. QED
  BY <1>1, <1>5, <1>6, <1>7 DEF OrderInv, VerdictInv

LEMMA OrderInvariant == Spec \/ AllSpec => []OrderInv
<1>1. Init => OrderInv
  <2> SUFFICES ASSUME Init PROVE OrderInv
    OBVIOUS
  <2>1. PICK n \in 0..MaxResources : resources \in [1..n -> Resource]
    BY DEF Init
  <2>2. Index = 1..n /\ \A i \in Index : Deps(i) = DepsOf(resources, i) /\ Deps(i) \subseteq Index
    BY <2>1, SameDeps DEF Deps, Index
  <2>3. pending \in [Index -> SUBSET Index] /\ \A i \in Index : pending[i] = DepsOf(resources, i)
    BY <2>2 DEF Init
  <2>4. color \in [Index -> {"white", "gray", "black"}] /\ \A i \in Index : color[i] = "white"
    BY DEF Init
  <2>5. TypeOK
    BY <2>1, <2>3, <2>4 DEF Init, TypeOK
  <2>6. stack = <<>> /\ order = <<>> /\ Len(stack) = 0 /\ Len(order) = 0
        /\ next = 1 /\ verdict = "running"
    BY DEF Init
  <2>7. ColorInv
    BY <2>2, <2>4, <2>6 DEF ColorInv, On, Distinct
  <2>8. PendingInv
    BY <2>3, <2>4, <2>6 DEF PendingInv
  <2>9. BlackInv /\ NoBlackCycle /\ VerdictInv
    BY <2>4, <2>6 DEF BlackInv, NoBlackCycle, VerdictInv
  <2>10. QED
    BY <2>5, <2>7, <2>8, <2>9 DEF OrderInv
<1>2. OrderInv /\ [Next]_vars => OrderInv'
  <2> SUFFICES ASSUME OrderInv, [Next]_vars PROVE OrderInv'
    OBVIOUS
  <2>1. CASE UNCHANGED vars
    <3>1. /\ resources' = resources /\ next' = next /\ stack' = stack /\ pending' = pending
          /\ color' = color /\ order' = order /\ verdict' = verdict /\ Index' = Index
      BY <2>1 DEF vars, Index
    <3>2. TypeOK' /\ VerdictInv'
      BY <3>1 DEF OrderInv, TypeOK, VerdictInv
    <3>3. ColorInv'
      BY <3>1 DEF OrderInv, ColorInv
    <3>4. PendingInv'
      BY <3>1 DEF OrderInv, PendingInv
    <3>5. BlackInv
      BY DEF OrderInv
    <3>6. \A i \in Index' : color'[i] = "black" => \A d \in DepsOf(resources', i) : color'[d] = "black"
      BY <3>1, <3>5 DEF BlackInv
    <3>7. \A k \in 1..Len(order') : \A d \in DepsOf(resources', order'[k]) :
            \E m \in 1..(k - 1) : order'[m] = d
      BY <3>1, <3>5 DEF BlackInv
    <3>8. NoBlackCycle'
      BY <3>1 DEF OrderInv, NoBlackCycle
    <3>9. BlackInv'
      BY <3>6, <3>7 DEF BlackInv
    <3>10. QED
      BY <3>2, <3>3, <3>4, <3>8, <3>9 DEF OrderInv
  <2>2. QED
    BY <2>1, VisitStep, FollowStep, FinishStep, DoneStep DEF Next, Step
<1>3. QED
  BY <1>1, <1>2, OrderWithin, PTL DEF Spec, AllSpec, AllNext

-----------------------------------------------------------------------------

\* What buildProviders lists.

\* The namespaces and types of a template's resources.
Kinds == {TypeOf[p] : p \in Paths}
Entry == [namespace : {k[1] : k \in Kinds}, types : Seq({k[2] : k \in Kinds})]

KeysOnce == keys \in Seq(Kinds) /\ \A i, j \in 1..Len(keys) : keys[i] = keys[j] => i = j

Unlisted == placed = 0 /\ arrays = <<>> /\ byNamespace = << >>

Met == {keys[i][1] : i \in 1..placed}
Slice == IF arrays = <<>> THEN <<>> ELSE arrays[Len(arrays)]

\* The element of each namespace met is where its pointer says, in its own
\* array and, at the same position, in the slice.
Pointing ==
    /\ placed \in 0..Len(keys)
    /\ arrays \in Seq(Seq(Entry))
    /\ byNamespace \in [Met -> (Nat \ {0}) \X (Nat \ {0})]
    /\ \A n \in Met :
         LET a == byNamespace[n][1]
             p == byNamespace[n][2]
         IN  /\ a \in 1..Len(arrays) /\ p \in 1..Len(arrays[a])
             /\ p \in 1..Len(Slice) /\ Slice[p].namespace = n
    /\ \A j \in 1..Len(Slice) : Slice[j].namespace \in Met /\ byNamespace[Slice[j].namespace][2] = j

\* The types met are the types listed, when the types of a namespace follow
\* one another: then its pointer is still into the slice.
ListedAs(slice, count, all, pointers, n) ==
    /\ count > 0 => pointers[all[count][1]][1] = n
    /\ \A i \in 1..count :
         LET types == slice[pointers[all[i][1]][2]].types
         IN  \E k \in 1..Len(types) : types[k] = all[i][2]
    /\ \A j \in 1..Len(slice) :
         LET types == slice[j].types
         IN  /\ Len(types) <= count
             /\ \A k \in 1..Len(types) : \E i \in 1..count : all[i] = <<slice[j].namespace, types[k]>>
             /\ \A k, m \in 1..Len(types) : types[k] = types[m] => k = m

Listing == Contiguous => ListedAs(Slice, placed, keys, byNamespace, Len(arrays))

\* The first loop ends before the second one begins.
ProvidersInv ==
    /\ KeysOnce /\ Pointing /\ Listing
    /\ verdict # "ordered" => keys = <<>> /\ Unlisted
    /\ met # Len(order) => Unlisted

\* Slice is what buildProviders has in hand.
LEMMA SliceFacts ==
  ASSUME arrays \in Seq(Seq(Entry))
  PROVE  /\ Slice \in Seq(Entry) /\ Len(Slice) \in Nat /\ DOMAIN Slice = 1..Len(Slice)
         /\ Len(arrays) \in Nat /\ DOMAIN arrays = 1..Len(arrays)
         /\ Providers = Slice
         /\ arrays # <<>> => Slice = arrays[Len(arrays)] /\ Len(arrays) \in 1..Len(arrays)
         /\ arrays = <<>> => Slice = <<>> /\ Len(arrays) = 0
<1>1. Len(arrays) \in Nat /\ DOMAIN arrays = 1..Len(arrays)
  OBVIOUS
<1>2. CASE arrays = <<>>
  BY <1>1, <1>2 DEF Slice, Providers
<1>3. CASE arrays # <<>>
  <2>1. Len(arrays) \in 1..Len(arrays)
    BY <1>1, <1>3
  <2>2. Slice = arrays[Len(arrays)] /\ Slice \in Seq(Entry) /\ Providers = Slice
    BY <1>3, <2>1 DEF Slice, Providers, Last
  <2>3. QED
    BY <1>1, <1>3, <2>1, <2>2
<1>4. QED
  BY <1>2, <1>3

\* Keys are a namespace and a type.
LEMMA KeyPairs ==
  ASSUME KeysOnce, NEW i \in 1..Len(keys)
  PROVE  /\ keys[i] = <<keys[i][1], keys[i][2]>>
         /\ keys[i][1] \in {k[1] : k \in Kinds} /\ keys[i][2] \in {k[2] : k \in Kinds}
<1>1. keys[i] \in Kinds
  BY DEF KeysOnce
<1>2. QED
  BY <1>1, TypeOfAssumption DEF Kinds

\* append adds an element to the slice, in the array it has or in a copy.
LEMMA AppendedShape ==
  ASSUME arrays \in Seq(Seq(Entry)), NEW e \in Entry, arrays' = Appended(e)
  PROVE  /\ arrays' \in Seq(Seq(Entry)) /\ arrays' # <<>>
         /\ Slice' = Append(Slice, e) /\ Last(arrays') = Slice'
         /\ Len(arrays') >= Len(arrays)
         /\ \A a \in 1..Len(arrays) : Len(arrays'[a]) >= Len(arrays[a])
<1>1. PICK l : l = Slice
  OBVIOUS
<1>2. l \in Seq(Entry) /\ Append(l, e) \in Seq(Entry) /\ Len(Append(l, e)) = Len(l) + 1 /\ Len(l) \in Nat
  BY <1>1, SliceFacts
<1>3. \A a \in 1..Len(arrays) : Len(arrays[a]) \in Nat
  OBVIOUS
<1>4. CASE arrays # <<>> /\ Len(Last(arrays)) < Capacity(Len(arrays))
  <2>1. arrays' = [arrays EXCEPT ![Len(arrays)] = Append(l, e)]
    BY <1>1, <1>4, SliceFacts DEF Appended, Last
  <2>2. Len(arrays) \in 1..Len(arrays) /\ l = arrays[Len(arrays)]
    BY <1>1, <1>4, SliceFacts
  <2>3. arrays' \in Seq(Seq(Entry)) /\ Len(arrays') = Len(arrays) /\ arrays' # <<>>
    BY <1>2, <2>1, <2>2
  <2>4. Slice' = Append(l, e) /\ Last(arrays') = Slice'
    BY <2>1, <2>2, <2>3 DEF Slice, Last
  <2>5. \A a \in 1..Len(arrays) : Len(arrays'[a]) >= Len(arrays[a])
    BY <1>2, <1>3, <2>1, <2>2
  <2>6. QED
    BY <1>1, <2>2, <2>3, <2>4, <2>5
<1>5. CASE ~(arrays # <<>> /\ Len(Last(arrays)) < Capacity(Len(arrays)))
  <2>1. arrays' = Append(arrays, Append(l, e))
    <3>1. CASE arrays = <<>>
      <4>1. l = <<>> /\ Append(l, e) = <<e>>
        BY <1>1, <3>1, SliceFacts
      <4>2. QED
        BY <1>5, <3>1, <4>1 DEF Appended
    <3>2. CASE arrays # <<>>
      <4>1. Last(arrays) = l
        BY <1>1, <3>2, SliceFacts DEF Last
      <4>2. QED
        BY <1>5, <3>2, <4>1 DEF Appended
    <3>3. QED
      BY <3>1, <3>2
  <2>2. /\ arrays' \in Seq(Seq(Entry)) /\ Len(arrays') = Len(arrays) + 1 /\ arrays' # <<>>
        /\ arrays'[Len(arrays) + 1] = Append(l, e)
        /\ \A a \in 1..Len(arrays) : arrays'[a] = arrays[a]
    <3>1. PICK m : m = Append(l, e)
      OBVIOUS
    <3>2. m \in Seq(Entry) /\ arrays' = Append(arrays, m)
      BY <1>2, <2>1, <3>1
    <3>3. /\ arrays' \in Seq(Seq(Entry)) /\ Len(arrays') = Len(arrays) + 1 /\ arrays' # <<>>
          /\ arrays'[Len(arrays) + 1] = m
          /\ \A a \in 1..Len(arrays) : arrays'[a] = arrays[a]
      BY <3>2
    <3>4. QED
      BY <3>1, <3>3
  <2>3. Slice' = Append(l, e) /\ Last(arrays') = Slice'
    BY <2>2 DEF Slice, Last
  <2>4. QED
    BY <1>1, <1>3, <2>2, <2>3
<1>6. QED
  BY <1>4, <1>5

\* What a new namespace changes.
LEMMA NewNamespaceEffect ==
  ASSUME KeysOnce, Pointing, NewNamespace
  PROVE  \E ns, ty :
            /\ placed \in 0..(Len(keys) - 1) /\ placed' = placed + 1
            /\ keys[placed + 1] = <<ns, ty>> /\ keys' = keys
            /\ ns \notin Met
            /\ [namespace |-> ns, types |-> <<ty>>] \in Entry
            /\ arrays' = Appended([namespace |-> ns, types |-> <<ty>>])
            /\ byNamespace' = [n \in Met \union {ns} |->
                                  IF n = ns THEN <<Len(arrays'), Len(Slice')>> ELSE byNamespace[n]]
<1>1. placed \in 0..(Len(keys) - 1) /\ placed + 1 \in 1..Len(keys) /\ placed' = placed + 1 /\ keys' = keys
  BY DEF NewNamespace, Pointing, KeysOnce
<1>2. PICK ns, ty : ns = keys[placed + 1][1] /\ ty = keys[placed + 1][2]
  OBVIOUS
<1>3. keys[placed + 1] = <<ns, ty>> /\ ns \in {k[1] : k \in Kinds} /\ ty \in {k[2] : k \in Kinds}
  BY <1>1, <1>2, KeyPairs
<1>4. PICK e : e = [namespace |-> ns, types |-> <<ty>>]
  OBVIOUS
<1>5. e \in Entry
  BY <1>3, <1>4 DEF Entry
<1>6. /\ arrays' = Appended(e)
      /\ ns \notin DOMAIN byNamespace
      /\ byNamespace' = [n \in DOMAIN byNamespace \union {ns} |->
                            IF n = ns THEN <<Len(Appended(e)), Len(Last(Appended(e)))>> ELSE byNamespace[n]]
  BY <1>2, <1>4, Zenon DEF NewNamespace
<1>7. DOMAIN byNamespace = Met
  BY DEF Pointing
<1>8. Last(arrays') = Slice'
  BY <1>5, <1>6, AppendedShape DEF Pointing
<1>9. byNamespace' = [n \in Met \union {ns} |->
                            IF n = ns THEN <<Len(arrays'), Len(Slice')>> ELSE byNamespace[n]]
  BY <1>6, <1>7, <1>8
<1>10. QED
  BY <1>1, <1>3, <1>4, <1>5, <1>6, <1>7, <1>9

\* The namespaces met after one more key.
LEMMA MetGrows ==
  ASSUME placed \in 0..(Len(keys) - 1), Len(keys) \in Nat, placed' = placed + 1, keys' = keys
  PROVE  Met' = Met \union {keys[placed + 1][1]}
<1>1. 1..(placed + 1) = 1..placed \union {placed + 1}
  OBVIOUS
<1>2. QED
  BY <1>1, Zenon DEF Met

\* A new namespace is appended to the slice, and its pointer leads there.
LEMMA NewNamespaceStep ==
  ASSUME KeysOnce, Pointing, Listing, NewNamespace
  PROVE  KeysOnce' /\ Pointing' /\ Listing'
<1>1. PICK ns, ty :
            /\ placed \in 0..(Len(keys) - 1) /\ placed' = placed + 1
            /\ keys[placed + 1] = <<ns, ty>> /\ keys' = keys
            /\ ns \notin Met
            /\ [namespace |-> ns, types |-> <<ty>>] \in Entry
            /\ arrays' = Appended([namespace |-> ns, types |-> <<ty>>])
            /\ byNamespace' = [n \in Met \union {ns} |->
                                  IF n = ns THEN <<Len(arrays'), Len(Slice')>> ELSE byNamespace[n]]
  BY NewNamespaceEffect
<1>2. PICK e : e = [namespace |-> ns, types |-> <<ty>>]
  OBVIOUS
<1>3. e \in Entry /\ arrays' = Appended(e) /\ e.namespace = ns /\ e.types = <<ty>>
  BY <1>1, <1>2
<1>4. arrays \in Seq(Seq(Entry)) /\ Len(keys) \in Nat
  BY DEF Pointing, KeysOnce
<1>5. /\ arrays' \in Seq(Seq(Entry)) /\ arrays' # <<>>
      /\ Slice' = Append(Slice, e) /\ Last(arrays') = Slice'
      /\ Len(arrays') >= Len(arrays)
      /\ \A a \in 1..Len(arrays) : Len(arrays'[a]) >= Len(arrays[a])
  BY <1>3, <1>4, AppendedShape
<1>6. /\ Slice \in Seq(Entry) /\ Len(Slice) \in Nat /\ Len(arrays) \in Nat
      /\ Len(arrays') \in 1..Len(arrays') /\ Slice' = arrays'[Len(arrays')]
  <2>1. Slice \in Seq(Entry) /\ Len(Slice) \in Nat /\ Len(arrays) \in Nat
    BY <1>4, SliceFacts
  <2>2. Len(arrays') \in 1..Len(arrays')
    BY <1>5
  <2>3. QED
    BY <1>5, <2>1, <2>2 DEF Last
<1>7. /\ Len(Slice') = Len(Slice) + 1 /\ Slice'[Len(Slice) + 1] = e
      /\ \A j \in 1..Len(Slice) : Slice'[j] = Slice[j]
  <2>1. PICK l, m : l = Slice /\ m = Slice'
    OBVIOUS
  <2>2. l \in Seq(Entry) /\ m = Append(l, e)
    BY <1>5, <1>6, <2>1
  <2>3. Len(m) = Len(l) + 1 /\ m[Len(l) + 1] = e /\ \A j \in 1..Len(l) : m[j] = l[j]
    BY <1>3, <2>2
  <2>4. QED
    BY <2>1, <2>3
<1>8. Met' = Met \union {ns}
  BY <1>1, <1>4, MetGrows
<1>9. /\ byNamespace'[ns] = <<Len(arrays'), Len(Slice) + 1>>
      /\ \A n \in Met : byNamespace'[n] = byNamespace[n]
  BY <1>1, <1>7
<1>10. Pointing'
  <2>1. placed' \in 0..Len(keys') /\ arrays' \in Seq(Seq(Entry))
    BY <1>1, <1>4, <1>5
  <2>2. byNamespace' \in [Met' -> (Nat \ {0}) \X (Nat \ {0})]
    <3>1. byNamespace \in [Met -> (Nat \ {0}) \X (Nat \ {0})]
      BY DEF Pointing
    <3>2. <<Len(arrays'), Len(Slice')>> \in (Nat \ {0}) \X (Nat \ {0})
      BY <1>6, <1>7
    <3>3. QED
      BY <1>1, <1>8, <3>1, <3>2
  <2>3. \A n \in Met' :
           /\ byNamespace'[n][1] \in 1..Len(arrays') /\ byNamespace'[n][2] \in 1..Len(arrays'[byNamespace'[n][1]])
           /\ byNamespace'[n][2] \in 1..Len(Slice') /\ Slice'[byNamespace'[n][2]].namespace = n
    <3> TAKE n \in Met'
    <3>1. CASE n = ns
      BY <1>3, <1>6, <1>7, <1>9, <3>1
    <3>2. CASE n \in Met
      <4>1. /\ byNamespace[n][1] \in 1..Len(arrays) /\ byNamespace[n][2] \in 1..Len(arrays[byNamespace[n][1]])
            /\ byNamespace[n][2] \in 1..Len(Slice) /\ Slice[byNamespace[n][2]].namespace = n
        BY <3>2 DEF Pointing
      <4>2. PICK a, p : a = byNamespace[n][1] /\ p = byNamespace[n][2]
        OBVIOUS
      <4>3. a \in 1..Len(arrays) /\ p \in 1..Len(arrays[a]) /\ p \in 1..Len(Slice) /\ Slice[p].namespace = n
        BY <4>1, <4>2
      <4>4. a \in 1..Len(arrays') /\ Len(arrays'[a]) >= Len(arrays[a])
        BY <1>5, <1>6, <4>3
      <4>5. Len(arrays[a]) \in Nat /\ Len(arrays'[a]) \in Nat
        BY <1>4, <1>5, <1>6, <4>3, <4>4, SMTT(30)
      <4>6. p \in 1..Len(arrays'[a]) /\ p \in 1..Len(Slice') /\ Slice'[p].namespace = n
        BY <1>6, <1>7, <4>3, <4>4, <4>5, SMTT(30)
      <4>7. byNamespace'[n] = byNamespace[n]
        BY <1>9, <3>2
      <4>8. QED
        BY <4>2, <4>4, <4>6, <4>7
    <3>3. QED
      BY <1>8, <3>1, <3>2
  <2>4. \A j \in 1..Len(Slice') : Slice'[j].namespace \in Met' /\ byNamespace'[Slice'[j].namespace][2] = j
    <3> TAKE j \in 1..Len(Slice')
    <3>1. CASE j = Len(Slice) + 1
      BY <1>3, <1>7, <1>8, <1>9, <3>1
    <3>2. CASE j \in 1..Len(Slice)
      <4>1. Slice[j].namespace \in Met /\ byNamespace[Slice[j].namespace][2] = j
        BY <3>2 DEF Pointing
      <4>2. QED
        BY <1>7, <1>8, <1>9, <3>2, <4>1
    <3>3. QED
      BY <1>6, <1>7, <3>1, <3>2
  <2>5. QED
    BY <2>1, <2>2, <2>3, <2>4 DEF Pointing
<1>11. ASSUME Contiguous' PROVE
         /\ placed' > 0 => byNamespace'[keys'[placed'][1]][1] = Len(arrays')
         /\ \A i \in 1..placed' :
              \E k \in 1..Len(Slice'[byNamespace'[keys'[i][1]][2]].types) :
                 Slice'[byNamespace'[keys'[i][1]][2]].types[k] = keys'[i][2]
         /\ \A j \in 1..Len(Slice') :
              /\ Len(Slice'[j].types) <= placed'
              /\ \A k \in 1..Len(Slice'[j].types) :
                   \E i \in 1..placed' : keys'[i] = <<Slice'[j].namespace, Slice'[j].types[k]>>
              /\ \A k, m \in 1..Len(Slice'[j].types) : Slice'[j].types[k] = Slice'[j].types[m] => k = m
  <2>1. Contiguous
    BY <1>1, <1>11 DEF Contiguous
  <2>2. byNamespace'[keys'[placed'][1]][1] = Len(arrays')
    BY <1>1, <1>9
  <2>3. ASSUME NEW i \in 1..placed' PROVE
          \E k \in 1..Len(Slice'[byNamespace'[keys'[i][1]][2]].types) :
             Slice'[byNamespace'[keys'[i][1]][2]].types[k] = keys'[i][2]
    <3>1. CASE i = placed + 1
      <4>1. Slice'[byNamespace'[keys'[i][1]][2]].types = <<ty>> /\ keys'[i][2] = ty
        <5>1. keys'[i] = <<ns, ty>> /\ keys'[i][1] = ns /\ keys'[i][2] = ty
          BY <1>1, <3>1
        <5>2. byNamespace'[ns][2] = Len(Slice) + 1
          BY <1>9, SMTT(30)
        <5>3. QED
          BY <1>3, <1>7, <5>1, <5>2
      <4>2. QED
        BY <4>1
    <3>2. CASE i \in 1..placed
      <4>1. keys[i][1] \in Met
        BY <3>2 DEF Met
      <4>2. byNamespace[keys[i][1]][2] \in 1..Len(Slice)
        BY <4>1 DEF Pointing
      <4>3. Slice'[byNamespace'[keys'[i][1]][2]] = Slice[byNamespace[keys[i][1]][2]]
        BY <1>1, <1>7, <1>9, <4>1, <4>2
      <4>4. \E k \in 1..Len(Slice[byNamespace[keys[i][1]][2]].types) :
               Slice[byNamespace[keys[i][1]][2]].types[k] = keys[i][2]
        BY <2>1, <3>2 DEF Listing, ListedAs
      <4>5. QED
        BY <1>1, <4>3, <4>4, Zenon
    <3>3. i = placed + 1 \/ i \in 1..placed
      BY <1>1
    <3>4. QED
      BY <3>1, <3>2, <3>3, Zenon
  <2>4. ASSUME NEW j \in 1..Len(Slice') PROVE
              /\ Len(Slice'[j].types) <= placed'
              /\ \A k \in 1..Len(Slice'[j].types) :
                   \E i \in 1..placed' : keys'[i] = <<Slice'[j].namespace, Slice'[j].types[k]>>
              /\ \A k, m \in 1..Len(Slice'[j].types) : Slice'[j].types[k] = Slice'[j].types[m] => k = m
    <3>1. CASE j = Len(Slice) + 1
      <4>1. Slice'[j].types = <<ty>> /\ Slice'[j].namespace = ns
        BY <1>3, <1>7, <3>1
      <4>2. keys'[placed'] = <<ns, ty>> /\ placed' \in 1..placed' /\ placed' >= 1
        BY <1>1
      <4>3. Len(Slice'[j].types) = 1 /\ Slice'[j].types[1] = ty
        BY <4>1
      <4>4. 1..Len(Slice'[j].types) = {1}
        BY <4>3
      <4>5. Len(Slice'[j].types) <= placed'
        BY <4>2, <4>3
      <4>6. QED
        BY <4>1, <4>2, <4>3, <4>4, <4>5
    <3>2. CASE j \in 1..Len(Slice)
      <4>1. Slice'[j] = Slice[j]
        BY <1>7, <3>2
      <4>2. /\ Len(Slice[j].types) <= placed
            /\ \A k \in 1..Len(Slice[j].types) : \E i \in 1..placed : keys[i] = <<Slice[j].namespace, Slice[j].types[k]>>
            /\ \A k, m \in 1..Len(Slice[j].types) : Slice[j].types[k] = Slice[j].types[m] => k = m
        BY <2>1, <3>2 DEF Listing, ListedAs
      <4>3. Len(Slice[j].types) \in Nat
        BY <1>6, <3>2 DEF Entry
      <4>4. PICK types, nj : types = Slice[j].types /\ nj = Slice[j].namespace
        OBVIOUS
      <4>5. Len(types) <= placed' /\ \A k, m \in 1..Len(types) : types[k] = types[m] => k = m
        BY <1>1, <4>2, <4>3, <4>4
      <4>6. 1..placed \subseteq 1..placed'
        BY <1>1
      <4>7. \A k \in 1..Len(types) : \E i \in 1..placed' : keys'[i] = <<nj, types[k]>>
        BY <1>1, <4>2, <4>4, <4>6, Zenon
      <4>8. QED
        BY <4>1, <4>4, <4>5, <4>7, Zenon
    <3>3. j = Len(Slice) + 1 \/ j \in 1..Len(Slice)
      BY <1>6, <1>7
    <3>4. QED
      BY <3>1, <3>2, <3>3, Zenon
  <2>5. QED
    BY <2>2, <2>3, <2>4
<1>12. Listing'
  BY <1>11, Zenon DEF Listing, ListedAs
<1>13. KeysOnce'
  BY <1>1 DEF KeysOnce, Kinds
<1>14. QED
  BY <1>10, <1>12, <1>13

\* An element of Entry and what one more type makes of it.
LEMMA MoreTypes ==
  ASSUME NEW e \in Entry, NEW ty \in {k[2] : k \in Kinds}
  PROVE  /\ [e EXCEPT !.types = Append(e.types, ty)] \in Entry
         /\ [e EXCEPT !.types = Append(e.types, ty)].namespace = e.namespace
         /\ [e EXCEPT !.types = Append(e.types, ty)].types = Append(e.types, ty)
         /\ e.types \in Seq({k[2] : k \in Kinds})
<1>1. PICK K : K = {k[2] : k \in Kinds}
  OBVIOUS
<1>2. PICK N : N = {k[1] : k \in Kinds}
  OBVIOUS
<1>3. e \in [namespace : N, types : Seq(K)] /\ ty \in K
  BY <1>1, <1>2 DEF Entry
<1>4. Append(e.types, ty) \in Seq(K) /\ e.types \in Seq(K)
  BY <1>3
<1>5. [e EXCEPT !.types = Append(e.types, ty)] \in [namespace : N, types : Seq(K)]
  BY <1>3, <1>4
<1>6. QED
  BY <1>1, <1>2, <1>3, <1>4, <1>5 DEF Entry

\* Another type is written where the pointer of its namespace leads.
LEMMA AnotherTypeStep ==
  ASSUME KeysOnce, Pointing, Listing, AnotherType
  PROVE  KeysOnce' /\ Pointing' /\ Listing'
<1>1. placed \in 0..(Len(keys) - 1) /\ placed + 1 \in 1..Len(keys) /\ placed' = placed + 1 /\ keys' = keys /\ byNamespace' = byNamespace
  <2>1. placed < Len(keys) /\ placed' = placed + 1 /\ keys' = keys /\ byNamespace' = byNamespace
    BY Zenon DEF AnotherType
  <2>2. placed \in 0..Len(keys) /\ Len(keys) \in Nat
    BY DEF Pointing, KeysOnce
  <2>3. QED
    BY <2>1, <2>2
<1>2. PICK ns, ty : ns = keys[placed + 1][1] /\ ty = keys[placed + 1][2]
  OBVIOUS
<1>3. keys[placed + 1] = <<ns, ty>> /\ ty \in {k[2] : k \in Kinds}
  BY <1>1, <1>2, KeyPairs
<1>4. ns \in DOMAIN byNamespace
      /\ arrays' = [arrays EXCEPT ![byNamespace[ns][1]][byNamespace[ns][2]].types = Append(@, ty)]
  BY <1>2, Zenon DEF AnotherType
<1>5. ns \in Met
  BY <1>4 DEF Pointing
<1>6. PICK a, p : a = byNamespace[ns][1] /\ p = byNamespace[ns][2]
  OBVIOUS
<1>7. a \in 1..Len(arrays) /\ p \in 1..Len(arrays[a])
  BY <1>5, <1>6 DEF Pointing
<1>8. PICK e : e = arrays[a][p]
  OBVIOUS
<1>9. e \in Entry
  <2>1. arrays[a] \in Seq(Entry)
    BY <1>7 DEF Pointing
  <2>2. QED
    BY <1>7, <1>8, <2>1
<1>10. PICK f : f = [e EXCEPT !.types = Append(e.types, ty)]
  OBVIOUS
<1>11. f \in Entry /\ f.namespace = e.namespace /\ f.types = Append(e.types, ty) /\ e.types \in Seq({k[2] : k \in Kinds})
  BY <1>3, <1>9, <1>10, MoreTypes
<1>12. arrays' = [arrays EXCEPT ![a] = [arrays[a] EXCEPT ![p] = f]]
  BY <1>4, <1>6, <1>8, <1>10
<1>13. placed \in 0..(Len(keys) - 1) /\ placed' = placed + 1 /\ keys' = keys
  BY <1>1, Zenon
<1>14. a \in 1..Len(arrays) /\ p \in 1..Len(arrays[a]) /\ f \in Entry /\ e = arrays[a][p] /\ f.namespace = e.namespace
       /\ arrays' = [arrays EXCEPT ![a] = [arrays[a] EXCEPT ![p] = f]]
  BY <1>7, <1>8, <1>11, <1>12, Zenon
<1>15. keys[placed + 1] = <<ns, ty>> /\ ns \in Met /\ byNamespace' = byNamespace
       /\ a = byNamespace[ns][1] /\ p = byNamespace[ns][2]
  BY <1>1, <1>3, <1>5, <1>6, Zenon
<1>16. f.types = Append(e.types, ty) /\ e.types \in Seq({k[2] : k \in Kinds}) /\ ty \in {k[2] : k \in Kinds}
  BY <1>3, <1>11, Zenon
<1>17. arrays \in Seq(Seq(Entry)) /\ Len(keys) \in Nat /\ Len(arrays) \in Nat /\ arrays # <<>>
  <2>1. arrays \in Seq(Seq(Entry)) /\ Len(keys) \in Nat
    BY DEF Pointing, KeysOnce
  <2>2. QED
    BY <1>7, <2>1
<1>18. /\ arrays' \in Seq(Seq(Entry)) /\ Len(arrays') = Len(arrays) /\ arrays' # <<>>
      /\ \A b \in 1..Len(arrays) : Len(arrays'[b]) = Len(arrays[b])
  <2>1. PICK l : l = [arrays[a] EXCEPT ![p] = f]
    OBVIOUS
  <2>2. arrays[a] \in Seq(Entry)
    BY <1>17, <1>7
  <2>3. l \in Seq(Entry) /\ Len(l) = Len(arrays[a])
    BY <1>14, <2>1, <2>2
  <2>4. arrays' = [arrays EXCEPT ![a] = l]
    BY <1>14, <2>1, Zenon
  <2>5. QED
    BY <1>17, <1>7, <2>2, <2>3, <2>4
<1>19. /\ Slice = arrays[Len(arrays)] /\ Slice' = arrays'[Len(arrays)] /\ Slice \in Seq(Entry) /\ Slice' \in Seq(Entry)
      /\ Len(Slice) \in Nat /\ Len(Slice') = Len(Slice) /\ Len(arrays) \in 1..Len(arrays)
  <2>1. Len(arrays) \in 1..Len(arrays)
    BY <1>17, <1>7
  <2>2. Slice = arrays[Len(arrays)] /\ Slice' = arrays'[Len(arrays)]
    BY <1>17, <1>18 DEF Slice
  <2>3. Slice \in Seq(Entry) /\ Slice' \in Seq(Entry)
    <3>1. PICK S : S = Seq(Entry)
      OBVIOUS
    <3>2. arrays \in Seq(S) /\ arrays' \in Seq(S) /\ Len(arrays') = Len(arrays)
      BY <1>17, <1>18, <3>1
    <3>3. arrays[Len(arrays)] \in S /\ arrays'[Len(arrays)] \in S
      BY <2>1, <3>2
    <3>4. QED
      BY <2>2, <3>1, <3>3
  <2>4. QED
    BY <1>18, <2>1, <2>2, <2>3
<1>20. \A j \in 1..Len(Slice) : ~(a = Len(arrays) /\ j = p) => Slice'[j] = Slice[j]
  <2>1. PICK l : l = [arrays[a] EXCEPT ![p] = f]
    OBVIOUS
  <2>2. arrays' = [arrays EXCEPT ![a] = l]
    BY <1>14, <2>1, Zenon
  <2>3. CASE a = Len(arrays)
    <3>1. Slice' = l /\ l = [Slice EXCEPT ![p] = f]
      <4>1. arrays'[a] = l
        BY <1>17, <1>7, <2>2
      <4>2. QED
        BY <1>19, <2>1, <2>3, <4>1, Zenon
    <3>2. QED
      BY <1>19, <2>3, <3>1
  <2>4. CASE a # Len(arrays)
    <3>1. arrays'[Len(arrays)] = arrays[Len(arrays)]
      BY <1>17, <1>19, <2>2, <2>4
    <3>2. QED
      BY <1>19, <3>1
  <2>5. QED
    BY <2>3, <2>4
<1>21. a = Len(arrays) => Slice[p] = e /\ Slice'[p] = f
  <2>1. PICK l : l = [arrays[a] EXCEPT ![p] = f]
    OBVIOUS
  <2>2. arrays' = [arrays EXCEPT ![a] = l]
    BY <1>14, <2>1, Zenon
  <2>3. l[p] = f
    <3>1. arrays[a] \in Seq(Entry)
      BY <1>17, <1>7
    <3>2. QED
      BY <1>7, <2>1, <3>1
  <2>4. arrays'[a] = l
    BY <1>17, <1>7, <2>2
  <2>5. QED
    BY <1>19, <1>8, <2>3, <2>4, Zenon
<1>22. \A j \in 1..Len(Slice) : Slice'[j].namespace = Slice[j].namespace
  BY <1>20, <1>21, <1>11
<1>23. p \in 1..Len(Slice) /\ Slice[p].namespace = ns
  BY <1>5, <1>6 DEF Pointing
<1>24. Met' = Met
  <2>1. Met' = Met \union {keys[placed + 1][1]}
    BY <1>17, <1>13, MetGrows
  <2>2. keys[placed + 1][1] = ns
    BY <1>2
  <2>3. QED
    BY <1>15, <2>1, <2>2
<1>25. Pointing'
  <2>1. placed' \in 0..Len(keys') /\ arrays' \in Seq(Seq(Entry)) /\ byNamespace' \in [Met' -> (Nat \ {0}) \X (Nat \ {0})]
    <3>1. placed' \in 0..Len(keys')
      BY <1>17, <1>13
    <3>2. byNamespace' \in [Met' -> (Nat \ {0}) \X (Nat \ {0})]
      BY <1>24, <1>15 DEF Pointing
    <3>3. QED
      BY <1>18, <3>1, <3>2
  <2>2. \A n \in Met' :
           /\ byNamespace'[n][1] \in 1..Len(arrays') /\ byNamespace'[n][2] \in 1..Len(arrays'[byNamespace'[n][1]])
           /\ byNamespace'[n][2] \in 1..Len(Slice') /\ Slice'[byNamespace'[n][2]].namespace = n
    <3> TAKE n \in Met'
    <3>1. /\ byNamespace[n][1] \in 1..Len(arrays) /\ byNamespace[n][2] \in 1..Len(arrays[byNamespace[n][1]])
          /\ byNamespace[n][2] \in 1..Len(Slice) /\ Slice[byNamespace[n][2]].namespace = n
      BY <1>24 DEF Pointing
    <3>2. Len(arrays'[byNamespace[n][1]]) = Len(arrays[byNamespace[n][1]]) /\ Slice'[byNamespace[n][2]].namespace = n
      <4>1. Len(arrays'[byNamespace[n][1]]) = Len(arrays[byNamespace[n][1]])
        BY <1>18, <3>1, Zenon
      <4>2. Slice'[byNamespace[n][2]].namespace = n
        BY <1>22, <3>1, Zenon
      <4>3. QED
        BY <4>1, <4>2
    <3>3. byNamespace'[n] = byNamespace[n] /\ Len(arrays') = Len(arrays) /\ Len(Slice') = Len(Slice)
      BY <1>18, <1>19, <1>15
    <3>4. QED
      BY <3>1, <3>2, <3>3
  <2>3. \A j \in 1..Len(Slice') : Slice'[j].namespace \in Met' /\ byNamespace'[Slice'[j].namespace][2] = j
    <3> TAKE j \in 1..Len(Slice')
    <3>1. j \in 1..Len(Slice)
      BY <1>19
    <3>2. Slice[j].namespace \in Met /\ byNamespace[Slice[j].namespace][2] = j
      BY <3>1, Zenon DEF Pointing
    <3>3. QED
      BY <1>22, <1>24, <1>15, <3>1, <3>2, Zenon
  <2>4. QED
    BY <2>1, <2>2, <2>3 DEF Pointing
<1>26. ASSUME Contiguous' PROVE
         /\ placed' > 0 => byNamespace'[keys'[placed'][1]][1] = Len(arrays')
         /\ \A i \in 1..placed' :
              \E k \in 1..Len(Slice'[byNamespace'[keys'[i][1]][2]].types) :
                 Slice'[byNamespace'[keys'[i][1]][2]].types[k] = keys'[i][2]
         /\ \A j \in 1..Len(Slice') :
              /\ Len(Slice'[j].types) <= placed'
              /\ \A k \in 1..Len(Slice'[j].types) :
                   \E i \in 1..placed' : keys'[i] = <<Slice'[j].namespace, Slice'[j].types[k]>>
              /\ \A k, m \in 1..Len(Slice'[j].types) : Slice'[j].types[k] = Slice'[j].types[m] => k = m
  <2>1. Contiguous
    BY <1>26, <1>13 DEF Contiguous
  <2>2. placed \in 1..placed /\ keys[placed][1] = ns
    <3>1. PICK i \in 1..placed : keys[i][1] = ns
      BY <1>5 DEF Met
    <3>2. keys[placed + 1][1] = ns
      BY <1>2
    <3>3. DOMAIN keys = 1..Len(keys)
      BY DEF KeysOnce
    <3>4. CASE i < placed
      <4>1. i \in DOMAIN keys /\ placed \in DOMAIN keys /\ placed + 1 \in DOMAIN keys
        BY <1>17, <1>13, <3>1, <3>3, <3>4
      <4>2. placed < placed + 1 /\ keys[i][1] = keys[placed + 1][1]
        BY <1>13, <3>1, <3>2
      <4>3. QED
        <5>1. keys[placed][1] = keys[i][1]
          BY <2>1, <3>4, <4>1, <4>2 DEF Contiguous
        <5>2. QED
          BY <1>13, <3>1, <3>4, <5>1
    <3>5. CASE i = placed
      BY <3>1, <3>5
    <3>6. QED
      BY <1>13, <3>1, <3>4, <3>5
  <2>3. a = Len(arrays)
    <3>1. placed > 0
      BY <1>13, <2>2
    <3>2. byNamespace[keys[placed][1]][1] = Len(arrays)
      BY <2>1, <3>1, Zenon DEF Listing, ListedAs
    <3>3. QED
      BY <1>15, <2>2, <3>2
  <2>4. Slice[p] = e /\ Slice'[p] = f /\ \A j \in 1..Len(Slice) : j # p => Slice'[j] = Slice[j]
    BY <1>20, <1>21, <2>3
  <2>5. PICK types, more : types = e.types /\ more = f.types
    OBVIOUS
  <2>6. /\ Len(types) \in Nat /\ Len(more) = Len(types) + 1 /\ more[Len(types) + 1] = ty
        /\ \A k \in 1..Len(types) : more[k] = types[k]
    <3>1. types \in Seq({k[2] : k \in Kinds}) /\ ty \in {k[2] : k \in Kinds} /\ more = Append(types, ty)
      BY <1>16, <2>5, Zenon
    <3>2. PICK K : K = {k[2] : k \in Kinds}
      OBVIOUS
    <3>3. types \in Seq(K) /\ ty \in K
      BY <3>1, <3>2
    <3>4. QED
      BY <3>1, <3>3
  <2>7. /\ Len(types) <= placed
        /\ \A k \in 1..Len(types) : \E i \in 1..placed : keys[i] = <<ns, types[k]>>
        /\ \A k, m \in 1..Len(types) : types[k] = types[m] => k = m
    <3>1. types = Slice[p].types /\ Slice[p].namespace = ns /\ p \in 1..Len(Slice)
      BY <1>23, <2>4, <2>5
    <3>2. QED
      <4>1. LET tt == Slice[p].types
            IN  /\ Len(tt) <= placed
                /\ \A k \in 1..Len(tt) : \E i \in 1..placed : keys[i] = <<Slice[p].namespace, tt[k]>>
                /\ \A k, m \in 1..Len(tt) : tt[k] = tt[m] => k = m
        BY <2>1, <3>1 DEF Listing, ListedAs
      <4>2. QED
        BY <3>1, <4>1, Zenon
  <2>8. byNamespace'[keys'[placed'][1]][1] = Len(arrays')
    <3>1. keys'[placed'][1] = ns
      BY <1>13, <1>2
    <3>2. QED
      BY <1>18, <1>15, <2>3, <3>1
  <2>9. ASSUME NEW i \in 1..placed' PROVE
          \E k \in 1..Len(Slice'[byNamespace'[keys'[i][1]][2]].types) :
             Slice'[byNamespace'[keys'[i][1]][2]].types[k] = keys'[i][2]
    <3>1. CASE i = placed + 1
      <4>1. keys'[i][1] = ns /\ keys'[i][2] = ty /\ byNamespace'[ns][2] = p
        BY <1>13, <1>15, <1>2, <3>1
      <4>2. Slice'[byNamespace'[keys'[i][1]][2]].types = more
        BY <2>4, <2>5, <4>1
      <4>3. Len(types) + 1 \in 1..Len(more)
        BY <2>6
      <4>4. QED
        BY <2>6, <4>1, <4>2, <4>3
    <3>2. CASE i \in 1..placed
      <4>1. PICK q, ti, n : q = byNamespace[keys[i][1]][2] /\ ti = keys[i][2] /\ n = keys[i][1]
        OBVIOUS
      <4>2. n \in Met
        BY <3>2, <4>1 DEF Met
      <4>3. q \in 1..Len(Slice)
        BY <4>1, <4>2 DEF Pointing
      <4>4. PICK k \in 1..Len(Slice[q].types) : Slice[q].types[k] = ti
        BY <2>1, <3>2, <4>1 DEF Listing, ListedAs
      <4>5. \E m \in 1..Len(Slice'[q].types) : Slice'[q].types[m] = ti
        <5>1. CASE q = p
          <6>1. Slice[q].types = types /\ Slice'[q].types = more
            BY <2>4, <2>5, <5>1
          <6>2. k \in 1..Len(types) /\ types[k] = ti
            BY <4>4, <6>1
          <6>3. k \in 1..Len(more) /\ more[k] = ti
            BY <2>6, <6>2
          <6>4. QED
            BY <6>1, <6>3
        <5>2. CASE q # p
          BY <2>4, <4>3, <4>4, <5>2
        <5>3. QED
          BY <5>1, <5>2
      <4>6. byNamespace'[keys'[i][1]][2] = q /\ keys'[i][2] = ti
        BY <1>13, <1>15, <4>1
      <4>7. QED
        BY <4>5, <4>6
    <3>3. i = placed + 1 \/ i \in 1..placed
      BY <1>13
    <3>4. QED
      BY <3>1, <3>2, <3>3, Zenon
  <2>10. ASSUME NEW j \in 1..Len(Slice') PROVE
              /\ Len(Slice'[j].types) <= placed'
              /\ \A k \in 1..Len(Slice'[j].types) :
                   \E i \in 1..placed' : keys'[i] = <<Slice'[j].namespace, Slice'[j].types[k]>>
              /\ \A k, m \in 1..Len(Slice'[j].types) : Slice'[j].types[k] = Slice'[j].types[m] => k = m
    <3>1. j \in 1..Len(Slice) /\ 1..placed \subseteq 1..placed' /\ placed + 1 \in 1..placed'
      BY <1>13, <1>19
    <3>2. CASE j = p
      <4>1. Slice'[j].types = more /\ Slice'[j].namespace = ns
        BY <1>22, <1>23, <2>4, <2>5, <3>2
      <4>2. Len(more) <= placed'
        BY <1>13, <2>6, <2>7
      <4>3. \A k \in 1..Len(more) : \E i \in 1..placed' : keys'[i] = <<ns, more[k]>>
        <5> TAKE k \in 1..Len(more)
        <5>1. CASE k = Len(types) + 1
          <6>1. keys'[placed + 1] = <<ns, more[k]>>
            BY <1>13, <1>15, <2>6, <5>1
          <6>2. QED
            BY <3>1, <6>1
        <5>2. CASE k \in 1..Len(types)
          <6>1. PICK i \in 1..placed : keys[i] = <<ns, types[k]>>
            BY <2>7, <5>2
          <6>2. i \in 1..placed' /\ keys'[i] = <<ns, more[k]>>
            BY <1>13, <2>6, <3>1, <5>2, <6>1
          <6>3. QED
            BY <6>2
        <5>3. QED
          BY <2>6, <5>1, <5>2
      <4>4. \A k \in 1..Len(types) : types[k] # ty
        <5> SUFFICES ASSUME NEW k \in 1..Len(types), types[k] = ty PROVE FALSE
          OBVIOUS
        <5>1. PICK i \in 1..placed : keys[i] = <<ns, types[k]>>
          BY <2>7
        <5>2. keys[i] = keys[placed + 1] /\ i \in 1..Len(keys) /\ placed + 1 \in 1..Len(keys)
          <6>1. keys[i] = <<ns, ty>> /\ keys[placed + 1] = <<ns, ty>>
            BY <1>15, <5>1
          <6>2. QED
            BY <1>17, <1>13, <6>1
        <5>3. i = placed + 1
          BY <5>2 DEF KeysOnce
        <5>4. QED
          BY <1>13, <5>3
      <4>5. \A k, m \in 1..Len(more) : more[k] = more[m] => k = m
        BY <2>6, <2>7, <4>4
      <4>6. QED
        BY <4>1, <4>2, <4>3, <4>5, Zenon
    <3>3. CASE j # p
      <4>1. Slice'[j] = Slice[j]
        BY <2>4, <3>1, <3>3
      <4>2. PICK tj, nj : tj = Slice[j].types /\ nj = Slice[j].namespace
        OBVIOUS
      <4>3. /\ Len(tj) <= placed
            /\ \A k \in 1..Len(tj) : \E i \in 1..placed : keys[i] = <<nj, tj[k]>>
            /\ \A k, m \in 1..Len(tj) : tj[k] = tj[m] => k = m
        <5>1. LET tt == Slice[j].types
              IN  /\ Len(tt) <= placed
                  /\ \A k \in 1..Len(tt) : \E i \in 1..placed : keys[i] = <<Slice[j].namespace, tt[k]>>
                  /\ \A k, m \in 1..Len(tt) : tt[k] = tt[m] => k = m
          BY <2>1, <3>1 DEF Listing, ListedAs
        <5>2. QED
          BY <4>2, <5>1, Zenon
      <4>4. Len(tj) \in Nat
        BY <1>19, <3>1, <4>2 DEF Entry
      <4>5. Len(tj) <= placed'
        BY <1>13, <4>3, <4>4
      <4>6. \A k \in 1..Len(tj) : \E i \in 1..placed' : keys'[i] = <<nj, tj[k]>>
        BY <1>13, <3>1, <4>3, Zenon
      <4>7. Slice'[j].types = tj /\ Slice'[j].namespace = nj
        BY <4>1, <4>2
      <4>8. QED
        BY <4>3, <4>5, <4>6, <4>7, Zenon
    <3>4. QED
      BY <3>2, <3>3, Zenon
  <2>11. QED
    BY <2>8, <2>9, <2>10
<1>27. Listing'
  BY <1>26, Zenon DEF Listing, ListedAs
<1>28. KeysOnce'
  BY <1>13 DEF KeysOnce, Kinds
<1>29. QED
  BY <1>25, <1>27, <1>28

LEMMA Unplaced ==
  ASSUME KeysOnce, Unlisted
  PROVE  Pointing /\ Listing
<1>1. Met = {} /\ Slice = <<>> /\ Len(keys) \in Nat
  BY DEF Unlisted, Met, Slice, KeysOnce
<1>2. Pointing
  <2>1. placed \in 0..Len(keys) /\ arrays \in Seq(Seq(Entry))
    BY <1>1 DEF Unlisted
  <2>2. byNamespace \in [Met -> (Nat \ {0}) \X (Nat \ {0})]
    BY <1>1 DEF Unlisted
  <2>3. QED
    BY <1>1, <2>1, <2>2 DEF Pointing
<1>3. Listing
  BY <1>1 DEF Listing, ListedAs, Unlisted
<1>4. QED
  BY <1>2, <1>3

\* The first loop adds the kind of the next resource ordered.
LEMMA CollectStep ==
  ASSUME TypeOK, KeysOnce, met \in 0..Len(order),
         Collect([k \in DOMAIN order |-> TypeOf[resources[order[k]].path]])
  PROVE  KeysOnce' /\ met \in 0..(Len(order) - 1) /\ met' = met + 1 /\ UNCHANGED <<placed, arrays, byNamespace>>
<1>1. PICK pairs : pairs = [k \in DOMAIN order |-> TypeOf[resources[order[k]].path]]
  OBVIOUS
<1>2. /\ met < Len(pairs) /\ met' = met + 1 /\ UNCHANGED <<placed, arrays, byNamespace>>
      /\ keys' = IF pairs[met + 1] \in ToSet(keys) THEN keys ELSE Append(keys, pairs[met + 1])
  BY <1>1 DEF Collect
<1>3. order \in Seq(Index) /\ Len(order) \in Nat /\ DOMAIN order = 1..Len(order)
  BY DEF TypeOK
<1>4. Len(pairs) = Len(order)
  BY <1>1, <1>3
<1>5. met \in 0..(Len(order) - 1) /\ met + 1 \in 1..Len(order)
  BY <1>2, <1>3, <1>4
<1>6. PICK k : k = pairs[met + 1]
  OBVIOUS
<1>7. k \in Kinds
  <2>1. order[met + 1] \in Index
    BY <1>3, <1>5
  <2>2. resources[order[met + 1]].path \in Paths
    BY <2>1 DEF TypeOK, Index, Resource
  <2>3. k = TypeOf[resources[order[met + 1]].path]
    BY <1>1, <1>3, <1>5, <1>6
  <2>4. QED
    BY <2>2, <2>3 DEF Kinds
<1>8. KeysOnce'
  <2>1. CASE k \in ToSet(keys)
    BY <1>2, <1>6, <2>1 DEF KeysOnce, Kinds
  <2>2. CASE k \notin ToSet(keys)
    <3>1. keys' = Append(keys, k) /\ keys \in Seq(Kinds)
      BY <1>2, <1>6, <2>2 DEF KeysOnce
    <3>2. \A i \in 1..Len(keys) : keys[i] # k
      BY <2>2, <3>1 DEF ToSet
    <3>3. /\ keys' \in Seq(Kinds) /\ Len(keys') = Len(keys) + 1 /\ keys'[Len(keys) + 1] = k
          /\ \A i \in 1..Len(keys) : keys'[i] = keys[i]
      BY <1>7, <3>1
    <3>4. \A i, j \in 1..Len(keys') : keys'[i] = keys'[j] => i = j
      BY <3>1, <3>2, <3>3 DEF KeysOnce
    <3>5. QED
      BY <3>3, <3>4 DEF KeysOnce, Kinds
  <2>3. QED
    BY <2>1, <2>2
<1>9. QED
  BY <1>2, <1>5, <1>8

ListingInv ==
    /\ KeysOnce /\ Pointing /\ Listing
    /\ met \in 0..Len(order)
    /\ verdict # "ordered" => met = 0 /\ keys = <<>> /\ Unlisted
    /\ met # Len(order) => Unlisted

LEMMA ListingStep == ASSUME OrderInv, ListingInv, [AllNext]_allVars PROVE ListingInv'
<1>1. CASE UNCHANGED <<listing, order, verdict>>
  <2>1. UNCHANGED <<met, keys, placed, arrays, byNamespace, order, verdict>>
    BY <1>1 DEF listing
  <2>2. KeysOnce'
    BY <2>1 DEF ListingInv, KeysOnce, Kinds
  <2>3. Pointing'
    BY <2>1 DEF ListingInv, Pointing, Met, Slice, Entry, Kinds
  <2>4. Listing'
    <3>1. (Contiguous' => Contiguous) /\ Slice' = Slice
      BY <2>1 DEF Contiguous, Slice
    <3>2. QED
      BY <2>1, <3>1 DEF ListingInv, Listing
  <2>5. QED
    BY <2>1, <2>2, <2>3, <2>4 DEF ListingInv, Unlisted
<1>2. CASE Order
  <2>1. UNCHANGED <<met, keys, placed, arrays, byNamespace>>
    BY <1>2 DEF Order, listing
  <2>2. verdict = "running"
    BY <1>2 DEF Order, Step, VisitNext, Follow, Finish, Done
  <2>3. met = 0 /\ keys = <<>> /\ Unlisted
    BY <2>2 DEF ListingInv
  <2>4. met' = 0 /\ keys' = <<>> /\ Unlisted'
    BY <2>1, <2>3 DEF Unlisted
  <2>5. KeysOnce'
    BY <2>4 DEF KeysOnce
  <2>6. Pointing' /\ Listing'
    BY <2>4, <2>5, Unplaced, PTL
  <2>7. Len(order') \in Nat
    <3>1. order \in Seq(Index)
      BY DEF OrderInv, TypeOK
    <3>2. order' = order \/ (order' = Append(order, Top) /\ stack # <<>> /\ stack \in Seq(Index))
      BY <1>2 DEF Order, Step, VisitNext, Follow, Finish, Done, OrderInv, TypeOK
    <3>3. stack # <<>> /\ stack \in Seq(Index) => Top \in Index
      BY DEF Top
    <3>4. QED
      BY <3>1, <3>2, <3>3
  <2>8. QED
    BY <2>4, <2>5, <2>6, <2>7 DEF ListingInv
<1>3. CASE BuildProviders
  <2>1. UNCHANGED <<order, verdict>> /\ verdict = "ordered"
    BY <1>3 DEF BuildProviders, vars
  <2>2. CASE Collect([k \in DOMAIN order |-> TypeOf[resources[order[k]].path]])
    <3>1. KeysOnce' /\ met \in 0..(Len(order) - 1) /\ met' = met + 1 /\ UNCHANGED <<placed, arrays, byNamespace>>
      BY <2>2, CollectStep DEF OrderInv, ListingInv
    <3>2. Unlisted
      BY <3>1 DEF ListingInv
    <3>3. Unlisted'
      BY <3>1, <3>2 DEF Unlisted
    <3>4. Pointing' /\ Listing'
      BY <3>1, <3>3, Unplaced, PTL
    <3>5. Len(order) \in Nat
      BY DEF OrderInv, TypeOK
    <3>6. QED
      BY <2>1, <3>1, <3>3, <3>4, <3>5 DEF ListingInv
  <2>3. CASE met = Len(order) /\ ListingNext
    <3>1. KeysOnce' /\ Pointing' /\ Listing'
        <4>1. KeysOnce /\ Pointing /\ Listing /\ (NewNamespace \/ AnotherType)
        BY <2>3, Zenon DEF ListingNext, ListingInv
      <4>2. QED
        BY <4>1, NewNamespaceStep, AnotherTypeStep, Zenon
    <3>2. met' = met
      BY <2>3, Zenon DEF ListingNext, NewNamespace, AnotherType
    <3>3. QED
      BY <2>1, <2>3, <3>1, <3>2 DEF ListingInv
  <2>4. QED
    BY <1>3, <2>2, <2>3 DEF BuildProviders
<1>4. QED
  BY <1>1, <1>2, <1>3 DEF AllNext, allVars, vars, Resolve, ParseId, Recur

LEMMA ListingBegins == AllInit => ListingInv
<1> SUFFICES ASSUME AllInit PROVE ListingInv
  OBVIOUS
<1>1. met = 0 /\ keys = <<>> /\ Unlisted
  BY DEF AllInit, ListingInit, Unlisted
<1>2. order = <<>>
  BY DEF AllInit, OrderIdle, Init
<1>3. KeysOnce
  BY <1>1 DEF KeysOnce
<1>4. QED
  BY <1>1, <1>2, <1>3, Unplaced DEF ListingInv

LEMMA ListingIsRight == ASSUME ListingInv PROVE TypesListed
<1>1. /\ arrays \in Seq(Seq(Entry)) /\ Providers = Slice /\ Slice \in Seq(Entry) /\ DOMAIN Slice = 1..Len(Slice)
      /\ DOMAIN keys = 1..Len(keys) /\ Len(keys) \in Nat /\ placed \in 0..Len(keys)
  BY SliceFacts DEF ListingInv, Pointing, KeysOnce
<1>2. ASSUME NEW i \in 1..placed
      PROVE  Cardinality({j \in DOMAIN Providers : Providers[j].namespace = keys[i][1]}) = 1
  <2>1. PICK n, p : n = keys[i][1] /\ p = byNamespace[n][2]
    OBVIOUS
  <2>2. n \in Met
    BY <2>1 DEF Met
  <2>3. p \in 1..Len(Slice) /\ Slice[p].namespace = n
    BY <2>1, <2>2 DEF ListingInv, Pointing
  <2>4. \A j \in 1..Len(Slice) : Slice[j].namespace = n => j = p
    BY <2>1 DEF ListingInv, Pointing
  <2>5. {j \in DOMAIN Providers : Providers[j].namespace = keys[i][1]} = {p}
    BY <1>1, <2>1, <2>3, <2>4
  <2>6. QED
    BY <2>5, FS_Singleton
<1>3. ASSUME Contiguous, NEW i \in 1..placed
      PROVE  Cardinality(Places(keys[i])) = 1
  <2>1. PICK n, ty, p : n = keys[i][1] /\ ty = keys[i][2] /\ p = byNamespace[n][2]
    OBVIOUS
  <2>2. n \in Met
    BY <2>1 DEF Met
  <2>3. p \in 1..Len(Slice) /\ Slice[p].namespace = n
    BY <2>1, <2>2 DEF ListingInv, Pointing
  <2>4. \A j \in 1..Len(Slice) : Slice[j].namespace = n => j = p
    BY <2>1 DEF ListingInv, Pointing
  <2>5. PICK types : types = Slice[p].types
    OBVIOUS
  <2>6. Len(types) \in Nat /\ DOMAIN types = 1..Len(types)
    BY <1>1, <2>3, <2>5 DEF Entry
  <2>7. ListedAs(Slice, placed, keys, byNamespace, Len(arrays))
    BY <1>3 DEF ListingInv, Listing
  <2>8. Len(types) <= placed /\ \A k, m \in 1..Len(types) : types[k] = types[m] => k = m
    BY <2>3, <2>5, <2>7 DEF ListedAs
  <2>9. PICK k0 \in 1..Len(types) : types[k0] = ty
    BY <2>1, <2>5, <2>7 DEF ListedAs
  <2>10. k0 \in DOMAIN keys
    BY <1>1, <2>6, <2>8, <2>9
  <2>11. Places(keys[i]) = {<<p, k0>>}
    <3>1. \A j \in DOMAIN Providers, k \in DOMAIN keys :
             Providers[j].namespace = keys[i][1] /\ k \in DOMAIN Providers[j].types /\ Providers[j].types[k] = keys[i][2]
             => j = p /\ k = k0
      <4> SUFFICES ASSUME NEW j \in DOMAIN Providers, NEW k \in DOMAIN keys,
                          Providers[j].namespace = keys[i][1], k \in DOMAIN Providers[j].types,
                          Providers[j].types[k] = keys[i][2]
                   PROVE  j = p /\ k = k0
        OBVIOUS
      <4>1. j = p
        BY <1>1, <2>1, <2>4
      <4>2. k \in 1..Len(types) /\ types[k] = ty
        BY <1>1, <2>1, <2>5, <2>6, <4>1
      <4>3. QED
        BY <2>8, <2>9, <4>1, <4>2
    <3>2. /\ Providers[p].namespace = keys[i][1] /\ k0 \in DOMAIN Providers[p].types
          /\ Providers[p].types[k0] = keys[i][2] /\ p \in DOMAIN Providers
      BY <1>1, <2>1, <2>3, <2>5, <2>6, <2>9
    <3>3. QED
      BY <2>10, <3>1, <3>2 DEF Places
  <2>12. QED
    <3>1. Cardinality({<<p, k0>>}) = 1
      BY FS_Singleton
    <3>2. QED
      BY <2>11, <3>1
<1>4. QED
  BY <1>2, <1>3 DEF TypesListed

-----------------------------------------------------------------------------

\* The ids of resources.

\* A segment that is not empty, the positions a client may spell at will, and
\* what the middleware makes of a segment.
Segs == (Tokens \union Names) \X Spellings
Fixed == {1, 3, 5, 6, 7, 9, 11}
Norm(s) == IF s[1] \in Tokens THEN Canonical(s[1]) ELSE s

Built == ResourcePath(asked.subscription, asked.group, asked.type, asked.names)
Levels == Len(asked.type[2])

Asked ==
    /\ asked.type \in Types
    /\ asked.names \in [DOMAIN asked.type[2] -> Names \X Spellings]
    /\ asked.subscription \in Names \X Spellings
    /\ asked.group \in Names \X Spellings

\* The segments of the path that was built.
LEMMA BuiltPath ==
  ASSUME Asked
  PROVE  /\ Levels \in 1..3 /\ DOMAIN asked.type[2] = 1..Levels
         /\ asked.type[1] \in Tokens /\ \A k \in 1..Levels : asked.type[2][k] \in Tokens \ {"providers"}
         /\ Built \in Seq(Segs) /\ Len(Built) = 6 + 2 * Levels
         /\ Built[1] = Canonical("subscriptions") /\ Built[2] = asked.subscription
         /\ Built[3] = Canonical("resourceGroups") /\ Built[4] = asked.group
         /\ Built[5] = Canonical("providers") /\ Built[6] = Canonical(asked.type[1])
         /\ \A k \in 1..Levels : Built[5 + 2 * k] = Canonical(asked.type[2][k]) /\ Built[6 + 2 * k] = asked.names[k]
<1>1. /\ Levels \in 1..3 /\ DOMAIN asked.type[2] = 1..Levels /\ asked.type[1] \in Tokens
      /\ \A k \in 1..Levels : asked.type[2][k] \in Tokens \ {"providers"}
  BY TokensAssumption DEF Asked, Levels
<1>2. PICK t, n : t = asked.type[2] /\ n = asked.names
  OBVIOUS
<1>3. PICK tail : tail = [i \in 1..(2 * Levels) |-> IF i % 2 = 1 THEN Canonical(t[(i + 1) \div 2]) ELSE n[i \div 2]]
  OBVIOUS
<1>4. PICK head : head = <<Canonical("subscriptions"), asked.subscription, Canonical("resourceGroups"), asked.group,
                           Canonical("providers"), Canonical(asked.type[1])>>
  OBVIOUS
<1>5. Built = head \o tail
  BY <1>2, <1>3, <1>4, Zenon DEF Built, ResourcePath, Levels
<1>6. \A w \in Tokens : Canonical(w) \in Segs
  BY TokensAssumption DEF Canonical, Segs
<1>7. \A k \in 1..Levels : t[k] \in Tokens /\ n[k] \in Segs
  BY <1>1, <1>2 DEF Asked, Segs
<1>8. tail \in Seq(Segs) /\ Len(tail) = 2 * Levels
  <2>1. ASSUME NEW i \in 1..(2 * Levels) PROVE (IF i % 2 = 1 THEN Canonical(t[(i + 1) \div 2]) ELSE n[i \div 2]) \in Segs
    <3>1. CASE i % 2 = 1
      <4>1. (i + 1) \div 2 \in 1..Levels
        BY <1>1, <3>1
      <4>2. QED
        BY <1>6, <1>7, <3>1, <4>1
    <3>2. CASE i % 2 # 1
      <4>1. i \div 2 \in 1..Levels
        BY <1>1, <3>2
      <4>2. QED
        BY <1>7, <3>2, <4>1
    <3>3. QED
      BY <3>1, <3>2
  <2>2. tail \in [1..(2 * Levels) -> Segs]
    BY <1>3, <2>1
  <2>3. 2 * Levels \in Nat
    BY <1>1
  <2>4. QED
    BY <2>2, <2>3
<1>9. head \in Seq(Segs) /\ Len(head) = 6
  <2>1. asked.subscription \in Segs /\ asked.group \in Segs
    BY DEF Asked, Segs
  <2>2. Canonical("subscriptions") \in Segs /\ Canonical("resourceGroups") \in Segs /\ Canonical("providers") \in Segs
        /\ Canonical(asked.type[1]) \in Segs
    BY <1>1, <1>6, TokensAssumption DEF Skeleton
  <2>3. QED
    BY <1>4, <2>1, <2>2
<1>10. /\ Built \in Seq(Segs) /\ Len(Built) = 6 + 2 * Levels
       /\ \A i \in 1..6 : Built[i] = head[i]
       /\ \A i \in 1..(2 * Levels) : Built[6 + i] = tail[i]
  <2>1. PICK q : q = head \o tail
    OBVIOUS
  <2>2. /\ q \in Seq(Segs) /\ Len(q) = Len(head) + Len(tail)
        /\ \A i \in 1..(Len(head) + Len(tail)) : q[i] = IF i <= Len(head) THEN head[i] ELSE tail[i - Len(head)]
    <3>1. head \in Seq(Segs) /\ tail \in Seq(Segs)
      BY <1>8, <1>9
    <3>2. QED
      BY <2>1, <3>1, ConcatProperties, Zenon
  <2>3. 2 * Levels \in Nat /\ Len(q) = 6 + 2 * Levels
    BY <1>1, <1>8, <1>9, <2>2
  <2>4. \A i \in 1..6 : q[i] = head[i]
    BY <1>9, <2>2, <2>3
  <2>5. \A i \in 1..(2 * Levels) : q[6 + i] = tail[i]
    BY <1>9, <2>2, <2>3
  <2>6. QED
    BY <1>5, <2>1, <2>2, <2>3, <2>4, <2>5
<1>11. \A k \in 1..Levels : tail[2 * k - 1] = Canonical(t[k]) /\ tail[2 * k] = n[k]
  <2> TAKE k \in 1..Levels
  <2>1. /\ 2 * k - 1 \in 1..(2 * Levels) /\ 2 * k \in 1..(2 * Levels)
        /\ (2 * k - 1) % 2 = 1 /\ (2 * k) % 2 = 0 /\ ((2 * k - 1) + 1) \div 2 = k /\ (2 * k) \div 2 = k
    BY <1>1
  <2>2. QED
    BY <1>3, <2>1
<1>12. \A k \in 1..Levels : Built[5 + 2 * k] = Canonical(t[k]) /\ Built[6 + 2 * k] = n[k]
  <2> TAKE k \in 1..Levels
  <2>1. /\ 2 * k - 1 \in 1..(2 * Levels) /\ 2 * k \in 1..(2 * Levels) /\ 6 + (2 * k - 1) = 5 + 2 * k
    BY <1>1
  <2>2. Built[6 + (2 * k - 1)] = tail[2 * k - 1] /\ Built[6 + 2 * k] = tail[2 * k]
    BY <1>10, <2>1
  <2>3. QED
    BY <1>11, <2>1, <2>2
<1>13. /\ head[1] = Canonical("subscriptions") /\ head[2] = asked.subscription
       /\ head[3] = Canonical("resourceGroups") /\ head[4] = asked.group
       /\ head[5] = Canonical("providers") /\ head[6] = Canonical(asked.type[1])
  BY <1>4
<1>14. QED
  BY <1>1, <1>2, <1>10, <1>12, <1>13

LEMMA Removal ==
  ASSUME NEW S, NEW p \in Seq(S), NEW i \in 1..Len(p)
  PROVE  /\ RemoveAt(p, i) \in Seq(S) /\ Len(RemoveAt(p, i)) = Len(p) - 1
         /\ \A j \in 1..(Len(p) - 1) : RemoveAt(p, i)[j] = IF j < i THEN p[j] ELSE p[j + 1]
<1>1. PICK a, b : a = SubSeq(p, 1, i - 1) /\ b = SubSeq(p, i + 1, Len(p))
  OBVIOUS
<1>2. \A k \in 1..Len(p) : p[k] \in S
  OBVIOUS
<1>3. a \in Seq(S) /\ Len(a) = i - 1 /\ \A k \in 1..(i - 1) : a[k] = p[k]
  BY <1>1, <1>2
<1>4. b \in Seq(S) /\ Len(b) = Len(p) - i /\ \A k \in 1..(Len(p) - i) : b[k] = p[i + k]
  BY <1>1, <1>2
<1>5. /\ a \o b \in Seq(S) /\ Len(a \o b) = Len(a) + Len(b)
      /\ \A k \in 1..(Len(a) + Len(b)) : (a \o b)[k] = IF k <= Len(a) THEN a[k] ELSE b[k - Len(a)]
  BY <1>3, <1>4, ConcatProperties, Zenon
<1>6. PICK q : q = a \o b
  OBVIOUS
<1>7. q \in Seq(S) /\ Len(q) = Len(p) - 1
  <2>1. Len(a) + Len(b) = Len(p) - 1
    BY <1>3, <1>4
  <2>2. QED
    BY <1>5, <1>6, <2>1
<1>8. \A j \in 1..(Len(p) - 1) : q[j] = IF j < i THEN p[j] ELSE p[j + 1]
  <2> TAKE j \in 1..(Len(p) - 1)
  <2>1. q[j] = IF j <= i - 1 THEN a[j] ELSE b[j - (i - 1)]
    BY <1>3, <1>4, <1>5, <1>6
  <2>2. CASE j < i
    BY <1>3, <2>1, <2>2
  <2>3. CASE ~(j < i)
    <3>1. j - (i - 1) \in 1..(Len(p) - i) /\ i + (j - (i - 1)) = j + 1 /\ ~(j <= i - 1)
      BY <2>3
    <3>2. b[j - (i - 1)] = p[i + (j - (i - 1))]
      BY <1>4, <3>1
    <3>3. QED
      BY <2>1, <2>3, <3>1, <3>2
  <2>4. QED
    BY <2>2, <2>3
<1>9. QED
  BY <1>1, <1>6, <1>7, <1>8 DEF RemoveAt

\* A path in one spelling, and what the middleware makes of it.
Spelt(p, s) == [i \in DOMAIN p |-> IF i \in {1, 3, 5, 6, 7, 9, 11} THEN <<p[i][1], s>> ELSE p[i]]

LEMMA SpeltPath ==
  ASSUME Asked, NEW s \in Spellings
  PROVE  /\ Spelt(Built, s) \in Seq(Segs) /\ Len(Spelt(Built, s)) = Len(Built)
         /\ \A i \in 1..Len(Built) : Spelt(Built, s)[i] # <<>> /\ Norm(Spelt(Built, s)[i]) = Norm(Built[i])
         /\ Normalized(Spelt(Built, s)) = Normalized(Built)
<1>1. PICK p, n, l : p = Built /\ n = Len(p) /\ l = Levels
  OBVIOUS
<1>2. l \in 1..3 /\ n = 6 + 2 * l /\ n \in Nat /\ p \in Seq(Segs) /\ DOMAIN p = 1..n
  BY <1>1, BuiltPath
<1>3. \A i \in 1..n : i \in {1, 3, 5, 6, 7, 9, 11} => p[i][1] \in Tokens /\ p[i] = Canonical(p[i][1])
  <2>1. \A w : Canonical(w)[1] = w
    BY DEF Canonical
  <2>2. \A k \in 1..l : p[5 + 2 * k][1] \in Tokens /\ p[5 + 2 * k] = Canonical(p[5 + 2 * k][1])
    <3> TAKE k \in 1..l
    <3>1. asked.type[2][k] \in Tokens /\ p[5 + 2 * k] = Canonical(asked.type[2][k])
      BY <1>1, BuiltPath
    <3>2. QED
      BY <2>1, <3>1
  <2>3. p[1][1] \in Tokens /\ p[3][1] \in Tokens /\ p[5][1] \in Tokens /\ p[6][1] \in Tokens
    BY <1>1, <2>1, BuiltPath, TokensAssumption DEF Skeleton
  <2>4. p[1] = Canonical(p[1][1]) /\ p[3] = Canonical(p[3][1]) /\ p[5] = Canonical(p[5][1]) /\ p[6] = Canonical(p[6][1])
    BY <1>1, <2>1, BuiltPath
  <2> TAKE i \in 1..n
  <2>5. CASE i = 7
    <3>1. 1 \in 1..l /\ 5 + 2 * 1 = 7
      BY <1>2
    <3>2. QED
      BY <2>2, <2>5, <3>1
  <2>6. CASE i = 9
    <3>1. 2 \in 1..l /\ 5 + 2 * 2 = 9
      BY <1>2, <2>6
    <3>2. QED
      BY <2>2, <2>6, <3>1
  <2>7. CASE i = 11
    <3>1. 3 \in 1..l /\ 5 + 2 * 3 = 11
      BY <1>2, <2>7
    <3>2. QED
      BY <2>2, <2>7, <3>1
  <2>8. QED
    BY <2>3, <2>4, <2>5, <2>6, <2>7
<1>4. PICK q : q = Spelt(p, s)
  OBVIOUS
<1>5. DOMAIN q = 1..n /\ \A i \in 1..n : q[i] = IF i \in {1, 3, 5, 6, 7, 9, 11} THEN <<p[i][1], s>> ELSE p[i]
  BY <1>2, <1>4 DEF Spelt
<1>6. \A i \in 1..n : p[i] \in Segs
  BY <1>2
<1>7. \A i \in 1..n : q[i] \in Segs
  BY <1>3, <1>5, <1>6 DEF Segs
<1>8. q \in Seq(Segs) /\ Len(q) = n
  <2>1. q \in [1..n -> Segs]
    BY <1>2, <1>4, <1>7 DEF Spelt
  <2>2. QED
    BY <1>2, <2>1
<1>9. \A i \in 1..n : q[i] # <<>>
  BY <1>7 DEF Segs
<1>10. \A i \in 1..n : Norm(q[i]) = Norm(p[i])
  BY <1>3, <1>5 DEF Norm, Canonical
<1>11. Normalized(q) = Normalized(p)
  <2>1. Normalized(q) = [i \in 1..n |-> Norm(q[i])] /\ Normalized(p) = [i \in 1..n |-> Norm(p[i])]
    BY <1>2, <1>5, Zenon DEF Normalized, Norm
  <2>2. QED
    BY <1>10, <2>1
<1>12. QED
  BY <1>1, <1>2, <1>4, <1>8, <1>9, <1>10, <1>11

\* A path that was rewritten is the path that was built, in one spelling,
\* perhaps with an empty segment.
LEMMA RewrittenPath ==
  ASSUME Asked, NEW p \in Rewritings(Built)
  PROVE  \E q \in Seq(Segs) :
            /\ q \in Rewritings(Built) /\ Normalized(q) = Normalized(Built)
            /\ Len(q) = Len(Built) /\ \A i \in 1..Len(q) : q[i] # <<>>
            /\ \/ p = q
               \/ /\ p \in Seq(Segs \union {<<>>}) /\ Len(p) = Len(q) + 1
                  /\ \E e \in 1..2 : /\ p[e] = <<>>
                                     /\ \A j \in 1..Len(q) : q[j] = IF j < e THEN p[j] ELSE p[j + 1]
<1>1. PICK s \in Spellings : LET q == Spelt(Built, s) IN p = q \/ p = << <<>> >> \o q \/ p = <<q[1], <<>> >> \o Tail(q)
  BY ZenonT(60) DEF Rewritings, Spelt
<1>2. PICK q : q = Spelt(Built, s)
  OBVIOUS
<1>3. q \in Seq(Segs) /\ Len(q) = Len(Built) /\ Normalized(q) = Normalized(Built)
      /\ (\A i \in 1..Len(q) : q[i] # <<>>) /\ Len(q) \in Nat /\ Len(q) >= 8
  <2>1. Built \in Seq(Segs) /\ Len(Built) \in Nat /\ Len(Built) >= 8
    BY BuiltPath
  <2>2. q \in Seq(Segs) /\ Len(q) = Len(Built) /\ Normalized(q) = Normalized(Built) /\ \A i \in 1..Len(Built) : q[i] # <<>>
    BY <1>2, SpeltPath
  <2>3. QED
    BY <2>1, <2>2
<1>4. q \in Rewritings(Built)
  BY <1>2, Zenon DEF Rewritings, Spelt
<1>5. PICK T : T = Segs \union {<<>>}
  OBVIOUS
<1>6. q \in Seq(T) /\ Tail(q) \in Seq(T) /\ Len(Tail(q)) = Len(q) - 1 /\ q # <<>>
      /\ \A j \in 1..(Len(q) - 1) : Tail(q)[j] = q[j + 1]
  BY <1>3, <1>5
<1>7. CASE p = q
  BY <1>3, <1>4, <1>7
<1>8. CASE p = << <<>> >> \o q
  <2>1. PICK h : h = << <<>> >>
    OBVIOUS
  <2>2. h \in Seq(T) /\ Len(h) = 1 /\ h[1] = <<>>
    BY <1>5, <2>1
  <2>3. /\ p \in Seq(T) /\ Len(p) = Len(h) + Len(q)
        /\ \A j \in 1..(Len(h) + Len(q)) : p[j] = IF j <= Len(h) THEN h[j] ELSE q[j - Len(h)]
    <3>1. p = h \o q
      BY <1>8, <2>1
    <3>2. h \in Seq(T) /\ q \in Seq(T)
      BY <1>6, <2>2
    <3>3. QED
      BY <3>1, <3>2, ConcatProperties, Zenon
  <2>4. Len(p) = Len(q) + 1 /\ p[1] = <<>> /\ \A j \in 1..Len(q) : q[j] = IF j < 1 THEN p[j] ELSE p[j + 1]
    BY <1>3, <2>2, <2>3
  <2>5. QED
    BY <1>3, <1>4, <1>5, <2>3, <2>4
<1>9. CASE p = <<q[1], <<>> >> \o Tail(q)
  <2>1. PICK h, t : h = <<q[1], <<>> >> /\ t = Tail(q)
    OBVIOUS
  <2>2. h \in Seq(T) /\ Len(h) = 2 /\ h[1] = q[1] /\ h[2] = <<>>
    BY <1>3, <1>5, <2>1
  <2>3. t \in Seq(T) /\ p = h \o t
    BY <1>6, <1>9, <2>1
  <2>4. /\ p \in Seq(T) /\ Len(p) = Len(h) + Len(t)
        /\ \A j \in 1..(Len(h) + Len(t)) : p[j] = IF j <= Len(h) THEN h[j] ELSE t[j - Len(h)]
    BY <2>2, <2>3, ConcatProperties, Zenon
  <2>5. Len(t) = Len(q) - 1 /\ \A j \in 1..(Len(q) - 1) : t[j] = q[j + 1]
    BY <1>6, <2>1
  <2>6. Len(p) = Len(q) + 1 /\ p[2] = <<>> /\ p[1] = q[1]
    BY <1>3, <2>2, <2>4, <2>5
  <2>7. \A j \in 1..Len(q) : q[j] = IF j < 2 THEN p[j] ELSE p[j + 1]
    <3> TAKE j \in 1..Len(q)
    <3>1. CASE j = 1
      BY <2>6, <3>1
    <3>2. CASE j >= 2
      <4>1. p[j + 1] = t[j - 1]
        BY <1>3, <2>2, <2>4, <2>5, <3>2
      <4>2. t[j - 1] = q[j]
        BY <1>3, <2>5, <3>2
      <4>3. QED
        BY <1>3, <3>2, <4>1, <4>2
    <3>3. QED
      BY <1>3, <3>1, <3>2
  <2>8. QED
    BY <1>3, <1>4, <1>5, <2>4, <2>6, <2>7
<1>10. QED
  BY <1>1, <1>2, <1>7, <1>8, <1>9

\* What is left of a sequence.
LEMMA Remainder ==
  ASSUME NEW S, NEW p \in Seq(S), NEW c \in 0..Len(p)
  PROVE  /\ SubSeq(p, c + 1, Len(p)) \in Seq(S) /\ Len(SubSeq(p, c + 1, Len(p))) = Len(p) - c
         /\ \A i \in 1..(Len(p) - c) : SubSeq(p, c + 1, Len(p))[i] = p[c + i]
<1>1. \A k \in 1..Len(p) : p[k] \in S
  OBVIOUS
<1>2. PICK r : r = SubSeq(p, c + 1, Len(p))
  OBVIOUS
<1>3. Len(p) \in Nat
  OBVIOUS
<1>4. r \in Seq(S) /\ Len(r) = Len(p) - c /\ \A i \in 1..(Len(p) - c) : r[i] = p[c + i]
  BY <1>1, <1>2, <1>3
<1>5. QED
  BY <1>2, <1>4

LEMMA RemainderOf ==
  ASSUME NEW S, NEW p \in Seq(S), NEW c \in 0..Len(p), NEW d \in 0..(Len(p) - c),
         NEW r, r = SubSeq(p, c + 1, Len(p))
  PROVE  SubSeq(r, d + 1, Len(r)) = SubSeq(p, (c + d) + 1, Len(p))
<1>1. r \in Seq(S) /\ Len(r) = Len(p) - c /\ \A i \in 1..(Len(p) - c) : r[i] = p[c + i]
  BY Remainder
<1>2. PICK a, b : a = SubSeq(r, d + 1, Len(r)) /\ b = SubSeq(p, (c + d) + 1, Len(p))
  OBVIOUS
<1>3. Len(p) \in Nat /\ d \in 0..Len(r) /\ c + d \in 0..Len(p)
  BY <1>1
<1>4. a \in Seq(S) /\ Len(a) = Len(r) - d /\ \A i \in 1..(Len(r) - d) : a[i] = r[d + i]
  BY <1>1, <1>2, <1>3, Remainder
<1>5. b \in Seq(S) /\ Len(b) = Len(p) - (c + d) /\ \A i \in 1..(Len(p) - (c + d)) : b[i] = p[(c + d) + i]
  BY <1>2, <1>3, Remainder
<1>6. Len(a) = Len(b) /\ \A i \in 1..Len(a) : a[i] = b[i]
  <2>1. Len(a) = Len(p) - (c + d) /\ Len(b) = Len(p) - (c + d)
    BY <1>1, <1>3, <1>4, <1>5
  <2>2. ASSUME NEW i \in 1..(Len(p) - (c + d)) PROVE a[i] = b[i]
    <3>1. i \in 1..(Len(r) - d) /\ d + i \in 1..(Len(p) - c) /\ c + (d + i) = (c + d) + i
      BY <1>1, <1>3
    <3>2. a[i] = r[d + i] /\ r[d + i] = p[c + (d + i)]
      BY <1>1, <1>4, <3>1
    <3>3. b[i] = p[(c + d) + i]
      BY <1>5
    <3>4. QED
      BY <3>1, <3>2, <3>3
  <2>3. QED
    BY <2>1, <2>2
<1>7. a = b
  BY <1>4, <1>5, <1>6, SeqEqual
<1>8. QED
  BY <1>2, <1>7

\* The segments of the path that the routes and the parser see.
LEMMA NormalPath ==
  ASSUME Asked, NEW p, p = Normalized(Built)
  PROVE  /\ p \in Seq(Segs) /\ Len(p) = 6 + 2 * Levels /\ \A i \in 1..Len(p) : p[i] # <<>>
         /\ p[1][1] = "subscriptions" /\ p[2] = Norm(asked.subscription)
         /\ p[3][1] = "resourceGroups" /\ p[4] = Norm(asked.group)
         /\ p[5][1] = "providers" /\ p[6] = Canonical(asked.type[1])
         /\ \A k \in 1..Levels : p[5 + 2 * k] = Canonical(asked.type[2][k]) /\ p[6 + 2 * k] = Norm(asked.names[k])
<1>1. PICK b, n : b = Built /\ n = 6 + 2 * Levels
  OBVIOUS
<1>2. b \in Seq(Segs) /\ Len(b) = n /\ n \in Nat /\ n >= 8 /\ Levels \in 1..3
  BY <1>1, BuiltPath
<1>3. p = [i \in 1..n |-> Norm(b[i])]
  <2>1. p = [i \in DOMAIN b |-> Norm(b[i])]
    BY <1>1, Zenon DEF Normalized, Norm
  <2>2. DOMAIN b = 1..n
    BY <1>2
  <2>3. QED
    BY <2>1, <2>2
<1>4. \A s \in Segs : Norm(s) \in Segs /\ Norm(s) # <<>>
  BY TokensAssumption DEF Segs, Norm, Canonical
<1>5. \A i \in 1..n : b[i] \in Segs
  BY <1>2
<1>6. p \in Seq(Segs) /\ Len(p) = n /\ \A i \in 1..n : p[i] = Norm(b[i]) /\ p[i] # <<>>
  <2>1. p \in [1..n -> Segs] /\ \A i \in 1..n : p[i] = Norm(b[i]) /\ p[i] # <<>>
    BY <1>3, <1>4, <1>5
  <2>2. QED
    BY <1>2, <2>1
<1>7. \A w \in Tokens : Norm(Canonical(w)) = Canonical(w) /\ Canonical(w)[1] = w
  BY DEF Norm, Canonical
<1>8. /\ p[1][1] = "subscriptions" /\ p[2] = Norm(asked.subscription)
      /\ p[3][1] = "resourceGroups" /\ p[4] = Norm(asked.group)
      /\ p[5][1] = "providers" /\ p[6] = Canonical(asked.type[1])
  <2>1. /\ b[1] = Canonical("subscriptions") /\ b[2] = asked.subscription
        /\ b[3] = Canonical("resourceGroups") /\ b[4] = asked.group
        /\ b[5] = Canonical("providers") /\ b[6] = Canonical(asked.type[1])
    BY <1>1, BuiltPath
  <2>2. "subscriptions" \in Tokens /\ "resourceGroups" \in Tokens /\ "providers" \in Tokens /\ asked.type[1] \in Tokens
    BY BuiltPath, TokensAssumption DEF Skeleton
  <2>3. \A i \in 1..6 : p[i] = Norm(b[i])
    BY <1>2, <1>6
  <2>4. QED
    BY <1>7, <2>1, <2>2, <2>3
<1>9. \A k \in 1..Levels : p[5 + 2 * k] = Canonical(asked.type[2][k]) /\ p[6 + 2 * k] = Norm(asked.names[k])
  <2> TAKE k \in 1..Levels
  <2>1. b[5 + 2 * k] = Canonical(asked.type[2][k]) /\ b[6 + 2 * k] = asked.names[k] /\ asked.type[2][k] \in Tokens
    BY <1>1, BuiltPath
  <2>2. 5 + 2 * k \in 1..n /\ 6 + 2 * k \in 1..n
    BY <1>1, <1>2
  <2>3. QED
    BY <1>6, <1>7, <2>1, <2>2
<1>10. QED
  BY <1>1, <1>6, <1>8, <1>9

-----------------------------------------------------------------------------

\* The id of a path of one or two types, or what is read of a longer one
\* before its third type.
Whole ==
    [subscription |-> path[2], group |-> path[4], provider |-> path[6], type |-> path[7], name |-> path[8],
     subType |-> IF Levels >= 2 THEN path[9] ELSE <<>>, subName |-> IF Levels >= 2 THEN path[10] ELSE <<>>]

Progress ==
    \/ parsing = "reading" /\ rest = path /\ id = NoId
    \/ /\ parsing = "reading" /\ rest = SubSeq(path, 3, Len(path))
       /\ id = [NoId EXCEPT !.subscription = path[2]]
    \/ /\ parsing = "reading" /\ rest = SubSeq(path, 5, Len(path))
       /\ id = [NoId EXCEPT !.subscription = path[2], !.group = path[4]]
    \/ Levels <= 2 /\ parsing \in {"reading", "parsed"} /\ rest = <<>> /\ id = Whole
    \/ /\ Levels = 3 /\ rest = SubSeq(path, 11, Len(path)) /\ id = Whole
       /\ parsing = "reading" \/ (parsing = "refused" /\ path[11][1] \notin Skeleton)
    \/ /\ Levels = 3 /\ rest = <<>> /\ parsing \in {"reading", "parsed"}
       /\ path[11][1] \in {"subscriptions", "resourceGroups"} /\ id.subscription # <<>>

IdsInv ==
    /\ Asked
    /\ parsing \in {"before", "reading", "parsed", "refused"}
    /\ parsing = "before" => path \in Rewritings(Built) /\ rest = <<>> /\ id = NoId
    /\ parsing # "before" => path = Normalized(Built) /\ Progress

LEMMA IdsBegin == ASSUME IdsInit PROVE IdsInv
<1>1. PICK t \in Types, subID \in Names \X Spellings, rg \in Names \X Spellings :
         \E names \in [DOMAIN t[2] -> Names \X Spellings] :
           /\ asked = [type |-> t, names |-> names, subscription |-> subID, group |-> rg]
           /\ path \in Rewritings(ResourcePath(subID, rg, t, names))
  BY Zenon DEF IdsInit
<1>2. PICK names \in [DOMAIN t[2] -> Names \X Spellings] :
           /\ asked = [type |-> t, names |-> names, subscription |-> subID, group |-> rg]
           /\ path \in Rewritings(ResourcePath(subID, rg, t, names))
  BY <1>1
<1>3. asked.type = t /\ asked.names = names /\ asked.subscription = subID /\ asked.group = rg
  BY <1>2
<1>4. Asked
  BY <1>3 DEF Asked
<1>5. path \in Rewritings(Built)
  BY <1>2, <1>3 DEF Built
<1>6. QED
  BY <1>4, <1>5 DEF IdsInit, IdsInv

LEMMA BeforeStep == ASSUME IdsInv, CollapseSlashes \/ Normalize PROVE IdsInv'
<1>1. Asked /\ parsing = "before" /\ path \in Rewritings(Built) /\ asked' = asked
      /\ rest = <<>> /\ id = NoId
  BY DEF IdsInv, CollapseSlashes, Normalize
<1>2. Asked' /\ Built' = Built /\ Levels' = Levels
  BY <1>1 DEF Asked, Built, Levels
<1>3. PICK q \in Seq(Segs) :
            /\ q \in Rewritings(Built) /\ Normalized(q) = Normalized(Built)
            /\ Len(q) = Len(Built) /\ \A i \in 1..Len(q) : q[i] # <<>>
            /\ \/ path = q
               \/ /\ path \in Seq(Segs \union {<<>>}) /\ Len(path) = Len(q) + 1
                  /\ \E e \in 1..2 : /\ path[e] = <<>>
                                     /\ \A j \in 1..Len(q) : q[j] = IF j < e THEN path[j] ELSE path[j + 1]
  BY <1>1, RewrittenPath
<1>4. Len(q) \in Nat /\ Len(q) >= 8
  BY <1>1, <1>3, BuiltPath
<1>5. CASE path # q
  <2>1. PICK T : T = Segs \union {<<>>}
    OBVIOUS
  <2>2. path \in Seq(T) /\ Len(path) = Len(q) + 1 /\ DOMAIN path = 1..Len(path) /\ q \in Seq(T)
    BY <1>3, <1>5, <2>1
  <2>3. PICK e \in 1..2 : /\ path[e] = <<>>
                          /\ \A j \in 1..Len(q) : q[j] = IF j < e THEN path[j] ELSE path[j + 1]
    BY <1>3, <1>5
  <2>4. \A i \in DOMAIN path : path[i] = <<>> => i = e
    <3> SUFFICES ASSUME NEW i \in 1..Len(path), path[i] = <<>>, i # e PROVE FALSE
      BY <2>2
    <3>1. CASE i < e
      <4>1. i \in 1..Len(q) /\ q[i] = path[i]
        BY <1>4, <2>2, <2>3, <3>1
      <4>2. QED
        BY <1>3, <4>1
    <3>2. CASE i > e
      <4>1. i - 1 \in 1..Len(q) /\ ~(i - 1 < e) /\ (i - 1) + 1 = i
        BY <1>4, <2>2, <2>3, <3>2
      <4>2. q[i - 1] = path[i]
        BY <2>3, <4>1
      <4>3. QED
        BY <1>3, <4>1, <4>2
    <3>3. QED
      BY <3>1, <3>2
  <2>5. e \in DOMAIN path
    BY <1>4, <2>2
  <2>6. CollapseSlashes /\ path' = RemoveAt(path, e) /\ UNCHANGED <<rest, id, parsing>>
    BY <2>3, <2>4, <2>5 DEF CollapseSlashes, Normalize
  <2>7. PICK r : r = RemoveAt(path, e)
    OBVIOUS
  <2>8. /\ r \in Seq(T) /\ Len(r) = Len(path) - 1
        /\ \A j \in 1..(Len(path) - 1) : r[j] = IF j < e THEN path[j] ELSE path[j + 1]
    BY <2>2, <2>5, <2>7, Removal
  <2>9. Len(r) = Len(q) /\ \A j \in 1..Len(r) : r[j] = q[j]
    <3>1. Len(r) = Len(q) /\ 1..Len(r) = 1..Len(q) /\ 1..Len(q) = 1..(Len(path) - 1)
      BY <1>4, <2>2, <2>8
    <3>2. QED
      BY <2>3, <2>8, <3>1
  <2>10. r = q
    BY <2>2, <2>8, <2>9, SeqEqual
  <2>11. QED
    BY <1>1, <1>2, <1>3, <2>6, <2>7, <2>10 DEF IdsInv
<1>6. CASE path = q
  <2>1. Normalize /\ path' = Normalized(path) /\ rest' = path' /\ parsing' = "reading" /\ id' = id
    BY <1>3, <1>6 DEF CollapseSlashes, Normalize
  <2>2. Progress'
    BY <1>1, <2>1 DEF Progress
  <2>3. QED
    BY <1>2, <1>3, <1>6, <2>1, <2>2 DEF IdsInv
<1>7. QED
  BY <1>5, <1>6

\* The facts that the steps of the parser use.
LEMMA Position ==
  ASSUME IdsInv, parsing # "before"
  PROVE  /\ path \in Seq(Segs) /\ Len(path) = 6 + 2 * Levels /\ Levels \in 1..3
         /\ \A i \in 1..Len(path) : path[i] # <<>>
         /\ path[1][1] = "subscriptions" /\ path[3][1] = "resourceGroups" /\ path[5][1] = "providers"
         /\ Levels = 3 => path[11][1] # "providers"
<1>1. path = Normalized(Built) /\ Asked
  BY DEF IdsInv
<1>2. Levels = 3 => path[11][1] # "providers"
  <2> SUFFICES ASSUME Levels = 3 PROVE path[11][1] # "providers"
    OBVIOUS
  <2>1. 3 \in 1..Levels /\ 5 + 2 * 3 = 11
    OBVIOUS
  <2>2. path[11] = Canonical(asked.type[2][3]) /\ asked.type[2][3] # "providers"
    BY <1>1, <2>1, NormalPath, BuiltPath
  <2>3. QED
    BY <2>2 DEF Canonical
<1>3. QED
  BY <1>1, <1>2, NormalPath, BuiltPath

LEMMA Rests ==
  ASSUME NEW S, NEW p \in Seq(S), NEW n \in Nat, Len(p) = n, n >= 6
  PROVE  /\ SubSeq(p, 3, n) # <<>> /\ Len(SubSeq(p, 3, n)) = n - 2
         /\ SubSeq(p, 3, n)[1] = p[3] /\ SubSeq(p, 3, n)[2] = p[4]
         /\ SubSeq(SubSeq(p, 3, n), 3, n - 2) = SubSeq(p, 5, n)
         /\ SubSeq(p, 5, n) # <<>> /\ Len(SubSeq(p, 5, n)) = n - 4
         /\ \A i \in 1..(n - 4) : SubSeq(p, 5, n)[i] = p[4 + i]
         /\ n = 12 => /\ SubSeq(SubSeq(p, 5, n), 7, n - 4) = SubSeq(p, 11, n)
                      /\ Len(SubSeq(p, 11, n)) = 2 /\ SubSeq(p, 11, n)[1] = p[11] /\ SubSeq(p, 11, n)[2] = p[12]
<1>1. 2 \in 0..Len(p) /\ 4 \in 0..Len(p) /\ 2 \in 0..(Len(p) - 2)
  OBVIOUS
<1>2. PICK a, b : a = SubSeq(p, 3, n) /\ b = SubSeq(p, 5, n)
  OBVIOUS
<1>3. a = SubSeq(p, 2 + 1, Len(p)) /\ b = SubSeq(p, 4 + 1, Len(p))
  BY <1>2
<1>4. Len(a) = n - 2 /\ \A i \in 1..(n - 2) : a[i] = p[2 + i]
  BY <1>1, <1>3, Remainder
<1>5. Len(b) = n - 4 /\ \A i \in 1..(n - 4) : b[i] = p[4 + i]
  BY <1>1, <1>3, Remainder
<1>6. SubSeq(a, 3, n - 2) = b
  <2>1. SubSeq(a, 2 + 1, Len(a)) = SubSeq(p, (2 + 2) + 1, Len(p))
    BY <1>1, <1>3, RemainderOf
  <2>2. QED
    BY <1>3, <1>4, <2>1
<1>7. ASSUME n = 12
      PROVE  /\ SubSeq(b, 7, n - 4) = SubSeq(p, 11, n)
             /\ Len(SubSeq(p, 11, n)) = 2 /\ SubSeq(p, 11, n)[1] = p[11] /\ SubSeq(p, 11, n)[2] = p[12]
  <2>1. 6 \in 0..(Len(p) - 4) /\ 10 \in 0..Len(p)
    BY <1>7
  <2>2. SubSeq(b, 6 + 1, Len(b)) = SubSeq(p, (4 + 6) + 1, Len(p))
    BY <1>1, <1>3, <2>1, RemainderOf
  <2>3. PICK c : c = SubSeq(p, 11, n)
    OBVIOUS
  <2>4. c = SubSeq(p, 10 + 1, Len(p))
    BY <2>3
  <2>5. Len(c) = n - 10 /\ \A i \in 1..(n - 10) : c[i] = p[10 + i]
    BY <2>1, <2>4, Remainder
  <2>6. Len(c) = 2 /\ c[1] = p[11] /\ c[2] = p[12]
    BY <1>7, <2>5
  <2>7. QED
    BY <1>5, <2>2, <2>3, <2>4, <2>6
<1>8. a # <<>> /\ b # <<>> /\ a[1] = p[3] /\ a[2] = p[4]
  BY <1>4, <1>5
<1>9. QED
  BY <1>2, <1>4, <1>5, <1>6, <1>7, <1>8

\* What a step of the parser leaves alone.
LEMMA SamePath ==
  ASSUME IdsInv, UNCHANGED <<asked, path>>, parsing # "before", parsing' # "before",
         parsing' \in {"reading", "parsed", "refused"}, Progress'
  PROVE  IdsInv'
<1>1. Asked' /\ Built' = Built /\ path' = path
  BY DEF IdsInv, Asked, Built
<1>2. QED
  BY <1>1 DEF IdsInv

LEMMA ScopeStep == ASSUME IdsInv, ReadScope PROVE IdsInv'
<1>1. parsing = "reading" /\ parsing' = parsing /\ UNCHANGED <<asked, path>> /\ Len(rest) >= 2
      /\ rest' = SubSeq(rest, 3, Len(rest))
  BY DEF ReadScope, Reading
<1>2. \/ rest[1][1] = "subscriptions" /\ id' = [id EXCEPT !.subscription = rest[2]]
      \/ rest[1][1] = "resourceGroups" /\ id' = [id EXCEPT !.group = rest[2]]
  BY DEF ReadScope
<1>3. PICK n : n = Len(path)
  OBVIOUS
<1>4. /\ path \in Seq(Segs) /\ n = 6 + 2 * Levels /\ Levels \in 1..3 /\ n \in Nat /\ n >= 8
      /\ \A i \in 1..n : path[i] # <<>>
      /\ path[1][1] = "subscriptions" /\ path[3][1] = "resourceGroups" /\ path[5][1] = "providers"
      /\ (Levels = 3 => path[11][1] # "providers")
  BY <1>1, <1>3, Position
<1>5. Levels' = Levels /\ path' = path
  BY <1>1 DEF Levels
<1>6. Progress
  BY <1>1 DEF IdsInv
<1>7. /\ SubSeq(path, 3, n) # <<>> /\ Len(SubSeq(path, 3, n)) = n - 2
      /\ SubSeq(path, 3, n)[1] = path[3] /\ SubSeq(path, 3, n)[2] = path[4]
      /\ SubSeq(SubSeq(path, 3, n), 3, n - 2) = SubSeq(path, 5, n)
      /\ SubSeq(path, 5, n) # <<>> /\ Len(SubSeq(path, 5, n)) = n - 4
      /\ SubSeq(path, 5, n)[1] = path[5]
      /\ (n = 12 => Len(SubSeq(path, 11, n)) = 2 /\ SubSeq(path, 11, n)[1] = path[11] /\ SubSeq(path, 11, n)[2] = path[12])
  <2>1. n >= 6 /\ 1 \in 1..(n - 4) /\ 4 + 1 = 5
    BY <1>4
  <2>2. \A i \in 1..(n - 4) : SubSeq(path, 5, n)[i] = path[4 + i]
    BY <1>3, <1>4, <2>1, Rests
  <2>3. SubSeq(path, 5, n)[1] = path[5]
    BY <2>1, <2>2
  <2>4. QED
    BY <1>3, <1>4, <2>1, <2>3, Rests
<1>8. CASE rest = path /\ id = NoId
  <2>1. id' = [NoId EXCEPT !.subscription = path[2]]
    BY <1>2, <1>4, <1>8
  <2>2. rest' = SubSeq(path, 3, Len(path))
    BY <1>1, <1>8
  <2>3. Progress'
    BY <1>1, <2>1, <2>2 DEF Progress
  <2>4. QED
    BY <1>1, <2>3, SamePath
<1>9. CASE rest = SubSeq(path, 3, Len(path)) /\ id = [NoId EXCEPT !.subscription = path[2]]
  <2>1. rest[1] = path[3] /\ rest[2] = path[4] /\ Len(rest) = n - 2
    BY <1>3, <1>7, <1>9
  <2>2. id' = [NoId EXCEPT !.subscription = path[2], !.group = path[4]]
    BY <1>2, <1>4, <1>9, <2>1 DEF NoId
  <2>3. rest' = SubSeq(path, 5, Len(path))
    BY <1>1, <1>3, <1>7, <1>9, <2>1
  <2>4. Progress'
    BY <1>1, <2>2, <2>3 DEF Progress
  <2>5. QED
    BY <1>1, <2>4, SamePath
<1>10. CASE rest = SubSeq(path, 5, Len(path))
  BY <1>2, <1>3, <1>4, <1>7, <1>10
<1>11. CASE rest = <<>>
  BY <1>1, <1>11
<1>12. CASE Levels = 3 /\ rest = SubSeq(path, 11, Len(path)) /\ id = Whole
  <2>1. n = 12
    BY <1>4, <1>12
  <2>2. rest[1] = path[11] /\ rest[2] = path[12] /\ Len(rest) = 2
    BY <1>3, <1>7, <1>12, <2>1
  <2>3. rest' = <<>>
    <3>1. rest' = SubSeq(rest, 3, 2)
      BY <1>1, <2>2
    <3>2. QED
      BY <3>1, SubSeqEmpty
  <2>4. path[11][1] \in {"subscriptions", "resourceGroups"}
    BY <1>2, <2>2
  <2>5. id'.subscription # <<>>
    <3>1. path[12] # <<>> /\ path[2] # <<>>
      BY <1>4, <2>1
    <3>2. id.subscription = path[2] /\ id = [subscription |-> path[2], group |-> path[4], provider |-> path[6], type |-> path[7], name |-> path[8],
             subType |-> path[9], subName |-> path[10]]
      BY <1>12 DEF Whole
    <3>3. QED
      BY <1>2, <2>2, <3>1, <3>2
  <2>6. Progress'
    BY <1>1, <1>5, <1>12, <2>3, <2>4, <2>5 DEF Progress
  <2>7. QED
    BY <1>1, <2>6, SamePath
<1>13. QED
  BY <1>1, <1>6, <1>8, <1>9, <1>10, <1>11, <1>12 DEF Progress

LEMMA ProviderStep == ASSUME IdsInv, ReadProvider PROVE IdsInv'
<1>1. parsing = "reading" /\ parsing' = parsing /\ UNCHANGED <<asked, path>> /\ Len(rest) >= 2 /\ rest[1][1] = "providers"
  BY DEF ReadProvider, Reading
<1>2. PICK n, l : n = Len(path) /\ l = Levels
  OBVIOUS
<1>3. /\ path \in Seq(Segs) /\ n = 6 + 2 * l /\ l \in 1..3 /\ n \in Nat /\ n >= 8
      /\ path[1][1] = "subscriptions" /\ path[3][1] = "resourceGroups" /\ path[5][1] = "providers"
      /\ (l = 3 => path[11][1] # "providers")
  BY <1>1, <1>2, Position
<1>4. Levels' = l /\ path' = path
  BY <1>1, <1>2 DEF Levels
<1>5. Progress
  BY <1>1 DEF IdsInv
<1>6. n >= 6
  BY <1>3
<1>7. CASE rest = SubSeq(path, 5, Len(path)) /\ id = [NoId EXCEPT !.subscription = path[2], !.group = path[4]]
  <2>1. PICK r : r = SubSeq(path, 5, n)
    OBVIOUS
  <2>2. Len(r) = n - 4 /\ \A i \in 1..(n - 4) : r[i] = path[4 + i]
    BY <1>2, <1>3, <1>6, <2>1, Rests
  <2>3. rest = r /\ Len(r) = 2 + 2 * l
    <3>1. rest = r
      BY <1>2, <1>7, <2>1
    <3>2. QED
      BY <1>3, <2>2, <3>1
  <2>4. r[2] = path[6] /\ r[3] = path[7] /\ r[4] = path[8] /\ (l >= 2 => r[5] = path[9] /\ r[6] = path[10])
    BY <1>3, <2>2, SMTT(30)
  <2>5. \A i \in {3, 4} : Len(r) >= 2 * ((i + 1) \div 2)
    BY <1>3, <2>3
  <2>6. \A i \in {5, 6} : Len(r) >= 2 * ((i + 1) \div 2) <=> l >= 2
    BY <1>3, <2>3
  <2>7. id' = LET at(i) == IF Len(r) >= 2 * ((i + 1) \div 2) THEN r[i] ELSE <<>>
              IN  [id EXCEPT !.provider = r[2], !.type = at(3), !.name = at(4), !.subType = at(5), !.subName = at(6)]
    BY <2>3 DEF ReadProvider
  <2>8. id' = [id EXCEPT !.provider = r[2], !.type = r[3], !.name = r[4],
                         !.subType = IF l >= 2 THEN r[5] ELSE <<>>, !.subName = IF l >= 2 THEN r[6] ELSE <<>>]
    BY <2>5, <2>6, <2>7
  <2>9. id' = [subscription |-> path[2], group |-> path[4], provider |-> path[6], type |-> path[7], name |-> path[8],
               subType |-> IF l >= 2 THEN path[9] ELSE <<>>, subName |-> IF l >= 2 THEN path[10] ELSE <<>>]
    BY <1>7, <2>4, <2>8 DEF NoId
  <2>10. id' = Whole'
    BY <1>4, <2>9 DEF Whole
  <2>11. rest' = SubSeq(r, IF Len(r) >= 6 THEN 7 ELSE IF Len(r) >= 4 THEN 5 ELSE 3, Len(r))
    BY <2>3 DEF ReadProvider
  <2>12. CASE l <= 2
    <3>1. rest' = <<>>
      <4>1. CASE l = 1
        BY <2>3, <2>11, <4>1, SubSeqEmpty
      <4>2. CASE l = 2
        BY <2>3, <2>11, <4>2, SubSeqEmpty
      <4>3. QED
        BY <1>3, <2>12, <4>1, <4>2
    <3>2. Progress'
      BY <1>1, <1>4, <2>10, <2>12, <3>1 DEF Progress
    <3>3. QED
      BY <1>1, <3>2, SamePath
  <2>13. CASE l = 3
    <3>1. n = 12
      BY <1>3, <2>13
    <3>2. rest' = SubSeq(r, 7, n - 4)
      BY <2>2, <2>11, <3>1
    <3>3. SubSeq(r, 7, n - 4) = SubSeq(path, 11, n)
      BY <1>2, <1>3, <1>6, <2>1, <3>1, Rests
    <3>4. Progress'
      BY <1>1, <1>2, <1>4, <2>10, <2>13, <3>2, <3>3 DEF Progress
    <3>5. QED
      BY <1>1, <3>4, SamePath
  <2>14. QED
    BY <1>3, <2>12, <2>13
<1>8. CASE rest = path
  BY <1>1, <1>3, <1>8
<1>9. CASE rest = SubSeq(path, 3, Len(path))
  <2>1. rest[1] = path[3]
    BY <1>2, <1>3, <1>6, <1>9, Rests
  <2>2. QED
    BY <1>1, <1>3, <2>1
<1>10. CASE rest = <<>>
  BY <1>1, <1>10
<1>11. CASE Levels = 3 /\ rest = SubSeq(path, 11, Len(path)) /\ id = Whole
  <2>1. n = 12
    BY <1>2, <1>3, <1>11
  <2>2. rest[1] = path[11]
    BY <1>2, <1>3, <1>6, <1>11, <2>1, Rests
  <2>3. QED
    BY <1>1, <1>2, <1>3, <1>11, <2>2
<1>12. QED
  BY <1>1, <1>5, <1>7, <1>8, <1>9, <1>10, <1>11 DEF Progress

LEMMA EndStep == ASSUME IdsInv, RefuseId \/ IdParsed PROVE IdsInv'
<1>1. parsing = "reading" /\ parsing' \in {"parsed", "refused"} /\ UNCHANGED <<asked, path, rest, id>>
  BY DEF RefuseId, IdParsed
<1>2. PICK n : n = Len(path)
  OBVIOUS
<1>3. /\ path \in Seq(Segs) /\ n = 6 + 2 * Levels /\ Levels \in 1..3 /\ n \in Nat /\ n >= 8 /\ n >= 6
      /\ \A i \in 1..n : path[i] # <<>>
      /\ path[1][1] = "subscriptions" /\ path[3][1] = "resourceGroups" /\ path[5][1] = "providers"
  BY <1>1, <1>2, Position
<1>4. Levels' = Levels /\ path' = path /\ Whole' = Whole
  BY <1>1 DEF Levels, Whole
<1>5. Progress
  BY <1>1 DEF IdsInv
<1>6. path # <<>> /\ Len(path) >= 2 /\ path[1][1] \in Skeleton /\ path[2] # <<>>
  <2>1. Len(path) >= 2 /\ 1 \in 1..n /\ 2 \in 1..n
    BY <1>2, <1>3
  <2>2. path[2] # <<>>
    BY <1>3, <2>1
  <2>3. path # <<>>
    BY <2>1
  <2>4. QED
    BY <1>3, <2>1, <2>2, <2>3 DEF Skeleton
<1>7. CASE rest = path
  BY <1>6, <1>7 DEF RefuseId, IdParsed
<1>8. CASE rest = SubSeq(path, 3, Len(path))
  <2>1. rest # <<>> /\ Len(rest) = n - 2 /\ rest[1] = path[3]
    BY <1>2, <1>3, <1>8, Rests, ZenonT(60)
  <2>2. QED
    BY <1>3, <2>1 DEF RefuseId, IdParsed, Skeleton
<1>9. CASE rest = SubSeq(path, 5, Len(path))
  <2>1. rest # <<>> /\ Len(rest) = n - 4 /\ rest[1] = path[5]
    <3>1. 1 \in 1..(n - 4) /\ 4 + 1 = 5
      BY <1>3
    <3>2. rest # <<>> /\ Len(rest) = n - 4 /\ \A i \in 1..(n - 4) : rest[i] = path[4 + i]
      BY <1>2, <1>3, <1>9, Rests, ZenonT(60)
    <3>3. QED
      BY <3>1, <3>2
  <2>2. QED
    BY <1>3, <2>1 DEF RefuseId, IdParsed, Skeleton
<1>10. CASE Levels <= 2 /\ rest = <<>> /\ id = Whole
  <2>1. IdParsed /\ id.subscription # <<>>
    BY <1>6, <1>10 DEF RefuseId, IdParsed, Whole
  <2>2. parsing' = "parsed"
    BY <2>1 DEF IdParsed
  <2>3. Progress'
    BY <1>1, <1>4, <1>10, <2>2 DEF Progress
  <2>4. QED
    BY <1>1, <2>3, SamePath
<1>11. CASE Levels = 3 /\ rest = SubSeq(path, 11, Len(path)) /\ id = Whole
  <2>1. n = 12
    BY <1>3, <1>11
  <2>2. Len(rest) = 2 /\ rest[1] = path[11]
    <3>1. Len(SubSeq(path, 11, n)) = 2 /\ SubSeq(path, 11, n)[1] = path[11]
      BY <1>2, <1>3, <2>1, Rests
    <3>2. rest = SubSeq(path, 11, n)
      BY <1>2, <1>11
    <3>3. QED
      BY <3>1, <3>2
  <2>3. rest # <<>>
    BY <2>2
  <2>4. RefuseId /\ parsing' = "refused" /\ path[11][1] \notin Skeleton
    BY <2>2, <2>3 DEF RefuseId, IdParsed
  <2>5. Progress'
    BY <1>1, <1>4, <1>11, <2>4 DEF Progress
  <2>6. QED
    BY <1>1, <2>5, SamePath
<1>12. CASE Levels = 3 /\ rest = <<>> /\ path[11][1] \in {"subscriptions", "resourceGroups"} /\ id.subscription # <<>>
  <2>1. parsing' = "parsed"
    BY <1>12 DEF RefuseId, IdParsed
  <2>2. Progress'
    BY <1>1, <1>4, <1>12, <2>1 DEF Progress
  <2>3. QED
    BY <1>1, <2>2, SamePath
<1>13. QED
  BY <1>1, <1>5, <1>7, <1>8, <1>9, <1>10, <1>11, <1>12 DEF Progress

LEMMA IdsStep == ASSUME IdsInv, IdsNext PROVE IdsInv'
  BY BeforeStep, ScopeStep, ProviderStep, EndStep DEF IdsNext

LEMMA IdsStutter == ASSUME IdsInv, UNCHANGED ids PROVE IdsInv'
  BY DEF IdsInv, ids, Asked, Built, Progress, Whole, Levels

LEMMA IdsAreRight == ASSUME IdsInv PROVE IdsRoundTrip
<1>1. PICK l : l = Levels
  OBVIOUS
<1>2. /\ l \in 1..3 /\ l = Len(asked.type[2])
  BY <1>1, BuiltPath DEF IdsInv, Levels
<1>3. ASSUME parsing = "parsed", l <= 2, Untouched(asked.subscription), Untouched(asked.group),
             \A i \in DOMAIN asked.names : Untouched(asked.names[i])
      PROVE  id = [subscription |-> asked.subscription, group |-> asked.group,
                provider |-> Canonical(asked.type[1]),
                type |-> Canonical(asked.type[2][1]), name |-> asked.names[1],
                subType |-> IF l = 2 THEN Canonical(asked.type[2][2]) ELSE <<>>,
                subName |-> IF l = 2 THEN asked.names[2] ELSE <<>>]
  <2>1. id = Whole /\ path = Normalized(Built) /\ Asked
    BY <1>1, <1>3 DEF IdsInv, Progress
  <2>2. \A s \in Names \X Spellings : Untouched(s) => Norm(s) = s
    BY DEF Untouched, Norm, Canonical
  <2>3. Norm(asked.subscription) = asked.subscription /\ Norm(asked.group) = asked.group
    BY <1>3, <2>1, <2>2 DEF Asked
  <2>4. \A k \in 1..l : Norm(asked.names[k]) = asked.names[k]
    <3>1. DOMAIN asked.names = 1..l /\ \A k \in 1..l : asked.names[k] \in Names \X Spellings
      BY <1>1, <2>1, BuiltPath DEF Asked
    <3>2. QED
      BY <1>3, <2>2, <3>1
  <2>5. path[2] = asked.subscription /\ path[4] = asked.group /\ path[6] = Canonical(asked.type[1])
    BY <2>1, <2>3, NormalPath
  <2>6. \A k \in 1..l : path[5 + 2 * k] = Canonical(asked.type[2][k]) /\ path[6 + 2 * k] = asked.names[k]
    BY <1>1, <2>1, <2>4, NormalPath
  <2>7. path[7] = Canonical(asked.type[2][1]) /\ path[8] = asked.names[1]
    <3>1. 1 \in 1..l /\ 5 + 2 * 1 = 7 /\ 6 + 2 * 1 = 8
      BY <1>2, SMTT(30)
    <3>2. QED
      BY <2>6, <3>1
  <2>8. l = 2 => path[9] = Canonical(asked.type[2][2]) /\ path[10] = asked.names[2]
    <3>1. l = 2 => 2 \in 1..l /\ 5 + 2 * 2 = 9 /\ 6 + 2 * 2 = 10
      BY <1>2
    <3>2. QED
      BY <2>6, <3>1
  <2>9. l >= 2 <=> l = 2
    <3>1. l <= 2
      BY <1>3, Zenon
    <3>2. l \in {1, 2, 3}
      BY <1>2
    <3>3. QED
      BY <3>1, <3>2
  <2>10. QED
    BY <1>1, <2>1, <2>5, <2>7, <2>8, <2>9 DEF Whole
<1>4. ASSUME parsing \in {"parsed", "refused"}
      PROVE  parsing = "parsed" <=> l <= 2 \/ asked.type[2][3] \in {"subscriptions", "resourceGroups"}
  <2>1. Progress /\ path = Normalized(Built) /\ Asked
    BY <1>4 DEF IdsInv
  <2>2. l = 3 => path[11][1] = asked.type[2][3]
    <3>1. l = 3 => 3 \in 1..l /\ 5 + 2 * 3 = 11
      BY <1>2
    <3>2. l = 3 => path[11] = Canonical(asked.type[2][3])
      BY <1>1, <2>1, <3>1, NormalPath
    <3>3. QED
      BY <3>2 DEF Canonical
  <2>3. QED
    BY <1>1, <1>2, <1>4, <2>1, <2>2 DEF Progress, Skeleton
<1>5. QED
  BY <1>2, <1>3, <1>4 DEF IdsRoundTrip

-----------------------------------------------------------------------------

\* When a workflow fires.

\* The days of the month before month m.
Days(m) == MonthDays[((m - 1) % Len(MonthDays)) + 1]

LEMMA DaysType == \A m \in Nat \ {0} : Days(m) \in Nat \ {0}
<1>1. Len(MonthDays) \in Nat \ {0} /\ \A i \in 1..Len(MonthDays) : MonthDays[i] \in Nat \ {0}
  BY RecurrencesAssumption
<1>2. ASSUME NEW m \in Nat \ {0} PROVE ((m - 1) % Len(MonthDays)) + 1 \in 1..Len(MonthDays)
  BY <1>1
<1>3. QED
  BY <1>1, <1>2 DEF Days

\* The beginnings of the first n months, counted one after another.
Begins(g, n) ==
    /\ g \in [0..n -> Nat] /\ g[0] = 0
    /\ \A i \in 1..n : g[i] = g[i - 1] + Days(i)

LEMMA BeginsExist == \A n \in Nat : \E g : Begins(g, n)
<1>1. PICK T : T = {n \in Nat : ~\E g : Begins(g, n)}
  OBVIOUS
<1>2. SUFFICES ASSUME T # {} PROVE FALSE
  BY <1>1
<1>3. PICK n \in T : \A k \in T : n <= k
  BY <1>1, <1>2, Least
<1>4. CASE n = 0
  <2>1. Begins([i \in 0..0 |-> 0], 0)
    BY DEF Begins
  <2>2. QED
    BY <1>1, <1>3, <1>4, <2>1
<1>5. CASE n # 0
  <2>1. n \in Nat /\ n - 1 \in Nat /\ n - 1 \notin T
    BY <1>1, <1>3, <1>5
  <2>2. PICK g : Begins(g, n - 1)
    BY <1>1, <2>1
  <2>3. Days(n) \in Nat
    BY <1>5, <2>1, DaysType
  <2>4. PICK h : h = [i \in 0..n |-> IF i = n THEN g[n - 1] + Days(n) ELSE g[i]]
    OBVIOUS
  <2>5. h \in [0..n -> Nat]
    BY <2>1, <2>2, <2>3, <2>4 DEF Begins
  <2>6. h[0] = 0
    BY <1>5, <2>1, <2>2, <2>4 DEF Begins
  <2>7. \A i \in 1..n : h[i] = h[i - 1] + Days(i)
    <3> TAKE i \in 1..n
    <3>1. CASE i = n
      <4>1. h[n] = g[n - 1] + Days(n) /\ h[n - 1] = g[n - 1]
        BY <2>1, <2>4
      <4>2. QED
        BY <3>1, <4>1
    <3>2. CASE i # n
      <4>1. i \in 1..(n - 1) /\ h[i] = g[i] /\ h[i - 1] = g[i - 1]
        BY <2>1, <2>4, <3>2
      <4>2. QED
        BY <2>2, <4>1 DEF Begins
    <3>3. QED
      BY <3>1, <3>2
  <2>8. Begins(h, n)
    BY <2>5, <2>6, <2>7 DEF Begins
  <2>9. QED
    BY <1>1, <1>3, <2>8
<1>6. QED
  BY <1>4, <1>5

LEMMA BeginsAgree ==
  ASSUME NEW m \in Nat, NEW n \in Nat, m <= n, NEW g, NEW h, Begins(g, m), Begins(h, n)
  PROVE  \A i \in 0..m : g[i] = h[i]
<1>1. PICK T : T = {i \in 0..m : g[i] # h[i]}
  OBVIOUS
<1>2. SUFFICES ASSUME T # {} PROVE FALSE
  BY <1>1
<1>3. PICK i \in T : \A k \in T : i <= k
  <2>1. T \in SUBSET Nat
    BY <1>1
  <2>2. QED
    BY <1>2, <2>1, Least
<1>4. i \in 0..m /\ g[i] # h[i]
  BY <1>1, <1>3
<1>5. i # 0
  BY <1>4 DEF Begins
<1>6. i - 1 \in 0..m /\ i - 1 \notin T /\ i \in 1..m /\ i \in 1..n
  BY <1>1, <1>3, <1>4, <1>5
<1>7. g[i - 1] = h[i - 1]
  BY <1>1, <1>6
<1>8. QED
  BY <1>4, <1>6, <1>7 DEF Begins

\* The recursion of StartOf has a solution, so StartOf is one.
LEMMA StartOfRecursion ==
  /\ StartOf \in [Nat -> Nat] /\ StartOf[0] = 0
  /\ \A m \in Nat : StartOf[m + 1] = StartOf[m] + Days(m + 1) /\ StartOf[m] < StartOf[m + 1]
<1>1. PICK f : f = [m \in Nat |-> (CHOOSE x : Begins(x, m))[m]]
  OBVIOUS
<1>2. \A m \in Nat : Begins(CHOOSE x : Begins(x, m), m)
  BY BeginsExist, Zenon
<1>3. \A m \in Nat : f[m] \in Nat
  <2> TAKE m \in Nat
  <2>1. PICK g : g = CHOOSE x : Begins(x, m)
    OBVIOUS
  <2>2. Begins(g, m) /\ f[m] = g[m]
    BY <1>1, <1>2, <2>1
  <2>3. QED
    BY <2>2 DEF Begins
<1>4. f[0] = 0
  <2>1. PICK g : g = CHOOSE x : Begins(x, 0)
    OBVIOUS
  <2>2. Begins(g, 0) /\ f[0] = g[0]
    BY <1>1, <1>2, <2>1
  <2>3. QED
    BY <2>2 DEF Begins
<1>5. \A m \in Nat \ {0} : f[m] = f[m - 1] + Days(m)
  <2> TAKE m \in Nat \ {0}
  <2>1. PICK g, h : g = (CHOOSE x : Begins(x, m - 1)) /\ h = (CHOOSE x : Begins(x, m))
    OBVIOUS
  <2>2. m - 1 \in Nat
    OBVIOUS
  <2>3. Begins(g, m - 1) /\ f[m - 1] = g[m - 1] /\ Begins(h, m) /\ f[m] = h[m]
    BY <1>1, <1>2, <2>1, <2>2
  <2>4. g[m - 1] = h[m - 1]
    BY <2>2, <2>3, BeginsAgree
  <2>5. h[m] = h[m - 1] + Days(m)
    BY <2>3 DEF Begins
  <2>6. QED
    BY <2>3, <2>4, <2>5
<1>6. f = [m \in Nat |-> IF m = 0 THEN 0 ELSE f[m - 1] + Days(m)]
  BY <1>1, <1>4, <1>5
<1>7. StartOf = [m \in Nat |-> IF m = 0 THEN 0 ELSE StartOf[m - 1] + Days(m)]
  BY <1>6, Zenon DEF StartOf, Days
<1>8. StartOf[0] = 0 /\ \A m \in Nat \ {0} : StartOf[m] = StartOf[m - 1] + Days(m)
  <2>1. PICK s : s = StartOf
    OBVIOUS
  <2>2. s = [m \in Nat |-> IF m = 0 THEN 0 ELSE s[m - 1] + Days(m)]
    BY <1>7, <2>1
  <2>3. s[0] = 0 /\ \A m \in Nat \ {0} : s[m] = s[m - 1] + Days(m)
    BY <2>2
  <2>4. QED
    BY <2>1, <2>3
<1>9. \A m \in Nat : StartOf[m] \in Nat
  <2>1. PICK T : T = {m \in Nat : StartOf[m] \notin Nat}
    OBVIOUS
  <2>2. SUFFICES ASSUME T # {} PROVE FALSE
    BY <2>1
  <2>3. PICK m \in T : \A k \in T : m <= k
    BY <2>1, <2>2, Least
  <2>4. m \in Nat \ {0} /\ m - 1 \in Nat /\ m - 1 \notin T
    BY <1>8, <2>1, <2>3
  <2>5. StartOf[m - 1] \in Nat /\ Days(m) \in Nat
    BY <2>1, <2>4, DaysType
  <2>6. QED
    BY <1>8, <2>1, <2>3, <2>4, <2>5
<1>10. StartOf \in [Nat -> Nat]
  <2>1. DOMAIN StartOf = Nat
    BY <1>7
  <2>2. StartOf = [m \in Nat |-> StartOf[m]]
    BY <1>7
  <2>3. QED
    BY <1>9, <2>2
<1>11. ASSUME NEW m \in Nat PROVE StartOf[m + 1] = StartOf[m] + Days(m + 1) /\ StartOf[m] < StartOf[m + 1]
  <2>1. m + 1 \in Nat \ {0} /\ (m + 1) - 1 = m
    OBVIOUS
  <2>2. StartOf[m + 1] = StartOf[m] + Days(m + 1) /\ Days(m + 1) \in Nat \ {0} /\ StartOf[m] \in Nat
    BY <1>8, <1>9, <2>1, DaysType
  <2>3. QED
    BY <2>2
<1>12. QED
  BY <1>8, <1>10, <1>11

\* Months begin in their order, and a month has a day at least.
LEMMA StartOfGrows ==
  /\ \A m, n \in Nat : m < n => StartOf[m + 1] <= StartOf[n]
  /\ \A m, n \in Nat : m <= n => StartOf[m] + (n - m) <= StartOf[n]
<1>1. ASSUME NEW m \in Nat PROVE \A n \in Nat : m <= n => StartOf[m] + (n - m) <= StartOf[n]
  <2>1. PICK T : T = {n \in Nat : m <= n /\ ~(StartOf[m] + (n - m) <= StartOf[n])}
    OBVIOUS
  <2>2. SUFFICES ASSUME T # {} PROVE FALSE
    BY <2>1
  <2>3. PICK n \in T : \A k \in T : n <= k
    BY <2>1, <2>2, Least
  <2>4. n \in Nat /\ m <= n /\ ~(StartOf[m] + (n - m) <= StartOf[n]) /\ StartOf[m] \in Nat /\ StartOf[n] \in Nat
    BY <2>1, <2>3, StartOfRecursion
  <2>5. n # m
    BY <2>4
  <2>6. n - 1 \in Nat /\ m <= n - 1 /\ n - 1 \notin T /\ (n - 1) + 1 = n
    BY <2>3, <2>4, <2>5
  <2>7. StartOf[m] + ((n - 1) - m) <= StartOf[n - 1] /\ StartOf[n - 1] < StartOf[n] /\ StartOf[n - 1] \in Nat
    BY <2>1, <2>6, StartOfRecursion
  <2>8. QED
    BY <2>4, <2>6, <2>7
<1>2. ASSUME NEW m \in Nat, NEW n \in Nat, m < n PROVE StartOf[m + 1] <= StartOf[n]
  <2>1. m + 1 \in Nat /\ m + 1 <= n
    BY <1>2
  <2>2. StartOf[m + 1] + (n - (m + 1)) <= StartOf[n] /\ StartOf[m + 1] \in Nat /\ StartOf[n] \in Nat
    BY <1>1, <2>1, StartOfRecursion
  <2>3. QED
    BY <2>1, <2>2
<1>3. QED
  BY <1>1, <1>2

\* Every day is in a month, and in no other.
LEMMA MonthOfDay ==
  ASSUME NEW t \in Nat
  PROVE  /\ MonthOf(t) \in Nat /\ StartOf[MonthOf(t)] <= t /\ t < StartOf[MonthOf(t) + 1]
         /\ \A m \in Nat : StartOf[m] <= t /\ t < StartOf[m + 1] => m = MonthOf(t)
<1>1. \E m \in 0..t : StartOf[m] <= t /\ t < StartOf[m + 1]
  <2>1. PICK T : T = {m \in Nat : t < StartOf[m + 1]}
    OBVIOUS
  <2>2. t \in T
    <3>1. 0 \in Nat /\ t + 1 \in Nat /\ 0 <= t + 1
      OBVIOUS
    <3>2. StartOf[0] + ((t + 1) - 0) <= StartOf[t + 1] /\ StartOf[0] = 0 /\ StartOf[t + 1] \in Nat
      BY <3>1, StartOfGrows, StartOfRecursion
    <3>3. QED
      BY <2>1, <3>2
  <2>3. PICK m \in T : \A k \in T : m <= k
    BY <2>1, <2>2, Least
  <2>4. m \in 0..t /\ t < StartOf[m + 1] /\ StartOf[m] \in Nat
    BY <2>1, <2>2, <2>3, StartOfRecursion
  <2>5. StartOf[m] <= t
    <3>1. CASE m = 0
      BY <3>1, StartOfRecursion
    <3>2. CASE m # 0
      <4>1. m - 1 \in Nat /\ m - 1 \notin T /\ (m - 1) + 1 = m
        BY <2>3, <2>4, <3>2
      <4>2. ~(t < StartOf[m])
        BY <2>1, <4>1
      <4>3. QED
        BY <2>4, <4>2
    <3>3. QED
      BY <3>1, <3>2
  <2>6. QED
    BY <2>4, <2>5
<1>2. MonthOf(t) \in 0..t /\ StartOf[MonthOf(t)] <= t /\ t < StartOf[MonthOf(t) + 1]
  BY <1>1, Zenon DEF MonthOf
<1>3. ASSUME NEW m \in Nat, StartOf[m] <= t, t < StartOf[m + 1], m # MonthOf(t) PROVE FALSE
  <2>1. PICK n : n = MonthOf(t)
    OBVIOUS
  <2>2. n \in Nat /\ StartOf[n] <= t /\ t < StartOf[n + 1] /\ m # n
    BY <1>2, <1>3, <2>1
  <2>3. StartOf[m] \in Nat /\ StartOf[n] \in Nat /\ StartOf[m + 1] \in Nat /\ StartOf[n + 1] \in Nat
    BY <2>2, StartOfRecursion
  <2>4. CASE m < n
    BY <1>3, <2>2, <2>3, <2>4, StartOfGrows
  <2>5. CASE n < m
    BY <1>3, <2>2, <2>3, <2>5, StartOfGrows
  <2>6. QED
    BY <2>2, <2>4, <2>5
<1>4. QED
  BY <1>2, <1>3

\* A day that every month has is kept when months are added.
LEMMA MonthsAdded ==
  ASSUME NEW m \in Nat, NEW n \in Nat, NEW d \in Nat, \A k \in DOMAIN MonthDays : d < MonthDays[k]
  PROVE  StartOf[m] + d \in Nat /\ AddMonths(StartOf[m] + d, n) = StartOf[m + n] + d
<1>1. d < Days(m + 1)
  <2>1. (((m + 1) - 1) % Len(MonthDays)) + 1 \in DOMAIN MonthDays
    BY RecurrencesAssumption
  <2>2. QED
    BY <2>1 DEF Days
<1>2. PICK t : t = StartOf[m] + d
  OBVIOUS
<1>3. t \in Nat /\ StartOf[m] <= t /\ t < StartOf[m + 1] /\ StartOf[m] \in Nat
  <2>1. StartOf[m] \in Nat /\ StartOf[m + 1] = StartOf[m] + Days(m + 1) /\ Days(m + 1) \in Nat
    BY StartOfRecursion, DaysType
  <2>2. QED
    BY <1>1, <1>2, <2>1
<1>4. MonthOf(t) = m
  BY <1>3, MonthOfDay
<1>5. t - StartOf[m] = d
  BY <1>2, <1>3
<1>6. QED
  BY <1>2, <1>3, <1>4, <1>5 DEF AddMonths

-----------------------------------------------------------------------------

\* Multiplication grows, and what division leaves.
LEMMA Products ==
  /\ \A j, k, d \in Nat : j <= k => j * d <= k * d
  /\ \A k, d \in Nat : (k + 1) * d = k * d + d /\ k * d \in Nat
  /\ \A a \in Nat, d \in Nat \ {0} : a \div d \in Nat /\ (a \div d) * d <= a /\ a < ((a \div d) + 1) * d
<1>1. \A j, k, d \in Nat : j <= k => j * d <= k * d
  OBVIOUS
<1>2. \A k, d \in Nat : (k + 1) * d = k * d + d /\ k * d \in Nat
  OBVIOUS
<1>3. \A a \in Nat, d \in Nat \ {0} : a \div d \in Nat /\ (a \div d) * d <= a /\ a < ((a \div d) + 1) * d
  OBVIOUS
<1>4. QED
  BY <1>1, <1>2, <1>3

\* The times of a recurrence in months.
Nth(k) == StartOf[MonthOf(anchor) + k * interval] + (anchor - StartOf[MonthOf(anchor)])

\* What Next has counted to, or answered, is a time of the recurrence, and the
\* one before is past.
FiringInv ==
    /\ frequency \in DOMAIN Units \union {"month"} /\ interval \in Nat \ {0} /\ anchor \in Nat /\ now \in 0..MaxTime
    /\ loop = "counting" => frequency = "month"
    /\ frequency # "month" /\ loop = "waiting" => due = NextFixed(now)
    /\ frequency = "month" /\ loop = "waiting" => due > now
    /\ frequency = "month" /\ loop \in {"counting", "waiting"} /\ DayInEveryMonth =>
          \E k \in Nat : due = Nth(k) /\ (k > 0 => Nth(k - 1) <= now)

\* The times of a recurrence in months follow one another, and adding the
\* interval to one of them gives the next.
LEMMA NthFacts ==
  ASSUME anchor \in Nat, interval \in Nat \ {0}, DayInEveryMonth
  PROVE  /\ Nth(0) = anchor
         /\ \A k \in Nat : Nth(k) \in Nat /\ Nth(k) >= k /\ AddMonths(Nth(k), interval) = Nth(k + 1)
         /\ \A j, k \in Nat : j <= k => Nth(j) <= Nth(k)
<1>1. PICK m, d : m = MonthOf(anchor) /\ d = anchor - StartOf[m]
  OBVIOUS
<1>2. m \in Nat /\ StartOf[m] \in Nat /\ d \in Nat /\ anchor = StartOf[m] + d
  <2>1. m \in Nat /\ StartOf[m] <= anchor
    BY <1>1, MonthOfDay
  <2>2. StartOf[m] \in Nat
    BY <2>1, StartOfRecursion
  <2>3. QED
    BY <1>1, <2>1, <2>2
<1>3. \A i \in DOMAIN MonthDays : d < MonthDays[i]
  BY <1>1 DEF DayInEveryMonth
<1>4. \A k \in Nat : Nth(k) = StartOf[m + k * interval] + d
  BY <1>1 DEF Nth
<1>5. \A k \in Nat : k * interval \in Nat /\ k * interval >= k /\ (k + 1) * interval = k * interval + interval
  BY Products
<1>6. Nth(0) = anchor
  <2>1. 0 * interval = 0 /\ m + 0 = m
    BY <1>2
  <2>2. QED
    BY <1>2, <1>4, <2>1
<1>7. ASSUME NEW k \in Nat PROVE Nth(k) \in Nat /\ Nth(k) >= k /\ AddMonths(Nth(k), interval) = Nth(k + 1)
  <2>1. PICK n : n = m + k * interval
    OBVIOUS
  <2>2. n \in Nat /\ n >= k /\ n + interval = m + (k + 1) * interval
    BY <1>2, <1>5, <2>1
  <2>3. StartOf[n] \in Nat /\ StartOf[0] + (n - 0) <= StartOf[n] /\ StartOf[0] = 0
    <3>1. 0 \in Nat /\ 0 <= n
      BY <2>2
    <3>2. StartOf[0] + (n - 0) <= StartOf[n]
      BY <2>2, <3>1, StartOfGrows
    <3>3. QED
      BY <2>2, <3>2, StartOfRecursion
  <2>4. AddMonths(StartOf[n] + d, interval) = StartOf[n + interval] + d
    BY <1>2, <1>3, <2>2, MonthsAdded
  <2>5. Nth(k) = StartOf[n] + d /\ Nth(k + 1) = StartOf[n + interval] + d
    BY <1>4, <2>1, <2>2
  <2>6. QED
    BY <1>2, <2>2, <2>3, <2>4, <2>5
<1>8. ASSUME NEW j \in Nat, NEW k \in Nat, j <= k PROVE Nth(j) <= Nth(k)
  <2>1. PICK a, b : a = m + j * interval /\ b = m + k * interval
    OBVIOUS
  <2>2. j * interval <= k * interval /\ j * interval \in Nat /\ k * interval \in Nat
    BY <1>5, <1>8, Products
  <2>3. a \in Nat /\ b \in Nat /\ a <= b
    BY <1>2, <2>1, <2>2
  <2>4. StartOf[a] + (b - a) <= StartOf[b] /\ StartOf[a] \in Nat /\ StartOf[b] \in Nat
    BY <2>3, StartOfGrows, StartOfRecursion
  <2>5. Nth(j) = StartOf[a] + d /\ Nth(k) = StartOf[b] + d
    BY <1>4, <2>1
  <2>6. QED
    BY <1>2, <2>3, <2>4, <2>5
<1>9. QED
  BY <1>6, <1>7, <1>8

LEMMA FiringBegins == ASSUME FiringInit PROVE FiringInv
  BY RecurrencesAssumption DEF FiringInit, FiringInv

LEMMA AskStep == ASSUME FiringInv, Ask PROVE FiringInv'
<1>1. UNCHANGED <<frequency, interval, anchor, now>>
  BY DEF Ask
<1>2. NextFixed(now)' = NextFixed(now) /\ DayInEveryMonth' = DayInEveryMonth /\ \A k : Nth(k)' = Nth(k)
  BY <1>1 DEF NextFixed, FixedStep, DayInEveryMonth, Nth
<1>3. CASE frequency = "month"
  <2>1. due' = anchor /\ loop' = "counting"
    BY <1>3 DEF Ask
  <2>2. DayInEveryMonth => due' = Nth(0)
    BY <2>1, NthFacts DEF FiringInv
  <2>3. DayInEveryMonth' => \E k \in Nat : due' = Nth(k)' /\ (k > 0 => Nth(k - 1)' <= now')
    <3> SUFFICES ASSUME DayInEveryMonth PROVE 0 \in Nat /\ due' = Nth(0)' /\ ~(0 > 0)
      BY <1>2
    <3>1. QED
      BY <1>2, <2>2
  <2>4. QED
    BY <1>1, <1>3, <2>1, <2>3 DEF FiringInv
<1>4. CASE frequency # "month"
  <2>1. loop' = "panicked" \/ (loop' = "waiting" /\ due' = NextFixed(now))
    BY <1>4 DEF Ask
  <2>2. QED
    BY <1>1, <1>2, <1>4, <2>1 DEF FiringInv
<1>5. QED
  BY <1>3, <1>4

LEMMA CountStep == ASSUME FiringInv, CountMonths PROVE FiringInv'
<1>1. UNCHANGED <<frequency, interval, anchor, now>> /\ loop = "counting" /\ frequency = "month"
  BY DEF CountMonths, FiringInv
<1>2. DayInEveryMonth' = DayInEveryMonth /\ \A k : Nth(k)' = Nth(k)
  BY <1>1 DEF DayInEveryMonth, Nth
<1>3. ASSUME DayInEveryMonth PROVE \E k \in Nat : due' = Nth(k)' /\ (k > 0 => Nth(k - 1)' <= now')
  <2>1. PICK k \in Nat : due = Nth(k) /\ (k > 0 => Nth(k - 1) <= now)
    BY <1>1, <1>3 DEF FiringInv
  <2>2. CASE due <= now /\ due' = AddMonths(due, interval)
    <3>1. due' = Nth(k + 1)
      BY <1>3, <2>1, <2>2, NthFacts DEF FiringInv
    <3>2. k + 1 \in Nat /\ (k + 1) - 1 = k /\ Nth(k) <= now
      BY <2>1, <2>2
    <3>3. due' = Nth(k + 1)' /\ Nth((k + 1) - 1)' <= now'
      BY <1>1, <1>2, <3>1, <3>2
    <3>4. QED
      BY <3>2, <3>3
  <2>3. CASE due' = due
    <3>1. due' = Nth(k)' /\ (k > 0 => Nth(k - 1)' <= now')
      BY <1>1, <1>2, <2>1, <2>3
    <3>2. QED
      BY <3>1
  <2>4. QED
    BY <2>2, <2>3 DEF CountMonths
<1>4. loop' = "waiting" => due' > now'
  BY <1>1 DEF CountMonths
<1>5. loop' \in {"counting", "waiting"}
  BY <1>1 DEF CountMonths
<1>6. QED
  BY <1>1, <1>2, <1>3, <1>4, <1>5 DEF FiringInv

LEMMA FireStep == ASSUME FiringInv, Fire PROVE FiringInv'
<1>1. UNCHANGED <<frequency, interval, anchor>> /\ loop' = "asking" /\ now' \in now..MaxTime
  BY DEF Fire
<1>2. QED
  BY <1>1 DEF FiringInv

LEMMA FiringStep == ASSUME FiringInv, FiringNext PROVE FiringInv'
  BY AskStep, CountStep, FireStep DEF FiringNext

LEMMA FiringStutter == ASSUME FiringInv, UNCHANGED firing PROVE FiringInv'
<1>1. UNCHANGED <<frequency, interval, anchor, now, due, loop>>
  BY DEF firing
<1>2. NextFixed(now)' = NextFixed(now) /\ DayInEveryMonth' = DayInEveryMonth /\ \A k : Nth(k)' = Nth(k)
  BY <1>1 DEF NextFixed, FixedStep, DayInEveryMonth, Nth
<1>3. QED
  BY <1>1, <1>2 DEF FiringInv

\* A fixed interval: the multiples of it from the anchor on.
LEMMA FixedFollowing ==
  ASSUME FiringInv, loop = "waiting", frequency # "month", DurationsFit
  PROVE  due > now /\ due \in Grid /\ \A t \in Grid : t > now => due <= t
<1>1. PICK d : d = Units[frequency] * interval
  OBVIOUS
<1>2. d \in Nat \ {0} /\ d <= MaxDuration /\ now - anchor + d <= MaxDuration
  <2>1. Units[frequency] \in Nat \ {0} /\ interval \in Nat \ {0}
    BY RecurrencesAssumption DEF FiringInv
  <2>2. d \in Nat \ {0}
    BY <1>1, <2>1
  <2>3. QED
    BY <1>1, <2>2 DEF DurationsFit
<1>3. \A x \in Nat : x <= MaxDuration => Wrapped(x) = x
  <2>1. \A a \in Nat, b \in Nat \ {0} : a < b => a % b = a
    OBVIOUS
  <2>2. PICK m : m = MaxDuration + 1
    OBVIOUS
  <2>3. m \in Nat \ {0} /\ MaxDuration \in Nat
    BY <2>2, RecurrencesAssumption
  <2>4. ASSUME NEW x \in Nat, x <= MaxDuration PROVE Wrapped(x) = x
    <3>1. x + m \in Nat /\ 2 * m \in Nat \ {0} /\ x + m < 2 * m
      BY <2>2, <2>3, <2>4
    <3>2. (x + m) % (2 * m) = x + m
      BY <2>1, <3>1
    <3>3. Wrapped(x) = ((x + m) % (2 * m)) - m
      <4>1. x + MaxDuration + 1 = x + m
        BY <2>2, <2>4, RecurrencesAssumption
      <4>2. QED
        BY <2>2, <4>1 DEF Wrapped
    <3>4. QED
      BY <2>3, <2>4, <3>2, <3>3
  <2>5. QED
    BY <2>4
<1>4. FixedStep = d
  BY <1>1, <1>2, <1>3 DEF FixedStep
<1>5. Grid = {anchor + k * d : k \in 0..(MaxTime + 1)}
  BY <1>1 DEF Grid
<1>6. anchor \in Nat /\ now \in Nat /\ now <= MaxTime /\ MaxTime \in Nat /\ MaxDuration \in Nat /\ due = NextFixed(now)
  BY RecurrencesAssumption DEF FiringInv
<1>7. CASE anchor > now
  <2>1. due = anchor
    BY <1>6, <1>7 DEF NextFixed
  <2>2. due \in Grid
    <3>1. 0 \in 0..(MaxTime + 1) /\ anchor + 0 * d = anchor
      BY <1>2, <1>6
    <3>2. QED
      BY <1>5, <2>1, <3>1
  <2>3. \A t \in Grid : due <= t
    BY <1>2, <1>5, <1>6, <2>1, Products
  <2>4. QED
    BY <1>7, <2>1, <2>2, <2>3
<1>8. CASE ~(anchor > now)
  <2>1. PICK a, q : a = now - anchor /\ q = a \div d
    OBVIOUS
  <2>2. a \in Nat /\ a <= now /\ a + d <= MaxDuration
    BY <1>2, <1>6, <1>8, <2>1
  <2>3. q \in Nat /\ q * d <= a /\ a < (q + 1) * d /\ (q + 1) * d = q * d + d /\ q * d \in Nat /\ q * d >= q
    <3>1. q \in Nat /\ q * d <= a /\ a < (q + 1) * d
      BY <1>2, <2>1, <2>2, Products
    <3>2. (q + 1) * d = q * d + d /\ q * d \in Nat
      BY <1>2, <3>1, Products
    <3>3. q * d >= q
      <4>1. d >= 1
        BY <1>2
      <4>2. QED
        BY <1>2, <3>1, <4>1
    <3>4. QED
      BY <3>1, <3>2, <3>3
  <2>4. Quotient(Sub(now, anchor), d) = q
    <3>1. Sub(now, anchor) = a
      BY <1>2, <1>6, <2>1, <2>2 DEF Sub
    <3>2. QED
      BY <1>2, <2>1, <3>1 DEF Quotient
  <2>5. d * (q + 1) = (q + 1) * d /\ (q + 1) * d \in Nat /\ (q + 1) * d <= MaxDuration
    BY <1>2, <1>6, <2>2, <2>3
  <2>6. due = anchor + (q + 1) * d
    <3>1. due = anchor + Wrapped(d * (q + 1))
      BY <1>4, <1>6, <1>8, <2>4 DEF NextFixed
    <3>2. QED
      BY <1>3, <2>5, <3>1
  <2>7. due > now
    BY <1>6, <2>1, <2>3, <2>5, <2>6
  <2>8. due \in Grid
    <3>1. q + 1 \in 0..(MaxTime + 1)
      BY <1>6, <2>2, <2>3
    <3>2. QED
      BY <1>5, <2>6, <3>1
  <2>9. ASSUME NEW t \in Grid, t > now PROVE due <= t
    <3>1. PICK k \in 0..(MaxTime + 1) : t = anchor + k * d
      BY <1>5
    <3>2. k \in Nat /\ k * d \in Nat /\ k * d > a
      BY <1>2, <1>6, <2>1, <2>9, <3>1, Products
    <3>3. ~(k <= q)
      <4>1. k <= q => k * d <= q * d
        BY <1>2, <2>3, <3>2, Products
      <4>2. QED
        BY <2>2, <2>3, <3>2, <4>1
    <3>4. (q + 1) * d <= k * d
      <4>1. q + 1 \in Nat /\ q + 1 <= k
        BY <2>3, <3>2, <3>3
      <4>2. QED
        BY <1>2, <3>2, <4>1, Products
    <3>5. QED
      BY <1>6, <2>5, <2>6, <3>1, <3>2, <3>4
  <2>10. QED
    BY <2>7, <2>8, <2>9
<1>9. QED
  BY <1>7, <1>8

\* Months, while every month has the anchor's day.
LEMMA MonthsFollowing ==
  ASSUME FiringInv, loop = "waiting", frequency = "month", DayInEveryMonth
  PROVE  due > now /\ due \in Grid /\ \A t \in Grid : t > now => due <= t
<1>1. due > now /\ anchor \in Nat /\ interval \in Nat \ {0} /\ now \in 0..MaxTime /\ MaxTime \in Nat
  BY RecurrencesAssumption DEF FiringInv
<1>2. PICK k \in Nat : due = Nth(k) /\ (k > 0 => Nth(k - 1) <= now)
  BY DEF FiringInv
<1>3. Grid = {Nth(j) : j \in 0..(MaxTime + 1)}
  BY DEF Grid, Nth
<1>4. k <= MaxTime + 1
  <2>1. CASE k > 0
    <3>1. k - 1 \in Nat /\ Nth(k - 1) >= k - 1 /\ Nth(k - 1) \in Nat
      BY <1>1, <2>1, NthFacts, SMTT(30)
    <3>2. QED
      BY <1>1, <1>2, <2>1, <3>1
  <2>2. QED
    BY <1>1, <2>1
<1>5. ASSUME NEW t \in Grid, t > now PROVE due <= t
  <2>1. PICK j \in 0..(MaxTime + 1) : t = Nth(j)
    BY <1>3
  <2>2. j \in Nat /\ Nth(j) \in Nat /\ Nth(k) \in Nat
    <3>1. j \in Nat
      BY <1>1, <2>1
    <3>2. QED
      BY <1>1, <3>1, NthFacts
  <2>3. CASE j < k
    <3>1. k > 0 /\ k - 1 \in Nat /\ j <= k - 1
      BY <2>2, <2>3
    <3>2. Nth(j) <= Nth(k - 1) /\ Nth(k - 1) \in Nat /\ Nth(k - 1) <= now
      BY <1>1, <1>2, <2>2, <3>1, NthFacts
    <3>3. QED
      BY <1>1, <1>5, <2>1, <2>2, <3>2
  <2>4. CASE k <= j
    BY <1>1, <1>2, <2>1, <2>2, <2>4, NthFacts
  <2>5. QED
    BY <2>2, <2>3, <2>4
<1>6. QED
  BY <1>1, <1>2, <1>3, <1>4, <1>5

LEMMA FiringIsRight == ASSUME FiringInv PROVE NextIsTheFollowing
  BY FixedFollowing, MonthsFollowing DEF NextIsTheFollowing, FiringInv

-----------------------------------------------------------------------------

\* What a template is resolved to.

\* What leaves mean when the variables have been replaced once more.
Supplied(p) == IF p \in DOMAIN template.supplied THEN template.supplied[p] ELSE template.declared[p]

Deeper(depth, meaning) ==
    [leaf \in Leaf |->
        CASE leaf.kind = "literal" -> <<leaf.of>>
          [] leaf.kind = "parameters" ->
                IF leaf.of \in DOMAIN template.supplied THEN template.supplied[leaf.of] ELSE template.declared[leaf.of]
          [] OTHER -> IF depth = 0 THEN <<>> ELSE
                LET raw == template.variables[leaf.of]
                IN  FlattenSeq([i \in DOMAIN raw |-> meaning[raw[i]]])]

\* The meanings up to a depth.
Means(g, n) ==
    /\ g = [i \in 0..n |-> g[i]]
    /\ g[0] = Deeper(0, <<>>)
    /\ \A i \in 1..n : g[i] = Deeper(i, g[i - 1])

LEMMA Shallowest == \A m : Deeper(0, m) = Deeper(0, <<>>)
  BY DEF Deeper

LEMMA MeansExist == \A n \in Nat : \E g : Means(g, n)
<1>1. PICK T : T = {n \in Nat : ~\E g : Means(g, n)}
  OBVIOUS
<1>2. SUFFICES ASSUME T # {} PROVE FALSE
  BY <1>1
<1>3. PICK n \in T : \A k \in T : n <= k
  BY <1>1, <1>2, Least
<1>4. CASE n = 0
  <2>1. PICK g : g = [i \in 0..0 |-> Deeper(0, <<>>)]
    OBVIOUS
  <2>2. g = [i \in 0..0 |-> g[i]] /\ g[0] = Deeper(0, <<>>)
    BY <2>1
  <2>3. Means(g, 0)
    BY <2>2 DEF Means
  <2>4. QED
    BY <1>1, <1>3, <1>4, <2>3
<1>5. CASE n # 0
  <2>1. n \in Nat /\ n - 1 \in Nat /\ n - 1 \notin T
    BY <1>1, <1>3, <1>5
  <2>2. PICK g : Means(g, n - 1)
    BY <1>1, <2>1
  <2>3. PICK h : h = [i \in 0..n |-> IF i = n THEN Deeper(n, g[n - 1]) ELSE g[i]]
    OBVIOUS
  <2>4. h = [i \in 0..n |-> h[i]]
    BY <2>3
  <2>5. h[0] = Deeper(0, <<>>)
    BY <1>5, <2>1, <2>2, <2>3 DEF Means
  <2>6. \A i \in 1..n : h[i] = Deeper(i, h[i - 1])
    <3> TAKE i \in 1..n
    <3>1. CASE i = n
      <4>1. h[n] = Deeper(n, g[n - 1]) /\ h[n - 1] = g[n - 1]
        BY <2>1, <2>3
      <4>2. QED
        BY <3>1, <4>1
    <3>2. CASE i # n
      <4>1. i \in 1..(n - 1) /\ h[i] = g[i] /\ h[i - 1] = g[i - 1]
        BY <2>1, <2>3, <3>2
      <4>2. QED
        BY <2>2, <4>1 DEF Means
    <3>3. QED
      BY <3>1, <3>2
  <2>7. Means(h, n)
    BY <2>4, <2>5, <2>6 DEF Means
  <2>8. QED
    BY <1>1, <1>3, <2>7
<1>6. QED
  BY <1>4, <1>5

LEMMA MeansAgree ==
  ASSUME NEW m \in Nat, NEW n \in Nat, m <= n, NEW g, NEW h, Means(g, m), Means(h, n)
  PROVE  \A i \in 0..m : g[i] = h[i]
<1>1. PICK T : T = {i \in 0..m : g[i] # h[i]}
  OBVIOUS
<1>2. SUFFICES ASSUME T # {} PROVE FALSE
  BY <1>1
<1>3. PICK i \in T : \A k \in T : i <= k
  <2>1. T \in SUBSET Nat
    BY <1>1
  <2>2. QED
    BY <1>2, <2>1, Least
<1>4. i \in 0..m /\ g[i] # h[i]
  BY <1>1, <1>3
<1>5. i # 0
  BY <1>4 DEF Means
<1>6. i - 1 \in 0..m /\ i - 1 \notin T /\ i \in 1..m /\ i \in 1..n
  BY <1>1, <1>3, <1>4, <1>5
<1>7. g[i - 1] = h[i - 1]
  BY <1>1, <1>6
<1>8. g[i] = Deeper(i, g[i - 1]) /\ h[i] = Deeper(i, h[i - 1])
  BY <1>6 DEF Means
<1>9. QED
  BY <1>4, <1>7, <1>8

\* The recursion of Meaning has a solution, so Meaning is one.
LEMMA MeaningRecursion == \A n \in Nat : Meaning[n] = Deeper(n, Meaning[n - 1])
<1>1. PICK f : f = [n \in Nat |-> (CHOOSE x : Means(x, n))[n]]
  OBVIOUS
<1>2. \A n \in Nat : Means(CHOOSE x : Means(x, n), n)
  BY MeansExist, Zenon
<1>3. ASSUME NEW n \in Nat PROVE f[n] = Deeper(n, f[n - 1])
  <2>1. CASE n = 0
    <3>1. PICK g : g = CHOOSE x : Means(x, 0)
      OBVIOUS
    <3>2. Means(g, 0) /\ f[0] = g[0]
      BY <1>1, <1>2, <3>1
    <3>3. f[0] = Deeper(0, <<>>)
      BY <3>2 DEF Means
    <3>4. QED
      BY <2>1, <3>3, Shallowest
  <2>2. CASE n # 0
    <3>1. PICK g, h : g = (CHOOSE x : Means(x, n - 1)) /\ h = (CHOOSE x : Means(x, n))
      OBVIOUS
    <3>2. n - 1 \in Nat /\ n \in 1..n /\ n - 1 \in 0..(n - 1) /\ n - 1 <= n
      BY <2>2
    <3>3. Means(g, n - 1) /\ f[n - 1] = g[n - 1] /\ Means(h, n) /\ f[n] = h[n]
      BY <1>1, <1>2, <3>1, <3>2
    <3>4. g[n - 1] = h[n - 1]
      BY <3>2, <3>3, MeansAgree
    <3>5. h[n] = Deeper(n, h[n - 1])
      BY <3>2, <3>3 DEF Means
    <3>6. QED
      BY <3>3, <3>4, <3>5
  <2>3. QED
    BY <2>1, <2>2
<1>4. f = [n \in Nat |-> Deeper(n, f[n - 1])]
  BY <1>1, <1>3
<1>5. Meaning = [n \in Nat |-> Deeper(n, Meaning[n - 1])]
  BY <1>4, Zenon DEF Meaning, Deeper
<1>6. QED
  BY <1>5

\* What a leaf means.
LEMMA MeaningOf ==
  ASSUME NEW n \in Nat, NEW leaf \in Leaf
  PROVE  /\ leaf.kind = "literal" => Meaning[n][leaf] = <<leaf.of>>
         /\ leaf.kind = "parameters" => Meaning[n][leaf] = Supplied(leaf.of)
         /\ leaf.kind = "variables" /\ n > 0 =>
               Meaning[n][leaf] = FlattenSeq([i \in DOMAIN template.variables[leaf.of] |->
                                                 Meaning[n - 1][template.variables[leaf.of][i]]])
<1>1. Meaning[n] = Deeper(n, Meaning[n - 1])
  BY MeaningRecursion
<1>2. PICK m : m = Meaning[n - 1]
  OBVIOUS
<1>3. Meaning[n][leaf] =
        CASE leaf.kind = "literal" -> <<leaf.of>>
          [] leaf.kind = "parameters" -> Supplied(leaf.of)
          [] OTHER -> IF n = 0 THEN <<>> ELSE
                FlattenSeq([i \in DOMAIN template.variables[leaf.of] |-> m[template.variables[leaf.of][i]]])
  BY <1>1, <1>2 DEF Deeper, Supplied
<1>4. ASSUME leaf.kind = "literal" PROVE Meaning[n][leaf] = <<leaf.of>>
  BY <1>3, <1>4
<1>5. ASSUME leaf.kind = "parameters" PROVE Meaning[n][leaf] = Supplied(leaf.of)
  BY <1>3, <1>5
<1>6. ASSUME leaf.kind = "variables", n > 0
      PROVE Meaning[n][leaf] = FlattenSeq([i \in DOMAIN template.variables[leaf.of] |-> m[template.variables[leaf.of][i]]])
  BY <1>3, <1>6
<1>7. QED
  BY <1>2, <1>4, <1>5, <1>6

LEMMA LeafKinds ==
  ASSUME NEW leaf \in Leaf
  PROVE  /\ leaf.kind \in {"literal", "parameters", "variables"}
         /\ leaf.kind = "variables" => leaf = [kind |-> "variables", of |-> leaf.of]
  BY DEF Leaf

\* The variables resolved are what they mean, to any depth that is enough.
Resolved(vs, n) == \A v \in DOMAIN vs : vs[v] = Meaning[n][[kind |-> "variables", of |-> v]]

Formed ==
    /\ DOMAIN template.variables \subseteq VariableNames
    /\ \A v \in DOMAIN template.variables : template.variables[v] \in Seq(Leaf)
    /\ template.uses \in Seq(Leaf)

Depth == Cardinality(VariableNames)
Outcomes == {Meaning[Depth][leaf] : leaf \in Leaf}

ParametersInv ==
    /\ DOMAIN parameters \subseteq DOMAIN template.declared
    /\ \A p \in DOMAIN parameters : parameters[p] = Supplied(p)
    /\ phase = "parameters" => DOMAIN template.declared = left \union DOMAIN parameters /\ DOMAIN variables = {}
    /\ phase \in {"variables", "resources"} => DOMAIN parameters = DOMAIN template.declared

VariablesInv ==
    /\ DOMAIN variables \subseteq DOMAIN template.variables
    /\ \A n \in Nat : n >= Cardinality(DOMAIN variables) => Resolved(variables, n)
    /\ phase = "variables" =>
          DOMAIN template.variables = left \union DOMAIN variables /\ left \intersect DOMAIN variables = {}
    /\ phase = "resources" => DOMAIN variables = DOMAIN template.variables

ValuesInv ==
    /\ phase \in {"parameters", "variables"} => values = <<>>
    /\ values \in Seq(Outcomes) /\ Len(values) <= Len(template.uses)
    /\ \A i \in 1..Len(values) : values[i] = Meaning[Depth][template.uses[i]]
    /\ phase = "resolved" => Len(values) = Len(template.uses)

RefusedInv ==
    phase = "refused" =>
       Incomplete \/ \E v \in DOMAIN template.variables : Refers("variables", template.variables[v]) # {}

ResolutionInv == Formed /\ ParametersInv /\ VariablesInv /\ ValuesInv /\ RefusedInv

\* A leaf that evaluates gives what it means.
LEMMA Evaluated ==
  ASSUME NEW n \in Nat, Resolved(variables, n), \A p \in DOMAIN parameters : parameters[p] = Supplied(p),
         NEW leaf \in Leaf, Evaluates(leaf)
  PROVE  EvalExpression(leaf) = Meaning[n][leaf]
<1>1. CASE leaf.kind = "literal"
  BY <1>1, MeaningOf DEF EvalExpression
<1>2. CASE leaf.kind = "parameters"
  BY <1>2, MeaningOf DEF EvalExpression, Evaluates
<1>3. CASE leaf.kind = "variables"
  <2>1. leaf.of \in DOMAIN variables /\ EvalExpression(leaf) = variables[leaf.of]
    BY <1>3 DEF EvalExpression, Evaluates
  <2>2. leaf = [kind |-> "variables", of |-> leaf.of]
    BY <1>3, LeafKinds
  <2>3. QED
    BY <2>1, <2>2 DEF Resolved
<1>4. QED
  BY <1>1, <1>2, <1>3, LeafKinds

LEMMA Counts ==
  ASSUME Formed, DOMAIN variables \subseteq DOMAIN template.variables
  PROVE  /\ Depth \in Nat /\ Cardinality(DOMAIN variables) \in Nat /\ Cardinality(DOMAIN variables) <= Depth
         /\ IsFiniteSet(DOMAIN variables)
<1>1. DOMAIN variables \subseteq VariableNames
  BY DEF Formed
<1>2. QED
  BY <1>1, NamesAssumption, FS_Subset, FS_CardinalityType DEF Depth

\* Nothing but the template decides what leaves mean.
LEMMA SameTemplate ==
  ASSUME template' = template
  PROVE  /\ Meaning' = Meaning /\ Depth' = Depth /\ Outcomes' = Outcomes /\ Formed' = Formed
         /\ Incomplete' = Incomplete /\ \A p : Supplied(p)' = Supplied(p)
<1>1. Meaning' = Meaning
  BY DEF Meaning
<1>2. QED
  BY <1>1 DEF Depth, Outcomes, Formed, Incomplete, ReferredTo, Supplied

\* A step that leaves what was resolved.
LEMMA SameResolved ==
  ASSUME template' = template, variables' = variables
  PROVE  \A n : Resolved(variables, n)' <=> Resolved(variables, n)
  BY SameTemplate DEF Resolved

\* Parts of the invariant that a step does not touch.
LEMMA SameParts ==
  ASSUME ResolutionInv, template' = template
  PROVE  /\ Formed'
         /\ variables' = variables =>
              /\ DOMAIN variables' \subseteq DOMAIN template'.variables
              /\ \A n \in Nat : n >= Cardinality(DOMAIN variables') => Resolved(variables, n)'
         /\ values' = values =>
              /\ values' \in Seq(Outcomes') /\ Len(values') <= Len(template'.uses)
              /\ \A i \in 1..Len(values') : values'[i] = Meaning'[Depth'][template'.uses[i]]
         /\ parameters' = parameters =>
              /\ DOMAIN parameters' \subseteq DOMAIN template'.declared
              /\ \A p \in DOMAIN parameters' : parameters'[p] = Supplied(p)'
<1>1. Formed'
  BY SameTemplate DEF ResolutionInv
<1>2. ASSUME variables' = variables
      PROVE  /\ DOMAIN variables' \subseteq DOMAIN template'.variables
             /\ \A n \in Nat : n >= Cardinality(DOMAIN variables') => Resolved(variables, n)'
  <2>1. \A n \in Nat : n >= Cardinality(DOMAIN variables) => Resolved(variables, n)
    BY DEF ResolutionInv, VariablesInv
  <2>2. \A n : Resolved(variables, n)' <=> Resolved(variables, n)
    BY <1>2, SameResolved
  <2>3. DOMAIN variables \subseteq DOMAIN template.variables
    BY DEF ResolutionInv, VariablesInv
  <2>4. QED
    BY <1>2, <2>1, <2>2, <2>3
<1>3. ASSUME values' = values
      PROVE  /\ values' \in Seq(Outcomes') /\ Len(values') <= Len(template'.uses)
             /\ \A i \in 1..Len(values') : values'[i] = Meaning'[Depth'][template'.uses[i]]
  BY <1>3, SameTemplate DEF ResolutionInv, ValuesInv
<1>4. ASSUME parameters' = parameters
      PROVE  /\ DOMAIN parameters' \subseteq DOMAIN template'.declared
             /\ \A p \in DOMAIN parameters' : parameters'[p] = Supplied(p)'
  BY <1>4, SameTemplate DEF ResolutionInv, ParametersInv
<1>5. QED
  BY <1>1, <1>2, <1>3, <1>4

LEMMA ParameterStep == ASSUME ResolutionInv, NEW p, ResolveParameter(p) PROVE ResolutionInv'
<1>1. UNCHANGED <<template, phase, variables, values>> /\ phase = "parameters" /\ p \in left /\ left' = left \ {p}
  BY DEF ResolveParameter
<1>2. parameters' = Set(parameters, p, Supplied(p))
  BY DEF ResolveParameter, Supplied
<1>3. DOMAIN parameters' = DOMAIN parameters \union {p} /\ parameters'[p] = Supplied(p)
      /\ \A q \in DOMAIN parameters : q # p => parameters'[q] = parameters[q]
  <2>1. PICK y : y = Supplied(p)
    OBVIOUS
  <2>2. parameters' = [q \in DOMAIN parameters \union {p} |-> IF q = p THEN y ELSE parameters[q]]
    BY <1>2, <2>1 DEF Set
  <2>3. QED
    BY <2>1, <2>2
<1>4. /\ DOMAIN parameters \subseteq DOMAIN template.declared
      /\ \A q \in DOMAIN parameters : parameters[q] = Supplied(q)
      /\ DOMAIN template.declared = left \union DOMAIN parameters /\ DOMAIN variables = {}
  BY <1>1 DEF ResolutionInv, ParametersInv
<1>5. \A q \in DOMAIN parameters' : parameters'[q] = Supplied(q)'
  BY <1>1, <1>3, <1>4, SameTemplate
<1>6. ParametersInv'
  BY <1>1, <1>3, <1>4, <1>5 DEF ParametersInv
<1>7. VariablesInv'
  BY <1>1, SameParts DEF VariablesInv
<1>8. ValuesInv'
  BY <1>1, SameParts DEF ValuesInv, ResolutionInv
<1>9. RefusedInv'
  BY <1>1 DEF RefusedInv
<1>10. QED
  BY <1>1, <1>6, <1>7, <1>8, <1>9, SameParts DEF ResolutionInv

\* A step that changes the phase only, or the names left.
LEMMA PhaseStep ==
  ASSUME ResolutionInv, UNCHANGED <<template, parameters, variables, values>>, phase' # phase,
         \/ phase = "parameters" /\ phase' = "variables" /\ left = {} /\ left' = DOMAIN template.variables
         \/ phase = "variables" /\ phase' = "resources" /\ left = {}
         \/ phase = "resources" /\ phase' = "resolved" /\ Len(values) = Len(template.uses)
         \/ phase' = "refused" /\ (Incomplete \/ \E v \in DOMAIN template.variables : Refers("variables", template.variables[v]) # {})
  PROVE  ResolutionInv'
<1>1. ParametersInv'
  BY SameParts DEF ParametersInv, ResolutionInv
<1>2. VariablesInv'
  <2>1. /\ DOMAIN variables' \subseteq DOMAIN template'.variables
        /\ \A n \in Nat : n >= Cardinality(DOMAIN variables') => Resolved(variables, n)'
    BY SameParts
  <2>2. phase' = "variables" =>
          DOMAIN template'.variables = left' \union DOMAIN variables' /\ left' \intersect DOMAIN variables' = {}
    BY DEF ParametersInv, ResolutionInv
  <2>3. phase' = "resources" => DOMAIN variables' = DOMAIN template'.variables
    BY DEF VariablesInv, ResolutionInv
  <2>4. QED
    BY <2>1, <2>2, <2>3 DEF VariablesInv
<1>3. ValuesInv'
  BY SameParts DEF ValuesInv, ResolutionInv
<1>4. RefusedInv'
  BY SameTemplate DEF RefusedInv, Refers
<1>5. QED
  BY <1>1, <1>2, <1>3, <1>4, SameParts DEF ResolutionInv

LEMMA VariableStep == ASSUME ResolutionInv, NEW v, ResolveVariable(v) PROVE ResolutionInv'
<1>1. UNCHANGED <<template, phase, parameters, values>> /\ phase = "variables" /\ v \in left /\ left' = left \ {v}
      /\ \A i \in DOMAIN template.variables[v] : Evaluates(template.variables[v][i])
      /\ variables' = Set(variables, v, ResolveValue(template.variables[v]))
  BY DEF ResolveVariable
<1>2. DOMAIN variables' = DOMAIN variables \union {v} /\ variables'[v] = ResolveValue(template.variables[v])
      /\ \A w \in DOMAIN variables : w # v => variables'[w] = variables[w]
  <2>1. PICK y : y = ResolveValue(template.variables[v])
    OBVIOUS
  <2>2. variables' = [w \in DOMAIN variables \union {v} |-> IF w = v THEN y ELSE variables[w]]
    <3>1. variables' = Set(variables, v, ResolveValue(template.variables[v]))
      BY DEF ResolveVariable
    <3>2. variables' = Set(variables, v, y)
      BY <2>1, <3>1, Zenon
    <3>3. QED
      BY <3>2 DEF Set
  <2>3. QED
    BY <2>1, <2>2
<1>3. /\ DOMAIN variables \subseteq DOMAIN template.variables /\ DOMAIN template.variables = left \union DOMAIN variables
      /\ v \notin DOMAIN variables /\ left \intersect DOMAIN variables = {}
      /\ \A n \in Nat : n >= Cardinality(DOMAIN variables) => Resolved(variables, n)
      /\ \A p \in DOMAIN parameters : parameters[p] = Supplied(p)
      /\ v \in VariableNames /\ template.variables[v] \in Seq(Leaf) /\ Formed
  BY <1>1 DEF ResolutionInv, ParametersInv, VariablesInv, Formed
<1>4. /\ Cardinality(DOMAIN variables) \in Nat /\ IsFiniteSet(DOMAIN variables)
  BY <1>3, Counts
<1>5. ASSUME NEW n \in Nat, n >= Cardinality(DOMAIN variables)
      PROVE  ResolveValue(template.variables[v]) = Meaning[n + 1][[kind |-> "variables", of |-> v]]
  <2>1. PICK raw, leaf : raw = template.variables[v] /\ leaf = [kind |-> "variables", of |-> v]
    OBVIOUS
  <2>2. leaf \in Leaf /\ leaf.kind = "variables" /\ leaf.of = v
    BY <1>3, <2>1 DEF Leaf
  <2>3. n + 1 \in Nat /\ n + 1 > 0 /\ (n + 1) - 1 = n
    OBVIOUS
  <2>4. Meaning[n + 1][leaf] = FlattenSeq([i \in DOMAIN raw |-> Meaning[n][raw[i]]])
    BY <2>1, <2>2, <2>3, MeaningOf
  <2>5. \A i \in DOMAIN raw : EvalExpression(raw[i]) = Meaning[n][raw[i]]
    <3> TAKE i \in DOMAIN raw
    <3>1. raw[i] \in Leaf /\ Evaluates(raw[i]) /\ Resolved(variables, n)
      BY <1>1, <1>3, <1>5, <2>1
    <3>2. QED
      BY <1>3, <3>1, Evaluated
  <2>6. [i \in DOMAIN raw |-> EvalExpression(raw[i])] = [i \in DOMAIN raw |-> Meaning[n][raw[i]]]
    BY <2>5
  <2>7. ResolveValue(raw) = Meaning[n + 1][leaf]
    BY <2>4, <2>6 DEF ResolveValue
  <2>8. QED
    BY <2>1, <2>7
<1>6. Cardinality(DOMAIN variables') = Cardinality(DOMAIN variables) + 1
  BY <1>2, <1>3, <1>4, FS_AddElement
<1>7. ASSUME NEW n \in Nat, n >= Cardinality(DOMAIN variables') PROVE Resolved(variables, n)'
  <2>1. n - 1 \in Nat /\ n - 1 >= Cardinality(DOMAIN variables) /\ (n - 1) + 1 = n /\ n >= Cardinality(DOMAIN variables)
    BY <1>4, <1>6, <1>7
  <2>2. variables'[v] = Meaning[n][[kind |-> "variables", of |-> v]]
    BY <1>2, <1>5, <2>1
  <2>3. \A w \in DOMAIN variables : variables'[w] = Meaning[n][[kind |-> "variables", of |-> w]]
    BY <1>2, <1>3, <2>1 DEF Resolved
  <2>4. \A w \in DOMAIN variables' : variables'[w] = Meaning'[n][[kind |-> "variables", of |-> w]]
    BY <1>1, <1>2, <2>2, <2>3, SameTemplate
  <2>5. QED
    BY <2>4 DEF Resolved
<1>8. VariablesInv'
  BY <1>1, <1>2, <1>3, <1>7 DEF VariablesInv
<1>9. ParametersInv'
  BY <1>1, SameParts DEF ParametersInv, ResolutionInv
<1>10. ValuesInv'
  BY <1>1, SameParts DEF ValuesInv, ResolutionInv
<1>11. RefusedInv'
  BY <1>1 DEF RefusedInv
<1>12. QED
  BY <1>1, <1>8, <1>9, <1>10, <1>11, SameParts DEF ResolutionInv

\* What a leaf lacks that does not evaluate, when the parameters are resolved.
LEMMA Lacking ==
  ASSUME ResolutionInv, phase \in {"variables", "resources"}, NEW raw,
         raw \in {template.uses} \union {template.variables[v] : v \in DOMAIN template.variables},
         NEW i \in DOMAIN raw, ~Evaluates(raw[i])
  PROVE  \/ Incomplete
         \/ raw[i].kind = "variables" /\ raw[i].of \notin DOMAIN variables
<1>1. CASE raw[i].kind = "parameters" /\ raw[i].of \notin DOMAIN parameters
  <2>1. raw[i].of \in Refers("parameters", raw)
    BY <1>1 DEF Refers
  <2>2. raw[i].of \in ReferredTo("parameters")
    BY <2>1 DEF ReferredTo
  <2>3. raw[i].of \notin DOMAIN template.declared
    BY <1>1 DEF ResolutionInv, ParametersInv
  <2>4. QED
    BY <2>2, <2>3 DEF Incomplete
<1>2. QED
  BY <1>1 DEF Evaluates

LEMMA MissStep ==
  ASSUME ResolutionInv, NEW x, MissParameter(x) \/ MissVariable(x)
  PROVE  ResolutionInv'
<1>1. UNCHANGED <<template, parameters, variables, values>> /\ phase' = "refused" /\ phase \in {"parameters", "variables"}
  BY DEF MissParameter, MissVariable, Refuse
<1>2. CASE MissParameter(x)
  <2>1. x \in DOMAIN template.declared /\ template.declared[x] = <<>> /\ x \notin DOMAIN template.supplied
    BY <1>2 DEF MissParameter, ResolutionInv, ParametersInv
  <2>2. Incomplete
    BY <2>1 DEF Incomplete
  <2>3. QED
    BY <1>1, <2>2, PhaseStep
<1>3. CASE MissVariable(x)
  <2>1. PICK i \in DOMAIN template.variables[x] : ~Evaluates(template.variables[x][i])
    BY <1>3 DEF MissVariable
  <2>2. x \in DOMAIN template.variables /\ phase = "variables"
    BY <1>3 DEF MissVariable, ResolutionInv, VariablesInv
  <2>3. Incomplete \/ template.variables[x][i].kind = "variables"
    BY <2>1, <2>2, Lacking
  <2>4. template.variables[x][i].kind = "variables" => Refers("variables", template.variables[x]) # {}
    BY <2>1 DEF Refers
  <2>5. QED
    BY <1>1, <2>2, <2>3, <2>4, PhaseStep
<1>4. QED
  BY <1>2, <1>3

LEMMA ResourceStep == ASSUME ResolutionInv, ResolveResource PROVE ResolutionInv'
<1>1. phase = "resources" /\ Len(values) < Len(template.uses)
  BY DEF ResolveResource
<1>2. PICK leaf, k : leaf = template.uses[k] /\ k = Len(values) + 1
  OBVIOUS
<1>3. values \in Seq(Outcomes) /\ Len(values) \in Nat /\ template.uses \in Seq(Leaf) /\ Len(template.uses) \in Nat
  BY DEF ResolutionInv, ValuesInv, Formed
<1>4. k \in 1..Len(template.uses) /\ DOMAIN template.uses = 1..Len(template.uses) /\ leaf \in Leaf
  BY <1>1, <1>2, <1>3
<1>5. \/ /\ Evaluates(leaf) /\ values' = Append(values, EvalExpression(leaf))
         /\ UNCHANGED <<template, phase, left, parameters, variables>>
      \/ ~Evaluates(leaf) /\ Refuse
  BY <1>2 DEF ResolveResource
<1>6. CASE Evaluates(leaf) /\ values' = Append(values, EvalExpression(leaf))
           /\ UNCHANGED <<template, phase, left, parameters, variables>>
  <2>1. Depth \in Nat /\ Resolved(variables, Depth) /\ \A p \in DOMAIN parameters : parameters[p] = Supplied(p)
    BY Counts DEF ResolutionInv, VariablesInv, ParametersInv
  <2>2. PICK e : e = Meaning[Depth][leaf]
    OBVIOUS
  <2>3. EvalExpression(leaf) = e
    BY <1>4, <1>6, <2>1, <2>2, Evaluated
  <2>4. e \in Outcomes /\ values' = Append(values, e)
    BY <1>4, <1>6, <2>2, <2>3 DEF Outcomes
  <2>5. /\ values' \in Seq(Outcomes) /\ Len(values') = k /\ values'[k] = e
        /\ \A i \in 1..Len(values) : values'[i] = values[i]
    BY <1>2, <1>3, <2>4
  <2>6. \A i \in 1..Len(values') : values'[i] = Meaning[Depth][template.uses[i]]
    <3> TAKE i \in 1..Len(values')
    <3>1. CASE i = k
      BY <1>2, <2>2, <2>5, <3>1
    <3>2. CASE i # k
      <4>1. i \in 1..Len(values)
        BY <1>2, <1>3, <2>5, <3>2
      <4>2. QED
        BY <2>5, <4>1 DEF ResolutionInv, ValuesInv
    <3>3. QED
      BY <3>1, <3>2
  <2>7. ValuesInv'
    BY <1>1, <1>4, <1>6, <2>5, <2>6, SameTemplate DEF ValuesInv
  <2>8. ParametersInv' /\ VariablesInv'
    BY <1>1, <1>6, SameParts DEF ParametersInv, VariablesInv, ResolutionInv
  <2>9. QED
    BY <1>1, <1>6, <2>7, <2>8, SameParts DEF ResolutionInv, RefusedInv
<1>7. CASE ~Evaluates(leaf) /\ Refuse
  <2>1. Incomplete \/ (leaf.kind = "variables" /\ leaf.of \notin DOMAIN variables)
    BY <1>1, <1>2, <1>4, <1>7, Lacking
  <2>2. leaf.kind = "variables" => leaf.of \in ReferredTo("variables")
    <3>1. leaf.kind = "variables" => leaf.of \in Refers("variables", template.uses)
      BY <1>2, <1>4 DEF Refers
    <3>2. QED
      BY <3>1 DEF ReferredTo
  <2>3. DOMAIN variables = DOMAIN template.variables
    BY <1>1 DEF ResolutionInv, VariablesInv
  <2>4. Incomplete
    BY <2>1, <2>2, <2>3 DEF Incomplete
  <2>5. QED
    BY <1>1, <1>7, <2>4, PhaseStep DEF Refuse
<1>8. QED
  BY <1>5, <1>6, <1>7

LEMMA ResolutionStep == ASSUME ResolutionInv, ResolutionNext PROVE ResolutionInv'
<1>1. CASE \E p \in ParameterNames : ResolveParameter(p) \/ MissParameter(p)
  BY <1>1, ParameterStep, MissStep
<1>2. CASE \E v \in VariableNames : ResolveVariable(v) \/ MissVariable(v)
  BY <1>2, VariableStep, MissStep
<1>3. CASE ParametersResolved \/ VariablesResolved \/ ResourcesResolved
  BY <1>3, PhaseStep DEF ParametersResolved, VariablesResolved, ResourcesResolved
<1>4. CASE ResolveResource
  BY <1>4, ResourceStep
<1>5. QED
  BY <1>1, <1>2, <1>3, <1>4 DEF ResolutionNext

LEMMA ResolutionStutter == ASSUME ResolutionInv, UNCHANGED resolution PROVE ResolutionInv'
<1>1. UNCHANGED <<template, phase, left, parameters, variables, values>>
  BY DEF resolution
<1>2. ParametersInv' /\ VariablesInv'
  BY <1>1, SameParts DEF ParametersInv, VariablesInv, ResolutionInv
<1>3. ValuesInv'
  BY <1>1, SameParts DEF ValuesInv, ResolutionInv
<1>4. RefusedInv'
  BY <1>1, SameTemplate DEF RefusedInv, ResolutionInv, Refers
<1>5. QED
  BY <1>2, <1>3, <1>4, <1>1, SameParts DEF ResolutionInv

LEMMA ResolutionBegins == ASSUME ResolutionInit PROVE ResolutionInv
<1>1. /\ template \in Templates /\ phase = "parameters" /\ left = DOMAIN template.declared
      /\ parameters = << >> /\ variables = << >> /\ values = <<>>
  BY DEF ResolutionInit
<1>2. Formed
  BY <1>1, TemplatesAssumption DEF Formed
<1>3. ParametersInv /\ VariablesInv /\ RefusedInv
  BY <1>1 DEF ParametersInv, VariablesInv, RefusedInv, Resolved
<1>4. ValuesInv
  BY <1>1, <1>2 DEF ValuesInv, Formed
<1>5. QED
  BY <1>2, <1>3, <1>4 DEF ResolutionInv

LEMMA ResolutionIsAsMeant == ASSUME ResolutionInv PROVE ResolutionIsRight
<1>1. ASSUME phase = "resolved"
      PROVE values = [i \in DOMAIN template.uses |-> Meaning[Cardinality(VariableNames)][template.uses[i]]]
  <2>1. PICK u, n : u = template.uses /\ n = Len(u)
    OBVIOUS
  <2>2. u \in Seq(Leaf) /\ DOMAIN u = 1..n
    BY <2>1 DEF ResolutionInv, Formed
  <2>3. values \in Seq(Outcomes) /\ Len(values) = n /\ \A i \in 1..n : values[i] = Meaning[Depth][u[i]]
    BY <1>1, <2>1 DEF ResolutionInv, ValuesInv
  <2>4. values = [i \in 1..n |-> Meaning[Depth][u[i]]]
    BY <2>3
  <2>5. QED
    BY <2>1, <2>2, <2>4 DEF Depth
<1>2. QED
  BY <1>1 DEF ResolutionIsRight, ResolutionInv, RefusedInv

-----------------------------------------------------------------------------

\* A template with nothing to evaluate is resolved.
LEMMA NothingToResolve == ResolutionIdle => ResolutionInv
<1> SUFFICES ASSUME ResolutionIdle PROVE ResolutionInv
  OBVIOUS
<1>1. /\ DOMAIN template.declared = {} /\ DOMAIN template.variables = {} /\ template.uses = <<>>
      /\ phase = "resolved" /\ left = {} /\ DOMAIN parameters = {} /\ DOMAIN variables = {} /\ values = <<>>
  BY DEF ResolutionIdle, Plain
<1>2. Formed
  BY <1>1 DEF Formed
<1>3. ParametersInv /\ VariablesInv /\ RefusedInv
  BY <1>1 DEF ParametersInv, VariablesInv, RefusedInv, Resolved
<1>4. ValuesInv
  BY <1>1 DEF ValuesInv
<1>5. QED
  BY <1>2, <1>3, <1>4 DEF ResolutionInv

\* Every variable keeps the type the code gives it.
THEOREM TypeCorrect == Spec \/ AllSpec => []TypeOK
<1>1. OrderInv => TypeOK
  BY DEF OrderInv
<1>2. QED
  BY <1>1, OrderInvariant, PTL

\* Whatever is ordered comes after every resource it depends on, for every
\* template: dispatchResources never deploys a resource before another that
\* its dependsOn names.
THEOREM OrderIsTopological == Spec \/ AllSpec => []DependenciesFirst
<1>1. OrderInv => DependenciesFirst
  <2> SUFFICES ASSUME OrderInv PROVE DependenciesFirst
    OBVIOUS
  <2>1. \A k \in 1..Len(order) : order[k] \in Index
    BY ElementOfSeq DEF OrderInv, TypeOK
  <2>2. QED
    BY <2>1, SameDeps DEF OrderInv, BlackInv, DependenciesFirst
<1>2. QED
  BY <1>1, OrderInvariant, PTL

\* No resource is ordered twice, and none is left out when the search
\* succeeds: a deployment dispatches each resource of its template once.
THEOREM OrderIsComplete == Spec \/ AllSpec => []EachOnce
<1>1. OrderInv => EachOnce
  <2> SUFFICES ASSUME OrderInv PROVE EachOnce
    OBVIOUS
  <2>1. \A k, m \in 1..Len(order) : order[k] = order[m] => k = m
    BY DEF OrderInv, ColorInv, Distinct
  <2>2. ASSUME verdict = "ordered", NEW i \in Index PROVE \E k \in 1..Len(order) : order[k] = i
    BY <2>2 DEF OrderInv, ColorInv, VerdictInv, On
  <2>3. QED
    BY <2>1, <2>2 DEF EachOnce
<1>2. QED
  BY <1>1, OrderInvariant, PTL

\* The 400 answer for a cycle is given for the templates that have one, and
\* for no other.
THEOREM CyclesAreFound == Spec \/ AllSpec => []VerdictIsRight
<1>1. OrderInv => VerdictIsRight
  <2> SUFFICES ASSUME OrderInv PROVE VerdictIsRight
    OBVIOUS
  <2>1. verdict = "cycle" => Cyclic
    BY SameDeps DEF OrderInv, VerdictInv
  <2>2. ASSUME verdict = "ordered", Cyclic PROVE FALSE
    <3>1. PICK cycle \in (SUBSET Index) \ {{}} :
             \A i \in cycle : \E j \in cycle : j \in DepsOf(resources, i)
      BY <2>2, SameDeps DEF CyclicOf, Index
    <3>2. \A i \in cycle : color[i] = "black"
      BY <2>2 DEF OrderInv, VerdictInv
    <3>3. QED
      BY <3>1, <3>2 DEF OrderInv, NoBlackCycle
  <2>3. QED
    BY <2>1, <2>2 DEF VerdictIsRight
<1>2. QED
  BY <1>1, OrderInvariant, PTL

\* Every namespace of a template is listed once, and each of its types once
\* when the resources of a namespace follow one another, wherever append has
\* moved the slice that buildProviders points into.
THEOREM TypesAreListed == AllSpec => []TypesListed
<1>1. AllInit => ListingInv
  BY ListingBegins
<1>2. OrderInv /\ ListingInv /\ [AllNext]_allVars => ListingInv'
  BY ListingStep
<1>3. ListingInv => TypesListed
  BY ListingIsRight
<1>4. QED
  BY <1>1, <1>2, <1>3, OrderInvariant, PTL DEF AllSpec, AllNext

\* An id is read only in its own task.
IdsTask == IF task = "id" THEN IdsInv ELSE parsing = "before"

\* The parser reads back the id of a resource as it was built, however a
\* client spells the path, and refuses exactly the ids of three types.
THEOREM IdsAreReadBack == AllSpec => []IdsRoundTrip
<1>1. AllInit => IdsTask
  BY IdsBegin DEF AllInit, IdsIdle, IdsTask
<1>2. IdsTask /\ [AllNext]_allVars => IdsTask'
  <2> SUFFICES ASSUME IdsTask, [AllNext]_allVars PROVE IdsTask'
    OBVIOUS
  <2>1. CASE ParseId
    <3>1. task = "id" /\ task' = "id" /\ IdsNext
      BY <2>1 DEF ParseId
    <3>2. IdsInv
      BY <3>1 DEF IdsTask
    <3>3. QED
      BY <3>1, <3>2, IdsStep DEF IdsTask
  <2>2. CASE ~ParseId
    <3>1. UNCHANGED ids /\ task' = task
      BY <2>2 DEF AllNext, allVars, Resolve, Order, BuildProviders, Recur
    <3>2. parsing' = parsing
      BY <3>1 DEF ids
    <3>3. task = "id" => IdsInv'
      BY <3>1, IdsStutter DEF IdsTask
    <3>4. QED
      BY <3>1, <3>2, <3>3 DEF IdsTask
  <2>3. QED
    BY <2>1, <2>2
<1>3. IdsTask => IdsRoundTrip
  <2>1. parsing = "before" => IdsRoundTrip
    BY DEF IdsRoundTrip
  <2>2. QED
    BY <2>1, IdsAreRight DEF IdsTask
<1>4. QED
  BY <1>1, <1>2, <1>3, PTL DEF AllSpec, AllNext

\* Unless the arithmetic of time.Duration overflows or a month lacks the
\* anchor's day, Next answers the first time of the recurrence after now.
THEOREM FiresWhenDue == AllSpec => []NextIsTheFollowing
<1>1. AllInit => FiringInv
  <2>1. FiringIdle => FiringInv
    BY RecurrencesAssumption DEF FiringIdle, FiringInv
  <2>2. QED
    BY <2>1, FiringBegins DEF AllInit
<1>2. FiringInv /\ [AllNext]_allVars => FiringInv'
  <2> SUFFICES ASSUME FiringInv, [AllNext]_allVars PROVE FiringInv'
    OBVIOUS
  <2>1. FiringNext \/ UNCHANGED firing
    BY DEF AllNext, allVars, Resolve, Order, BuildProviders, ParseId, Recur
  <2>2. QED
    BY <2>1, FiringStep, FiringStutter
<1>3. FiringInv => NextIsTheFollowing
  BY FiringIsRight
<1>4. QED
  BY <1>1, <1>2, <1>3, PTL DEF AllSpec, AllNext

\* Whatever the order in which Go walks the parameters and the variables, a
\* template that is resolved has given its resources what it means, to
\* whatever depth its variables refer to one another, and a complete one is
\* refused only when a variable refers to a variable.
THEOREM TemplatesAreResolved == AllSpec => []ResolutionIsRight
<1>1. AllInit => ResolutionInv
  BY ResolutionBegins, NothingToResolve DEF AllInit
<1>2. ResolutionInv /\ [AllNext]_allVars => ResolutionInv'
  <2> SUFFICES ASSUME ResolutionInv, [AllNext]_allVars PROVE ResolutionInv'
    OBVIOUS
  <2>1. ResolutionNext \/ UNCHANGED resolution
    BY DEF AllNext, allVars, Resolve, Order, BuildProviders, ParseId, Recur
  <2>2. QED
    BY <2>1, ResolutionStep, ResolutionStutter
<1>3. ResolutionInv => ResolutionIsRight
  BY ResolutionIsAsMeant
<1>4. QED
  BY <1>1, <1>2, <1>3, PTL DEF AllSpec, AllNext
===========================================================================
