-------------------------- MODULE ArmStore_proofs ---------------------------
(***************************************************************************)
(* Facts about the operators of ArmStore, which the proofs about the       *)
(* services cite.                                                          *)
(***************************************************************************)
EXTENDS ArmStore, FiniteSetTheorems, SequenceTheorems, TLAPS

\* What one write does to the database.
LEMMA AppliedPut ==
  ASSUME NEW e, e.do = "put"
  PROVE  /\ DOMAIN Applied(e) = DOMAIN docs \union {e.key}
         /\ Applied(e)[e.key] = e.doc
         /\ \A k \in DOMAIN docs : k # e.key => Applied(e)[k] = docs[k]
BY DEF Applied

LEMMA AppliedDelete ==
  ASSUME NEW e, e.do = "delete"
  PROVE  /\ DOMAIN Applied(e) = DOMAIN docs \ {e.key}
         /\ \A k \in DOMAIN Applied(e) : Applied(e)[k] = docs[k]
BY DEF Applied

LEMMA AppliedSweep ==
  ASSUME NEW e, e.do \notin {"put", "delete"}
  PROVE  Applied(e) = docs
BY DEF Applied

\* A function on a finite set takes finitely many values.
LEMMA FiniteValues ==
  ASSUME NEW S, IsFiniteSet(S), NEW f, f = [x \in S |-> f[x]]
  PROVE  IsFiniteSet({f[x] : x \in S})
<1>1. f \in Surjection(S, {f[x] : x \in S})
  BY DEF Surjection
<1>2. QED
  BY <1>1, FS_Surjection

\* A finite set written as a sequence has each of its elements once.
LEMMA SetToSeqIsEnumeration ==
  ASSUME NEW S, IsFiniteSet(S)
  PROVE  /\ Cardinality(S) \in Nat
         /\ SetToSeq(S) \in Seq(S)
         /\ Len(SetToSeq(S)) = Cardinality(S)
         /\ DOMAIN SetToSeq(S) = 1..Cardinality(S)
         /\ \A i, j \in 1..Cardinality(S) : SetToSeq(S)[i] = SetToSeq(S)[j] => i = j
         /\ \A x \in S : \E i \in 1..Cardinality(S) : SetToSeq(S)[i] = x
<1>1. Cardinality(S) \in Nat /\ \E f : f \in Bijection(1..Cardinality(S), S)
  BY FS_CardinalityType DEF ExistsBijection
<1>2. \E f \in [1..Cardinality(S) -> S] : IsInjective(f)
  BY <1>1 DEF Bijection, Injection
<1>3. SetToSeq(S) \in [1..Cardinality(S) -> S] /\ IsInjective(SetToSeq(S))
  BY <1>2 DEF SetToSeq
<1>4. Cardinality(1..Cardinality(S)) = Cardinality(S)
  BY <1>1, FS_Interval
<1>5. SetToSeq(S) \in Surjection(1..Cardinality(S), S)
  BY <1>3, <1>4, FS_Injection DEF Injection
<1>6. \A x \in S : \E i \in 1..Cardinality(S) : SetToSeq(S)[i] = x
  BY <1>5 DEF Surjection
<1>7. \A i, j \in 1..Cardinality(S) : SetToSeq(S)[i] = SetToSeq(S)[j] => i = j
  BY <1>3 DEF IsInjective
<1> HIDE DEF SetToSeq
<1>8. QED
  BY <1>1, <1>3, <1>6, <1>7

-----------------------------------------------------------------------------
(* Keys *)

\* A name put before others.
LEMMA Prepended ==
  ASSUME NEW a, NEW S, NEW t \in Seq(S)
  PROVE  /\ <<a>> \o t \in Seq(S \union {a})
         /\ Len(<<a>> \o t) = Len(t) + 1
         /\ (<<a>> \o t)[1] = a
         /\ \A i \in 1..Len(t) : (<<a>> \o t)[i + 1] = t[i]
<1> DEFINE s == <<a>>
<1>1. s \in Seq(S \union {a}) /\ t \in Seq(S \union {a}) /\ Len(s) = 1 /\ s[1] = a /\ Len(t) \in Nat
  OBVIOUS
<1> HIDE DEF s
<1>2. /\ s \o t \in Seq(S \union {a}) /\ Len(s \o t) = 1 + Len(t)
      /\ \A i \in 1..1 + Len(t) : (s \o t)[i] = IF i <= 1 THEN s[i] ELSE t[i - 1]
  <2>1. /\ s \o t \in Seq(S \union {a}) /\ Len(s \o t) = Len(s) + Len(t)
        /\ \A i \in 1..Len(s) + Len(t) : (s \o t)[i] = IF i <= Len(s) THEN s[i] ELSE t[i - Len(s)]
    BY <1>1, ConcatProperties, Zenon
  <2>2. QED
    BY <1>1, <2>1
<1>3. (s \o t)[1] = a
  BY <1>1, <1>2
<1>4. \A i \in 1..Len(t) : (s \o t)[i + 1] = t[i]
  BY <1>1, <1>2
<1>5. QED
  BY <1>1, <1>2, <1>3, <1>4 DEF s

\* The keys of two names, and of three, in a bucket.
LEMMA PrependedPair == \A a, b, c : <<a>> \o <<b, c>> = <<a, b, c>>
<1> TAKE a, b, c
<1>1. PICK t : t = <<b, c>>
  OBVIOUS
<1>2. t \in Seq({b, c}) /\ Len(t) = 2 /\ t[1] = b /\ t[2] = c
  BY <1>1
<1>3. /\ <<a>> \o t \in Seq({b, c} \union {a}) /\ Len(<<a>> \o t) = Len(t) + 1 /\ (<<a>> \o t)[1] = a
      /\ \A i \in 1..Len(t) : (<<a>> \o t)[i + 1] = t[i]
  <2>1. PICK S : S = {b, c}
    OBVIOUS
  <2>2. t \in Seq(S)
    BY <1>2, <2>1
  <2>3. /\ <<a>> \o t \in Seq(S \union {a}) /\ Len(<<a>> \o t) = Len(t) + 1 /\ (<<a>> \o t)[1] = a
        /\ \A i \in 1..Len(t) : (<<a>> \o t)[i + 1] = t[i]
    BY <2>2, Prepended
  <2>4. QED
    BY <2>1, <2>3
<1>4. (<<a>> \o t)[1 + 1] = b /\ (<<a>> \o t)[2 + 1] = c
  BY <1>2, <1>3
<1>5. PICK s : s = <<a>> \o t
  OBVIOUS
<1>6. s \in Seq({b, c} \union {a}) /\ Len(s) = 3 /\ s[1] = a /\ s[2] = b /\ s[3] = c
  BY <1>2, <1>3, <1>4, <1>5
<1>7. s = <<a, b, c>>
  BY <1>6
<1>8. QED
  BY <1>1, <1>5, <1>7

LEMMA PrependedTriple == \A a, b, c, d : <<a>> \o <<b, c, d>> = <<a, b, c, d>>
<1> TAKE a, b, c, d
<1>1. PICK t : t = <<b, c, d>>
  OBVIOUS
<1>2. t \in Seq({b, c, d}) /\ Len(t) = 3 /\ t[1] = b /\ t[2] = c /\ t[3] = d
  BY <1>1
<1>3. /\ <<a>> \o t \in Seq({b, c, d} \union {a}) /\ Len(<<a>> \o t) = Len(t) + 1 /\ (<<a>> \o t)[1] = a
      /\ \A i \in 1..Len(t) : (<<a>> \o t)[i + 1] = t[i]
  <2>1. PICK S : S = {b, c, d}
    OBVIOUS
  <2>2. t \in Seq(S)
    BY <1>2, <2>1
  <2>3. /\ <<a>> \o t \in Seq(S \union {a}) /\ Len(<<a>> \o t) = Len(t) + 1 /\ (<<a>> \o t)[1] = a
        /\ \A i \in 1..Len(t) : (<<a>> \o t)[i + 1] = t[i]
    BY <2>2, Prepended
  <2>4. QED
    BY <2>1, <2>3
<1>4. (<<a>> \o t)[1 + 1] = b /\ (<<a>> \o t)[2 + 1] = c /\ (<<a>> \o t)[3 + 1] = d
  BY <1>2, <1>3
<1>5. PICK s : s = <<a>> \o t
  OBVIOUS
<1>6. s \in Seq({b, c, d} \union {a}) /\ Len(s) = 4 /\ s[1] = a /\ s[2] = b /\ s[3] = c /\ s[4] = d
  BY <1>2, <1>3, <1>4, <1>5
<1>7. s = <<a, b, c, d>>
  BY <1>6
<1>8. QED
  BY <1>1, <1>5, <1>7

LEMMA PrependedQuadruple == \A a, b, c, d, e : <<a>> \o <<b, c, d, e>> = <<a, b, c, d, e>>
<1> TAKE a, b, c, d, e
<1>1. PICK t : t = <<b, c, d, e>>
  OBVIOUS
<1>2. t \in Seq({b, c, d, e}) /\ Len(t) = 4 /\ t[1] = b /\ t[2] = c /\ t[3] = d /\ t[4] = e
  BY <1>1
<1>3. /\ <<a>> \o t \in Seq({b, c, d, e} \union {a}) /\ Len(<<a>> \o t) = Len(t) + 1 /\ (<<a>> \o t)[1] = a
      /\ \A i \in 1..Len(t) : (<<a>> \o t)[i + 1] = t[i]
  <2>1. PICK S : S = {b, c, d, e}
    OBVIOUS
  <2>2. t \in Seq(S)
    BY <1>2, <2>1
  <2>3. /\ <<a>> \o t \in Seq(S \union {a}) /\ Len(<<a>> \o t) = Len(t) + 1 /\ (<<a>> \o t)[1] = a
        /\ \A i \in 1..Len(t) : (<<a>> \o t)[i + 1] = t[i]
    BY <2>2, Prepended
  <2>4. QED
    BY <2>1, <2>3
<1>4. (<<a>> \o t)[1 + 1] = b /\ (<<a>> \o t)[2 + 1] = c /\ (<<a>> \o t)[3 + 1] = d /\ (<<a>> \o t)[4 + 1] = e
  BY <1>2, <1>3
<1>5. PICK s : s = <<a>> \o t
  OBVIOUS
<1>6. s \in Seq({b, c, d, e} \union {a}) /\ Len(s) = 5 /\ s[1] = a /\ s[2] = b /\ s[3] = c /\ s[4] = d /\ s[5] = e
  BY <1>2, <1>3, <1>4, <1>5
<1>7. s = <<a, b, c, d, e>>
  BY <1>6
<1>8. QED
  BY <1>1, <1>5, <1>7

\* A name put after others, and taken off.
LEMMA Appended ==
  ASSUME NEW S, NEW s \in Seq(S), NEW n
  PROVE  /\ Append(s, n) \in Seq(S \union {n})
         /\ Len(Append(s, n)) = Len(s) + 1
         /\ \A j \in 1..Len(s) : Append(s, n)[j] = s[j]
         /\ Append(s, n)[Len(s) + 1] = n
         /\ Last(Append(s, n)) = n
         /\ Front(Append(s, n)) = s
<1>1. s \in Seq(S \union {n}) /\ Len(s) \in Nat
  BY SeqMonotonic
<1>2. PICK t : t = Append(s, n)
  OBVIOUS
<1>3. t \in Seq(S \union {n}) /\ Len(t) = Len(s) + 1 /\ \A j \in 1..Len(s) : t[j] = s[j]
  BY <1>1, <1>2, AppendProperties
<1>4. t[Len(s) + 1] = n
  BY <1>1, <1>2, AppendProperties
<1>5. Len(t) - 1 = Len(s) /\ 1 \in 1..Len(s) + 1
  BY <1>1, <1>3
<1>6. SubSeq(t, 1, Len(t) - 1) = s
  <2>1. /\ SubSeq(t, 1, Len(t) - 1) \in Seq(S \union {n})
        /\ Len(SubSeq(t, 1, Len(t) - 1)) = Len(s)
        /\ \A j \in 1..Len(s) : SubSeq(t, 1, Len(t) - 1)[j] = s[j]
    BY <1>1, <1>3, <1>5, SubSeqProperties
  <2>2. QED
    BY <1>1, <2>1, SeqEqual
<1>7. QED
  BY <1>1, <1>2, <1>3, <1>4, <1>5, <1>6 DEF Last, Front

\* To be a prefix is to agree name by name.
LEMMA PrefixByNames ==
  ASSUME NEW S, NEW s \in Seq(S), NEW t \in Seq(S)
  PROVE  /\ IsPrefix(s, t) <=> Len(s) <= Len(t) /\ \A j \in 1..Len(s) : t[j] = s[j]
         /\ IsStrictPrefix(s, t) <=> Len(s) < Len(t) /\ \A j \in 1..Len(s) : t[j] = s[j]
<1>1. Len(s) \in Nat /\ Len(t) \in Nat
  OBVIOUS
<1>2. ASSUME NEW r \in Seq(S), Len(s) <= Len(r)
      PROVE  /\ SubSeq(r, 1, Len(s)) \in Seq(S) /\ Len(SubSeq(r, 1, Len(s))) = Len(s)
             /\ \A j \in 1..Len(s) : SubSeq(r, 1, Len(s))[j] = r[j]
  <2>1. PICK n \in Nat : n = Len(s)
    BY <1>1
  <2>2. CASE n = 0
    <3>1. SubSeq(r, 1, n) = <<>>
      BY <2>2, SubSeqEmpty
    <3>2. QED
      BY <2>1, <2>2, <3>1
  <2>3. CASE n > 0
    <3>1. /\ SubSeq(r, 1, n) \in Seq(S) /\ Len(SubSeq(r, 1, n)) = n - 1 + 1
          /\ \A j \in 1..n - 1 + 1 : SubSeq(r, 1, n)[j] = r[1 + j - 1]
      BY <1>2, <2>1, <2>3, SubSeqProperties
    <3>2. QED
      BY <2>1, <3>1
  <2>4. QED
    BY <2>1, <2>2, <2>3
<1>3. Len(s) <= Len(t) => (SubSeq(s, 1, Len(s)) = SubSeq(t, 1, Len(s)) <=> \A j \in 1..Len(s) : t[j] = s[j])
  <2>1. SUFFICES ASSUME Len(s) <= Len(t)
                 PROVE  SubSeq(s, 1, Len(s)) = SubSeq(t, 1, Len(s)) <=> \A j \in 1..Len(s) : t[j] = s[j]
    OBVIOUS
  <2>2. /\ SubSeq(s, 1, Len(s)) \in Seq(S) /\ Len(SubSeq(s, 1, Len(s))) = Len(s)
        /\ \A j \in 1..Len(s) : SubSeq(s, 1, Len(s))[j] = s[j]
    BY <1>1, <1>2
  <2>3. /\ SubSeq(t, 1, Len(s)) \in Seq(S) /\ Len(SubSeq(t, 1, Len(s))) = Len(s)
        /\ \A j \in 1..Len(s) : SubSeq(t, 1, Len(s))[j] = t[j]
    BY <1>2, <2>1
  <2>4. PICK u, v : u = SubSeq(s, 1, Len(s)) /\ v = SubSeq(t, 1, Len(s))
    OBVIOUS
  <2>5. (\A j \in 1..Len(s) : t[j] = s[j]) => u = v
    BY <2>2, <2>3, <2>4, SeqEqual
  <2>6. QED
    BY <2>2, <2>3, <2>4, <2>5
<1>4. IsPrefix(s, t) <=> Len(s) <= Len(t) /\ \A j \in 1..Len(s) : t[j] = s[j]
  BY <1>1, <1>3 DEF IsPrefix
<1>5. Len(s) = Len(t) /\ (\A j \in 1..Len(s) : t[j] = s[j]) => s = t
  BY SeqEqual
<1>6. QED
  BY <1>1, <1>4, <1>5 DEF IsStrictPrefix
-----------------------------------------------------------------------------
(* Lists kept inside a document *)

IsList(l) == \E S : l \in Seq(S)

\* No two entries of one name.
Unique(l) == \A i, j \in DOMAIN l : l[i].name = l[j].name => i = j

Names(l) == {l[i].name : i \in DOMAIN l}

LEMMA ListShape ==
  ASSUME NEW l, IsList(l)
  PROVE  /\ Len(l) \in Nat /\ DOMAIN l = 1..Len(l)
         /\ l \in Seq({l[i] : i \in 1..Len(l)})
BY DEF IsList

LEMMA ListOf ==
  ASSUME NEW n \in Nat, NEW l, l = [i \in 1..n |-> l[i]]
  PROVE  IsList(l) /\ Len(l) = n /\ DOMAIN l = 1..n
<1>1. l \in [1..n -> {l[i] : i \in 1..n}]
  OBVIOUS
<1>2. l \in Seq({l[i] : i \in 1..n}) /\ Len(l) = n
  BY <1>1
<1>3. QED
  BY <1>2 DEF IsList

\* An entry replaced or added: the list has the names it had and that one.
LEMMA UpsertKeeps ==
  ASSUME NEW l, IsList(l), Unique(l), NEW entry
  PROVE  /\ IsList(Upsert(l, entry)) /\ Unique(Upsert(l, entry))
         /\ Names(Upsert(l, entry)) = Names(l) \union {entry.name}
         /\ \A i \in DOMAIN Upsert(l, entry) :
               Upsert(l, entry)[i] = entry \/ \E j \in DOMAIN l : Upsert(l, entry)[i] = l[j]
<1>1. Len(l) \in Nat /\ DOMAIN l = 1..Len(l)
  BY ListShape
<1>2. PICK u : u = Upsert(l, entry)
  OBVIOUS
<1>3. CASE \E i \in DOMAIN l : l[i].name = entry.name
  <2>1. u = [i \in DOMAIN l |-> IF l[i].name = entry.name THEN entry ELSE l[i]]
    BY <1>2, <1>3 DEF Upsert
  <2>2. IsList(u)
    BY <1>1, <2>1, ListOf
  <2>3. DOMAIN u = DOMAIN l /\ \A i \in DOMAIN l : u[i].name = l[i].name /\ (u[i] = entry \/ u[i] = l[i])
    BY <2>1
  <2>4. Unique(u) /\ Names(u) = Names(l) \union {entry.name}
    BY <1>3, <2>3 DEF Unique, Names
  <2>5. QED
    BY <1>2, <2>2, <2>3, <2>4
<1>4. CASE ~\E i \in DOMAIN l : l[i].name = entry.name
  <2>1. u = Append(l, entry)
    BY <1>2, <1>4 DEF Upsert
  <2>2. PICK S : l \in Seq(S)
    BY DEF IsList
  <2>3. /\ u \in Seq(S \union {entry}) /\ Len(u) = Len(l) + 1
        /\ \A i \in 1..Len(l) : u[i] = l[i]
        /\ u[Len(l) + 1] = entry
    BY <2>1, <2>2, Appended
  <2>4. DOMAIN u = 1..Len(l) + 1
    BY <2>3
  <2>5. IsList(u)
    BY <2>3 DEF IsList
  <2>6. \A i \in 1..Len(l) + 1 : i \in 1..Len(l) \/ i = Len(l) + 1
    BY <1>1
  <2>7. Unique(u)
    BY <1>1, <1>4, <2>3, <2>4, <2>6 DEF Unique
  <2>8. Names(u) = Names(l) \union {entry.name}
    BY <1>1, <2>3, <2>4, <2>6 DEF Names
  <2>9. QED
    BY <1>1, <1>2, <2>3, <2>4, <2>5, <2>6, <2>7, <2>8
<1>5. QED
  BY <1>3, <1>4

\* How many of a set of numbers there are up to one of them.
LEMMA RankGrows ==
  ASSUME NEW n \in Nat, NEW K, K \subseteq 1..n, NEW a \in K, NEW b \in K, a < b
  PROVE  Cardinality({h \in K : h <= a}) < Cardinality({h \in K : h <= b})
<1>1. PICK A, B : A = {h \in K : h <= a} /\ B = {h \in K : h <= b}
  OBVIOUS
<1>2. \A h \in K : h \in Nat
  OBVIOUS
<1>3. A \subseteq B
  <2>1. \A h \in K : h <= a => h <= b
    BY <1>2
  <2>2. QED
    BY <1>1, <2>1
<1>4. b \in B /\ b \notin A
  BY <1>1, <1>2
<1>5. IsFiniteSet(B)
  <2>1. IsFiniteSet(1..n)
    BY FS_Interval
  <2>2. B \subseteq 1..n
    BY <1>1
  <2>3. QED
    BY <2>1, <2>2, FS_Subset
<1>6. Cardinality(A) < Cardinality(B)
  <2>1. A \in SUBSET B /\ A # B
    BY <1>3, <1>4
  <2>2. IsFiniteSet(A) /\ Cardinality(A) <= Cardinality(B) /\ Cardinality(B) # Cardinality(A)
    BY <1>5, <2>1, FS_Subset
  <2>3. Cardinality(A) \in Nat /\ Cardinality(B) \in Nat
    BY <1>5, <2>2, FS_CardinalityType
  <2>4. QED
    BY <2>2, <2>3
<1>7. QED
  BY <1>1, <1>6

\* Numbers of a finite set, counted from the lowest.
LEMMA Ranks ==
  ASSUME NEW n \in Nat, NEW K, K \subseteq 1..n
  PROVE  /\ Cardinality(K) \in Nat
         /\ \A j \in 1..Cardinality(K) : \E i \in K : Cardinality({h \in K : h <= i}) = j
         /\ \A i \in K : Cardinality({h \in K : h <= i}) \in 1..Cardinality(K)
<1>1. IsFiniteSet(K) /\ Cardinality(K) \in Nat
  <2>1. IsFiniteSet(1..n)
    BY FS_Interval
  <2>2. QED
    BY <2>1, FS_Subset, FS_CardinalityType
<1>2. PICK r : r = [i \in K |-> Cardinality({h \in K : h <= i})]
  OBVIOUS
<1>3. ASSUME NEW i \in K
      PROVE  IsFiniteSet({h \in K : h <= i}) /\ r[i] \in 1..Cardinality(K) /\ r[i] \in Nat
  <2>1. PICK H : H = {h \in K : h <= i}
    OBVIOUS
  <2>2. IsFiniteSet(H) /\ Cardinality(H) \in Nat /\ Cardinality(H) <= Cardinality(K)
    BY <1>1, <2>1, FS_Subset, FS_CardinalityType
  <2>3. i \in H
    BY <2>1
  <2>4. Cardinality(H) # 0
    BY <2>2, <2>3, FS_EmptySet
  <2>5. r[i] = Cardinality(H)
    BY <1>2, <2>1
  <2>6. QED
    BY <1>1, <2>1, <2>2, <2>4, <2>5
<1>4. ASSUME NEW i \in K, NEW j \in K, i < j PROVE r[i] < r[j]
  BY <1>2, <1>4, RankGrows
<1>5. r \in Injection(K, 1..Cardinality(K))
  <2>1. r \in [K -> 1..Cardinality(K)]
    BY <1>2, <1>3
  <2>2. \A i, j \in K : r[i] = r[j] => i = j
    <3> TAKE i, j \in K
    <3>1. i \in Nat /\ j \in Nat /\ r[i] \in Nat /\ r[j] \in Nat
      <4>1. \A h \in K : h \in Nat
        OBVIOUS
      <4>2. QED
        BY <1>3, <4>1
    <3>2. i < j \/ j < i \/ i = j
      BY <3>1
    <3>3. QED
      BY <1>4, <3>1, <3>2
  <2>3. QED
    BY <2>1, <2>2 DEF Injection, IsInjective
<1>6. IsFiniteSet(1..Cardinality(K)) /\ Cardinality(1..Cardinality(K)) = Cardinality(K)
  BY <1>1, FS_Interval
<1>7. r \in Surjection(K, 1..Cardinality(K))
  BY <1>1, <1>5, <1>6, FS_Injection
<1>8. \A j \in 1..Cardinality(K) : \E i \in K : r[i] = j
  BY <1>7 DEF Surjection
<1>9. QED
  BY <1>1, <1>2, <1>3, <1>8

\* The entries left without those of a name.
LEMMA WithoutKeeps ==
  ASSUME NEW l, IsList(l), Unique(l), NEW name
  PROVE  /\ IsList(Without(l, name)) /\ Unique(Without(l, name))
         /\ Names(Without(l, name)) = Names(l) \ {name}
         /\ \A i \in DOMAIN Without(l, name) : \E j \in DOMAIN l : Without(l, name)[i] = l[j]
<1>1. PICK n \in Nat : n = Len(l) /\ DOMAIN l = 1..n
  BY ListShape
<1>2. PICK K : K = {i \in DOMAIN l : l[i].name # name}
  OBVIOUS
<1>3. K \subseteq 1..n
  BY <1>1, <1>2
<1>4. PICK nth : nth = [j \in 1..Cardinality(K) |-> CHOOSE i \in K : Cardinality({h \in K : h <= i}) = j]
  OBVIOUS
<1>5. /\ Cardinality(K) \in Nat
      /\ \A j \in 1..Cardinality(K) : nth[j] \in K /\ Cardinality({h \in K : h <= nth[j]}) = j
      /\ \A i \in K : Cardinality({h \in K : h <= i}) \in 1..Cardinality(K)
  <2>1. /\ Cardinality(K) \in Nat
        /\ \A j \in 1..Cardinality(K) : \E i \in K : Cardinality({h \in K : h <= i}) = j
        /\ \A i \in K : Cardinality({h \in K : h <= i}) \in 1..Cardinality(K)
    BY <1>3, Ranks
  <2>2. ASSUME NEW j \in 1..Cardinality(K)
        PROVE  nth[j] \in K /\ Cardinality({h \in K : h <= nth[j]}) = j
    <3>1. nth[j] = CHOOSE i \in K : Cardinality({h \in K : h <= i}) = j
      BY <1>4
    <3>2. \E i \in K : Cardinality({h \in K : h <= i}) = j
      BY <2>1
    <3>3. QED
      BY <3>1, <3>2
  <2>3. QED
    BY <2>1, <2>2
<1>6. PICK u : u = [j \in 1..Cardinality(K) |-> l[nth[j]]]
  OBVIOUS
<1>7. Without(l, name) = u
  BY <1>2, <1>4, <1>6 DEF Without
<1>8. IsList(u) /\ DOMAIN u = 1..Cardinality(K)
  BY <1>5, <1>6, ListOf
<1>9. \A j \in DOMAIN u : nth[j] \in DOMAIN l /\ nth[j] \in K /\ u[j] = l[nth[j]]
  BY <1>2, <1>5, <1>6
<1>10. Unique(u)
  <2> SUFFICES ASSUME NEW i \in DOMAIN u, NEW j \in DOMAIN u, u[i].name = u[j].name PROVE i = j
    BY DEF Unique
  <2>1. nth[i] = nth[j]
    BY <1>9 DEF Unique
  <2>2. QED
    <3>1. Cardinality({h \in K : h <= nth[i]}) = i /\ Cardinality({h \in K : h <= nth[j]}) = j
      BY <1>5, <1>8
    <3>2. QED
      BY <2>1, <3>1
<1>11. \A i \in K : \E j \in DOMAIN u : nth[j] = i
  <2> TAKE i \in K
  <2>1. PICK j \in 1..Cardinality(K) : j = Cardinality({h \in K : h <= i})
    BY <1>5
  <2>2. PICK m : m = nth[j]
    OBVIOUS
  <2>3. m \in K /\ Cardinality({h \in K : h <= m}) = Cardinality({h \in K : h <= i})
    BY <1>5, <2>1, <2>2
  <2>4. \A a, b \in K : a < b => Cardinality({h \in K : h <= a}) # Cardinality({h \in K : h <= b})
    <3> SUFFICES ASSUME NEW a \in K, NEW b \in K, a < b
                 PROVE  Cardinality({h \in K : h <= a}) # Cardinality({h \in K : h <= b})
      OBVIOUS
    <3>1. Cardinality({h \in K : h <= a}) < Cardinality({h \in K : h <= b})
      BY <1>3, RankGrows
    <3>2. Cardinality({h \in K : h <= a}) \in Nat /\ Cardinality({h \in K : h <= b}) \in Nat
      BY <1>5
    <3>3. QED
      BY <3>1, <3>2
  <2>5. i \in Nat /\ m \in Nat
    BY <1>3, <2>3
  <2>6. m = i
    BY <2>3, <2>4, <2>5
  <2>7. QED
    BY <1>8, <2>1, <2>2, <2>6
<1>12. Names(u) = Names(l) \ {name}
  <2>1. \A i \in DOMAIN u : u[i].name \in Names(l) /\ u[i].name # name
    BY <1>2, <1>9 DEF Names
  <2>2. \A i \in DOMAIN l : l[i].name # name => \E j \in DOMAIN u : u[j].name = l[i].name
    BY <1>2, <1>9, <1>11
  <2>3. QED
    BY <2>1, <2>2 DEF Names
<1>13. QED
  BY <1>7, <1>8, <1>9, <1>10, <1>12

-----------------------------------------------------------------------------
(* Steps of a handler *)

\* The calls of a state, whatever they are for and whatever they write.
Calls == calls = [w \in Workers |-> [verb |-> calls[w].verb, on |-> calls[w].on, todo |-> calls[w].todo]]

\* A handler that begins changes its own call and nothing else.
LEMMA BeginEffect ==
  ASSUME Calls, NEW c \in Workers, NEW verb, NEW on, NEW todo, Begin(c, verb, on, todo)
  PROVE  /\ ~Busy(c)
         /\ mode # "concurrent" => c = (CHOOSE d \in Clients : TRUE)
         /\ docs' = docs /\ mode' = mode
         /\ calls'[c] = [verb |-> verb, on |-> on, todo |-> todo]
         /\ calls'[c].verb = verb /\ calls'[c].on = on /\ calls'[c].todo = todo
         /\ \A w \in Workers \ {c} : calls'[w] = calls[w]
         /\ Calls'
<1>1. calls' = [calls EXCEPT ![c] = [verb |-> verb, on |-> on, todo |-> todo]]
  BY DEF Begin
<1>2. DOMAIN calls = Workers
  BY DEF Calls
<1>3. calls'[c] = [verb |-> verb, on |-> on, todo |-> todo]
  BY <1>1, <1>2
<1>4. \A w \in Workers \ {c} : calls'[w] = calls[w]
  BY <1>1, <1>2
<1>5. Calls'
  <2>1. calls' = [w \in Workers |-> calls'[w]]
    BY <1>1, <1>2
  <2>2. \A w \in Workers : calls'[w] = [verb |-> calls'[w].verb, on |-> calls'[w].on, todo |-> calls'[w].todo]
    <3> TAKE w \in Workers
    <3>1. CASE w = c
      BY <1>3, <3>1
    <3>2. CASE w # c
      BY <1>4, <3>2 DEF Calls
    <3>3. QED
      BY <3>1, <3>2
  <2>3. QED
    BY <2>1, <2>2 DEF Calls
<1>6. QED
  BY <1>3, <1>4, <1>5 DEF Begin, MayCall

\* What is left of a call after its next write.
Left(w) ==
    LET e == Head(calls[w].todo)
    IN  IF e.do = "sweep" THEN Deletions(e) \o Tail(calls[w].todo) ELSE Tail(calls[w].todo)

\* A write applies the first of what a handler has left, and the handler
\* goes on with the rest.
LEMMA WriteEffect ==
  ASSUME Calls, NEW c \in Workers, Write(c)
  PROVE  /\ Busy(c)
         /\ docs' = Applied(Head(calls[c].todo)) /\ mode' = mode
         /\ Head(calls[c].todo).do # "deliver"
         /\ calls'[c].todo = Left(c)
         /\ Left(c) = <<>> => calls'[c] = Idle
         /\ Left(c) # <<>> => calls'[c].verb = calls[c].verb /\ calls'[c].on = calls[c].on
         /\ \A w \in Workers \ {c} : calls'[w] = calls[w]
         /\ Calls'
<1>1. PICK call : call = (IF Left(c) = <<>> THEN Idle ELSE [calls[c] EXCEPT !.todo = Left(c)])
  OBVIOUS
<1>2. calls' = [calls EXCEPT ![c] = call]
  BY <1>1 DEF Write, Left
<1>3. DOMAIN calls = Workers
  BY DEF Calls
<1>4. /\ call = [verb |-> call.verb, on |-> call.on, todo |-> Left(c)]
      /\ Left(c) = <<>> => call = Idle
      /\ Left(c) # <<>> => call.verb = calls[c].verb /\ call.on = calls[c].on
  <2>1. calls[c] = [verb |-> calls[c].verb, on |-> calls[c].on, todo |-> calls[c].todo]
    BY DEF Calls
  <2>2. CASE Left(c) = <<>>
    BY <1>1, <2>2 DEF Idle
  <2>3. CASE Left(c) # <<>>
    BY <1>1, <2>1, <2>3
  <2>4. QED
    BY <2>2, <2>3
<1>5. calls'[c] = call /\ \A w \in Workers \ {c} : calls'[w] = calls[w]
  BY <1>2, <1>3
<1>6. Calls'
  <2>1. calls' = [w \in Workers |-> calls'[w]]
    BY <1>2, <1>3
  <2>2. \A w \in Workers : calls'[w] = [verb |-> calls'[w].verb, on |-> calls'[w].on, todo |-> calls'[w].todo]
    <3> TAKE w \in Workers
    <3>1. CASE w = c
      BY <1>4, <1>5, <3>1
    <3>2. CASE w # c
      BY <1>5, <3>2 DEF Calls
    <3>3. QED
      BY <3>1, <3>2
  <2>3. QED
    BY <2>1, <2>2 DEF Calls
<1>7. docs' = Applied(Head(calls[c].todo)) /\ mode' = mode /\ Busy(c) /\ Head(calls[c].todo).do # "deliver"
  BY DEF Write
<1>8. calls'[c].todo = Left(c)
  BY <1>4, <1>5
<1>9. QED
  BY <1>4, <1>5, <1>6, <1>7, <1>8

\* A handler that has something left has a first write.
LEMMA SomethingLeft ==
  ASSUME NEW S, NEW s \in Seq(S), s # <<>>
  PROVE  Head(s) \in S /\ Head(s) = s[1] /\ Tail(s) \in Seq(S) /\ s = <<Head(s)>> \o Tail(s)
         /\ Len(s) \in Nat \ {0} /\ Len(Tail(s)) = Len(s) - 1
         /\ \A i \in 1..(Len(s) - 1) : Tail(s)[i] = s[i + 1]
BY HeadTailProperties

\* Nobody is busy at first, nor after the end of the process.
LEMMA AllIdle ==
  ASSUME calls = [w \in Workers |-> Idle]
  PROVE  Calls /\ \A w \in Workers : ~Busy(w) /\ calls[w].todo = <<>>
BY DEF Calls, Idle, Busy
=============================================================================
