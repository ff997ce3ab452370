---------------------------- MODULE ResourceIds ----------------------------
(***************************************************************************)
(* How the path of a request becomes the id of a resource: the middleware  *)
(* that rewrites the path before it reaches a handler (server/armcase.go), *)
(* the path that resourcePath and resourceId() of template.go build, and   *)
(* ParseResourceID (server/arm.go), which Networking applies to the ids of *)
(* subnets and interfaces.                                                 *)
(*                                                                         *)
(* A segment is a word and its spelling, which says where its capitals     *)
(* are; <<>> is the empty segment between two slashes.                     *)
(***************************************************************************)
EXTENDS Integers, Sequences, SequencesExt

CONSTANTS
    Tokens,      \* the words of armCanonicalSegments
    Types,       \* pairs of a namespace and a sequence of types, all tokens
    Names,       \* the words a client may choose
    Spellings    \* "canonical" is the one of armCanonicalSegments

Skeleton == {"subscriptions", "resourceGroups", "providers"}

ASSUME TokensAssumption ==
    /\ Skeleton \subseteq Tokens
    /\ "canonical" \in Spellings
    /\ \A t \in Types :
          t[1] \in Tokens /\ t[2] \in Seq(Tokens \ {"providers"}) /\ Len(t[2]) \in 1..3

Segments == {<<word, spelling>> : word \in Tokens \union Names, spelling \in Spellings}

NoId == [subscription |-> <<>>, group |-> <<>>, provider |-> <<>>, type |-> <<>>, name |-> <<>>,
         subType |-> <<>>, subName |-> <<>>]

VARIABLES
    asked,     \* history: the type and names of the request, and their path
    path,
    rest,      \* the segments that ParseResourceID has not read
    id,
    parsing    \* "before" the middleware, "reading", "parsed" or "refused"

ids == <<asked, path, rest, id, parsing>>

-----------------------------------------------------------------------------

Canonical(word) == <<word, "canonical">>

\* A path of resourcePath: one name for each type, after their namespace.
ResourcePath(subID, rg, type, names) ==
    <<Canonical("subscriptions"), subID, Canonical("resourceGroups"), rg, Canonical("providers"), Canonical(type[1])>>
      \o [i \in 1..(2 * Len(type[2])) |-> IF i % 2 = 1 THEN Canonical(type[2][(i + 1) \div 2]) ELSE names[i \div 2]]

\* The path as a client may write it: the fixed segments in any spelling, and
\* a slash too many in front or after the first segment.
Rewritings(p) ==
    LET spelt == {[i \in DOMAIN p |-> IF i \in {1, 3, 5, 6, 7, 9, 11} THEN <<p[i][1], s>> ELSE p[i]] : s \in Spellings}
    IN  spelt \union {<< <<>> >> \o q : q \in spelt} \union {<<q[1], <<>> >> \o Tail(q) : q \in spelt}

\* A broken Normalized: the namespaces and types are left as they came.
NormalizedSkeleton(p) ==
    [i \in DOMAIN p |-> IF p[i][1] \in Skeleton THEN Canonical(p[i][1]) ELSE p[i]]

\* withARMCaseNormalization: a segment that is a token in some spelling gets
\* the canonical one, also when it is a name that a client chose.
Normalized(p) ==
    [i \in DOMAIN p |-> IF p[i][1] \in Tokens THEN Canonical(p[i][1]) ELSE p[i]]

IdsInit ==
    /\ \E t \in Types, subID, rg \in Names \X Spellings :
         \E names \in [DOMAIN t[2] -> Names \X Spellings] :
            LET p == ResourcePath(subID, rg, t, names)
            IN  /\ asked = [type |-> t, names |-> names, subscription |-> subID, group |-> rg]
                /\ path \in Rewritings(p)
    /\ rest = <<>>
    /\ id = NoId
    /\ parsing = "before"

\* collapseSlashes, one empty segment at a time.
CollapseSlashes ==
    /\ parsing = "before"
    /\ \E i \in DOMAIN path : path[i] = <<>> /\ path' = RemoveAt(path, i)
    /\ UNCHANGED <<asked, rest, id, parsing>>

Normalize ==
    /\ parsing = "before"
    /\ \A i \in DOMAIN path : path[i] # <<>>
    /\ path' = Normalized(path)
    /\ rest' = Normalized(path)
    /\ parsing' = "reading"
    /\ UNCHANGED <<asked, id>>

Reading == parsing = "reading" /\ Len(rest) >= 2

ReadScope ==
    /\ Reading
    /\ \/ rest[1][1] = "subscriptions" /\ id' = [id EXCEPT !.subscription = rest[2]]
       \/ rest[1][1] = "resourceGroups" /\ id' = [id EXCEPT !.group = rest[2]]
    /\ rest' = SubSeq(rest, 3, Len(rest))
    /\ UNCHANGED <<asked, path, parsing>>

\* The provider, and up to two types with their names.
ReadProvider ==
    /\ Reading
    /\ rest[1][1] = "providers"
    /\ LET at(i) == IF Len(rest) >= 2 * ((i + 1) \div 2) THEN rest[i] ELSE <<>>
       IN  id' = [id EXCEPT !.provider = rest[2], !.type = at(3), !.name = at(4), !.subType = at(5), !.subName = at(6)]
    /\ rest' = SubSeq(rest, IF Len(rest) >= 6 THEN 7 ELSE IF Len(rest) >= 4 THEN 5 ELSE 3, Len(rest))
    /\ UNCHANGED <<asked, path, parsing>>

\* A segment alone, or a key that is none of the three.
RefuseId ==
    /\ parsing = "reading" /\ rest # <<>>
    /\ Len(rest) < 2 \/ rest[1][1] \notin Skeleton
    /\ parsing' = "refused"
    /\ UNCHANGED <<asked, path, rest, id>>

IdParsed ==
    /\ parsing = "reading" /\ rest = <<>>
    /\ parsing' = IF id.subscription = <<>> THEN "refused" ELSE "parsed"
    /\ UNCHANGED <<asked, path, rest, id>>

IdsNext == CollapseSlashes \/ Normalize \/ ReadScope \/ ReadProvider \/ RefuseId \/ IdParsed

-----------------------------------------------------------------------------

\* The names of a request that are spelt like a token keep their spelling.
Untouched(s) == s[1] \in Tokens => s[2] = "canonical"

\* However a client spells the fixed segments of a path, and with slashes
\* repeated, the id of a resource of one or two types is read back as it was
\* built, in the spelling of the routes, unless a name chosen by the client is
\* also a token: the middleware rewrites that one, although its comment says
\* that it touches no name.  An id of three types is refused, if the third is
\* not taken for a scope as topics/subscriptions is.
IdsRoundTrip ==
    LET levels == Len(asked.type[2]) IN
    /\ parsing = "parsed" /\ levels <= 2 /\ Untouched(asked.subscription) /\ Untouched(asked.group)
         /\ (\A i \in DOMAIN asked.names : Untouched(asked.names[i])) =>
          id = [subscription |-> asked.subscription, group |-> asked.group,
                provider |-> Canonical(asked.type[1]),
                type |-> Canonical(asked.type[2][1]), name |-> asked.names[1],
                subType |-> IF levels = 2 THEN Canonical(asked.type[2][2]) ELSE <<>>,
                subName |-> IF levels = 2 THEN asked.names[2] ELSE <<>>]
    /\ parsing \in {"parsed", "refused"} =>
          (parsing = "parsed" <=> levels <= 2 \/ asked.type[2][3] \in {"subscriptions", "resourceGroups"})
=============================================================================
