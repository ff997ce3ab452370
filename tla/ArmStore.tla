------------------------------ MODULE ArmStore ------------------------------
(***************************************************************************)
(* The way every service of internal/services handles a request: it reads  *)
(* documents of the shared database (internal/storage), checks and         *)
(* computes, and then writes, one Bolt transaction per document.           *)
(*                                                                         *)
(* A handler is one step that reads and decides (Begin) and then one step  *)
(* for each write.  The reads of one handler are taken together, the       *)
(* writes are not: another handler, or the end of the process, may come    *)
(* before each of them.  An answer that writes nothing (400, 404, 204) is  *)
(* no step.                                                                *)
(*                                                                         *)
(* A key is a sequence: the bucket, then the names of the resource from    *)
(* the outermost inwards.  A service module adds its resource types.       *)
(***************************************************************************)
EXTENDS Naturals, Sequences, SequencesExt, FiniteSets, TLC

CONSTANTS
    Clients,      \* callers whose requests may overlap
    Couriers,     \* goroutines that a request may leave running
    Modes         \* the ways to serve requests that are looked at

ASSUME WorkersAssumption == Clients # {} /\ Clients \intersect Couriers = {}
ASSUME ModesAssumption == Modes \subseteq {"serial", "crashing", "concurrent"}

VARIABLES
    docs,         \* the database: key -> document, for the keys present
    calls,        \* what each handler in progress is for and has left to write
    mode          \* "serial", "crashing" (serial, with crashes), "concurrent"

store == <<docs, calls, mode>>

Workers == Clients \union Couriers

-----------------------------------------------------------------------------
(* The database *)

Has(k) == k \in DOMAIN docs

\* The keys under a prefix that ends in "/".
Under(prefix) == {k \in DOMAIN docs : IsStrictPrefix(prefix, k)}

\* The keys of a bucket.
InBucket(bucket) == Under(<<bucket>>)

\* A field that a PUT keeps from the document it replaces.
Kept(k, field, default) == IF Has(k) THEN docs[k][field] ELSE default

-----------------------------------------------------------------------------
(* Writes a handler has left to do *)

Store(k, d) == [do |-> "put", key |-> k, doc |-> d]
Drop(k) == [do |-> "delete", key |-> k]

\* List the keys under a prefix and delete each; before each, the keys of
\* bucket "inner" below it ("" when there is no inner bucket).
Sweep(prefix, inner) == [do |-> "sweep", under |-> prefix, inner |-> inner]

\* The same resource's names in another bucket.
Below(bucket, k) == <<bucket>> \o Tail(k)

Deletions(e) ==
    LET keys == SetToSeq(Under(e.under))
    IN  IF e.inner = "" THEN [i \in DOMAIN keys |-> Drop(keys[i])]
        ELSE [i \in 1..(2 * Len(keys)) |->
                 LET k == keys[(i + 1) \div 2]
                 IN  IF i % 2 = 1 THEN Sweep(Below(e.inner, k), "") ELSE Drop(k)]

Applied(e) ==
    CASE e.do = "put" ->
            [k \in DOMAIN docs \union {e.key} |-> IF k = e.key THEN e.doc ELSE docs[k]]
      [] e.do = "delete" -> [k \in DOMAIN docs \ {e.key} |-> docs[k]]
      [] OTHER -> docs

-----------------------------------------------------------------------------
(* Lists kept inside a document *)

\* A broken Upsert: it does not look for the entry.
UpsertAppends(entries, entry) == Append(entries, entry)

\* Replace the entry of that name, or append one.
Upsert(entries, entry) ==
    IF \E i \in DOMAIN entries : entries[i].name = entry.name
    THEN [i \in DOMAIN entries |-> IF entries[i].name = entry.name THEN entry ELSE entries[i]]
    ELSE Append(entries, entry)

\* The entries of other names, in their order: the j-th of them is the one
\* with j of them up to it.
Without(entries, name) ==
    LET kept == {i \in DOMAIN entries : entries[i].name # name}
        nth(j) == CHOOSE i \in kept : Cardinality({h \in kept : h <= i}) = j
    IN  [j \in 1..Cardinality(kept) |-> entries[nth(j)]]

Lists(entries, name) == \E i \in DOMAIN entries : entries[i].name = name

Named(entries, name) == entries[CHOOSE i \in DOMAIN entries : entries[i].name = name]

-----------------------------------------------------------------------------
(* Handlers *)

Idle == [verb |-> "none", on |-> <<>>, todo |-> <<>>]

Busy(c) == calls[c].todo # <<>>

\* Who may call: one client after the other unless requests overlap.
MayCall(c) ==
    /\ ~Busy(c)
    /\ mode # "concurrent" => c = (CHOOSE d \in Clients : TRUE)

Begin(c, verb, on, todo) ==
    /\ MayCall(c)
    /\ calls' = [calls EXCEPT ![c] = [verb |-> verb, on |-> on, todo |-> todo]]
    /\ UNCHANGED <<docs, mode>>

\* PUT of one document.
Putting(c, k, d) == Begin(c, "put", k, <<Store(k, d)>>)

\* DELETE of one document: nothing to do when it is absent.
Deleting(c, k) == Has(k) /\ Begin(c, "delete", k, <<Drop(k)>>)

\* PUT and DELETE of an entry of a list that document k keeps in a field:
\* the whole document is written back.
PuttingIn(c, k, field, entry) ==
    /\ Has(k)
    /\ Begin(c, "put", Append(k, entry.name),
             <<Store(k, [docs[k] EXCEPT ![field] = Upsert(@, entry)])>>)
DeletingIn(c, k, field, name) ==
    /\ Has(k)
    /\ Lists(docs[k][field], name)
    /\ Begin(c, "delete", Append(k, name),
             <<Store(k, [docs[k] EXCEPT ![field] = Without(@, name)])>>)

\* A broken Write: a sweep lists again until it finds nothing.
WriteSweepingAgain(c) ==
    /\ Busy(c)
    /\ Head(calls[c].todo).do # "deliver"
    /\ LET call == calls[c]
           e == Head(call.todo)
           left == IF e.do = "sweep" /\ Under(e.under) # {} THEN Deletions(e) \o call.todo ELSE Tail(call.todo)
       IN  /\ docs' = Applied(e)
           /\ calls' = [calls EXCEPT ![c] = IF left = <<>> THEN Idle ELSE [call EXCEPT !.todo = left]]
    /\ UNCHANGED mode

\* The next write of a handler; a call over HTTP is a step of the module
\* that makes it.
Write(c) ==
    /\ Busy(c)
    /\ Head(calls[c].todo).do # "deliver"
    /\ LET call == calls[c]
           e == Head(call.todo)
           left == IF e.do = "sweep" THEN Deletions(e) \o Tail(call.todo) ELSE Tail(call.todo)
       IN  /\ docs' = Applied(e)
           /\ calls' = [calls EXCEPT ![c] = IF left = <<>> THEN Idle ELSE [call EXCEPT !.todo = left]]
    /\ UNCHANGED mode

\* The process ends: what was written stays, what was left is lost.
Crash ==
    /\ mode = "crashing"
    /\ \E c \in Workers : Busy(c)
    /\ calls' = [c \in Workers |-> Idle]
    /\ UNCHANGED <<docs, mode>>

\* Before the first request; a database may hold what an earlier process left.
StoreInit ==
    /\ calls = [c \in Workers |-> Idle]
    /\ mode \in Modes

StoreNext == (\E c \in Workers : Write(c)) \/ Crash
=============================================================================
