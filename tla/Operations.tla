----------------------------- MODULE Operations -----------------------------
(***************************************************************************)
(* The registry of asynchronous operations, internal/server/operations.go: *)
(* every service of the emulator registers the outcome of a long-running   *)
(* request and hands its id to the client, which polls it.  The registry   *)
(* is in memory and its lock makes every call atomic.                      *)
(***************************************************************************)
EXTENDS Naturals

CONSTANTS
    MaxOperations,  \* bound on the operations registered between restarts
    NoOperation     \* what polling an id that is not registered answers

Outcomes == {"Succeeded", "Failed"}
OperationIds == 1..MaxOperations

VARIABLES
    seq,  \* the last id given
    ops   \* the outcome registered under an id

OperationsTypeOK ==
    /\ seq \in 0..MaxOperations
    /\ ops \in [OperationIds -> Outcomes \union {NoOperation}]

\* New, at every start of the program.
Started ==
    /\ seq = 0
    /\ ops = [id \in OperationIds |-> NoOperation]

\* A restart forgets the operations and counts from the beginning again.
Restarted ==
    /\ seq' = 0
    /\ ops' = [id \in OperationIds |-> NoOperation]

\* Fault: the count is read and written back without the lock, so that two
\* operations get one id.
RegisterUncounted(id, outcome) ==
    /\ id = seq + 1 /\ id \in OperationIds
    /\ ops' = [ops EXCEPT ![id] = outcome]
    /\ UNCHANGED seq

\* Succeeded() and Failed(): register an outcome under the next id.
RegisterOperation(id, outcome) ==
    /\ id = seq + 1 /\ id \in OperationIds
    /\ seq' = id
    /\ ops' = [ops EXCEPT ![id] = outcome]

\* GET .../operationsStatus/{id}: the outcome, or NoOperation for the 404.
Polled(id) == ops[id]
=============================================================================
