--------------------------- MODULE PeekLockQueue ---------------------------
(***************************************************************************)
(* What a store of peek-lock queues promises its clients, with every       *)
(* operation atomic: a read reserves a message for a while and hands out a *)
(* fresh receipt, a message is removed only for a client that asks with    *)
(* the latest receipt or asks to purge its queue, a queue goes away only   *)
(* once it holds nothing.                                                  *)
(*                                                                         *)
(* It is the contract the comments of queue.go state; QueueStorage is the  *)
(* code, one database call at a time, and implements this module when its  *)
(* requests do not overlap.                                                *)
(***************************************************************************)
EXTENDS Integers

CONSTANTS
    Queues,       \* the queues, each an {account}/{queue} pair
    Ids,          \* message ids
    Receipts,     \* pop receipts
    Timeouts,     \* visibility timeouts a reader may ask for
    MaxTime,      \* bound on the clock
    NoMessage     \* what a key without a message holds

VARIABLES
    queues,       \* the queues that exist
    messages,     \* key -> message or NoMessage
    issued,       \* key -> every receipt ever handed out for it
    clock,
    settling,     \* <<key, receipt>> of the deletions being asked for
    purging       \* queues being asked to be cleared

vars == <<queues, messages, issued, clock, settling, purging>>

Keys == Queues \X Ids

Held(k) == messages[k] # NoMessage

Fresh(r) == \A k \in Keys : r \notin issued[k]

Init ==
    /\ queues = {}
    /\ messages = [k \in Keys |-> NoMessage]
    /\ issued = [k \in Keys |-> {}]
    /\ clock = 0
    /\ settling = {}
    /\ purging = {}

\* Clients ask, are answered and give up, at any time.
Clients ==
    /\ settling' \in SUBSET (Keys \X Receipts)
    /\ purging' \in SUBSET Queues
    /\ UNCHANGED <<queues, messages, issued, clock>>

\* A step of the store may answer requests.
Answer == settling' \in SUBSET settling /\ purging' \in SUBSET purging

Create(q) ==
    /\ queues' = queues \union {q}
    /\ Answer
    /\ UNCHANGED <<messages, issued, clock>>

\* Only an empty queue is dropped.
Drop(q) ==
    /\ \A i \in Ids : ~Held(<<q, i>>)
    /\ queues' = queues \ {q}
    /\ Answer
    /\ UNCHANGED <<messages, issued, clock>>

\* A new message, under an id no message ever had, in a queue that exists.
Send(k, r) ==
    /\ k[1] \in queues
    /\ \A q \in Queues : issued[<<q, k[2]>>] = {}
    /\ Fresh(r)
    /\ \E seen \in 0..clock :
         messages' = [messages EXCEPT
           ![k] = [receipt |-> r, dequeueCount |-> 0, nextVisible |-> seen]]
    /\ issued' = [issued EXCEPT ![k] = @ \union {r}]
    /\ Answer
    /\ UNCHANGED <<queues, clock>>

\* A visible message is handed to one reader and hidden for its timeout.
Deliver(k, r) ==
    /\ Held(k)
    /\ messages[k].nextVisible <= clock
    /\ Fresh(r)
    /\ \E timeout \in Timeouts, seen \in messages[k].nextVisible..clock :
         messages' = [messages EXCEPT
           ![k] = [receipt |-> r,
                   dequeueCount |-> messages[k].dequeueCount + 1,
                   nextVisible |-> seen + timeout]]
    /\ issued' = [issued EXCEPT ![k] = @ \union {r}]
    /\ Answer
    /\ UNCHANGED <<queues, clock>>

\* A reader settles the message it holds: its receipt is the latest one.
Settle(k, r) ==
    /\ <<k, r>> \in settling
    /\ Held(k)
    /\ messages[k].receipt = r
    /\ messages' = [messages EXCEPT ![k] = NoMessage]
    /\ Answer
    /\ UNCHANGED <<queues, issued, clock>>

\* Clearing a queue drops its messages one by one.
Purge(k) ==
    /\ k[1] \in purging
    /\ k[1] \in queues
    /\ messages' = [messages EXCEPT ![k] = NoMessage]
    /\ Answer
    /\ UNCHANGED <<queues, issued, clock>>

Tick ==
    /\ clock < MaxTime
    /\ clock' = clock + 1
    /\ UNCHANGED <<queues, messages, issued, settling, purging>>

Next ==
    \/ \E q \in Queues : Create(q) \/ Drop(q)
    \/ \E k \in Keys : Purge(k) \/ \E r \in Receipts : Send(k, r) \/ Deliver(k, r) \/ Settle(k, r)
    \/ Clients
    \/ Tick

Spec == Init /\ [][Next]_vars
=============================================================================
