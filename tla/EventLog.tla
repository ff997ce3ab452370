------------------------------ MODULE EventLog ------------------------------
(***************************************************************************)
(* What an event hub promises a producer and a consumer: one log per hub,  *)
(* to which events are only ever appended, and a consumer that takes them  *)
(* in order, each once, without skipping any.                              *)
(***************************************************************************)
EXTENDS Integers, Sequences

CONSTANTS Entities, Events

VARIABLES
    log,    \* every event sent to a hub, in order
    taken   \* the events its consumer has taken, in order

Init ==
    /\ log = [e \in Entities |-> <<>>]
    /\ taken = [e \in Entities |-> <<>>]

Send(e, event) ==
    /\ \A i \in 1..Len(log[e]) : log[e][i] # event
    /\ log' = [log EXCEPT ![e] = Append(@, event)]
    /\ UNCHANGED taken

Take(e, n) ==
    /\ n \in Len(taken[e])..Len(log[e])
    /\ taken' = [taken EXCEPT ![e] = SubSeq(log[e], 1, n)]
    /\ UNCHANGED log

Next ==
    \E e \in Entities :
      \/ \E event \in Events : Send(e, event)
      \/ \E n \in 1..Len(log[e]) : Take(e, n)

Spec == Init /\ [][Next]_<<log, taken>>
=============================================================================
