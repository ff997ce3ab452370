---------------------------- MODULE MCServiceBus ----------------------------
(* Instances of ServiceBus for TLC. *)
EXTENDS ServiceBus

\* Two groups, with a namespace of one name each, a queue in it, a topic and a
\* subscription of one name; and one more subscription.
MCQueueIds == {<<"g1", "n1", "q">>, <<"g2", "n1", "q">>}
MCSubIds == {<<"g1", "n1", "t", "s1">>, <<"g1", "n1", "t", "s2">>, <<"g2", "n1", "t", "s1">>}

\* From an empty database, and from one where messages alone come and go.
MCMaxDraws == [serial |-> 2, crashing |-> 6, concurrent |-> 5]
=============================================================================
