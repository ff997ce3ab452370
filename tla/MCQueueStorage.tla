--------------------------- MODULE MCQueueStorage ---------------------------
(* Small instances of QueueStorage for TLC. *)
EXTENDS QueueStorage

\* One reader that hides a message and one that does not.
MCTimeouts == {0, 1}

MCIds == 1..2
=============================================================================
