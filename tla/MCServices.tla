----------------------------- MODULE MCServices -----------------------------
(* Instances of the services for TLC. *)
EXTENDS Services

\* A prefix of eight addresses, of which the first four are kept back.
MCRanges == {<<0, 8>>}
=============================================================================
