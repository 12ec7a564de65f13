--------------------------- MODULE MCWakeRecovery ---------------------------
(* One receiver for the fair run, whose safety properties are proved for every
   number of them; two in the run that looks for the spent probe, so that one
   path can recover while the other stays armed.  Batches of a settle probe and
   one retry, one batch per episode and two activity edges, so that a second edge
   meets an exhausted episode and a new episode an edge that is consumed. *)
EXTENDS WakeRecovery, TLC

CONSTANTS p1, p2

MCPath == {p1, p2}
MCOne == {p1}
Symmetry == Permutations(MCPath)
=============================================================================
