---------------------------- MODULE MCGeneration ----------------------------
(* Generation on two turns of a conversation and two worker slots. *)
EXTENDS Generation, TLC

CONSTANTS t1, t2, w1, w2

MCTask == {t1, t2}
MCWorker == {w1, w2}
MCOneWorker == {w1}
MCSymmetry == Permutations(MCTask) \cup Permutations(MCWorker)
NoFaults == {}
Deletion == {"deletion", "apiCrash"}
Redelivery == {"redelivery"}
Undeleted == FaultKinds \ {"deletion"}
=============================================================================
