------------------------------ MODULE MCLease -------------------------------
(* Lease on three users, one of whom has two conversations. *)
EXTENDS Lease, TLC

CONSTANTS c1, c2, c3, c4, u1, u2, u3, l1, l2, l3

MCConversation == {c1, c2, c3, c4}
MCUser == {u1, u2, u3}
MCLeaseId == {l1, l2, l3}
MCOwnerOf == c1 :> u1 @@ c2 :> u1 @@ c3 :> u2 @@ c4 :> u3
MCSymmetry == Permutations(MCLeaseId)
=============================================================================
