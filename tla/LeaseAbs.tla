------------------------------ MODULE LeaseAbs ------------------------------
(***************************************************************************)
(* What ConcurrencyService promises to the services and workers that use   *)
(* it: at any moment a conversation has at most one lease in force, a user *)
(* at most MaxUser and the platform at most MaxGlobal.  A lease is granted *)
(* once, and only to a conversation that has none.                         *)
(***************************************************************************)
EXTENDS Naturals, FiniteSets

CONSTANTS Conversation, User, LeaseId, NoLease,
          OwnerOf,       \* the user a conversation belongs to
          MaxUser,       \* max_active_generations_per_user
          MaxGlobal      \* max_active_generations_global

VARIABLES holder,        \* the lease in force in each conversation, or NoLease
          spent          \* the leases granted so far

absVars == <<holder, spent>>

Held == {c \in Conversation : holder[c] # NoLease}
HeldBy(u) == {c \in Held : OwnerOf[c] = u}

Init ==
    /\ holder = [c \in Conversation |-> NoLease]
    /\ spent = {}

Grant(c, l) ==
    /\ holder[c] = NoLease
    /\ l \notin spent
    /\ Cardinality(HeldBy(OwnerOf[c])) < MaxUser
    /\ Cardinality(Held) < MaxGlobal
    /\ holder' = [holder EXCEPT ![c] = l]
    /\ spent' = spent \cup {l}

\* Leases end by a release, or together when their time has run out.
End(S) ==
    /\ S \subseteq Held
    /\ holder' = [c \in Conversation |-> IF c \in S THEN NoLease ELSE holder[c]]
    /\ UNCHANGED spent

Next ==
    \/ \E c \in Conversation, l \in LeaseId : Grant(c, l)
    \/ \E S \in SUBSET Conversation : End(S)

Spec == Init /\ [][Next]_absVars
=============================================================================
