------------------------------ MODULE OutboxAbs ------------------------------
(***************************************************************************)
(* What the outbox promises for each of its rows: at-least-once delivery.  *)
(* A row that is due is put on its stream any number of times, counts as   *)
(* published only after it was, and is settled once.  Generation relies on *)
(* no more than this.  The promise assumes that publishing a row does not  *)
(* outlast the lock of its claim; for a row with which it once did, all    *)
(* that is left is that what is in the stream stays there.                 *)
(***************************************************************************)
EXTENDS Naturals

CONSTANT Row

VARIABLES outcome,   \* what became of the row
          sent,      \* how often it was added to its stream
          late       \* the rows that outlasted a lock
vars == <<outcome, sent, late>>

Outcomes == {"absent", "pending", "published", "failed"}

Init == /\ outcome = [r \in Row |-> "absent"]
        /\ sent = [r \in Row |-> 0]
        /\ late = {}

Settle(r, from, to) ==
    /\ outcome[r] = from
    /\ outcome' = [outcome EXCEPT ![r] = to]
    /\ UNCHANGED <<sent, late>>

Add(r) == Settle(r, "absent", "pending")
Send(r) ==
    /\ outcome[r] = "pending"
    /\ sent' = [sent EXCEPT ![r] = @ + 1]
    /\ UNCHANGED <<outcome, late>>
Publish(r) == sent[r] > 0 /\ Settle(r, "pending", "published")
Fail(r) == Settle(r, "pending", "failed")

Overrun(r) ==
    /\ late' = late \cup {r}
    /\ \E to \in Outcomes : outcome' = [outcome EXCEPT ![r] = to]
    /\ \E n \in {sent[r], sent[r] + 1} : sent' = [sent EXCEPT ![r] = n]

Next == \E r \in Row : Add(r) \/ Send(r) \/ Publish(r) \/ Fail(r) \/ Overrun(r)

Spec == Init /\ [][Next]_vars
=============================================================================
