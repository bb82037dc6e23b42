---------------------------- MODULE OutboxProofs ----------------------------
(***************************************************************************)
(* Outbox for any rows, relays, batch size, attempts and faults.           *)
(***************************************************************************)
EXTENDS Outbox, FiniteSetTheorems, TLAPS

\* A fault is counted, and recorded with the rows that suffer it.
LEMMA FaultEffect ==
  ASSUME TypeOK, NEW kind, NEW S, Fault(kind, S)
  PROVE  /\ faultCount' \in Nat /\ suffered' \in [Row -> SUBSET FaultKinds]
         /\ kind # "slow" => Late' = Late
         /\ kind = "slow" => Late' = Late \cup (S \cap Row)
<1>1. kind \in FaultKinds
  BY OutboxAssumption DEF Fault
<1>2. \A r \in Row : suffered[r] \in SUBSET FaultKinds
  BY DEF TypeOK
<1>3. \A r \in Row : suffered'[r] = IF r \in S THEN suffered[r] \cup {kind} ELSE suffered[r]
  BY DEF Fault
<1>4. faultCount' \in Nat /\ suffered' \in [Row -> SUBSET FaultKinds]
  BY <1>1, <1>2 DEF Fault, TypeOK
<1>5. kind # "slow" => Late' = Late
  BY <1>3 DEF Late
<1>6. kind = "slow" => Late' = Late \cup (S \cap Row)
  BY <1>3 DEF Late
<1>7. QED BY <1>4, <1>5, <1>6

LEMMA NoFault ==
  ASSUME TypeOK, UNCHANGED faults
  PROVE  /\ faultCount' \in Nat /\ suffered' \in [Row -> SUBSET FaultKinds]
         /\ Late' = Late
  BY DEF faults, Late, TypeOK

LEMMA InitType == Init => TypeOK
  BY OutboxAssumption DEF Init, TypeOK, Rest

\* What moving a publisher to another step, or out of a row, does to work.
LEMMA GotoEffect ==
  ASSUME TypeOK, NEW p \in Publisher, NEW r \in Row,
         NEW pc \in {"rest", "claimed", "sent", "failing", "givingUp"}, Goto(p, r, pc)
  PROVE  /\ work' \in [Publisher -> [Row ->
              [pc : {"rest", "claimed", "sent", "failing", "givingUp"}, attempt : Nat]]]
         /\ work'[p][r].pc = pc /\ work'[p][r].attempt = work[p][r].attempt
         /\ \A q \in Publisher, s \in Row : q # p \/ s # r => work'[q][s] = work[q][s]
<1>1. work[p][r].attempt \in Nat
  BY DEF TypeOK
<1>2. work' = [work EXCEPT ![p] = [work[p] EXCEPT ![r] = [pc |-> pc, attempt |-> work[p][r].attempt]]]
  BY DEF Goto
<1>3. work \in [Publisher -> [Row ->
              [pc : {"rest", "claimed", "sent", "failing", "givingUp"}, attempt : Nat]]]
  BY DEF TypeOK
<1>4. QED BY <1>1, <1>2, <1>3

LEMMA LeaveEffect ==
  ASSUME TypeOK, NEW p \in Publisher, NEW r \in Row, Leave(p, r)
  PROVE  /\ work' \in [Publisher -> [Row ->
              [pc : {"rest", "claimed", "sent", "failing", "givingUp"}, attempt : Nat]]]
         /\ work'[p][r].pc = "rest" /\ work'[p][r].attempt = 0
         /\ \A q \in Publisher, s \in Row : q # p \/ s # r => work'[q][s] = work[q][s]
  BY DEF Leave, Rest, TypeOK

LEMMA ClaimEffect ==
  ASSUME TypeOK, NEW p \in Publisher, NEW S \in SUBSET Row, Claim(p, S)
  PROVE  /\ work' \in [Publisher -> [Row ->
              [pc : {"rest", "claimed", "sent", "failing", "givingUp"}, attempt : Nat]]]
         /\ \A r \in S : /\ work'[p][r].pc = "claimed"
                         /\ work'[p][r].attempt = attempts[r] + 1
                         /\ status'[r] = "PROCESSING" /\ lock'[r] = "recent"
                         /\ attempts'[r] = attempts[r] + 1
         /\ \A r \in Row \ S : /\ work'[p][r] = work[p][r]
                               /\ status'[r] = status[r] /\ lock'[r] = lock[r]
                               /\ attempts'[r] = attempts[r]
         /\ \A q \in Publisher, s \in Row : q # p => work'[q][s] = work[q][s]
         /\ attempts' \in [Row -> Nat]
         /\ UNCHANGED <<due, sent, task, expired, faults>>
<1>1. work' = [work EXCEPT ![p] =
                  [r \in Row |-> IF r \in S THEN [pc |-> "claimed", attempt |-> attempts[r] + 1]
                                            ELSE work[p][r]]]
  BY DEF Claim
<1>2. \A r \in Row : attempts[r] \in Nat
  BY DEF TypeOK
<1>3. QED BY <1>1, <1>2 DEF Claim, TypeOK

\* A step that starts by setting work as Claim, Goto, Leave or Crash do: the
\* actions of Next, by what they do to work.
Moves(p, r) == Publish(p, r) \/ DispatchHalf(p, r) \/ Abandon(p, r)
Claims(p, S) == /\ S \subseteq Row
                /\ \A r \in S : Claimable(r) /\ Is(p, r, {"rest"})
                /\ Claim(p, S)
                /\ fast' \subseteq fast
Elsewhere(r) == LockExpires(r) \/ BackoffEnds(r) \/ ExpireContext(r) \/ TaskEnds(r)
                \/ MissFast(r) \/ Add(r)

LEMMA StepCases ==
  ASSUME TypeOK, Next
  PROVE  \/ \E r \in Row : Elsewhere(r)
         \/ \E p \in Publisher, S \in SUBSET Row : Claims(p, S)
         \/ \E p \in Publisher, r \in Row : Moves(p, r)
         \/ \E p \in Publisher : Crash(p)
<1>1. ASSUME NEW r \in Row, ClaimFast(r) PROVE Claims(Api, {r})
  BY <1>1 DEF ClaimFast, Claims, TypeOK
<1>2. ASSUME NEW p \in Relay, ClaimBatch(p) PROVE \E S \in SUBSET Row : Claims(p, S)
  <2>1. PICK S \in SUBSET {r \in due : Claimable(r)} : Claim(p, S)
    BY <1>2 DEF ClaimBatch
  <2>2. S \subseteq Row /\ \A r \in S : Claimable(r)
    BY <2>1 DEF TypeOK
  <2>3. Claims(p, S)
    BY <1>2, <2>1, <2>2 DEF Claims, ClaimBatch
  <2>4. QED BY <2>2, <2>3
<1>3. QED BY <1>1, <1>2 DEF Next, Elsewhere, Moves, Publisher

LEMMA TypeStep == TypeOK /\ [Next]_vars => TypeOK'
<1> SUFFICES ASSUME TypeOK, [Next]_vars PROVE TypeOK'
  OBVIOUS
<1>1. ASSUME NEW r \in Row, Elsewhere(r) PROVE TypeOK'
  <2>1. CASE LockExpires(r)
    BY <2>1, FaultEffect, NoFault DEF LockExpires, TypeOK
  <2>2. CASE BackoffEnds(r)
    BY <2>2, NoFault DEF BackoffEnds, TypeOK
  <2>3. CASE ExpireContext(r)
    BY <2>3, FaultEffect DEF ExpireContext, rows, TypeOK
  <2>4. CASE TaskEnds(r)
    BY <2>4, NoFault DEF TaskEnds, rows, TypeOK
  <2>5. CASE MissFast(r)
    BY <2>5, NoFault DEF MissFast, rows, TypeOK
  <2>6. CASE Add(r)
    BY <2>6, NoFault DEF Add, TypeOK
  <2>7. QED
    BY <1>1, <2>1, <2>2, <2>3, <2>4, <2>5, <2>6 DEF Elsewhere
<1>2. ASSUME NEW p \in Publisher, NEW S \in SUBSET Row, Claims(p, S) PROVE TypeOK'
  <2>1. Claim(p, S) /\ fast' \subseteq fast
    BY <1>2 DEF Claims
  <2>2. /\ status' \in [Row -> {"none", "PENDING", "PROCESSING", "PUBLISHED", "FAILED"}]
        /\ lock' \in [Row -> {"none", "recent", "stale"}]
    BY <2>1 DEF Claim, TypeOK
  <2>3. /\ work' \in [Publisher -> [Row ->
              [pc : {"rest", "claimed", "sent", "failing", "givingUp"}, attempt : Nat]]]
        /\ attempts' \in [Row -> Nat]
        /\ UNCHANGED <<due, sent, task, expired, faults>>
    BY <2>1, ClaimEffect
  <2>4. ASSUME NEW q \in Publisher, NEW r \in Row
        PROVE  work'[q][r].attempt <= attempts'[r]
    <3>1. work[q][r].attempt <= attempts[r] /\ attempts[r] \in Nat /\ work[q][r].attempt \in Nat
      BY DEF TypeOK
    <3>2. CASE q = p /\ r \in S
      BY <2>1, <3>1, <3>2, ClaimEffect
    <3>3. CASE ~(q = p /\ r \in S)
      <4>1. work'[q][r] = work[q][r] /\ attempts'[r] \in {attempts[r], attempts[r] + 1}
        BY <2>1, <3>3, ClaimEffect
      <4>2. QED BY <3>1, <4>1
    <3>4. QED BY <3>2, <3>3
  <2>5. QED BY <2>1, <2>2, <2>3, <2>4, NoFault DEF TypeOK
<1>3. ASSUME NEW p \in Publisher, NEW r \in Row, Moves(p, r) PROVE TypeOK'
  <2>1. \/ \E pc \in {"rest", "claimed", "sent", "failing", "givingUp"} : Goto(p, r, pc)
        \/ Leave(p, r)
    BY <1>3 DEF Moves, Publish, Dispatch, DispatchFailed, DispatchHalf, MarkPublished,
                MarkRetry, MarkFailed, FailGenerationTask, Abandon
  <2>2. /\ work' \in [Publisher -> [Row ->
              [pc : {"rest", "claimed", "sent", "failing", "givingUp"}, attempt : Nat]]]
        /\ work'[p][r].attempt <= attempts[r]
        /\ \A q \in Publisher, s \in Row : q # p \/ s # r => work'[q][s] = work[q][s]
    BY <2>1, GotoEffect, LeaveEffect DEF TypeOK
  <2>3. /\ status' \in [Row -> {"none", "PENDING", "PROCESSING", "PUBLISHED", "FAILED"}]
        /\ lock' \in [Row -> {"none", "recent", "stale"}]
        /\ due' \subseteq Row /\ sent' \in [Row -> Nat]
        /\ task' \in [Row -> {"queued", "ended", "failed"}]
        /\ faultCount' \in Nat /\ suffered' \in [Row -> SUBSET FaultKinds]
        /\ UNCHANGED <<attempts, expired, fast>>
    <3>1. CASE Dispatch(p, r)
      BY <3>1, NoFault DEF Dispatch, Sent, rows, TypeOK
    <3>2. CASE DispatchFailed(p, r)
      BY <3>2, FaultEffect, NoFault DEF DispatchFailed, rows, TypeOK
    <3>3. CASE DispatchHalf(p, r)
      BY <3>3, FaultEffect DEF DispatchHalf, Sent, rows, TypeOK
    <3>4. CASE MarkPublished(p, r)
      BY <3>4, NoFault DEF MarkPublished, TypeOK
    <3>5. CASE MarkRetry(p, r)
      BY <3>5, NoFault DEF MarkRetry, TypeOK
    <3>6. CASE MarkFailed(p, r)
      BY <3>6, NoFault DEF MarkFailed, TypeOK
    <3>7. CASE FailGenerationTask(p, r)
      BY <3>7, NoFault DEF FailGenerationTask, rows, TypeOK
    <3>8. CASE Abandon(p, r)
      BY <3>8, FaultEffect DEF Abandon, rows, TypeOK
    <3>9. QED
      BY <1>3, <3>1, <3>2, <3>3, <3>4, <3>5, <3>6, <3>7, <3>8 DEF Moves, Publish
  <2>4. \A q \in Publisher, s \in Row : work'[q][s].attempt <= attempts'[s]
    <3>1. \A q \in Publisher, s \in Row : work[q][s].attempt <= attempts[s]
      BY DEF TypeOK
    <3>2. QED BY <2>2, <2>3, <3>1
  <2>5. QED BY <2>2, <2>3, <2>4 DEF TypeOK
<1>4. ASSUME NEW p \in Publisher, Crash(p) PROVE TypeOK'
  <2>1. /\ work' = [work EXCEPT ![p] = [r \in Row |-> [pc |-> "rest", attempt |-> 0]]]
        /\ faultCount' \in Nat /\ suffered' \in [Row -> SUBSET FaultKinds]
        /\ UNCHANGED <<status, attempts, lock, due, sent, task, expired, fast>>
    BY <1>4, FaultEffect DEF Crash, Rest, rows
  <2>2. QED BY <2>1 DEF TypeOK
<1>5. CASE UNCHANGED vars
  BY <1>5, NoFault DEF vars, rows, TypeOK
<1>6. QED BY <1>1, <1>2, <1>3, <1>4, <1>5, StepCases

(***************************************************************************)
(* Whatever is claimed, stolen, lost or retried, the variables keep their  *)
(* types and a publisher works on an attempt that was counted.             *)
(***************************************************************************)
THEOREM TypeCorrect == Spec => []TypeOK
  BY InitType, TypeStep, PTL DEF Spec

-----------------------------------------------------------------------------
(***************************************************************************)
(* An attempt that was counted and not yet sent is in the hands of the     *)
(* publisher that claimed it: what makes SentOncePerAttempt inductive.     *)
(***************************************************************************)
Claimed(r) == {p \in Publisher : Is(p, r, {"claimed"})}
AttemptsCover == \A r \in Row : sent[r] + Cardinality(Claimed(r)) <= attempts[r]

LEMMA ClaimedFinite ==
  ASSUME NEW r \in Row
  PROVE  IsFiniteSet(Claimed(r)) /\ Cardinality(Claimed(r)) \in Nat
<1>1. IsFiniteSet(Publisher)
  BY OutboxAssumption, FS_AddElement DEF Publisher
<1>2. Claimed(r) \in SUBSET Publisher
  BY DEF Claimed
<1>3. QED BY <1>1, <1>2, FS_Subset, FS_CardinalityType

\* A step that claims nothing and sends nothing covers no less than before.
LEMMA StillCovered ==
  ASSUME TypeOK, AttemptsCover, NEW r \in Row,
         Claimed(r)' \subseteq Claimed(r), sent'[r] = sent[r], attempts'[r] = attempts[r]
  PROVE  sent'[r] + Cardinality(Claimed(r)') <= attempts'[r]
<1>1. Claimed(r)' \in SUBSET Claimed(r)
  OBVIOUS
<1>2. Cardinality(Claimed(r)') <= Cardinality(Claimed(r))
  BY <1>1, ClaimedFinite, FS_Subset
<1>3. IsFiniteSet(Claimed(r)')
  BY <1>1, ClaimedFinite, FS_Subset
<1>4. Cardinality(Claimed(r)') \in Nat /\ Cardinality(Claimed(r)) \in Nat
  BY <1>3, ClaimedFinite, FS_CardinalityType
<1>5. sent[r] \in Nat /\ attempts[r] \in Nat
  BY DEF TypeOK
<1>6. sent[r] + Cardinality(Claimed(r)) <= attempts[r]
  BY DEF AttemptsCover
<1>7. QED BY <1>2, <1>4, <1>5, <1>6

LEMMA CoverStep == TypeOK /\ AttemptsCover /\ [Next]_vars => AttemptsCover'
<1> SUFFICES ASSUME TypeOK, AttemptsCover, [Next]_vars, NEW r \in Row
             PROVE  sent'[r] + Cardinality(Claimed(r)') <= attempts'[r]
  BY DEF AttemptsCover
<1>1. ASSUME NEW s \in Row, Elsewhere(s)
      PROVE  sent'[r] + Cardinality(Claimed(r)') <= attempts'[r]
  <2>1. UNCHANGED <<work, sent, attempts>>
    BY <1>1 DEF Elsewhere, LockExpires, BackoffEnds, ExpireContext, TaskEnds, MissFast, Add, rows
  <2>2. Claimed(r)' = Claimed(r)
    BY <2>1 DEF Claimed, Is
  <2>3. QED BY <2>1, <2>2, StillCovered
<1>2. ASSUME NEW p \in Publisher, NEW S \in SUBSET Row, Claims(p, S)
      PROVE  sent'[r] + Cardinality(Claimed(r)') <= attempts'[r]
  <2>0. Claim(p, S)
    BY <1>2 DEF Claims
  <2>1. CASE r \in S
    <3>1. /\ work'[p][r].pc = "claimed" /\ attempts'[r] = attempts[r] + 1 /\ sent' = sent
          /\ \A q \in Publisher : q # p => work'[q][r] = work[q][r]
      BY <2>0, <2>1, ClaimEffect
    <3>2. Claimed(r)' = Claimed(r) \cup {p}
      BY <3>1 DEF Claimed, Is
    <3>3. Cardinality(Claimed(r)') <= Cardinality(Claimed(r)) + 1
          /\ Cardinality(Claimed(r)') \in Nat /\ Cardinality(Claimed(r)) \in Nat
      <4>1. IsFiniteSet(Claimed(r)) /\ Cardinality(Claimed(r)) \in Nat
        BY ClaimedFinite
      <4>2. Cardinality(Claimed(r) \cup {p}) \in
              {Cardinality(Claimed(r)), Cardinality(Claimed(r)) + 1}
        BY <4>1, FS_AddElement
      <4>3. QED BY <3>2, <4>1, <4>2
    <3>4. sent[r] \in Nat /\ attempts[r] \in Nat /\ sent[r] + Cardinality(Claimed(r)) <= attempts[r]
      BY DEF TypeOK, AttemptsCover
    <3>5. QED BY <3>1, <3>3, <3>4
  <2>2. CASE r \notin S
    <3>1. /\ \A q \in Publisher : work'[q][r] = work[q][r]
          /\ attempts'[r] = attempts[r] /\ sent' = sent
      BY <2>0, <2>2, ClaimEffect
    <3>2. Claimed(r)' = Claimed(r)
      BY <3>1 DEF Claimed, Is
    <3>3. QED BY <3>1, <3>2, StillCovered
  <2>3. QED BY <2>1, <2>2
<1>3. ASSUME NEW p \in Publisher, NEW s \in Row, Moves(p, s)
      PROVE  sent'[r] + Cardinality(Claimed(r)') <= attempts'[r]
  <2>1. \/ \E pc \in {"sent", "failing", "givingUp"} : Goto(p, s, pc)
        \/ Leave(p, s)
    BY <1>3 DEF Moves, Publish, Dispatch, DispatchFailed, DispatchHalf, MarkPublished,
                MarkRetry, MarkFailed, FailGenerationTask, Abandon
  <2>2. /\ work'[p][s].pc # "claimed"
        /\ \A q \in Publisher, x \in Row : q # p \/ x # s => work'[q][x] = work[q][x]
    BY <2>1, GotoEffect, LeaveEffect
  <2>3. Claimed(r)' = IF r = s THEN Claimed(r) \ {p} ELSE Claimed(r)
    BY <2>2 DEF Claimed, Is
  <2>4. attempts' = attempts
    BY <1>3 DEF Moves, Publish, Dispatch, DispatchFailed, DispatchHalf, MarkPublished,
                MarkRetry, MarkFailed, FailGenerationTask, Abandon, rows
  <2>5. CASE s = r /\ (Dispatch(p, s) \/ DispatchHalf(p, s))
    <3>1. sent'[r] = sent[r] + 1 /\ p \in Claimed(r)
      BY <2>5 DEF Dispatch, DispatchHalf, Sent, Claimed, TypeOK
    <3>a. IsFiniteSet(Claimed(r)) /\ Claimed(r)' = Claimed(r) \ {p}
      BY <2>3, <2>5, ClaimedFinite
    <3>2. /\ Cardinality(Claimed(r)') = Cardinality(Claimed(r)) - 1
          /\ Cardinality(Claimed(r)) \in Nat
      BY <3>1, <3>a, FS_RemoveElement, FS_CardinalityType
    <3>3. sent[r] \in Nat /\ attempts[r] \in Nat /\ sent[r] + Cardinality(Claimed(r)) <= attempts[r]
      BY DEF TypeOK, AttemptsCover
    <3>4. QED BY <2>4, <3>1, <3>2, <3>3
  <2>6. CASE ~(s = r /\ (Dispatch(p, s) \/ DispatchHalf(p, s)))
    <3>1. sent'[r] = sent[r]
      <4>1. CASE Dispatch(p, s) \/ DispatchHalf(p, s)
        <5>1. sent' = [sent EXCEPT ![s] = sent[s] + 1]
          BY <4>1 DEF Dispatch, DispatchHalf, Sent
        <5>2. QED BY <2>6, <4>1, <5>1 DEF TypeOK
      <4>2. CASE ~(Dispatch(p, s) \/ DispatchHalf(p, s))
        BY <1>3, <4>2 DEF Moves, Publish, DispatchFailed, MarkPublished, MarkRetry, MarkFailed,
                          FailGenerationTask, Abandon
      <4>3. QED BY <4>1, <4>2
    <3>2. QED BY <2>3, <2>4, <3>1, StillCovered
  <2>7. QED BY <2>5, <2>6
<1>4. ASSUME NEW p \in Publisher, Crash(p)
      PROVE  sent'[r] + Cardinality(Claimed(r)') <= attempts'[r]
  <2>1. /\ work' = [work EXCEPT ![p] = [x \in Row |-> [pc |-> "rest", attempt |-> 0]]]
        /\ UNCHANGED <<sent, attempts>>
    BY <1>4 DEF Crash, Rest, rows
  <2>2. Claimed(r)' \subseteq Claimed(r)
    BY <2>1 DEF Claimed, Is, TypeOK
  <2>3. QED BY <2>1, <2>2, StillCovered
<1>5. CASE UNCHANGED vars
  <2>1. UNCHANGED <<work, sent, attempts>>
    BY <1>5 DEF vars, rows
  <2>2. Claimed(r)' = Claimed(r)
    BY <2>1 DEF Claimed, Is
  <2>3. QED BY <2>1, <2>2, StillCovered
<1>6. QED BY <1>1, <1>2, <1>3, <1>4, <1>5, StepCases

LEMMA InitCover == Init => AttemptsCover
<1> SUFFICES ASSUME Init, NEW r \in Row PROVE sent[r] + Cardinality(Claimed(r)) <= attempts[r]
  BY DEF AttemptsCover
<1>1. Claimed(r) = {}
  BY DEF Init, Claimed, Is, Rest
<1>2. Cardinality(Claimed(r)) = 0
  BY <1>1, FS_EmptySet
<1>3. QED BY <1>2 DEF Init

(***************************************************************************)
(* Under every fault, stolen locks included, a row reaches its stream at   *)
(* most once per counted attempt.                                          *)
(***************************************************************************)
THEOREM SendsAreCounted == Spec => []SentOncePerAttempt
<1>1. TypeOK /\ AttemptsCover => SentOncePerAttempt
  <2> SUFFICES ASSUME TypeOK, AttemptsCover, NEW r \in Row PROVE sent[r] <= attempts[r]
    BY DEF SentOncePerAttempt
  <2>1. Cardinality(Claimed(r)) \in Nat /\ sent[r] \in Nat /\ attempts[r] \in Nat
        /\ sent[r] + Cardinality(Claimed(r)) <= attempts[r]
    BY ClaimedFinite DEF TypeOK, AttemptsCover
  <2>2. QED BY <2>1
<1>2. QED BY <1>1, InitType, TypeStep, InitCover, CoverStep, PTL DEF Spec

-----------------------------------------------------------------------------
(***************************************************************************)
(* Where publishing it never outlasted the lock, whoever works on a row    *)
(* holds its lock; "sent" means that it was.                               *)
(***************************************************************************)
Holding ==
    /\ OnePublisherPerRow
    /\ \A p \in Publisher, r \in Row \ Late :
         /\ Working(p, r) => status[r] = "PROCESSING" /\ lock[r] = "recent"
         /\ Is(p, r, {"sent"}) => sent[r] > 0

\* Only a lock that expires while somebody publishes the row makes it late.
LEMMA LateStep ==
  ASSUME TypeOK
  PROVE  /\ \A r \in Row : Elsewhere(r) =>
              Late' = Late \/ (LockExpires(r) /\ Late' = Late \cup {r})
         /\ \A p \in Publisher, S \in SUBSET Row : Claims(p, S) => Late' = Late
         /\ \A p \in Publisher, r \in Row : Moves(p, r) => Late' = Late
         /\ \A p \in Publisher : Crash(p) => Late' = Late
         /\ UNCHANGED vars => Late' = Late
<1>1. ASSUME NEW r \in Row, Elsewhere(r)
      PROVE  Late' = Late \/ (LockExpires(r) /\ Late' = Late \cup {r})
  <2>1. CASE LockExpires(r)
    <3>1. UNCHANGED faults \/ Fault("slow", {r})
      BY <2>1 DEF LockExpires
    <3>2. Fault("slow", {r}) => Late' = Late \cup {r}
      BY FaultEffect
    <3>3. UNCHANGED faults => Late' = Late
      BY NoFault
    <3>4. QED BY <2>1, <3>1, <3>2, <3>3
  <2>2. CASE ExpireContext(r)
    BY <2>2, FaultEffect DEF ExpireContext
  <2>3. CASE BackoffEnds(r) \/ TaskEnds(r) \/ MissFast(r) \/ Add(r)
    BY <2>3, NoFault DEF BackoffEnds, TaskEnds, MissFast, Add
  <2>4. QED BY <1>1, <2>1, <2>2, <2>3 DEF Elsewhere
<1>2. ASSUME NEW p \in Publisher, NEW S \in SUBSET Row, Claims(p, S) PROVE Late' = Late
  BY <1>2, ClaimEffect, NoFault DEF Claims
<1>3. ASSUME NEW p \in Publisher, NEW r \in Row, Moves(p, r) PROVE Late' = Late
  <2>1. UNCHANGED faults \/ Fault("redisError", {r}) \/ Fault("databaseError", {r})
    BY <1>3 DEF Moves, Publish, Dispatch, DispatchFailed, DispatchHalf, MarkPublished,
                MarkRetry, MarkFailed, FailGenerationTask, Abandon
  <2>2. QED BY <2>1, FaultEffect, NoFault
<1>4. ASSUME NEW p \in Publisher, Crash(p) PROVE Late' = Late
  BY <1>4, FaultEffect DEF Crash
<1>5. UNCHANGED vars => Late' = Late
  BY NoFault DEF vars
<1>6. \A r \in Row : Elsewhere(r) =>
              Late' = Late \/ (LockExpires(r) /\ Late' = Late \cup {r})
  BY <1>1, Zenon
<1>7. \A p \in Publisher, S \in SUBSET Row : Claims(p, S) => Late' = Late
  BY <1>2, Zenon
<1>8. \A p \in Publisher, r \in Row : Moves(p, r) => Late' = Late
  BY <1>3, Zenon
<1>9. \A p \in Publisher : Crash(p) => Late' = Late
  BY <1>4, Zenon
<1>. QED BY <1>5, <1>6, <1>7, <1>8, <1>9, Zenon

LEMMA InitHolding == Init => Holding
  BY DEF Init, Holding, OnePublisherPerRow, Working, Is, Rest

\* Rows that a step does not touch are held as before.
LEMMA HoldingFrame ==
  ASSUME Holding, NEW r \in Row \ Late, status'[r] = status[r], lock'[r] = lock[r], sent'[r] = sent[r],
         \A p \in Publisher : work'[p][r] = work[p][r] \/ work'[p][r].pc = "rest"
  PROVE  \A p, q \in Publisher :
           /\ Working(p, r)' /\ Working(q, r)' => p = q
           /\ Working(p, r)' => status'[r] = "PROCESSING" /\ lock'[r] = "recent"
           /\ Is(p, r, {"sent"})' => sent'[r] > 0
  BY DEF Holding, OnePublisherPerRow, Working, Is

LEMMA HoldingStep ==
  ASSUME TypeOK, Holding, [Next]_vars
  PROVE  Holding'
<1> DEFINE HeldAt(r) == \A p, q \in Publisher :
                          /\ Working(p, r)' /\ Working(q, r)' => p = q
                          /\ Working(p, r)' => status'[r] = "PROCESSING" /\ lock'[r] = "recent"
                          /\ Is(p, r, {"sent"})' => sent'[r] > 0
<1> SUFFICES ASSUME NEW r \in Row \ Late' PROVE HeldAt(r)
  BY DEF Holding, OnePublisherPerRow
<1>0. r \in Row \ Late
  BY LateStep, StepCases
<1>1. ASSUME NEW s \in Row, Elsewhere(s) PROVE HeldAt(r)
  <2>1. sent' = sent /\ work' = work
    BY <1>1 DEF Elsewhere, LockExpires, BackoffEnds, ExpireContext, TaskEnds, MissFast, Add, rows
  <2>2. CASE s = r /\ (LockExpires(s) \/ Add(s))
    <3>1. \A p \in Publisher : ~Working(p, r)
      <4>1. CASE LockExpires(s)
        <5>1. \A p \in Publisher : ~Working(p, r)
          <6>1. Late' # Late \cup {s}
            BY <2>2
          <6>2. ~Fault("slow", {s})
            <7> SUFFICES ASSUME Fault("slow", {s}) PROVE FALSE
              OBVIOUS
            <7>1. Late' = Late \cup ({s} \cap Row)
              BY FaultEffect
            <7>. QED BY <6>1, <7>1
          <6>3. QED BY <2>2, <4>1, <6>2 DEF LockExpires
        <5>2. QED BY <5>1
      <4>2. CASE Add(s)
        BY <1>0, <2>2, <4>2 DEF Add, Holding
      <4>3. QED BY <2>2, <4>1, <4>2
    <3>2. QED BY <2>1, <3>1 DEF Working, Is
  <2>3. CASE ~(s = r /\ (LockExpires(s) \/ Add(s)))
    <3>1. status'[r] = status[r] /\ lock'[r] = lock[r]
      BY <1>1, <2>3 DEF Elsewhere, LockExpires, BackoffEnds, ExpireContext, TaskEnds, MissFast,
                        Add, rows, TypeOK
    <3>2. QED BY <2>1, <3>1, HoldingFrame, <1>0
  <2>4. QED BY <2>2, <2>3
<1>2. ASSUME NEW p \in Publisher, NEW S \in SUBSET Row, Claims(p, S) PROVE HeldAt(r)
  <2>0. Claim(p, S)
    BY <1>2 DEF Claims
  <2>1. CASE r \in S
    <3>1. /\ work'[p][r].pc = "claimed" /\ status'[r] = "PROCESSING" /\ lock'[r] = "recent"
          /\ \A q \in Publisher : q # p => work'[q][r] = work[q][r]
      BY <2>0, <2>1, ClaimEffect
    <3>2. \A q \in Publisher : ~Working(q, r)
      BY <1>0, <1>2, <2>1 DEF Claims, Claimable, Holding
    <3>3. QED BY <3>1, <3>2 DEF Working, Is
  <2>2. CASE r \notin S
    <3>1. /\ \A q \in Publisher : work'[q][r] = work[q][r]
          /\ status'[r] = status[r] /\ lock'[r] = lock[r] /\ sent' = sent
      BY <2>0, <2>2, ClaimEffect
    <3>2. QED BY <3>1, HoldingFrame, <1>0
  <2>3. QED BY <2>1, <2>2
<1>3. ASSUME NEW p \in Publisher, NEW s \in Row, Moves(p, s) PROVE HeldAt(r)
  <2>1. \A q \in Publisher, x \in Row : q # p \/ x # s => work'[q][x] = work[q][x]
    <3>1. \/ \E pc \in {"sent", "failing", "givingUp"} : Goto(p, s, pc)
          \/ Leave(p, s)
      BY <1>3 DEF Moves, Publish, Dispatch, DispatchFailed, DispatchHalf, MarkPublished,
                  MarkRetry, MarkFailed, FailGenerationTask, Abandon
    <3>2. QED BY <3>1, GotoEffect, LeaveEffect
  <2>2. CASE Dispatch(p, s) \/ DispatchHalf(p, s)
    <3>1. PICK pc \in {"sent", "failing"} : Goto(p, s, pc)
      BY <2>2 DEF Dispatch, DispatchHalf
    <3>2. /\ Working(p, s) /\ UNCHANGED <<status, lock>>
          /\ sent' = [sent EXCEPT ![s] = sent[s] + 1]
      BY <2>2 DEF Dispatch, DispatchHalf, Sent, Working, Is, rows
    <3>3. sent'[s] > 0 /\ (r # s => sent'[r] = sent[r])
      BY <3>2 DEF TypeOK
    <3>4. work'[p][s].pc = pc
      BY <3>1, GotoEffect
    <3>5. CASE r = s
      <4>1. /\ status[r] = "PROCESSING" /\ lock[r] = "recent"
            /\ \A q \in Publisher : q # p => ~Working(q, r)
        BY <1>0, <3>2, <3>5 DEF Holding, OnePublisherPerRow
      <4>2. \A q \in Publisher : q # p => ~Working(q, r)' /\ ~Is(q, r, {"sent"})'
        BY <2>1, <3>4, <3>5, <4>1 DEF Working, Is
      <4>3. QED BY <3>2, <3>3, <3>5, <4>1, <4>2
    <3>6. CASE r # s
      BY <2>1, <3>2, <3>3, <3>6, HoldingFrame, <1>0
    <3>7. QED BY <3>5, <3>6
  <2>3. CASE DispatchFailed(p, s)
    <3>1. Goto(p, s, "failing") /\ Working(p, s) /\ UNCHANGED <<status, lock, sent>>
      BY <2>3 DEF DispatchFailed, Working, Is, rows
    <3>2. work'[p][s].pc = "failing"
      BY <3>1, GotoEffect
    <3>3. CASE r = s
      <4>1. /\ status[r] = "PROCESSING" /\ lock[r] = "recent"
            /\ \A q \in Publisher : q # p => ~Working(q, r)
        BY <1>0, <3>1, <3>3 DEF Holding, OnePublisherPerRow
      <4>2. \A q \in Publisher : ~Is(q, r, {"sent"})' /\ (q # p => ~Working(q, r)')
        BY <2>1, <3>2, <3>3, <4>1 DEF Working, Is
      <4>3. QED BY <3>1, <3>3, <4>1, <4>2
    <3>4. CASE r # s
      BY <2>1, <3>1, <3>4, HoldingFrame, <1>0
    <3>5. QED BY <3>3, <3>4
  <2>4. CASE MarkPublished(p, s) \/ MarkRetry(p, s) \/ MarkFailed(p, s)
    <3>1. work'[p][s].pc \in {"rest", "givingUp"}
      <4>1. Leave(p, s) \/ Goto(p, s, "givingUp")
        BY <2>4 DEF MarkPublished, MarkRetry, MarkFailed
      <4>2. QED BY <4>1, GotoEffect, LeaveEffect
    <3>2. Working(p, s)
      BY <2>4 DEF MarkPublished, MarkRetry, MarkFailed, Working, Is
    <3>3. sent' = sent /\ (r # s => status'[r] = status[r] /\ lock'[r] = lock[r])
      BY <2>4 DEF MarkPublished, MarkRetry, MarkFailed, TypeOK
    <3>4. CASE r = s
      <4>1. \A q \in Publisher : ~Working(q, r)'
        BY <1>0, <2>1, <3>1, <3>2, <3>4 DEF Holding, OnePublisherPerRow, Working, Is
      <4>2. QED BY <4>1 DEF Working, Is
    <3>5. CASE r # s
      BY <2>1, <3>3, <3>5, HoldingFrame, <1>0
    <3>6. QED BY <3>4, <3>5
  <2>5. CASE FailGenerationTask(p, s) \/ Abandon(p, s)
    <3>1. Leave(p, s) /\ UNCHANGED <<status, lock, sent>>
      BY <2>5 DEF FailGenerationTask, Abandon, rows
    <3>2. work'[p][s].pc = "rest"
      BY <3>1, LeaveEffect
    <3>3. QED BY <2>1, <3>1, <3>2, HoldingFrame, <1>0
  <2>6. QED
    BY <1>3, <2>2, <2>3, <2>4, <2>5 DEF Moves, Publish
<1>4. ASSUME NEW p \in Publisher, Crash(p) PROVE HeldAt(r)
  <2>1. /\ work' = [work EXCEPT ![p] = [x \in Row |-> [pc |-> "rest", attempt |-> 0]]]
        /\ UNCHANGED <<status, lock, sent>>
    BY <1>4 DEF Crash, Rest, rows
  <2>2. \A q \in Publisher : work'[q][r] = work[q][r] \/ work'[q][r].pc = "rest"
    BY <2>1 DEF TypeOK
  <2>3. QED BY <2>1, <2>2, HoldingFrame, <1>0
<1>5. CASE UNCHANGED vars
  BY <1>5, HoldingFrame, <1>0 DEF vars, rows
<1>6. QED BY <1>1, <1>2, <1>3, <1>4, <1>5, StepCases

(***************************************************************************)
(* No two publishers work on a row that nobody published for longer than   *)
(* the lock timeout: the unfenced marks are always the holder's own.       *)
(***************************************************************************)
THEOREM ClaimsAreExclusive == Spec => []OnePublisherPerRow
<1>1. TypeOK /\ Holding /\ [Next]_vars => TypeOK' /\ Holding'
  BY TypeStep, HoldingStep
<1>2. Holding => OnePublisherPerRow
  BY DEF Holding
<1>3. QED BY <1>1, <1>2, InitType, InitHolding, PTL DEF Spec

-----------------------------------------------------------------------------
(* What a row has suffered is never forgotten, and a fault that loses the   *)
(* publisher's hand on a row is recorded with the row.                      *)

LEMMA Suffering ==
  ASSUME TypeOK, [Next]_vars, NEW r \in Row
  PROVE  suffered[r] \subseteq suffered'[r]
<1>1. ASSUME NEW kind, NEW S, Fault(kind, S) PROVE suffered[r] \subseteq suffered'[r]
  BY <1>1 DEF Fault
<1>2. ASSUME UNCHANGED faults PROVE suffered[r] \subseteq suffered'[r]
  BY <1>2 DEF faults
<1>3. ASSUME NEW s \in Row, Elsewhere(s) PROVE suffered[r] \subseteq suffered'[r]
  BY <1>1, <1>2, <1>3 DEF Elsewhere, LockExpires, BackoffEnds, ExpireContext, TaskEnds,
                          MissFast, Add
<1>4. ASSUME NEW p \in Publisher, NEW S \in SUBSET Row, Claims(p, S)
      PROVE  suffered[r] \subseteq suffered'[r]
  BY <1>2, <1>4 DEF Claims, Claim
<1>5. ASSUME NEW p \in Publisher, NEW s \in Row, Moves(p, s)
      PROVE  suffered[r] \subseteq suffered'[r]
  BY <1>1, <1>2, <1>5 DEF Moves, Publish, Dispatch, DispatchFailed, DispatchHalf, MarkPublished,
                          MarkRetry, MarkFailed, FailGenerationTask, Abandon
<1>6. ASSUME NEW p \in Publisher, Crash(p) PROVE suffered[r] \subseteq suffered'[r]
  BY <1>1, <1>6 DEF Crash
<1>7. CASE UNCHANGED vars
  BY <1>2, <1>7 DEF vars
<1>8. QED BY <1>3, <1>4, <1>5, <1>6, <1>7, StepCases

\* A publisher that is giving up on a row goes on doing so until the task is
\* failed, unless the row suffers a crash or a database error.
LEMMA GivingUpLasts ==
  ASSUME TypeOK, [Next]_vars, NEW p \in Publisher, NEW r \in Row, Is(p, r, {"givingUp"}),
         suffered'[r] \cap {"crash", "databaseError"} = {}, task'[r] = "queued",
         ~Claimable(r)
  PROVE  Is(p, r, {"givingUp"})'
<1>1. ASSUME NEW s \in Row, Elsewhere(s) PROVE Is(p, r, {"givingUp"})'
  <2>1. work' = work
    BY <1>1 DEF Elsewhere, LockExpires, BackoffEnds, ExpireContext, TaskEnds, MissFast, Add
  <2>2. QED BY <2>1 DEF Is
<1>2. ASSUME NEW q \in Publisher, NEW S \in SUBSET Row, Claims(q, S)
      PROVE  Is(p, r, {"givingUp"})'
  <2>1. Claim(q, S) /\ r \notin S
    BY <1>2 DEF Claims
  <2>2. work'[p][r] = work[p][r]
    BY <2>1, ClaimEffect
  <2>3. QED BY <2>2 DEF Is
<1>3. ASSUME NEW q \in Publisher, NEW s \in Row, Moves(q, s) PROVE Is(p, r, {"givingUp"})'
  <2>1. CASE q # p \/ s # r
    <3>1. \/ \E pc \in {"sent", "failing", "givingUp"} : Goto(q, s, pc)
          \/ Leave(q, s)
      BY <1>3 DEF Moves, Publish, Dispatch, DispatchFailed, DispatchHalf, MarkPublished,
                  MarkRetry, MarkFailed, FailGenerationTask, Abandon
    <3>2. work'[p][r] = work[p][r]
      BY <2>1, <3>1, GotoEffect, LeaveEffect
    <3>3. QED BY <3>2 DEF Is
  <2>2. CASE q = p /\ s = r
    <3>1. FailGenerationTask(p, r) \/ Abandon(p, r)
      BY <1>3, <2>2 DEF Moves, Publish, Dispatch, DispatchFailed, DispatchHalf, MarkPublished,
                        MarkRetry, MarkFailed, Is
    <3>2. CASE FailGenerationTask(p, r)
      BY <3>2 DEF FailGenerationTask, TypeOK
    <3>3. CASE Abandon(p, r)
      BY <3>3 DEF Abandon, Fault
    <3>4. QED BY <3>1, <3>2, <3>3
  <2>3. QED BY <2>1, <2>2
<1>4. ASSUME NEW q \in Publisher, Crash(q) PROVE Is(p, r, {"givingUp"})'
  <2>1. CASE q = p
    BY <1>4, <2>1 DEF Crash, Fault, Is
  <2>2. CASE q # p
    <3>1. work'[p][r] = work[p][r]
      BY <1>4, <2>2 DEF Crash, TypeOK
    <3>2. QED BY <3>1 DEF Is
  <2>3. QED BY <2>1, <2>2
<1>5. CASE UNCHANGED vars
  BY <1>5 DEF vars, Is
<1>6. QED BY <1>1, <1>2, <1>3, <1>4, <1>5, StepCases

\* Only MarkFailed gives up on a row, and for a generation row it goes on to
\* fail the task.
LEMMA GivesUp ==
  ASSUME TypeOK, [Next]_vars, NEW r \in GenerationRow, status[r] # "FAILED", status'[r] = "FAILED"
  PROVE  \E p \in Publisher : Is(p, r, {"givingUp"})'
<1>0. r \in Row
  BY OutboxAssumption
<1>1. ASSUME NEW s \in Row, Elsewhere(s) PROVE FALSE
  BY <1>0, <1>1 DEF Elsewhere, LockExpires, BackoffEnds, ExpireContext, TaskEnds, MissFast, Add,
                    rows, TypeOK
<1>2. ASSUME NEW p \in Publisher, NEW S \in SUBSET Row, Claims(p, S) PROVE FALSE
  BY <1>0, <1>2 DEF Claims, Claim
<1>3. ASSUME NEW p \in Publisher, NEW s \in Row, Moves(p, s)
      PROVE  Is(p, r, {"givingUp"})'
  <2>1. MarkFailed(p, s) /\ s = r
    BY <1>0, <1>3 DEF Moves, Publish, Dispatch, DispatchFailed, DispatchHalf, MarkPublished,
                MarkRetry, MarkFailed, FailGenerationTask, Abandon, rows, TypeOK
  <2>2. Goto(p, r, "givingUp")
    BY <2>1 DEF MarkFailed
  <2>3. QED BY <1>0, <2>2, GotoEffect DEF Is
<1>4. ASSUME NEW p \in Publisher, Crash(p) PROVE FALSE
  BY <1>4 DEF Crash, rows
<1>5. CASE UNCHANGED vars
  BY <1>5 DEF vars, rows
<1>6. QED BY <1>1, <1>2, <1>3, <1>4, <1>5, StepCases

LEMMA StrandedStep == TypeOK /\ NoTaskStranded /\ [Next]_vars => NoTaskStranded'
<1> SUFFICES ASSUME TypeOK, NoTaskStranded, [Next]_vars, NEW r \in GenerationRow,
                    suffered'[r] \cap {"crash", "databaseError"} = {},
                    status'[r] = "FAILED", task'[r] = "queued"
             PROVE  \E p \in Publisher : Is(p, r, {"givingUp"})'
  BY DEF NoTaskStranded
<1>0. r \in Row
  BY OutboxAssumption
<1>1. CASE status[r] = "FAILED"
  <2>1. task[r] = "queued"
    <3>1. task' = task \/ \E x \in Row : TaskEnds(x) \/ \E p \in Publisher : FailGenerationTask(p, x)
      BY DEF Next, Publish, Add, ClaimFast, MissFast, ClaimBatch, Claim, Dispatch, DispatchFailed,
             DispatchHalf, MarkPublished, MarkRetry, MarkFailed, Abandon, Crash, LockExpires,
             BackoffEnds, ExpireContext, vars
    <3>2. QED BY <1>0, <3>1 DEF TaskEnds, FailGenerationTask, TypeOK
  <2>2. suffered[r] \cap {"crash", "databaseError"} = {}
    BY <1>0, Suffering
  <2>3. PICK p \in Publisher : Is(p, r, {"givingUp"})
    BY <1>1, <2>1, <2>2 DEF NoTaskStranded
  <2>4. ~Claimable(r)
    BY <1>1 DEF Claimable
  <2>5. QED BY <1>0, <2>3, <2>4, GivingUpLasts
<1>2. CASE status[r] # "FAILED"
  BY <1>2, GivesUp
<1>3. QED BY <1>1, <1>2

(***************************************************************************)
(* Whatever the interleaving of publishers that stole each other's locks,  *)
(* a generation task whose row was given up on is failed by whoever gave   *)
(* up, unless a crash or a database error came in between.                 *)
(***************************************************************************)
THEOREM GivenUpTasksFail == Spec => []NoTaskStranded
<1>1. Init => NoTaskStranded
  BY OutboxAssumption DEF Init, NoTaskStranded
<1>2. QED BY <1>1, InitType, TypeStep, StrandedStep, PTL DEF Spec

-----------------------------------------------------------------------------
(* The refinement: what each step of the claim protocol is to OutboxAbs. *)

outcomes == [r \in Row |-> Outcome(r)]

\* A step that only takes rows in hand, or puts them back, is none to OutboxAbs.
LEMMA SameOutcomes ==
  ASSUME TypeOK, TypeOK',
         \A r \in Row : \/ status'[r] = status[r]
                        \/ /\ status[r] \in {"PENDING", "PROCESSING"}
                           /\ status'[r] \in {"PENDING", "PROCESSING"}
  PROVE  outcomes' = outcomes
<1>1. \A r \in Row : Outcome(r)' = Outcome(r)
  BY DEF Outcome
<1>2. QED BY <1>1 DEF outcomes

LEMMA SettleOutcome ==
  ASSUME TypeOK, NEW r \in Row, NEW st \in {"PENDING", "PUBLISHED", "FAILED"},
         NEW to, status' = [status EXCEPT ![r] = st], Outcome(r)' = to
  PROVE  outcomes' = [outcomes EXCEPT ![r] = to]
<1>1. \A x \in Row : x # r => status'[x] = status[x]
  BY DEF TypeOK
<1>2. \A x \in Row : x # r => Outcome(x)' = Outcome(x)
  BY <1>1 DEF Outcome
<1>3. outcomes' = [x \in Row |-> IF x = r THEN to ELSE Outcome(x)]
  BY <1>2 DEF outcomes
<1>4. QED BY <1>3 DEF outcomes

LEMMA InitRefines == Init => Abs!Init
  BY DEF Init, Abs!Init, Outcome, Late

\* A step on a late row is whatever it likes to OutboxAbs, as long as it keeps
\* what is in the stream and leaves the other rows alone.
LEMMA LateStepRefines ==
  ASSUME TypeOK, TypeOK', NEW r \in Row, Late' = Late \cup {r},
         \A x \in Row : x # r => status'[x] = status[x],
         sent' = sent \/ sent' = [sent EXCEPT ![r] = sent[r] + 1]
  PROVE  Abs!Next
<1>1. outcomes' = [outcomes EXCEPT ![r] = Outcome(r)']
  <2>1. \A x \in Row : x # r => Outcome(x)' = Outcome(x)
    BY DEF Outcome
  <2>2. outcomes' = [x \in Row |-> IF x = r THEN Outcome(r)' ELSE Outcome(x)]
    BY <2>1 DEF outcomes
  <2>3. QED BY <2>2 DEF outcomes
<1>2. Outcome(r)' \in {"absent", "pending", "published", "failed"}
  BY DEF Outcome, TypeOK
<1>3. PICK n \in {sent[r], sent[r] + 1} : sent' = [sent EXCEPT ![r] = n]
  BY DEF TypeOK
<1>4. Abs!Overrun(r)
  BY <1>1, <1>2, <1>3 DEF Abs!Overrun, Abs!Outcomes, outcomes
<1>5. QED BY <1>4 DEF Abs!Next

LEMMA StepRefines ==
  ASSUME TypeOK, TypeOK', Holding, [Next]_vars
  PROVE  [Abs!Next]_(Abs!vars)
<1> SUFFICES Abs!Next \/ (outcomes' = outcomes /\ sent' = sent /\ Late' = Late)
  BY DEF Abs!vars, outcomes
<1>1. ASSUME NEW r \in Row, Elsewhere(r) PROVE Abs!Next \/ (outcomes' = outcomes /\ sent' = sent /\ Late' = Late)
  <2>1. CASE Add(r)
    <3>1. outcomes[r] = "absent" /\ status' = [status EXCEPT ![r] = "PENDING"] /\ sent' = sent
      BY <2>1 DEF Add, outcomes, Outcome
    <3>2. Outcome(r)' = "pending"
      BY <3>1 DEF Outcome, TypeOK
    <3>3. outcomes' = [outcomes EXCEPT ![r] = "pending"]
      BY <3>1, <3>2, SettleOutcome
    <3>0. Late' = Late
      BY <2>1, NoFault DEF Add
    <3>4. Abs!Add(r)
      BY <3>0, <3>1, <3>3 DEF Abs!Add, Abs!Settle, outcomes
    <3>5. QED BY <3>4 DEF Abs!Next
  <2>2. CASE ~Add(r)
    <3>1. status' = status /\ sent' = sent
      BY <1>1, <2>2 DEF Elsewhere, LockExpires, BackoffEnds, ExpireContext, TaskEnds, MissFast, rows
    <3>2. CASE Late' = Late
      BY <3>1, <3>2, SameOutcomes
    <3>3. CASE Late' = Late \cup {r}
      BY <3>1, <3>3, LateStepRefines
    <3>4. QED BY <1>1, <3>2, <3>3, LateStep
  <2>3. QED BY <2>1, <2>2
<1>2. ASSUME NEW p \in Publisher, NEW S \in SUBSET Row, Claims(p, S)
      PROVE  outcomes' = outcomes /\ sent' = sent /\ Late' = Late
  <2>1. Claim(p, S) /\ \A r \in S : status[r] \in {"PENDING", "PROCESSING"}
    BY <1>2 DEF Claims, Claimable
  <2>2. /\ \A r \in S : status'[r] = "PROCESSING"
        /\ \A r \in Row \ S : status'[r] = status[r]
        /\ sent' = sent
    BY <2>1, ClaimEffect
  <2>3. QED BY <1>2, <2>1, <2>2, SameOutcomes, LateStep
<1>3. ASSUME NEW p \in Publisher, NEW r \in Row, Moves(p, r)
      PROVE  Abs!Next \/ (outcomes' = outcomes /\ sent' = sent /\ Late' = Late)
  <2>0. Late' = Late
    BY <1>3, LateStep
  <2>9. CASE r \in Late
    <3>1. Late' = Late \cup {r}
      BY <2>0, <2>9
    <3>2. \A x \in Row : x # r => status'[x] = status[x]
      BY <1>3 DEF Moves, Publish, Dispatch, DispatchFailed, DispatchHalf, MarkPublished,
                  MarkRetry, MarkFailed, FailGenerationTask, Abandon, rows, TypeOK
    <3>3. sent' = sent \/ sent' = [sent EXCEPT ![r] = sent[r] + 1]
      BY <1>3 DEF Moves, Publish, Dispatch, DispatchFailed, DispatchHalf, MarkPublished,
                  MarkRetry, MarkFailed, FailGenerationTask, Abandon, Sent
    <3>4. QED BY <3>1, <3>2, <3>3, LateStepRefines
  <2>10. SUFFICES ASSUME r \notin Late
                  PROVE  Abs!Next \/ (outcomes' = outcomes /\ sent' = sent /\ Late' = Late)
    BY <2>9
  <2>1. Working(p, r) => outcomes[r] = "pending" /\ status[r] = "PROCESSING"
    BY <2>10 DEF Holding, outcomes, Outcome
  <2>2. CASE Dispatch(p, r) \/ DispatchHalf(p, r)
    <3>1. Working(p, r) /\ status' = status /\ sent' = [sent EXCEPT ![r] = sent[r] + 1]
      BY <2>2 DEF Dispatch, DispatchHalf, Sent, Working, Is, rows
    <3>2. outcomes' = outcomes
      BY <3>1, SameOutcomes
    <3>3. Abs!Send(r)
      BY <2>0, <2>1, <3>1, <3>2 DEF Abs!Send, outcomes
    <3>4. QED BY <3>3 DEF Abs!Next
  <2>3. CASE MarkPublished(p, r)
    <3>1. /\ Working(p, r) /\ sent[r] > 0
          /\ status' = [status EXCEPT ![r] = "PUBLISHED"] /\ sent' = sent
      BY <2>3, <2>10 DEF MarkPublished, Holding, Working, Is
    <3>2. Outcome(r)' = "published"
      BY <3>1 DEF Outcome, TypeOK
    <3>3. outcomes' = [outcomes EXCEPT ![r] = "published"]
      BY <3>1, <3>2, SettleOutcome
    <3>4. Abs!Publish(r)
      BY <2>0, <2>1, <3>1, <3>3 DEF Abs!Publish, Abs!Settle, outcomes
    <3>5. QED BY <3>4 DEF Abs!Next
  <2>4. CASE MarkRetry(p, r)
    <3>1. Working(p, r) /\ status' = [status EXCEPT ![r] = "PENDING"] /\ sent' = sent
      BY <2>4 DEF MarkRetry, Working, Is
    <3>2. \A x \in Row : status'[x] = IF x = r THEN "PENDING" ELSE status[x]
      BY <3>1 DEF TypeOK
    <3>3. QED BY <2>0, <2>1, <3>1, <3>2, SameOutcomes
  <2>5. CASE MarkFailed(p, r)
    <3>1. Working(p, r) /\ status' = [status EXCEPT ![r] = "FAILED"] /\ sent' = sent
      BY <2>5 DEF MarkFailed, Working, Is
    <3>2. Outcome(r)' = "failed"
      BY <3>1 DEF Outcome, TypeOK
    <3>3. outcomes' = [outcomes EXCEPT ![r] = "failed"]
      BY <3>1, <3>2, SettleOutcome
    <3>4. Abs!Fail(r)
      BY <2>0, <2>1, <3>1, <3>3 DEF Abs!Fail, Abs!Settle, outcomes
    <3>5. QED BY <3>4 DEF Abs!Next
  <2>6. CASE DispatchFailed(p, r) \/ FailGenerationTask(p, r) \/ Abandon(p, r)
    <3>1. status' = status /\ sent' = sent
      BY <2>6 DEF DispatchFailed, FailGenerationTask, Abandon, rows
    <3>2. QED BY <2>0, <3>1, SameOutcomes
  <2>7. QED
    BY <1>3, <2>2, <2>3, <2>4, <2>5, <2>6 DEF Moves, Publish
<1>4. ASSUME NEW p \in Publisher, Crash(p) PROVE outcomes' = outcomes /\ sent' = sent /\ Late' = Late
  <2>1. status' = status /\ sent' = sent
    BY <1>4 DEF Crash, rows
  <2>2. QED BY <1>4, <2>1, SameOutcomes, LateStep
<1>5. CASE UNCHANGED vars
  BY <1>5, SameOutcomes, LateStep DEF vars, rows
<1>6. QED BY <1>1, <1>2, <1>3, <1>4, <1>5, StepCases

(***************************************************************************)
(* The claim protocol implements OutboxAbs: unless publishing it outlasted *)
(* the lock, a row is published only after it was sent, settled once, not  *)
(* sent again afterwards.                                                  *)
(***************************************************************************)
THEOREM OutboxImplementsOutboxAbs == Spec => ImplementsOutboxAbs
<1>1. TypeOK /\ Holding /\ [Next]_vars => TypeOK' /\ Holding'
  BY TypeStep, HoldingStep
<1>2. TypeOK /\ TypeOK' /\ Holding /\ [Next]_vars => [Abs!Next]_(Abs!vars)
  BY StepRefines
<1>3. QED
  BY <1>1, <1>2, InitType, InitHolding, InitRefines, PTL DEF Spec, ImplementsOutboxAbs, Abs!Spec
=============================================================================
