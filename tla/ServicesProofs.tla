---------------------------- MODULE ServicesProofs ----------------------------
(***************************************************************************)
(* The safety properties of the smaller components, each for every value   *)
(* of its constants: the claim of a request, the circuit breaker,          *)
(* AsyncMemo, the diagnosis by points, attachments, the running summary,   *)
(* and dictation. Each has an inductive invariant that says what the       *)
(* operations under way hold between two steps.  With those of the agent   *)
(* (AgentProofs) they give the types of all ten parts that MCServices      *)
(* instantiates.                                                           *)
(***************************************************************************)
EXTENDS AgentProofs, MCServices, FiniteSetTheorems, SequenceTheorems, TLAPS

-----------------------------------------------------------------------------
(* Requests: the idempotency claim of a send *)

(***************************************************************************)
(* That tasks are one per request rests on the claim: a call that sends or *)
(* has committed holds it until it is lost, and only a call that has no    *)
(* task, or gave it up, removes it.                                        *)
(***************************************************************************)
ClaimsStand ==
    /\ \A c \in Call :
         /\ pc[c] \in {"sending", "committed"} \/ c \in tasks => Holds(c) \/ c \in lost
         /\ pc[c] = "sending" => c \notin tasks
         /\ pc[c] = "committed" => c \in tasks
         /\ pc[c] = "aborting" /\ c \in tasks => c \in lost
         /\ pc[c] \in {"idle", "reading"} => c \notin tasks
    /\ ~fresh => \A c, d \in tasks : c = d

RequestsInv == RequestsTypeOK /\ ClaimsStand /\ OneTaskPerRequest

\* A record that a call writes is a claim, and its own.
LEMMA NewClaim ==
  ASSUME NEW c \in Call
  PROVE  /\ Claimed(c) \in [owner : Call, accepted : BOOLEAN] /\ Claimed(c) # None
         /\ Claimed(c).owner = c /\ Claimed(c).accepted = FALSE
         /\ [owner |-> c, accepted |-> TRUE] \in [owner : Call, accepted : BOOLEAN]
         /\ [owner |-> c, accepted |-> TRUE] # None
<1>1. /\ [owner |-> c, accepted |-> FALSE] \in [owner : Call, accepted : BOOLEAN]
      /\ [owner |-> c, accepted |-> TRUE] \in [owner : Call, accepted : BOOLEAN]
  OBVIOUS
<1>2. Claimed(c) = [owner |-> c, accepted |-> FALSE]
  BY DEF Claimed
<1>3. None \notin [owner : Call, accepted : BOOLEAN]
  BY RequestsAssumption
<1>4. Claimed(c).owner = c /\ Claimed(c).accepted = FALSE
  BY <1>2
<1>5. QED
  BY <1>1, <1>2, <1>3, <1>4

\* Every step of a call keeps the types, and what an accepted claim says.
LEMMA RequestsTypeStep == RequestsTypeOK /\ ClaimsStand /\ [RequestsNext]_requestVars => RequestsTypeOK'
<1> SUFFICES ASSUME RequestsTypeOK, ClaimsStand, [RequestsNext]_requestVars PROVE RequestsTypeOK'
  OBVIOUS
<1> USE RequestsAssumption DEF RequestsTypeOK
<1>1. ASSUME NEW c \in Call, Begin(c) PROVE RequestsTypeOK'
  <2>1. CASE claim = None
    <3>1. claim' \in [owner : Call, accepted : BOOLEAN] /\ claim' # None
          /\ claim'.owner = c /\ claim'.accepted = FALSE
      <4>1. claim' = Claimed(c)
        BY <1>1, <2>1 DEF Begin
      <4>2. QED
        BY <4>1, NewClaim
    <3>2. QED
      BY <1>1, <2>1, <3>1 DEF Begin, Goto
  <2>2. CASE claim # None
    BY <1>1, <2>2 DEF Begin, Goto
  <2>3. QED
    BY <2>1, <2>2
<1>2. ASSUME NEW c \in Call, Replay(c) PROVE RequestsTypeOK'
  BY <1>2 DEF Replay, Goto, Accepted
<1>3. ASSUME NEW c \in Call, Refuse(c) PROVE RequestsTypeOK'
  BY <1>3 DEF Refuse, Goto
<1>4. ASSUME NEW c \in Call, Commit(c) PROVE RequestsTypeOK'
  BY <1>4 DEF Commit, Goto
<1>5. ASSUME NEW c \in Call, FailSend(c) PROVE RequestsTypeOK'
  BY <1>5 DEF FailSend, Goto
<1>6. ASSUME NEW c \in Call, FailCommitted(c) PROVE RequestsTypeOK'
  BY <1>6 DEF FailCommitted, Goto
<1>7. ASSUME NEW c \in Call, Finish(c) PROVE RequestsTypeOK'
  <2>1. CASE UNCHANGED claim
    BY <1>7, <2>1 DEF Finish, Goto
  <2>2. CASE claim # None /\ claim.owner = c /\ claim' = [owner |-> c, accepted |-> TRUE]
    <3>1. claim' \in [owner : Call, accepted : BOOLEAN] /\ claim' # None
          /\ claim'.owner = c /\ claim'.accepted = TRUE
      BY <2>2, NewClaim
    <3>2. QED
      BY <1>7, <2>2, <3>1 DEF Finish, Goto, ClaimsStand
  <2>3. QED
    BY <1>7, <2>1, <2>2 DEF Finish, Holds
<1>8. ASSUME NEW c \in Call, Abort(c) PROVE RequestsTypeOK'
  BY <1>8 DEF Abort, Goto, Holds
<1>9. ASSUME NEW c \in Call, CrashCall(c) PROVE RequestsTypeOK'
  BY <1>9 DEF CrashCall, Goto
<1>10. CASE ExpireClaim
  BY <1>10 DEF ExpireClaim
<1>11. CASE UNCHANGED requestVars
  BY <1>11 DEF requestVars
<1>12. QED
  BY <1>1, <1>2, <1>3, <1>4, <1>5, <1>6, <1>7, <1>8, <1>9, <1>10, <1>11 DEF RequestsNext

\* Every step of a call keeps the claims and the tasks they stand for.
LEMMA ClaimsStep == RequestsInv /\ [RequestsNext]_requestVars => ClaimsStand' /\ OneTaskPerRequest'
<1> SUFFICES ASSUME RequestsInv, [RequestsNext]_requestVars PROVE ClaimsStand' /\ OneTaskPerRequest'
  OBVIOUS
<1> USE RequestsAssumption
    DEF RequestsInv, RequestsTypeOK, ClaimsStand, OneTaskPerRequest, Holds, SameContent
<1>1. ASSUME NEW c \in Call, Begin(c) PROVE ClaimsStand' /\ OneTaskPerRequest'
  <2>1. CASE claim = None
    <3>1. claim' \in [owner : Call, accepted : BOOLEAN] /\ claim' # None
          /\ claim'.owner = c /\ claim'.accepted = FALSE
      <4>1. claim' = Claimed(c)
        BY <1>1, <2>1 DEF Begin
      <4>2. QED
        BY <4>1, NewClaim
    <3>2. QED
      BY <1>1, <2>1, <3>1 DEF Begin, Goto
  <2>2. CASE claim # None
    BY <1>1, <2>2 DEF Begin, Goto
  <2>3. QED
    BY <2>1, <2>2
<1>2. ASSUME NEW c \in Call, Replay(c) PROVE ClaimsStand' /\ OneTaskPerRequest'
  BY <1>2 DEF Replay, Goto, Accepted
<1>3. ASSUME NEW c \in Call, Refuse(c) PROVE ClaimsStand' /\ OneTaskPerRequest'
  BY <1>3 DEF Refuse, Goto
<1>4. ASSUME NEW c \in Call, Commit(c) PROVE ClaimsStand' /\ OneTaskPerRequest'
  BY <1>4 DEF Commit, Goto
<1>5. ASSUME NEW c \in Call, FailSend(c) PROVE ClaimsStand' /\ OneTaskPerRequest'
  BY <1>5 DEF FailSend, Goto
<1>6. ASSUME NEW c \in Call, FailCommitted(c) PROVE ClaimsStand' /\ OneTaskPerRequest'
  BY <1>6 DEF FailCommitted, Goto
<1>7. ASSUME NEW c \in Call, Finish(c) PROVE ClaimsStand' /\ OneTaskPerRequest'
  <2>1. CASE UNCHANGED claim
    BY <1>7, <2>1 DEF Finish, Goto
  <2>2. CASE claim # None /\ claim.owner = c /\ claim' = [owner |-> c, accepted |-> TRUE]
    <3>1. claim' \in [owner : Call, accepted : BOOLEAN] /\ claim' # None
          /\ claim'.owner = c /\ claim'.accepted = TRUE
      BY <2>2, NewClaim
    <3>2. QED
      BY <1>7, <2>2, <3>1 DEF Finish, Goto
  <2>3. QED
    BY <1>7, <2>1, <2>2 DEF Finish, Holds
<1>8. ASSUME NEW c \in Call, Abort(c) PROVE ClaimsStand' /\ OneTaskPerRequest'
  BY <1>8 DEF Abort, Goto
<1>9. ASSUME NEW c \in Call, CrashCall(c) PROVE ClaimsStand' /\ OneTaskPerRequest'
  BY <1>9 DEF CrashCall, Goto
<1>10. CASE ExpireClaim
  BY <1>10 DEF ExpireClaim
<1>11. CASE UNCHANGED requestVars
  BY <1>11 DEF requestVars
<1>12. QED
  BY <1>1, <1>2, <1>3, <1>4, <1>5, <1>6, <1>7, <1>8, <1>9, <1>10, <1>11 DEF RequestsNext

\* A request begins without a claim.
LEMMA RequestsBegin == RequestsInit => RequestsInv
  BY RequestsAssumption
  DEF RequestsInit, RequestsInv, RequestsTypeOK, ClaimsStand, OneTaskPerRequest

(***************************************************************************)
(* However many calls repeat a request, and whichever of them lose their   *)
(* claim, an existing conversation gets one task, and who is answered is   *)
(* told of a committed task of the same content (IdempotencyStore).        *)
(***************************************************************************)
THEOREM RequestsHaveOneTask == RequestsSpec => []OneTaskPerRequest
<1>1. RequestsInit => RequestsInv
  BY RequestsBegin
<1>2. RequestsInv /\ [RequestsNext]_requestVars => RequestsInv'
  BY RequestsTypeStep, ClaimsStep DEF RequestsInv
<1>3. RequestsInv => OneTaskPerRequest
  BY DEF RequestsInv
<1>4. QED
  BY <1>1, <1>2, <1>3, PTL DEF RequestsSpec

-----------------------------------------------------------------------------
(* The circuit breaker of the resilient executors *)

\* The attempts that the calls under way may still begin.
AttemptsLeft == {x \in Caller \X (1 .. MaxRetries + 1) :
           /\ at[x[1]] # "out"
           /\ \/ attempt[x[1]] < x[2]
              \/ attempt[x[1]] = x[2] /\ at[x[1]] = "announcing"}

\* What the calls under way can cost besides the one that opened the circuit.
LoadBound == (Cardinality(Caller) - 1) * (MaxRetries + 1)

(***************************************************************************)
(* LoadWhileOpen says nothing of the attempts that are still to come, so a *)
(* step that begins one could break it: counted with those it is inductive *)
(* while the circuit is not closed.                                        *)
(***************************************************************************)
LoadAndLeft ==
    /\ circuit = "closed" => load = 0
    /\ circuit # "closed" => load + Cardinality(AttemptsLeft) <= LoadBound

BreakerInv == BreakerTypeOK /\ LoadAndLeft

\* The attempts left are finitely many, and of the callers' attempts.
LEMMA AttemptsLeftFinite ==
  /\ IsFiniteSet(Caller \X (1 .. MaxRetries + 1))
  /\ IsFiniteSet(AttemptsLeft) /\ Cardinality(AttemptsLeft) \in Nat
  /\ \A S \in SUBSET AttemptsLeft :
       IsFiniteSet(S) /\ Cardinality(S) \in Nat /\ Cardinality(S) <= Cardinality(AttemptsLeft)
<1>1. IsFiniteSet(1 .. MaxRetries + 1)
  BY BreakerAssumption, FS_Interval
<1>2. IsFiniteSet(Caller \X (1 .. MaxRetries + 1))
  BY <1>1, BreakerAssumption, FS_Product
<1>3. AttemptsLeft \subseteq Caller \X (1 .. MaxRetries + 1)
  BY DEF AttemptsLeft
<1>4. IsFiniteSet(AttemptsLeft)
  BY <1>2, <1>3, FS_Subset
<1>5. Cardinality(AttemptsLeft) \in Nat
  BY <1>4, FS_CardinalityType
<1>6. ASSUME NEW S \in SUBSET AttemptsLeft
      PROVE  IsFiniteSet(S) /\ Cardinality(S) \in Nat /\ Cardinality(S) <= Cardinality(AttemptsLeft)
  BY <1>4, FS_Subset, FS_CardinalityType
<1>7. QED
  BY <1>2, <1>4, <1>5, <1>6

\* A pair is in AttemptsLeft by what its call does.
LEMMA AttemptsLeftOf ==
  \A c, n : <<c, n>> \in AttemptsLeft <=>
      /\ c \in Caller /\ n \in 1 .. MaxRetries + 1 /\ at[c] # "out"
      /\ attempt[c] < n \/ (attempt[c] = n /\ at[c] = "announcing")
  BY DEF AttemptsLeft

\* Where a call opens the circuit, no attempt of its own is left.
LEMMA AttemptsOfOthers ==
  ASSUME NEW c \in Caller, NEW S \in SUBSET ((Caller \ {c}) \X (1 .. MaxRetries + 1))
  PROVE  Cardinality(S) <= LoadBound
<1>1. /\ IsFiniteSet(Caller \ {c}) /\ Cardinality(Caller \ {c}) = Cardinality(Caller) - 1
      /\ Cardinality(Caller) \in Nat
  BY BreakerAssumption, FS_RemoveElement, FS_CardinalityType
<1>2. IsFiniteSet(1 .. MaxRetries + 1) /\ Cardinality(1 .. MaxRetries + 1) = MaxRetries + 1
  BY BreakerAssumption, FS_Interval
<1>3. /\ IsFiniteSet((Caller \ {c}) \X (1 .. MaxRetries + 1))
      /\ Cardinality((Caller \ {c}) \X (1 .. MaxRetries + 1)) = LoadBound
  BY <1>1, <1>2, FS_Product DEF LoadBound
<1>4. QED
  BY <1>3, FS_Subset

\* The bound is a number, also where there are no callers.
LEMMA LoadBoundIsInteger == LoadBound \in Int
  BY BreakerAssumption, FS_CardinalityType DEF LoadBound

\* A step that begins no attempt and gives no call more to begin.
LEMMA NoMoreLoad ==
  ASSUME LoadAndLeft, BreakerTypeOK, UNCHANGED <<circuit, load>>, AttemptsLeft' \subseteq AttemptsLeft
  PROVE  LoadAndLeft'
<1>1. Cardinality(AttemptsLeft') <= Cardinality(AttemptsLeft) /\ Cardinality(AttemptsLeft') \in Nat
  BY AttemptsLeftFinite
<1>2. QED
  BY <1>1, AttemptsLeftFinite, LoadBoundIsInteger DEF LoadAndLeft, BreakerTypeOK, LoadBound

\* Every step of the breaker keeps the types.
LEMMA BreakerTypeStep == BreakerTypeOK /\ [BreakerNext]_breakerVars => BreakerTypeOK'
<1> SUFFICES ASSUME BreakerTypeOK, [BreakerNext]_breakerVars PROVE BreakerTypeOK'
  OBVIOUS
<1> USE BreakerAssumption DEF BreakerTypeOK
<1>1. ASSUME NEW c \in Caller, Enter(c) PROVE BreakerTypeOK'
  BY <1>1 DEF Enter, Stay, CloseCircuit
<1>2. ASSUME NEW c \in Caller, Start(c) PROVE BreakerTypeOK'
  BY <1>2 DEF Start
<1>3. ASSUME NEW c \in Caller, Raise(c) PROVE BreakerTypeOK'
  BY <1>3 DEF Raise, Leave, Stay
<1>4. ASSUME NEW c \in Caller, Succeed(c) PROVE BreakerTypeOK'
  BY <1>4 DEF Succeed
<1>5. ASSUME NEW c \in Caller, Return(c) PROVE BreakerTypeOK'
  BY <1>5 DEF Return, Leave, Stay
<1>6. ASSUME NEW c \in Caller, Retry(c) PROVE BreakerTypeOK'
  BY <1>6 DEF Retry, Failing, Stay
<1>7. ASSUME NEW c \in Caller, Again(c) PROVE BreakerTypeOK'
  BY <1>7 DEF Again, Stay
<1>8. ASSUME NEW c \in Caller, Fail(c) PROVE BreakerTypeOK'
  BY <1>8 DEF Fail, Leave
<1>9. CASE ResetElapses
  BY <1>9 DEF ResetElapses
<1>10. CASE ClearAll
  BY <1>10 DEF ClearAll, CloseCircuit
<1>11. CASE UNCHANGED breakerVars
  BY <1>11 DEF breakerVars
<1>12. QED
  BY <1>1, <1>2, <1>3, <1>4, <1>5, <1>6, <1>7, <1>8, <1>9, <1>10, <1>11 DEF BreakerNext

\* An attempt that begins is one that was left; only a closed circuit admits more.
LEMMA BreakerLoadStep == BreakerInv /\ [BreakerNext]_breakerVars => LoadAndLeft'
<1> SUFFICES ASSUME BreakerTypeOK, LoadAndLeft, [BreakerNext]_breakerVars PROVE LoadAndLeft'
  BY DEF BreakerInv
<1>t. /\ attempt \in [Caller -> Nat] /\ MaxRetries \in Nat /\ load \in Nat
      /\ at \in [Caller -> {"out", "announcing", "calling", "reporting", "sleeping"}]
      /\ \A c \in Caller : attempt[c] \in 0 .. MaxRetries + 1
  BY BreakerAssumption DEF BreakerTypeOK
<1>1. ASSUME NEW c \in Caller, Enter(c) PROVE LoadAndLeft'
  BY <1>1 DEF Enter, Stay, CloseCircuit, LoadAndLeft
<1>2. ASSUME NEW c \in Caller, Start(c) PROVE LoadAndLeft'
  <2>1. CASE circuit = "closed"
    BY <1>2, <2>1 DEF Start, LoadAndLeft
  <2>2. CASE circuit # "closed"
    <3>1. at[c] = "announcing" /\ attempt[c] \in 1 .. MaxRetries + 1
      BY <1>2, <1>t DEF Start, BreakerTypeOK
    <3>2. <<c, attempt[c]>> \in AttemptsLeft
      BY <3>1, AttemptsLeftOf
    <3>3. AttemptsLeft' \subseteq AttemptsLeft \ {<<c, attempt[c]>>}
      BY <1>2, <1>t DEF Start, AttemptsLeft
    <3>4. /\ Cardinality(AttemptsLeft') <= Cardinality(AttemptsLeft \ {<<c, attempt[c]>>})
          /\ Cardinality(AttemptsLeft') \in Nat
      BY <3>3, AttemptsLeftFinite, FS_Subset
    <3>5. Cardinality(AttemptsLeft \ {<<c, attempt[c]>>}) = Cardinality(AttemptsLeft) - 1
      BY <3>2, AttemptsLeftFinite, FS_RemoveElement
    <3>6. load' = load + 1 /\ circuit' = circuit
      BY <1>2, <2>2 DEF Start
    <3>7. QED
      BY <2>2, <3>4, <3>5, <3>6, <1>t, AttemptsLeftFinite, LoadBoundIsInteger DEF LoadAndLeft, LoadBound
  <2>3. QED
    BY <2>1, <2>2
<1>3. ASSUME NEW c \in Caller, Raise(c) \/ Return(c) PROVE LoadAndLeft'
  BY <1>3, <1>t, NoMoreLoad DEF Raise, Return, Leave, Stay, AttemptsLeft
<1>4. ASSUME NEW c \in Caller, Succeed(c) PROVE LoadAndLeft'
  BY <1>4, <1>t, NoMoreLoad DEF Succeed, AttemptsLeft
<1>5. ASSUME NEW c \in Caller, Retry(c) PROVE LoadAndLeft'
  BY <1>5, <1>t, NoMoreLoad DEF Retry, Failing, Stay, AttemptsLeft
<1>6. ASSUME NEW c \in Caller, Again(c) PROVE LoadAndLeft'
  <2>1. AttemptsLeft' \subseteq AttemptsLeft
    BY <1>6, <1>t DEF Again, AttemptsLeft
  <2>2. QED
    BY <1>6, <2>1, NoMoreLoad DEF Again, Stay
<1>7. ASSUME NEW c \in Caller, Fail(c) PROVE LoadAndLeft'
  <2>1. AttemptsLeft' \subseteq AttemptsLeft
    BY <1>7, <1>t DEF Fail, Leave, AttemptsLeft
  <2>2. CASE circuit' = circuit
    BY <1>7, <2>1, <2>2, NoMoreLoad DEF Fail
  <2>3. CASE circuit' # circuit
    <3>1. circuit' = "open"
      BY <1>7, <2>3 DEF Fail
    <3>2. load' = load
      BY <1>7 DEF Fail
    <3>3. CASE circuit = "closed"
      <4>1. AttemptsLeft' \subseteq (Caller \ {c}) \X (1 .. MaxRetries + 1)
        BY <1>7, <1>t DEF Fail, Leave, AttemptsLeft
      <4>2. Cardinality(AttemptsLeft') <= LoadBound
        BY <4>1, AttemptsOfOthers
      <4>3. load' = 0
        BY <3>2, <3>3 DEF LoadAndLeft
      <4>4. Cardinality(AttemptsLeft)' \in Nat
        BY <2>1, AttemptsLeftFinite
      <4>5. QED
        BY <3>1, <4>2, <4>3, <4>4 DEF LoadAndLeft
    <3>4. CASE circuit # "closed"
      <4>1. Cardinality(AttemptsLeft') <= Cardinality(AttemptsLeft) /\ Cardinality(AttemptsLeft') \in Nat
        BY <2>1, AttemptsLeftFinite
      <4>2. QED
        BY <3>1, <3>2, <3>4, <4>1, <1>t, AttemptsLeftFinite, LoadBoundIsInteger DEF LoadAndLeft, LoadBound
    <3>5. QED
      BY <3>3, <3>4
  <2>4. QED
    BY <2>2, <2>3
<1>8. CASE ResetElapses
  <2>1. AttemptsLeft' = AttemptsLeft
    BY <1>8 DEF ResetElapses, AttemptsLeft
  <2>2. QED
    BY <1>8, <2>1 DEF ResetElapses, LoadAndLeft, LoadBound
<1>9. CASE ClearAll
  BY <1>9 DEF ClearAll, CloseCircuit, LoadAndLeft
<1>10. CASE UNCHANGED breakerVars
  BY <1>10, NoMoreLoad DEF breakerVars, AttemptsLeft
<1>11. QED
  BY <1>1, <1>2, <1>3, <1>4, <1>5, <1>6, <1>7, <1>8, <1>9, <1>10 DEF BreakerNext

\* The circuit is closed in the beginning.
LEMMA BreakerBegins == BreakerInit => BreakerInv
  BY BreakerAssumption DEF BreakerInit, BreakerInv, BreakerTypeOK, LoadAndLeft

(***************************************************************************)
(* For any number of callers, retries and failures, a circuit that has     *)
(* opened lets through no more attempts than the calls under way had left  *)
(* (CircuitBreaker, ResilientExecutor.execute).                            *)
(***************************************************************************)
THEOREM LoadIsBounded == BreakerSpec => []LoadWhileOpen
<1>1. BreakerInit => BreakerInv
  BY BreakerBegins
<1>2. BreakerInv /\ [BreakerNext]_breakerVars => BreakerInv'
  BY BreakerTypeStep, BreakerLoadStep DEF BreakerInv
<1>3. BreakerInv => LoadWhileOpen
  BY AttemptsLeftFinite, LoadBoundIsInteger
  DEF BreakerInv, LoadAndLeft, LoadWhileOpen, BreakerTypeOK, LoadBound
<1>4. QED
  BY <1>1, <1>2, <1>3, PTL DEF BreakerSpec

-----------------------------------------------------------------------------
(* AsyncMemo *)

StoredEntry == [key : Key, what : {"value"}]

MemoTyped ==
    /\ values \in Seq(StoredEntry)
    /\ young \subseteq Key
    /\ pending \in [Key -> Outcome \cup {"none", "running", "cancelling"}]
    /\ reader \in [Reader -> [pc : {"away", "waiting", "computing", "woken"}, key : Key \cup {NoKey},
                              refresh : BOOLEAN, what : Outcome \cup {"none"}]]
    /\ got \in [Reader -> [from : {"none", "stored", "shared", "own"}, what : Outcome \cup {"none"},
                           refresh : BOOLEAN]]
    /\ closed \in {"no", "closing", "yes"}

\* A computation is cancelled, and a reader hears of it, only after close began.
CancelledByClose ==
    /\ \A k \in Key : pending[k] \in {"cancelling", "cancelled"} => closed # "no"
    /\ \A r \in Reader : reader[r].what = "cancelled" => closed # "no"

MemoInv == MemoTyped /\ CancelledByClose /\ AnswersAreSound

\* What is stored without one key is a sequence of what was stored.
LEMMA WithoutTyped ==
  ASSUME values \in Seq(StoredEntry), NEW k \in Key
  PROVE  Without(k) \in Seq(StoredEntry)
<1> DEFINE i == CHOOSE j \in StoredAt(k) : TRUE
<1>1. CASE StoredAt(k) = {}
  BY <1>1 DEF Without
<1>2. CASE StoredAt(k) # {}
  <2>1. i \in DOMAIN values /\ DOMAIN values = 1 .. Len(values) /\ Len(values) \in Nat
    BY <1>2 DEF StoredAt
  <2> HIDE DEF i
  <2>2. /\ SubSeq(values, 1, i - 1) \in Seq(StoredEntry)
        /\ SubSeq(values, i + 1, Len(values)) \in Seq(StoredEntry)
    <3>1. /\ \A j \in 1 .. i - 1 : values[j] \in StoredEntry
          /\ \A j \in i + 1 .. Len(values) : values[j] \in StoredEntry
      BY <2>1
    <3>2. i - 1 \in Int /\ i + 1 \in Int /\ 1 \in Int /\ Len(values) \in Int
      BY <2>1
    <3>3. SubSeq(values, 1, i - 1) \in Seq(StoredEntry)
      BY <3>1, <3>2, SubSeqProperties
    <3>4. SubSeq(values, i + 1, Len(values)) \in Seq(StoredEntry)
      BY <3>1, <3>2, SubSeqProperties
    <3>5. QED
      BY <3>3, <3>4
  <2>3. RemoveAt(values, i) \in Seq(StoredEntry)
    BY <2>2, ConcatProperties DEF RemoveAt
  <2>4. QED
    BY <1>2, <2>3 DEF Without, i
<1>3. QED
  BY <1>1, <1>2

\* What is stored after a computation ended is a sequence of values.
LEMMA KeepTyped ==
  ASSUME values \in Seq(StoredEntry), young \subseteq Key, NEW k \in Key, pending[k] = "value", Keep(k)
  PROVE  values' \in Seq(StoredEntry) /\ young' \subseteq Key
<1> DEFINE all == Append(Without(k), [key |-> k, what |-> pending[k]])
<1>1. all \in Seq(StoredEntry) /\ all # <<>>
  <2>1. Without(k) \in Seq(StoredEntry) /\ [key |-> k, what |-> pending[k]] \in StoredEntry
    BY WithoutTyped DEF StoredEntry
  <2>2. QED
    BY <2>1, AppendProperties
<1>2. Tail(all) \in Seq(StoredEntry)
  BY <1>1, HeadTailProperties
<1>3. values' = IF Len(all) > Capacity THEN Tail(all) ELSE all
  BY DEF Keep
<1>4. values' \in Seq(StoredEntry)
  BY <1>1, <1>2, <1>3
<1>5. young' \subseteq young \cup {k}
  BY DEF Keep
<1>6. QED
  BY <1>4, <1>5

\* Every step of the memo keeps its invariant.
LEMMA MemoStep == MemoInv /\ [MemoNext]_memoVars => MemoInv'
<1> SUFFICES ASSUME MemoInv, [MemoNext]_memoVars PROVE MemoInv'
  OBVIOUS
<1> USE MemoAssumption DEF MemoInv, MemoTyped, CancelledByClose, AnswersAreSound, Outcome
<1>1. ASSUME NEW r \in Reader, NEW k \in Key, NEW refresh \in BOOLEAN, Hit(r, k, refresh) PROVE MemoInv'
  <2>1. PICK i \in DOMAIN values : /\ ~refresh /\ End(r, "stored", values[i].what, refresh)
                                   /\ values' = Append(Without(k), values[i])
                                   /\ UNCHANGED <<young, pending, closed>>
    BY <1>1 DEF Hit
  <2>2. values[i] \in StoredEntry /\ values[i].what = "value"
    <3>1. values \in Seq(StoredEntry)
      OBVIOUS
    <3>2. values[i] \in StoredEntry
      BY <3>1
    <3>3. QED
      BY <3>2 DEF StoredEntry
  <2>3. values' \in Seq(StoredEntry)
    BY <2>1, <2>2, WithoutTyped, AppendProperties
  <2>4. QED
    BY <2>1, <2>2, <2>3 DEF End, Away
<1>2. ASSUME NEW r \in Reader, NEW k \in Key, NEW refresh \in BOOLEAN, Join(r, k, refresh) PROVE MemoInv'
  <2>1. values' \in Seq(StoredEntry) /\ young' \subseteq Key
    BY <1>2, WithoutTyped DEF Join, Drop
  <2>2. CASE Await(r, "waiting", k, refresh)
    BY <1>2, <2>1, <2>2 DEF Join, Await, NoAnswer
  <2>3. CASE pending[k] \in Outcome /\ End(r, "shared", pending[k], refresh)
    BY <1>2, <2>1, <2>3 DEF Join, End, Away
  <2>4. QED
    BY <1>2, <2>2, <2>3 DEF Join
<1>3. ASSUME NEW r \in Reader, NEW k \in Key, NEW refresh \in BOOLEAN, Compute(r, k, refresh)
      PROVE  MemoInv'
  <2>1. values' \in Seq(StoredEntry) /\ young' \subseteq Key
    BY <1>3, WithoutTyped DEF Compute, Drop
  <2>2. QED
    BY <1>3, <2>1 DEF Compute, Await, NoAnswer
<1>4. ASSUME NEW r \in Reader, NEW k \in Key, NEW refresh \in BOOLEAN, Bypass(r, k, refresh)
      PROVE  MemoInv'
  <2>1. values' \in Seq(StoredEntry) /\ young' \subseteq Key
    BY <1>4, WithoutTyped DEF Bypass, Drop
  <2>2. QED
    BY <1>4, <2>1 DEF Bypass, Await, NoAnswer
<1>5. ASSUME NEW r \in Reader, EndBypass(r) PROVE MemoInv'
  BY <1>5 DEF EndBypass, End, Away
<1>6. ASSUME NEW r \in Reader, Wake(r) PROVE MemoInv'
  BY <1>6 DEF Wake, End, Away
<1>7. ASSUME NEW r \in Reader, Cancel(r) PROVE MemoInv'
  BY <1>7 DEF Cancel, Away, NoAnswer
<1>8. ASSUME NEW k \in Key, Settle(k) PROVE MemoInv'
  BY <1>8 DEF Settle
<1>9. ASSUME NEW k \in Key, Completed(k) PROVE MemoInv'
  <2>1. values' \in Seq(StoredEntry) /\ young' \subseteq Key
    BY <1>9, KeepTyped DEF Completed
  <2>2. /\ reader' \in [Reader -> [pc : {"away", "waiting", "computing", "woken"}, key : Key \cup {NoKey},
                                   refresh : BOOLEAN, what : Outcome \cup {"none"}]]
        /\ \A r \in Reader : reader'[r].what \in {reader[r].what, pending[k]}
    <3> DEFINE woken(r) == IF reader[r].pc = "waiting" /\ reader[r].key = k
                           THEN [reader[r] EXCEPT !.pc = "woken", !.what = pending[k]]
                           ELSE reader[r]
    <3>1. reader' = [r \in Reader |-> woken(r)] /\ pending[k] \in Outcome
      BY <1>9 DEF Completed, WakeWaiting
    <3>2. ASSUME NEW r \in Reader
          PROVE  /\ woken(r) \in [pc : {"away", "waiting", "computing", "woken"}, key : Key \cup {NoKey},
                                  refresh : BOOLEAN, what : Outcome \cup {"none"}]
                 /\ woken(r).what \in {reader[r].what, pending[k]}
      BY <3>1
    <3> HIDE DEF woken
    <3>3. QED
      BY <3>1, <3>2
  <2>3. QED
    BY <1>9, <2>1, <2>2 DEF Completed
<1>10. ASSUME NEW k \in Key, Age(k) PROVE MemoInv'
  BY <1>10 DEF Age
<1>11. CASE Close
  BY <1>11 DEF Close
<1>12. CASE ClearValues
  BY <1>12 DEF ClearValues
<1>13. CASE UNCHANGED memoVars
  BY <1>13 DEF memoVars
<1>14. QED
  BY <1>1, <1>2, <1>3, <1>4, <1>5, <1>6, <1>7, <1>8, <1>9, <1>10, <1>11, <1>12, <1>13 DEF MemoNext

\* A memo begins with nothing.
LEMMA MemoBegins == MemoInit => MemoInv
  BY MemoAssumption
  DEF MemoInit, MemoInv, MemoTyped, CancelledByClose, AnswersAreSound, Away, NoAnswer, Outcome

(***************************************************************************)
(* For any keys, readers and capacity: no refresh is given a stored value, *)
(* no failure is stored, and only close cancels (AsyncMemo).               *)
(***************************************************************************)
THEOREM CacheIsSound == MemoSpec => []AnswersAreSound
<1>1. MemoInit => MemoInv
  BY MemoBegins
<1>2. MemoInv => AnswersAreSound
  BY DEF MemoInv
<1>3. QED
  BY <1>1, <1>2, MemoStep, PTL DEF MemoSpec

\* No key is stored twice, a key that is young is stored, and no more values are
\* kept and computations shared than the cache may hold.
MemoCounted ==
    /\ Len(values) <= Capacity
    /\ \A i, j \in 1 .. Len(values) : values[i].key = values[j].key => i = j
    /\ \A x \in young : \E i \in 1 .. Len(values) : values[i].key = x
    /\ IsFiniteSet(Pending) /\ Cardinality(Pending) <= Capacity
    /\ \A r \in Reader : reader[r].pc = "waiting" => reader[r].key \in Pending

\* A list without what is at one place.
LEMMA RemovedAt ==
  ASSUME NEW S, NEW list \in Seq(S), NEW i \in 1 .. Len(list)
  PROVE  /\ Len(RemoveAt(list, i)) = Len(list) - 1
         /\ \A j \in 1 .. Len(list) - 1 : RemoveAt(list, i)[j] = IF j < i THEN list[j] ELSE list[j + 1]
<1> DEFINE front == SubSeq(list, 1, i - 1)
           back == SubSeq(list, i + 1, Len(list))
<1>1. Len(list) \in Nat /\ i \in Int /\ i - 1 \in Int /\ i + 1 \in Int /\ 1 \in Int /\ Len(list) \in Int
  BY LenProperties
<1>2. /\ front \in Seq(S) /\ Len(front) = i - 1 /\ \A j \in 1 .. i - 1 : front[j] = list[j]
  <2>1. \A j \in 1 .. i - 1 : list[j] \in S
    BY <1>1
  <2>2. QED
    BY <1>1, <2>1, SubSeqProperties
<1>3. /\ back \in Seq(S) /\ Len(back) = Len(list) - i
      /\ \A j \in 1 .. Len(list) - i : back[j] = list[i + j]
  <2>1. \A j \in i + 1 .. Len(list) : list[j] \in S
    BY <1>1
  <2>2. /\ back \in Seq(S) /\ Len(back) = IF i + 1 <= Len(list) THEN Len(list) - (i + 1) + 1 ELSE 0
        /\ \A j \in 1 .. Len(list) - (i + 1) + 1 : back[j] = list[i + 1 + j - 1]
    BY <1>1, <2>1, SubSeqProperties
  <2> HIDE DEF back
  <2>3. Len(back) = Len(list) - i /\ Len(list) - (i + 1) + 1 = Len(list) - i
    BY <1>1, <2>2
  <2>4. \A j \in 1 .. Len(list) - i : i + 1 + j - 1 = i + j
    BY <1>1
  <2>5. QED
    BY <2>2, <2>3, <2>4
<1>4. RemoveAt(list, i) = front \o back
  BY DEF RemoveAt
<1> HIDE DEF front, back
<1>5. /\ Len(front \o back) = Len(front) + Len(back)
      /\ \A j \in 1 .. Len(front) + Len(back) :
           (front \o back)[j] = IF j <= Len(front) THEN front[j] ELSE back[j - Len(front)]
  BY <1>2, <1>3, ConcatProperties
<1>6. ASSUME NEW j \in 1 .. Len(list) - 1
      PROVE  (front \o back)[j] = IF j < i THEN list[j] ELSE list[j + 1]
  <2>1. CASE j < i
    BY <1>1, <1>2, <1>3, <1>5, <2>1
  <2>2. CASE ~(j < i)
    <3>1. /\ j - Len(front) \in 1 .. Len(list) - i /\ ~(j <= Len(front)) /\ j \in 1 .. Len(front) + Len(back)
          /\ i + (j - Len(front)) = j + 1
      BY <1>1, <1>2, <1>3, <2>2
    <3>2. (front \o back)[j] = back[j - Len(front)]
      BY <1>5, <3>1
    <3>3. QED
      BY <1>3, <2>2, <3>1, <3>2
  <2>3. QED
    BY <2>1, <2>2
<1>7. QED
  BY <1>1, <1>2, <1>3, <1>4, <1>5, <1>6

\* What is stored besides a key.
Besides(rest, k) ==
    /\ Len(rest) \in Nat /\ Len(rest) <= Len(values)
    /\ (\E i \in 1 .. Len(values) : values[i].key = k) => Len(rest) < Len(values)
    /\ \A j \in 1 .. Len(rest) : rest[j].key # k
    /\ \A i, j \in 1 .. Len(rest) : rest[i].key = rest[j].key => i = j
    /\ \A x : x # k /\ (\E i \in 1 .. Len(values) : values[i].key = x)
              => \E j \in 1 .. Len(rest) : rest[j].key = x

\* What is stored without a key is all that was stored besides it.
LEMMA WithoutLeaves ==
  ASSUME MemoTyped, MemoCounted, NEW k \in Key
  PROVE  Besides(Without(k), k)
<1>1. /\ values \in Seq(StoredEntry) /\ Len(values) \in Nat /\ DOMAIN values = 1 .. Len(values)
      /\ \A i, j \in 1 .. Len(values) : values[i].key = values[j].key => i = j
  BY LenProperties DEF MemoTyped, MemoCounted
<1>2. CASE StoredAt(k) = {}
  BY <1>1, <1>2 DEF Without, StoredAt, Besides
<1>3. CASE StoredAt(k) # {}
  <2> DEFINE i == CHOOSE j \in StoredAt(k) : TRUE
             rest == RemoveAt(values, i)
  <2>1. i \in 1 .. Len(values) /\ values[i].key = k
    BY <1>1, <1>3 DEF StoredAt
  <2>2. Without(k) = rest
    BY <1>3 DEF Without
  <2> HIDE DEF i
  <2>3. /\ Len(rest) = Len(values) - 1
        /\ \A j \in 1 .. Len(values) - 1 : rest[j] = IF j < i THEN values[j] ELSE values[j + 1]
    BY <1>1, <2>1, RemovedAt
  <2> HIDE DEF rest
  <2>4. /\ Len(rest) \in Nat /\ Len(rest) < Len(values) /\ i \in Nat
    BY <1>1, <2>1, <2>3
  <2> DEFINE was(j) == IF j < i THEN j ELSE j + 1
  <2>5. ASSUME NEW j \in 1 .. Len(rest)
        PROVE  was(j) \in 1 .. Len(values) /\ was(j) # i /\ rest[j] = values[was(j)]
    BY <1>1, <2>1, <2>3, <2>4
  <2>6. ASSUME NEW g \in 1 .. Len(rest), NEW h \in 1 .. Len(rest), was(g) = was(h) PROVE g = h
    BY <2>4, <2>6
  <2>7. ASSUME NEW j \in 1 .. Len(values), j # i PROVE \E h \in 1 .. Len(rest) : rest[h] = values[j]
    <3>1. CASE j < i
      <4>1. j \in 1 .. Len(values) - 1
        BY <1>1, <2>1, <2>4, <3>1
      <4>2. QED
        BY <2>3, <3>1, <4>1
    <3>2. CASE ~(j < i)
      <4>1. /\ j - 1 \in 1 .. Len(values) - 1 /\ ~(j - 1 < i) /\ (j - 1) + 1 = j
        BY <1>1, <2>1, <2>4, <2>7, <3>2
      <4>2. rest[j - 1] = values[j]
        BY <2>3, <4>1
      <4>3. QED
        BY <2>3, <4>1, <4>2
    <3>3. QED
      BY <3>1, <3>2
  <2> HIDE DEF was
  <2>8. \A j \in 1 .. Len(rest) : rest[j].key # k
    BY <1>1, <2>1, <2>5
  <2>9. \A g, h \in 1 .. Len(rest) : rest[g].key = rest[h].key => g = h
    BY <1>1, <2>5, <2>6
  <2>10. \A x : x # k /\ (\E j \in 1 .. Len(values) : values[j].key = x)
                => \E j \in 1 .. Len(rest) : rest[j].key = x
    BY <2>1, <2>7
  <2>11. QED
    BY <2>2, <2>4, <2>8, <2>9, <2>10 DEF Besides
<1>4. QED
  BY <1>2, <1>3

\* All that is stored besides a key, with an entry of that key behind it; then no key
\* is there twice, nor without its first entry.
KeyBehind(all, rest, k) ==
    /\ all \in Seq(StoredEntry) /\ Len(rest) \in Nat /\ Len(all) = Len(rest) + 1
    /\ \A i, j \in 1 .. Len(all) : all[i].key = all[j].key => i = j
    /\ \A x : x = k \/ (\E i \in 1 .. Len(values) : values[i].key = x)
              => \E j \in 1 .. Len(all) : all[j].key = x
    /\ Tail(all) \in Seq(StoredEntry) /\ Len(Tail(all)) = Len(rest)
    /\ \A i, j \in 1 .. Len(Tail(all)) : Tail(all)[i].key = Tail(all)[j].key => i = j

\* An entry that is appended is behind what is stored besides its key.
LEMMA AppendedKey ==
  ASSUME MemoTyped, NEW k \in Key, NEW rest \in Seq(StoredEntry), Besides(rest, k),
         NEW e \in StoredEntry, e.key = k
  PROVE  KeyBehind(Append(rest, e), rest, k)
<1> DEFINE all == Append(rest, e)
<1>1. /\ all \in Seq(StoredEntry) /\ Len(all) = Len(rest) + 1 /\ Len(rest) \in Nat
      /\ \A i \in 1 .. Len(rest) : all[i] = rest[i]
      /\ all[Len(rest) + 1] = e
  BY AppendProperties, LenProperties
<1> HIDE DEF all
<1>2. \A i \in 1 .. Len(all) : i \in 1 .. Len(rest) \/ i = Len(rest) + 1
  BY <1>1
<1>3. \A i \in 1 .. Len(rest) : i # Len(rest) + 1 /\ i \in 1 .. Len(all)
  BY <1>1
<1>4. \A i, j \in 1 .. Len(all) : all[i].key = all[j].key => i = j
  BY <1>1, <1>2, <1>3 DEF Besides
<1>5. /\ Len(rest) + 1 \in 1 .. Len(all)
      /\ \A j \in 1 .. Len(rest) : j \in 1 .. Len(all) /\ all[j].key = rest[j].key
  BY <1>1
<1>6. ASSUME NEW x, x = k \/ (\E i \in 1 .. Len(values) : values[i].key = x)
      PROVE  \E j \in 1 .. Len(all) : all[j].key = x
  <2>1. CASE x = k
    BY <1>1, <1>5, <2>1
  <2>2. CASE x # k
    <3>1. PICK j \in 1 .. Len(rest) : rest[j].key = x
      BY <1>6, <2>2 DEF Besides
    <3>2. QED
      BY <1>5, <3>1
  <2>3. QED
    BY <2>1, <2>2
<1>7. /\ Len(Tail(all)) = Len(rest) /\ Tail(all) \in Seq(StoredEntry)
      /\ \A i \in 1 .. Len(rest) : Tail(all)[i] = all[i + 1] /\ i + 1 \in 1 .. Len(all)
  <2>1. all # <<>> /\ Len(Tail(all)) = Len(all) - 1 /\ Tail(all) \in Seq(StoredEntry)
    BY <1>1, EmptySeq, HeadTailProperties
  <2>2. \A i \in 1 .. Len(Tail(all)) : Tail(all)[i] = all[i + 1]
    BY <1>1, <2>1, HeadTailProperties
  <2>3. QED
    BY <1>1, <2>1, <2>2
<1>8. \A i, j \in 1 .. Len(Tail(all)) : Tail(all)[i].key = Tail(all)[j].key => i = j
  <2> SUFFICES ASSUME NEW i \in 1 .. Len(rest), NEW j \in 1 .. Len(rest), Tail(all)[i].key = Tail(all)[j].key
               PROVE  i = j
    BY <1>7
  <2>1. i + 1 = j + 1
    BY <1>4, <1>7
  <2>2. QED
    BY <2>1
<1>9. KeyBehind(all, rest, k)
  BY <1>1, <1>4, <1>6, <1>7, <1>8 DEF KeyBehind
<1>10. QED
  BY <1>9 DEF all

\* What a step that keeps nothing new leaves of the stored values.
LEMMA DroppedCounted ==
  ASSUME MemoTyped, MemoCounted, NEW k \in Key, Drop(k)
  PROVE  /\ Len(values') <= Capacity
         /\ \A i, j \in 1 .. Len(values') : values'[i].key = values'[j].key => i = j
         /\ \A x \in young' : \E i \in 1 .. Len(values') : values'[i].key = x
<1>1. Besides(values', k)
  BY WithoutLeaves DEF Drop
<1>2. Len(values) \in Nat /\ Len(values') \in Nat /\ Len(values') <= Len(values) /\ Len(values) <= Capacity
  BY <1>1, LenProperties DEF Besides, MemoTyped, MemoCounted
<1>3. \A x \in young' : x # k /\ \E i \in 1 .. Len(values) : values[i].key = x
  BY DEF Drop, MemoCounted
<1>4. QED
  BY <1>1, <1>2, <1>3, MemoAssumption DEF Besides

\* Every step of the memo keeps its numbers.
LEMMA MemoCountedStep == MemoInv /\ MemoCounted /\ [MemoNext]_memoVars => MemoCounted'
<1> SUFFICES ASSUME MemoInv, MemoCounted, [MemoNext]_memoVars PROVE MemoCounted'
  OBVIOUS
<1>0. /\ MemoTyped /\ values \in Seq(StoredEntry) /\ Len(values) \in Nat /\ DOMAIN values = 1 .. Len(values)
      /\ \A r \in Reader : reader[r].pc = "waiting" => reader[r].key \in Pending
      /\ IsFiniteSet(Pending) /\ Cardinality(Pending) <= Capacity /\ Cardinality(Pending) \in Nat
  BY LenProperties, FS_CardinalityType DEF MemoInv, MemoTyped, MemoCounted
<1>1. ASSUME NEW r \in Reader, NEW k \in Key, NEW refresh \in BOOLEAN, Hit(r, k, refresh)
      PROVE  MemoCounted'
  <2>1. PICK i \in 1 .. Len(values) : /\ values[i].key = k /\ End(r, "stored", values[i].what, refresh)
                                      /\ values' = Append(Without(k), values[i])
                                      /\ UNCHANGED <<young, pending, closed>>
    BY <1>0, <1>1 DEF Hit
  <2>2. /\ Besides(Without(k), k) /\ Without(k) \in Seq(StoredEntry) /\ values[i] \in StoredEntry
    BY <1>0, WithoutLeaves, WithoutTyped
  <2>k. KeyBehind(values', Without(k), k)
    BY <1>0, <2>1, <2>2, AppendedKey
  <2>3. /\ Len(values') = Len(Without(k)) + 1
        /\ \A g, h \in 1 .. Len(values') : values'[g].key = values'[h].key => g = h
        /\ \A x : (\E h \in 1 .. Len(values) : values[h].key = x)
                  => \E h \in 1 .. Len(values') : values'[h].key = x
    BY <2>k DEF KeyBehind
  <2>4. Len(Without(k)) \in Nat /\ Len(Without(k)) < Len(values)
    BY <2>1, <2>2 DEF Besides
  <2>5. Len(values') <= Capacity
    BY <1>0, <2>3, <2>4, MemoAssumption DEF MemoCounted
  <2>6. \A q \in Reader : reader'[q].pc = "waiting" => reader'[q] = reader[q]
    BY <1>0, <2>1 DEF End, Away, MemoTyped
  <2>7. Pending' = Pending
    BY <2>1 DEF Pending
  <2>8. \A x \in young' : \E h \in 1 .. Len(values') : values'[h].key = x
    BY <2>1, <2>3 DEF MemoCounted
  <2>9. \A q \in Reader : reader'[q].pc = "waiting" => reader'[q].key \in Pending'
    BY <1>0, <2>6, <2>7
  <2>10. QED
    BY <1>0, <2>3, <2>5, <2>7, <2>8, <2>9 DEF MemoCounted
<1>2. ASSUME NEW r \in Reader, NEW k \in Key, NEW refresh \in BOOLEAN, Join(r, k, refresh)
      PROVE  MemoCounted'
  <2>1. Pending' = Pending /\ (pending[k] # "none" => k \in Pending)
    BY <1>2 DEF Join, Pending
  <2>2. \A q \in Reader : reader'[q].pc = "waiting" => reader'[q].key \in Pending
    BY <1>0, <1>2, <2>1 DEF Join, Await, End, Away, MemoTyped
  <2>3. QED
    BY <1>0, <1>2, <2>1, <2>2, DroppedCounted DEF Join, MemoCounted
<1>3. ASSUME NEW r \in Reader, NEW k \in Key, NEW refresh \in BOOLEAN, Compute(r, k, refresh)
      PROVE  MemoCounted'
  <2>1. Pending' = Pending \cup {k} /\ k \notin Pending /\ Cardinality(Pending) < Capacity
    BY <1>0, <1>3 DEF Compute, Pending, MemoTyped
  <2>2. IsFiniteSet(Pending') /\ Cardinality(Pending') = Cardinality(Pending) + 1
    BY <1>0, <2>1, FS_AddElement
  <2>3. Cardinality(Pending') <= Capacity
    BY <1>0, <2>1, <2>2, MemoAssumption
  <2>4. \A q \in Reader : reader'[q].pc = "waiting" => reader'[q].key \in Pending'
    BY <1>0, <1>3, <2>1 DEF Compute, Await, MemoTyped
  <2>5. QED
    BY <1>0, <1>3, <2>2, <2>3, <2>4, DroppedCounted DEF Compute, MemoCounted
<1>4. ASSUME NEW r \in Reader, NEW k \in Key, NEW refresh \in BOOLEAN, Bypass(r, k, refresh)
      PROVE  MemoCounted'
  <2>1. Pending' = Pending
    BY <1>4 DEF Bypass, Pending
  <2>2. \A q \in Reader : reader'[q].pc = "waiting" => reader'[q].key \in Pending
    BY <1>0, <1>4 DEF Bypass, Await, MemoTyped
  <2>3. QED
    BY <1>0, <1>4, <2>1, <2>2, DroppedCounted DEF Bypass, MemoCounted
<1>5. ASSUME NEW r \in Reader, EndBypass(r) \/ Wake(r) \/ Cancel(r) PROVE MemoCounted'
  <2>1. UNCHANGED <<values, young, pending>> /\ reader' = [reader EXCEPT ![r] = Away]
    BY <1>5 DEF EndBypass, Wake, Cancel, End
  <2>2. \A q \in Reader : reader'[q].pc = "waiting" => reader'[q] = reader[q]
    BY <1>0, <2>1 DEF Away, MemoTyped
  <2>3. Pending' = Pending
    BY <2>1 DEF Pending
  <2>4. QED
    BY <1>0, <2>1, <2>2, <2>3 DEF MemoCounted
<1>6. ASSUME NEW k \in Key, Settle(k) PROVE MemoCounted'
  <2>1. Pending' = Pending
    BY <1>0, <1>6 DEF Settle, Pending, MemoTyped
  <2>2. QED
    BY <1>6, <2>1 DEF Settle, MemoCounted
<1>7. ASSUME NEW k \in Key, Completed(k) PROVE MemoCounted'
  <2>1. Pending' = Pending \ {k} /\ pending[k] \in Outcome /\ WakeWaiting(k)
    BY <1>0, <1>7 DEF Completed, Pending, MemoTyped
  <2>2. IsFiniteSet(Pending') /\ Cardinality(Pending') <= Capacity
    <3>1. IsFiniteSet(Pending') /\ Cardinality(Pending') <= Cardinality(Pending) /\ Cardinality(Pending') \in Nat
      BY <1>0, <2>1, FS_Subset, FS_CardinalityType
    <3>2. QED
      BY <1>0, <3>1, MemoAssumption
  <2>3. \A q \in Reader : reader'[q].pc = "waiting" => reader'[q].key \in Pending'
    <3>1. ASSUME NEW q \in Reader, reader[q].pc = "waiting", reader[q].key = k
          PROVE  reader'[q].pc = "woken"
      <4>1. reader'[q] = [reader[q] EXCEPT !.pc = "woken", !.what = pending[k]]
        BY <2>1, <3>1 DEF WakeWaiting
      <4>2. reader[q] \in [pc : {"away", "waiting", "computing", "woken"}, key : Key \cup {NoKey},
                           refresh : BOOLEAN, what : Outcome \cup {"none"}]
        BY <1>0 DEF MemoTyped
      <4>3. QED
        BY <4>1, <4>2
    <3>2. ASSUME NEW q \in Reader, ~(reader[q].pc = "waiting" /\ reader[q].key = k)
          PROVE  reader'[q] = reader[q]
      BY <2>1, <3>2 DEF WakeWaiting
    <3>3. QED
      BY <1>0, <2>1, <3>1, <3>2
  <2>4. CASE pending[k] = "value"
    <3> DEFINE rest == Without(k)
               e == [key |-> k, what |-> "value"]
               all == Append(rest, e)
    <3>1. Besides(rest, k) /\ rest \in Seq(StoredEntry) /\ e \in StoredEntry /\ e.key = k
      BY <1>0, WithoutLeaves, WithoutTyped DEF StoredEntry
    <3> HIDE DEF rest, e
    <3>k. KeyBehind(all, rest, k)
      BY <1>0, <3>1, AppendedKey
    <3> HIDE DEF all
    <3>2. /\ Len(all) = Len(rest) + 1 /\ Len(all) \in Nat
          /\ \A i, j \in 1 .. Len(all) : all[i].key = all[j].key => i = j
          /\ Len(Tail(all)) = Len(rest)
          /\ \A i, j \in 1 .. Len(Tail(all)) : Tail(all)[i].key = Tail(all)[j].key => i = j
          /\ all \in Seq(StoredEntry) /\ Tail(all) \in Seq(StoredEntry)
      BY <3>k DEF KeyBehind
    <3>3. Len(rest) \in Nat /\ Len(rest) <= Capacity
      BY <1>0, <3>1, MemoAssumption DEF Besides, MemoCounted
    <3>4. /\ values' = IF Len(all) > Capacity THEN Tail(all) ELSE all
          /\ young' \subseteq {x \in young \cup {k} : \E i \in DOMAIN values' : values'[i].key = x}
      BY <1>7, <2>4 DEF Completed, Keep, rest, e, all
    <3>5. /\ Len(values') <= Capacity
          /\ \A i, j \in 1 .. Len(values') : values'[i].key = values'[j].key => i = j
      BY <3>2, <3>3, <3>4, MemoAssumption
    <3>6. values' \in Seq(StoredEntry)
      BY <3>2, <3>4
    <3>7. DOMAIN values' = 1 .. Len(values')
      BY <3>6
    <3>8. QED
      BY <2>2, <2>3, <3>4, <3>5, <3>7 DEF MemoCounted
  <2>5. CASE pending[k] # "value"
    BY <1>7, <2>2, <2>3, <2>5 DEF Completed, MemoCounted
  <2>6. QED
    BY <2>4, <2>5
<1>8. ASSUME NEW k \in Key, Age(k) PROVE MemoCounted'
  BY <1>8 DEF Age, MemoCounted, Pending
<1>9. CASE Close
  <2>1. Pending' = Pending
    BY <1>0, <1>9 DEF Close, Pending, MemoTyped
  <2>2. QED
    BY <1>9, <2>1 DEF Close, MemoCounted
<1>10. CASE ClearValues
  <2>1. values' = <<>> /\ young' = {} /\ UNCHANGED reader /\ Pending' = Pending
    BY <1>10 DEF ClearValues, Pending
  <2>2. Len(values') = 0
    BY <2>1
  <2>3. QED
    BY <1>0, <2>1, <2>2, MemoAssumption DEF MemoCounted
<1>11. CASE UNCHANGED memoVars
  BY <1>11 DEF memoVars, MemoCounted, Pending
<1>12. QED
  BY <1>1, <1>2, <1>3, <1>4, <1>5, <1>6, <1>7, <1>8, <1>9, <1>10, <1>11 DEF MemoNext

\* What the memo begins with, and that its types say what its properties state.
LEMMA MemoTypes ==
  /\ MemoInit => MemoInv /\ MemoCounted
  /\ MemoInv /\ MemoCounted => MemoTypeOK
<1>1. MemoInit => MemoInv
  BY MemoBegins
<1>2. MemoInit => MemoCounted
  <2> SUFFICES ASSUME MemoInit PROVE MemoCounted
    OBVIOUS
  <2>1. values = <<>> /\ young = {} /\ Pending = {} /\ \A r \in Reader : reader[r].pc # "waiting"
    BY DEF MemoInit, Pending, Away
  <2>2. Len(values) = 0 /\ IsFiniteSet({}) /\ Cardinality({}) = 0
    BY <2>1, FS_EmptySet
  <2>3. QED
    BY <2>1, <2>2, MemoAssumption DEF MemoCounted
<1>3. MemoInv /\ MemoCounted => MemoTypeOK
  <2> SUFFICES ASSUME MemoInv, MemoCounted PROVE MemoTypeOK
    OBVIOUS
  <2>1. values \in Seq(StoredEntry) /\ DOMAIN values = 1 .. Len(values)
    BY DEF MemoInv, MemoTyped
  <2>2. values \in Seq([key : Key, what : Outcome])
    <3>1. StoredEntry \subseteq [key : Key, what : Outcome]
      BY DEF StoredEntry, Outcome
    <3>2. QED
      BY <2>1, <3>1, SeqMonotonic
  <2>3. \A r \in Reader : reader[r].pc \in {"away", "waiting", "computing", "woken"}
    BY DEF MemoInv, MemoTyped
  <2>4. young \subseteq {values[i].key : i \in DOMAIN values}
    BY <2>1 DEF MemoCounted
  <2>5. QED
    BY <2>1, <2>2, <2>3, <2>4 DEF MemoInv, MemoTyped, MemoCounted, MemoTypeOK
<1>4. QED
  BY <1>1, <1>2, <1>3

-----------------------------------------------------------------------------
(* The diagnosis of an equipment by its points *)

PointRow == [state : {"none", "ok", "failed"}, hours : {0, Long, Short},
        error : {"none", "arguments", "away", "other", "timeout", "large"}]

PointsTyped ==
    /\ tool \in {"data", "reading", "speeds", "diagnoses", "reported", "failed"}
    /\ tries \in Nat /\ told \in {0, Long, Short}
    /\ bundle \in [hours : {0, Long, Short}, waves : SUBSET Point]
    /\ task \in [Point -> [pc : {"none", "queued", "working"}, left : Nat]]
    /\ data \in [Point -> PointRow]
    /\ speed \in [Point -> Point \cup {NoSpeed, "none", "failed"}]
    /\ diagnosis \in [Point -> Point \cup {NoSpeed, "none", "failed"}]

(***************************************************************************)
(* A tool's coroutines are of the points that are still without a row of   *)
(* its batch; a row of data has the hours it was asked with, a speed is of *)
(* its own point, and a diagnosis has that speed.                          *)
(***************************************************************************)
RowsInHand ==
    /\ bundle.waves # {} => bundle.hours # 0
    /\ \A p \in Point : data[p].state = "ok" => data[p].hours # 0
    /\ \A p \in Point : speed[p] \in {p, NoSpeed, "none", "failed"}
    /\ tool \in {"data", "reading", "speeds"} => \A p \in Point : diagnosis[p] = "none"
    /\ tool = "reading" =>
         \A p \in Point : data[p].state = "none" <=> task[p].pc # "none"
    /\ tool \in {"speeds", "diagnoses", "reported"} =>
         \A p \in Point : /\ data[p].state # "none"
                          /\ p \in Items => told <= Covered(p)
    /\ tool \in {"diagnoses", "reported"} =>
         \A p \in Point : /\ p \in Items => diagnosis[p] \in {"none", "failed", SpeedOf(p)}
                          /\ p \notin Items => diagnosis[p] = "none"
    /\ tool = "diagnoses" =>
         \A p \in Point : task[p].pc # "none" <=> p \in Items /\ diagnosis[p] = "none"
    /\ tool = "reported" => \A p \in Items : diagnosis[p] # "none"

PointsInv == PointsTyped /\ RowsInHand

\* The least of some hours is one of them and not more than any.
LEMMA LeastHours ==
  ASSUME NEW S \in SUBSET {Long, Short}, S # {}
  PROVE  Least(S) \in S /\ \A n \in S : Least(S) <= n
<1>1. Short < Long /\ Long \in Nat /\ Short \in Nat
  BY PointsAssumption
<1>2. \E n \in S : \A m \in S : n <= m
  <2>1. CASE Short \in S
    BY <1>1, <2>1
  <2>2. CASE Short \notin S
    <3>1. S = {Long}
      BY <2>2
    <3>2. QED
      BY <1>1, <3>1
  <2>3. QED
    BY <2>1, <2>2
<1>3. QED
  BY <1>2 DEF Least

\* A tool that starts has a coroutine for each of its points and no other.
LEMMA FannedOut ==
  ASSUME NEW S \in SUBSET Point, NEW left \in Nat
  PROVE  /\ FanOut(S, left) \in [Point -> [pc : {"none", "queued", "working"}, left : Nat]]
         /\ \A p \in Point : FanOut(S, left)[p].pc # "none" <=> p \in S
         /\ Workless \in [Point -> [pc : {"none", "queued", "working"}, left : Nat]]
         /\ \A p \in Point : Workless[p].pc = "none"
  BY DEF FanOut, Workless

\* A coroutine that gets its slot changes nothing else.
LEMMA StartWorkStep ==
  ASSUME PointsInv, NEW p \in Point, StartWork(p) PROVE PointsInv'
<1>1. /\ task' \in [Point -> [pc : {"none", "queued", "working"}, left : Nat]]
      /\ \A q \in Point : task'[q].pc = "none" <=> task[q].pc = "none"
      /\ UNCHANGED <<tool, tries, bundle, data, speed, diagnosis, told>>
  BY DEF StartWork, Work, PointsInv, PointsTyped
<1>2. QED
  BY <1>1 DEF PointsInv, PointsTyped, RowsInHand, Items, Covered, SpeedOf

\* A coroutine that is over leaves the others.
LEMMA OverLeaves ==
  ASSUME PointsTyped, NEW p \in Point, Over(p)
  PROVE  /\ task' \in [Point -> [pc : {"none", "queued", "working"}, left : Nat]]
         /\ task'[p].pc = "none" /\ \A q \in Point \ {p} : task'[q] = task[q]
  BY DEF Over, Workless, PointsTyped

\* A point whose data is read, or fails, leaves one row and no work.
LEMMA LoadPointStep ==
  ASSUME PointsInv, NEW p \in Point, Load(p) PROVE PointsInv'
<1> DEFINE hours == IF task[p].left = 1 THEN Long ELSE Short
<1>1. /\ tool = "reading" /\ task[p].pc = "working" /\ hours \in {Long, Short} /\ hours # 0
      /\ UNCHANGED <<tool, tries, bundle, speed, diagnosis, told>>
  BY PointsAssumption DEF Load
<1>2. CASE Over(p) /\ \E new \in PointRow :
             /\ data' = [data EXCEPT ![p] = new] /\ new.state # "none"
             /\ new.state = "ok" => new.hours # 0
  <2>1. PICK new \in PointRow :
             /\ data' = [data EXCEPT ![p] = new] /\ new.state # "none"
             /\ new.state = "ok" => new.hours # 0
    BY <1>2
  <2>2. data' \in [Point -> PointRow] /\ data'[p] = new /\ \A q \in Point \ {p} : data'[q] = data[q]
    BY <2>1 DEF PointsInv, PointsTyped
  <2>3. /\ task' \in [Point -> [pc : {"none", "queued", "working"}, left : Nat]]
        /\ task'[p].pc = "none" /\ \A q \in Point \ {p} : task'[q] = task[q]
    BY <1>2, OverLeaves DEF PointsInv
  <2>4. QED
    BY <1>1, <2>1, <2>2, <2>3 DEF PointsInv, PointsTyped, RowsInHand
<1>3. CASE UNCHANGED data /\ task' = [task EXCEPT ![p] = [pc |-> "working", left |-> 0]]
  BY <1>1, <1>3 DEF PointsInv, PointsTyped, RowsInHand
<1>4. Ok(hours) \in PointRow /\ Ok(hours).state = "ok" /\ Ok(hours).hours = hours
  BY <1>1 DEF Ok, PointRow
<1>5. \A error \in {"away", "other", "timeout", "large"} :
        Failed(error) \in PointRow /\ Failed(error).state = "failed"
  BY DEF Failed, PointRow
<1>6. \/ Over(p) /\ data' = [data EXCEPT ![p] = Ok(hours)]
      \/ UNCHANGED data /\ task' = [task EXCEPT ![p] = [pc |-> "working", left |-> 0]]
      \/ Over(p) /\ \E error \in {"away", "other", "timeout", "large"} :
                       data' = [data EXCEPT ![p] = Failed(error)]
  BY DEF Load
<1>7. QED
  <2>1. CASE Over(p) /\ data' = [data EXCEPT ![p] = Ok(hours)]
    BY <1>1, <1>2, <1>4, <2>1
  <2>2. CASE Over(p) /\ \E error \in {"away", "other", "timeout", "large"} :
                           data' = [data EXCEPT ![p] = Failed(error)]
    BY <1>2, <1>5, <2>2
  <2>3. QED
    BY <1>3, <1>6, <2>1, <2>2

\* A speed that is found is of the point it was asked for.
LEMMA ExtractStep ==
  ASSUME PointsInv, NEW p \in Point, Extract(p) PROVE PointsInv'
<1>1. tool = "speeds" /\ UNCHANGED <<tool, tries, bundle, data, diagnosis, told>>
  BY DEF Extract
<1>2. /\ task' \in [Point -> [pc : {"none", "queued", "working"}, left : Nat]]
      /\ speed' \in [Point -> Point \cup {NoSpeed, "none", "failed"}]
      /\ \A q \in Point : speed'[q] \in {q, NoSpeed, "none", "failed"}
  <2>1. CASE Over(p) /\ \E what \in {p, NoSpeed, "failed"} : speed' = [speed EXCEPT ![p] = what]
    BY <2>1, OverLeaves DEF PointsInv, PointsTyped, RowsInHand
  <2>2. CASE /\ task[p].left > 0 /\ UNCHANGED speed
             /\ task' = [task EXCEPT ![p] = [pc |-> "working", left |-> task[p].left - 1]]
    BY <2>2 DEF PointsInv, PointsTyped, RowsInHand
  <2>3. QED
    BY <2>1, <2>2 DEF Extract
<1>3. QED
  BY <1>1, <1>2 DEF PointsInv, PointsTyped, RowsInHand, Items, Covered

\* A diagnosis has the speed of its own point, or none.
LEMMA DiagnoseStep ==
  ASSUME PointsInv, NEW p \in Point, Diagnose(p) PROVE PointsInv'
<1>1. tool = "diagnoses" /\ task[p].pc = "working" /\ UNCHANGED <<tool, tries, bundle, data, speed, told>>
  BY DEF Diagnose
<1>2. PICK what \in {SpeedOf(p), "failed"} : diagnosis' = [diagnosis EXCEPT ![p] = what]
  BY DEF Diagnose
<1>3. /\ task' \in [Point -> [pc : {"none", "queued", "working"}, left : Nat]]
      /\ task'[p].pc = "none" /\ \A q \in Point \ {p} : task'[q] = task[q]
  BY OverLeaves DEF Diagnose, PointsInv
<1>4. what \in Point \cup {NoSpeed, "failed"} /\ what # "none"
  BY PointsAssumption DEF SpeedOf
<1>5. /\ diagnosis' \in [Point -> Point \cup {NoSpeed, "none", "failed"}]
      /\ diagnosis'[p] = what /\ \A q \in Point \ {p} : diagnosis'[q] = diagnosis[q]
  BY <1>2, <1>4 DEF PointsInv, PointsTyped
<1>6. QED
  BY <1>1, <1>2, <1>3, <1>4, <1>5 DEF PointsInv, PointsTyped, RowsInHand, Items, Covered, SpeedOf

\* A batch that starts over, or has failed.
LEMMA BatchRetried ==
  ASSUME PointsTyped, NEW retryable \in BOOLEAN, Retried(retryable)
  PROVE  /\ tries' \in Nat
         /\ tool' = "failed" \/ tool' = (IF tool = "reading" THEN "data" ELSE tool)
  BY DEF Retried, PointsTyped

\* A bundle that is read gives each point a row, a coroutine, or its waves.
LEMMA ReadBundleStep ==
  ASSUME PointsInv, ReadBundle PROVE PointsInv'
<1>1. tool = "data" /\ tool' = "reading" /\ UNCHANGED <<tries, speed, diagnosis, told>>
  BY DEF ReadBundle
<1>2. /\ bundle' \in [hours : {0, Long, Short}, waves : SUBSET Point]
      /\ bundle'.waves # {} => bundle'.hours # 0
  BY PointsAssumption DEF ReadBundle, NoBundle
<1>3. PICK unnamed \in SUBSET Uncovered(bundle') :
        /\ data' = [p \in Point |-> CASE p \in unnamed -> Failed("arguments")
                                      [] p \in bundle'.waves -> Ok(Long)
                                      [] OTHER -> NoRow]
        /\ task' = FanOut(Uncovered(bundle') \ unnamed, 1)
  BY DEF ReadBundle
<1>4. Uncovered(bundle') = Point \ bundle'.waves
  BY DEF Uncovered
<1>5. /\ Failed("arguments") \in PointRow /\ Failed("arguments").state = "failed"
      /\ Ok(Long) \in PointRow /\ Ok(Long).state = "ok" /\ Ok(Long).hours # 0
      /\ NoRow \in PointRow /\ NoRow.state = "none"
  BY PointsAssumption DEF Failed, Ok, NoRow, PointRow
<1>6. /\ data' \in [Point -> PointRow]
      /\ \A p \in Point : /\ data'[p].state = "ok" => data'[p].hours # 0
                          /\ data'[p].state = "none" <=> p \in Uncovered(bundle') \ unnamed
  BY <1>3, <1>4, <1>5
<1>7. /\ task' \in [Point -> [pc : {"none", "queued", "working"}, left : Nat]]
      /\ \A p \in Point : task'[p].pc # "none" <=> p \in Uncovered(bundle') \ unnamed
  <2> DEFINE S == Uncovered(bundle') \ unnamed
  <2>1. S \in SUBSET Point
    BY <1>4
  <2> HIDE DEF S
  <2>2. FanOut(S, 1) \in [Point -> [pc : {"none", "queued", "working"}, left : Nat]]
        /\ \A p \in Point : FanOut(S, 1)[p].pc # "none" <=> p \in S
    BY <2>1, FannedOut
  <2>3. task' = FanOut(S, 1)
    BY <1>3 DEF S
  <2>4. QED
    BY <2>2, <2>3 DEF S
<1>8. QED
  BY <1>1, <1>2, <1>6, <1>7 DEF PointsInv, PointsTyped, RowsInHand

\* A batch of data starts with no row and no bundle.
LEMMA NoRowsYet ==
  /\ NoRows(NoRow) \in [Point -> PointRow] /\ \A p \in Point : NoRows(NoRow)[p].state = "none"
  /\ NoBundle \in [hours : {0, Long, Short}, waves : SUBSET Point] /\ NoBundle.waves = {}
  BY DEF NoRows, NoRow, PointRow, NoBundle

\* Where the data tool starts over, or fails, nothing of it is left.
LEMMA DataOver ==
  ASSUME PointsInv, tool \in {"data", "reading"}, tool' \in {"failed", "data"}, tries' \in Nat,
         data' = NoRows(NoRow), bundle' = NoBundle, task' = Workless, UNCHANGED <<speed, diagnosis, told>>
  PROVE  PointsInv'
  BY NoRowsYet, FannedOut DEF PointsInv, PointsTyped, RowsInHand

\* The data tool ends with its rows, or starts over with none.
LEMMA EndDataStep ==
  ASSUME PointsInv, EndData PROVE PointsInv'
<1>1. tool = "reading" /\ Gathered /\ UNCHANGED <<speed, diagnosis>>
  BY DEF EndData
<1>2. CASE Items # {}
  <2>1. /\ tool' = "speeds" /\ tries' = 1 /\ task' = FanOut(Items, MaxAsks) /\ told' = EffectiveHours
        /\ UNCHANGED <<bundle, data>>
    BY <1>2 DEF EndData, NextTool
  <2> DEFINE hours == {data[p].hours : p \in Items} \cup ({bundle.hours} \ {0})
  <2>2. hours \in SUBSET {Long, Short} /\ hours # {}
    <3>1. \A p \in Items : data[p].hours \in {Long, Short}
      <4>1. \A p \in Items : p \in Point /\ data[p].state = "ok"
        BY DEF Items
      <4>2. QED
        BY <4>1 DEF PointsInv, PointsTyped, RowsInHand, PointRow
    <3>2. {bundle.hours} \ {0} \subseteq {Long, Short}
      BY DEF PointsInv, PointsTyped
    <3>3. QED
      BY <1>2, <3>1, <3>2
  <2>3. told' \in hours /\ \A n \in hours : told' <= n
    BY <2>1, <2>2, LeastHours DEF EffectiveHours
  <2>4. \A p \in Items : Covered(p) \in hours
    BY DEF Covered, PointsInv, RowsInHand
  <2>5. /\ task' \in [Point -> [pc : {"none", "queued", "working"}, left : Nat]]
        /\ Items \subseteq Point
    BY <2>1, FannedOut, PointsAssumption DEF Items
  <2>6. Items' = Items /\ \A p \in Point : Covered(p)' = Covered(p)
    BY <2>1 DEF Items, Covered
  <2> HIDE DEF hours
  <2>7. \A p \in Point : data[p].state # "none"
    BY <1>1 DEF PointsInv, RowsInHand, Gathered
  <2>8. \A p \in Items : told' <= Covered(p)
    BY <2>3, <2>4
  <2>9. told' \in {Long, Short}
    BY <2>2, <2>3
  <2>10. QED
    BY <1>1, <2>1, <2>5, <2>6, <2>7, <2>8, <2>9 DEF PointsInv, PointsTyped, RowsInHand
<1>3. CASE Items = {}
  <2>1. /\ \E retryable \in BOOLEAN : Retried(retryable)
        /\ data' = NoRows(NoRow) /\ bundle' = NoBundle /\ task' = Workless
        /\ UNCHANGED told
    BY <1>3 DEF EndData
  <2>2. QED
    BY <1>1, <2>1, BatchRetried, DataOver DEF PointsInv
<1>4. QED
  BY <1>2, <1>3

\* The data tool that times out leaves nothing of its batch.
LEMMA DataTimesOutStep ==
  ASSUME PointsInv, DataTimesOut PROVE PointsInv'
<1>1. /\ tool \in {"data", "reading"} /\ Retried(TRUE)
      /\ data' = NoRows(NoRow) /\ bundle' = NoBundle /\ task' = Workless
      /\ UNCHANGED <<speed, diagnosis, told>>
  BY DEF DataTimesOut
<1>2. tries' \in Nat /\ tool' \in {"failed", "data"}
  BY <1>1, BatchRetried DEF PointsInv
<1>3. QED
  BY <1>1, <1>2, DataOver

\* From the speeds on, with some of them or none.
LEMMA SpeedsOver ==
  ASSUME PointsInv, tool = "speeds", tool' \in {"speeds", "diagnoses"}, tries' \in Nat,
         task' = FanOut(Items, MaxAsks) \/ task' = FanOut(Items, 0),
         speed' = speed \/ speed' = NoRows("none"),
         UNCHANGED <<bundle, data, diagnosis, told>>
  PROVE  PointsInv'
<1>1. /\ task' \in [Point -> [pc : {"none", "queued", "working"}, left : Nat]]
      /\ \A p \in Point : task'[p].pc # "none" <=> p \in Items
  <2>1. Items \in SUBSET Point /\ MaxAsks \in Nat
    BY PointsAssumption DEF Items
  <2>2. CASE task' = FanOut(Items, MaxAsks)
    BY <2>1, <2>2, FannedOut
  <2>3. CASE task' = FanOut(Items, 0)
    BY <2>1, <2>3, FannedOut
  <2>4. QED
    BY <2>2, <2>3
<1>2. /\ speed' \in [Point -> Point \cup {NoSpeed, "none", "failed"}]
      /\ \A p \in Point : speed'[p] \in {p, NoSpeed, "none", "failed"}
  BY DEF NoRows, PointsInv, PointsTyped, RowsInHand
<1>3. Items' = Items /\ \A p \in Point : Covered(p)' = Covered(p)
  BY DEF Items, Covered
<1>4. \A p \in Point : diagnosis'[p] = "none"
  BY DEF PointsInv, RowsInHand
<1>5. QED
  BY <1>1, <1>2, <1>3, <1>4 DEF PointsInv, PointsTyped, RowsInHand

\* The diagnoses end with a row for each of their points.
LEMMA DiagnosesOver ==
  ASSUME PointsInv, DiagnosesTimeOut PROVE PointsInv'
<1>1. /\ tool = "diagnoses" /\ tries' \in Nat /\ tool' \in {"failed", "diagnoses"}
      /\ diagnosis' = NoRows("none") /\ UNCHANGED <<bundle, data, speed, told>>
      /\ tool' = "failed" => task' = Workless
      /\ tool' = "diagnoses" => task' = FanOut(Items, 0)
  BY BatchRetried DEF DiagnosesTimeOut, PointsInv
<1>2. /\ task' \in [Point -> [pc : {"none", "queued", "working"}, left : Nat]]
      /\ tool' = "diagnoses" => \A p \in Point : task'[p].pc # "none" <=> p \in Items
  BY <1>1, FannedOut DEF Items
<1>3. Items' = Items /\ \A p \in Point : Covered(p)' = Covered(p)
  BY <1>1 DEF Items, Covered
<1>4. /\ diagnosis' \in [Point -> Point \cup {NoSpeed, "none", "failed"}]
      /\ \A p \in Point : diagnosis'[p] = "none"
  BY <1>1 DEF NoRows
<1>5. QED
  BY <1>1, <1>2, <1>3, <1>4 DEF PointsInv, PointsTyped, RowsInHand

\* Every step of the diagnosis keeps its invariant.
LEMMA PointsStep == PointsInv /\ [PointsNext]_pointVars => PointsInv'
<1> SUFFICES ASSUME PointsInv, [PointsNext]_pointVars PROVE PointsInv'
  OBVIOUS
<1>1. CASE EndSpeeds
  BY <1>1, SpeedsOver DEF EndSpeeds, NextTool
<1>2. CASE SpeedsTimeOut
  <2>1. tries \in Nat
    BY DEF PointsInv, PointsTyped
  <2>2. QED
    BY <1>2, <2>1, SpeedsOver DEF SpeedsTimeOut, NextTool
<1>3. CASE EndDiagnoses
  <2>1. /\ tool = "diagnoses" /\ Gathered /\ tool' \in {"reported", "failed"}
        /\ UNCHANGED <<tries, bundle, task, data, speed, diagnosis, told>>
    BY <1>3 DEF EndDiagnoses
  <2>2. /\ Items' = Items /\ Items \subseteq Point
        /\ \A p \in Point : Covered(p)' = Covered(p) /\ SpeedOf(p)' = SpeedOf(p)
    BY <2>1 DEF Items, Covered, SpeedOf
  <2>3. \A p \in Items : diagnosis[p] # "none"
    BY <2>1, <2>2 DEF PointsInv, RowsInHand, Gathered
  <2>4. QED
    BY <2>1, <2>2, <2>3 DEF PointsInv, PointsTyped, RowsInHand
<1>4. CASE UNCHANGED pointVars
  BY <1>4 DEF pointVars, PointsInv, PointsTyped, RowsInHand, Items, Covered, SpeedOf
<1>5. QED
  BY <1>1, <1>2, <1>3, <1>4, StartWorkStep, LoadPointStep, ExtractStep, DiagnoseStep, ReadBundleStep,
     EndDataStep, DataTimesOutStep, DiagnosesOver DEF PointsNext

\* A diagnosis begins without rows.
LEMMA PointsBegin == PointsInit => PointsInv
  BY NoRowsYet, FannedOut DEF PointsInit, PointsInv, PointsTyped, RowsInHand, NoRows

(***************************************************************************)
(* For every catalogue of points, whatever fails and however often a batch *)
(* starts over, each point is in the report or among its failures, once,   *)
(* with its own speed and no more hours than its trends cover.             *)
(***************************************************************************)
THEOREM PointsAreReported == PointsSpec => []PointsReported
<1>1. PointsInit => PointsInv
  BY PointsBegin
<1>2. PointsInv => PointsReported
  <2> SUFFICES ASSUME PointsInv, tool = "reported" PROVE PointsReported
    BY DEF PointsReported
  <2>1. \A p \in Point : (p \in Items) # (p \in Failures)
    BY DEF PointsInv, PointsTyped, RowsInHand, Items, Failures, PointRow
  <2>2. \A p \in Point : diagnosis[p] = "none" <=> p \in Failures
    BY <2>1 DEF PointsInv, RowsInHand
  <2>3. ASSUME NEW p \in Items
        PROVE  /\ diagnosis[p] \in {p, NoSpeed, "failed"}
               /\ diagnosis[p] = p => speed[p] = p
               /\ told <= Covered(p)
    <3>1. /\ p \in Point /\ diagnosis[p] \in {"failed", SpeedOf(p)} /\ told <= Covered(p)
          /\ speed[p] \in {p, NoSpeed, "none", "failed"}
      BY DEF PointsInv, RowsInHand, Items
    <3>2. SpeedOf(p) \in {p, NoSpeed} /\ (SpeedOf(p) = p => speed[p] = p)
      BY <3>1, PointsAssumption DEF SpeedOf
    <3>3. QED
      BY <3>1, <3>2, PointsAssumption
  <2>4. \A p \in Items : /\ diagnosis[p] \in {p, NoSpeed, "failed"}
                         /\ diagnosis[p] = p => speed[p] = p
                         /\ told <= Covered(p)
    BY <2>3
  <2>5. QED
    BY <2>1, <2>2, <2>4, Zenon DEF PointsReported
<1>3. QED
  BY <1>1, <1>2, PointsStep, PTL DEF PointsSpec

\* So many coroutines are at work, and a tool is tried so often.
PointsCounted ==
    /\ IsFiniteSet(AtWork) /\ Cardinality(AtWork) <= MaxReads
    /\ tool = "speeds" => Cardinality(AtWork) <= MaxSpeeds
    /\ tries \in 1 .. MaxTries

\* Nobody is at work when a tool starts or has failed, and whoever ends leaves.
LEMMA AtWorkShrinks ==
  /\ Cardinality({}) = 0
  /\ \A S, left : task' = FanOut(S, left) => AtWork' = {}
  /\ task' = Workless => AtWork' = {}
  /\ PointsTyped /\ PointsCounted /\ AtWork' \subseteq AtWork =>
       /\ IsFiniteSet(AtWork') /\ Cardinality(AtWork') <= MaxReads
       /\ tool = "speeds" => Cardinality(AtWork') <= MaxSpeeds
<1>1. Cardinality({}) = 0
  BY FS_EmptySet
<1>2. \A S, left, p : p \in Point => FanOut(S, left)[p].pc # "working"
  BY DEF FanOut, Workless
<1>3. ASSUME NEW S, NEW left, task' = FanOut(S, left) PROVE AtWork' = {}
  BY <1>2, <1>3 DEF AtWork
<1>4. ASSUME task' = Workless PROVE AtWork' = {}
  BY <1>4 DEF AtWork, Workless
<1>5. ASSUME PointsTyped, PointsCounted, AtWork' \subseteq AtWork
      PROVE  /\ IsFiniteSet(AtWork') /\ Cardinality(AtWork') <= MaxReads
             /\ tool = "speeds" => Cardinality(AtWork') <= MaxSpeeds
  <2>1. IsFiniteSet(AtWork) /\ Cardinality(AtWork) \in Nat
    BY <1>5, FS_CardinalityType DEF PointsCounted
  <2>2. IsFiniteSet(AtWork') /\ Cardinality(AtWork') \in Nat /\ Cardinality(AtWork') <= Cardinality(AtWork)
    BY <1>5, <2>1, FS_Subset, FS_CardinalityType
  <2>3. QED
    BY <1>5, <2>1, <2>2, PointsAssumption DEF PointsCounted
<1>6. QED
  BY <1>1, <1>3, <1>4, <1>5

\* Every step of the diagnosis keeps its numbers.
LEMMA PointsCountedStep == PointsInv /\ PointsCounted /\ [PointsNext]_pointVars => PointsCounted'
<1> SUFFICES ASSUME PointsInv, PointsCounted, [PointsNext]_pointVars PROVE PointsCounted'
  OBVIOUS
<1>0. /\ PointsTyped /\ tries \in 1 .. MaxTries /\ 1 \in 1 .. MaxTries /\ MaxReads \in Nat /\ MaxSpeeds \in Nat
      /\ IsFiniteSet(AtWork) /\ Cardinality(AtWork) \in Nat /\ MaxSpeeds <= MaxReads /\ MaxTries \in Nat
      /\ task \in [Point -> [pc : {"none", "queued", "working"}, left : Nat]]
  BY FS_CardinalityType, PointsAssumption DEF PointsInv, PointsCounted, PointsTyped
<1>1. ASSUME AtWork' = {}, tries' \in 1 .. MaxTries PROVE PointsCounted'
  BY <1>0, <1>1, FS_EmptySet DEF PointsCounted
<1>2. ASSUME AtWork' \subseteq AtWork, UNCHANGED tries, tool' = tool \/ tool' # "speeds"
      PROVE  PointsCounted'
  BY <1>0, <1>2, AtWorkShrinks DEF PointsCounted
<1>3. ASSUME NEW retryable \in BOOLEAN, Retried(retryable) PROVE tries' \in 1 .. MaxTries
  BY <1>0, <1>3 DEF Retried
<1>4. ASSUME NEW p \in Point, StartWork(p) PROVE PointsCounted'
  <2> DEFINE limit == IF tool = "speeds" THEN MaxSpeeds ELSE MaxReads
  <2>1. /\ task[p].pc = "queued" /\ Cardinality(AtWork) < limit
        /\ task' = [task EXCEPT ![p] = [pc |-> "working", left |-> task[p].left]]
        /\ UNCHANGED <<tool, tries>>
    BY <1>4 DEF StartWork, Work
  <2>2. AtWork' = AtWork \cup {p} /\ p \notin AtWork
    BY <1>0, <2>1 DEF AtWork
  <2>3. IsFiniteSet(AtWork') /\ Cardinality(AtWork') = Cardinality(AtWork) + 1
    BY <1>0, <2>2, FS_AddElement
  <2>4. Cardinality(AtWork') <= limit
    BY <1>0, <2>1, <2>3
  <2>5. QED
    BY <1>0, <2>1, <2>3, <2>4 DEF PointsCounted
<1>5. ASSUME NEW p \in Point, NEW r, task' = [task EXCEPT ![p] = r], task[p].pc = "working"
      PROVE  AtWork' \subseteq AtWork
  BY <1>0, <1>5 DEF AtWork
<1>6. ASSUME NEW p \in Point, Load(p) \/ Extract(p) \/ Diagnose(p) PROVE PointsCounted'
  <2>1. task[p].pc = "working" /\ UNCHANGED <<tool, tries>> /\ \E r : task' = [task EXCEPT ![p] = r]
    BY <1>6 DEF Load, Extract, Diagnose, Over
  <2>2. AtWork' \subseteq AtWork
    BY <1>5, <2>1
  <2>3. QED
    BY <1>2, <2>1, <2>2
<1>7. CASE ReadBundle
  <2>1. /\ UNCHANGED tries
        /\ \E unnamed \in SUBSET Uncovered(bundle') : task' = FanOut(Uncovered(bundle') \ unnamed, 1)
    BY <1>7 DEF ReadBundle
  <2>2. QED
    BY <1>0, <1>1, <2>1, AtWorkShrinks
<1>8. CASE EndData
  <2>1. CASE Items # {}
    <3>1. NextTool("speeds", Items, MaxAsks)
      BY <1>8, <2>1 DEF EndData
    <3>2. QED
      BY <1>0, <1>1, <3>1, AtWorkShrinks DEF NextTool
  <2>2. CASE Items = {}
    <3> DEFINE retryable == \E p \in Failures : data[p].error \in {"timeout", "away"}
    <3>1. Retried(retryable) /\ task' = Workless
      BY <1>8, <2>2 DEF EndData
    <3> HIDE DEF retryable
    <3>2. tries' \in 1 .. MaxTries
      BY <1>0, <3>1 DEF Retried
    <3>3. QED
      BY <1>1, <3>1, <3>2, AtWorkShrinks
  <2>3. QED
    BY <2>1, <2>2
<1>9. CASE DataTimesOut
  <2>1. Retried(TRUE) /\ task' = Workless
    BY <1>9 DEF DataTimesOut
  <2>2. QED
    BY <1>1, <1>3, <2>1, AtWorkShrinks
<1>10. CASE EndSpeeds
  <2>1. NextTool("diagnoses", Items, 0)
    BY <1>10 DEF EndSpeeds
  <2>2. QED
    BY <1>0, <1>1, <2>1, AtWorkShrinks DEF NextTool
<1>11. CASE SpeedsTimeOut
  <2>1. \/ tries < MaxTries /\ tries' = tries + 1 /\ task' = FanOut(Items, MaxAsks)
        \/ NextTool("diagnoses", Items, 0)
    BY <1>11 DEF SpeedsTimeOut
  <2>2. tries' \in 1 .. MaxTries
    BY <1>0, <2>1 DEF NextTool
  <2>3. AtWork' = {}
    BY <2>1, AtWorkShrinks DEF NextTool
  <2>4. QED
    BY <1>1, <2>2, <2>3
<1>12. CASE EndDiagnoses
  <2>1. UNCHANGED <<tries, task>> /\ tool' # "speeds"
    BY <1>12 DEF EndDiagnoses
  <2>2. AtWork' = AtWork
    BY <2>1 DEF AtWork
  <2>3. QED
    BY <1>2, <2>1, <2>2
<1>13. CASE DiagnosesTimeOut
  <2>1. Retried(TRUE) /\ (task' = Workless \/ task' = FanOut(Items, 0))
    BY <1>13 DEF DiagnosesTimeOut
  <2>2. QED
    BY <1>1, <1>3, <2>1, AtWorkShrinks
<1>14. CASE UNCHANGED pointVars
  BY <1>14 DEF pointVars, PointsCounted, AtWork
<1>15. QED
  BY <1>4, <1>6, <1>7, <1>8, <1>9, <1>10, <1>11, <1>12, <1>13, <1>14 DEF PointsNext

\* What the diagnosis begins with, and that its types say what its properties state.
LEMMA PointsTypes ==
  /\ PointsInit => PointsInv /\ PointsCounted
  /\ PointsInv /\ PointsCounted => PointsTypeOK
<1>1. PointsInit => PointsInv
  BY PointsBegin
<1>2. PointsInit => PointsCounted
  <2> SUFFICES ASSUME PointsInit PROVE PointsCounted
    OBVIOUS
  <2>1. AtWork = {} /\ tries = 1
    BY DEF PointsInit, AtWork, Workless
  <2>2. QED
    BY <2>1, FS_EmptySet, PointsAssumption DEF PointsCounted
<1>3. PointsInv /\ PointsCounted => PointsTypeOK
  BY DEF PointsInv, PointsTyped, PointsCounted, PointsTypeOK, PointRow
<1>4. QED
  BY <1>1, <1>2, <1>3

-----------------------------------------------------------------------------
(* Attachments *)

\* The uploads that carry a file.
Busy == {u \in Uploader : upload[u].pc # "idle"}

FilesTyped ==
    /\ row \in [File -> {"none", "UPLOADED", "BOUND", "DELETED"}]
    /\ sentTo \in [File -> Conversation \cup {Unsent}]
    /\ stale \subseteq File /\ object \subseteq File /\ erasing \subseteq File /\ marred \subseteq File
    /\ upload \in [Uploader -> [pc : {"idle", "storing", "inserting"}, file : File \cup {NoFile}]]
    /\ due \subseteq Conversation
    /\ cleaner \in [pc : {"rest", "listed", "erasing"}, purging : SUBSET Conversation,
                     locked : SUBSET File, doomed : SUBSET File]

\* The file of an upload is its own: it has no row, and nobody removes it.
UploadsApart ==
    /\ \A u \in Uploader : /\ upload[u].pc = "idle" <=> upload[u].file = NoFile
                           /\ upload[u].pc = "inserting" => upload[u].file \in object
    /\ \A u \in Uploader : upload[u].file # NoFile =>
         /\ row[upload[u].file] = "none"
         /\ upload[u].file \notin erasing \cup cleaner.doomed
    /\ \A u, w \in Uploader : upload[u].file = upload[w].file => u = w \/ upload[u].file = NoFile

\* What the cleaner holds: until its transaction ends, the rows it locked are still
\* not sent and the rest of what it removes was sent to conversations it purges;
\* and what was sent to those is removed, or was marred by the send that met the
\* purge.
CleanerSound ==
    /\ cleaner.pc # "listed" => cleaner.purging = {} /\ cleaner.locked = {}
    /\ cleaner.pc = "rest" => cleaner.doomed = {}
    /\ cleaner.locked \subseteq cleaner.doomed
    /\ \A f \in cleaner.locked : row[f] = "UPLOADED" /\ sentTo[f] = Unsent
    /\ cleaner.pc = "listed" =>
         \A f \in cleaner.doomed : f \in cleaner.locked \/ sentTo[f] \in cleaner.purging
    /\ \A f \in File : sentTo[f] \in cleaner.purging => f \in cleaner.doomed \cup marred

\* StoresAgree without the limit, and nothing not yet sent is sent to a
\* conversation.
RowsAgree ==
    \A f \in File :
        /\ row[f] \in {"UPLOADED", "BOUND"} => f \in object /\ ~InHand(f)
        /\ row[f] \notin {"UPLOADED", "BOUND"} => /\ f \in object => InHand(f) \/ f \in marred
                                                  /\ sentTo[f] = Unsent
        /\ row[f] = "UPLOADED" => sentTo[f] = Unsent

FilesAgree == FilesTyped /\ UploadsApart /\ CleanerSound /\ RowsAgree

\* The bound of StoresAgree with the uploads still to come: the limit was checked
\* for each of them before it began.
WithinLimit == Cardinality(Unbound) + Cardinality(Busy) < MaxUnbound + Cardinality(Uploader)

FilesInv == FilesAgree /\ WithinLimit

\* Every step of uploads, sends, deletions and the cleaner keeps the stores'
\* agreement.
LEMMA FilesAgreeStep == FilesAgree /\ [FilesNext]_fileVars => FilesAgree'
<1> SUFFICES ASSUME FilesAgree, [FilesNext]_fileVars PROVE FilesAgree'
  OBVIOUS
<1> USE AttachmentsAssumption DEF FilesAgree, FilesTyped, UploadsApart, CleanerSound, RowsAgree, InHand,
        store, conversations, Idle, AtRest
<1>1. ASSUME NEW u \in Uploader, NEW f \in File, StartUpload(u, f) PROVE FilesAgree'
  BY <1>1 DEF StartUpload, Unused
<1>2. ASSUME NEW u \in Uploader, Put(u) PROVE FilesAgree'
  BY <1>2 DEF Put
<1>3. ASSUME NEW u \in Uploader, Insert(u) PROVE FilesAgree'
  BY <1>3 DEF Insert
<1>4. ASSUME NEW u \in Uploader, InsertFails(u) PROVE FilesAgree'
  BY <1>4 DEF InsertFails
<1>5. ASSUME NEW u \in Uploader, UploadDies(u) PROVE FilesAgree'
  BY <1>5 DEF UploadDies
<1>6. ASSUME NEW f \in File, ExpireFile(f) PROVE FilesAgree'
  BY <1>6 DEF ExpireFile
<1>7. ASSUME NEW v \in Conversation, NEW F \in SUBSET File, Send(v, F) PROVE FilesAgree'
  BY <1>7 DEF Send, Unbound
<1>8. ASSUME NEW f \in File, DeleteOwned(f) PROVE FilesAgree'
  BY <1>8 DEF DeleteOwned
<1>9. ASSUME NEW f \in File, EraseDeleted(f) PROVE FilesAgree'
  BY <1>9 DEF EraseDeleted
<1>10. ASSUME NEW v \in Conversation, DeleteConversation(v) \/ RetentionEnds(v) PROVE FilesAgree'
  BY <1>10 DEF DeleteConversation, RetentionEnds
<1>11. CASE CleanList
  BY <1>11 DEF CleanList, FilesOf, ExpiredUnbound
<1>12. CASE CleanPurge
  BY <1>12 DEF CleanPurge, FilesOf
<1>13. ASSUME NEW f \in File, CleanErase(f) PROVE FilesAgree'
  BY <1>13 DEF CleanErase
<1>14. CASE CleanEnd
  BY <1>14 DEF CleanEnd
<1>15. CASE CrashCleaner
  BY <1>15 DEF CrashCleaner
<1>16. CASE UNCHANGED fileVars
  BY <1>16 DEF fileVars
<1>17. QED
  BY <1>1, <1>2, <1>3, <1>4, <1>5, <1>6, <1>7, <1>8, <1>9, <1>10, <1>11, <1>12, <1>13, <1>14, <1>15, <1>16
  DEF FilesNext

\* The files not yet sent and the uploads under way are finitely many.
LEMMA UnboundAndBusy ==
  /\ IsFiniteSet(Unbound) /\ Cardinality(Unbound) \in Nat
  /\ IsFiniteSet(Busy) /\ Cardinality(Busy) \in Nat /\ Cardinality(Uploader) \in Nat
  /\ Cardinality(Busy) <= Cardinality(Uploader)
<1>1. Unbound \subseteq File /\ Busy \subseteq Uploader
  BY DEF Unbound, Busy
<1>2. IsFiniteSet(Unbound) /\ IsFiniteSet(Busy) /\ Cardinality(Busy) <= Cardinality(Uploader)
  BY <1>1, AttachmentsAssumption, FS_Subset
<1>3. QED
  BY <1>2, AttachmentsAssumption, FS_CardinalityType

\* One element more adds at most one, and exactly one that is new.
LEMMA OneMoreElement ==
  ASSUME NEW S, IsFiniteSet(S), NEW x, NEW T \in SUBSET (S \cup {x})
  PROVE  IsFiniteSet(T) /\ Cardinality(T) \in Nat /\ Cardinality(T) <= Cardinality(S) + 1
<1>1. /\ IsFiniteSet(S \cup {x}) /\ Cardinality(S) \in Nat
      /\ Cardinality(S \cup {x}) = IF x \in S THEN Cardinality(S) ELSE Cardinality(S) + 1
  BY FS_AddElement, FS_CardinalityType
<1>2. IsFiniteSet(T) /\ Cardinality(T) <= Cardinality(S \cup {x})
  BY <1>1, FS_Subset
<1>3. Cardinality(T) \in Nat
  BY <1>2, FS_CardinalityType
<1>4. QED
  BY <1>1, <1>2, <1>3

\* A step that adds neither files not yet sent nor uploads keeps the limit.
LEMMA NoMoreFiles ==
  ASSUME WithinLimit, Unbound' \subseteq Unbound, Busy' \subseteq Busy
  PROVE  WithinLimit'
<1>1. Cardinality(Unbound') <= Cardinality(Unbound) /\ Cardinality(Busy') <= Cardinality(Busy)
  BY UnboundAndBusy, FS_Subset
<1>2. Cardinality(Unbound') \in Nat /\ Cardinality(Busy') \in Nat
  BY UnboundAndBusy, FS_Subset, FS_CardinalityType
<1>3. QED
  BY <1>1, <1>2, UnboundAndBusy, AttachmentsAssumption DEF WithinLimit

\* Every step keeps the limit, counted with the uploads under way.
LEMMA LimitStep == FilesInv /\ [FilesNext]_fileVars => WithinLimit'
<1> SUFFICES ASSUME FilesAgree, WithinLimit, [FilesNext]_fileVars PROVE WithinLimit'
  BY DEF FilesInv
<1>t. /\ row \in [File -> {"none", "UPLOADED", "BOUND", "DELETED"}]
      /\ upload \in [Uploader -> [pc : {"idle", "storing", "inserting"}, file : File \cup {NoFile}]]
      /\ cleaner.locked \subseteq File
  BY DEF FilesAgree, FilesTyped
<1>1. ASSUME NEW u \in Uploader, NEW f \in File, StartUpload(u, f) PROVE WithinLimit'
  <2>1. Unbound' = Unbound /\ Cardinality(Unbound) < MaxUnbound
    BY <1>1 DEF StartUpload, store, Unbound
  <2>2. Busy' \subseteq Uploader
    BY DEF Busy
  <2>3. Cardinality(Busy') <= Cardinality(Uploader) /\ Cardinality(Busy') \in Nat
    BY <2>2, AttachmentsAssumption, FS_Subset, FS_CardinalityType
  <2>4. QED
    BY <2>1, <2>3, UnboundAndBusy, AttachmentsAssumption DEF WithinLimit
<1>2. ASSUME NEW u \in Uploader, Insert(u) PROVE WithinLimit'
  <2>1. /\ upload[u].file \in File /\ u \in Busy
        /\ Unbound' \subseteq Unbound \cup {upload[u].file} /\ Busy' = Busy \ {u}
    BY <1>2, <1>t DEF Insert, Unbound, Busy, Idle, FilesAgree, UploadsApart
  <2>2. Cardinality(Busy') = Cardinality(Busy) - 1
    BY <2>1, UnboundAndBusy, FS_RemoveElement
  <2>3. /\ IsFiniteSet(Unbound') /\ Cardinality(Unbound') \in Nat
        /\ Cardinality(Unbound') <= Cardinality(Unbound) + 1
    BY <2>1, UnboundAndBusy, OneMoreElement
  <2>5. QED
    BY <2>2, <2>3, UnboundAndBusy, AttachmentsAssumption DEF WithinLimit
<1>3. ASSUME NEW u \in Uploader, Put(u) \/ InsertFails(u) \/ UploadDies(u) PROVE WithinLimit'
  BY <1>3, <1>t, NoMoreFiles DEF Put, InsertFails, UploadDies, store, Unbound, Busy, Idle
<1>4. ASSUME NEW f \in File, ExpireFile(f) \/ EraseDeleted(f) \/ CleanErase(f) PROVE WithinLimit'
  BY <1>4, NoMoreFiles DEF ExpireFile, EraseDeleted, CleanErase, Unbound, Busy
<1>5. ASSUME NEW f \in File, DeleteOwned(f) PROVE WithinLimit'
  BY <1>5, <1>t, NoMoreFiles DEF DeleteOwned, Unbound, Busy
<1>6. ASSUME NEW v \in Conversation, DeleteConversation(v) \/ RetentionEnds(v) PROVE WithinLimit'
  BY <1>6, NoMoreFiles DEF DeleteConversation, RetentionEnds, store, Unbound, Busy
<1>7. ASSUME NEW v \in Conversation, NEW F \in SUBSET File, Send(v, F) PROVE WithinLimit'
  BY <1>7, <1>t, NoMoreFiles DEF Send, Unbound, Busy
<1>8. CASE CleanPurge
  BY <1>8, <1>t, NoMoreFiles DEF CleanPurge, Unbound, Busy
<1>9. CASE CleanList \/ CleanEnd \/ CrashCleaner
  BY <1>9, NoMoreFiles DEF CleanList, CleanEnd, CrashCleaner, store, Unbound, Busy
<1>10. CASE UNCHANGED fileVars
  BY <1>10, NoMoreFiles DEF fileVars, store, Unbound, Busy
<1>11. QED
  BY <1>1, <1>2, <1>3, <1>4, <1>5, <1>6, <1>7, <1>8, <1>9, <1>10 DEF FilesNext

\* The stores begin with no file.
LEMMA FilesBegin == FilesInit => FilesInv
<1> SUFFICES ASSUME FilesInit PROVE FilesInv
  OBVIOUS
<1>1. FilesAgree
  BY AttachmentsAssumption
  DEF FilesInit, FilesAgree, FilesTyped, UploadsApart, CleanerSound, RowsAgree, InHand, Idle, AtRest
<1>2. Unbound = {} /\ Busy = {}
  BY DEF FilesInit, Unbound, Busy, Idle
<1>3. WithinLimit
  BY <1>2, FS_EmptySet, UnboundAndBusy, AttachmentsAssumption DEF WithinLimit
<1>4. QED
  BY <1>1, <1>3 DEF FilesInv

(***************************************************************************)
(* For every set of files, uploads, conversations and any interleaving     *)
(* with the cleaner, rows and objects agree and the limit is passed by no  *)
(* more than the uploads side by side (AttachmentService,                  *)
(* AttachmentCleanupWorker).                                               *)
(***************************************************************************)
THEOREM StoresDoAgree == FilesSpec => []StoresAgree
<1>1. FilesInit => FilesInv
  BY FilesBegin
<1>2. FilesInv /\ [FilesNext]_fileVars => FilesInv'
  BY FilesAgreeStep, LimitStep DEF FilesInv
<1>3. FilesInv => StoresAgree
  BY UnboundAndBusy, AttachmentsAssumption
  DEF FilesInv, FilesAgree, FilesTyped, RowsAgree, WithinLimit, StoresAgree
<1>4. QED
  BY <1>1, <1>2, <1>3, PTL DEF FilesSpec

\* A conversation is active, deleted or gone, whatever happens to its files.
LifeTyped == life \in [Conversation -> {"active", "deleted", "gone"}]

\* Every step of the attachments keeps that, and the types are of its invariant.
LEMMA FilesTypes ==
  /\ FilesInit => LifeTyped
  /\ FilesInv /\ LifeTyped /\ [FilesNext]_fileVars => LifeTyped'
  /\ FilesInv /\ LifeTyped => FilesTypeOK
<1>1. FilesInit => LifeTyped
  BY DEF FilesInit, LifeTyped
<1>2. ASSUME FilesInv, LifeTyped, [FilesNext]_fileVars PROVE LifeTyped'
  <2> USE DEF LifeTyped
  <2>1. ASSUME NEW v \in Conversation, DeleteConversation(v) PROVE LifeTyped'
    BY <1>2, <2>1 DEF DeleteConversation
  <2>2. CASE CleanPurge
    BY <1>2, <2>2 DEF CleanPurge
  <2>3. CASE UNCHANGED life
    BY <1>2, <2>3
  <2>4. QED
    BY <1>2, <2>1, <2>2, <2>3
    DEF FilesNext, Put, Insert, InsertFails, UploadDies, StartUpload, ExpireFile, DeleteOwned,
        EraseDeleted, CleanErase, RetentionEnds, Send, CleanList, CleanEnd, CrashCleaner,
        conversations, fileVars
<1>3. FilesInv /\ LifeTyped => FilesTypeOK
  BY DEF FilesInv, FilesAgree, FilesTyped, UploadsApart, CleanerSound, LifeTyped, FilesTypeOK
<1>4. QED
  BY <1>1, <1>2, <1>3

-----------------------------------------------------------------------------
(* The running summary of a branch *)

\* A text has every message up to one, exactly once and no later one.
Whole(text, upTo) == \A m \in Message : m <= upTo => text[m] >= 1
Exact(text, upTo) == \A m \in Message : text[m] = IF m <= upTo THEN 1 ELSE 0

SummaryTyped ==
    /\ path \in Nat /\ through \in Nat /\ through <= path
    /\ overlapped \in BOOLEAN /\ clock \in Nat
    /\ job \in [Worker -> [pc : {"idle", "read", "merged", "writing"}, read : Nat,
                           upTo : Nat, text : [Message -> Nat], begun : Nat]]
    /\ latest \in [upTo : Nat, text : [Message -> Nat], begun : Nat]
    /\ latest.begun <= clock

\* What holds of the snapshot, and of a job's text once it is merged, whoever else
\* is at work.
JobsAreWhole ==
    /\ Whole(latest.text, latest.upTo)
    /\ \A w \in Worker :
         /\ job[w].read <= path /\ job[w].begun <= clock
         /\ job[w].pc # "idle" => Cutoff(job[w].read) # 0
         /\ job[w].pc \in {"merged", "writing"} => /\ job[w].upTo = Cutoff(job[w].read)
                                                   /\ Whole(job[w].text, job[w].upTo)

\* Where no two jobs overlapped the one at work has the latest snapshot to merge
\* with, and its own is the latest when it is written.
JobsAreExact ==
    /\ Exact(latest.text, latest.upTo)
    /\ latest.upTo <= Cutoff(path) /\ through <= latest.upTo + Recent
    /\ \A v, w \in Worker : job[v].pc # "idle" /\ job[w].pc # "idle" => v = w
    /\ \A w \in Worker :
         /\ job[w].pc # "idle" => latest.upTo <= Cutoff(job[w].read)
         /\ job[w].pc \in {"merged", "writing"} => Exact(job[w].text, job[w].upTo)
         /\ job[w].pc = "writing" => latest.begun < job[w].begun

SummaryInv == SummaryTyped /\ JobsAreWhole /\ (~overlapped => JobsAreExact)

\* The last message a summary takes grows with the branch.
LEMMA CutoffGrows ==
  ASSUME NEW n \in Nat
  PROVE  /\ Cutoff(n) \in Nat /\ Cutoff(n) <= n
         /\ Cutoff(n) = 0 => n <= Recent
         /\ Cutoff(n) # 0 => Cutoff(n) + Recent = n
         /\ \A m \in Nat : n <= m => Cutoff(n) <= Cutoff(m)
  BY SummaryAssumption DEF Cutoff

\* Messages folded into a text continue it.
LEMMA FoldAppends ==
  ASSUME NEW text \in [Message -> Nat], NEW after \in Nat, NEW to \in Nat
  PROVE  /\ Fold(text, after, to) \in [Message -> Nat]
         /\ Whole(text, after) => Whole(Fold(text, after, to), to)
         /\ Exact(text, after) /\ after <= to => Exact(Fold(text, after, to), to)
<1>1. Message \subseteq Nat
  BY SummaryAssumption DEF Message
<1>2. QED
  BY <1>1 DEF Fold, Whole, Exact

\* Every step of the branch and of its summary workers keeps their invariant.
LEMMA SummaryStep == SummaryInv /\ [SummaryNext]_summaryVars => SummaryInv'
<1> SUFFICES ASSUME SummaryInv, [SummaryNext]_summaryVars PROVE SummaryInv'
  OBVIOUS
<1> USE SummaryAssumption DEF SummaryInv, SummaryTyped, JobsAreWhole, JobsAreExact
<1>0. Message \subseteq Nat /\ Empty \in [Message -> Nat]
  BY DEF Message, Empty
<1>n. /\ NoJob \in [pc : {"idle", "read", "merged", "writing"}, read : Nat,
                    upTo : Nat, text : [Message -> Nat], begun : Nat]
      /\ NoJob.pc = "idle" /\ NoJob.read = 0 /\ NoJob.begun = 0
  BY <1>0 DEF NoJob
<1>1. ASSUME path' \in Nat, path <= path', UNCHANGED <<job, latest, clock, through, overlapped>>
      PROVE  SummaryInv'
  BY <1>1, CutoffGrows DEF Whole, Exact
<1>2. CASE SendMessage \/ CompleteTurn \/ StopTurn \/ FailTurn
  BY <1>1, <1>2 DEF SendMessage, CompleteTurn, StopTurn, FailTurn, EndTurn
<1>3. ASSUME NEW w \in Worker, Take(w) PROVE SummaryInv'
  <2>1. CASE Cutoff(path) = 0
    BY <1>3, <2>1, CutoffGrows DEF Take, Whole, Exact
  <2>2. CASE Cutoff(path) # 0
    <3> DEFINE taken == [NoJob EXCEPT !.pc = "read", !.read = path]
    <3>1. job' = [job EXCEPT ![w] = taken] /\ UNCHANGED <<path, answering, latest, clock, through>>
      BY <1>3, <2>2 DEF Take
    <3>2. /\ taken \in [pc : {"idle", "read", "merged", "writing"}, read : Nat,
                        upTo : Nat, text : [Message -> Nat], begun : Nat]
          /\ taken.pc = "read" /\ taken.read = path /\ taken.begun = 0
      BY <1>0 DEF NoJob
    <3>3. /\ overlapped' \in BOOLEAN
          /\ overlapped => overlapped'
          /\ ~overlapped' => \A v \in Worker \ {w} : job[v].pc = "idle"
      BY <1>3 DEF Take
    <3> HIDE DEF taken
    <3>4. SummaryTyped' /\ JobsAreWhole'
      BY <2>2, <3>1, <3>2, <3>3 DEF Whole
    <3>5. ~overlapped' => JobsAreExact'
      BY <3>1, <3>2, <3>3 DEF Exact
    <3>6. QED
      BY <3>4, <3>5
  <2>3. QED
    BY <2>1, <2>2
<1>4. ASSUME NEW w \in Worker, Merge(w) PROVE SummaryInv'
  <2> DEFINE to == Cutoff(job[w].read)
             after == IF latest.upTo <= job[w].read THEN latest.upTo ELSE 0
             merged == [pc |-> "merged", read |-> job[w].read, upTo |-> to,
                        text |-> Fold(latest.text, after, to), begun |-> 0]
  <2>1. CASE latest.upTo = to
    <3>1. job[w].pc = "read" /\ through' = job[w].read /\ UNCHANGED <<path, latest, clock, overlapped>>
      BY <1>4, <2>1 DEF Merge
    <3>2. job' = [job EXCEPT ![w] = NoJob]
      BY <1>4, <2>1 DEF Merge, Quit
    <3>3. to # 0 /\ to + Recent = job[w].read
      BY <3>1, CutoffGrows
    <3> HIDE DEF to
    <3>4. QED
      BY <1>n, <2>1, <3>1, <3>2, <3>3 DEF Whole, Exact
  <2>2. CASE latest.upTo # to
    <3>1. job' = [job EXCEPT ![w] = merged] /\ UNCHANGED <<path, latest, clock, through, overlapped>>
      BY <1>4, <2>2 DEF Merge
    <3>2. to \in Nat /\ after \in Nat /\ after <= latest.upTo
      BY CutoffGrows
    <3>3. /\ Fold(latest.text, after, to) \in [Message -> Nat]
          /\ Whole(Fold(latest.text, after, to), to)
      <4>1. Whole(latest.text, after)
        BY <3>2 DEF Whole, Message
      <4>2. QED
        BY <3>2, <4>1, FoldAppends
    <3>4. ASSUME ~overlapped PROVE Exact(Fold(latest.text, after, to), to)
      <4>1. after = latest.upTo /\ after <= to
        BY <1>4, <3>4, CutoffGrows DEF Merge
      <4>2. Exact(latest.text, after)
        BY <3>4, <4>1 DEF Exact
      <4>3. QED
        BY <3>2, <4>1, <4>2, FoldAppends
    <3>5. /\ merged \in [pc : {"idle", "read", "merged", "writing"}, read : Nat,
                         upTo : Nat, text : [Message -> Nat], begun : Nat]
          /\ merged.pc = "merged" /\ merged.read = job[w].read /\ merged.upTo = to
          /\ merged.text = Fold(latest.text, after, to) /\ merged.begun = 0
      BY <3>2, <3>3
    <3>6. job[w].pc = "read"
      BY <1>4 DEF Merge
    <3> HIDE DEF merged
    <3>7. SummaryTyped' /\ JobsAreWhole'
      BY <3>1, <3>3, <3>5, <3>6
    <3>8. ~overlapped => JobsAreExact'
      BY <3>1, <3>4, <3>5, <3>6
    <3>9. QED
      BY <3>1, <3>7, <3>8
  <2>3. QED
    BY <2>1, <2>2
<1>5. ASSUME NEW w \in Worker, BeginWrite(w) PROVE SummaryInv'
  BY <1>5, CutoffGrows DEF BeginWrite, Whole, Exact
<1>6. ASSUME NEW w \in Worker, Write(w) PROVE SummaryInv'
  <2>1. /\ job[w].pc = "writing" /\ UNCHANGED <<path, clock, overlapped>> /\ through' = job[w].read
        /\ job' = [job EXCEPT ![w] = NoJob]
    BY <1>6 DEF Write, Quit
  <2>2. CASE job[w].begun > latest.begun
    <3>1. latest' = [upTo |-> job[w].upTo, text |-> job[w].text, begun |-> job[w].begun]
      BY <1>6, <2>2 DEF Write
    <3>2. /\ latest' \in [upTo : Nat, text : [Message -> Nat], begun : Nat]
          /\ latest'.upTo = job[w].upTo /\ latest'.text = job[w].text /\ latest'.begun = job[w].begun
      BY <3>1
    <3>3. SummaryTyped' /\ JobsAreWhole'
      BY <1>n, <2>1, <3>2 DEF Whole
    <3>4. ASSUME ~overlapped PROVE JobsAreExact'
      <4>1. job[w].upTo = Cutoff(job[w].read) /\ job[w].upTo + Recent = job[w].read
        BY <2>1, CutoffGrows
      <4>2. job[w].upTo <= Cutoff(path)
        BY <4>1, CutoffGrows
      <4>3. QED
        BY <1>n, <2>1, <3>2, <3>4, <4>1, <4>2 DEF Exact
    <3>5. QED
      BY <2>1, <3>3, <3>4
  <2>3. CASE ~(job[w].begun > latest.begun)
    <3>1. UNCHANGED latest /\ overlapped
      BY <1>6, <2>1, <2>3 DEF Write
    <3>2. QED
      BY <1>n, <2>1, <3>1 DEF Whole
  <2>4. QED
    BY <2>2, <2>3
<1>7. ASSUME NEW w \in Worker, Lose(w) PROVE SummaryInv'
  BY <1>0, <1>7, CutoffGrows DEF Lose, Quit, NoJob, Whole, Exact
<1>8. CASE UNCHANGED summaryVars
  BY <1>8 DEF summaryVars, Whole, Exact
<1>9. QED
  BY <1>2, <1>3, <1>4, <1>5, <1>6, <1>7, <1>8 DEF SummaryNext

\* What the context omits lies behind what the last job read.
LEMMA OmittedAreNew ==
  ASSUME SummaryTyped, through <= latest.upTo + Recent
  PROVE  OmitsOnlyUnread
<1>1. /\ path \in Nat /\ through \in Nat /\ latest.upTo \in Nat /\ Recent \in Nat /\ through <= path
  BY SummaryAssumption DEF SummaryTyped
<1>2. Omitted = latest.upTo + 1 .. path - Recent
  BY <1>1, SummaryAssumption DEF Omitted
<1>3. ASSUME NEW a \in Int, NEW b \in Int
      PROVE  Cardinality(a .. b) = IF a > b THEN 0 ELSE b - a + 1
  BY FS_Interval
<1>4. latest.upTo + 1 \in Int /\ path - Recent \in Int
  BY <1>1
<1>5. Cardinality(Omitted) = IF latest.upTo + 1 > path - Recent THEN 0
                             ELSE (path - Recent) - (latest.upTo + 1) + 1
  BY <1>2, <1>3, <1>4
<1>6. QED
  BY <1>1, <1>5 DEF OmitsOnlyUnread

\* A branch begins without messages, snapshot or job.
LEMMA SummaryBegins == SummaryInit => SummaryInv
<1> SUFFICES ASSUME SummaryInit PROVE SummaryInv
  OBVIOUS
<1>1. Message \subseteq Nat \ {0} /\ Empty \in [Message -> Nat] /\ \A m \in Message : Empty[m] = 0
  BY DEF Message, Empty
<1>2. Whole(Empty, 0) /\ Exact(Empty, 0)
  BY <1>1 DEF Whole, Exact
<1>3. Cutoff(0) = 0
  BY SummaryAssumption DEF Cutoff
<1>4. SummaryTyped
  <2>1. /\ NoJob \in [pc : {"idle", "read", "merged", "writing"}, read : Nat,
                    upTo : Nat, text : [Message -> Nat], begun : Nat]
        /\ NoSnapshot \in [upTo : Nat, text : [Message -> Nat], begun : Nat]
        /\ NoSnapshot.begun = 0
    BY <1>1 DEF NoJob, NoSnapshot
  <2>2. job \in [Worker -> [pc : {"idle", "read", "merged", "writing"}, read : Nat,
                           upTo : Nat, text : [Message -> Nat], begun : Nat]]
    BY <2>1 DEF SummaryInit
  <2>3. latest = NoSnapshot /\ path = 0 /\ through = 0 /\ clock = 0 /\ overlapped = FALSE
    BY DEF SummaryInit
  <2>4. /\ latest \in [upTo : Nat, text : [Message -> Nat], begun : Nat] /\ latest.begun = 0
        /\ overlapped \in BOOLEAN
    BY <2>1, <2>3
  <2>5. path \in Nat /\ through \in Nat /\ clock \in Nat /\ through <= path /\ latest.begun <= clock
    BY <2>3, <2>4
  <2>6. QED
    BY <2>2, <2>4, <2>5 DEF SummaryTyped
<1>5. JobsAreWhole /\ JobsAreExact
  BY <1>2, <1>3, SummaryAssumption DEF SummaryInit, JobsAreWhole, JobsAreExact, NoJob, NoSnapshot
<1>6. QED
  BY <1>4, <1>5 DEF SummaryInv

(***************************************************************************)
(* For every length of the branch and any number of workers: the snapshot  *)
(* has each message up to its last, and without two jobs at once each      *)
(* once, nothing shown again, and no more omitted than was added since     *)
(* (SummaryWorker, ContextBuilder).                                        *)
(***************************************************************************)
THEOREM ContextsAreWhole == SummarySpec => []ContextIsWhole
<1>1. SummaryInit => SummaryInv
  BY SummaryBegins
<1>2. SummaryInv => ContextIsWhole
  BY OmittedAreNew DEF SummaryInv, JobsAreWhole, JobsAreExact, ContextIsWhole, FoldedOnce, Whole, Exact
<1>3. QED
  BY <1>1, <1>2, SummaryStep, PTL DEF SummarySpec

\* The branch grows to its bound, and what is folded is on its path.
SummaryBounded ==
    /\ path <= MaxPath /\ answering \in BOOLEAN /\ (answering => path < MaxPath) /\ waiting \in Nat
    /\ latest.upTo <= path /\ \A w \in Worker : job[w].upTo <= path

\* Every step of the branch and of its summary keeps these bounds.
LEMMA SummaryBoundedStep == SummaryInv /\ SummaryBounded /\ [SummaryNext]_summaryVars => SummaryBounded'
<1> SUFFICES ASSUME SummaryInv, SummaryBounded, [SummaryNext]_summaryVars PROVE SummaryBounded'
  OBVIOUS
<1>0. /\ path \in Nat /\ MaxPath \in Nat /\ path <= MaxPath /\ waiting \in Nat
      /\ job \in [Worker -> [pc : {"idle", "read", "merged", "writing"}, read : Nat,
                             upTo : Nat, text : [Message -> Nat], begun : Nat]]
      /\ latest \in [upTo : Nat, text : [Message -> Nat], begun : Nat]
      /\ latest.upTo <= path /\ \A w \in Worker : job[w].upTo <= path /\ job[w].read <= path
      /\ answering \in BOOLEAN /\ (answering => path < MaxPath)
  BY SummaryAssumption DEF SummaryInv, SummaryTyped, JobsAreWhole, SummaryBounded
<1>1. CASE SendMessage
  BY <1>0, <1>1 DEF SendMessage, SummaryBounded
<1>2. ASSUME NEW answers \in {0, 1}, NEW asks \in {0, 1}, EndTurn(answers, asks) PROVE SummaryBounded'
  <2>1. answering' = FALSE /\ path' = path + answers /\ waiting' = waiting + asks /\ UNCHANGED <<latest, job>>
    BY <1>2 DEF EndTurn
  <2>2. path < MaxPath /\ path' \in Nat /\ path' <= MaxPath /\ path <= path' /\ waiting' \in Nat
    BY <1>0, <1>2, <2>1 DEF EndTurn
  <2>3. latest'.upTo <= path' /\ \A w \in Worker : job'[w].upTo <= path'
    BY <1>0, <2>1, <2>2
  <2>4. QED
    BY <2>1, <2>2, <2>3 DEF SummaryBounded
<1>3. ASSUME UNCHANGED <<path, answering, latest>>, waiting' \in Nat,
             \A w \in Worker : job'[w].upTo <= path
      PROVE  SummaryBounded'
  BY <1>0, <1>3 DEF SummaryBounded
<1>4. NoJob.upTo = 0
  BY DEF NoJob
<1>5. ASSUME NEW w \in Worker, Take(w) PROVE SummaryBounded'
  <2> DEFINE taken == [NoJob EXCEPT !.pc = "read", !.read = path]
  <2>1. /\ UNCHANGED <<path, answering, latest>> /\ waiting' \in Nat
        /\ UNCHANGED job \/ job' = [job EXCEPT ![w] = taken]
    BY <1>0, <1>5 DEF Take
  <2>2. taken.upTo = 0
    BY DEF NoJob
  <2> HIDE DEF taken
  <2>3. \A v \in Worker : job'[v].upTo <= path
    BY <1>0, <2>1, <2>2
  <2>4. QED
    BY <1>3, <2>1, <2>3
<1>6. ASSUME NEW w \in Worker, Merge(w) PROVE SummaryBounded'
  <2> DEFINE to == Cutoff(job[w].read)
             after == IF latest.upTo <= job[w].read THEN latest.upTo ELSE 0
             merged == [pc |-> "merged", read |-> job[w].read, upTo |-> to,
                        text |-> Fold(latest.text, after, to), begun |-> 0]
  <2>1. /\ UNCHANGED <<path, answering, latest, waiting>>
        /\ job' = [job EXCEPT ![w] = NoJob] \/ job' = [job EXCEPT ![w] = merged]
    BY <1>6 DEF Merge, Quit
  <2>2. to <= path /\ merged.upTo = to
    BY <1>0, CutoffGrows
  <2> HIDE DEF merged, to
  <2>3. \A v \in Worker : job'[v].upTo <= path
    BY <1>0, <1>4, <2>1, <2>2
  <2>4. QED
    BY <1>0, <1>3, <2>1, <2>3
<1>7. ASSUME NEW w \in Worker, BeginWrite(w) PROVE SummaryBounded'
  BY <1>0, <1>3, <1>7 DEF BeginWrite
<1>8. ASSUME NEW w \in Worker, Write(w) PROVE SummaryBounded'
  <2>1. \A v \in Worker : job'[v].upTo <= path
    BY <1>0, <1>4, <1>8 DEF Write, Quit
  <2>2. latest'.upTo <= path
    BY <1>0, <1>8 DEF Write
  <2>3. QED
    BY <1>0, <1>8, <2>1, <2>2 DEF Write, SummaryBounded
<1>9. ASSUME NEW w \in Worker, Lose(w) PROVE SummaryBounded'
  BY <1>0, <1>3, <1>4, <1>9 DEF Lose, Quit
<1>10. CASE UNCHANGED summaryVars
  BY <1>10 DEF summaryVars, SummaryBounded
<1>11. QED
  BY <1>1, <1>2, <1>5, <1>6, <1>7, <1>8, <1>9, <1>10
  DEF SummaryNext, CompleteTurn, StopTurn, FailTurn

\* The beginning is within the bounds, and the types are of the invariant.
LEMMA SummaryTypes ==
  /\ SummaryInit => SummaryBounded
  /\ SummaryInv /\ SummaryBounded => SummaryTypeOK
<1>1. ASSUME SummaryInit PROVE SummaryBounded
  <2>1. path = 0 /\ waiting = 0 /\ answering = FALSE /\ latest = NoSnapshot /\ job = [w \in Worker |-> NoJob]
    BY <1>1 DEF SummaryInit
  <2>2. NoSnapshot.upTo = 0 /\ NoJob.upTo = 0
    BY DEF NoSnapshot, NoJob
  <2>3. latest.upTo = 0 /\ \A w \in Worker : job[w].upTo = 0
    BY <2>1, <2>2
  <2>4. answering \in BOOLEAN /\ ~answering
    BY <2>1
  <2>5. path <= MaxPath /\ waiting \in Nat /\ latest.upTo <= path /\ \A w \in Worker : job[w].upTo <= path
    BY <2>1, <2>3, SummaryAssumption
  <2>6. QED
    BY <2>4, <2>5, Zenon DEF SummaryBounded
<1>2. ASSUME SummaryInv, SummaryBounded PROVE SummaryTypeOK
  <2>1. /\ path \in 0 .. MaxPath /\ through \in 0 .. path /\ overlapped \in BOOLEAN /\ clock \in Nat
    BY <1>2, SummaryAssumption DEF SummaryInv, SummaryTyped, SummaryBounded
  <2>2. latest \in [upTo : 0 .. path, text : [Message -> Nat], begun : 0 .. clock]
    BY <1>2, <2>1 DEF SummaryInv, SummaryTyped, SummaryBounded
  <2>3. ASSUME NEW w \in Worker
        PROVE  job[w] \in [pc : {"idle", "read", "merged", "writing"}, read : 0 .. path,
                           upTo : 0 .. path, text : [Message -> Nat], begun : 0 .. clock]
    BY <1>2, <2>1 DEF SummaryInv, SummaryTyped, JobsAreWhole, SummaryBounded
  <2>4. job \in [Worker -> [pc : {"idle", "read", "merged", "writing"}, read : 0 .. path,
                            upTo : 0 .. path, text : [Message -> Nat], begun : 0 .. clock]]
    BY <1>2, <2>3 DEF SummaryInv, SummaryTyped
  <2>5. QED
    BY <1>2, <2>1, <2>2, <2>4 DEF SummaryBounded, SummaryTypeOK
<1>3. QED
  BY <1>1, <1>2

-----------------------------------------------------------------------------
-----------------------------------------------------------------------------
(* Dictation: the inductive invariant *)

MessageKinds == {"connected", "ready", "final", "error", "finished", "close"}
Messages == [type : MessageKinds, piece : Nat]
PageState == [id : 0 .. MaxSessions, mode : {"idle", "connecting", "recording", "finalizing"},
              stream : BOOLEAN, socket : BOOLEAN, timer : BOOLEAN, capture : BOOLEAN, text : Seq(Nat)]

DictationTypes ==
    /\ DictationTypeOK
    /\ page \in PageState
    /\ asking \in Nat /\ tail \in BOOLEAN /\ crossed \in BOOLEAN
    /\ closing \in Seq([kind : {"abort", "finish"}, socket : 0 .. MaxSessions])
    /\ said \in [Session -> Nat]
    /\ up \in [Session -> Seq({"audio", "finish", "close"})]
    /\ down \in [Session -> Seq(Messages)]
    /\ socket \in [Session -> {"none", "opening", "open", "closing", "closed"}]
    /\ proxy \in [Session -> {"none", "dialing", "bridging", "finishing", "over"}]
    /\ recogniser \in [Session -> [state : {"none", "starting", "running", "finishing", "over"},
                                   heard : Nat, told : Nat]]

\* Nothing is known of a session that has not begun, and there is room for
\* what is asked for.
Unbegun ==
    /\ page.id + asking <= MaxSessions
    /\ \A s \in Session : s > page.id =>
       /\ said[s] = 0 /\ up[s] = <<>> /\ down[s] = <<>> /\ socket[s] = "none" /\ proxy[s] = "none"
       /\ recogniser[s].heard = 0 /\ recogniser[s].told = 0 /\ recogniser[s].state = "none"

\* The page opens a stream and a socket together and drops them together.
PageAgrees ==
    /\ page.socket = page.stream
    /\ page.capture => page.stream
    /\ page.text = [k \in 1 .. Len(page.text) |-> k]

Live(s) == socket[s] \in {"opening", "open"}
Faultless(s) == ~crossed /\ s \notin faults
Blocks == IF tail THEN 1 ELSE 0

\* The proxy and the recogniser go from state to state together.
Bridge(s) ==
    /\ socket[s] = "opening" => proxy[s] = "none" /\ up[s] = <<>>
    /\ proxy[s] = "none" => socket[s] # "open"
    /\ recogniser[s].state = "none" /\ Live(s) => proxy[s] \in {"none", "dialing"}
    /\ recogniser[s].state = "finishing" => proxy[s] = "finishing"
    /\ proxy[s] \in {"none", "dialing"} => recogniser[s].state = "none" /\ recogniser[s].heard = 0
    /\ page.capture => recogniser[s].state \notin {"none", "starting"}
    /\ socket[s] = "closed" => page.mode = "idle"

\* What is on its way to the recogniser: blocks, and after a finish nothing.
AudioIs(letters, n) ==
    /\ n \in 0 .. Len(letters)
    /\ \A i \in 1 .. n : letters[i] = "audio"
    /\ \A i \in n + 1 .. Len(letters) : letters[i] # "audio"

AudioOf(s, n) ==
    /\ AudioIs(up[s], n)
    /\ n < Len(up[s]) /\ socket[s] = "open" => s \notin mic /\ ~tail
    /\ recogniser[s].heard + n + Blocks <= said[s]
    /\ Faultless(s) /\ Live(s) => recogniser[s].heard + n + Blocks = said[s]

Audio(s) == \E n \in Nat : AudioOf(s, n)

\* What is on its way to the page: the greeting, the pieces from low + 1 to
\* high, the end.
LettersAre(letters, greeting, ending, low, high) ==
    /\ greeting \in 0 .. 2 /\ ending \in 0 .. 2 /\ greeting + ending <= Len(letters)
    /\ low + (Len(letters) - ending - greeting) = high
    /\ \A i \in 1 .. greeting :
         \/ letters[i].type = "connected" /\ i = 1
         \/ letters[i].type = "ready" /\ i = greeting
    /\ \A i \in greeting + 1 .. Len(letters) - ending :
         letters[i].type = "final" /\ letters[i].piece = low + (i - greeting)
    /\ \A i \in Len(letters) - ending + 1 .. Len(letters) :
         letters[i].type \in (IF i = Len(letters) THEN {"close"} ELSE {"error", "finished"})

LettersOf(s, greeting, ending) ==
    /\ LettersAre(down[s], greeting, ending, Len(page.text), recogniser[s].told)
    /\ proxy[s] # "over" => ending = 0
    /\ page.capture => greeting = 0
    /\ recogniser[s].state = "starting" =>
         Len(down[s]) = greeting /\ \A i \in 1 .. greeting : down[s][i].type # "ready"
    /\ proxy[s] \in {"none", "dialing"} => down[s] = <<>>
    /\ \A i \in 1 .. Len(down[s]) : down[s][i].type = "error" => s \in faults
    /\ Faultless(s) /\ proxy[s] = "over" => ending = 2 \/ Len(page.text) = said[s]

Letters(s) == \E greeting, ending \in 0 .. 2 : LettersOf(s, greeting, ending)

\* The page's functions, when no other recording began before one was over.
Alone ==
    ~crossed =>
      /\ mic \subseteq {page.id}
      /\ closing # <<>> \/ ~page.stream \/ page.mode = "idle" => mic = {} /\ ~tail
      /\ closing = <<>> /\ page.mode = "idle" => ~page.stream
      /\ tail => page.capture
      /\ page.mode = "connecting" => ~page.capture

\* All that was said is shown.
Shown(s) ==
    Faultless(s) =>
      /\ said[s] > 0 => page.capture \/ ~page.stream
      /\ closing # <<>> \/ ~page.stream \/ ~Live(s) =>
           Len(page.text) = said[s] /\ s \notin mic /\ ~tail
      /\ proxy[s] \in {"finishing", "over"} /\ Live(s) =>
           recogniser[s].heard = said[s] /\ s \notin mic /\ ~tail
      /\ proxy[s] = "over" /\ Live(s) => recogniser[s].told = recogniser[s].heard

Newly(s) ==
    /\ socket[s] # "none" /\ Bridge(s) /\ Audio(s) /\ Shown(s)
    /\ Len(page.text) <= recogniser[s].told
    /\ Live(s) => Letters(s)

DictationInv ==
    /\ DictationTypes /\ Unbegun /\ PageAgrees /\ Alone
    /\ \A s \in Session : s = page.id => Newly(s)


\* The first of what is on its way to the page, and the rest.
LEMMA LettersTaken ==
  ASSUME NEW letters, Len(letters) \in Nat \ {0}, NEW rest,
         Len(rest) = Len(letters) - 1, \A i \in 1 .. Len(letters) - 1 : rest[i] = letters[i + 1],
         NEW greeting \in 0 .. 2, NEW ending \in 0 .. 2, NEW low \in Nat, NEW high \in Nat,
         LettersAre(letters, greeting, ending, low, high)
  PROVE  \/ /\ greeting > 0 /\ LettersAre(rest, greeting - 1, ending, low, high)
            /\ letters[1].type = "connected" \/ (letters[1].type = "ready" /\ greeting = 1)
         \/ /\ greeting = 0 /\ LettersAre(rest, 0, ending, low + 1, high)
            /\ letters[1].type = "final" /\ letters[1].piece = low + 1 /\ low + 1 <= high
         \/ /\ greeting = 0 /\ low = high /\ ending > 0 /\ LettersAre(rest, 0, ending - 1, low, high)
            /\ letters[1].type \in (IF ending = 1 THEN {"close"} ELSE {"error", "finished"})
<1> DEFINE n == Len(letters)
<1>1. /\ greeting + ending <= n /\ low + (n - ending - greeting) = high /\ n \in Nat \ {0}
      /\ Len(rest) = n - 1
  BY DEF LettersAre
<1>2. \A i \in 1 .. greeting : \/ letters[i].type = "connected" /\ i = 1
                               \/ letters[i].type = "ready" /\ i = greeting
  BY DEF LettersAre
<1>3. \A i \in greeting + 1 .. n - ending : letters[i].type = "final" /\ letters[i].piece = low + (i - greeting)
  BY DEF LettersAre
<1>4. \A i \in n - ending + 1 .. n : letters[i].type \in (IF i = n THEN {"close"} ELSE {"error", "finished"})
  BY DEF LettersAre
<1>5. \A i \in 1 .. n - 1 : rest[i] = letters[i + 1]
  OBVIOUS
<1> HIDE DEF n
<1>6. CASE greeting > 0
  <2>1. 1 \in 1 .. greeting
    BY <1>6
  <2>2. letters[1].type = "connected" \/ (letters[1].type = "ready" /\ greeting = 1)
    BY <1>2, <2>1
  <2>3. /\ greeting - 1 \in 0 .. 2 /\ (greeting - 1) + ending <= Len(rest)
        /\ low + (Len(rest) - ending - (greeting - 1)) = high
    BY <1>1, <1>6
  <2>4. ASSUME NEW i \in 1 .. greeting - 1
        PROVE  \/ rest[i].type = "connected" /\ i = 1
               \/ rest[i].type = "ready" /\ i = greeting - 1
    <3>1. i \in 1 .. n - 1 /\ i + 1 \in 1 .. greeting /\ i + 1 # 1 /\ (i + 1 = greeting => i = greeting - 1)
      BY <1>1
    <3>2. letters[i + 1].type = "ready" /\ i + 1 = greeting
      BY <1>2, <3>1
    <3>3. QED
      BY <1>5, <3>1, <3>2
  <2>5. ASSUME NEW i \in (greeting - 1) + 1 .. Len(rest) - ending
        PROVE  rest[i].type = "final" /\ rest[i].piece = low + (i - (greeting - 1))
    <3>1. i \in 1 .. n - 1 /\ i + 1 \in greeting + 1 .. n - ending /\ (i + 1) - greeting = i - (greeting - 1)
      BY <1>1, <1>6
    <3>2. letters[i + 1].type = "final" /\ letters[i + 1].piece = low + ((i + 1) - greeting)
      BY <1>3, <3>1
    <3>3. QED
      BY <1>5, <3>1, <3>2
  <2>6. ASSUME NEW i \in Len(rest) - ending + 1 .. Len(rest)
        PROVE  rest[i].type \in (IF i = Len(rest) THEN {"close"} ELSE {"error", "finished"})
    <3>1. i \in Int /\ n - ending <= i /\ i <= n - 1 /\ 1 <= i
      BY <1>1, <1>6
    <3>2. i \in 1 .. n - 1 /\ i + 1 \in n - ending + 1 .. n
      BY <1>1, <3>1
    <3>3. i + 1 = n <=> i = Len(rest)
      BY <1>1, <3>1
    <3>4. QED
      BY <1>4, <1>5, <3>2, <3>3
  <2>7. LettersAre(rest, greeting - 1, ending, low, high)
    BY <2>3, <2>4, <2>5, <2>6 DEF LettersAre
  <2>8. QED
    BY <1>6, <2>2, <2>7
<1>7. CASE greeting = 0 /\ ending < n
  <2>1. 1 \in greeting + 1 .. n - ending /\ 1 - greeting = 1
    BY <1>1, <1>7
  <2>2. letters[1].type = "final" /\ letters[1].piece = low + 1
    BY <1>3, <2>1
  <2>3. /\ 0 + ending <= Len(rest) /\ (low + 1) + (Len(rest) - ending - 0) = high /\ low + 1 <= high
    <3>1. low + (n - ending) = high /\ Len(rest) = n - 1 /\ ending < n /\ n \in Nat
      BY <1>1, <1>7
    <3>2. ending <= n - 1 /\ (low + 1) + (n - 1 - ending) = low + (n - ending) /\ low + 1 <= low + (n - ending)
      BY <3>1
    <3>3. 0 + ending = ending /\ n - 1 - ending - 0 = n - 1 - ending
      BY <3>1
    <3>4. QED
      BY <3>1, <3>2, <3>3
  <2>4. ASSUME NEW i \in 0 + 1 .. Len(rest) - ending
        PROVE  rest[i].type = "final" /\ rest[i].piece = (low + 1) + (i - 0)
    <3>1. i \in 1 .. n - 1 /\ i + 1 \in greeting + 1 .. n - ending /\ low + ((i + 1) - greeting) = (low + 1) + (i - 0)
      BY <1>1, <1>7
    <3>2. letters[i + 1].type = "final" /\ letters[i + 1].piece = low + ((i + 1) - greeting)
      BY <1>3, <3>1
    <3>3. QED
      BY <1>5, <3>1, <3>2
  <2>5. ASSUME NEW i \in Len(rest) - ending + 1 .. Len(rest)
        PROVE  rest[i].type \in (IF i = Len(rest) THEN {"close"} ELSE {"error", "finished"})
    <3>1. i \in 1 .. n - 1 /\ i + 1 \in n - ending + 1 .. n /\ (i + 1 = n <=> i = Len(rest))
      BY <1>1, <1>7
    <3>2. QED
      BY <1>4, <1>5, <3>1
  <2>6. LettersAre(rest, 0, ending, low + 1, high)
    BY <2>3, <2>4, <2>5 DEF LettersAre
  <2>7. QED
    BY <1>7, <2>2, <2>3, <2>6
<1>8. CASE greeting = 0 /\ ~(ending < n)
  <2>1. /\ ending = n /\ low = high /\ ending > 0 /\ 1 \in n - ending + 1 .. n /\ (1 = n <=> ending = 1)
    BY <1>1, <1>8
  <2>2. letters[1].type \in (IF ending = 1 THEN {"close"} ELSE {"error", "finished"})
    BY <1>4, <2>1
  <2>3. /\ ending - 1 \in 0 .. 2 /\ 0 + (ending - 1) <= Len(rest) /\ low + (Len(rest) - (ending - 1) - 0) = high
    BY <1>1, <2>1
  <2>4. ASSUME NEW i \in Len(rest) - (ending - 1) + 1 .. Len(rest)
        PROVE  rest[i].type \in (IF i = Len(rest) THEN {"close"} ELSE {"error", "finished"})
    <3>1. i \in 1 .. n - 1 /\ i + 1 \in n - ending + 1 .. n /\ (i + 1 = n <=> i = Len(rest))
      BY <1>1, <2>1
    <3>2. QED
      BY <1>4, <1>5, <3>1
  <2>5. /\ \A i \in 0 + 1 .. Len(rest) - (ending - 1) : FALSE
        /\ \A i \in 1 .. 0 : FALSE
    BY <1>1, <2>1
  <2>6. LettersAre(rest, 0, ending - 1, low, high)
    <3>1. 0 \in 0 .. 2 /\ Len(rest) \in Nat /\ ending - 1 \in Nat
      BY <1>1, <2>1
    <3> DEFINE last == ending - 1
    <3>2. /\ 0 + last <= Len(rest) /\ low + (Len(rest) - last - 0) = high /\ last \in 0 .. 2
          /\ \A i \in 0 + 1 .. Len(rest) - last : FALSE
          /\ \A i \in Len(rest) - last + 1 .. Len(rest) :
               rest[i].type \in (IF i = Len(rest) THEN {"close"} ELSE {"error", "finished"})
      BY <2>3, <2>4, <2>5
    <3> HIDE DEF last
    <3>3. LettersAre(rest, 0, last, low, high)
      BY <2>5, <3>1, <3>2 DEF LettersAre
    <3>4. QED
      BY <3>3 DEF last
  <2>7. QED
    BY <1>8, <2>1, <2>2, <2>6
<1>9. QED
  BY <1>6, <1>7, <1>8

\* What the proxy adds: a greeting while there is nothing else, the next
\* piece, or the end.
LEMMA LettersAdded ==
  ASSUME NEW all, NEW letters, NEW run, Joined(all, letters, run),
         NEW greeting \in 0 .. 2, NEW low \in Nat, NEW high \in Nat,
         LettersAre(letters, greeting, 0, low, high)
  PROVE  /\ /\ Len(letters) = greeting /\ Len(run) = 1
            /\ \/ run[1].type = "connected" /\ greeting = 0
               \/ /\ run[1].type = "ready" /\ greeting < 2
                  /\ \A i \in 1 .. greeting : letters[i].type # "ready"
            => greeting + 1 \in 0 .. 2 /\ LettersAre(all, greeting + 1, 0, low, high)
         /\ Len(run) = 1 /\ run[1].type = "final" /\ run[1].piece = high + 1
            => LettersAre(all, greeting, 0, low, high + 1)
         /\ /\ Len(run) \in 1 .. 2
            /\ \A i \in 1 .. Len(run) : run[i].type \in (IF i = Len(run) THEN {"close"} ELSE {"error", "finished"})
            => LettersAre(all, greeting, Len(run), low, high)
<1> DEFINE n == Len(letters)
           more == Len(run)
<1>1. /\ greeting <= n /\ low + (n - greeting) = high /\ n \in Nat /\ more \in Nat /\ Len(all) = n + more
  BY DEF LettersAre, Joined
<1>2. \A i \in 1 .. greeting : \/ letters[i].type = "connected" /\ i = 1
                               \/ letters[i].type = "ready" /\ i = greeting
  BY DEF LettersAre
<1>3. \A i \in greeting + 1 .. n : letters[i].type = "final" /\ letters[i].piece = low + (i - greeting)
  <2>1. n - 0 = n
    BY <1>1
  <2>2. QED
    BY <2>1 DEF LettersAre
<1>4. /\ \A i \in 1 .. n : all[i] = letters[i]
      /\ \A i \in 1 .. more : all[n + i] = run[i]
  BY DEF Joined
<1> HIDE DEF n, more
<1>5. ASSUME n = greeting, more = 1,
             \/ run[1].type = "connected" /\ greeting = 0
             \/ /\ run[1].type = "ready" /\ greeting < 2
                /\ \A i \in 1 .. greeting : letters[i].type # "ready"
      PROVE  greeting + 1 \in 0 .. 2 /\ LettersAre(all, greeting + 1, 0, low, high)
  <2>1. /\ greeting + 1 \in 0 .. 2 /\ greeting + 1 + 0 <= Len(all)
        /\ low + (Len(all) - 0 - (greeting + 1)) = high
        /\ (greeting + 1) + 1 .. Len(all) - 0 = {} /\ Len(all) - 0 + 1 .. Len(all) = {}
    BY <1>1, <1>5
  <2>2. ASSUME NEW i \in 1 .. greeting + 1
        PROVE  \/ all[i].type = "connected" /\ i = 1
               \/ all[i].type = "ready" /\ i = greeting + 1
    <3>1. CASE i \in 1 .. greeting
      <4>1. i \in 1 .. n
        BY <1>1, <3>1
      <4>2. letters[i].type = "connected" /\ i = 1
        BY <1>2, <1>5, <3>1
      <4>3. QED
        BY <1>4, <4>1, <4>2
    <3>2. CASE i \notin 1 .. greeting
      <4>1. i = n + 1 /\ 1 \in 1 .. more /\ i = greeting + 1
        BY <1>1, <1>5, <3>2
      <4>2. all[i] = run[1]
        BY <1>4, <4>1
      <4>3. QED
        BY <1>5, <4>1, <4>2
    <3>3. QED
      BY <3>1, <3>2
  <2>3. QED
    BY <2>1, <2>2 DEF LettersAre
<1>6. \A i \in 1 .. greeting : \/ all[i].type = "connected" /\ i = 1
                               \/ all[i].type = "ready" /\ i = greeting
  <2>1. \A i \in 1 .. greeting : i \in 1 .. n
    BY <1>1
  <2>2. QED
    BY <1>2, <1>4, <2>1
<1>7. \A i \in greeting + 1 .. n : all[i].type = "final" /\ all[i].piece = low + (i - greeting)
  <2>1. \A i \in greeting + 1 .. n : i \in 1 .. n
    BY <1>1
  <2>2. QED
    BY <1>3, <1>4, <2>1
<1>8. ASSUME more = 1, run[1].type = "final", run[1].piece = high + 1
      PROVE  LettersAre(all, greeting, 0, low, high + 1)
  <2>1. /\ greeting + 0 <= Len(all) /\ low + (Len(all) - 0 - greeting) = high + 1
        /\ Len(all) - 0 + 1 .. Len(all) = {} /\ 0 \in 0 .. 2
    BY <1>1, <1>8
  <2>2. ASSUME NEW i \in greeting + 1 .. Len(all) - 0
        PROVE  all[i].type = "final" /\ all[i].piece = low + (i - greeting)
    <3>1. CASE i \in greeting + 1 .. n
      BY <1>7, <3>1
    <3>2. CASE i \notin greeting + 1 .. n
      <4>1. i = n + 1 /\ 1 \in 1 .. more /\ low + (i - greeting) = high + 1
        BY <1>1, <1>8, <3>2
      <4>2. all[i] = run[1]
        BY <1>4, <4>1
      <4>3. QED
        BY <1>8, <4>1, <4>2
    <3>3. QED
      BY <3>1, <3>2
  <2>3. QED
    BY <1>6, <2>1, <2>2 DEF LettersAre
<1>9. ASSUME more \in 1 .. 2,
             \A i \in 1 .. more : run[i].type \in (IF i = more THEN {"close"} ELSE {"error", "finished"})
      PROVE  LettersAre(all, greeting, more, low, high)
  <2>1. /\ greeting + more <= Len(all) /\ low + (Len(all) - more - greeting) = high /\ more \in 0 .. 2
        /\ Len(all) - more = n
    BY <1>1, <1>9
  <2>2. ASSUME NEW i \in Len(all) - more + 1 .. Len(all)
        PROVE  all[i].type \in (IF i = Len(all) THEN {"close"} ELSE {"error", "finished"})
    <3>1. i - n \in 1 .. more /\ n + (i - n) = i /\ (i - n = more <=> i = Len(all))
      BY <1>1, <2>1
    <3>2. all[i] = run[i - n]
      BY <1>4, <3>1
    <3>3. QED
      BY <1>9, <3>1, <3>2
  <2>3. QED
    BY <1>6, <1>7, <2>1, <2>2 DEF LettersAre
<1>10. QED
  BY <1>5, <1>8, <1>9 DEF n, more


\* One more at the end of what a session's page, or its proxy, has sent.
LEMMA SentMore ==
  ASSUME NEW S, NEW old \in Seq(S), NEW x \in S
  PROVE  Append(old, x) \in Seq(S) /\ Joined(Append(old, x), old, <<x>>) /\ Len(<<x>>) = 1 /\ <<x>>[1] = x
<1> DEFINE all == Append(old, x)
           run == <<x>>
<1>1. /\ all \in Seq(S) /\ Len(all) = Len(old) + 1 /\ Len(old) \in Nat
      /\ \A i \in 1 .. Len(old) : all[i] = old[i]
      /\ all[Len(old) + 1] = x
  BY AppendProperties
<1>2. Len(run) = 1 /\ run[1] = x /\ \A i \in 1 .. Len(run) : i = 1
  OBVIOUS
<1> HIDE DEF all, run
<1>3. Joined(all, old, run)
  BY <1>1, <1>2 DEF Joined
<1>4. QED
  BY <1>1, <1>2, <1>3 DEF all, run

\* The first is taken of what a session has sent.
LEMMA FirstTaken ==
  ASSUME NEW S, NEW old \in Seq(S), old # <<>>
  PROVE  /\ Tail(old) \in Seq(S) /\ Head(old) = old[1] /\ old[1] \in S /\ Len(old) \in Nat \ {0}
         /\ Len(Tail(old)) = Len(old) - 1
         /\ \A i \in 1 .. Len(old) - 1 : Tail(old)[i] = old[i + 1]
OBVIOUS

\* A block, a finish or a disconnect is added to the audio, and one is read.
LEMMA AudioMoves ==
  ASSUME NEW letters \in Seq({"audio", "finish", "close"}), NEW n \in Nat, AudioIs(letters, n)
  PROVE  /\ n = Len(letters) => AudioIs(Append(letters, "audio"), n + 1) /\ n + 1 = Len(Append(letters, "audio"))
         /\ \A last \in {"finish", "close"} :
              AudioIs(Append(letters, last), n) /\ n < Len(Append(letters, last))
         /\ letters # <<>> =>
              /\ Head(letters) = "audio" => n > 0 /\ AudioIs(Tail(letters), n - 1)
              /\ Head(letters) # "audio" => n = 0 /\ 0 < Len(letters) /\ AudioIs(Tail(letters), 0)
<1> DEFINE S == {"audio", "finish", "close"}
<1>1. /\ Len(letters) \in Nat /\ n <= Len(letters)
      /\ \A i \in 1 .. n : letters[i] = "audio"
      /\ \A i \in n + 1 .. Len(letters) : letters[i] # "audio"
  BY DEF AudioIs
<1>2. ASSUME NEW x \in S, NEW all, all = Append(letters, x)
      PROVE  /\ n <= Len(letters) /\ Len(all) = Len(letters) + 1
             /\ \A i \in 1 .. n : all[i] = "audio"
             /\ \A i \in n + 1 .. Len(letters) : all[i] # "audio"
             /\ all[Len(letters) + 1] = x
  <2> DEFINE more == Append(letters, x)
  <2>1. /\ more \in Seq(S) /\ Len(more) = Len(letters) + 1
        /\ \A i \in 1 .. Len(letters) : more[i] = letters[i]
        /\ more[Len(letters) + 1] = x
    BY AppendProperties
  <2>2. all = more
    BY <1>2
  <2>3. \A i \in 1 .. n : i \in 1 .. Len(letters)
    BY <1>1
  <2>4. \A i \in n + 1 .. Len(letters) : i \in 1 .. Len(letters)
    BY <1>1
  <2> HIDE DEF more
  <2>5. QED
    BY <1>1, <2>1, <2>2, <2>3, <2>4
<1>3. ASSUME n = Len(letters), NEW all, all = Append(letters, "audio") PROVE AudioIs(all, n + 1) /\ n + 1 = Len(all)
  <2>1. /\ Len(all) = Len(letters) + 1 /\ \A i \in 1 .. n : all[i] = "audio"
        /\ all[Len(letters) + 1] = "audio"
    BY <1>2, <1>3
  <2> HIDE <1>3
  <2>2. \A i \in 1 .. n + 1 : i \in 1 .. n \/ i = n + 1
    OBVIOUS
  <2>3. n = Len(letters)
    BY <1>3
  <2>4. n + 1 \in 0 .. Len(all) /\ n + 1 = Len(all) /\ \A i \in n + 1 + 1 .. Len(all) : FALSE
    BY <2>1, <2>3
  <2>5. \A i \in 1 .. n + 1 : all[i] = "audio"
    BY <2>1, <2>2, <2>3
  <2>6. QED
    BY <2>4, <2>5 DEF AudioIs
<1>4. ASSUME NEW last \in {"finish", "close"}, NEW all, all = Append(letters, last)
      PROVE  AudioIs(all, n) /\ n < Len(all)
  <2>1. /\ Len(all) = Len(letters) + 1 /\ \A i \in 1 .. n : all[i] = "audio"
        /\ \A i \in n + 1 .. Len(letters) : all[i] # "audio"
        /\ all[Len(letters) + 1] = last
    BY <1>2, <1>4
  <2>2. \A i \in n + 1 .. Len(letters) + 1 : i \in n + 1 .. Len(letters) \/ i = Len(letters) + 1
    BY <1>1
  <2>3. n \in 0 .. Len(all) /\ n < Len(all)
    BY <1>1, <2>1
  <2>4. \A i \in n + 1 .. Len(all) : all[i] # "audio"
    BY <2>1, <2>2
  <2>5. QED
    BY <2>1, <2>3, <2>4 DEF AudioIs
<1>5. ASSUME letters # <<>>, NEW rest, rest = Tail(letters)
      PROVE  /\ Head(letters) = "audio" => n > 0 /\ AudioIs(rest, n - 1)
             /\ Head(letters) # "audio" => n = 0 /\ 0 < Len(letters) /\ AudioIs(rest, 0)
  <2> DEFINE tl == Tail(letters)
  <2>1. /\ Head(letters) = letters[1] /\ Len(letters) \in Nat \ {0} /\ Len(tl) = Len(letters) - 1
        /\ \A i \in 1 .. Len(letters) - 1 : tl[i] = letters[i + 1]
    BY <1>5, FirstTaken
  <2>2. rest = tl
    BY <1>5
  <2> HIDE DEF tl
  <2>3. /\ Head(letters) = letters[1] /\ Len(letters) \in Nat \ {0} /\ Len(rest) = Len(letters) - 1
        /\ \A i \in 1 .. Len(letters) - 1 : rest[i] = letters[i + 1]
    BY <2>1, <2>2
  <2> HIDE <1>5
  <2>4. CASE Head(letters) = "audio"
    <3>1. n # 0
      <4>1. n = 0 => 1 \in n + 1 .. Len(letters)
        BY <2>3
      <4>2. QED
        BY <1>1, <2>3, <2>4, <4>1
    <3>2. n - 1 \in 0 .. Len(rest) /\ n > 0
      BY <1>1, <2>3, <3>1
    <3>3. /\ \A i \in 1 .. n - 1 : i \in 1 .. Len(letters) - 1 /\ i + 1 \in 1 .. n
          /\ \A i \in n - 1 + 1 .. Len(rest) : i \in 1 .. Len(letters) - 1 /\ i + 1 \in n + 1 .. Len(letters)
      BY <1>1, <2>3, <3>1
    <3>4. QED
      BY <1>1, <2>3, <2>4, <3>2, <3>3 DEF AudioIs
  <2>5. CASE Head(letters) # "audio"
    <3>1. n = 0
      <4>1. n # 0 => 1 \in 1 .. n
        OBVIOUS
      <4>2. QED
        BY <1>1, <2>3, <2>5, <4>1
    <3>2. /\ 0 \in 0 .. Len(rest) /\ 0 < Len(letters) /\ \A i \in 1 .. 0 : FALSE
          /\ \A i \in 0 + 1 .. Len(rest) : i \in 1 .. Len(letters) - 1 /\ i + 1 \in 0 + 1 .. Len(letters)
      BY <2>3
    <3>3. \A i \in 0 + 1 .. Len(rest) : rest[i] # "audio"
      BY <1>1, <2>3, <3>1, <3>2
    <3>4. QED
      BY <2>5, <3>1, <3>2, <3>3 DEF AudioIs
  <2>6. QED
    BY <2>4, <2>5
<1>6. QED
  BY <1>3, <1>4, <1>5

\* A socket is closed by the page.
LEMMA SocketCloses ==
  ASSUME DictationTypes, NEW x, CloseSocket(x)
  PROVE  /\ socket' \in [Session -> {"none", "opening", "open", "closing", "closed"}]
         /\ up' \in [Session -> Seq({"audio", "finish", "close"})]
         /\ \A s \in Session : s # x => socket'[s] = socket[s] /\ up'[s] = up[s]
         /\ x \in Session =>
              \/ socket[x] \notin {"opening", "open"} /\ socket'[x] = socket[x] /\ up'[x] = up[x]
              \/ socket[x] = "opening" /\ socket'[x] = "closing" /\ up'[x] = up[x]
              \/ socket[x] = "open" /\ socket'[x] = "closing" /\ up'[x] = Append(up[x], "close")
<1>1. /\ socket \in [Session -> {"none", "opening", "open", "closing", "closed"}]
      /\ up \in [Session -> Seq({"audio", "finish", "close"})]
  BY DEF DictationTypes
<1>2. socket' = [s \in Session |-> IF s = x /\ socket[s] \in {"opening", "open"} THEN "closing" ELSE socket[s]]
  BY DEF CloseSocket
<1>3. up' = IF Open(x) THEN [up EXCEPT ![x] = Append(@, "close")] ELSE up
  BY DEF CloseSocket
<1>4. CASE Open(x)
  <2>1. x \in Session /\ socket[x] = "open"
    BY <1>4 DEF Open
  <2>2. Append(up[x], "close") \in Seq({"audio", "finish", "close"})
    BY <1>1, <2>1
  <2>3. QED
    BY <1>1, <1>2, <1>3, <1>4, <2>1, <2>2
<1>5. CASE ~Open(x)
  <2>1. x \in Session => socket[x] # "open"
    BY <1>5 DEF Open
  <2>2. up' = up
    BY <1>3, <1>5
  <2>3. QED
    BY <1>1, <1>2, <2>1, <2>2
<1>6. QED
  BY <1>4, <1>5

\* The page's call that ends a recording.
LEMMA SessionEnds ==
  ASSUME DictationTypes, PageAgrees, NEW kind \in {"abort", "finish"}, EndSession(kind)
  PROVE  /\ page' \in PageState /\ page'.id = page.id /\ page'.text = page.text /\ page'.mode = "idle"
         /\ page'.capture = page.capture /\ page'.stream = page.stream /\ page'.socket = page.socket
         /\ closing' \in Seq([kind : {"abort", "finish"}, socket : 0 .. MaxSessions])
         /\ page.stream => closing' # <<>> /\ mic' = mic \ {page.id}
         /\ ~page.stream => closing' = closing /\ mic' = mic
         /\ mic' \subseteq mic /\ tail' = FALSE /\ said' = said
<1>1. /\ page \in PageState /\ page.socket = page.stream /\ (page.capture => page.stream)
      /\ closing \in Seq([kind : {"abort", "finish"}, socket : 0 .. MaxSessions])
  BY DEF DictationTypes, PageAgrees
<1>2. /\ page' = [(IF page.stream THEN page ELSE Released) EXCEPT !.mode = "idle", !.timer = FALSE]
      /\ closing' = IF page.stream THEN Append(closing, [kind |-> kind, socket |-> Socket]) ELSE closing
      /\ mic' = IF page.stream THEN mic \ {page.id} ELSE mic
      /\ tail' = FALSE /\ said' = said
  BY DEF EndSession
<1>3. /\ page.id \in 0 .. MaxSessions /\ page.stream \in BOOLEAN /\ page.socket \in BOOLEAN
      /\ page.capture \in BOOLEAN /\ page.text \in Seq(Nat)
  BY <1>1 DEF PageState
<1>4. CASE page.stream
  <2>1. page' = [page EXCEPT !.mode = "idle", !.timer = FALSE]
    BY <1>2, <1>4
  <2>2. page' = [id |-> page.id, mode |-> "idle", stream |-> page.stream, socket |-> page.socket,
                 timer |-> FALSE, capture |-> page.capture, text |-> page.text]
    BY <1>1, <2>1 DEF PageState
  <2>3. /\ page'.id = page.id /\ page'.text = page.text /\ page'.mode = "idle"
        /\ page'.capture = page.capture /\ page'.stream = page.stream /\ page'.socket = page.socket
    BY <2>2
  <2>4. page' \in PageState
    BY <1>3, <2>2 DEF PageState
  <2>5. [kind |-> kind, socket |-> Socket] \in [kind : {"abort", "finish"}, socket : 0 .. MaxSessions]
    <3>1. Socket \in 0 .. MaxSessions
      BY <1>3, DictationAssumption DEF Socket
    <3>2. QED
      BY <3>1
  <2>6. /\ closing' = Append(closing, [kind |-> kind, socket |-> Socket])
        /\ mic' = mic \ {page.id} /\ tail' = FALSE /\ said' = said
    BY <1>2, <1>4
  <2>7. /\ closing' \in Seq([kind : {"abort", "finish"}, socket : 0 .. MaxSessions])
        /\ closing' # <<>>
    BY <1>1, <2>5, <2>6
  <2>8. QED
    BY <1>4, <2>3, <2>4, <2>6, <2>7
<1>5. CASE ~page.stream
  <2>1. page' = [Released EXCEPT !.mode = "idle", !.timer = FALSE]
    BY <1>2, <1>5
  <2>2. page' = [id |-> page.id, mode |-> "idle", stream |-> FALSE, socket |-> FALSE,
                 timer |-> FALSE, capture |-> FALSE, text |-> page.text]
    BY <1>1, <2>1 DEF PageState, Released
  <2>3. /\ page'.id = page.id /\ page'.text = page.text /\ page'.mode = "idle"
        /\ page'.capture = page.capture /\ page'.stream = page.stream /\ page'.socket = page.socket
    BY <1>1, <1>3, <1>5, <2>2
  <2>4. page' \in PageState
    BY <1>3, <2>2 DEF PageState
  <2>5. QED
    BY <1>1, <1>2, <1>5, <2>3, <2>4
<1>6. QED
  BY <1>3, <1>4, <1>5


\* What a session is is told by what is kept for it and by the page.
LEMMA Elsewhere ==
  ASSUME NEW s \in Session, Newly(s), page' = page, closing' = closing, tail' = tail, crossed' = crossed,
         mic' = mic, said'[s] = said[s], up'[s] = up[s], down'[s] = down[s], socket'[s] = socket[s],
         proxy'[s] = proxy[s], recogniser'[s] = recogniser[s], s \in faults' <=> s \in faults
  PROVE  Newly(s)'
<1>1. Live(s)' <=> Live(s)
  BY DEF Live
<1>2. Faultless(s)' <=> Faultless(s)
  BY DEF Faultless
<1>3. Blocks' = Blocks
  BY DEF Blocks
<1>4. Bridge(s)'
  BY <1>1 DEF Newly, Bridge
<1>5. Audio(s)'
  <2>1. PICK n \in Nat : AudioOf(s, n)
    BY DEF Newly, Audio
  <2>2. AudioOf(s, n)'
    BY <1>1, <1>2, <1>3, <2>1 DEF AudioOf
  <2>3. QED
    BY <2>2 DEF Audio
<1>6. Live(s) => Letters(s)'
  <2>1. SUFFICES ASSUME Live(s) PROVE Letters(s)'
    OBVIOUS
  <2>2. PICK greeting \in 0 .. 2, ending \in 0 .. 2 : LettersOf(s, greeting, ending)
    BY <2>1 DEF Newly, Letters
  <2>3. LettersOf(s, greeting, ending)'
    BY <1>2, <2>2 DEF LettersOf
  <2>4. QED
    BY <2>3 DEF Letters
<1>7. Shown(s)'
  BY <1>1, <1>2 DEF Newly, Shown
<1>8. QED
  BY <1>1, <1>4, <1>5, <1>6, <1>7 DEF Newly

\* A step of the network or of a service is about one session.
LEMMA ServerStep ==
  ASSUME DictationInv, NEW x \in Session, x <= page.id,
         UNCHANGED <<pageVars, asking, crossed>>, faults' \subseteq Session,
         up' \in [Session -> Seq({"audio", "finish", "close"})],
         down' \in [Session -> Seq(Messages)],
         socket' \in [Session -> {"none", "opening", "open", "closing", "closed"}],
         proxy' \in [Session -> {"none", "dialing", "bridging", "finishing", "over"}],
         recogniser' \in [Session -> [state : {"none", "starting", "running", "finishing", "over"},
                                      heard : Nat, told : Nat]],
         recogniser'[x].told <= recogniser'[x].heard,
         \A s \in Session \ {x} :
            /\ up'[s] = up[s] /\ down'[s] = down[s] /\ socket'[s] = socket[s]
            /\ proxy'[s] = proxy[s] /\ recogniser'[s] = recogniser[s] /\ (s \in faults' <=> s \in faults),
         x = page.id => Newly(x)'
  PROVE  DictationInv'
<1>1. page' = page /\ closing' = closing /\ mic' = mic /\ said' = said /\ tail' = tail /\ asking' = asking /\ crossed' = crossed
  BY DEF pageVars
<1>2. page.id \in 0 .. MaxSessions /\ MaxSessions \in Nat
  BY DictationAssumption DEF DictationInv, DictationTypes, PageState
<1>3. DictationTypes'
  <2>1. \A s \in Session : recogniser'[s].told <= recogniser'[s].heard
    BY DEF DictationInv, DictationTypes, DictationTypeOK
  <2>2. DictationTypeOK'
    BY <1>1, <2>1 DEF DictationInv, DictationTypes, DictationTypeOK
  <2>3. QED
    BY <1>1, <2>2 DEF DictationInv, DictationTypes
<1>4. Unbegun'
  <2>1. \A s \in Session : s > page.id => s \in Session \ {x}
    BY <1>2 DEF Session
  <2>2. QED
    BY <1>1, <2>1 DEF DictationInv, Unbegun
<1>5. PageAgrees' /\ Alone'
  BY <1>1 DEF DictationInv, PageAgrees, Alone
<1>6. ASSUME NEW s \in Session, s = page'.id PROVE Newly(s)'
  <2>1. CASE s = x
    BY <1>1, <1>6, <2>1
  <2>2. CASE s # x
    <3>1. Newly(s)
      BY <1>1, <1>6 DEF DictationInv
    <3>2. s \in Session \ {x}
      BY <2>2
    <3>3. QED
      BY <1>1, <3>1, <3>2, Elsewhere
  <2>3. QED
    BY <2>1, <2>2
<1>7. QED
  BY <1>3, <1>4, <1>5, <1>6 DEF DictationInv

\* A step of the page leaves the services to themselves.
LEMMA PageStep ==
  ASSUME DictationInv, UNCHANGED servers,
         page' \in PageState, page'.id = page.id, asking' \in Nat, page.id + asking' <= MaxSessions,
         tail' \in BOOLEAN, crossed' \in BOOLEAN, mic' \subseteq Session,
         closing' \in Seq([kind : {"abort", "finish"}, socket : 0 .. MaxSessions]),
         said' \in [Session -> Nat],
         up' \in [Session -> Seq({"audio", "finish", "close"})],
         down' \in [Session -> Seq(Messages)],
         socket' \in [Session -> {"none", "opening", "open", "closing", "closed"}],
         \A s \in Session : s > page.id =>
            said'[s] = said[s] /\ up'[s] = up[s] /\ down'[s] = down[s] /\ socket'[s] = socket[s],
         PageAgrees', Alone',
         \A s \in Session : s = page.id => Newly(s)'
  PROVE  DictationInv'
<1>1. proxy' = proxy /\ recogniser' = recogniser /\ faults' = faults
  BY DEF servers
<1>2. page.id \in 0 .. MaxSessions /\ MaxSessions \in Nat
  BY DictationAssumption DEF DictationInv, DictationTypes, PageState
<1>3. DictationTypes'
  <2>1. asking' \in 0 .. MaxSessions
    BY <1>2
  <2>2. page'.id \in 0 .. MaxSessions /\ page'.mode \in {"idle", "connecting", "recording", "finalizing"}
    BY DEF PageState
  <2>3. \A s \in Session : /\ socket'[s] \in {"none", "opening", "open", "closing", "closed"}
                           /\ proxy[s] \in {"none", "dialing", "bridging", "finishing", "over"}
                           /\ recogniser[s].told <= recogniser[s].heard
    BY DEF DictationInv, DictationTypes, DictationTypeOK
  <2>4. DictationTypeOK'
    BY <1>1, <2>1, <2>2, <2>3 DEF DictationInv, DictationTypes, DictationTypeOK
  <2>5. QED
    BY <1>1, <2>4 DEF DictationInv, DictationTypes
<1>4. Unbegun'
  BY <1>1 DEF DictationInv, Unbegun
<1>5. ASSUME NEW s \in Session, s = page'.id PROVE Newly(s)'
  BY <1>5
<1>6. QED
  BY <1>3, <1>4, <1>5 DEF DictationInv


-----------------------------------------------------------------------------
(* Dictation: the proxy and the recogniser *)

\* A socket is accepted, or cannot be opened.
LEMMA AcceptStep ==
  ASSUME DictationInv, NEW x \in Session, Accept(x)
  PROVE  DictationInv'
<1>1. /\ UNCHANGED <<pageVars, asking, recogniser, crossed>>
      /\ proxy[x] = "none" /\ socket[x] \in {"opening", "closing"}
  BY DEF Accept
<1>2. /\ up \in [Session -> Seq({"audio", "finish", "close"})] /\ down \in [Session -> Seq(Messages)]
      /\ socket \in [Session -> {"none", "opening", "open", "closing", "closed"}]
      /\ proxy \in [Session -> {"none", "dialing", "bridging", "finishing", "over"}]
      /\ recogniser \in [Session -> [state : {"none", "starting", "running", "finishing", "over"},
                                     heard : Nat, told : Nat]]
      /\ recogniser[x].told <= recogniser[x].heard /\ faults \subseteq Session
      /\ page.id \in 0 .. MaxSessions
  BY DEF DictationInv, DictationTypes, DictationTypeOK
<1>3. x <= page.id
  <2>1. x \in Nat
    BY DEF Session
  <2>2. QED
    BY <1>1, <1>2, <2>1, DictationAssumption DEF DictationInv, Unbegun
<1>4. page' = page /\ closing' = closing /\ mic' = mic /\ said' = said /\ tail' = tail /\ crossed' = crossed
      /\ recogniser' = recogniser
  BY <1>1 DEF pageVars
<1>5. CASE /\ socket' = [socket EXCEPT ![x] = IF @ = "opening" THEN "open" ELSE @]
           /\ up' = IF socket[x] = "closing" THEN [up EXCEPT ![x] = <<"close">>] ELSE up
           /\ proxy' = [proxy EXCEPT ![x] = "dialing"]
           /\ UNCHANGED <<down, faults>>
  <2>1. /\ up' \in [Session -> Seq({"audio", "finish", "close"})] /\ down' = down /\ faults' = faults
        /\ socket' \in [Session -> {"none", "opening", "open", "closing", "closed"}]
        /\ proxy' \in [Session -> {"none", "dialing", "bridging", "finishing", "over"}]
        /\ \A s \in Session \ {x} : up'[s] = up[s] /\ socket'[s] = socket[s] /\ proxy'[s] = proxy[s]
        /\ proxy'[x] = "dialing"
        /\ \/ socket[x] = "opening" /\ socket'[x] = "open" /\ up'[x] = up[x]
           \/ socket[x] = "closing" /\ socket'[x] = "closing" /\ up'[x] = <<"close">>
    <3>1. <<"close">> \in Seq({"audio", "finish", "close"})
      OBVIOUS
    <3>2. QED
      BY <1>1, <1>2, <1>5, <3>1
  <2>2. ASSUME x = page.id PROVE Newly(x)'
    <3>1. Newly(x) /\ Alone
      BY <2>2 DEF DictationInv
    <3>2. recogniser[x].state = "none" /\ recogniser[x].heard = 0 /\ ~page.capture
      BY <1>1, <3>1 DEF Newly, Bridge
    <3>3. Bridge(x)'
      BY <1>4, <2>1, <3>1, <3>2 DEF Newly, Bridge, Live
    <3>4. Audio(x)'
      <4>1. PICK n \in Nat : AudioOf(x, n)
        BY <3>1 DEF Newly, Audio
      <4>2. Blocks' = Blocks /\ Blocks \in Nat /\ (Faultless(x)' <=> Faultless(x))
        BY <1>4, <2>1 DEF Blocks, Faultless
      <4>3. CASE socket[x] = "opening"
        <5>1. up[x] = <<>>
          BY <3>1, <4>3 DEF Newly, Bridge
        <5>2. n = 0 /\ Len(up[x]) = 0
          BY <4>1, <5>1 DEF AudioOf, AudioIs
        <5>3. Live(x)
          BY <4>3 DEF Live
        <5>4. socket'[x] = "open" /\ up'[x] = up[x]
          BY <2>1, <4>3
        <5>5. AudioOf(x, n)'
          BY <1>4, <4>1, <4>2, <5>2, <5>3, <5>4 DEF AudioOf
        <5>6. QED
          BY <5>5 DEF Audio
      <4>4. CASE socket[x] = "closing"
        <5>1. socket'[x] = "closing" /\ up'[x] = <<"close">>
          BY <2>1, <4>4
        <5>2. AudioIs(<<"close">>, 0)
          <6>1. Len(<<"close">>) = 1 /\ <<"close">>[1] = "close" /\ (\A i \in 0 + 1 .. 1 : i = 1) /\ \A i \in 1 .. 0 : FALSE
            OBVIOUS
          <6>2. QED
            BY <6>1 DEF AudioIs
        <5>3. recogniser[x].heard + 0 + Blocks <= said[x]
          <6>1. said[x] \in Nat
            BY DEF DictationInv, DictationTypes
          <6>2. QED
            BY <3>2, <4>1, <4>2, <6>1 DEF AudioOf
        <5>4. AudioOf(x, 0)'
          BY <1>4, <4>2, <5>1, <5>2, <5>3 DEF AudioOf, Live
        <5>5. QED
          BY <5>4 DEF Audio
      <4>5. QED
        BY <1>1, <4>3, <4>4
    <3>5. Live(x)' => Live(x)
      BY <2>1 DEF Live
    <3>6. Shown(x)'
      BY <1>4, <2>1, <3>1, <3>5 DEF Newly, Shown, Faultless, Live
    <3>7. Live(x)' => Letters(x)'
      <4>1. SUFFICES ASSUME Live(x)' PROVE Letters(x)'
        OBVIOUS
      <4>2. PICK greeting \in 0 .. 2, ending \in 0 .. 2 : LettersOf(x, greeting, ending)
        BY <3>1, <3>5, <4>1 DEF Newly, Letters
      <4>3. LettersOf(x, greeting, ending)'
        BY <1>1, <1>4, <2>1, <4>2 DEF LettersOf, Faultless
      <4>4. QED
        BY <4>3 DEF Letters
    <3>8. QED
      BY <1>4, <2>1, <3>1, <3>3, <3>4, <3>6, <3>7 DEF Newly
  <2>3. /\ down' \in [Session -> Seq(Messages)] /\ faults' \subseteq Session
        /\ recogniser' \in [Session -> [state : {"none", "starting", "running", "finishing", "over"},
                                       heard : Nat, told : Nat]]
        /\ recogniser'[x].told <= recogniser'[x].heard
    BY <1>2, <1>4, <2>1
  <2>4. \A s \in Session \ {x} :
            /\ up'[s] = up[s] /\ down'[s] = down[s] /\ socket'[s] = socket[s]
            /\ proxy'[s] = proxy[s] /\ recogniser'[s] = recogniser[s] /\ (s \in faults' <=> s \in faults)
    BY <1>4, <2>1
  <2>5. UNCHANGED <<pageVars, asking, crossed>>
    BY <1>1
  <2> HIDE <1>5
  <2>6. QED
    BY <1>3, <2>1, <2>2, <2>3, <2>4, <2>5, ServerStep
<1>6. CASE /\ socket' = [socket EXCEPT ![x] = "closing"] /\ Tell(x, Msg("close"))
           /\ proxy' = [proxy EXCEPT ![x] = "over"] /\ faults' = faults \cup {x}
           /\ UNCHANGED up
  <2>1. Msg("close") \in Messages
    BY DEF Msg, Messages, MessageKinds
  <2>2. /\ down' \in [Session -> Seq(Messages)] /\ up' = up /\ faults' \subseteq Session
        /\ socket' \in [Session -> {"none", "opening", "open", "closing", "closed"}]
        /\ proxy' \in [Session -> {"none", "dialing", "bridging", "finishing", "over"}]
        /\ \A s \in Session \ {x} : /\ up'[s] = up[s] /\ socket'[s] = socket[s] /\ proxy'[s] = proxy[s]
                                    /\ down'[s] = down[s] /\ (s \in faults' <=> s \in faults)
        /\ proxy'[x] = "over" /\ socket'[x] = "closing" /\ x \in faults'
    <3>1. Append(down[x], Msg("close")) \in Seq(Messages)
      BY <1>2, <2>1
    <3>2. down' = [down EXCEPT ![x] = Append(@, Msg("close"))]
      BY <1>6 DEF Tell
    <3>3. QED
      BY <1>2, <1>6, <3>1, <3>2
  <2>3. ASSUME x = page.id PROVE Newly(x)'
    <3>1. Newly(x)
      BY <2>3 DEF DictationInv
    <3>2. recogniser[x].state = "none" /\ ~page.capture /\ ~Live(x)' /\ ~Faultless(x)'
      BY <1>1, <2>2, <3>1 DEF Newly, Bridge, Live, Faultless
    <3>3. Bridge(x)'
      BY <1>4, <2>2, <3>1, <3>2 DEF Newly, Bridge, Live
    <3>4. Audio(x)'
      <4>1. PICK n \in Nat : AudioOf(x, n)
        BY <3>1 DEF Newly, Audio
      <4>2. Blocks' = Blocks
        BY <1>4 DEF Blocks
      <4>3. AudioOf(x, n)'
        BY <1>4, <2>2, <3>2, <4>1, <4>2 DEF AudioOf
      <4>4. QED
        BY <4>3 DEF Audio
    <3>5. Shown(x)'
      BY <3>2 DEF Shown
    <3>6. QED
      BY <1>4, <2>2, <3>1, <3>2, <3>3, <3>4, <3>5 DEF Newly
  <2>4. /\ recogniser' \in [Session -> [state : {"none", "starting", "running", "finishing", "over"},
                                       heard : Nat, told : Nat]]
        /\ recogniser'[x].told <= recogniser'[x].heard
        /\ up' \in [Session -> Seq({"audio", "finish", "close"})]
    BY <1>2, <1>4, <2>2
  <2>5. \A s \in Session \ {x} :
            /\ up'[s] = up[s] /\ down'[s] = down[s] /\ socket'[s] = socket[s]
            /\ proxy'[s] = proxy[s] /\ recogniser'[s] = recogniser[s] /\ (s \in faults' <=> s \in faults)
    BY <1>4, <2>2
  <2>6. UNCHANGED <<pageVars, asking, crossed>>
    BY <1>1
  <2> HIDE <1>6
  <2>7. QED
    BY <1>3, <2>2, <2>3, <2>4, <2>5, <2>6, ServerStep
<1>7. QED
  BY <1>5, <1>6 DEF Accept


\* The end stands behind what was on its way to the page.
EndFollows(old, new, ending) ==
    \A greeting \in 0 .. 2, low, high \in Nat :
       LettersAre(old, greeting, 0, low, high) => LettersAre(new, greeting, ending, low, high)

\* The proxy's run ends, with or without a word of it, and the socket closes.
LEMMA RunEnds ==
  ASSUME DictationInv, NEW x \in Session, NEW ms \in {<<>>, <<Msg("error")>>, <<Msg("finished")>>}, EndRun(x, ms)
  PROVE  /\ down' \in [Session -> Seq(Messages)]
         /\ proxy' \in [Session -> {"none", "dialing", "bridging", "finishing", "over"}]
         /\ recogniser' \in [Session -> [state : {"none", "starting", "running", "finishing", "over"},
                                        heard : Nat, told : Nat]]
         /\ recogniser'[x].told <= recogniser'[x].heard
         /\ \A s \in Session \ {x} : down'[s] = down[s] /\ proxy'[s] = proxy[s] /\ recogniser'[s] = recogniser[s]
         /\ proxy'[x] = "over" /\ recogniser'[x].state = "over"
         /\ recogniser'[x].told = recogniser[x].told /\ recogniser'[x].heard = recogniser[x].heard
         /\ Len(ms) \in 0 .. 1 /\ (ms # <<>> => Len(ms) = 1)
         /\ EndFollows(down[x], down'[x], Len(ms) + 1)
         /\ \A i \in 1 .. Len(down'[x]) : down'[x][i].type = "error" =>
              \/ ms = <<Msg("error")>>
              \/ i \in 1 .. Len(down[x]) /\ down[x][i].type = "error"
<1> DEFINE run == ms \o <<Msg("close")>>
<1>1. /\ down \in [Session -> Seq(Messages)]
      /\ proxy \in [Session -> {"none", "dialing", "bridging", "finishing", "over"}]
      /\ recogniser \in [Session -> [state : {"none", "starting", "running", "finishing", "over"},
                                     heard : Nat, told : Nat]]
      /\ recogniser[x].told <= recogniser[x].heard
  BY DEF DictationInv, DictationTypes, DictationTypeOK
<1>2. /\ down' = [down EXCEPT ![x] = @ \o ms \o <<Msg("close")>>]
      /\ proxy' = [proxy EXCEPT ![x] = "over"] /\ recogniser' = [recogniser EXCEPT ![x].state = "over"]
  BY DEF EndRun, Is
<1>3. \A k \in MessageKinds : Msg(k) \in Messages /\ Msg(k).type = k
  BY DEF Msg, Messages
<1>4. /\ "error" \in MessageKinds /\ "finished" \in MessageKinds /\ "close" \in MessageKinds
  BY DEF MessageKinds
<1>5. ms \in Seq(Messages) /\ <<Msg("close")>> \in Seq(Messages) /\ Len(ms) \in 0 .. 1
      /\ (ms # <<>> => Len(ms) = 1)
  <2>1. \A m \in Messages : <<m>> \in Seq(Messages) /\ Len(<<m>>) = 1
    OBVIOUS
  <2>2. \A k \in {"error", "finished", "close"} : Msg(k) \in Messages
    BY <1>3, <1>4
  <2>3. <<>> \in Seq(Messages) /\ Len(<<>>) = 0
    OBVIOUS
  <2>4. CASE ms = <<>>
    BY <2>1, <2>2, <2>3, <2>4
  <2>5. CASE ms = <<Msg("error")>>
    BY <2>1, <2>2, <2>5
  <2>6. CASE ms = <<Msg("finished")>>
    BY <2>1, <2>2, <2>6
  <2>7. QED
    BY <2>4, <2>5, <2>6
<1>6. run \in Seq(Messages)
  BY <1>5
<1>7. (down[x] \o ms) \o <<Msg("close")>> = down[x] \o run
  <2>1. \A a, b, c \in Seq(Messages) : (a \o b) \o c = a \o (b \o c)
    BY ConcatAssociative
  <2>2. down[x] \in Seq(Messages)
    BY <1>1
  <2>3. QED
    BY <1>5, <2>1, <2>2, Zenon
<1>8. /\ Len(run) = Len(ms) + 1 /\ Len(run) \in 1 .. 2
      /\ \A i \in 1 .. Len(run) : run[i].type \in (IF i = Len(run) THEN {"close"} ELSE {"error", "finished"})
      /\ \A i \in 1 .. Len(run) : run[i].type = "error" => ms = <<Msg("error")>>
  <2>1. CASE ms = <<>>
    <3>1. run = <<Msg("close")>>
      BY <2>1
    <3>2. Len(run) = 1 /\ run[1].type = "close" /\ Len(ms) = 0
      BY <1>3, <1>4, <2>1, <3>1
    <3> HIDE DEF run
    <3>3. \A i \in 1 .. Len(run) : i = 1
      BY <3>2
    <3>4. QED
      BY <3>2, <3>3
  <2>2. ASSUME NEW k \in {"error", "finished"}, ms = <<Msg(k)>> 
        PROVE  /\ Len(run) = Len(ms) + 1 /\ Len(run) \in 1 .. 2
               /\ \A i \in 1 .. Len(run) : run[i].type \in (IF i = Len(run) THEN {"close"} ELSE {"error", "finished"})
               /\ \A i \in 1 .. Len(run) : run[i].type = "error" => ms = <<Msg("error")>>
    <3>1. Joined(run, ms, <<Msg("close")>>)
      BY <1>5, ConcatJoins
    <3>2. Len(run) = 2 /\ run[1].type = k /\ run[2].type = "close" /\ Len(ms) = 1
      <4>1. Len(ms) = 1 /\ ms[1].type = k
        BY <1>3, <1>4, <2>2
      <4> DEFINE final == <<Msg("close")>>
      <4>2. Len(final) = 1 /\ final[1].type = "close"
        BY <1>3, <1>4
      <4>3. Joined(run, ms, final)
        BY <3>1
      <4> HIDE DEF run, final
      <4>4. /\ Len(run) = 1 + 1 /\ (\A i \in 1 .. 1 : run[i] = ms[i])
            /\ \A i \in 1 .. 1 : run[1 + i] = final[i]
        BY <4>1, <4>2, <4>3 DEF Joined
      <4>5. run[1] = ms[1] /\ run[2] = final[1]
        BY <4>4
      <4>6. QED
        BY <4>1, <4>2, <4>4, <4>5
    <3>3. k = "error" => ms = <<Msg("error")>>
      BY <2>2
    <3> HIDE DEF run
    <3>4. \A i \in 1 .. Len(run) : i = 1 \/ i = 2
      BY <3>2
    <3>5. QED
      BY <3>2, <3>3, <3>4
  <2>3. QED
    BY <2>1, <2>2
<1> HIDE DEF run
<1> DEFINE all == down[x] \o run
<1>9. all \in Seq(Messages) /\ Joined(all, down[x], run)
  <2>1. down[x] \in Seq(Messages)
    BY <1>1
  <2>2. QED
    BY <1>6, <2>1, ConcatJoins
<1>10. down' = [down EXCEPT ![x] = all]
  BY <1>1, <1>2, <1>7
<1> HIDE DEF all
<1>11. down' \in [Session -> Seq(Messages)] /\ down'[x] = all /\ \A s \in Session \ {x} : down'[s] = down[s]
  BY <1>1, <1>9, <1>10
<1>12. ASSUME NEW greeting \in 0 .. 2, NEW low \in Nat, NEW high \in Nat, LettersAre(down[x], greeting, 0, low, high)
       PROVE  LettersAre(down'[x], greeting, Len(ms) + 1, low, high)
  <2>1. LettersAre(all, greeting, Len(run), low, high)
    BY <1>8, <1>9, <1>12, LettersAdded
  <2>2. QED
    BY <1>8, <1>11, <2>1
<1>16. EndFollows(down[x], down'[x], Len(ms) + 1)
  BY <1>12 DEF EndFollows
<1>13. ASSUME NEW i \in 1 .. Len(down'[x]), down'[x][i].type = "error"
       PROVE  \/ ms = <<Msg("error")>>
              \/ i \in 1 .. Len(down[x]) /\ down[x][i].type = "error"
  <2>1. all[i].type = "error" /\ i \in 1 .. Len(all)
    BY <1>11, <1>13
  <2>2. /\ Len(all) = Len(down[x]) + Len(run) /\ Len(down[x]) \in Nat
        /\ \A j \in 1 .. Len(down[x]) : all[j] = down[x][j]
        /\ \A j \in 1 .. Len(run) : all[Len(down[x]) + j] = run[j]
    BY <1>9 DEF Joined
  <2>3. CASE i \in 1 .. Len(down[x])
    BY <2>1, <2>2, <2>3
  <2>4. CASE i \notin 1 .. Len(down[x])
    <3>1. i - Len(down[x]) \in 1 .. Len(run) /\ Len(down[x]) + (i - Len(down[x])) = i
      <4>1. Len(run) \in Nat /\ Len(down[x]) \in Nat /\ i \in 1 .. Len(down[x]) + Len(run)
        <5>1. Len(run) \in 1 .. 2
          BY <1>8
        <5>2. Len(all) = Len(down[x]) + Len(run) /\ Len(down[x]) \in Nat /\ i \in 1 .. Len(all)
          BY <2>1, <2>2
        <5>3. Len(run) \in Nat
          BY <5>1
        <5>4. QED
          BY <5>2, <5>3
      <4>2. QED
        BY <2>4, <4>1
    <3>2. run[i - Len(down[x])].type = "error"
      BY <2>1, <2>2, <3>1
    <3>3. QED
      BY <1>8, <3>1, <3>2
  <2>5. QED
    BY <2>3, <2>4
<1>14. /\ proxy' \in [Session -> {"none", "dialing", "bridging", "finishing", "over"}]
       /\ recogniser' \in [Session -> [state : {"none", "starting", "running", "finishing", "over"},
                                        heard : Nat, told : Nat]]
       /\ recogniser'[x].told <= recogniser'[x].heard
       /\ \A s \in Session \ {x} : proxy'[s] = proxy[s] /\ recogniser'[s] = recogniser[s]
       /\ proxy'[x] = "over" /\ recogniser'[x].state = "over"
       /\ recogniser'[x].told = recogniser[x].told /\ recogniser'[x].heard = recogniser[x].heard
  BY <1>1, <1>2
<1>15. QED
  BY <1>5, <1>11, <1>13, <1>14, <1>16

\* What a session's proxy does not end, it adds one message to.
LEMMA Told ==
  ASSUME DictationInv, NEW x \in Session, NEW m \in Messages, Tell(x, m)
  PROVE  /\ down' \in [Session -> Seq(Messages)]
         /\ \A s \in Session \ {x} : down'[s] = down[s]
         /\ Joined(down'[x], down[x], <<m>>) /\ Len(<<m>>) = 1 /\ <<m>>[1] = m
         /\ Len(down'[x]) = Len(down[x]) + 1 /\ Len(down[x]) \in Nat /\ down'[x][Len(down[x]) + 1] = m
         /\ \A i \in 1 .. Len(down[x]) : down'[x][i] = down[x][i]
         /\ \A i \in 1 .. Len(down'[x]) : down'[x][i].type = "error" =>
              \/ m.type = "error"
              \/ i \in 1 .. Len(down[x]) /\ down[x][i].type = "error"
<1>1. down \in [Session -> Seq(Messages)]
  BY DEF DictationInv, DictationTypes
<1> DEFINE all == Append(down[x], m)
           run == <<m>>
<1>2. all \in Seq(Messages) /\ Joined(all, down[x], run) /\ Len(run) = 1 /\ run[1] = m
  <2>1. down[x] \in Seq(Messages)
    BY <1>1
  <2>2. QED
    BY <2>1, SentMore
<1>3. down' = [down EXCEPT ![x] = all]
  BY DEF Tell
<1> HIDE DEF all, run
<1>4. down' \in [Session -> Seq(Messages)] /\ down'[x] = all /\ \A s \in Session \ {x} : down'[s] = down[s]
  BY <1>1, <1>2, <1>3
<1>5. /\ Len(all) = Len(down[x]) + 1 /\ Len(down[x]) \in Nat /\ all[Len(down[x]) + 1] = m
      /\ \A i \in 1 .. Len(down[x]) : all[i] = down[x][i]
  BY <1>2 DEF Joined
<1>6. \A i \in 1 .. Len(all) : i \in 1 .. Len(down[x]) \/ i = Len(down[x]) + 1
  BY <1>5
<1>7. QED
  BY <1>2, <1>4, <1>5, <1>6 DEF run


\* What a run's end leaves of the newest session.
LEMMA RunOver ==
  ASSUME DictationInv, NEW x \in Session, x = page.id,
         NEW ms \in {<<>>, <<Msg("error")>>, <<Msg("finished")>>}, EndRun(x, ms),
         UNCHANGED <<pageVars, up, socket, crossed>>, proxy[x] \notin {"none", "over"},
         x \in faults => x \in faults', ms = <<Msg("error")>> => x \in faults',
         x \notin faults' =>
           /\ ms # <<>> /\ recogniser[x].told = recogniser[x].heard
           /\ Faultless(x) /\ Live(x) => recogniser[x].heard = said[x] /\ x \notin mic /\ ~tail
  PROVE  Newly(x)'
<1>1. Newly(x)
  BY DEF DictationInv
<1>2. /\ page' = page /\ closing' = closing /\ mic' = mic /\ said' = said /\ tail' = tail /\ crossed' = crossed
      /\ up' = up /\ socket' = socket
  BY DEF pageVars
<1>3. /\ proxy'[x] = "over" /\ recogniser'[x].state = "over"
      /\ recogniser'[x].told = recogniser[x].told /\ recogniser'[x].heard = recogniser[x].heard
      /\ Len(ms) \in 0 .. 1 /\ (ms # <<>> => Len(ms) = 1)
  BY RunEnds
<1>4. EndFollows(down[x], down'[x], Len(ms) + 1)
  BY RunEnds
<1>5. \A i \in 1 .. Len(down'[x]) : down'[x][i].type = "error" =>
              \/ ms = <<Msg("error")>>
              \/ i \in 1 .. Len(down[x]) /\ down[x][i].type = "error"
  BY RunEnds
<1>6. Live(x)' <=> Live(x)
  BY <1>2 DEF Live
<1>7. Faultless(x)' => Faultless(x) /\ x \notin faults'
  BY <1>2 DEF Faultless
<1>8. Bridge(x)'
  BY <1>1, <1>2, <1>3, <1>6 DEF Newly, Bridge
<1>9. Audio(x)'
  <2>1. PICK n \in Nat : AudioOf(x, n)
    BY <1>1 DEF Newly, Audio
  <2>2. Blocks' = Blocks
    BY <1>2 DEF Blocks
  <2>3. AudioOf(x, n)'
    BY <1>2, <1>3, <1>6, <1>7, <2>1, <2>2 DEF AudioOf
  <2>4. QED
    BY <2>3 DEF Audio
<1>10. Shown(x)'
  <2>1. SUFFICES ASSUME Faultless(x)' PROVE Shown(x)'
    BY DEF Shown
  <2>2. Faultless(x) /\ recogniser[x].told = recogniser[x].heard
        /\ (Live(x) => recogniser[x].heard = said[x] /\ x \notin mic /\ ~tail)
    BY <1>7, <2>1
  <2>3. QED
    BY <1>1, <1>2, <1>3, <1>6, <2>2 DEF Newly, Shown
<1>11. Live(x)' => Letters(x)'
  <2>1. SUFFICES ASSUME Live(x)' PROVE Letters(x)'
    OBVIOUS
  <2>2. PICK greeting \in 0 .. 2, ending \in 0 .. 2 : LettersOf(x, greeting, ending)
    BY <1>1, <1>6, <2>1 DEF Newly, Letters
  <2>3. LettersAre(down[x], greeting, 0, Len(page.text), recogniser[x].told)
    BY <2>2 DEF LettersOf
  <2>4. Len(page.text) \in Nat /\ recogniser[x].told \in Nat
    BY DEF DictationInv, DictationTypes, PageState
  <2>5. LettersAre(down'[x], greeting, Len(ms) + 1, Len(page.text), recogniser[x].told)
    BY <1>4, <2>3, <2>4 DEF EndFollows
  <2>7. \A i \in 1 .. Len(down'[x]) : down'[x][i].type = "error" => x \in faults'
    BY <1>5, <2>2 DEF LettersOf
  <2>8. ASSUME Faultless(x)' PROVE Len(ms) + 1 = 2
    <3>1. Len(ms) = 1
      BY <1>3, <1>7, <2>8
    <3>2. QED
      BY <3>1
  <2> DEFINE last == Len(ms) + 1
  <2>9. last \in 0 .. 2 /\ (Faultless(x)' => last = 2)
    <3>1. Len(ms) \in 0 .. 1
      BY <1>3
    <3>2. Len(ms) + 1 \in 0 .. 2
      <4>1. \A k \in 0 .. 1 : k + 1 \in 0 .. 2
        OBVIOUS
      <4>2. QED
        BY <3>1, <4>1, Zenon
    <3>3. QED
      BY <2>8, <3>2
  <2>10. page'.capture => greeting = 0
    BY <1>2, <2>2 DEF LettersOf
  <2>11. LettersAre(down'[x], greeting, last, Len(page'.text), recogniser'[x].told)
    BY <1>2, <1>3, <2>5
  <2> HIDE DEF last
  <2>12. LettersOf(x, greeting, last)'
    BY <1>3, <2>7, <2>9, <2>10, <2>11 DEF LettersOf
  <2>13. QED
    BY <2>9, <2>12 DEF Letters
<1>12. QED
  BY <1>1, <1>2, <1>3, <1>8, <1>9, <1>10, <1>11 DEF Newly


\* What the services know and what lies between them is of its type.
LEMMA Kept ==
  ASSUME DictationInv, NEW x \in Session
  PROVE  /\ up \in [Session -> Seq({"audio", "finish", "close"})] /\ down \in [Session -> Seq(Messages)]
         /\ socket \in [Session -> {"none", "opening", "open", "closing", "closed"}]
         /\ proxy \in [Session -> {"none", "dialing", "bridging", "finishing", "over"}]
         /\ recogniser \in [Session -> [state : {"none", "starting", "running", "finishing", "over"},
                                        heard : Nat, told : Nat]]
         /\ recogniser[x].told <= recogniser[x].heard /\ faults \subseteq Session
         /\ said[x] \in Nat /\ page.id \in 0 .. MaxSessions /\ Len(page.text) \in Nat
         /\ proxy[x] # "none" \/ socket[x] # "none" \/ down[x] # <<>> => x <= page.id
<1>1. page.id \in 0 .. MaxSessions /\ Len(page.text) \in Nat
  BY DEF DictationInv, DictationTypes, PageState
<1>2. x \in Nat
  BY DEF Session
<1>3. x > page.id => proxy[x] = "none" /\ socket[x] = "none" /\ down[x] = <<>>
  BY DEF DictationInv, Unbegun
<1>4. proxy[x] # "none" \/ socket[x] # "none" \/ down[x] # <<>> => x <= page.id
  BY <1>1, <1>2, <1>3, DictationAssumption
<1>5. QED
  BY <1>1, <1>4 DEF DictationInv, DictationTypes, DictationTypeOK

\* The recogniser breaks off, or the network to it.
LEMMA BreakStep ==
  ASSUME DictationInv, NEW x \in Session, Break(x)
  PROVE  DictationInv'
<1>1. /\ UNCHANGED <<pageVars, asking, up, socket, crossed>> /\ faults' = faults \cup {x}
      /\ proxy[x] \in {"bridging", "finishing"}
  BY DEF Break
<1>2. PICK ms \in {<<Msg("error")>>, <<>>} : EndRun(x, ms)
  BY DEF Break
<1>3. x <= page.id /\ faults' \subseteq Session /\ x \in faults'
  BY <1>1, Kept
<1>4. ms \in {<<>>, <<Msg("error")>>, <<Msg("finished")>>}
  BY <1>2
<1>5. x = page.id => Newly(x)'
  <2>1. /\ UNCHANGED <<pageVars, up, socket, crossed>> /\ proxy[x] \notin {"none", "over"}
    BY <1>1
  <2>2. QED
    BY <1>2, <1>3, <1>4, <2>1, RunOver
<1>6. /\ down' \in [Session -> Seq(Messages)]
      /\ proxy' \in [Session -> {"none", "dialing", "bridging", "finishing", "over"}]
      /\ recogniser' \in [Session -> [state : {"none", "starting", "running", "finishing", "over"},
                                        heard : Nat, told : Nat]]
      /\ recogniser'[x].told <= recogniser'[x].heard
      /\ \A s \in Session \ {x} : down'[s] = down[s] /\ proxy'[s] = proxy[s] /\ recogniser'[s] = recogniser[s]
  BY <1>2, <1>4, RunEnds
<1>7. /\ up' \in [Session -> Seq({"audio", "finish", "close"})]
      /\ socket' \in [Session -> {"none", "opening", "open", "closing", "closed"}]
  BY <1>1, Kept
<1>8. \A s \in Session \ {x} :
            /\ up'[s] = up[s] /\ down'[s] = down[s] /\ socket'[s] = socket[s]
            /\ proxy'[s] = proxy[s] /\ recogniser'[s] = recogniser[s] /\ (s \in faults' <=> s \in faults)
  BY <1>1, <1>6
<1>9. UNCHANGED <<pageVars, asking, crossed>>
  BY <1>1
<1>10. QED
  BY <1>3, <1>5, <1>6, <1>7, <1>8, <1>9, ServerStep

\* The recogniser is dialed.
LEMMA DialStep ==
  ASSUME DictationInv, NEW x \in Session, Dial(x)
  PROVE  DictationInv'
<1>1. UNCHANGED <<pageVars, asking, up, socket, crossed>> /\ proxy[x] = "dialing"
  BY DEF Dial
<1>2. x <= page.id
  BY <1>1, Kept
<1>3. /\ up' \in [Session -> Seq({"audio", "finish", "close"})]
      /\ socket' \in [Session -> {"none", "opening", "open", "closing", "closed"}]
  BY <1>1, Kept
<1>4. UNCHANGED <<pageVars, asking, crossed>>
  BY <1>1
<1>5. CASE EndRun(x, <<Msg("error")>>) /\ faults' = faults \cup {x}
  <2>1. faults' \subseteq Session /\ x \in faults'
    BY <1>5, Kept
  <2> DEFINE ms == <<Msg("error")>>
  <2>2. ms \in {<<>>, <<Msg("error")>>, <<Msg("finished")>>} /\ EndRun(x, ms)
    BY <1>5
  <2>3. /\ UNCHANGED <<pageVars, up, socket, crossed>> /\ proxy[x] \notin {"none", "over"}
    BY <1>1
  <2> HIDE DEF ms
  <2>4. x = page.id => Newly(x)'
    BY <2>1, <2>2, <2>3, RunOver
  <2>5. /\ down' \in [Session -> Seq(Messages)]
        /\ proxy' \in [Session -> {"none", "dialing", "bridging", "finishing", "over"}]
        /\ recogniser' \in [Session -> [state : {"none", "starting", "running", "finishing", "over"},
                                        heard : Nat, told : Nat]]
        /\ recogniser'[x].told <= recogniser'[x].heard
        /\ \A s \in Session \ {x} : down'[s] = down[s] /\ proxy'[s] = proxy[s] /\ recogniser'[s] = recogniser[s]
    BY <2>2, RunEnds
  <2>6. \A s \in Session \ {x} :
            /\ up'[s] = up[s] /\ down'[s] = down[s] /\ socket'[s] = socket[s]
            /\ proxy'[s] = proxy[s] /\ recogniser'[s] = recogniser[s] /\ (s \in faults' <=> s \in faults)
    BY <1>1, <1>5, <2>5
  <2> HIDE <1>5
  <2>7. QED
    BY <1>2, <1>3, <1>4, <2>1, <2>4, <2>5, <2>6, ServerStep
<1>6. CASE /\ proxy' = [proxy EXCEPT ![x] = "bridging"]
           /\ Is(x, "starting") /\ Tell(x, Msg("connected")) /\ UNCHANGED faults
  <2> DEFINE m == Msg("connected")
  <2>1. m \in Messages /\ m.type = "connected" /\ Tell(x, m)
    BY <1>6 DEF Msg, Messages, MessageKinds
  <2> HIDE DEF m
  <2>2. /\ down' \in [Session -> Seq(Messages)] /\ \A s \in Session \ {x} : down'[s] = down[s]
    BY <2>1, Told
  <2>3. /\ Joined(down'[x], down[x], <<m>>) /\ Len(<<m>>) = 1 /\ <<m>>[1] = m
        /\ Len(down'[x]) = Len(down[x]) + 1 /\ Len(down[x]) \in Nat /\ down'[x][Len(down[x]) + 1] = m
    BY <2>1, Told
  <2>4. /\ proxy' \in [Session -> {"none", "dialing", "bridging", "finishing", "over"}]
        /\ recogniser' \in [Session -> [state : {"none", "starting", "running", "finishing", "over"},
                                        heard : Nat, told : Nat]]
        /\ recogniser'[x].told = recogniser[x].told /\ recogniser'[x].heard = recogniser[x].heard
        /\ recogniser'[x].state = "starting" /\ proxy'[x] = "bridging"
        /\ \A s \in Session \ {x} : proxy'[s] = proxy[s] /\ recogniser'[s] = recogniser[s]
        /\ faults' = faults
    BY <1>6, Kept DEF Is
  <2>5. recogniser'[x].told <= recogniser'[x].heard /\ faults' \subseteq Session
    BY <2>4, Kept
  <2> HIDE <1>6
  <2>6. ASSUME x = page.id PROVE Newly(x)'
    <3>1. Newly(x)
      BY <2>6 DEF DictationInv
    <3>2. /\ page' = page /\ closing' = closing /\ mic' = mic /\ said' = said /\ tail' = tail /\ crossed' = crossed
          /\ up' = up /\ socket' = socket
      BY <1>1 DEF pageVars
    <3>3. (Live(x)' <=> Live(x)) /\ (Faultless(x)' <=> Faultless(x)) /\ Blocks' = Blocks
      BY <2>4, <3>2 DEF Live, Faultless, Blocks
    <3>4. recogniser[x].state = "none" /\ ~page.capture
      BY <1>1, <3>1 DEF Newly, Bridge
    <3>5. Bridge(x)'
      BY <1>1, <2>4, <3>1, <3>2, <3>3, <3>4 DEF Newly, Bridge
    <3>6. Audio(x)'
      <4>1. PICK n \in Nat : AudioOf(x, n)
        BY <3>1 DEF Newly, Audio
      <4>2. AudioOf(x, n)'
        BY <2>4, <3>2, <3>3, <4>1 DEF AudioOf
      <4>3. QED
        BY <4>2 DEF Audio
    <3>7. Shown(x)'
      BY <2>4, <3>1, <3>2, <3>3 DEF Newly, Shown
    <3>8. Live(x)' => Letters(x)'
      <4>1. SUFFICES ASSUME Live(x)' PROVE Letters(x)'
        OBVIOUS
      <4>2. PICK greeting \in 0 .. 2, ending \in 0 .. 2 : LettersOf(x, greeting, ending)
        BY <3>1, <3>3, <4>1 DEF Newly, Letters
      <4>3. down[x] = <<>> /\ ending = 0
        BY <1>1, <4>2 DEF LettersOf
      <4>4. Len(down[x]) = 0 /\ greeting = 0
        <5>1. Len(down[x]) = 0
          BY <4>3
        <5>2. greeting + ending <= Len(down[x])
          BY <4>2 DEF LettersOf, LettersAre
        <5>3. QED
          BY <4>3, <5>1, <5>2
      <4>5. LettersAre(down[x], 0, 0, Len(page.text), recogniser[x].told)
        BY <4>2, <4>3, <4>4 DEF LettersOf
      <4> DEFINE run == <<m>>
                 all == down'[x]
      <4>6. Joined(all, down[x], run) /\ Len(run) = 1 /\ run[1].type = "connected"
        BY <2>1, <2>3
      <4>7. Len(page.text) \in Nat /\ recogniser[x].told \in Nat
        BY Kept
      <4> HIDE DEF run, all
      <4>8. LettersAre(all, 0 + 1, 0, Len(page.text), recogniser[x].told)
        BY <4>4, <4>5, <4>6, <4>7, LettersAdded
      <4>9. LettersAre(down'[x], 1, 0, Len(page'.text), recogniser'[x].told)
        BY <2>4, <3>2, <4>8 DEF all
      <4>10. Len(down'[x]) = 1 /\ down'[x][1].type = "connected"
        BY <2>1, <2>3, <4>4
      <4>11. \A i \in 1 .. 1 : i = 1
        OBVIOUS
      <4>12. LettersOf(x, 1, 0)'
        BY <2>4, <3>2, <3>4, <4>9, <4>10, <4>11 DEF LettersOf
      <4>13. QED
        BY <4>12 DEF Letters
    <3>9. QED
      BY <2>4, <3>1, <3>2, <3>3, <3>5, <3>6, <3>7, <3>8 DEF Newly
  <2>7. \A s \in Session \ {x} :
            /\ up'[s] = up[s] /\ down'[s] = down[s] /\ socket'[s] = socket[s]
            /\ proxy'[s] = proxy[s] /\ recogniser'[s] = recogniser[s] /\ (s \in faults' <=> s \in faults)
    BY <1>1, <2>2, <2>4
  <2>8. QED
    BY <1>2, <1>3, <1>4, <2>2, <2>4, <2>5, <2>6, <2>7, ServerStep
<1>7. QED
  BY <1>5, <1>6 DEF Dial


\* The bridge reads what the page has sent.
LEMMA PumpUpStep ==
  ASSUME DictationInv, NEW x \in Session, PumpUp(x)
  PROVE  DictationInv'
<1>1. /\ UNCHANGED <<pageVars, asking, down, socket, faults, crossed>>
      /\ proxy[x] = "bridging" /\ up[x] # <<>> /\ up' = [up EXCEPT ![x] = Tail(@)]
      /\ IF Head(up[x]) = "audio"
         THEN recogniser' = [recogniser EXCEPT ![x].heard = @ + 1] /\ UNCHANGED proxy
         ELSE Is(x, "finishing") /\ proxy' = [proxy EXCEPT ![x] = "finishing"]
  BY DEF PumpUp
<1>2. x <= page.id /\ up[x] \in Seq({"audio", "finish", "close"})
  BY <1>1, Kept
<1>3. /\ down' \in [Session -> Seq(Messages)] /\ faults' \subseteq Session
      /\ socket' \in [Session -> {"none", "opening", "open", "closing", "closed"}]
  BY <1>1, Kept
<1>4. UNCHANGED <<pageVars, asking, crossed>>
  BY <1>1
<1>5. /\ up' \in [Session -> Seq({"audio", "finish", "close"})] /\ up'[x] = Tail(up[x])
      /\ \A s \in Session \ {x} : up'[s] = up[s]
  <2>1. Tail(up[x]) \in Seq({"audio", "finish", "close"})
    BY <1>1, <1>2
  <2>2. QED
    BY <1>1, <2>1, Kept
<1>6. /\ page' = page /\ closing' = closing /\ mic' = mic /\ said' = said /\ tail' = tail /\ crossed' = crossed
      /\ down' = down /\ socket' = socket /\ faults' = faults
  BY <1>1 DEF pageVars
<1>7. (Live(x)' <=> Live(x)) /\ (Faultless(x)' <=> Faultless(x)) /\ Blocks' = Blocks /\ Blocks \in {0, 1}
  BY <1>6 DEF Live, Faultless, Blocks
<1>8. x = page.id => Newly(x)
  BY DEF DictationInv
<1>9. CASE Head(up[x]) = "audio"
  <2>1. /\ proxy' = proxy
        /\ recogniser' \in [Session -> [state : {"none", "starting", "running", "finishing", "over"},
                                        heard : Nat, told : Nat]]
        /\ recogniser'[x].told = recogniser[x].told /\ recogniser'[x].heard = recogniser[x].heard + 1
        /\ recogniser'[x].state = recogniser[x].state
        /\ \A s \in Session \ {x} : recogniser'[s] = recogniser[s]
    <3>1. recogniser' = [recogniser EXCEPT ![x].heard = @ + 1] /\ proxy' = proxy
      BY <1>1, <1>9
    <3>2. recogniser \in [Session -> [state : {"none", "starting", "running", "finishing", "over"},
                                        heard : Nat, told : Nat]]
      BY Kept
    <3>3. QED
      BY <3>1, <3>2
  <2>2. recogniser'[x].told <= recogniser'[x].heard /\ recogniser[x].heard \in Nat
        /\ proxy' \in [Session -> {"none", "dialing", "bridging", "finishing", "over"}]
    BY <2>1, Kept
  <2>3. ASSUME x = page.id PROVE Newly(x)'
    <3>1. Newly(x)
      BY <1>8, <2>3
    <3>2. Bridge(x)'
      <4>1. socket[x] # "opening"
        BY <1>1, <3>1 DEF Newly, Bridge
      <4>2. QED
        BY <1>1, <1>6, <1>7, <2>1, <3>1, <4>1 DEF Newly, Bridge
    <3>3. Audio(x)'
      <4>1. PICK n \in Nat : AudioOf(x, n)
        BY <3>1 DEF Newly, Audio
      <4>2. AudioIs(up[x], n)
        BY <4>1 DEF AudioOf
      <4>3. n > 0 /\ AudioIs(Tail(up[x]), n - 1)
        BY <1>1, <1>2, <1>9, <4>2, AudioMoves
      <4>4. n - 1 \in Nat /\ (recogniser[x].heard + 1) + (n - 1) = recogniser[x].heard + n
        BY <2>2, <4>3
      <4>5. Len(Tail(up[x])) = Len(up[x]) - 1 /\ Len(up[x]) \in Nat
        BY <1>1, <1>2
      <4>6. n - 1 < Len(Tail(up[x])) => n < Len(up[x])
        BY <4>5
      <4>7. (recogniser[x].heard + 1) + (n - 1) + Blocks = recogniser[x].heard + n + Blocks
        BY <1>7, <2>2, <4>4
      <4> DEFINE k == n - 1
      <4>8. AudioIs(up'[x], k) /\ (k < Len(up'[x]) => n < Len(up[x]))
        BY <1>5, <4>3, <4>6
      <4>9. recogniser'[x].heard + k + Blocks' = recogniser[x].heard + n + Blocks
        BY <1>7, <2>1, <4>7
      <4>10. k \in Nat
        BY <4>4
      <4> HIDE DEF k
      <4>11. AudioOf(x, k)'
        BY <1>6, <1>7, <4>1, <4>8, <4>9 DEF AudioOf
      <4>12. QED
        BY <4>10, <4>11 DEF Audio
    <3>4. Shown(x)'
      BY <1>1, <1>6, <1>7, <2>1, <3>1 DEF Newly, Shown
    <3>5. Live(x)' => Letters(x)'
      <4>1. SUFFICES ASSUME Live(x)' PROVE Letters(x)'
        OBVIOUS
      <4>2. PICK greeting \in 0 .. 2, ending \in 0 .. 2 : LettersOf(x, greeting, ending)
        BY <1>7, <3>1, <4>1 DEF Newly, Letters
      <4>3. LettersOf(x, greeting, ending)'
        BY <1>6, <1>7, <2>1, <4>2 DEF LettersOf
      <4>4. QED
        BY <4>3 DEF Letters
    <3>6. QED
      BY <1>6, <1>7, <2>1, <3>1, <3>2, <3>3, <3>4, <3>5 DEF Newly
  <2>4. \A s \in Session \ {x} :
            /\ up'[s] = up[s] /\ down'[s] = down[s] /\ socket'[s] = socket[s]
            /\ proxy'[s] = proxy[s] /\ recogniser'[s] = recogniser[s] /\ (s \in faults' <=> s \in faults)
    BY <1>5, <1>6, <2>1
  <2>5. QED
    BY <1>2, <1>3, <1>4, <1>5, <2>1, <2>2, <2>3, <2>4, ServerStep
<1>10. CASE Head(up[x]) # "audio"
  <2>1. /\ proxy' \in [Session -> {"none", "dialing", "bridging", "finishing", "over"}]
        /\ recogniser' \in [Session -> [state : {"none", "starting", "running", "finishing", "over"},
                                        heard : Nat, told : Nat]]
        /\ recogniser'[x].told = recogniser[x].told /\ recogniser'[x].heard = recogniser[x].heard
        /\ recogniser'[x].state = "finishing" /\ proxy'[x] = "finishing"
        /\ \A s \in Session \ {x} : proxy'[s] = proxy[s] /\ recogniser'[s] = recogniser[s]
    <3>1. recogniser' = [recogniser EXCEPT ![x].state = "finishing"] /\ proxy' = [proxy EXCEPT ![x] = "finishing"]
      BY <1>1, <1>10 DEF Is
    <3>2. /\ recogniser \in [Session -> [state : {"none", "starting", "running", "finishing", "over"},
                                        heard : Nat, told : Nat]]
          /\ proxy \in [Session -> {"none", "dialing", "bridging", "finishing", "over"}]
      BY Kept
    <3>3. QED
      BY <3>1, <3>2
  <2>2. recogniser'[x].told <= recogniser'[x].heard /\ recogniser[x].heard \in Nat
    BY <2>1, Kept
  <2>3. ASSUME x = page.id PROVE Newly(x)'
    <3>1. Newly(x)
      BY <1>8, <2>3
    <3>2. socket[x] # "opening"
      BY <1>1, <3>1 DEF Newly, Bridge
    <3>3. Bridge(x)'
      BY <1>1, <1>6, <1>7, <2>1, <3>1, <3>2 DEF Newly, Bridge
    <3>4. PICK n \in Nat : AudioOf(x, n)
      BY <3>1 DEF Newly, Audio
    <3>5. n = 0 /\ 0 < Len(up[x]) /\ AudioIs(Tail(up[x]), 0)
      <4>1. AudioIs(up[x], n)
        BY <3>4 DEF AudioOf
      <4>2. QED
        BY <1>1, <1>2, <1>10, <4>1, AudioMoves
    <3>6. socket[x] = "open" => x \notin mic /\ ~tail
      BY <3>4, <3>5 DEF AudioOf
    <3>7. Audio(x)'
      <4>1. AudioIs(up'[x], 0)
        BY <1>5, <3>5
      <4>2. AudioOf(x, 0)'
        BY <1>6, <1>7, <2>1, <3>4, <3>5, <3>6, <4>1 DEF AudioOf
      <4>3. QED
        BY <4>2 DEF Audio
    <3>8. Live(x) => socket[x] = "open"
      BY <3>2 DEF Live
    <3>9. Faultless(x) /\ Live(x) => recogniser[x].heard = said[x] /\ x \notin mic /\ ~tail
      <4>1. SUFFICES ASSUME Faultless(x), Live(x) PROVE recogniser[x].heard = said[x] /\ x \notin mic /\ ~tail
        OBVIOUS
      <4>2. ~tail /\ x \notin mic
        BY <3>6, <3>8, <4>1
      <4>3. recogniser[x].heard + n + Blocks = said[x]
        BY <3>4, <4>1 DEF AudioOf
      <4>4. QED
        BY <2>2, <3>5, <4>2, <4>3 DEF Blocks
    <3>10. Shown(x)'
      BY <1>6, <1>7, <2>1, <3>1, <3>9 DEF Newly, Shown
    <3>11. Live(x)' => Letters(x)'
      <4>1. SUFFICES ASSUME Live(x)' PROVE Letters(x)'
        OBVIOUS
      <4>2. PICK greeting \in 0 .. 2, ending \in 0 .. 2 : LettersOf(x, greeting, ending)
        BY <1>7, <3>1, <4>1 DEF Newly, Letters
      <4>3. LettersOf(x, greeting, ending)'
        BY <1>1, <1>6, <1>7, <2>1, <4>2 DEF LettersOf
      <4>4. QED
        BY <4>3 DEF Letters
    <3>12. QED
      BY <1>6, <1>7, <2>1, <3>1, <3>3, <3>7, <3>10, <3>11 DEF Newly
  <2>4. \A s \in Session \ {x} :
            /\ up'[s] = up[s] /\ down'[s] = down[s] /\ socket'[s] = socket[s]
            /\ proxy'[s] = proxy[s] /\ recogniser'[s] = recogniser[s] /\ (s \in faults' <=> s \in faults)
    BY <1>5, <1>6, <2>1
  <2>5. QED
    BY <1>2, <1>3, <1>4, <1>5, <2>1, <2>2, <2>3, <2>4, ServerStep
<1>11. QED
  BY <1>9, <1>10


\* The recogniser's answer is passed on.
LEMMA PumpDownStep ==
  ASSUME DictationInv, NEW x \in Session, PumpDown(x)
  PROVE  DictationInv'
<1>1. UNCHANGED <<pageVars, asking, up, socket, faults, crossed>> /\ proxy[x] \in {"bridging", "finishing"}
  BY DEF PumpDown
<1>2. x <= page.id /\ down[x] \in Seq(Messages)
  BY <1>1, Kept
<1>3. /\ up' \in [Session -> Seq({"audio", "finish", "close"})] /\ faults' \subseteq Session
      /\ socket' \in [Session -> {"none", "opening", "open", "closing", "closed"}]
  BY <1>1, Kept
<1>4. UNCHANGED <<pageVars, asking, crossed>>
  BY <1>1
<1>5. /\ page' = page /\ closing' = closing /\ mic' = mic /\ said' = said /\ tail' = tail /\ crossed' = crossed
      /\ up' = up /\ socket' = socket /\ faults' = faults
  BY <1>1 DEF pageVars
<1>6. (Live(x)' <=> Live(x)) /\ (Faultless(x)' <=> Faultless(x)) /\ Blocks' = Blocks /\ Blocks \in {0, 1}
  BY <1>5 DEF Live, Faultless, Blocks
<1>7. x = page.id => Newly(x)
  BY DEF DictationInv
<1>8. /\ recogniser \in [Session -> [state : {"none", "starting", "running", "finishing", "over"},
                                     heard : Nat, told : Nat]]
      /\ proxy \in [Session -> {"none", "dialing", "bridging", "finishing", "over"}]
      /\ recogniser[x].told <= recogniser[x].heard
  BY Kept
<1>9. Len(page.text) \in Nat /\ recogniser[x].told \in Nat /\ recogniser[x].heard \in Nat
  BY <1>8, Kept
<1>10. CASE recogniser[x].state = "starting" /\ Is(x, "running") /\ Tell(x, Msg("ready")) /\ UNCHANGED proxy
  <2> DEFINE m == Msg("ready")
  <2>1. m \in Messages /\ m.type = "ready" /\ Tell(x, m)
    BY <1>10 DEF Msg, Messages, MessageKinds
  <2> HIDE DEF m
  <2>2. /\ down' \in [Session -> Seq(Messages)] /\ \A s \in Session \ {x} : down'[s] = down[s]
    BY <2>1, Told
  <2>3. Joined(down'[x], down[x], <<m>>) /\ Len(<<m>>) = 1 /\ <<m>>[1] = m
    BY <2>1, Told
  <2>4. /\ recogniser' \in [Session -> [state : {"none", "starting", "running", "finishing", "over"},
                                        heard : Nat, told : Nat]]
        /\ recogniser'[x].told = recogniser[x].told /\ recogniser'[x].heard = recogniser[x].heard
        /\ recogniser'[x].state = "running" /\ proxy' = proxy
        /\ \A s \in Session \ {x} : recogniser'[s] = recogniser[s]
    BY <1>8, <1>10 DEF Is
  <2>5. \A i \in 1 .. Len(down'[x]) : down'[x][i].type = "error" =>
              i \in 1 .. Len(down[x]) /\ down[x][i].type = "error"
    BY <2>1, Told
  <2>6. recogniser'[x].told <= recogniser'[x].heard
        /\ proxy' \in [Session -> {"none", "dialing", "bridging", "finishing", "over"}]
    BY <1>8, <2>4
  <2>7. recogniser[x].state = "starting"
    BY <1>10
  <2> HIDE <1>10
  <2>8. ASSUME x = page.id PROVE Newly(x)'
    <3>1. Newly(x)
      BY <1>7, <2>8
    <3>2. Bridge(x)'
      BY <1>1, <1>5, <1>6, <2>4, <2>7, <3>1 DEF Newly, Bridge
    <3>3. Audio(x)'
      <4>1. PICK n \in Nat : AudioOf(x, n)
        BY <3>1 DEF Newly, Audio
      <4>2. AudioOf(x, n)'
        BY <1>5, <1>6, <2>4, <4>1 DEF AudioOf
      <4>3. QED
        BY <4>2 DEF Audio
    <3>4. Shown(x)'
      BY <1>1, <1>5, <1>6, <2>4, <3>1 DEF Newly, Shown
    <3>5. Live(x)' => Letters(x)'
      <4>1. SUFFICES ASSUME Live(x)' PROVE Letters(x)'
        OBVIOUS
      <4>2. PICK greeting \in 0 .. 2, ending \in 0 .. 2 : LettersOf(x, greeting, ending)
        BY <1>6, <3>1, <4>1 DEF Newly, Letters
      <4>3. /\ Len(down[x]) = greeting /\ \A i \in 1 .. greeting : down[x][i].type # "ready"
            /\ LettersAre(down[x], greeting, ending, Len(page.text), recogniser[x].told) /\ ending = 0
        BY <1>1, <2>7, <4>2 DEF LettersOf
      <4>4. greeting < 2
        <5>1. \A i \in 1 .. greeting : i = 1
          BY <4>3 DEF LettersAre
        <5>2. greeting = 2 => 2 \in 1 .. greeting
          OBVIOUS
        <5>3. QED
          BY <5>1, <5>2
      <4>5. LettersAre(down[x], greeting, 0, Len(page.text), recogniser[x].told)
        BY <4>3
      <4> DEFINE run == <<m>>
                 all == down'[x]
                 more == greeting + 1
      <4>6. Joined(all, down[x], run) /\ Len(run) = 1 /\ run[1].type = "ready"
        BY <2>1, <2>3
      <4> HIDE DEF run, all
      <4>7. more \in 0 .. 2 /\ LettersAre(all, more, 0, Len(page.text), recogniser[x].told)
        BY <1>9, <4>3, <4>4, <4>5, <4>6, LettersAdded
      <4> HIDE DEF more
      <4>8. LettersAre(down'[x], more, 0, Len(page'.text), recogniser'[x].told)
        BY <1>5, <2>4, <4>7 DEF all
      <4>9. ~page'.capture
        BY <1>5, <2>7, <3>1 DEF Newly, Bridge
      <4>10. \A i \in 1 .. Len(down'[x]) : down'[x][i].type = "error" => x \in faults'
        BY <1>5, <2>5, <4>2 DEF LettersOf
      <4>11. LettersOf(x, more, 0)'
        BY <1>1, <2>4, <4>8, <4>9, <4>10 DEF LettersOf
      <4>12. QED
        BY <4>7, <4>11 DEF Letters
    <3>6. QED
      BY <1>5, <1>6, <2>4, <3>1, <3>2, <3>3, <3>4, <3>5 DEF Newly
  <2>9. \A s \in Session \ {x} :
            /\ up'[s] = up[s] /\ down'[s] = down[s] /\ socket'[s] = socket[s]
            /\ proxy'[s] = proxy[s] /\ recogniser'[s] = recogniser[s] /\ (s \in faults' <=> s \in faults)
    BY <1>5, <2>2, <2>4
  <2>10. QED
    BY <1>2, <1>3, <1>4, <2>2, <2>4, <2>6, <2>8, <2>9, ServerStep
<1>11. CASE /\ recogniser[x].state \in {"running", "finishing"} /\ recogniser[x].told < recogniser[x].heard
            /\ recogniser' = [recogniser EXCEPT ![x].told = @ + 1]
            /\ Tell(x, [type |-> "final", piece |-> recogniser[x].told + 1]) /\ UNCHANGED proxy
  <2> DEFINE m == [type |-> "final", piece |-> recogniser[x].told + 1]
  <2>1. m \in Messages /\ m.type = "final" /\ m.piece = recogniser[x].told + 1 /\ Tell(x, m)
    BY <1>9, <1>11 DEF Messages, MessageKinds
  <2> HIDE DEF m
  <2>2. /\ down' \in [Session -> Seq(Messages)] /\ \A s \in Session \ {x} : down'[s] = down[s]
    BY <2>1, Told
  <2>3. Joined(down'[x], down[x], <<m>>) /\ Len(<<m>>) = 1 /\ <<m>>[1] = m
    BY <2>1, Told
  <2>4. /\ recogniser' \in [Session -> [state : {"none", "starting", "running", "finishing", "over"},
                                        heard : Nat, told : Nat]]
        /\ recogniser'[x].told = recogniser[x].told + 1 /\ recogniser'[x].heard = recogniser[x].heard
        /\ recogniser'[x].state = recogniser[x].state /\ proxy' = proxy
        /\ \A s \in Session \ {x} : recogniser'[s] = recogniser[s]
    BY <1>8, <1>11
  <2>5. \A i \in 1 .. Len(down'[x]) : down'[x][i].type = "error" =>
              i \in 1 .. Len(down[x]) /\ down[x][i].type = "error"
    BY <2>1, Told
  <2>6. recogniser'[x].told <= recogniser'[x].heard
        /\ proxy' \in [Session -> {"none", "dialing", "bridging", "finishing", "over"}]
    BY <1>8, <1>9, <1>11, <2>4
  <2>7. recogniser[x].state \in {"running", "finishing"}
    BY <1>11
  <2> HIDE <1>11
  <2>8. ASSUME x = page.id PROVE Newly(x)'
    <3>1. Newly(x)
      BY <1>7, <2>8
    <3>2. Bridge(x)'
      BY <1>1, <1>5, <1>6, <2>4, <2>7, <3>1 DEF Newly, Bridge
    <3>3. Audio(x)'
      <4>1. PICK n \in Nat : AudioOf(x, n)
        BY <3>1 DEF Newly, Audio
      <4>2. AudioOf(x, n)'
        BY <1>5, <1>6, <2>4, <4>1 DEF AudioOf
      <4>3. QED
        BY <4>2 DEF Audio
    <3>4. Shown(x)'
      BY <1>1, <1>5, <1>6, <2>4, <3>1 DEF Newly, Shown
    <3>5. Live(x)' => Letters(x)'
      <4>1. SUFFICES ASSUME Live(x)' PROVE Letters(x)'
        OBVIOUS
      <4>2. PICK greeting \in 0 .. 2, ending \in 0 .. 2 : LettersOf(x, greeting, ending)
        BY <1>6, <3>1, <4>1 DEF Newly, Letters
      <4>3. LettersAre(down[x], greeting, 0, Len(page.text), recogniser[x].told)
        BY <1>1, <4>2 DEF LettersOf
      <4> DEFINE run == <<m>>
                 all == down'[x]
      <4>4. Joined(all, down[x], run) /\ Len(run) = 1 /\ run[1].type = "final" /\ run[1].piece = recogniser[x].told + 1
        BY <2>1, <2>3
      <4> HIDE DEF run, all
      <4>5. LettersAre(all, greeting, 0, Len(page.text), recogniser[x].told + 1)
        BY <1>9, <4>3, <4>4, LettersAdded
      <4>6. LettersAre(down'[x], greeting, 0, Len(page'.text), recogniser'[x].told)
        BY <1>5, <2>4, <4>5 DEF all
      <4>7. page'.capture => greeting = 0
        BY <1>5, <4>2 DEF LettersOf
      <4>8. \A i \in 1 .. Len(down'[x]) : down'[x][i].type = "error" => x \in faults'
        BY <1>5, <2>5, <4>2 DEF LettersOf
      <4>9. LettersOf(x, greeting, 0)'
        BY <1>1, <2>4, <2>7, <4>6, <4>7, <4>8 DEF LettersOf
      <4>10. QED
        BY <4>9 DEF Letters
    <3>6. Len(page.text) <= recogniser[x].told + 1
      BY <1>9, <3>1 DEF Newly
    <3>7. QED
      BY <1>5, <1>6, <2>4, <3>1, <3>2, <3>3, <3>4, <3>5, <3>6 DEF Newly
  <2>9. \A s \in Session \ {x} :
            /\ up'[s] = up[s] /\ down'[s] = down[s] /\ socket'[s] = socket[s]
            /\ proxy'[s] = proxy[s] /\ recogniser'[s] = recogniser[s] /\ (s \in faults' <=> s \in faults)
    BY <1>5, <2>2, <2>4
  <2>10. QED
    BY <1>2, <1>3, <1>4, <2>2, <2>4, <2>6, <2>8, <2>9, ServerStep
<1>12. CASE /\ recogniser[x].state = "finishing" /\ recogniser[x].told = recogniser[x].heard
            /\ EndRun(x, <<Msg("finished")>>)
  <2> DEFINE ms == <<Msg("finished")>>
  <2>1. ms \in {<<>>, <<Msg("error")>>, <<Msg("finished")>>} /\ EndRun(x, ms)
    BY <1>12
  <2>2. ms # <<>> /\ ms # <<Msg("error")>>
    <3>1. ms[1] = Msg("finished") /\ <<Msg("error")>>[1] = Msg("error") /\ Len(ms) = 1 /\ Len(<<>>) = 0
      OBVIOUS
    <3>2. Msg("finished").type # Msg("error").type
      BY DEF Msg
    <3> HIDE DEF ms
    <3>3. QED
      BY <3>1, <3>2
  <2> HIDE DEF ms
  <2>3. /\ down' \in [Session -> Seq(Messages)]
        /\ proxy' \in [Session -> {"none", "dialing", "bridging", "finishing", "over"}]
        /\ recogniser' \in [Session -> [state : {"none", "starting", "running", "finishing", "over"},
                                        heard : Nat, told : Nat]]
        /\ recogniser'[x].told <= recogniser'[x].heard
        /\ \A s \in Session \ {x} : down'[s] = down[s] /\ proxy'[s] = proxy[s] /\ recogniser'[s] = recogniser[s]
    BY <2>1, RunEnds
  <2>4. ASSUME x = page.id PROVE Newly(x)'
    <3>1. Newly(x)
      BY <1>7, <2>4
    <3>2. Faultless(x) /\ Live(x) => recogniser[x].heard = said[x] /\ x \notin mic /\ ~tail
      BY <1>12, <3>1 DEF Newly, Bridge, Shown
    <3>3. recogniser[x].told = recogniser[x].heard
      BY <1>12
    <3>4. UNCHANGED <<pageVars, up, socket, crossed>> /\ proxy[x] \notin {"none", "over"} /\ faults' = faults
      BY <1>1
    <3> HIDE <1>12
    <3>5. QED
      BY <2>1, <2>2, <2>4, <3>2, <3>3, <3>4, RunOver
  <2>5. \A s \in Session \ {x} :
            /\ up'[s] = up[s] /\ down'[s] = down[s] /\ socket'[s] = socket[s]
            /\ proxy'[s] = proxy[s] /\ recogniser'[s] = recogniser[s] /\ (s \in faults' <=> s \in faults)
    BY <1>5, <2>3
  <2> HIDE <1>12
  <2>6. QED
    BY <1>2, <1>3, <1>4, <2>3, <2>4, <2>5, ServerStep
<1>13. QED
  BY <1>10, <1>11, <1>12 DEF PumpDown


-----------------------------------------------------------------------------
(* Dictation: the page *)

\* The page's state agrees with itself when a recording is ended.
LEMMA EndsWell ==
  ASSUME DictationInv, NEW kind \in {"abort", "finish"}, EndSession(kind), crossed => crossed'
  PROVE  PageAgrees' /\ Alone'
<1>1. DictationTypes /\ PageAgrees /\ Alone
  BY DEF DictationInv
<1>2. /\ page' \in PageState /\ page'.id = page.id /\ page'.text = page.text /\ page'.mode = "idle"
      /\ page'.capture = page.capture /\ page'.stream = page.stream /\ page'.socket = page.socket
      /\ page.stream => closing' # <<>> /\ mic' = mic \ {page.id}
      /\ ~page.stream => closing' = closing /\ mic' = mic
      /\ mic' \subseteq mic /\ tail' = FALSE
  BY <1>1, SessionEnds
<1>3. PageAgrees'
  BY <1>1, <1>2 DEF PageAgrees
<1>4. SUFFICES ASSUME ~crossed' PROVE Alone'
  BY <1>3 DEF Alone
<1>5. ~crossed
  BY <1>4
<1>6. mic \subseteq {page.id} /\ (~page.stream => mic = {})
  BY <1>1, <1>5 DEF Alone
<1>7. mic' = {}
  BY <1>2, <1>6
<1>8. QED
  BY <1>2, <1>7 DEF Alone

\* The newest session when it is ended: it has shown all, or it had a fault.
LEMMA EndsNewly ==
  ASSUME DictationInv, NEW s \in Session, s = page.id, NEW kind \in {"abort", "finish"}, EndSession(kind),
         crossed => crossed', UNCHANGED servers, up'[s] = up[s], socket'[s] \in {socket[s], "closed"},
         Faultless(s) => Len(page.text) = said[s], Live(s)' => Letters(s)'
  PROVE  Newly(s)'
<1>1. DictationTypes /\ PageAgrees /\ Newly(s)
  BY DEF DictationInv
<1>2. /\ page' \in PageState /\ page'.id = page.id /\ page'.text = page.text /\ page'.mode = "idle"
      /\ page'.capture = page.capture /\ page'.stream = page.stream /\ page'.socket = page.socket
      /\ page.stream => mic' = mic \ {page.id}
      /\ ~page.stream => closing' = closing /\ mic' = mic
      /\ mic' \subseteq mic /\ tail' = FALSE /\ said' = said
  BY <1>1, SessionEnds
<1>3. proxy' = proxy /\ recogniser' = recogniser /\ faults' = faults
  BY DEF servers
<1>4. (Live(s)' => Live(s)) /\ (Faultless(s)' => Faultless(s))
  BY <1>3 DEF Live, Faultless
<1>5. /\ Len(page.text) \in Nat /\ said[s] \in Nat /\ recogniser[s].told \in Nat /\ recogniser[s].heard \in Nat
      /\ recogniser[s].told <= recogniser[s].heard /\ Len(page.text) <= recogniser[s].told
  BY <1>1 DEF DictationTypes, DictationTypeOK, PageState, Newly
<1>6. Bridge(s)'
  BY <1>1, <1>2, <1>3, <1>4 DEF Newly, Bridge, Live
<1>7. PICK n \in Nat : AudioOf(s, n)
  BY <1>1 DEF Newly, Audio
<1>8. AudioOf(s, n)'
  <2>1. Blocks' = 0 /\ Blocks \in {0, 1}
    BY <1>2 DEF Blocks
  <2>2. recogniser[s].heard + n + 0 <= said[s]
    BY <1>5, <1>7, <2>1 DEF AudioOf
  <2>3. ASSUME Faultless(s)', Live(s)' PROVE recogniser[s].heard + n + 0 = said[s]
    <3>1. Len(page.text) = said[s] /\ recogniser[s].heard + n + Blocks = said[s]
      BY <1>4, <1>7, <2>3 DEF AudioOf
    <3>2. QED
      BY <1>5, <2>1, <3>1
  <2>4. QED
    BY <1>2, <1>3, <1>7, <2>1, <2>2, <2>3 DEF AudioOf
<1>9. Audio(s)'
  BY <1>8 DEF Audio
<1>10. Shown(s)'
  <2>1. SUFFICES ASSUME Faultless(s)' PROVE Shown(s)'
    BY DEF Shown
  <2>2. Faultless(s)
    BY <1>4, <2>1
  <2>3. s \notin mic'
    BY <1>1, <1>2, <2>2 DEF Newly, Shown
  <2>4. QED
    BY <1>1, <1>2, <1>3, <1>4, <2>2, <2>3 DEF Newly, Shown
<1>11. QED
  BY <1>1, <1>2, <1>3, <1>6, <1>9, <1>10 DEF Newly

\* What the page ends, it closes later: where it has a socket it has a stream.
LEMMA EndsOnly ==
  ASSUME DictationInv, NEW kind, EndAndClose(kind)
  PROVE  EndSession(kind) /\ socket' = socket /\ up' = up
<1>1. EndSession(kind) /\ (page.socket = page.stream)
  BY DEF EndAndClose, DictationInv, PageAgrees
<1>2. CASE page.stream
  BY <1>1, <1>2 DEF EndAndClose
<1>3. CASE ~page.stream
  <2>1. Socket = 0 /\ 0 \notin Session
    BY <1>1, <1>3 DEF Socket, Session
  <2>2. CloseSocket(0)
    BY <1>3, <2>1 DEF EndAndClose
  <2>3. up' = up
    BY <2>1, <2>2 DEF CloseSocket, Open
  <2>4. /\ socket \in [Session -> {"none", "opening", "open", "closing", "closed"}]
        /\ socket' \in [Session -> {"none", "opening", "open", "closing", "closed"}]
        /\ \A x \in Session : x # 0 => socket'[x] = socket[x]
    <3>1. DictationTypes
      BY DEF DictationInv
    <3>2. /\ socket' \in [Session -> {"none", "opening", "open", "closing", "closed"}]
          /\ \A x \in Session : x # 0 => socket'[x] = socket[x]
      BY <2>2, <3>1, SocketCloses
    <3>3. QED
      BY <3>1, <3>2 DEF DictationTypes
  <2>5. socket' = socket
    BY <2>1, <2>4
  <2>6. QED
    BY <1>1, <2>3, <2>5
<1>4. QED
  BY <1>2, <1>3

\* Ending a recording keeps the invariant.
LEMMA Ending ==
  ASSUME DictationInv, NEW kind \in {"abort", "finish"}, EndAndClose(kind),
         crossed' \in BOOLEAN, crossed => crossed', UNCHANGED servers,
         asking' \in Nat, page.id + asking' <= MaxSessions,
         down' \in [Session -> Seq(Messages)], \A s \in Session : s > page.id => down'[s] = down[s],
         \A s \in Session : s = page.id => (Faultless(s) /\ ~crossed' => Len(page.text) = said[s]),
         \A s \in Session : s = page.id /\ Live(s)' => Letters(s)'
  PROVE  DictationInv'
<1>1. DictationTypes /\ PageAgrees /\ EndSession(kind) /\ socket' = socket /\ up' = up
  BY EndsOnly DEF DictationInv
<1>2. /\ page' \in PageState /\ page'.id = page.id
      /\ closing' \in Seq([kind : {"abort", "finish"}, socket : 0 .. MaxSessions])
      /\ mic' \subseteq mic /\ tail' = FALSE /\ said' = said
  BY <1>1, SessionEnds
<1>3. PageAgrees' /\ Alone'
  BY <1>1, EndsWell
<1>4. ASSUME NEW s \in Session, s = page.id PROVE Newly(s)'
  <2>1. Live(s)' => Letters(s)'
    BY <1>4
  <2>2. CASE crossed' => crossed
    <3>1. Faultless(s) => Len(page.text) = said[s]
      BY <1>4, <2>2 DEF Faultless
    <3>2. QED
      BY <1>1, <1>4, <2>1, <3>1, EndsNewly
  <2>3. CASE crossed' /\ ~crossed
    <3>1. Newly(s)
      BY <1>4 DEF DictationInv
    <3>2. proxy' = proxy /\ recogniser' = recogniser /\ faults' = faults
      BY DEF servers
    <3>3. ~Faultless(s)' /\ (Live(s)' <=> Live(s))
      BY <1>1, <2>3, <3>2 DEF Faultless, Live
    <3>4. /\ page'.text = page.text /\ page'.mode = "idle" /\ page'.capture = page.capture
      BY <1>1, SessionEnds
    <3>5. Bridge(s)'
      BY <1>1, <3>1, <3>2, <3>3, <3>4 DEF Newly, Bridge
    <3>6. PICK n \in Nat : AudioOf(s, n)
      BY <3>1 DEF Newly, Audio
    <3>7. AudioOf(s, n)'
      <4>1. Blocks' = 0 /\ Blocks \in {0, 1}
        BY <1>2 DEF Blocks
      <4>2. said[s] \in Nat /\ recogniser[s].heard \in Nat
        BY <1>1 DEF DictationTypes
      <4>3. recogniser[s].heard + n + 0 <= said[s]
        BY <3>6, <4>1, <4>2 DEF AudioOf
      <4>4. QED
        BY <1>1, <1>2, <3>2, <3>3, <3>6, <4>1, <4>3 DEF AudioOf
    <3>8. Audio(s)' /\ Shown(s)'
      BY <3>3, <3>7 DEF Audio, Shown
    <3>9. QED
      BY <1>1, <2>1, <3>1, <3>2, <3>4, <3>5, <3>8 DEF Newly
  <2>4. QED
    BY <2>2, <2>3
<1>5. mic' \subseteq Session /\ tail' \in BOOLEAN
  BY <1>1, <1>2 DEF DictationTypes, DictationTypeOK
<1>6. /\ said' \in [Session -> Nat] /\ up' \in [Session -> Seq({"audio", "finish", "close"})]
      /\ socket' \in [Session -> {"none", "opening", "open", "closing", "closed"}]
  BY <1>1, <1>2 DEF DictationTypes
<1>7. \A s \in Session : s > page.id =>
            said'[s] = said[s] /\ up'[s] = up[s] /\ down'[s] = down[s] /\ socket'[s] = socket[s]
  BY <1>1, <1>2
<1>8. QED
  BY <1>2, <1>3, <1>4, <1>5, <1>6, <1>7, PageStep


\* What the newest session has shown does not pass what was said.
LEMMA ShownSaid ==
  ASSUME DictationInv, NEW s \in Session, s = page.id
  PROVE  /\ Newly(s) /\ page \in PageState
         /\ Len(page.text) \in Nat /\ said[s] \in Nat /\ recogniser[s].told \in Nat /\ recogniser[s].heard \in Nat
         /\ Len(page.text) <= recogniser[s].told /\ recogniser[s].told <= recogniser[s].heard
         /\ recogniser[s].heard + Blocks <= said[s] /\ Blocks \in {0, 1}
         /\ said[s] = 0 => Len(page.text) = said[s]
         /\ ~page.capture /\ Faultless(s) => Len(page.text) = said[s]
<1>1. Newly(s) /\ page \in PageState
  BY DEF DictationInv, DictationTypes
<1>2. /\ Len(page.text) \in Nat /\ said[s] \in Nat /\ recogniser[s].told \in Nat /\ recogniser[s].heard \in Nat
      /\ Len(page.text) <= recogniser[s].told /\ recogniser[s].told <= recogniser[s].heard
  BY <1>1 DEF DictationInv, DictationTypes, DictationTypeOK, PageState, Newly
<1>3. Blocks \in {0, 1}
  BY DEF Blocks
<1>4. PICK n \in Nat : AudioOf(s, n)
  BY <1>1 DEF Newly, Audio
<1>5. recogniser[s].heard + Blocks <= said[s]
  BY <1>2, <1>3, <1>4 DEF AudioOf
<1>6. said[s] = 0 => Len(page.text) = said[s]
  BY <1>2, <1>3, <1>5
<1>7. ASSUME ~page.capture, Faultless(s) PROVE Len(page.text) = said[s]
  <2>1. said[s] > 0 => ~page.stream
    BY <1>1, <1>7 DEF Newly, Shown
  <2>2. ~page.stream => Len(page.text) = said[s]
    BY <1>1, <1>7 DEF Newly, Shown
  <2>3. QED
    BY <1>2, <1>6, <2>1, <2>2
<1>8. QED
  BY <1>1, <1>2, <1>3, <1>5, <1>6, <1>7

\* A call of startAsrRecording begins to wait.
LEMMA StartRecordingStep ==
  ASSUME DictationInv, StartRecording
  PROVE  DictationInv'
<1>1. /\ UNCHANGED <<pageVars, up, down, socket, servers, crossed>>
      /\ asking' = asking + 1 /\ page.id + asking < MaxSessions
  BY DEF StartRecording
<1>2. /\ page' = page /\ closing' = closing /\ mic' = mic /\ said' = said /\ tail' = tail /\ crossed' = crossed
      /\ up' = up /\ down' = down /\ socket' = socket /\ proxy' = proxy /\ recogniser' = recogniser /\ faults' = faults
  BY <1>1 DEF pageVars, servers
<1>3. asking' \in Nat /\ page.id + asking' <= MaxSessions
  <2>1. asking \in Nat /\ page.id \in Nat
    BY DEF DictationInv, DictationTypes, PageState
  <2>2. QED
    BY <1>1, <2>1, DictationAssumption
<1>4. /\ page \in PageState /\ tail \in BOOLEAN /\ crossed \in BOOLEAN /\ mic \subseteq Session
      /\ closing \in Seq([kind : {"abort", "finish"}, socket : 0 .. MaxSessions])
      /\ said \in [Session -> Nat] /\ up \in [Session -> Seq({"audio", "finish", "close"})]
      /\ down \in [Session -> Seq(Messages)]
      /\ socket \in [Session -> {"none", "opening", "open", "closing", "closed"}]
  BY DEF DictationInv, DictationTypes, DictationTypeOK
<1>5. PageAgrees' /\ Alone'
  BY <1>2 DEF DictationInv, PageAgrees, Alone
<1>6. \A s \in Session : s = page.id => Newly(s)'
  <2>1. ASSUME NEW s \in Session, s = page.id PROVE Newly(s)'
    <3>1. Newly(s)
      BY <2>1 DEF DictationInv
    <3>2. QED
      BY <1>2, <3>1, Elsewhere
  <2>2. QED
    BY <2>1
<1>7. page'.id = page.id /\ UNCHANGED servers
  BY <1>1, <1>2
<1>8. /\ page' \in PageState /\ tail' \in BOOLEAN /\ crossed' \in BOOLEAN /\ mic' \subseteq Session
      /\ closing' \in Seq([kind : {"abort", "finish"}, socket : 0 .. MaxSessions])
      /\ said' \in [Session -> Nat] /\ up' \in [Session -> Seq({"audio", "finish", "close"})]
      /\ down' \in [Session -> Seq(Messages)]
      /\ socket' \in [Session -> {"none", "opening", "open", "closing", "closed"}]
  BY <1>2, <1>4
<1>9. \A s \in Session : s > page.id =>
            said'[s] = said[s] /\ up'[s] = up[s] /\ down'[s] = down[s] /\ socket'[s] = socket[s]
  BY <1>2
<1>10. QED
  BY <1>3, <1>5, <1>6, <1>7, <1>8, <1>9, PageStep

\* Ending a recording leaves what is on its way to the page as it is.
LEMMA LettersStay ==
  ASSUME DictationInv, NEW kind \in {"abort", "finish"}, EndAndClose(kind), crossed => crossed',
         UNCHANGED <<down, servers>>, NEW s \in Session, s = page.id, Live(s)'
  PROVE  Letters(s)'
<1>1. Newly(s) /\ EndSession(kind) /\ socket' = socket /\ DictationTypes /\ PageAgrees
  BY EndsOnly DEF DictationInv
<1>2. page'.text = page.text /\ page'.capture = page.capture /\ said' = said
  BY <1>1, SessionEnds
<1>3. Live(s)
  BY <1>1 DEF Live
<1>4. PICK greeting \in 0 .. 2, ending \in 0 .. 2 : LettersOf(s, greeting, ending)
  BY <1>1, <1>3 DEF Newly, Letters
<1>5. down' = down /\ proxy' = proxy /\ recogniser' = recogniser /\ faults' = faults
  BY DEF servers
<1>6. Faultless(s)' => Faultless(s)
  BY <1>5 DEF Faultless
<1>7. LettersOf(s, greeting, ending)'
  BY <1>2, <1>4, <1>5, <1>6 DEF LettersOf
<1>8. QED
  BY <1>7 DEF Letters

\* The server or the user says no.
LEMMA RefusedStep ==
  ASSUME DictationInv, Refused
  PROVE  DictationInv'
<1>1. /\ UNCHANGED <<down, servers>> /\ EndAndClose("abort") /\ asking > 0 /\ asking' = asking - 1
      /\ crossed' = (crossed \/ page.mode # "idle" \/ closing # <<>>)
  BY DEF Refused, Crosses
<1>2. crossed \in BOOLEAN /\ asking \in Nat /\ page.id \in Nat /\ page.id + asking <= MaxSessions
  BY DEF DictationInv, DictationTypes, PageState, Unbegun
<1>3. crossed' \in BOOLEAN /\ (crossed => crossed')
  BY <1>1, <1>2
<1>4. asking' \in Nat /\ page.id + asking' <= MaxSessions
  BY <1>1, <1>2, DictationAssumption
<1>5. ASSUME NEW s \in Session, s = page.id PROVE Faultless(s) /\ ~crossed' => Len(page.text) = said[s]
  <2>1. SUFFICES ASSUME Faultless(s), ~crossed' PROVE Len(page.text) = said[s]
    OBVIOUS
  <2>2. ~crossed /\ page.mode = "idle" /\ closing = <<>>
    BY <1>1, <2>1
  <2>3. ~page.stream
    BY <2>2 DEF DictationInv, Alone
  <2>4. ~page.capture
    BY <2>3 DEF DictationInv, PageAgrees
  <2>5. QED
    BY <1>5, <2>1, <2>4, ShownSaid
<1>6. ASSUME NEW s \in Session, s = page.id, Live(s)' PROVE Letters(s)'
  BY <1>1, <1>3, <1>6, LettersStay
<1>7. down' \in [Session -> Seq(Messages)] /\ (\A s \in Session : s > page.id => down'[s] = down[s])
      /\ UNCHANGED servers
  BY <1>1 DEF DictationInv, DictationTypes
<1>8. QED
  BY <1>1, <1>3, <1>4, <1>5, <1>6, <1>7, Ending


\* The button, a new chat or the timer of the connection.
LEMMA StopStep ==
  ASSUME DictationInv, Stop
  PROVE  DictationInv'
<1>1. UNCHANGED <<asking, down, servers, crossed>>
  BY DEF Stop
<1>2. /\ asking \in Nat /\ page.id + asking <= MaxSessions /\ crossed \in BOOLEAN /\ down \in [Session -> Seq(Messages)]
  BY DEF DictationInv, DictationTypes, Unbegun
<1>3. CASE page.mode = "connecting" /\ EndAndClose("abort")
  <2>1. ASSUME NEW s \in Session, s = page.id PROVE Faultless(s) /\ ~crossed' => Len(page.text) = said[s]
    <3>1. SUFFICES ASSUME Faultless(s) PROVE Len(page.text) = said[s]
      OBVIOUS
    <3>2. ~page.capture
      BY <1>3, <3>1 DEF DictationInv, Alone, Faultless
    <3>3. QED
      BY <2>1, <3>1, <3>2, ShownSaid
  <2>2. EndAndClose("abort")
    BY <1>3
  <2>3. crossed' \in BOOLEAN /\ (crossed => crossed') /\ UNCHANGED <<down, servers>> /\ UNCHANGED servers
    BY <1>1, <1>2
  <2>4. ASSUME NEW s \in Session, s = page.id, Live(s)' PROVE Letters(s)'
    BY <2>2, <2>3, <2>4, LettersStay
  <2>5. down' \in [Session -> Seq(Messages)] /\ (\A s \in Session : s > page.id => down'[s] = down[s])
        /\ asking' \in Nat /\ page.id + asking' <= MaxSessions
    BY <1>1, <1>2
  <2>6. QED
    BY <2>1, <2>2, <2>3, <2>4, <2>5, Ending
<1>4. CASE /\ page.mode = "recording"
           /\ page' = [page EXCEPT !.mode = "finalizing", !.timer = TRUE]
           /\ UNCHANGED <<closing, mic, said, tail, up, socket>>
  <2>1. /\ page' \in PageState /\ page'.id = page.id /\ page'.text = page.text /\ page'.mode = "finalizing"
        /\ page'.capture = page.capture /\ page'.stream = page.stream /\ page'.socket = page.socket
    <3>1. page \in PageState
      BY DEF DictationInv, DictationTypes
    <3>2. page' = [page EXCEPT !.mode = "finalizing", !.timer = TRUE]
      BY <1>4
    <3>3. QED
      BY <3>1, <3>2 DEF PageState
  <2>2. /\ closing' = closing /\ mic' = mic /\ said' = said /\ tail' = tail /\ crossed' = crossed
        /\ up' = up /\ down' = down /\ socket' = socket /\ proxy' = proxy /\ recogniser' = recogniser /\ faults' = faults
        /\ asking' = asking
    BY <1>1, <1>4 DEF servers
  <2>3. page.mode = "recording"
    BY <1>4
  <2> HIDE <1>4
  <2>4. PageAgrees' /\ Alone'
    BY <2>1, <2>2, <2>3 DEF DictationInv, PageAgrees, Alone
  <2>5. ASSUME NEW s \in Session, s = page.id PROVE Newly(s)'
    <3>1. Newly(s)
      BY <2>5 DEF DictationInv
    <3>2. (Live(s)' <=> Live(s)) /\ (Faultless(s)' <=> Faultless(s)) /\ Blocks' = Blocks
      BY <2>2 DEF Live, Faultless, Blocks
    <3>3. Bridge(s)'
      BY <2>1, <2>2, <2>3, <3>1, <3>2 DEF Newly, Bridge
    <3>4. Audio(s)'
      <4>1. PICK n \in Nat : AudioOf(s, n)
        BY <3>1 DEF Newly, Audio
      <4>2. AudioOf(s, n)'
        BY <2>2, <3>2, <4>1 DEF AudioOf
      <4>3. QED
        BY <4>2 DEF Audio
    <3>5. Shown(s)'
      BY <2>1, <2>2, <3>1, <3>2 DEF Newly, Shown
    <3>6. Live(s)' => Letters(s)'
      <4>1. SUFFICES ASSUME Live(s)' PROVE Letters(s)'
        OBVIOUS
      <4>2. PICK greeting \in 0 .. 2, ending \in 0 .. 2 : LettersOf(s, greeting, ending)
        BY <3>1, <3>2, <4>1 DEF Newly, Letters
      <4>3. LettersOf(s, greeting, ending)'
        BY <2>1, <2>2, <3>2, <4>2 DEF LettersOf
      <4>4. QED
        BY <4>3 DEF Letters
    <3>7. QED
      BY <2>1, <2>2, <3>1, <3>2, <3>3, <3>4, <3>5, <3>6 DEF Newly
  <2>6. /\ tail' \in BOOLEAN /\ crossed' \in BOOLEAN /\ mic' \subseteq Session
        /\ closing' \in Seq([kind : {"abort", "finish"}, socket : 0 .. MaxSessions])
        /\ said' \in [Session -> Nat] /\ up' \in [Session -> Seq({"audio", "finish", "close"})]
        /\ down' \in [Session -> Seq(Messages)]
        /\ socket' \in [Session -> {"none", "opening", "open", "closing", "closed"}]
    BY <2>2 DEF DictationInv, DictationTypes, DictationTypeOK
  <2>7. \A s \in Session : s > page.id =>
            said'[s] = said[s] /\ up'[s] = up[s] /\ down'[s] = down[s] /\ socket'[s] = socket[s]
    BY <2>2
  <2>8. asking' \in Nat /\ page.id + asking' <= MaxSessions /\ UNCHANGED servers
    BY <1>1, <1>2, <2>2
  <2>9. QED
    BY <2>1, <2>4, <2>5, <2>6, <2>7, <2>8, PageStep
<1>5. QED
  BY <1>3, <1>4 DEF Stop

\* A piece is said.
LEMMA SayStep ==
  ASSUME DictationInv, Say
  PROVE  DictationInv'
<1>1. /\ page.mode = "recording" /\ page.capture /\ page.id \in mic /\ ~tail
      /\ tail' = TRUE /\ said' = [said EXCEPT ![page.id] = @ + 1]
      /\ UNCHANGED <<page, closing, mic, asking, up, down, socket, servers, crossed>>
  BY DEF Say
<1>2. /\ page \in PageState /\ mic \subseteq Session /\ said \in [Session -> Nat]
      /\ page.id + asking <= MaxSessions /\ asking \in Nat /\ crossed \in BOOLEAN
      /\ closing \in Seq([kind : {"abort", "finish"}, socket : 0 .. MaxSessions])
      /\ up \in [Session -> Seq({"audio", "finish", "close"})] /\ down \in [Session -> Seq(Messages)]
      /\ socket \in [Session -> {"none", "opening", "open", "closing", "closed"}]
  BY DEF DictationInv, DictationTypes, DictationTypeOK, Unbegun
<1>3. /\ page' = page /\ closing' = closing /\ mic' = mic /\ crossed' = crossed /\ asking' = asking
      /\ up' = up /\ down' = down /\ socket' = socket /\ proxy' = proxy /\ recogniser' = recogniser /\ faults' = faults
  BY <1>1 DEF servers
<1>4. page.id \in Session /\ page.id \in Nat
  <2>1. page.id \in Session
    BY <1>1, <1>2
  <2>2. QED
    BY <2>1 DEF Session
<1>5. said' \in [Session -> Nat] /\ said'[page.id] = said[page.id] + 1
      /\ \A s \in Session : s # page.id => said'[s] = said[s]
  BY <1>1, <1>2, <1>4
<1>6. PageAgrees' /\ Alone'
  BY <1>1, <1>3 DEF DictationInv, PageAgrees, Alone
<1>7. ASSUME NEW s \in Session, s = page.id PROVE Newly(s)'
  <2>1. Newly(s)
    BY <1>7 DEF DictationInv
  <2>2. (Live(s)' <=> Live(s)) /\ (Faultless(s)' <=> Faultless(s)) /\ Blocks' = 1 /\ Blocks = 0
    BY <1>1, <1>3 DEF Live, Faultless, Blocks
  <2>3. Bridge(s)'
    BY <1>3, <2>1, <2>2 DEF Newly, Bridge
  <2>4. said'[s] = said[s] + 1 /\ said[s] \in Nat /\ recogniser[s].heard \in Nat /\ s \in mic
    BY <1>1, <1>2, <1>5, <1>7, ShownSaid
  <2>5. Audio(s)'
    <3>1. PICK n \in Nat : AudioOf(s, n)
      BY <2>1 DEF Newly, Audio
    <3>2. recogniser[s].heard + n + 1 <= said[s] + 1
          /\ (Faultless(s) /\ Live(s) => recogniser[s].heard + n + 1 = said[s] + 1)
      <4>1. recogniser[s].heard + n + 0 <= said[s]
        BY <2>2, <3>1 DEF AudioOf
      <4>2. ASSUME Faultless(s), Live(s) PROVE recogniser[s].heard + n + 0 = said[s]
        BY <2>2, <3>1, <4>2 DEF AudioOf
      <4>3. ASSUME Faultless(s), Live(s) PROVE recogniser[s].heard + n + 1 = said[s] + 1
        BY <2>4, <4>2, <4>3
      <4>4. recogniser[s].heard + n + 1 <= said[s] + 1
        BY <2>4, <4>1
      <4>5. QED
        BY <4>3, <4>4
    <3>3. ~(n < Len(up[s]) /\ socket[s] = "open")
      BY <2>4, <3>1 DEF AudioOf
    <3>4. AudioOf(s, n)'
      BY <1>3, <2>2, <2>4, <3>1, <3>2, <3>3 DEF AudioOf
    <3>5. QED
      BY <3>4 DEF Audio
  <2>6. Shown(s)'
    BY <1>1, <1>3, <2>1, <2>2, <2>4 DEF Newly, Shown
  <2>7. Live(s)' => Letters(s)'
    <3>1. SUFFICES ASSUME Live(s)' PROVE Letters(s)'
      OBVIOUS
    <3>2. PICK greeting \in 0 .. 2, ending \in 0 .. 2 : LettersOf(s, greeting, ending)
      BY <2>1, <2>2, <3>1 DEF Newly, Letters
    <3>3. ~(Faultless(s) /\ proxy[s] = "over")
      BY <2>1, <2>2, <2>4, <3>1 DEF Newly, Shown
    <3>4. LettersOf(s, greeting, ending)'
      BY <1>3, <2>2, <3>2, <3>3 DEF LettersOf
    <3>5. QED
      BY <3>4 DEF Letters
  <2>8. QED
    BY <1>3, <2>1, <2>2, <2>3, <2>5, <2>6, <2>7 DEF Newly
<1>8. /\ page' \in PageState /\ page'.id = page.id /\ asking' \in Nat /\ page.id + asking' <= MaxSessions
      /\ tail' \in BOOLEAN /\ crossed' \in BOOLEAN /\ mic' \subseteq Session
      /\ closing' \in Seq([kind : {"abort", "finish"}, socket : 0 .. MaxSessions])
      /\ up' \in [Session -> Seq({"audio", "finish", "close"})] /\ down' \in [Session -> Seq(Messages)]
      /\ socket' \in [Session -> {"none", "opening", "open", "closing", "closed"}]
  BY <1>1, <1>2, <1>3
<1>9. \A s \in Session : s > page.id => s # page.id
  BY <1>4
<1>10. \A s \in Session : s > page.id =>
            said'[s] = said[s] /\ up'[s] = up[s] /\ down'[s] = down[s] /\ socket'[s] = socket[s]
  BY <1>3, <1>5, <1>9
<1>11. UNCHANGED servers
  BY <1>1
<1>12. QED
  BY <1>5, <1>6, <1>7, <1>8, <1>10, <1>11, PageStep


\* A block of the capture is sent, or dropped.
LEMMA SendBlockStep ==
  ASSUME DictationInv, SendBlock
  PROVE  DictationInv'
<1>1. /\ tail /\ tail' = FALSE
      /\ up' = IF Open(Socket) /\ page.mode \in {"recording", "finalizing"}
               THEN [up EXCEPT ![page.id] = Append(@, "audio")] ELSE up
      /\ UNCHANGED <<page, closing, mic, said, asking, down, socket, servers, crossed>>
  BY DEF SendBlock
<1>2. /\ page \in PageState /\ mic \subseteq Session /\ said \in [Session -> Nat]
      /\ page.id + asking <= MaxSessions /\ asking \in Nat /\ crossed \in BOOLEAN
      /\ closing \in Seq([kind : {"abort", "finish"}, socket : 0 .. MaxSessions])
      /\ up \in [Session -> Seq({"audio", "finish", "close"})] /\ down \in [Session -> Seq(Messages)]
      /\ socket \in [Session -> {"none", "opening", "open", "closing", "closed"}]
      /\ page.id \in Nat
  BY DEF DictationInv, DictationTypes, DictationTypeOK, Unbegun, PageState
<1>3. /\ page' = page /\ closing' = closing /\ mic' = mic /\ said' = said /\ crossed' = crossed /\ asking' = asking
      /\ down' = down /\ socket' = socket /\ proxy' = proxy /\ recogniser' = recogniser /\ faults' = faults
  BY <1>1 DEF servers
<1>4. PageAgrees' /\ Alone'
  BY <1>1, <1>3 DEF DictationInv, PageAgrees, Alone
<1>5. /\ up' \in [Session -> Seq({"audio", "finish", "close"})]
      /\ \A s \in Session : s # page.id => up'[s] = up[s]
      /\ \A s \in Session : s = page.id =>
           \/ /\ socket[s] = "open" /\ page.mode \in {"recording", "finalizing"} /\ up'[s] = Append(up[s], "audio")
           \/ /\ up'[s] = up[s] /\ ~(page.socket /\ socket[s] = "open" /\ page.mode \in {"recording", "finalizing"})
  <2>1. CASE Open(Socket) /\ page.mode \in {"recording", "finalizing"}
    <3>1. Socket = page.id
      <4>1. ~page.socket => Socket = 0
        BY DEF Socket
      <4>2. 0 \notin Session
        BY DEF Session
      <4>3. QED
        BY <2>1, <4>1, <4>2 DEF Open, Socket
    <3>2. page.id \in Session /\ socket[page.id] = "open"
      BY <2>1, <3>1 DEF Open
    <3>3. up' = [up EXCEPT ![page.id] = Append(@, "audio")]
      BY <1>1, <2>1
    <3>4. Append(up[page.id], "audio") \in Seq({"audio", "finish", "close"})
      BY <1>2, <3>2
    <3>5. page.mode \in {"recording", "finalizing"}
      BY <2>1
    <3> HIDE <2>1
    <3>6. QED
      BY <1>2, <3>2, <3>3, <3>4, <3>5
  <2>2. CASE ~(Open(Socket) /\ page.mode \in {"recording", "finalizing"})
    <3>1. up' = up
      BY <1>1, <2>2
    <3>2. ASSUME NEW s \in Session, s = page.id, page.socket, socket[s] = "open"
          PROVE  page.mode \notin {"recording", "finalizing"}
      <4>1. Socket = s
        BY <3>2 DEF Socket
      <4>2. QED
        BY <2>2, <3>2, <4>1 DEF Open
    <3>3. QED
      BY <1>2, <3>1, <3>2
  <2>3. QED
    BY <2>1, <2>2
<1>6. ASSUME NEW s \in Session, s = page.id PROVE Newly(s)'
  <2>1. Newly(s) /\ Alone /\ PageAgrees
    BY <1>6 DEF DictationInv
  <2>2. (Live(s)' <=> Live(s)) /\ (Faultless(s)' <=> Faultless(s)) /\ Blocks' = 0 /\ Blocks = 1
    BY <1>1, <1>3 DEF Live, Faultless, Blocks
  <2>3. said[s] \in Nat /\ recogniser[s].heard \in Nat /\ up[s] \in Seq({"audio", "finish", "close"})
    BY <1>2, <1>6, ShownSaid
  <2>4. PICK n \in Nat : AudioOf(s, n)
    BY <2>1 DEF Newly, Audio
  <2>5. CASE socket[s] = "open" /\ page.mode \in {"recording", "finalizing"} /\ up'[s] = Append(up[s], "audio")
    <3>1. AudioIs(up[s], n)
      BY <2>4 DEF AudioOf
    <3>2. n \in 0 .. Len(up[s]) /\ Len(up[s]) \in Nat
      BY <2>3, <3>1 DEF AudioIs
    <3>3. ~(n < Len(up[s]))
      BY <1>1, <2>4, <2>5 DEF AudioOf
    <3>4. n = Len(up[s])
      BY <3>2, <3>3
    <3> DEFINE k == n + 1
               all == Append(up[s], "audio")
    <3>5. AudioIs(all, k) /\ k = Len(all)
      BY <2>3, <3>1, <3>4, AudioMoves
    <3> HIDE DEF all
    <3>6. k \in Nat /\ ~(k < Len(all)) /\ recogniser[s].heard + k + 0 = recogniser[s].heard + n + 1
      <4>1. k \in Nat
        OBVIOUS
      <4>2. ~(k < k) /\ recogniser[s].heard + k + 0 = recogniser[s].heard + n + 1
        BY <2>3
      <4>3. QED
        BY <3>5, <4>1, <4>2
    <3> HIDE DEF k
    <3>7. up'[s] = all
      BY <2>5 DEF all
    <3>8. AudioOf(s, k)'
      BY <1>3, <2>2, <2>4, <3>5, <3>6, <3>7 DEF AudioOf
    <3>9. Audio(s)'
      BY <3>6, <3>8 DEF Audio
    <3>10. Bridge(s)'
      BY <1>3, <2>1, <2>2, <2>5 DEF Newly, Bridge
    <3>11. Shown(s)'
      BY <1>1, <1>3, <2>1, <2>2 DEF Newly, Shown
    <3>12. Live(s)' => Letters(s)'
      <4>1. SUFFICES ASSUME Live(s)' PROVE Letters(s)'
        OBVIOUS
      <4>2. PICK greeting \in 0 .. 2, ending \in 0 .. 2 : LettersOf(s, greeting, ending)
        BY <2>1, <2>2, <4>1 DEF Newly, Letters
      <4>3. LettersOf(s, greeting, ending)'
        BY <1>3, <2>2, <4>2 DEF LettersOf
      <4>4. QED
        BY <4>3 DEF Letters
    <3>13. QED
      BY <1>3, <2>1, <2>2, <3>9, <3>10, <3>11, <3>12 DEF Newly
  <2>6. CASE up'[s] = up[s] /\ ~(page.socket /\ socket[s] = "open" /\ page.mode \in {"recording", "finalizing"})
    <3>1. Faultless(s) => ~Live(s)
      <4>1. SUFFICES ASSUME Faultless(s), Live(s) PROVE FALSE
        OBVIOUS
      <4>2. page.capture /\ page.stream /\ page.socket /\ page.mode \notin {"idle", "connecting"}
        BY <1>1, <2>1, <4>1 DEF Alone, PageAgrees, Faultless
      <4>3. page.mode \in {"recording", "finalizing"}
        BY <1>2, <4>2 DEF PageState
      <4>4. socket[s] # "opening"
        BY <2>1, <4>2 DEF Newly, Bridge
      <4>5. QED
        BY <2>6, <4>1, <4>2, <4>3, <4>4 DEF Live
    <3>2. recogniser[s].heard + n + 0 <= said[s]
      BY <2>2, <2>3, <2>4 DEF AudioOf
    <3>3. AudioOf(s, n)'
      BY <1>1, <1>3, <2>2, <2>4, <2>6, <3>1, <3>2 DEF AudioOf
    <3>4. Audio(s)'
      BY <3>3 DEF Audio
    <3>5. Bridge(s)'
      BY <1>3, <2>1, <2>2, <2>6 DEF Newly, Bridge
    <3>6. Shown(s)'
      BY <1>1, <1>3, <2>1, <2>2 DEF Newly, Shown
    <3>7. Live(s)' => Letters(s)'
      <4>1. SUFFICES ASSUME Live(s)' PROVE Letters(s)'
        OBVIOUS
      <4>2. PICK greeting \in 0 .. 2, ending \in 0 .. 2 : LettersOf(s, greeting, ending)
        BY <2>1, <2>2, <4>1 DEF Newly, Letters
      <4>3. LettersOf(s, greeting, ending)'
        BY <1>3, <2>2, <4>2 DEF LettersOf
      <4>4. QED
        BY <4>3 DEF Letters
    <3>8. QED
      BY <1>3, <2>1, <2>2, <3>4, <3>5, <3>6, <3>7 DEF Newly
  <2>7. QED
    BY <1>5, <1>6, <2>5, <2>6
<1>7. /\ page' \in PageState /\ page'.id = page.id /\ asking' \in Nat /\ page.id + asking' <= MaxSessions
      /\ tail' \in BOOLEAN /\ crossed' \in BOOLEAN /\ mic' \subseteq Session /\ said' \in [Session -> Nat]
      /\ closing' \in Seq([kind : {"abort", "finish"}, socket : 0 .. MaxSessions])
      /\ down' \in [Session -> Seq(Messages)]
      /\ socket' \in [Session -> {"none", "opening", "open", "closing", "closed"}]
  BY <1>1, <1>2, <1>3
<1>8. \A s \in Session : s > page.id => s # page.id
  BY <1>2
<1>9. \A s \in Session : s > page.id =>
            said'[s] = said[s] /\ up'[s] = up[s] /\ down'[s] = down[s] /\ socket'[s] = socket[s]
  BY <1>3, <1>5, <1>8
<1>10. UNCHANGED servers
  BY <1>1
<1>11. QED
  BY <1>4, <1>5, <1>6, <1>7, <1>9, <1>10, PageStep


\* The capture is flushed and the audio ends.
LEMMA FinishAudioStep ==
  ASSUME DictationInv, FinishAudio
  PROVE  DictationInv'
<1>1. UNCHANGED <<asking, down, servers, crossed>> /\ ~tail
  BY DEF FinishAudio, Flushed
<1>2. /\ page \in PageState /\ mic \subseteq Session /\ said \in [Session -> Nat] /\ tail \in BOOLEAN
      /\ page.id + asking <= MaxSessions /\ asking \in Nat /\ crossed \in BOOLEAN
      /\ closing \in Seq([kind : {"abort", "finish"}, socket : 0 .. MaxSessions])
      /\ up \in [Session -> Seq({"audio", "finish", "close"})] /\ down \in [Session -> Seq(Messages)]
      /\ socket \in [Session -> {"none", "opening", "open", "closing", "closed"}]
      /\ page.id \in Nat
  BY DEF DictationInv, DictationTypes, DictationTypeOK, Unbegun, PageState
<1>3. /\ crossed' = crossed /\ asking' = asking
      /\ down' = down /\ proxy' = proxy /\ recogniser' = recogniser /\ faults' = faults
  BY <1>1 DEF servers
<1>4. \A s \in Session : s > page.id => s # page.id
  BY <1>2
<1>5. CASE /\ Open(Socket)
           /\ up' = [up EXCEPT ![page.id] = Append(@, "finish")]
           /\ page' = [page EXCEPT !.timer = FALSE]
           /\ mic' = mic \ {page.id}
           /\ UNCHANGED <<closing, said, tail, socket>>
  <2>1. page.id \in Session /\ socket[page.id] = "open"
    <3>1. ~page.socket => Socket = 0
      BY DEF Socket
    <3>2. 0 \notin Session
      BY DEF Session
    <3>3. Socket = page.id
      BY <1>5, <3>1, <3>2 DEF Open, Socket
    <3>4. QED
      BY <1>5, <3>3 DEF Open
  <2>2. /\ up' \in [Session -> Seq({"audio", "finish", "close"})] /\ up'[page.id] = Append(up[page.id], "finish")
        /\ \A s \in Session : s # page.id => up'[s] = up[s]
    <3>1. Append(up[page.id], "finish") \in Seq({"audio", "finish", "close"})
      BY <1>2, <2>1
    <3>2. QED
      BY <1>2, <1>5, <2>1, <3>1
  <2>3. /\ page' \in PageState /\ page'.id = page.id /\ page'.text = page.text /\ page'.mode = page.mode
        /\ page'.capture = page.capture /\ page'.stream = page.stream /\ page'.socket = page.socket
    BY <1>2, <1>5 DEF PageState
  <2>4. closing' = closing /\ said' = said /\ tail' = tail /\ socket' = socket /\ mic' = mic \ {page.id}
    BY <1>5
  <2> HIDE <1>5
  <2>5. PageAgrees' /\ Alone'
    BY <1>1, <1>3, <2>3, <2>4 DEF DictationInv, PageAgrees, Alone
  <2>6. ASSUME NEW s \in Session, s = page.id PROVE Newly(s)'
    <3>1. Newly(s)
      BY <2>6 DEF DictationInv
    <3>2. (Live(s)' <=> Live(s)) /\ (Faultless(s)' <=> Faultless(s)) /\ Blocks' = Blocks
      BY <1>3, <2>4 DEF Live, Faultless, Blocks
    <3>3. Bridge(s)'
      BY <1>3, <2>1, <2>3, <2>4, <2>6, <3>1, <3>2 DEF Newly, Bridge
    <3>4. Audio(s)'
      <4>1. PICK n \in Nat : AudioOf(s, n)
        BY <3>1 DEF Newly, Audio
      <4>2. AudioIs(up[s], n) /\ up[s] \in Seq({"audio", "finish", "close"})
        BY <1>2, <4>1 DEF AudioOf
      <4> DEFINE all == Append(up[s], "finish")
      <4>3. AudioIs(all, n)
        BY <4>2, AudioMoves
      <4> HIDE DEF all
      <4>4. AudioIs(up'[s], n)
        BY <2>2, <2>6, <4>3 DEF all
      <4>5. s \notin mic' /\ ~tail'
        BY <1>1, <2>4, <2>6
      <4>6. AudioOf(s, n)'
        BY <1>3, <2>4, <3>2, <4>1, <4>4, <4>5 DEF AudioOf
      <4>7. QED
        BY <4>6 DEF Audio
    <3>5. Shown(s)'
      BY <1>3, <2>3, <2>4, <3>1, <3>2 DEF Newly, Shown
    <3>6. Live(s)' => Letters(s)'
      <4>1. SUFFICES ASSUME Live(s)' PROVE Letters(s)'
        OBVIOUS
      <4>2. PICK greeting \in 0 .. 2, ending \in 0 .. 2 : LettersOf(s, greeting, ending)
        BY <3>1, <3>2, <4>1 DEF Newly, Letters
      <4>3. LettersOf(s, greeting, ending)'
        BY <1>3, <2>3, <2>4, <3>2, <4>2 DEF LettersOf
      <4>4. QED
        BY <4>3 DEF Letters
    <3>7. QED
      BY <1>3, <2>3, <2>4, <3>1, <3>2, <3>3, <3>4, <3>5, <3>6 DEF Newly
  <2>7. /\ tail' \in BOOLEAN /\ crossed' \in BOOLEAN /\ mic' \subseteq Session /\ said' \in [Session -> Nat]
        /\ closing' \in Seq([kind : {"abort", "finish"}, socket : 0 .. MaxSessions])
        /\ down' \in [Session -> Seq(Messages)]
        /\ socket' \in [Session -> {"none", "opening", "open", "closing", "closed"}]
        /\ asking' \in Nat /\ page.id + asking' <= MaxSessions
    BY <1>2, <1>3, <2>4
  <2>8. \A s \in Session : s > page.id =>
            said'[s] = said[s] /\ up'[s] = up[s] /\ down'[s] = down[s] /\ socket'[s] = socket[s]
    BY <1>3, <1>4, <2>2, <2>4
  <2>9. UNCHANGED servers
    BY <1>1
  <2>10. QED
    BY <2>2, <2>3, <2>5, <2>6, <2>7, <2>8, <2>9, PageStep
<1>6. CASE ~Open(Socket) /\ EndAndClose("finish")
  <2>1. ASSUME NEW s \in Session, s = page.id PROVE Faultless(s) /\ ~crossed' => Len(page.text) = said[s]
    <3>1. SUFFICES ASSUME Faultless(s) PROVE Len(page.text) = said[s]
      OBVIOUS
    <3>2. Newly(s) /\ PageAgrees
      BY <2>1 DEF DictationInv
    <3>3. CASE ~page.stream
      BY <3>1, <3>2, <3>3 DEF Newly, Shown
    <3>4. CASE page.stream
      <4>1. socket[s] # "open"
        BY <1>6, <2>1, <3>2, <3>4 DEF Open, Socket, PageAgrees
      <4>2. CASE ~Live(s)
        BY <3>1, <3>2, <4>2 DEF Newly, Shown
      <4>3. CASE Live(s)
        <5>1. ~page.capture
          BY <3>2, <4>1, <4>3 DEF Newly, Bridge, Live
        <5>2. QED
          BY <2>1, <3>1, <5>1, ShownSaid
      <4>4. QED
        BY <4>2, <4>3
    <3>5. QED
      BY <3>3, <3>4
  <2>2. EndAndClose("finish")
    BY <1>6
  <2>3. crossed' \in BOOLEAN /\ (crossed => crossed') /\ UNCHANGED <<down, servers>> /\ UNCHANGED servers
    BY <1>1, <1>2
  <2>4. ASSUME NEW s \in Session, s = page.id, Live(s)' PROVE Letters(s)'
    BY <2>2, <2>3, <2>4, LettersStay
  <2>5. down' \in [Session -> Seq(Messages)] /\ (\A s \in Session : s > page.id => down'[s] = down[s])
        /\ asking' \in Nat /\ page.id + asking' <= MaxSessions
    BY <1>2, <1>3
  <2>6. QED
    BY <2>1, <2>2, <2>3, <2>4, <2>5, Ending
<1>7. QED
  BY <1>5, <1>6 DEF FinishAudio


\* The audio context has ended, and a call of abort or finish goes on.
LEMMA ContextClosedStep ==
  ASSUME DictationInv, ContextClosed
  PROVE  DictationInv'
<1> DEFINE y == IF Head(closing).kind = "abort" THEN Socket ELSE Head(closing).socket
<1>1. /\ closing # <<>> /\ closing' = Tail(closing) /\ page' = Released /\ CloseSocket(y)
      /\ UNCHANGED <<mic, said, tail, asking, down, servers, crossed>>
  BY DEF ContextClosed
<1> HIDE DEF y
<1>2. /\ page \in PageState /\ mic \subseteq Session /\ said \in [Session -> Nat] /\ tail \in BOOLEAN
      /\ page.id + asking <= MaxSessions /\ asking \in Nat /\ crossed \in BOOLEAN
      /\ closing \in Seq([kind : {"abort", "finish"}, socket : 0 .. MaxSessions])
      /\ up \in [Session -> Seq({"audio", "finish", "close"})] /\ down \in [Session -> Seq(Messages)]
      /\ socket \in [Session -> {"none", "opening", "open", "closing", "closed"}]
      /\ page.id \in Nat
  BY DEF DictationInv, DictationTypes, DictationTypeOK, Unbegun, PageState
<1>3. /\ mic' = mic /\ said' = said /\ tail' = tail /\ crossed' = crossed /\ asking' = asking
      /\ down' = down /\ proxy' = proxy /\ recogniser' = recogniser /\ faults' = faults
  BY <1>1 DEF servers
<1>4. /\ page' \in PageState /\ page'.id = page.id /\ page'.text = page.text /\ page'.mode = page.mode
      /\ page'.capture = FALSE /\ page'.stream = FALSE /\ page'.socket = FALSE
  BY <1>1, <1>2 DEF PageState, Released
<1>5. closing' \in Seq([kind : {"abort", "finish"}, socket : 0 .. MaxSessions])
  BY <1>1, <1>2
<1>6. DictationTypes
  BY DEF DictationInv
<1>7. /\ socket' \in [Session -> {"none", "opening", "open", "closing", "closed"}]
      /\ up' \in [Session -> Seq({"audio", "finish", "close"})]
      /\ \A s \in Session : s # y => socket'[s] = socket[s] /\ up'[s] = up[s]
  BY <1>1, <1>6, SocketCloses
<1>8. y \in Session =>
              \/ socket[y] \notin {"opening", "open"} /\ socket'[y] = socket[y] /\ up'[y] = up[y]
              \/ socket[y] = "opening" /\ socket'[y] = "closing" /\ up'[y] = up[y]
              \/ socket[y] = "open" /\ socket'[y] = "closing" /\ up'[y] = Append(up[y], "close")
  BY <1>1, <1>6, SocketCloses
<1>9. \A s \in Session :
              \/ socket'[s] = socket[s] /\ up'[s] = up[s]
              \/ socket[s] = "opening" /\ socket'[s] = "closing" /\ up'[s] = up[s]
              \/ socket[s] = "open" /\ socket'[s] = "closing" /\ up'[s] = Append(up[s], "close")
  BY <1>7, <1>8
<1>10. PageAgrees'
  BY <1>4 DEF DictationInv, PageAgrees
<1>11. Alone'
  <2>1. SUFFICES ASSUME ~crossed PROVE Alone'
    BY <1>3 DEF Alone
  <2>2. mic = {} /\ ~tail
    BY <1>1, <2>1 DEF DictationInv, Alone
  <2>3. QED
    BY <1>3, <1>4, <2>2 DEF Alone
<1>12. ASSUME NEW s \in Session, s = page.id PROVE Newly(s)'
  <2>1. Newly(s)
    BY <1>12 DEF DictationInv
  <2>2. (Live(s)' => Live(s) /\ socket'[s] = socket[s] /\ up'[s] = up[s])
        /\ (Faultless(s)' <=> Faultless(s)) /\ Blocks' = Blocks
    BY <1>3, <1>9 DEF Live, Faultless, Blocks
  <2>3. /\ socket'[s] # "none" /\ (socket'[s] = "opening" => socket[s] = "opening" /\ up'[s] = up[s])
        /\ (socket'[s] = "open" => socket[s] = "open" /\ up'[s] = up[s])
        /\ (socket'[s] = "closed" => socket[s] = "closed")
    BY <1>9, <2>1 DEF Newly
  <2>4. Bridge(s)'
    BY <1>3, <1>4, <2>1, <2>2, <2>3 DEF Newly, Bridge
  <2>5. Audio(s)'
    <3>1. PICK n \in Nat : AudioOf(s, n)
      BY <2>1 DEF Newly, Audio
    <3>2. AudioIs(up[s], n) /\ up[s] \in Seq({"audio", "finish", "close"})
      BY <1>2, <3>1 DEF AudioOf
    <3>3. AudioIs(up'[s], n)
      <4>1. CASE up'[s] = up[s]
        BY <3>2, <4>1
      <4>2. CASE up'[s] = Append(up[s], "close")
        <5> DEFINE all == Append(up[s], "close")
        <5>1. AudioIs(all, n)
          BY <3>2, AudioMoves
        <5> HIDE DEF all
        <5>2. up'[s] = all
          BY <4>2 DEF all
        <5>3. QED
          BY <5>1, <5>2
      <4>3. QED
        BY <1>9, <4>1, <4>2
    <3>4. AudioOf(s, n)'
      BY <1>3, <2>2, <2>3, <3>1, <3>3 DEF AudioOf
    <3>5. QED
      BY <3>4 DEF Audio
  <2>6. Shown(s)'
    BY <1>1, <1>3, <1>4, <2>1, <2>2 DEF Newly, Shown
  <2>7. Live(s)' => Letters(s)'
    <3>1. SUFFICES ASSUME Live(s)' PROVE Letters(s)'
      OBVIOUS
    <3>2. PICK greeting \in 0 .. 2, ending \in 0 .. 2 : LettersOf(s, greeting, ending)
      BY <2>1, <2>2, <3>1 DEF Newly, Letters
    <3>3. LettersOf(s, greeting, ending)'
      BY <1>3, <1>4, <2>2, <3>2 DEF LettersOf
    <3>4. QED
      BY <3>3 DEF Letters
  <2>8. QED
    BY <1>3, <1>4, <2>1, <2>3, <2>4, <2>5, <2>6, <2>7 DEF Newly
<1>13. \A s \in Session : s > page.id =>
            said'[s] = said[s] /\ up'[s] = up[s] /\ down'[s] = down[s] /\ socket'[s] = socket[s]
  <2>1. \A s \in Session : s > page.id => socket[s] = "none"
    BY DEF DictationInv, Unbegun
  <2>2. QED
    BY <1>3, <1>9, <2>1
<1>14. /\ tail' \in BOOLEAN /\ crossed' \in BOOLEAN /\ mic' \subseteq Session /\ said' \in [Session -> Nat]
       /\ down' \in [Session -> Seq(Messages)] /\ asking' \in Nat /\ page.id + asking' <= MaxSessions
       /\ UNCHANGED servers
  BY <1>1, <1>2, <1>3
<1>15. QED
  BY <1>4, <1>5, <1>7, <1>10, <1>11, <1>12, <1>13, <1>14, PageStep


\* A recording begins.
LEMMA BeginRecordingStep ==
  ASSUME DictationInv, BeginRecording
  PROVE  DictationInv'
<1>15. asking > 0 /\ asking \in Nat /\ page.id \in Nat /\ page.id + asking <= MaxSessions /\ MaxSessions \in Nat
  BY DictationAssumption DEF BeginRecording, DictationInv, DictationTypes, Unbegun, PageState
<1>16. page.id + 1 \in Session
  BY <1>15 DEF Session
<1>17. PICK s \in Session : s = page.id + 1
  BY <1>16
<1>1. /\ asking > 0 /\ asking' = asking - 1 /\ tail' = FALSE
      /\ crossed' = (crossed \/ page.mode # "idle" \/ closing # <<>>)
      /\ page' = [page EXCEPT !.id = s, !.mode = "connecting", !.stream = TRUE,
                               !.socket = TRUE, !.capture = FALSE, !.text = <<>>]
      /\ mic' = mic \cup {s} /\ socket' = [socket EXCEPT ![s] = "opening"]
      /\ UNCHANGED <<closing, said, up, down, servers>>
  BY <1>17 DEF BeginRecording, Crosses
<1>2. /\ page \in PageState /\ mic \subseteq Session /\ said \in [Session -> Nat]
      /\ page.id + asking <= MaxSessions /\ asking \in Nat /\ crossed \in BOOLEAN
      /\ closing \in Seq([kind : {"abort", "finish"}, socket : 0 .. MaxSessions])
      /\ up \in [Session -> Seq({"audio", "finish", "close"})] /\ down \in [Session -> Seq(Messages)]
      /\ socket \in [Session -> {"none", "opening", "open", "closing", "closed"}]
      /\ proxy \in [Session -> {"none", "dialing", "bridging", "finishing", "over"}]
      /\ recogniser \in [Session -> [state : {"none", "starting", "running", "finishing", "over"},
                                     heard : Nat, told : Nat]]
      /\ \A x \in Session : recogniser[x].told <= recogniser[x].heard
      /\ page.id \in Nat /\ faults \subseteq Session
  BY DEF DictationInv, DictationTypes, DictationTypeOK, Unbegun, PageState
<1>3. s \in Session /\ s > page.id /\ s \in Nat /\ s \in 0 .. MaxSessions
      /\ asking' \in Nat /\ s + asking' <= MaxSessions
  <2>1. s \in Nat /\ s <= MaxSessions
    BY DictationAssumption DEF Session
  <2>2. asking' = asking - 1 /\ s = page.id + 1
    BY <1>1, <1>17
  <2>3. QED
    BY <1>15, <2>1, <2>2
<1>4. \A x \in Session : x > page.id =>
       /\ said[x] = 0 /\ up[x] = <<>> /\ down[x] = <<>> /\ socket[x] = "none" /\ proxy[x] = "none"
       /\ recogniser[x].heard = 0 /\ recogniser[x].told = 0 /\ recogniser[x].state = "none"
  BY DEF DictationInv, Unbegun
<1>5. /\ page'.id = s /\ page'.text = <<>> /\ page'.mode = "connecting" /\ page'.capture = FALSE
      /\ page'.stream = TRUE /\ page'.socket = TRUE /\ page' \in PageState
  <2>1. <<>> \in Seq(Nat)
    OBVIOUS
  <2>2. page' = [page EXCEPT !.id = s, !.mode = "connecting", !.stream = TRUE,
                               !.socket = TRUE, !.capture = FALSE, !.text = <<>>]
    BY <1>1
  <2>3. QED
    BY <1>2, <1>3, <2>1, <2>2 DEF PageState
<1>6. /\ closing' = closing /\ said' = said /\ up' = up /\ down' = down
      /\ proxy' = proxy /\ recogniser' = recogniser /\ faults' = faults
  BY <1>1 DEF servers
<1>7. /\ socket' \in [Session -> {"none", "opening", "open", "closing", "closed"}] /\ socket'[s] = "opening"
      /\ \A x \in Session : x # s => socket'[x] = socket[x]
  BY <1>1, <1>2, <1>3
<1>8. DictationTypes'
  <2>1. mic' \subseteq Session /\ crossed' \in BOOLEAN /\ tail' \in BOOLEAN /\ asking' \in 0 .. MaxSessions
    <3>1. asking' \in 0 .. MaxSessions
      <4>1. \A a, b, c \in Nat : a + b <= c => b \in 0 .. c
        OBVIOUS
      <4>2. s \in Nat /\ asking' \in Nat /\ MaxSessions \in Nat /\ s + asking' <= MaxSessions
        BY <1>3, <1>15
      <4>3. QED
        BY <4>1, <4>2, Zenon
    <3>2. QED
      BY <1>1, <1>2, <1>3, <3>1
  <2>2. page'.id \in 0 .. MaxSessions /\ page'.mode \in {"idle", "connecting", "recording", "finalizing"}
    BY <1>3, <1>5
  <2>3. DictationTypeOK'
    BY <1>2, <1>6, <1>7, <2>1, <2>2 DEF DictationTypeOK
  <2>4. QED
    BY <1>2, <1>3, <1>5, <1>6, <1>7, <2>1, <2>3 DEF DictationTypes
<1>9. Unbegun'
  <2>1. \A x \in Session : x > s => x > page.id /\ x # s
    <3>1. \A x \in Session : x \in Nat
      BY DEF Session
    <3>2. QED
      BY <1>3, <1>15, <3>1
  <2>2. page'.id + asking' <= MaxSessions
    BY <1>3, <1>5
  <2>3. QED
    BY <1>4, <1>5, <1>6, <1>7, <2>1, <2>2 DEF Unbegun
<1>10. PageAgrees'
  <2>1. <<>> = [k \in 1 .. Len(<<>>) |-> k]
    OBVIOUS
  <2>2. QED
    BY <1>5, <2>1 DEF PageAgrees
<1>11. Alone'
  <2>1. SUFFICES ASSUME ~crossed' PROVE Alone'
    BY DEF Alone
  <2>2. ~crossed /\ page.mode = "idle" /\ closing = <<>>
    BY <1>1, <1>2, <2>1
  <2>3. mic = {}
    BY <2>2 DEF DictationInv, Alone
  <2>4. mic' = {s} /\ closing' = <<>>
    BY <1>1, <1>6, <2>2, <2>3
  <2>5. QED
    BY <1>1, <1>5, <2>4 DEF Alone
<1>12. Newly(s)'
  <2>1. /\ said'[s] = 0 /\ up'[s] = <<>> /\ down'[s] = <<>> /\ socket'[s] = "opening" /\ proxy'[s] = "none"
        /\ recogniser'[s].heard = 0 /\ recogniser'[s].told = 0 /\ recogniser'[s].state = "none"
    BY <1>3, <1>4, <1>6, <1>7
  <2>2. Bridge(s)'
    BY <1>5, <2>1 DEF Bridge
  <2>3. Len(<<>>) = 0 /\ (\A i \in 1 .. 0 : FALSE) /\ (\A i \in 0 + 1 .. 0 : FALSE) /\ ~(0 < 0)
        /\ (\A i \in 0 - 0 + 1 .. 0 : FALSE) /\ (\A i \in 0 + 1 .. 0 - 0 : FALSE) /\ 0 + (0 - 0 - 0) = 0
    OBVIOUS
  <2>4. Audio(s)'
    <3>1. AudioIs(<<>>, 0)
      BY <2>3 DEF AudioIs
    <3>2. Blocks' = 0
      BY <1>1 DEF Blocks
    <3>3. AudioOf(s, 0)'
      BY <2>1, <2>3, <3>1, <3>2 DEF AudioOf
    <3>4. QED
      BY <3>3 DEF Audio
  <2>5. Shown(s)'
    <3>1. SUFFICES ASSUME Faultless(s)' PROVE Shown(s)'
      BY DEF Shown
    <3>2. ~crossed'
      BY <3>1 DEF Faultless
    <3>3. closing' = <<>>
      BY <1>1, <1>6, <3>2
    <3>4. QED
      BY <1>5, <2>1, <3>3 DEF Shown, Live
  <2>6. Letters(s)'
    <3>1. LettersAre(<<>>, 0, 0, 0, 0)
      BY <2>3 DEF LettersAre
    <3>2. LettersOf(s, 0, 0)'
      BY <1>5, <2>1, <2>3, <3>1 DEF LettersOf
    <3>3. QED
      BY <3>2 DEF Letters
  <2>7. Len(page'.text) <= recogniser'[s].told
    BY <1>5, <2>1, <2>3
  <2>8. QED
    BY <2>1, <2>2, <2>4, <2>5, <2>6, <2>7 DEF Newly
<1>13. ASSUME NEW x \in Session, x = page'.id PROVE Newly(x)'
  <2>1. x = s
    BY <1>5, <1>13
  <2>2. QED
    BY <1>12, <2>1
<1>14. QED
  BY <1>8, <1>9, <1>10, <1>11, <1>13 DEF DictationInv


\* The first of what is on its way to the page, as a step takes it.
TakenOf(letters, rest, greeting, ending, low, high) ==
    \/ /\ greeting > 0 /\ LettersAre(rest, greeting - 1, ending, low, high)
       /\ letters[1].type = "connected" \/ (letters[1].type = "ready" /\ greeting = 1)
    \/ /\ greeting = 0 /\ LettersAre(rest, 0, ending, low + 1, high)
       /\ letters[1].type = "final" /\ letters[1].piece = low + 1 /\ low + 1 <= high
    \/ /\ greeting = 0 /\ low = high /\ ending > 0 /\ LettersAre(rest, 0, ending - 1, low, high)
       /\ letters[1].type \in (IF ending = 1 THEN {"close"} ELSE {"error", "finished"})

\* A message is taken of what is on its way to the page.
LEMMA Takes ==
  ASSUME DictationInv, NEW x \in Session, down[x] # <<>>, down' = [down EXCEPT ![x] = Tail(@)]
  PROVE  /\ down' \in [Session -> Seq(Messages)] /\ (\A s \in Session \ {x} : down'[s] = down[s])
         /\ Head(down[x]) = down[x][1] /\ down[x][1] \in Messages
         /\ \A i \in 1 .. Len(down'[x]) : down'[x][i].type = "error" =>
              i + 1 \in 1 .. Len(down[x]) /\ down[x][i + 1].type = "error"
         /\ Len(down'[x]) = Len(down[x]) - 1 /\ Len(down[x]) \in Nat \ {0}
         /\ \A i \in 1 .. Len(down[x]) - 1 : down'[x][i] = down[x][i + 1]
         /\ \A greeting, ending \in 0 .. 2, low, high \in Nat :
              LettersAre(down[x], greeting, ending, low, high) =>
              TakenOf(down[x], down'[x], greeting, ending, low, high)
<1>1. down \in [Session -> Seq(Messages)]
  BY DEF DictationInv, DictationTypes
<1>2. down[x] \in Seq(Messages)
  BY <1>1
<1> DEFINE letters == down[x]
           rest == Tail(down[x])
<1>3. /\ rest \in Seq(Messages) /\ Head(letters) = letters[1] /\ letters[1] \in Messages
      /\ Len(letters) \in Nat \ {0} /\ Len(rest) = Len(letters) - 1
      /\ \A i \in 1 .. Len(letters) - 1 : rest[i] = letters[i + 1]
  BY <1>2, FirstTaken
<1>4. down' = [down EXCEPT ![x] = rest]
  OBVIOUS
<1> HIDE DEF rest
<1>5. down' \in [Session -> Seq(Messages)] /\ down'[x] = rest /\ \A s \in Session \ {x} : down'[s] = down[s]
  BY <1>1, <1>3, <1>4
<1> HIDE DEF letters
<1>6. ASSUME NEW greeting \in 0 .. 2, NEW ending \in 0 .. 2, NEW low \in Nat, NEW high \in Nat,
             LettersAre(letters, greeting, ending, low, high)
      PROVE  TakenOf(letters, rest, greeting, ending, low, high)
  <2>1. \/ /\ greeting > 0 /\ LettersAre(rest, greeting - 1, ending, low, high)
           /\ letters[1].type = "connected" \/ (letters[1].type = "ready" /\ greeting = 1)
        \/ /\ greeting = 0 /\ LettersAre(rest, 0, ending, low + 1, high)
           /\ letters[1].type = "final" /\ letters[1].piece = low + 1 /\ low + 1 <= high
        \/ /\ greeting = 0 /\ low = high /\ ending > 0 /\ LettersAre(rest, 0, ending - 1, low, high)
           /\ letters[1].type \in (IF ending = 1 THEN {"close"} ELSE {"error", "finished"})
    BY <1>3, <1>6, LettersTaken
  <2>2. QED
    BY <2>1 DEF TakenOf
<1>7. ASSUME NEW i \in 1 .. Len(rest), rest[i].type = "error"
      PROVE  i + 1 \in 1 .. Len(letters) /\ letters[i + 1].type = "error"
  <2>1. i \in 1 .. Len(letters) - 1 /\ i + 1 \in 1 .. Len(letters)
    BY <1>3
  <2>2. QED
    BY <1>3, <1>7, <2>1
<1>8. letters = down[x]
  BY DEF letters
<1>9. QED
  BY <1>3, <1>5, <1>6, <1>7, <1>8


\* A message that changes the page's state only.
LEMMA MessageNewly ==
  ASSUME DictationInv, NEW x \in Session, x = page.id, socket[x] = "open",
         UNCHANGED <<closing, mic, said, tail, up, socket, servers, crossed>>,
         page'.stream = page.stream, page.capture => page'.capture,
         page'.capture => recogniser[x].state \notin {"none", "starting"},
         Len(page'.text) \in Nat, Len(page.text) <= Len(page'.text), Len(page'.text) <= recogniser[x].told,
         Letters(x)'
  PROVE  Newly(x)'
<1>1. /\ closing' = closing /\ mic' = mic /\ said' = said /\ tail' = tail /\ crossed' = crossed
      /\ up' = up /\ socket' = socket /\ proxy' = proxy /\ recogniser' = recogniser /\ faults' = faults
  BY DEF servers
<1>2. Newly(x)
  BY DEF DictationInv
<1>3. /\ Len(page.text) \in Nat /\ said[x] \in Nat /\ recogniser[x].told \in Nat /\ recogniser[x].heard \in Nat
      /\ Len(page.text) <= recogniser[x].told /\ recogniser[x].told <= recogniser[x].heard
      /\ recogniser[x].heard + Blocks <= said[x] /\ Blocks \in {0, 1}
  BY ShownSaid
<1>4. (Live(x)' <=> Live(x)) /\ (Faultless(x)' <=> Faultless(x)) /\ Blocks' = Blocks
  BY <1>1 DEF Live, Faultless, Blocks
<1>5. Bridge(x)'
  BY <1>1, <1>2, <1>4 DEF Newly, Bridge
<1>6. Audio(x)'
  <2>1. PICK n \in Nat : AudioOf(x, n)
    BY <1>2 DEF Newly, Audio
  <2>2. AudioOf(x, n)'
    BY <1>1, <1>4, <2>1 DEF AudioOf
  <2>3. QED
    BY <2>2 DEF Audio
<1>7. Len(page.text) = said[x] => Len(page'.text) = said[x]
  BY <1>3
<1>8. Shown(x)'
  BY <1>1, <1>2, <1>4, <1>7 DEF Newly, Shown
<1>9. QED
  BY <1>1, <1>2, <1>5, <1>6, <1>8 DEF Newly

\* The page handles what the proxy has sent, or drops what an earlier
\* session's has.
LEMMA ReceiveStep ==
  ASSUME DictationInv, NEW x \in Session, Receive(x)
  PROVE  DictationInv'
<1>1. /\ socket[x] = "open" /\ down[x] # <<>> /\ Head(down[x]).type # "close"
      /\ down' = [down EXCEPT ![x] = Tail(@)]
      /\ IF Newest(x) THEN Handle(Head(down[x])) ELSE UNCHANGED <<pageVars, up, socket>>
      /\ UNCHANGED <<asking, servers, crossed>>
  BY DEF Receive
<1>2. x <= page.id
  BY <1>1, Kept
<1>3. down[x] # <<>> /\ down' = [down EXCEPT ![x] = Tail(@)]
  BY <1>1
<1>4. /\ down' \in [Session -> Seq(Messages)] /\ \A s \in Session \ {x} : down'[s] = down[s]
      /\ Head(down[x]) = down[x][1] /\ down[x][1] \in Messages
      /\ Len(down'[x]) = Len(down[x]) - 1 /\ Len(down[x]) \in Nat \ {0}
  BY <1>3, Takes
<1>5. /\ crossed' = crossed /\ asking' = asking /\ proxy' = proxy /\ recogniser' = recogniser /\ faults' = faults
  BY <1>1 DEF servers
<1>6. /\ up \in [Session -> Seq({"audio", "finish", "close"})]
      /\ socket \in [Session -> {"none", "opening", "open", "closing", "closed"}]
      /\ proxy \in [Session -> {"none", "dialing", "bridging", "finishing", "over"}]
      /\ recogniser \in [Session -> [state : {"none", "starting", "running", "finishing", "over"},
                                        heard : Nat, told : Nat]]
      /\ recogniser[x].told <= recogniser[x].heard /\ faults \subseteq Session
  BY Kept
<1>7. CASE ~Newest(x)
  <2>1. UNCHANGED <<pageVars, asking, crossed>> /\ up' = up /\ socket' = socket /\ x # page.id
    BY <1>1, <1>7 DEF Newest
  <2>2. /\ up' \in [Session -> Seq({"audio", "finish", "close"})]
        /\ socket' \in [Session -> {"none", "opening", "open", "closing", "closed"}]
        /\ proxy' \in [Session -> {"none", "dialing", "bridging", "finishing", "over"}]
        /\ recogniser' \in [Session -> [state : {"none", "starting", "running", "finishing", "over"},
                                        heard : Nat, told : Nat]]
        /\ recogniser'[x].told <= recogniser'[x].heard /\ faults' \subseteq Session
    BY <1>5, <1>6, <2>1
  <2>3. \A s \in Session \ {x} :
            /\ up'[s] = up[s] /\ down'[s] = down[s] /\ socket'[s] = socket[s]
            /\ proxy'[s] = proxy[s] /\ recogniser'[s] = recogniser[s] /\ (s \in faults' <=> s \in faults)
    BY <1>4, <1>5, <2>1
  <2>4. down' \in [Session -> Seq(Messages)] /\ UNCHANGED <<pageVars, asking, crossed>> /\ (x = page.id => Newly(x)')
    BY <1>4, <2>1
  <2>5. QED
    BY <1>2, <2>2, <2>3, <2>4, ServerStep
<1>8. CASE Newest(x)
  <2>1. x = page.id /\ Handle(Head(down[x]))
    BY <1>1, <1>8 DEF Newest
  <2>2. Newly(x) /\ Live(x) /\ PageAgrees /\ Alone
    BY <1>1, <2>1 DEF DictationInv, Live
  <2>3. PICK greeting \in 0 .. 2, ending \in 0 .. 2 : LettersOf(x, greeting, ending)
    BY <2>2 DEF Newly, Letters
  <2>4. /\ page \in PageState /\ Len(page.text) \in Nat /\ said[x] \in Nat /\ recogniser[x].told \in Nat
        /\ recogniser[x].heard \in Nat /\ Len(page.text) <= recogniser[x].told
        /\ recogniser[x].told <= recogniser[x].heard /\ recogniser[x].heard + Blocks <= said[x] /\ Blocks \in {0, 1}
    BY <2>1, ShownSaid
  <2> DEFINE low == Len(page.text)
             high == recogniser[x].told
             head == down[x][1]
  <2>5. TakenOf(down[x], down'[x], greeting, ending, low, high)
    <3>1. LettersAre(down[x], greeting, ending, low, high)
      BY <2>3 DEF LettersOf
    <3> HIDE DEF low, high
    <3>2. low \in Nat /\ high \in Nat
      BY <2>4 DEF low, high
    <3>3. \A g, e \in 0 .. 2, a, b \in Nat :
              LettersAre(down[x], g, e, a, b) => TakenOf(down[x], down'[x], g, e, a, b)
      BY <1>3, Takes
    <3>4. QED
      BY <3>1, <3>2, <3>3, Zenon
  <2>6. \A i \in 1 .. Len(down'[x]) : down'[x][i].type = "error" => x \in faults'
    <3>1. \A i \in 1 .. Len(down'[x]) : down'[x][i].type = "error" =>
              i + 1 \in 1 .. Len(down[x]) /\ down[x][i + 1].type = "error"
      BY <1>3, Takes
    <3>2. \A i \in 1 .. Len(down[x]) : down[x][i].type = "error" => x \in faults
      BY <2>3 DEF LettersOf
    <3>3. QED
      BY <1>5, <3>1, <3>2
  <2>7. down[x] # <<>> => proxy[x] \notin {"none", "dialing"}
    BY <2>3 DEF LettersOf
  <2>8. recogniser[x].state # "none" /\ proxy[x] \notin {"none", "dialing"}
    BY <1>1, <2>2, <2>7 DEF Newly, Bridge
  <2>9. \A s \in Session : s > page.id => s \in Session \ {x}
    <3>1. page.id \in Nat
      BY <2>4, DictationAssumption DEF PageState
    <3>2. QED
      BY <2>1, <3>1
  <2>10. /\ mic \subseteq Session /\ said \in [Session -> Nat] /\ tail \in BOOLEAN
         /\ page.id + asking <= MaxSessions /\ asking \in Nat /\ crossed \in BOOLEAN
         /\ closing \in Seq([kind : {"abort", "finish"}, socket : 0 .. MaxSessions])
    BY DEF DictationInv, DictationTypes, DictationTypeOK, Unbegun
  <2>11. ASSUME UNCHANGED <<closing, mic, said, tail, up, socket>>,
                page' \in PageState, page'.id = page.id, PageAgrees', Alone', Newly(x)'
         PROVE  DictationInv'
    <3>1. /\ closing' = closing /\ mic' = mic /\ said' = said /\ tail' = tail /\ up' = up /\ socket' = socket
      BY <2>11
    <3>2. \A s \in Session : s > page.id =>
            said'[s] = said[s] /\ up'[s] = up[s] /\ down'[s] = down[s] /\ socket'[s] = socket[s]
      BY <1>4, <2>9, <3>1
    <3>3. /\ asking' \in Nat /\ page.id + asking' <= MaxSessions /\ tail' \in BOOLEAN /\ crossed' \in BOOLEAN
          /\ mic' \subseteq Session /\ said' \in [Session -> Nat]
          /\ closing' \in Seq([kind : {"abort", "finish"}, socket : 0 .. MaxSessions])
          /\ up' \in [Session -> Seq({"audio", "finish", "close"})]
          /\ socket' \in [Session -> {"none", "opening", "open", "closing", "closed"}]
      BY <1>5, <1>6, <2>10, <3>1
    <3>4. \A s \in Session : s = page.id => Newly(s)'
      BY <2>1, <2>11
    <3>5. UNCHANGED servers
      BY <1>1
    <3>6. QED
      BY <1>4, <2>11, <3>2, <3>3, <3>4, <3>5, PageStep
  <2>12. CASE /\ head.type = "connected" /\ page' = [page EXCEPT !.mode = "connecting"]
              /\ UNCHANGED <<closing, mic, said, tail, up, socket>>
    <3>1. greeting > 0 /\ LettersAre(down'[x], greeting - 1, ending, low, high)
      BY <2>5, <2>12 DEF TakenOf
    <3>2. /\ page' \in PageState /\ page'.id = page.id /\ page'.text = page.text /\ page'.mode = "connecting"
          /\ page'.capture = page.capture /\ page'.stream = page.stream /\ page'.socket = page.socket
      BY <2>4, <2>12 DEF PageState
    <3>3. ~page.capture
      BY <2>3, <3>1 DEF LettersOf
    <3>4. /\ closing' = closing /\ mic' = mic /\ said' = said /\ tail' = tail /\ up' = up /\ socket' = socket
      BY <2>12
    <3>5. PageAgrees' /\ Alone'
      BY <1>5, <2>2, <3>2, <3>3, <3>4 DEF PageAgrees, Alone
    <3> DEFINE less == greeting - 1
    <3>6. less \in 0 .. 2
      BY <3>1
    <3>7. recogniser[x].state = "starting" =>
            Len(down'[x]) = less /\ \A i \in 1 .. less : down'[x][i].type # "ready"
      <4>1. SUFFICES ASSUME recogniser[x].state = "starting"
                     PROVE  Len(down'[x]) = less /\ \A i \in 1 .. less : down'[x][i].type # "ready"
        OBVIOUS
      <4>2. Len(down[x]) = greeting /\ \A i \in 1 .. greeting : down[x][i].type # "ready"
        BY <2>3, <4>1 DEF LettersOf
      <4>3. \A i \in 1 .. Len(down[x]) - 1 : down'[x][i] = down[x][i + 1]
        BY <1>3, Takes
      <4>4. \A i \in 1 .. less : i \in 1 .. Len(down[x]) - 1 /\ i + 1 \in 1 .. greeting
        BY <4>2
      <4>5. QED
        BY <1>4, <4>2, <4>3, <4>4
    <3>8. LettersAre(down'[x], less, ending, low, high)
      BY <3>1
    <3> HIDE DEF less
    <3>9. LettersOf(x, less, ending)'
      BY <1>5, <2>3, <2>6, <2>8, <3>2, <3>3, <3>4, <3>7, <3>8 DEF LettersOf, Faultless
    <3>10. Letters(x)'
      BY <3>6, <3>9 DEF Letters
    <3>11. UNCHANGED <<closing, mic, said, tail, up, socket, servers, crossed>>
      BY <1>1, <3>4
    <3>12. Newly(x)'
      <4>1. Len(page'.text) = Len(page.text) /\ ~page'.capture
        BY <3>2, <3>3
      <4>2. Len(page'.text) \in Nat /\ Len(page.text) <= Len(page'.text) /\ Len(page'.text) <= recogniser[x].told
        BY <2>4, <4>1
      <4>3. QED
        BY <1>1, <2>1, <3>2, <3>3, <3>10, <3>11, <4>1, <4>2, MessageNewly
    <3>13. QED
      BY <2>11, <3>2, <3>4, <3>5, <3>12
  <2>13. CASE /\ head.type = "ready" /\ page' = [page EXCEPT !.mode = "recording", !.capture = page.stream]
              /\ UNCHANGED <<closing, mic, said, tail, up, socket>>
    <3>1. greeting = 1 /\ LettersAre(down'[x], greeting - 1, ending, low, high)
      BY <2>5, <2>13 DEF TakenOf
    <3>2. /\ page' \in PageState /\ page'.id = page.id /\ page'.text = page.text /\ page'.mode = "recording"
          /\ page'.capture = page.stream /\ page'.stream = page.stream /\ page'.socket = page.socket
      BY <2>4, <2>13 DEF PageState
    <3>3. ~page.capture /\ recogniser[x].state # "starting"
      <4>1. ~page.capture
        BY <2>3, <3>1 DEF LettersOf
      <4>2. recogniser[x].state = "starting" => \A i \in 1 .. greeting : down[x][i].type # "ready"
        BY <2>3 DEF LettersOf
      <4>3. 1 \in 1 .. greeting
        BY <3>1
      <4>4. QED
        BY <2>13, <4>1, <4>2, <4>3
    <3>4. /\ closing' = closing /\ mic' = mic /\ said' = said /\ tail' = tail /\ up' = up /\ socket' = socket
      BY <2>13
    <3>5. PageAgrees' /\ Alone'
      BY <1>5, <2>2, <3>2, <3>3, <3>4 DEF PageAgrees, Alone
    <3>6. LettersAre(down'[x], 0, ending, low, high)
      <4>1. greeting - 1 = 0
        BY <3>1
      <4>2. QED
        BY <3>1, <4>1
    <3>7. LettersOf(x, 0, ending)'
      BY <1>5, <2>3, <2>6, <2>8, <3>2, <3>3, <3>4, <3>6 DEF LettersOf, Faultless
    <3>8. Letters(x)'
      BY <3>7 DEF Letters
    <3>9. UNCHANGED <<closing, mic, said, tail, up, socket, servers, crossed>>
      BY <1>1, <3>4
    <3>10. Newly(x)'
      <4>1. Len(page'.text) = Len(page.text) /\ recogniser[x].state \notin {"none", "starting"}
        BY <2>8, <3>2, <3>3
      <4>2. Len(page'.text) \in Nat /\ Len(page.text) <= Len(page'.text) /\ Len(page'.text) <= recogniser[x].told
        BY <2>4, <4>1
      <4>3. QED
        BY <1>1, <2>1, <3>2, <3>3, <3>8, <3>9, <4>1, <4>2, MessageNewly
    <3>11. QED
      BY <2>11, <3>2, <3>4, <3>5, <3>10
  <2>14. CASE /\ head.type = "final" /\ page' = [page EXCEPT !.text = Append(@, head.piece)]
              /\ UNCHANGED <<closing, mic, said, tail, up, socket>>
    <3>1. greeting = 0 /\ LettersAre(down'[x], 0, ending, low + 1, high) /\ head.piece = low + 1 /\ low + 1 <= high
      BY <2>5, <2>14 DEF TakenOf
    <3>2. page.text \in Seq(Nat) /\ low \in Nat
      BY <2>4 DEF PageState
    <3>3. Append(page.text, low + 1) \in Seq(Nat) /\ Len(Append(page.text, low + 1)) = low + 1
          /\ Append(page.text, low + 1) = [k \in 1 .. low + 1 |-> k]
      <4>1. page.text = [k \in 1 .. low |-> k]
        BY <2>2 DEF PageAgrees
      <4>2. low + 1 \in Nat
        BY <3>2
      <4>3. Append(page.text, low + 1) \in Seq(Nat) /\ Len(Append(page.text, low + 1)) = low + 1
        BY <3>2, <4>2
      <4>4. \A i \in 1 .. low + 1 : Append(page.text, low + 1)[i] = i
        <5>1. \A i \in 1 .. low : Append(page.text, low + 1)[i] = page.text[i]
          BY <3>2, <4>2
        <5>2. Append(page.text, low + 1)[low + 1] = low + 1
          BY <3>2, <4>2
        <5>3. \A i \in 1 .. low + 1 : i \in 1 .. low \/ i = low + 1
          BY <3>2
        <5>4. \A i \in 1 .. low : page.text[i] = i
          BY <4>1
        <5>5. QED
          BY <5>1, <5>2, <5>3, <5>4
      <4> DEFINE all == Append(page.text, low + 1)
      <4>5. all \in Seq(Nat) /\ Len(all) = low + 1 /\ \A i \in 1 .. low + 1 : all[i] = i
        BY <4>3, <4>4
      <4> HIDE DEF all
      <4>6. all = [k \in 1 .. low + 1 |-> k]
        <5>1. DOMAIN all = 1 .. low + 1 /\ all = [k \in DOMAIN all |-> all[k]]
          BY <4>5
        <5>2. QED
          BY <4>5, <5>1
      <4>7. QED
        BY <4>5, <4>6 DEF all
    <3> DEFINE next == low + 1
    <3>4. next \in Nat /\ low <= next /\ next <= high
      BY <3>1, <3>2
    <3>5. /\ page' \in PageState /\ page'.id = page.id /\ page'.mode = page.mode
          /\ page'.capture = page.capture /\ page'.stream = page.stream /\ page'.socket = page.socket
          /\ Len(page'.text) = next /\ page'.text = [k \in 1 .. next |-> k]
      <4> DEFINE all == Append(page.text, low + 1)
      <4>1. page' = [page EXCEPT !.text = all]
        BY <2>14, <3>1
      <4>2. all \in Seq(Nat) /\ Len(all) = next /\ all = [k \in 1 .. next |-> k]
        BY <3>3
      <4> HIDE DEF all, next
      <4>3. page'.text = all /\ page' \in PageState /\ page'.id = page.id /\ page'.mode = page.mode
            /\ page'.capture = page.capture /\ page'.stream = page.stream /\ page'.socket = page.socket
        BY <2>4, <4>1, <4>2 DEF PageState
      <4>4. QED
        BY <4>2, <4>3
    <3>6. /\ closing' = closing /\ mic' = mic /\ said' = said /\ tail' = tail /\ up' = up /\ socket' = socket
      BY <2>14
    <3>7. LettersAre(down'[x], 0, ending, next, high)
      BY <3>1
    <3> HIDE DEF next
    <3>8. PageAgrees' /\ Alone'
      <4>1. page'.text = [k \in 1 .. Len(page'.text) |-> k]
        BY <3>5
      <4>2. QED
        BY <1>5, <2>2, <3>5, <3>6, <4>1 DEF PageAgrees, Alone
    <3>9. recogniser[x].state # "starting"
      <4>1. recogniser[x].state = "starting" => Len(down[x]) = 0
        BY <2>3, <3>1 DEF LettersOf
      <4>2. QED
        BY <1>4, <4>1
    <3>10. Len(page.text) = said[x] => FALSE
      <4>1. Len(page.text) + 1 <= recogniser[x].told
        BY <3>1
      <4>2. QED
        BY <2>4, <4>1
    <3>11. LettersOf(x, 0, ending)'
      BY <1>5, <2>3, <2>6, <2>8, <3>5, <3>6, <3>7, <3>9, <3>10 DEF LettersOf, Faultless
    <3>12. Letters(x)'
      BY <3>11 DEF Letters
    <3>13. UNCHANGED <<closing, mic, said, tail, up, socket, servers, crossed>>
      BY <1>1, <3>6
    <3>14. Newly(x)'
      <4>1. Len(page'.text) \in Nat /\ Len(page.text) <= Len(page'.text) /\ Len(page'.text) <= recogniser[x].told
        BY <3>4, <3>5
      <4>2. page'.capture => recogniser[x].state \notin {"none", "starting"}
        BY <2>8, <3>9
      <4>3. QED
        BY <1>1, <2>1, <3>5, <3>12, <3>13, <4>1, <4>2, MessageNewly
    <3>15. QED
      BY <2>11, <3>5, <3>6, <3>8, <3>14
  <2>15. CASE \E kind \in {"abort", "finish"} : EndAndClose(kind) /\ head.type = IF kind = "abort" THEN "error" ELSE "finished"
    <3>1. PICK kind \in {"abort", "finish"} : EndAndClose(kind) /\ head.type = IF kind = "abort" THEN "error" ELSE "finished"
      BY <2>15
    <3>2. head.type \in {"error", "finished"} /\ (head.type = "error" => x \in faults)
      <4>1. 1 \in 1 .. Len(down[x])
        BY <1>4
      <4>2. QED
        BY <2>3, <3>1, <4>1 DEF LettersOf
    <3>3. /\ greeting = 0 /\ low = high /\ ending > 0 /\ LettersAre(down'[x], 0, ending - 1, low, high)
          /\ head.type \in (IF ending = 1 THEN {"close"} ELSE {"error", "finished"})
      BY <2>5, <3>2 DEF TakenOf
    <3>4. ending = 2 /\ ending - 1 = 1 /\ proxy[x] = "over"
      BY <2>3, <3>2, <3>3 DEF LettersOf
    <3>5. Faultless(x) => Len(page.text) = said[x]
      <4>1. Faultless(x) => recogniser[x].heard = said[x] /\ recogniser[x].told = recogniser[x].heard
        BY <2>2, <3>4 DEF Newly, Shown
      <4>2. QED
        BY <3>3, <4>1
    <3>6. LettersAre(down'[x], 0, 1, Len(page.text), recogniser[x].told)
      BY <3>3, <3>4
    <3>7. EndSession(kind) /\ socket' = socket
      BY <3>1, EndsOnly
    <3>8. page'.text = page.text /\ page'.capture = page.capture /\ said' = said
      <4>1. DictationTypes
        BY DEF DictationInv
      <4>2. QED
        BY <2>2, <3>7, <4>1, SessionEnds
    <3>9. recogniser[x].state # "starting"
      <4>1. recogniser[x].state = "starting" => Len(down[x]) = 0
        BY <2>3, <3>3 DEF LettersOf
      <4>2. QED
        BY <1>4, <4>1
    <3>10. LettersOf(x, 0, 1)'
      BY <1>5, <2>6, <2>8, <3>4, <3>5, <3>6, <3>8, <3>9 DEF LettersOf, Faultless
    <3>11. Letters(x)'
      BY <3>10 DEF Letters
    <3>12. \A s \in Session : s = page.id => (Faultless(s) /\ ~crossed' => Len(page.text) = said[s])
      BY <2>1, <3>5
    <3>13. \A s \in Session : s = page.id /\ Live(s)' => Letters(s)'
      BY <2>1, <3>11
    <3>14. \A s \in Session : s > page.id => down'[s] = down[s]
      BY <1>4, <2>9
    <3>15. crossed' \in BOOLEAN /\ (crossed => crossed') /\ UNCHANGED servers /\ asking' \in Nat /\ page.id + asking' <= MaxSessions
      BY <1>1, <1>5, <2>10
    <3>16. QED
      BY <1>4, <3>1, <3>12, <3>13, <3>14, <3>15, Ending
  <2>16. QED
    BY <1>4, <2>1, <2>12, <2>13, <2>14, <2>15 DEF Handle
<1>9. QED
  BY <1>7, <1>8


\* A socket has closed, or drops what its session still brings.
LEMMA ClosedStep ==
  ASSUME DictationInv, NEW x \in Session, Closed(x)
  PROVE  DictationInv'
<1>1. /\ socket[x] \in {"open", "closing"} /\ down[x] # <<>>
      /\ Head(down[x]).type # "close" => socket[x] = "closing"
      /\ down' = [down EXCEPT ![x] = Tail(@)]
      /\ IF Head(down[x]).type # "close" THEN UNCHANGED <<pageVars, socket>>
         ELSE /\ socket' = [socket EXCEPT ![x] = "closed"]
              /\ \/ (~Newest(x) \/ page.mode = "idle") /\ UNCHANGED pageVars
                 \/ Newest(x) /\ page.mode \in {"recording", "connecting"} /\ EndSession("abort")
                 \/ Newest(x) /\ page.mode = "finalizing" /\ EndSession("finish")
      /\ UNCHANGED <<asking, up, servers, crossed>>
  BY DEF Closed
<1>2. x <= page.id
  BY <1>1, Kept
<1>3. down[x] # <<>> /\ down' = [down EXCEPT ![x] = Tail(@)]
  BY <1>1
<1>4. /\ down' \in [Session -> Seq(Messages)] /\ \A s \in Session \ {x} : down'[s] = down[s]
      /\ Head(down[x]) = down[x][1]
  BY <1>3, Takes
<1>5. /\ crossed' = crossed /\ asking' = asking /\ proxy' = proxy /\ recogniser' = recogniser /\ faults' = faults
      /\ up' = up
  BY <1>1 DEF servers
<1>6. /\ up \in [Session -> Seq({"audio", "finish", "close"})]
      /\ socket \in [Session -> {"none", "opening", "open", "closing", "closed"}]
      /\ proxy \in [Session -> {"none", "dialing", "bridging", "finishing", "over"}]
      /\ recogniser \in [Session -> [state : {"none", "starting", "running", "finishing", "over"},
                                        heard : Nat, told : Nat]]
      /\ recogniser[x].told <= recogniser[x].heard /\ faults \subseteq Session
  BY Kept
<1>7. /\ up' \in [Session -> Seq({"audio", "finish", "close"})]
      /\ proxy' \in [Session -> {"none", "dialing", "bridging", "finishing", "over"}]
      /\ recogniser' \in [Session -> [state : {"none", "starting", "running", "finishing", "over"},
                                        heard : Nat, told : Nat]]
      /\ recogniser'[x].told <= recogniser'[x].heard /\ faults' \subseteq Session
  BY <1>5, <1>6
<1>8. socket' \in [Session -> {"none", "opening", "open", "closing", "closed"}] /\ \A s \in Session \ {x} : socket'[s] = socket[s]
  <2>1. CASE socket' = socket
    BY <1>6, <2>1
  <2>2. CASE socket' = [socket EXCEPT ![x] = "closed"]
    BY <1>6, <2>2
  <2>3. QED
    BY <1>1, <2>1, <2>2
<1>9. ASSUME x = page.id, Head(down[x]).type = "close", Faultless(x)
      PROVE  Len(page.text) = said[x] /\ x \notin mic /\ ~tail
  <2>1. Newly(x)
    BY <1>9 DEF DictationInv
  <2>2. CASE ~Live(x)
    BY <1>9, <2>1, <2>2 DEF Newly, Shown
  <2>3. CASE Live(x)
    <3>1. PICK greeting \in 0 .. 2, ending \in 0 .. 2 : LettersOf(x, greeting, ending)
      BY <2>1, <2>3 DEF Newly, Letters
    <3> DEFINE low == Len(page.text)
               high == recogniser[x].told
    <3>2. LettersAre(down[x], greeting, ending, low, high)
      BY <3>1 DEF LettersOf
    <3>3. low \in Nat /\ high \in Nat
      BY <1>9, ShownSaid
    <3> HIDE DEF low, high
    <3>4. \A g, e \in 0 .. 2, a, b \in Nat :
              LettersAre(down[x], g, e, a, b) => TakenOf(down[x], down'[x], g, e, a, b)
      BY <1>3, Takes
    <3>5. TakenOf(down[x], down'[x], greeting, ending, low, high)
      BY <3>2, <3>3, <3>4, Zenon
    <3>6. down[x][1].type = "close"
      BY <1>4, <1>9
    <3>7. ending = 1
      BY <3>5, <3>6 DEF TakenOf
    <3>8. proxy[x] = "over" /\ Len(page.text) = said[x]
      BY <1>9, <3>1, <3>7 DEF LettersOf
    <3>9. QED
      BY <1>9, <2>1, <2>3, <3>8 DEF Newly, Shown
  <2>4. QED
    BY <2>2, <2>3
<1>10. CASE UNCHANGED pageVars
  <2>1. /\ page' = page /\ closing' = closing /\ mic' = mic /\ said' = said /\ tail' = tail
    BY <1>10 DEF pageVars
  <2>2. ASSUME x = page.id PROVE Newly(x)'
    <3>1. Newly(x)
      BY <2>2 DEF DictationInv
    <3>2. \/ Head(down[x]).type # "close" /\ socket[x] = "closing" /\ socket' = socket
          \/ Head(down[x]).type = "close" /\ socket'[x] = "closed" /\ page.mode = "idle"
      <4>1. page.mode \in {"recording", "connecting", "finalizing"} /\ Head(down[x]).type = "close" => page'.mode = "idle"
        <5>1. DictationTypes /\ PageAgrees
          BY DEF DictationInv
        <5>2. \A kind \in {"abort", "finish"} : EndSession(kind) => page'.mode = "idle"
          BY <5>1, SessionEnds
        <5>3. QED
          BY <1>1, <2>2, <5>2 DEF Newest
      <4>2. page.mode \in {"recording", "connecting", "finalizing", "idle"}
        BY DEF DictationInv, DictationTypes, PageState
      <4>3. QED
        BY <1>1, <1>6, <2>1, <4>1, <4>2
    <3>3. ~Live(x)' /\ (Faultless(x)' <=> Faultless(x)) /\ Blocks' = Blocks
      BY <1>5, <2>1, <3>2 DEF Live, Faultless, Blocks
    <3>4. socket'[x] \in {"closing", "closed"} /\ (socket'[x] = "closed" => page.mode = "idle")
      BY <3>2
    <3>5. Bridge(x)'
      BY <1>5, <2>1, <3>1, <3>3, <3>4 DEF Newly, Bridge
    <3>6. Audio(x)'
      <4>1. PICK n \in Nat : AudioOf(x, n)
        BY <3>1 DEF Newly, Audio
      <4>2. AudioOf(x, n)'
        BY <1>5, <2>1, <3>3, <3>4, <4>1 DEF AudioOf
      <4>3. QED
        BY <4>2 DEF Audio
    <3>7. ASSUME Faultless(x) PROVE Len(page.text) = said[x] /\ x \notin mic /\ ~tail
      <4>1. CASE Head(down[x]).type = "close"
        BY <1>9, <2>2, <3>7, <4>1
      <4>2. CASE Head(down[x]).type # "close"
        BY <1>1, <3>1, <3>7, <4>2 DEF Newly, Shown, Live
      <4>3. QED
        BY <4>1, <4>2
    <3>8. Shown(x)'
      BY <1>5, <2>1, <3>1, <3>3, <3>7 DEF Newly, Shown
    <3>9. QED
      BY <1>5, <2>1, <3>1, <3>3, <3>4, <3>5, <3>6, <3>8 DEF Newly
  <2>3. \A s \in Session \ {x} :
            /\ up'[s] = up[s] /\ down'[s] = down[s] /\ socket'[s] = socket[s]
            /\ proxy'[s] = proxy[s] /\ recogniser'[s] = recogniser[s] /\ (s \in faults' <=> s \in faults)
    BY <1>4, <1>5, <1>8
  <2>4. UNCHANGED <<pageVars, asking, crossed>> /\ down' \in [Session -> Seq(Messages)]
    BY <1>4, <1>5, <1>10
  <2>5. QED
    BY <1>2, <1>7, <1>8, <2>2, <2>3, <2>4, ServerStep
<1>11. ASSUME NEW kind \in {"abort", "finish"}, EndSession(kind), x = page.id, Head(down[x]).type = "close"
       PROVE  DictationInv'
  <2>1. DictationTypes /\ PageAgrees
    BY DEF DictationInv
  <2>2. /\ page' \in PageState /\ page'.id = page.id
        /\ closing' \in Seq([kind : {"abort", "finish"}, socket : 0 .. MaxSessions])
        /\ mic' \subseteq mic /\ tail' = FALSE /\ said' = said
    BY <1>11, <2>1, SessionEnds
  <2>3. socket'[x] = "closed"
    BY <1>1, <1>6, <1>11
  <2>4. PageAgrees' /\ Alone'
    BY <1>5, <1>11, EndsWell
  <2>5. Newly(x)'
    <3>1. Faultless(x) => Len(page.text) = said[x]
      BY <1>9, <1>11
    <3>2. ~Live(x)'
      BY <2>3 DEF Live
    <3>3. up'[x] = up[x] /\ (crossed => crossed') /\ UNCHANGED servers /\ socket'[x] \in {socket[x], "closed"}
      BY <1>1, <1>5, <2>3
    <3>4. QED
      BY <1>11, <3>1, <3>2, <3>3, EndsNewly
  <2>6. \A s \in Session : s = page.id => Newly(s)'
    BY <1>11, <2>5
  <2>7. \A s \in Session : s > page.id => s \in Session \ {x}
    <3>1. page.id \in Nat
      BY <2>1, DictationAssumption DEF DictationTypes, PageState
    <3>2. QED
      BY <1>11, <3>1
  <2>8. \A s \in Session : s > page.id =>
            said'[s] = said[s] /\ up'[s] = up[s] /\ down'[s] = down[s] /\ socket'[s] = socket[s]
    BY <1>4, <1>5, <1>8, <2>2, <2>7
  <2>9. /\ asking \in Nat /\ page.id + asking <= MaxSessions /\ crossed \in BOOLEAN /\ mic \subseteq Session
        /\ said \in [Session -> Nat]
    BY DEF DictationInv, DictationTypes, DictationTypeOK, Unbegun
  <2>10. /\ asking' \in Nat /\ page.id + asking' <= MaxSessions /\ crossed' \in BOOLEAN /\ mic' \subseteq Session
         /\ said' \in [Session -> Nat] /\ tail' \in BOOLEAN /\ UNCHANGED servers
    BY <1>1, <1>5, <2>2, <2>9
  <2>11. QED
    BY <1>4, <1>7, <1>8, <2>2, <2>4, <2>6, <2>8, <2>10, PageStep
<1>12. QED
  BY <1>1, <1>10, <1>11 DEF Newest


-----------------------------------------------------------------------------
(* Dictation: the theorems *)

\* No recording has begun.
LEMMA DictationInitInv == DictationInit => DictationInv
<1> SUFFICES ASSUME DictationInit PROVE DictationInv
  OBVIOUS
<1>1. page = [id |-> 0, mode |-> "idle", stream |-> FALSE, socket |-> FALSE,
              timer |-> FALSE, capture |-> FALSE, text |-> <<>>]
  BY DEF DictationInit
<1>2. /\ asking = 0 /\ closing = <<>> /\ mic = {} /\ tail = FALSE
      /\ said = [s \in Session |-> 0]
      /\ up = [s \in Session |-> <<>>] /\ down = [s \in Session |-> <<>>]
      /\ socket = [s \in Session |-> "none"] /\ proxy = [s \in Session |-> "none"]
      /\ recogniser = [s \in Session |-> [state |-> "none", heard |-> 0, told |-> 0]]
      /\ faults = {} /\ crossed = FALSE
  BY DEF DictationInit
<1>3. /\ page.id = 0 /\ page.mode = "idle" /\ page.stream = FALSE /\ page.socket = FALSE
      /\ page.capture = FALSE /\ page.text = <<>>
  BY <1>1
<1>4. page \in PageState
  <2>1. <<>> \in Seq(Nat) /\ 0 \in 0 .. MaxSessions
    BY DictationAssumption
  <2>2. QED
    BY <1>1, <2>1 DEF PageState
<1>5. DictationTypes
  <2>1. /\ said \in [Session -> Nat] /\ asking \in Nat /\ asking \in 0 .. MaxSessions
        /\ socket \in [Session -> {"none", "opening", "open", "closing", "closed"}]
        /\ proxy \in [Session -> {"none", "dialing", "bridging", "finishing", "over"}]
        /\ recogniser \in [Session -> [state : {"none", "starting", "running", "finishing", "over"},
                                       heard : Nat, told : Nat]]
        /\ \A s \in Session : recogniser[s].told <= recogniser[s].heard
    BY <1>2, DictationAssumption
  <2>2. /\ up \in [Session -> Seq({"audio", "finish", "close"})] /\ down \in [Session -> Seq(Messages)]
        /\ closing \in Seq([kind : {"abort", "finish"}, socket : 0 .. MaxSessions])
    <3>1. /\ <<>> \in Seq({"audio", "finish", "close"}) /\ <<>> \in Seq(Messages)
          /\ <<>> \in Seq([kind : {"abort", "finish"}, socket : 0 .. MaxSessions])
      OBVIOUS
    <3>2. QED
      BY <1>2, <3>1
  <2>3. DictationTypeOK
    BY <1>2, <1>3, <2>1, DictationAssumption DEF DictationTypeOK
  <2>4. QED
    BY <1>2, <1>4, <2>1, <2>2, <2>3 DEF DictationTypes
<1>6. Unbegun
  BY <1>2, <1>3, DictationAssumption DEF Unbegun
<1>7. PageAgrees
  <2>1. <<>> = [k \in 1 .. Len(<<>>) |-> k]
    OBVIOUS
  <2>2. QED
    BY <1>3, <2>1 DEF PageAgrees
<1>8. Alone
  BY <1>2, <1>3 DEF Alone
<1>9. \A s \in Session : s # page.id
  BY <1>3 DEF Session
<1>10. QED
  BY <1>5, <1>6, <1>7, <1>8, <1>9 DEF DictationInv

\* Every step of the page, the proxy and the recogniser keeps the invariant.
LEMMA DictationStep == DictationInv /\ [DictationNext]_dictationVars => DictationInv'
<1> SUFFICES ASSUME DictationInv, [DictationNext]_dictationVars PROVE DictationInv'
  OBVIOUS
<1>1. CASE StartRecording
  BY <1>1, StartRecordingStep
<1>2. CASE BeginRecording
  BY <1>2, BeginRecordingStep
<1>3. CASE Refused
  BY <1>3, RefusedStep
<1>4. CASE Stop
  BY <1>4, StopStep
<1>5. CASE Say
  BY <1>5, SayStep
<1>6. CASE SendBlock
  BY <1>6, SendBlockStep
<1>7. CASE FinishAudio
  BY <1>7, FinishAudioStep
<1>8. CASE ContextClosed
  BY <1>8, ContextClosedStep
<1>9. ASSUME NEW x \in Session, Receive(x) PROVE DictationInv'
  BY <1>9, ReceiveStep
<1>10. ASSUME NEW x \in Session, Closed(x) PROVE DictationInv'
  BY <1>10, ClosedStep
<1>11. ASSUME NEW x \in Session, Accept(x) PROVE DictationInv'
  BY <1>11, AcceptStep
<1>12. ASSUME NEW x \in Session, Dial(x) PROVE DictationInv'
  BY <1>12, DialStep
<1>13. ASSUME NEW x \in Session, PumpUp(x) PROVE DictationInv'
  BY <1>13, PumpUpStep
<1>14. ASSUME NEW x \in Session, PumpDown(x) PROVE DictationInv'
  BY <1>14, PumpDownStep
<1>15. ASSUME NEW x \in Session, Break(x) PROVE DictationInv'
  BY <1>15, BreakStep
<1>16. CASE UNCHANGED dictationVars
  <2>1. /\ page' = page /\ closing' = closing /\ mic' = mic /\ said' = said /\ tail' = tail /\ crossed' = crossed
        /\ asking' = asking /\ up' = up /\ down' = down /\ socket' = socket /\ proxy' = proxy
        /\ recogniser' = recogniser /\ faults' = faults
    BY <1>16 DEF dictationVars, pageVars, servers
  <2>2. DictationTypes' /\ Unbegun' /\ PageAgrees' /\ Alone'
    BY <2>1 DEF DictationInv, DictationTypes, DictationTypeOK, Unbegun, PageAgrees, Alone
  <2>3. ASSUME NEW s \in Session, s = page'.id PROVE Newly(s)'
    <3>1. Newly(s)
      BY <2>1, <2>3 DEF DictationInv
    <3>2. QED
      BY <2>1, <3>1, Elsewhere
  <2>4. QED
    BY <2>2, <2>3 DEF DictationInv
<1>17. QED
  BY <1>1, <1>2, <1>3, <1>4, <1>5, <1>6, <1>7, <1>8, <1>9, <1>10, <1>11, <1>12, <1>13, <1>14, <1>15, <1>16
     DEF DictationNext

\* The invariant of dictation.
LEMMA DictationInvariant == DictationSpec => []DictationInv
<1>1. QED
  BY DictationInitInv, DictationStep, PTL DEF DictationSpec

\* The page's, the proxies' and the recognisers' states are of their types.
THEOREM DictationTyped == DictationSpec => []DictationTypeOK
<1>1. DictationInv => DictationTypeOK
  BY DEF DictationInv, DictationTypes
<1>2. QED
  BY <1>1, DictationInvariant, PTL

\* What the page shows of a recording is what was said in it, in order and
\* once; where no recording began while calls for another were not over, all
\* of it is shown when one has ended without a fault, and the microphone is
\* off when the page is idle.
THEOREM DictationShown == DictationSpec => []DictationSound
<1>1. DictationInv => DictationSound
  <2> SUFFICES ASSUME DictationInv PROVE DictationSound
    OBVIOUS
  <2>1. page.text = [k \in 1 .. Len(page.text) |-> k]
    BY DEF DictationInv, PageAgrees
  <2>2. ASSUME page.id # 0 PROVE page.id \in Session
    <3>1. page.id \in 0 .. MaxSessions
      BY DEF DictationInv, DictationTypes, PageState
    <3>2. QED
      BY <2>2, <3>1, DictationAssumption DEF Session
  <2>3. ASSUME page.id # 0
        PROVE  /\ Len(page.text) <= said[page.id]
               /\ socket[page.id] = "closed" => page.mode = "idle"
               /\ ~crossed /\ socket[page.id] = "closed" /\ page.id \notin faults =>
                    Len(page.text) = said[page.id]
    <3>1. PICK s \in Session : s = page.id
      BY <2>2, <2>3
    <3>2. Newly(s)
      BY <3>1 DEF DictationInv
    <3>3. Len(page.text) <= said[s]
      <4>1. /\ Len(page.text) \in Nat /\ said[s] \in Nat /\ recogniser[s].told \in Nat /\ recogniser[s].heard \in Nat
            /\ Len(page.text) <= recogniser[s].told /\ recogniser[s].told <= recogniser[s].heard
            /\ recogniser[s].heard + Blocks <= said[s] /\ Blocks \in {0, 1}
        BY <3>1, ShownSaid
      <4>2. QED
        BY <4>1
    <3>4. socket[s] = "closed" => page.mode = "idle"
      BY <3>2 DEF Newly, Bridge
    <3>5. ~crossed /\ socket[s] = "closed" /\ s \notin faults => Len(page.text) = said[s]
      BY <3>2 DEF Newly, Shown, Faultless, Live
    <3>6. QED
      BY <3>1, <3>3, <3>4, <3>5
  <2>4. ~crossed /\ page.mode = "idle" => mic = {}
    BY DEF DictationInv, Alone
  <2>5. QED
    BY <2>1, <2>3, <2>4 DEF DictationSound
<1>2. QED
  BY <1>1, DictationInvariant, PTL

-----------------------------------------------------------------------------
(* The small instances: one part takes its steps *)

\* Each part keeps its own invariant, and what its types need besides.
PartInv ==
    /\ part \in Parts
    /\ part = "requests" => RequestsInv
    /\ part = "files" => FilesInv /\ LifeTyped
    /\ part = "summary" => SummaryInv /\ SummaryBounded
    /\ part = "breaker" => BreakerInv
    /\ part = "memo" => MemoInv /\ MemoCounted
    /\ part = "points" => PointsInv /\ PointsCounted
    /\ part = "dictation" => DictationInv
    /\ part = "answers" => AnswersInv
    /\ part = "agent" => LoopInv /\ AgentTyped
    /\ part = "workspace" => WorkspaceInv

\* A step is one of the part that runs, or leaves it alone.
LEMMA OwnSteps ==
  ASSUME [Next]_vars
  PROVE  /\ part' = part
         /\ part = "requests" => [RequestsNext]_requestVars
         /\ part = "files" => [FilesNext]_fileVars
         /\ part = "summary" => [SummaryNext]_summaryVars
         /\ part = "breaker" => [BreakerNext]_breakerVars
         /\ part = "memo" => [MemoNext]_memoVars
         /\ part = "points" => [PointsNext]_pointVars
         /\ part = "dictation" => [DictationNext]_dictationVars
         /\ part = "answers" => [AnswersNext]_answerVars
         /\ part = "agent" => [AgentNext]_agentVars
         /\ part = "workspace" => [WorkspaceNext]_workspaceVars
<1>1. CASE Next
  BY <1>1 DEF Next
<1>2. CASE UNCHANGED vars
  BY <1>2 DEF vars
<1>3. QED
  BY <1>1, <1>2

\* Every part begins with its invariant.
LEMMA PartsBegin == Init => PartInv
<1> SUFFICES ASSUME Init PROVE PartInv
  OBVIOUS
<1>1. /\ part \in Parts
      /\ RequestsInit /\ FilesInit /\ SummaryInit /\ BreakerInit /\ MemoInit
      /\ PointsInit /\ DictationInit /\ AnswersInit /\ AgentInit /\ WorkspaceInit
  BY DEF Init
<1>2. RequestsInv /\ FilesInv /\ LifeTyped /\ SummaryInv /\ SummaryBounded /\ BreakerInv
  BY <1>1, RequestsBegin, FilesBegin, FilesTypes, SummaryBegins, SummaryTypes, BreakerBegins
<1>3. MemoInv /\ MemoCounted /\ PointsInv /\ PointsCounted
  BY <1>1, MemoTypes, PointsTypes
<1>4. DictationInv /\ AnswersInv /\ LoopInv /\ AgentTyped /\ WorkspaceInv
  BY <1>1, DictationInitInv, AnswersInitInv, LoopBegins, AgentTypes, InvWorkspaceInit
<1>5. QED
  BY <1>1, <1>2, <1>3, <1>4 DEF PartInv

\* The part that runs keeps it.
LEMMA PartsStep == PartInv /\ [Next]_vars => PartInv'
<1> SUFFICES ASSUME PartInv, [Next]_vars PROVE PartInv'
  OBVIOUS
<1>0. part' = part /\ part \in Parts
  BY OwnSteps DEF PartInv
<1>1. ASSUME part = "requests" PROVE RequestsInv'
  BY <1>1, OwnSteps, RequestsTypeStep, ClaimsStep DEF PartInv, RequestsInv
<1>2. ASSUME part = "files" PROVE FilesInv' /\ LifeTyped'
  BY <1>2, OwnSteps, FilesAgreeStep, LimitStep, FilesTypes DEF PartInv, FilesInv
<1>3. ASSUME part = "summary" PROVE SummaryInv' /\ SummaryBounded'
  BY <1>3, OwnSteps, SummaryStep, SummaryBoundedStep DEF PartInv
<1>4. ASSUME part = "breaker" PROVE BreakerInv'
  BY <1>4, OwnSteps, BreakerTypeStep, BreakerLoadStep DEF PartInv, BreakerInv
<1>5. ASSUME part = "memo" PROVE MemoInv' /\ MemoCounted'
  BY <1>5, OwnSteps, MemoStep, MemoCountedStep DEF PartInv
<1>6. ASSUME part = "points" PROVE PointsInv' /\ PointsCounted'
  BY <1>6, OwnSteps, PointsStep, PointsCountedStep DEF PartInv
<1>7. ASSUME part = "dictation" PROVE DictationInv'
  BY <1>7, OwnSteps, DictationStep DEF PartInv
<1>8. ASSUME part = "answers" PROVE AnswersInv'
  BY <1>8, OwnSteps, AnswersStep DEF PartInv
<1>9. ASSUME part = "agent" PROVE LoopInv' /\ AgentTyped'
  BY <1>9, OwnSteps, LoopStep, AgentTypedStep DEF PartInv
<1>10. ASSUME part = "workspace" PROVE WorkspaceInv'
  BY <1>10, OwnSteps, InvWorkspaceNext DEF PartInv
<1>11. QED
  BY <1>0, <1>1, <1>2, <1>3, <1>4, <1>5, <1>6, <1>7, <1>8, <1>9, <1>10, Zenon DEF PartInv

\* What the workspace's invariant says of its types.
LEMMA WorkspaceTypes == WorkspaceInv => WorkspaceTypeOK
<1> SUFFICES ASSUME WorkspaceInv PROVE WorkspaceTypeOK
  OBVIOUS
<1>1. Typed /\ TopicsExist /\ SlotsInv /\ CourseInv
  BY DEF WorkspaceInv
<1>2. /\ topics \in Seq(Asset \cup {NoAsset}) /\ anchor \in Asset \cup {NoAsset}
      /\ DOMAIN topics = 1 .. Len(topics) /\ DOMAIN facts = 1 .. Len(facts)
      /\ \A i \in 1 .. Len(facts) : facts[i].kind \in Kind
  <2>1. topics \in Seq(Subject) /\ anchor \in Subject /\ facts \in Seq(Fact)
    BY <1>1 DEF Typed
  <2>2. DOMAIN topics = 1 .. Len(topics) /\ DOMAIN facts = 1 .. Len(facts)
    BY <2>1, LenProperties
  <2>3. ASSUME NEW i \in 1 .. Len(facts) PROVE facts[i].kind \in Kind
    <3>1. facts[i] \in Fact
      BY <2>1, ElementOfSeq
    <3>2. QED
      BY <3>1 DEF Fact
  <2>4. QED
    BY <2>1, <2>2, <2>3 DEF Subject
<1>3. ToSet(hot) \cup ToSet(placed) \subseteq DOMAIN topics
  BY <1>1, <1>2 DEF TopicsExist, SlotsInv
<1>4. \A t \in Turn : course[t].inputs \subseteq DOMAIN facts /\ course[t].homes \subseteq DOMAIN topics
  BY <1>1, <1>2 DEF TopicsExist, CourseInv
<1>5. \A i \in DOMAIN facts : facts[i].kind \in Kind /\ facts[i].home \in DOMAIN topics
  BY <1>1, <1>2 DEF TopicsExist
<1>6. QED
  BY <1>2, <1>3, <1>4, <1>5 DEF WorkspaceTypeOK

(***************************************************************************)
(* For any constants the part that runs keeps the types of its state and   *)
(* what they say of its numbers, whichever of the ten it is.               *)
(***************************************************************************)
THEOREM PartsAreTyped == Spec => []TypesOK
<1>1. PartInv => TypesOK
  <2> SUFFICES ASSUME PartInv PROVE TypesOK
    OBVIOUS
  <2>1. /\ part = "requests" => RequestsTypeOK
        /\ part = "breaker" => BreakerTypeOK
    BY DEF PartInv, RequestsInv, BreakerInv
  <2>2. /\ part = "files" => FilesTypeOK
        /\ part = "summary" => SummaryTypeOK
        /\ part = "memo" => MemoTypeOK
        /\ part = "points" => PointsTypeOK
    BY FilesTypes, SummaryTypes, MemoTypes, PointsTypes DEF PartInv
  <2>3. /\ part = "dictation" => DictationTypeOK
        /\ part = "answers" => AnswersTypeOK
    BY DEF PartInv, DictationInv, DictationTypes, AnswersInv, OfTheGeneration
  <2>4. /\ part = "agent" => AgentTypeOK
        /\ part = "workspace" => WorkspaceTypeOK
    BY AgentTypes, WorkspaceTypes DEF PartInv
  <2>5. QED
    BY <2>1, <2>2, <2>3, <2>4 DEF TypesOK
<1>2. QED
  BY <1>1, PartsBegin, PartsStep, PTL DEF Spec
=============================================================================
