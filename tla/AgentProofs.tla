----------------------------- MODULE AgentProofs -----------------------------
(***************************************************************************)
(* The safety properties of the agent for every setting of its bounds: the *)
(* loop ends by them (LoopInv), what is expensive was asked for            *)
(* (DepthInv), and the completion contract.  A verdict is a list of calls  *)
(* of unknown length, from a model, a recipe or a gap plan; Batch cuts it  *)
(* to what the bounds leave.  Then those of the evidence workspace its     *)
(* turns share, for any number of turns, topics and pieces of evidence     *)
(* (WorkspaceInv), and of the answer that is streamed while a turn runs,   *)
(* for any number of its pieces, of attempts and places in the queue       *)
(* (AnswersInv).                                                           *)
(***************************************************************************)
EXTENDS Agent, Workspace, Answers, FiniteSetTheorems, SequenceTheorems, WellFoundedInduction, TLAPS

-----------------------------------------------------------------------------
(* Finite sets of numbers *)

\* The order of the numbers, as a relation.
Below == {x \in Nat \X Nat : x[1] < x[2]}

\* The order of the numbers is well-founded.
LEMMA BelowIsWellFounded == IsWellFoundedOn(Below, Nat)
<1>1. OpToRel(<, Nat) = Below
  BY DEF OpToRel, Below
<1>2. QED
  BY <1>1, NatLessThanWellFounded

\* Some numbers have a least one.
LEMMA LeastOne ==
  ASSUME NEW S \in SUBSET Nat, S # {}
  PROVE  \E i \in S : \A j \in S : i <= j
<1>1. \E i \in S : \A j \in S : <<j, i>> \notin Below
  BY BelowIsWellFounded, WFMin
<1>2. PICK i \in S : \A j \in S : <<j, i>> \notin Below
  BY <1>1
<1>3. ASSUME NEW j \in Nat, j < i PROVE <<j, i>> \in Below
  BY <1>3 DEF Below
<1>4. \A j \in S : ~(j < i)
  BY <1>2, <1>3
<1>5. i \in Nat /\ \A j \in S : j \in Nat
  OBVIOUS
<1>6. \A j \in S : i <= j
  BY <1>4, <1>5
<1>7. QED
  BY <1>6

\* So many of a finite set have so small a rank.
LEMMA RanksLimit ==
  ASSUME NEW S \in SUBSET Nat, IsFiniteSet(S), NEW limit \in Nat
  PROVE  LET low == {j \in S : Cardinality({h \in S : h <= j}) <= limit}
         IN  IsFiniteSet(low) /\ Cardinality(low) \in Nat /\ Cardinality(low) <= limit
<1> DEFINE upTo(i) == {h \in S : h <= i}
           rank(i) == Cardinality(upTo(i))
           low == {j \in S : rank(j) <= limit}
           f == [j \in low |-> rank(j)]
<1>1. ASSUME NEW i \in S PROVE IsFiniteSet(upTo(i)) /\ rank(i) \in Nat \ {0}
  <2>1. IsFiniteSet(upTo(i)) /\ rank(i) \in Nat
    BY FS_Subset, FS_CardinalityType
  <2>2. i \in upTo(i)
    OBVIOUS
  <2>3. QED
    BY <2>1, <2>2, FS_EmptySet
<1>2. ASSUME NEW i \in S, NEW j \in S, i < j PROVE rank(i) # rank(j)
  <2>1. i \in Nat /\ j \in Nat /\ \A h \in S : h \in Nat
    OBVIOUS
  <2>2. \A h \in S : h <= i => h <= j
    BY <1>2, <2>1
  <2>3. upTo(i) \subseteq upTo(j) /\ j \notin upTo(i) /\ j \in upTo(j)
    <3>1. ~(j <= i) /\ j <= j
      BY <1>2, <2>1
    <3>2. QED
      BY <2>2, <3>1
  <2>4. rank(i) = rank(j) => upTo(i) = upTo(j)
    BY <1>1, <2>3, FS_Subset
  <2>5. QED
    BY <2>3, <2>4
<1>3. \A i, j \in S : rank(i) = rank(j) => i = j
  <2> SUFFICES ASSUME NEW i \in S, NEW j \in S, i # j PROVE rank(i) # rank(j)
    OBVIOUS
  <2>1. i < j \/ j < i
    OBVIOUS
  <2>2. QED
    BY <1>2, <2>1
<1>4. f \in Injection(low, 1 .. limit)
  <2>1. \A j \in low : j \in S /\ rank(j) \in 1 .. limit
    BY <1>1
  <2> HIDE DEF low, rank
  <2>2. f \in [low -> 1 .. limit]
    BY <2>1
  <2>3. \A i, j \in low : f[i] = f[j] => i = j
    BY <1>3, <2>1
  <2>4. QED
    BY <2>2, <2>3 DEF Injection, IsInjective
<1>5. IsFiniteSet(1 .. limit) /\ Cardinality(1 .. limit) = limit
  BY FS_Interval
<1>6. IsFiniteSet(low) /\ Cardinality(low) <= limit
  <2> HIDE DEF f, low
  <2>1. IsFiniteSet(low) /\ Cardinality(low) <= Cardinality(1 .. limit)
    BY <1>4, <1>5, FS_Injection DEF ExistsInjection
  <2>2. QED
    BY <1>5, <2>1
<1>7. QED
  BY <1>6, FS_CardinalityType

-----------------------------------------------------------------------------
(* What a verdict asks for is a list of calls *)

\* A sequence, of whatever calls.
Listed(cs) == \E n \in Nat : DOMAIN cs = 1 .. n
WellFormed(v) == Listed(v.calls)

\* The lists that the verdicts write out are lists.
LEMMA ShortLists ==
  /\ Listed(<<>>)
  /\ \A c : Listed(<<c>>)
  /\ \A c, d : Listed(<<c, d>>)
<1>1. DOMAIN <<>> = 1 .. 0
  OBVIOUS
<1>2. \A c : DOMAIN <<c>> = 1 .. 1
  OBVIOUS
<1>3. \A c, d : DOMAIN <<c, d>> = 1 .. 2
  OBVIOUS
<1>4. QED
  BY <1>1, <1>2, <1>3 DEF Listed

\* The verdicts of fixed calls are well formed.
LEMMA ShortVerdicts ==
  /\ WellFormed(Silent) /\ WellFormed(Answerable) /\ WellFormed(Cannot) /\ WellFormed(AskUser)
  /\ Answerable.calls = <<>> /\ Cannot.calls = <<>>
  /\ \A cs : More(cs).calls = cs /\ More(cs).type = "NEED_MORE_EVIDENCE"
  /\ \A cs : Listed(cs) => WellFormed(More(cs))
  /\ \A c : WellFormed(More(<<c>>))
  /\ \A level : WellFormed(LocateFirst(level))
  BY ShortLists DEF WellFormed, Silent, Answerable, Cannot, AskUser, More, Verdict, LocateFirst

\* The first verdict that is not silent is one of those given.
LEMMA FirstIsOneOf ==
  ASSUME NEW vs, Listed(vs)
  PROVE  FirstSaid(vs) = Silent \/ \E i \in DOMAIN vs : FirstSaid(vs) = vs[i]
<1> DEFINE said == {i \in DOMAIN vs : vs[i] # Silent}
<1>1. CASE said = {}
  BY <1>1 DEF FirstSaid
<1>2. CASE said # {}
  <2>1. said \subseteq Nat
    BY DEF Listed
  <2>2. \E i \in said : \A j \in said : i <= j
    BY <1>2, <2>1, LeastOne
  <2>3. (CHOOSE i \in said : \A j \in said : i <= j) \in said
    BY <2>2
  <2>4. QED
    BY <1>2, <2>3 DEF FirstSaid
<1>3. QED
  BY <1>1, <1>2

\* What the stages before a recipe ask for is a list of calls.
LEMMA StagesAreWellFormed ==
  /\ \A t : WellFormed(OneShot(t))
  /\ WellFormed(Explain) /\ WellFormed(Overview) /\ WellFormed(Diagnosis)
  /\ \A t, over, locating : WellFormed(locating) => WellFormed(Single(t, over, locating))
  /\ \A c : WellFormed(Before(c))
<1>1. \A t : WellFormed(OneShot(t))
  BY ShortVerdicts DEF OneShot
<1>2. WellFormed(Explain)
  BY ShortVerdicts DEF Explain
<1>3. WellFormed(Overview)
  <2> DEFINE ask(t) == IF Attempted(t) THEN <<>> ELSE <<Own(t)>>
             left == ask("info") \o ask("health") \o ask("alarm")
             A == {Own("info"), Own("health"), Own("alarm")}
  <2>1. ask("info") \in Seq(A) /\ ask("health") \in Seq(A) /\ ask("alarm") \in Seq(A)
    <3>1. Own("info") \in A /\ Own("health") \in A /\ Own("alarm") \in A
      OBVIOUS
    <3>2. <<>> \in Seq(A) /\ \A c \in A : <<c>> \in Seq(A)
      OBVIOUS
    <3>3. QED
      BY <3>1, <3>2
  <2> HIDE DEF A, ask
  <2>2. left \in Seq(A)
    BY <2>1
  <2> HIDE DEF left
  <2>3. Listed(left)
    BY <2>2 DEF Listed
  <2>4. QED
    BY <2>3, ShortVerdicts DEF Overview, left, ask
<1>4. WellFormed(Diagnosis)
  BY ShortVerdicts DEF Diagnosis
<1>5. \A t, over, locating : WellFormed(locating) => WellFormed(Single(t, over, locating))
  BY ShortVerdicts DEF Single
<1>6. \A c : WellFormed(Before(c))
  BY ShortVerdicts DEF Before
<1>7. QED
  BY <1>1, <1>2, <1>3, <1>4, <1>5, <1>6

\* So is what the checks of a model's or a recipe's verdict make of it.
LEMMA CheckedIsWellFormed ==
  ASSUME NEW cs, Listed(cs) PROVE WellFormed(Checked(cs))
<1> DEFINE waits == [i \in DOMAIN cs |-> Before(cs[i])]
<1>1. Listed(waits)
  BY DEF Listed
<1>2. WellFormed(FirstSaid(waits))
  <2>1. \A i \in DOMAIN waits : WellFormed(waits[i])
    BY StagesAreWellFormed
  <2> HIDE DEF waits
  <2>2. QED
    BY <1>1, <2>1, FirstIsOneOf, ShortVerdicts
<1>3. QED
  BY <1>2, ShortVerdicts DEF Checked

\* Every verdict, from whichever stage, asks for a list of calls.
LEMMA VerdictsAreWellFormed == \A v \in Verdicts : WellFormed(v)
<1>1. \A v \in Model : WellFormed(v)
  <2>1. \A c, d : WellFormed(Checked(<<c>>)) /\ WellFormed(Checked(<<c, d>>))
    BY CheckedIsWellFormed, ShortLists
  <2>2. WellFormed(More(<<>>))
    BY ShortLists, ShortVerdicts
  <2> DEFINE ones == {Checked(<<c>>) : c \in ModelCalls}
             twos == {Checked(<<c, d>>) : c, d \in ModelCalls}
             drafts == {Answerable, Cannot, AskUser, More(<<>>)}
  <2>3. Model = ones \cup twos \cup drafts
    BY DEF Model
  <2>4. \A v \in ones : \E c : v = Checked(<<c>>)
    OBVIOUS
  <2>5. \A v \in twos : \E c, d : v = Checked(<<c, d>>)
    OBVIOUS
  <2>6. \A v \in drafts : WellFormed(v)
    BY <2>2, ShortVerdicts
  <2> HIDE DEF ones, twos, drafts
  <2>7. ASSUME NEW v \in ones PROVE WellFormed(v)
    <3>1. PICK c : v = Checked(<<c>>)
      BY <2>4
    <3>2. QED
      BY <2>1, <3>1
  <2>8. ASSUME NEW v \in twos PROVE WellFormed(v)
    <3>1. PICK c, d : v = Checked(<<c, d>>)
      BY <2>5
    <3>2. QED
      BY <2>1, <3>1
  <2>9. QED
    BY <2>3, <2>6, <2>7, <2>8
<1>2. \A v \in NextReactAction : WellFormed(v)
  <2> DEFINE stages ==
        <<OneShot("query"), OneShot("several"), Explain,
          IF IdentityFailed THEN Cannot ELSE Silent,
          IF GoalReached THEN Answerable ELSE Silent,
          Overview,
          Single("info", Done("info"), LocateFirst("equipment")),
          Single("alarm", Attempted("alarm"), LocateFirst("equipment")),
          Single("health", Done("health"), More(<<Locate("equipment")>>)),
          Diagnosis>>
  <2>1. DOMAIN stages = 1 .. 10
    OBVIOUS
  <2>2. Listed(stages)
    BY <2>1 DEF Listed
  <2>3. \A i \in 1 .. 10 : WellFormed(stages[i])
    BY StagesAreWellFormed, ShortVerdicts
  <2>4. NextReactAction = IF FirstSaid(stages) = Silent THEN Model ELSE {FirstSaid(stages)}
    BY DEF NextReactAction
  <2> HIDE DEF stages
  <2>5. WellFormed(FirstSaid(stages))
    BY <2>1, <2>2, <2>3, FirstIsOneOf, ShortVerdicts
  <2>6. QED
    BY <1>1, <2>4, <2>5
<1>3. Listed(NextRecipeCalls)
  BY ShortLists DEF NextRecipeCalls
<1>4. QED
  BY <1>2, <1>3, ShortVerdicts DEF Verdicts

\* The gate leaves an answer only with its evidence, or where a partial one is
\* allowed, and adds no call unless it may plan.
LEMMA GateKeepsContract ==
  ASSUME NEW w, WellFormed(w), NEW plans, NEW v \in Gate(w, plans)
  PROVE  /\ WellFormed(v)
         /\ v.type = "ANSWERABLE" => Missing = {} \/ intent.partial
         /\ ~plans /\ w.calls = <<>> => v.calls = <<>>
<1>1. \A cs \in GapCalls : Listed(cs)
  BY ShortLists DEF GapCalls
<1>2. Cannot.type # "ANSWERABLE"
  BY DEF Cannot, Verdict
<1>3. QED
  BY <1>1, <1>2, ShortLists, ShortVerdicts DEF Gate

-----------------------------------------------------------------------------
(* A batch *)

\* The calls that run side by side are at most as many as the limit allows.
LEMMA IndependentIsLimited ==
  ASSUME NEW cs, NEW fresh \in SUBSET Nat, IsFiniteSet(fresh), NEW limit \in Nat \ {0}
  PROVE  LET some == Independent(cs, fresh, limit)
         IN  /\ IsFiniteSet(some) /\ Cardinality(some) \in Nat /\ Cardinality(some) <= limit
             /\ \A c \in some : \E i \in fresh : c = cs[i]
<1> DEFINE first == CHOOSE i \in fresh : \A j \in fresh : i <= j
           safe == {i \in fresh : /\ Safe(cs[i])
                                  /\ \A j \in fresh : j < i /\ Safe(cs[j]) => cs[j].tool # cs[i].tool}
           low == {j \in safe : Cardinality({h \in safe : h <= j}) <= limit}
           chosen == {cs[i] : i \in low}
           f == [i \in low |-> cs[i]]
<1>1. CASE fresh = {}
  BY <1>1, FS_EmptySet DEF Independent
<1>2. CASE fresh # {} /\ ~Safe(cs[first])
  <2>1. first \in fresh
    BY <1>2, LeastOne
  <2>2. IsFiniteSet({cs[first]}) /\ Cardinality({cs[first]}) = 1
    BY FS_Singleton
  <2>3. Independent(cs, fresh, limit) = {cs[first]}
    BY <1>2 DEF Independent
  <2> HIDE DEF first
  <2>4. QED
    BY <2>1, <2>2, <2>3
<1>3. CASE fresh # {} /\ Safe(cs[first])
  <2>1. safe \subseteq fresh /\ IsFiniteSet(safe)
    BY FS_Subset
  <2>2. low \subseteq safe
    OBVIOUS
  <2>3. Independent(cs, fresh, limit) = chosen
    BY <1>3 DEF Independent
  <2> HIDE DEF safe, first
  <2>4. IsFiniteSet(low) /\ Cardinality(low) \in Nat /\ Cardinality(low) <= limit
    BY <2>1, RanksLimit
  <2> HIDE DEF low
  <2>5. f \in Surjection(low, chosen)
    BY DEF Surjection
  <2>6. IsFiniteSet(chosen) /\ Cardinality(chosen) <= Cardinality(low)
    <3> HIDE DEF f, chosen
    <3>1. QED
      BY <2>4, <2>5, FS_Surjection DEF ExistsSurjection
  <2>7. \A c \in chosen : \E i \in fresh : c = cs[i]
    BY <2>1, <2>2
  <2>8. Cardinality(chosen) \in Nat
    BY <2>6, FS_CardinalityType
  <2> HIDE DEF chosen
  <2>9. QED
    BY <2>3, <2>4, <2>6, <2>7, <2>8
<1>4. QED
  BY <1>1, <1>2, <1>3

\* A batch is within the limit and repeats no signature of the run.
LEMMA BatchIsLimited ==
  ASSUME NEW cs, Listed(cs), Limit \in Nat \ {0}
  PROVE  /\ IsFiniteSet(Batch(cs)) /\ Cardinality(Batch(cs)) \in Nat /\ Cardinality(Batch(cs)) <= Limit
         /\ \A c \in Batch(cs) : Signature(c) \notin visited
<1> DEFINE fixed == [i \in DOMAIN cs |-> Repaired(cs[i])]
           allowed == {i \in DOMAIN cs : depth = "detailed" \/ ~RequiresDetailed(cs[i])}
           fresh == {i \in allowed : /\ Signature(fixed[i]) \notin visited
                                     /\ \A j \in allowed : j < i => fixed[j] # fixed[i]}
<1>1. PICK n \in Nat : DOMAIN cs = 1 .. n
  BY DEF Listed
<1>2. fresh \subseteq 1 .. n /\ \A i \in fresh : Signature(fixed[i]) \notin visited
  BY <1>1
<1>3. Batch(cs) = Independent(fixed, fresh, Limit)
  BY DEF Batch
<1> HIDE DEF fresh, fixed
<1>4. IsFiniteSet(1 .. n)
  BY FS_Interval
<1>5. IsFiniteSet(fresh)
  BY <1>2, <1>4, FS_Subset
<1>6. fresh \in SUBSET Nat
  BY <1>2
<1>7. QED
  BY <1>2, <1>3, <1>5, <1>6, IndependentIsLimited

\* No calls make no batch.
LEMMA NothingToRun == Batch(<<>>) = {}
  BY DEF Batch, Independent

-----------------------------------------------------------------------------
(* The bounds of the loop *)

LoopTyped ==
    /\ step \in Nat /\ calls \in Nat /\ hops \in Nat
    /\ IsFiniteSet(plan) /\ IsFiniteSet(visited)
    /\ place \in {"resolve", "decide", "execute", "finalize", "failure", "wait", "over"}
    /\ status # "none" => place = "over"

\* Every call that was run left a signature of its own, those that are planned have
\* none yet, and together they are within the limit.
CallsCounted ==
    /\ Cardinality(visited) = calls
    /\ calls + Cardinality(plan) <= MaxCalls
    /\ place # "execute" => plan = {}
    /\ \A c \in plan : Signature(c) \notin visited

\* A step of the loop is two nodes, so the nodes that were run are bounded by the
\* steps that were taken.
HopsCounted ==
    /\ step <= MaxSteps + 1
    /\ place \notin {"finalize", "over"} => step <= MaxSteps
    /\ place = "resolve" => hops = 2 /\ step = 0
    /\ place \in {"decide", "failure", "wait"} => hops <= 2 * step + 4
    /\ place \in {"execute", "finalize"} => hops <= 2 * step + 3
    /\ place = "over" => hops <= 2 * MaxSteps + 6

LoopInv == LoopTyped /\ CallsCounted /\ HopsCounted

\* Where a resolution leads.
LEMMA RoutesLead ==
  \A result : Route(result) \in {"decide", "failure", "wait"}
  BY DEF Route

\* A decision plans no more than the calls left, and none at the last step.
LEMMA DecideBounds ==
  ASSUME LoopInv, Decide
  PROVE  /\ IsFiniteSet(plan') /\ Cardinality(plan') \in Nat /\ calls + Cardinality(plan') <= MaxCalls
         /\ \A c \in plan' : Signature(c) \notin visited
         /\ step = MaxSteps => plan' = {}
<1>0. PICK w \in Verdicts : \E v \in Gate(w, ~AtBound) : plan' = Batch(v.calls)
  BY DEF Decide
<1>1. PICK v \in Gate(w, ~AtBound) : plan' = Batch(v.calls)
  BY <1>0
<1>2. WellFormed(w) /\ WellFormed(v) /\ (AtBound => v.calls = <<>>)
  <2>1. WellFormed(w)
    BY VerdictsAreWellFormed
  <2>2. AtBound => w.calls = <<>>
    BY ShortVerdicts DEF Verdicts
  <2>3. QED
    BY <2>1, <2>2, GateKeepsContract
<1>3. CASE AtBound
  <2>1. plan' = {}
    BY <1>1, <1>2, <1>3, NothingToRun
  <2>2. Cardinality({}) = 0 /\ IsFiniteSet({})
    BY FS_EmptySet
  <2>3. calls <= MaxCalls /\ calls \in Nat
    BY <2>2, FS_CardinalityType, BoundsAssumption DEF LoopInv, LoopTyped, CallsCounted
  <2>4. QED
    BY <2>1, <2>2, <2>3
<1>4. CASE ~AtBound
  <2>1. /\ calls < MaxCalls /\ step < MaxSteps
        /\ calls \in Nat /\ step \in Nat /\ MaxSteps \in Nat /\ MaxCalls \in Nat
    BY <1>4, BoundsAssumption DEF AtBound, LoopInv, LoopTyped
  <2>2. Limit \in Nat \ {0} /\ calls + Limit <= MaxCalls
    BY <2>1, BoundsAssumption DEF Limit
  <2>3. /\ IsFiniteSet(plan') /\ Cardinality(plan') \in Nat /\ Cardinality(plan') <= Limit
        /\ \A c \in plan' : Signature(c) \notin visited
    BY <1>1, <1>2, <2>2, BatchIsLimited DEF WellFormed
  <2>4. QED
    BY <2>1, <2>2, <2>3
<1>5. QED
  BY <1>3, <1>4

\* The calls of a batch have signatures of their own, none of them seen before.
LEMMA SignaturesCounted ==
  ASSUME LoopInv
  PROVE  LET new == visited \cup {Signature(c) : c \in plan}
         IN  IsFiniteSet(new) /\ Cardinality(new) = calls + Cardinality(plan)
<1> DEFINE signed == {Signature(c) : c \in plan}
           f == [c \in plan |-> Signature(c)]
<1>1. \A c, d \in plan : Signature(c) = Signature(d) => c = d
  BY DEF Signature
<1>2. f \in Bijection(plan, signed)
  BY <1>1 DEF Bijection, Injection, Surjection, IsInjective
<1>3. IsFiniteSet(plan) /\ IsFiniteSet(visited) /\ Cardinality(visited) = calls /\ calls \in Nat
  BY DEF LoopInv, LoopTyped, CallsCounted
<1>4. visited \cap signed = {}
  BY DEF LoopInv, CallsCounted
<1> HIDE DEF f, signed
<1>5. IsFiniteSet(signed) /\ Cardinality(signed) = Cardinality(plan)
  BY <1>2, <1>3, FS_Bijection DEF ExistsBijection
<1>6. IsFiniteSet(visited \cup signed)
      /\ Cardinality(visited \cup signed) = calls + Cardinality(plan) - Cardinality(visited \cap signed)
  BY <1>3, <1>5, FS_Union
<1>7. Cardinality(visited \cap signed) = 0 /\ Cardinality(plan) \in Nat
  BY <1>3, <1>4, FS_EmptySet, FS_CardinalityType
<1>8. QED
  BY <1>3, <1>6, <1>7 DEF signed

\* Every step of the agent keeps the bounds.
LEMMA LoopStep == LoopInv /\ [AgentNext]_agentVars => LoopInv'
<1> SUFFICES ASSUME LoopInv, [AgentNext]_agentVars PROVE LoopInv'
  OBVIOUS
<1> USE BoundsAssumption
<1>0. Cardinality({}) = 0 /\ IsFiniteSet({}) /\ Cardinality(plan) \in Nat
  BY FS_EmptySet, FS_CardinalityType DEF LoopInv, LoopTyped
<1>1. CASE Resolve
  <2>1. place = "resolve" /\ place' \in {"decide", "failure", "wait"}
        /\ UNCHANGED <<plan, visited, step, calls, status>> /\ hops' \in {hops + 1, hops + 2}
    BY <1>1, RoutesLead DEF Resolve
  <2>2. plan = {} /\ hops = 2 /\ step = 0
    BY <2>1 DEF LoopInv, CallsCounted, HopsCounted
  <2>3. QED
    BY <2>1, <2>2 DEF LoopInv, LoopTyped, CallsCounted, HopsCounted
<1>2. CASE Decide
  <2>1. /\ IsFiniteSet(plan') /\ Cardinality(plan') \in Nat /\ calls + Cardinality(plan') <= MaxCalls
        /\ \A c \in plan' : Signature(c) \notin visited
        /\ step = MaxSteps => plan' = {}
    BY <1>2, DecideBounds
  <2>2. /\ place = "decide" /\ UNCHANGED <<visited, calls, who, status>>
        /\ place' = IF plan' # {} THEN "execute" ELSE "finalize"
        /\ step' = step + 1 /\ hops' = hops + 1
    BY <1>2 DEF Decide
  <2>3. \A c : Signature(c)' = Signature(c)
    BY <2>2 DEF Signature, CurrentEntity
  <2>4. LoopTyped' /\ CallsCounted'
    BY <2>1, <2>2, <2>3 DEF LoopInv, LoopTyped, CallsCounted
  <2>5. HopsCounted'
    BY <2>1, <2>2 DEF LoopInv, LoopTyped, HopsCounted
  <2>6. QED
    BY <2>4, <2>5 DEF LoopInv
<1>3. CASE AskForDepth
  <2>1. /\ place = "decide" /\ place' = "over" /\ plan' = {} /\ hops' = hops + 1
        /\ UNCHANGED <<visited, step, calls>>
    BY <1>3 DEF AskForDepth
  <2>2. QED
    BY <1>0, <2>1 DEF LoopInv, LoopTyped, CallsCounted, HopsCounted
<1>4. CASE Execute
  <2>1. /\ place = "execute" /\ place' \in {"decide", "failure", "wait"} /\ plan' = {}
        /\ hops' = hops + 1 /\ UNCHANGED <<step, status>> /\ calls' = calls + Cardinality(plan)
        /\ visited' = visited \cup {Signature(c) : c \in plan}
    BY <1>4, RoutesLead DEF Execute
  <2>2. IsFiniteSet(visited') /\ Cardinality(visited') = calls'
    BY <2>1, SignaturesCounted
  <2>3. QED
    BY <1>0, <2>1, <2>2 DEF LoopInv, LoopTyped, CallsCounted, HopsCounted
<1>5. CASE Finalize \/ ResolutionFails \/ WaitForSelection
  <2>1. /\ place \in {"finalize", "failure", "wait"} /\ place' = "over" /\ hops' = hops + 1
        /\ UNCHANGED <<plan, visited, step, calls>>
    BY <1>5 DEF Finalize, ResolutionFails, WaitForSelection
  <2>2. plan = {}
    BY <2>1 DEF LoopInv, CallsCounted
  <2>3. QED
    BY <2>1, <2>2 DEF LoopInv, LoopTyped, CallsCounted, HopsCounted
<1>6. ASSUME NEW node \in {"decide", "wait"}, ResumeAt(node), place = "over" PROVE LoopInv'
  <2>1. /\ place' = node /\ hops' \in {3, 4} /\ status' = "none"
        /\ visited' = {} /\ step' = 0 /\ calls' = 0
        /\ UNCHANGED plan /\ plan = {}
    BY <1>6 DEF ResumeAt, LoopInv, CallsCounted
  <2>2. QED
    BY <1>0, <2>1 DEF LoopInv, LoopTyped, CallsCounted, HopsCounted
<1>7. CASE UNCHANGED agentVars
  <2>1. \A c : Signature(c)' = Signature(c)
    BY <1>7 DEF agentVars, Signature, CurrentEntity
  <2>2. QED
    BY <1>7, <2>1 DEF agentVars, LoopInv, LoopTyped, CallsCounted, HopsCounted
<1>8. QED
  BY <1>1, <1>2, <1>3, <1>4, <1>5, <1>6, <1>7
  DEF AgentNext, Select, SelectParent, ChooseDepth, LoopInv, LoopTyped

\* So does the beginning.
LEMMA LoopBegins == AgentInit => LoopInv
<1> SUFFICES ASSUME AgentInit PROVE LoopInv
  OBVIOUS
<1>1. IsFiniteSet({}) /\ Cardinality({}) = 0
  BY FS_EmptySet
<1>2. /\ place = "resolve" /\ status = "none" /\ plan = {} /\ visited = {}
      /\ step = 0 /\ calls = 0 /\ hops = 2
  BY DEF AgentInit
<1>3. LoopTyped /\ CallsCounted
  BY <1>1, <1>2, BoundsAssumption DEF LoopTyped, CallsCounted
<1>4. HopsCounted
  BY <1>2, BoundsAssumption DEF HopsCounted
<1>5. QED
  BY <1>3, <1>4 DEF LoopInv

(***************************************************************************)
(* Whatever the model, the recipes and the completion gate plan, the calls *)
(* of a run stay within normal_max_agent_calls, none is run twice, and the *)
(* graph stays below the recursion limit (normal_react_decide,             *)
(* normal_react_execute).                                                  *)
(***************************************************************************)
THEOREM LoopStaysWithinBounds == AgentSpec => []StaysWithinBounds
<1>1. AgentInit => LoopInv
  BY LoopBegins
<1>2. LoopInv => StaysWithinBounds
  <2> SUFFICES ASSUME LoopInv PROVE StaysWithinBounds
    OBVIOUS
  <2>1. hops \in Nat /\ step \in Nat /\ MaxSteps \in Nat /\ hops <= 2 * MaxSteps + 6
    BY BoundsAssumption DEF LoopInv, LoopTyped, HopsCounted
  <2>2. hops <= RecursionLimit
    BY <2>1 DEF RecursionLimit
  <2>3. QED
    BY <2>2 DEF LoopInv, CallsCounted, HopsCounted, StaysWithinBounds
<1>3. QED
  BY <1>1, <1>2, LoopStep, PTL DEF AgentSpec

-----------------------------------------------------------------------------
(* Analysis depth *)

\* Before the depth is confirmed the run has only located things, and where a
\* confirmation is required the loop neither runs tools nor answers.
DepthInv ==
    /\ DiagnosisIsAsked
    /\ ConfirmationRequired => \A o \in obs : o.tool \in {"fuzzy", "points"}
    /\ place \in {"execute", "finalize"} => ~ConfirmationRequired
    /\ status = "WAITING_CONFIRMATION" => place = "over" /\ ConfirmationRequired

\* A look-up, and a drill-down, adds one observation.
LEMMA LookUpObserves ==
  /\ \A need : LookUp(need) =>
       \E o \in {Seen("fuzzy", "COMPLETED"), Seen("fuzzy", "FAILED")} : obs' = obs \cup {o}
  /\ DrillDown =>
       \E o \in {Seen("points", "SUCCESS"), Seen("points", "FAILED")} : obs' = obs \cup {o}
  BY DEF LookUp, DrillDown

\* The tools of the look-up and of the drill-down: neither is expensive.
Locating == {"fuzzy", "points"}

\* Locating something asks for no depth that was not chosen.
LEMMA ObservingKeepsDepth ==
  ASSUME DepthInv, UNCHANGED <<intent, depth>>,
         \A o \in obs' \ obs : o.tool \in Locating,
         place' \notin {"execute", "finalize"},
         status' = "WAITING_CONFIRMATION" => place' = "over" /\ ConfirmationRequired
  PROVE  DepthInv'
<1>1. ConfirmationRequired' = ConfirmationRequired
  BY DEF ConfirmationRequired, Asks, Variant
<1>2. \A t \in Locating : t \notin Expensive /\ t # "snapshot"
  BY DEF Locating, Expensive, DiagnosisTools, Batches
<1>3. DiagnosisIsAsked'
  BY <1>2 DEF DepthInv, DiagnosisIsAsked
<1>4. ConfirmationRequired => \A o \in obs' : o.tool \in {"fuzzy", "points"}
  BY DEF DepthInv, Locating
<1>5. QED
  BY <1>1, <1>3, <1>4 DEF DepthInv

\* Every step of the agent keeps the depth that was chosen.
LEMMA DepthStep == LoopInv /\ DepthInv /\ [AgentNext]_agentVars => DepthInv'
<1> SUFFICES ASSUME LoopInv, DepthInv, [AgentNext]_agentVars PROVE DepthInv'
  OBVIOUS
<1>0. /\ \A t : Seen("fuzzy", t).tool \in Locating /\ Seen("points", t).tool \in Locating
      /\ status # "none" => place = "over"
  BY DEF Seen, Locating, LoopInv, LoopTyped
<1>1. CASE Resolve
  <2>1. \A o \in obs' \ obs : o.tool \in Locating
    BY <1>0, <1>1, LookUpObserves DEF Resolve
  <2>2. QED
    BY <1>0, <1>1, <2>1, RoutesLead, ObservingKeepsDepth DEF Resolve
<1>2. CASE Decide
  <2>1. /\ ~ConfirmationRequired /\ UNCHANGED <<intent, depth, obs, status>> /\ place = "decide"
    BY <1>2 DEF Decide
  <2>2. ~ConfirmationRequired'
    BY <2>1 DEF ConfirmationRequired, Asks, Variant
  <2>3. QED
    BY <1>0, <2>1, <2>2 DEF DepthInv, DiagnosisIsAsked
<1>3. CASE AskForDepth
  BY <1>3, ObservingKeepsDepth DEF AskForDepth
<1>4. CASE Execute
  <2>1. /\ ~ConfirmationRequired /\ UNCHANGED <<intent, depth, status>> /\ place = "execute"
        /\ place' \in {"decide", "failure", "wait"}
    BY <1>4, RoutesLead DEF Execute, DepthInv
  <2>2. ~ConfirmationRequired'
    BY <2>1 DEF ConfirmationRequired, Asks, Variant
  <2>3. DiagnosisIsAsked'
    <3>1. CASE RunTools
      <4>1. PICK result \in [plan -> {"REJECTED", "NEEDS_INPUT", "SUCCESS", "FAILED"}] :
              /\ \A c \in plan : result[c] \in ResultsOf(c)
              /\ obs' = obs \cup {[tool |-> c.tool, recipe |-> c.args = "recipe",
                                  status |-> result[c]] : c \in plan}
        BY <3>1 DEF RunTools
      <4>2. ASSUME NEW c \in plan, result[c] # "REJECTED"
            PROVE  /\ c.tool \in Expensive => depth = "detailed"
                   /\ c.tool = "snapshot" => depth # "quick"
        BY <4>1, <4>2 DEF ResultsOf, RequiresDetailed
      <4>3. \A o \in obs' : o \in obs \/ \E c \in plan : o.tool = c.tool /\ o.status = result[c]
        BY <4>1
      <4>4. QED
        BY <2>1, <4>2, <4>3 DEF DepthInv, DiagnosisIsAsked
    <3>2. CASE \A o \in obs' \ obs : o.tool \in Locating
      BY <2>1, <3>2 DEF DepthInv, DiagnosisIsAsked, Locating, Expensive, DiagnosisTools, Batches
    <3>3. QED
      BY <1>0, <1>4, <3>1, <3>2, LookUpObserves DEF Execute, FindEntity
  <2>4. QED
    BY <1>0, <2>1, <2>2, <2>3 DEF DepthInv
<1>5. CASE Finalize \/ ResolutionFails \/ WaitForSelection
  <2>1. \A o \in obs' \ obs : o.tool \in Locating
    BY <1>0, <1>5 DEF Finalize, ResolutionFails, WaitForSelection
  <2>2. QED
    BY <1>5, <2>1, ObservingKeepsDepth DEF Finalize, ResolutionFails, WaitForSelection
<1>6. CASE Select \/ SelectParent
  BY <1>6, ObservingKeepsDepth DEF Select, SelectParent, ResumeAt
<1>7. CASE ChooseDepth
  <2>1. /\ ConfirmationRequired /\ UNCHANGED <<intent, obs>> /\ depth' \in {"quick", "detailed"}
        /\ place' = "decide" /\ status' = "none"
    BY <1>7 DEF ChooseDepth, ResumeAt, DepthInv
  <2>2. ~ConfirmationRequired'
    BY <2>1 DEF ConfirmationRequired
  <2>3. \A o \in obs : o.tool \in {"fuzzy", "points"}
    BY <2>1 DEF DepthInv
  <2>4. DiagnosisIsAsked'
    BY <2>1, <2>3 DEF DiagnosisIsAsked, Expensive, DiagnosisTools, Batches
  <2>5. QED
    BY <2>1, <2>2, <2>4 DEF DepthInv
<1>8. CASE UNCHANGED agentVars
  BY <1>8 DEF agentVars, DepthInv, DiagnosisIsAsked, ConfirmationRequired, Asks, Variant
<1>9. QED
  BY <1>1, <1>2, <1>3, <1>4, <1>5, <1>6, <1>7, <1>8 DEF AgentNext

(***************************************************************************)
(* Nothing expensive runs before the user chose the detailed analysis,     *)
(* however often the turn is suspended and resumed.                        *)
(***************************************************************************)
THEOREM ExpensiveIsAskedFor == AgentSpec => []DiagnosisIsAsked
<1>1. AgentInit => LoopInv /\ DepthInv
  BY LoopBegins DEF AgentInit, DepthInv, DiagnosisIsAsked
<1>2. DepthInv => DiagnosisIsAsked
  BY DEF DepthInv
<1>3. QED
  BY <1>1, <1>2, LoopStep, DepthStep, PTL DEF AgentSpec

-----------------------------------------------------------------------------
(* The completion contract *)

\* A decision that ends the loop with an answer meets the contract.
LEMMA DecideMeetsContract ==
  ASSUME Decide, place' = "finalize", verdict' = "ANSWERABLE"
  PROVE  Missing = {} \/ intent.partial
<1>1. PICK w \in Verdicts : \E v \in Gate(w, ~AtBound) :
             \E u \in IF v.calls # <<>> /\ plan' = {} THEN Gate(Answerable, FALSE) ELSE {v} :
               verdict' = u.type
  BY DEF Decide
<1>2. PICK v \in Gate(w, ~AtBound) :
             \E u \in IF v.calls # <<>> /\ plan' = {} THEN Gate(Answerable, FALSE) ELSE {v} :
               verdict' = u.type
  BY <1>1
<1>3. PICK u \in IF v.calls # <<>> /\ plan' = {} THEN Gate(Answerable, FALSE) ELSE {v} :
             verdict' = u.type
  BY <1>2
<1>4. WellFormed(w) /\ WellFormed(Answerable)
  BY VerdictsAreWellFormed, ShortVerdicts
<1>5. u \in Gate(Answerable, FALSE) \/ u \in Gate(w, ~AtBound)
  BY <1>3
<1>6. QED
  BY <1>3, <1>4, <1>5, GateKeepsContract

\* The first of the stages that speaks is no later than any that does.
LEMMA FirstIsEarly ==
  ASSUME NEW vs, Listed(vs), NEW k \in DOMAIN vs, vs[k] # Silent
  PROVE  \E i \in DOMAIN vs : i <= k /\ vs[i] # Silent /\ FirstSaid(vs) = vs[i]
<1> DEFINE said == {i \in DOMAIN vs : vs[i] # Silent}
           first == CHOOSE i \in said : \A j \in said : i <= j
<1>1. said \subseteq Nat /\ k \in said
  BY DEF Listed
<1>2. \E i \in said : \A j \in said : i <= j
  BY <1>1, LeastOne
<1>3. first \in said /\ first <= k
  BY <1>1, <1>2
<1>4. FirstSaid(vs) = vs[first]
  BY <1>1 DEF FirstSaid
<1>5. QED
  BY <1>3, <1>4

\* A verdict that answers, or that has calls to make.
Promising(v) == v = Answerable \/ (v.type = "NEED_MORE_EVIDENCE" /\ v.calls # <<>>)

\* An answer is promising, and so is a verdict with one call.
LEMMA AskingPromises == Promising(Answerable) /\ \A c : Promising(More(<<c>>))
<1>1. \A c : <<c>> # <<>>
  OBVIOUS
<1>2. ASSUME NEW c PROVE Promising(More(<<c>>))
  <2> DEFINE cs == <<c>>
  <2>1. cs # <<>>
    BY <1>1
  <2> HIDE DEF cs
  <2>2. More(cs).calls = cs /\ More(cs).type = "NEED_MORE_EVIDENCE"
    BY ShortVerdicts
  <2>3. Promising(More(cs))
    BY <2>1, <2>2 DEF Promising
  <2>4. QED
    BY <2>3 DEF cs
<1>3. Promising(Answerable)
  BY DEF Promising
<1>4. QED
  BY <1>2, <1>3

\* With all the evidence the supervisor answers, unless it was asked for what
\* has first to run.
LEMMA CompleteIsPromising ==
  ASSUME GoalReached, ~IdentityFailed, NEW w \in NextReactAction
  PROVE  Promising(w)
<1> DEFINE stages ==
      <<OneShot("query"), OneShot("several"), Explain,
        IF IdentityFailed THEN Cannot ELSE Silent,
        IF GoalReached THEN Answerable ELSE Silent,
        Overview,
        Single("info", Done("info"), LocateFirst("equipment")),
        Single("alarm", Attempted("alarm"), LocateFirst("equipment")),
        Single("health", Done("health"), More(<<Locate("equipment")>>)),
        Diagnosis>>
<1>1. DOMAIN stages = 1 .. 10 /\ Listed(stages)
  <2>1. DOMAIN stages = 1 .. 10
    OBVIOUS
  <2>2. QED
    BY <2>1 DEF Listed
<1>2. Answerable # Silent
  BY DEF Answerable, Silent, Verdict
<1>3. \A t : OneShot(t) = Silent \/ Promising(OneShot(t))
  BY AskingPromises DEF OneShot
<1>4. Explain = Silent \/ Promising(Explain)
  BY AskingPromises DEF Explain
<1>5. /\ stages[1] = OneShot("query") /\ stages[2] = OneShot("several") /\ stages[3] = Explain
      /\ stages[4] = Silent /\ stages[5] = Answerable
  OBVIOUS
<1>6. NextReactAction = IF FirstSaid(stages) = Silent THEN Model ELSE {FirstSaid(stages)}
  BY DEF NextReactAction
<1> HIDE DEF stages
<1>7. PICK i \in 1 .. 10 : i <= 5 /\ stages[i] # Silent /\ FirstSaid(stages) = stages[i]
  BY <1>1, <1>2, <1>5, FirstIsEarly
<1>8. i \in {1, 2, 3, 4, 5}
  BY <1>7
<1>9. Promising(stages[i])
  BY <1>3, <1>4, <1>5, <1>7, <1>8 DEF Promising
<1>10. QED
  BY <1>6, <1>7, <1>9

\* The gate answers what it lets through, and lets an answer through that has its
\* evidence, or where a partial one is allowed at the end of the loop.
LEMMA GatePasses ==
  /\ Missing = {} \/ intent.partial => Gate(Answerable, FALSE) = {Answerable}
  /\ Missing = {} => \A plans \in BOOLEAN : Gate(Answerable, plans) = {Answerable}
  /\ \A w, plans : w.type # "ANSWERABLE" => Gate(w, plans) = {w}
<1>1. Answerable.type = "ANSWERABLE"
  BY DEF Answerable, Verdict
<1>2. Missing = {} => \A plans \in BOOLEAN : Gate(Answerable, plans) = {Answerable}
  BY DEF Gate
<1>3. \A w, plans : w.type # "ANSWERABLE" => Gate(w, plans) = {w}
  BY DEF Gate
<1>4. ASSUME intent.partial PROVE Gate(Answerable, FALSE) = {Answerable}
  BY <1>4 DEF Gate
<1>5. QED
  BY <1>2, <1>3, <1>4

\* A decision with a promising verdict that ends the loop answers, as soon as the
\* contract allows it.
LEMMA PromiseIsKept ==
  ASSUME Decide, place' = "finalize", \A w \in Verdicts : Promising(w),
         Missing = {} \/ (intent.partial /\ \A w \in Verdicts : w = Answerable /\ AtBound)
  PROVE  verdict' = "ANSWERABLE"
<1>0. PICK w \in Verdicts : \E v \in Gate(w, ~AtBound) :
             \E u \in IF v.calls # <<>> /\ plan' = {} THEN Gate(Answerable, FALSE) ELSE {v} :
               verdict' = u.type
  BY DEF Decide
<1>1. PICK v \in Gate(w, ~AtBound) :
             \E u \in IF v.calls # <<>> /\ plan' = {} THEN Gate(Answerable, FALSE) ELSE {v} :
               verdict' = u.type
  BY <1>0
<1>2. plan' = {}
  BY DEF Decide
<1>3. Answerable.type = "ANSWERABLE" /\ Answerable.calls = <<>> /\ Gate(Answerable, FALSE) = {Answerable}
  BY GatePasses DEF Answerable, Verdict
<1>4. CASE w = Answerable
  <2>1. (~AtBound) \in BOOLEAN
    BY DEF AtBound
  <2>2. v = Answerable
    <3>1. CASE Missing = {}
      BY <1>1, <1>4, <2>1, <3>1, GatePasses
    <3>2. CASE AtBound
      <4>1. (~AtBound) = FALSE
        BY <3>2
      <4>2. v \in Gate(Answerable, FALSE)
        BY <1>1, <1>4, <4>1
      <4>3. v \in {Answerable}
        BY <1>3, <4>2, Zenon
      <4>4. QED
        BY <4>3
    <3>3. QED
      BY <1>1, <3>1, <3>2
  <2>3. QED
    BY <1>1, <1>3, <2>2
<1>5. CASE w.type = "NEED_MORE_EVIDENCE" /\ w.calls # <<>>
  <2>1. v = w
    BY <1>1, <1>5, GatePasses
  <2>2. QED
    BY <1>1, <1>2, <1>3, <1>5, <2>1
<1>6. QED
  BY <1>0, <1>4, <1>5 DEF Promising

\* Evidence that is there was observed.
LEMMA GoalIsObserved == GoalReached => obs # {}
  BY DEF GoalReached, Missing, Done

\* A decision that ends the loop answers a run that has all its evidence.
LEMMA CompleteIsAnswered ==
  ASSUME Decide, place' = "finalize", GoalReached, ~IdentityFailed
  PROVE  verdict' = "ANSWERABLE"
<1>1. Missing = {} /\ obs # {}
  BY GoalIsObserved DEF GoalReached
<1>2. ASSUME NEW w \in Verdicts PROVE Promising(w)
  <2>1. CASE AtBound
    BY <1>1, <1>2, <2>1 DEF Verdicts, Promising
  <2>2. CASE ~AtBound /\ Recipe # "none" /\ ~HardFailed
    BY <1>2, <2>2, ShortVerdicts DEF Verdicts, Promising
  <2>3. CASE ~AtBound /\ ~(Recipe # "none" /\ ~HardFailed)
    <3>1. w \in NextReactAction
      BY <1>2, <2>3 DEF Verdicts
    <3>2. QED
      BY <3>1, CompleteIsPromising
  <2>4. QED
    BY <2>1, <2>2, <2>3
<1>3. QED
  BY <1>1, <1>2, PromiseIsKept

\* At a bound it answers with what was acquired, where the contract allows it.
LEMMA BoundIsAnswered ==
  ASSUME Decide, place' = "finalize", AtBound, obs # {}, Missing = {} \/ intent.partial
  PROVE  verdict' = "ANSWERABLE"
<1>1. \A w \in Verdicts : w = Answerable /\ Promising(w)
  BY DEF Verdicts, Promising
<1>2. QED
  BY <1>1, PromiseIsKept

\* No other step makes an answer of an incomplete run, or a refusal of a complete one.
LEMMA ContractStep ==
  LoopInv /\ AnswersMeetContract /\ [AgentNext]_agentVars => AnswersMeetContract'
<1> SUFFICES ASSUME LoopInv, AnswersMeetContract, [AgentNext]_agentVars, place' = "finalize"
             PROVE  AnswersMeetContract'
  BY DEF AnswersMeetContract
<1>1. CASE Decide
  <2>1. UNCHANGED <<intent, obs, lookup, calls>> /\ step' = step + 1
    BY <1>1 DEF Decide
  <2>2. Missing' = Missing
    BY <2>1 DEF Missing, Done
  <2>3. GoalReached' = GoalReached /\ IdentityFailed' = IdentityFailed
    BY <2>1, <2>2 DEF GoalReached, IdentityFailed
  <2>4. step' > MaxSteps \/ calls' >= MaxCalls => AtBound
    BY <2>1, BoundsAssumption DEF AtBound, LoopInv, LoopTyped
  <2>5. QED
    BY <1>1, <2>1, <2>2, <2>3, <2>4, DecideMeetsContract, CompleteIsAnswered, BoundIsAnswered
    DEF AnswersMeetContract
<1>2. CASE UNCHANGED agentVars
  BY <1>2 DEF agentVars, AnswersMeetContract, Missing, Done, GoalReached, IdentityFailed
<1>3. QED
  BY <1>1, <1>2, RoutesLead
  DEF AgentNext, Resolve, AskForDepth, Execute, Finalize, ResolutionFails, WaitForSelection,
      Select, SelectParent, ChooseDepth, ResumeAt

(***************************************************************************)
(* By whatever way the loop came to its end: an answer has all the         *)
(* evidence its message needs, or the message allows a partial one; a run  *)
(* that has all of it is answered; and a bound alone refuses no answer.    *)
(***************************************************************************)
THEOREM AnswersAreComplete == AgentSpec => []AnswersMeetContract
<1>1. AgentInit => LoopInv /\ AnswersMeetContract
  BY LoopBegins DEF AgentInit, AnswersMeetContract
<1>2. QED
  BY <1>1, LoopStep, ContractStep, PTL DEF AgentSpec

-----------------------------------------------------------------------------
(* The types of the graph's state *)

\* A call has one of the kinds of arguments, and the level of an entity.
Fit(c) == c.args \in {"recipe", "own", "other"} /\ c.level \in Level
AllFit(cs) == \A i \in DOMAIN cs : Fit(cs[i])
Fits(v) == AllFit(v.calls)

AgentTyped ==
    /\ intent \in Intent /\ depth \in {"unspecified", "quick", "detailed"} /\ hasSpeed \in BOOLEAN
    /\ who \in [action : {"", "none", "reuse", "replace"}, anchor : Level, fuzzy : Level,
                resolved : Level, selected : Level]
    /\ \A c \in plan : Fit(c)

\* The calls that the supervisor makes itself fit, alone or two at a time.
LEMMA OwnCallsFit ==
  /\ \A t : Need(t) \in Level
  /\ \A t : Fit(Own(t)) /\ \A a \in {"recipe", "own", "other"} : Fit(ToolCall(t, Need(t), a))
  /\ \A level \in Level : Fit(Locate(level))
  /\ Fit(DownDrill)
  /\ AllFit(<<>>) /\ \A c : Fit(c) => AllFit(<<c>>)
  /\ \A c, d : Fit(c) /\ Fit(d) => AllFit(<<c, d>>)
<1>1. \A t : Need(t) \in Level
  BY DEF Need, Level
<1>2. \A t, level, a : ToolCall(t, level, a).args = a /\ ToolCall(t, level, a).level = level
  BY DEF ToolCall
<1>3. "equipment" \in Level
  BY DEF Level
<1>4. AllFit(<<>>)
  BY DEF AllFit
<1>5. \A c : Fit(c) => AllFit(<<c>>)
  BY DEF AllFit
<1>6. \A c, d : Fit(c) /\ Fit(d) => AllFit(<<c, d>>)
  BY DEF AllFit
<1>7. QED
  BY <1>1, <1>2, <1>3, <1>4, <1>5, <1>6 DEF Fit, Own, Locate, DownDrill

\* So do those of the verdicts of fixed calls.
LEMMA ShortFits ==
  /\ Fits(Silent) /\ Fits(Answerable) /\ Fits(Cannot) /\ Fits(AskUser)
  /\ \A cs : AllFit(cs) => Fits(More(cs))
  /\ \A c : Fit(c) => Fits(More(<<c>>))
  /\ \A level \in Level : Fits(LocateFirst(level))
<1>1. \A type, cs : Verdict(type, cs).calls = cs
  BY DEF Verdict
<1>2. Fits(Silent) /\ Fits(Answerable) /\ Fits(Cannot) /\ Fits(AskUser)
  BY <1>1, OwnCallsFit DEF Fits, Silent, Answerable, Cannot, AskUser
<1>3. \A cs : AllFit(cs) => Fits(More(cs))
  BY <1>1 DEF Fits, More
<1>4. \A c : Fit(c) => Fits(More(<<c>>))
  BY <1>3, OwnCallsFit
<1>5. \A level \in Level : Fits(LocateFirst(level))
  BY <1>2, <1>4, OwnCallsFit DEF LocateFirst
<1>6. QED
  BY <1>2, <1>3, <1>4, <1>5

\* So do those of the stages.
LEMMA StagesFit ==
  /\ \A t : Fits(OneShot(t))
  /\ Fits(Explain) /\ Fits(Overview) /\ Fits(Diagnosis)
  /\ \A t, over, locating : Fits(locating) => Fits(Single(t, over, locating))
  /\ \A c : Fit(c) => Fits(Before(c))
<1>0. {"none", "equipment", "point"} = Level
  BY DEF Level
<1>1. \A t : Fits(OneShot(t))
  BY ShortFits, OwnCallsFit DEF OneShot
<1>2. Fits(Explain)
  BY ShortFits, OwnCallsFit DEF Explain
<1>3. Fits(Overview)
  <2> DEFINE ask(t) == IF Attempted(t) THEN <<>> ELSE <<Own(t)>>
             left == ask("info") \o ask("health") \o ask("alarm")
             A == {Own("info"), Own("health"), Own("alarm")}
  <2>1. ask("info") \in Seq(A) /\ ask("health") \in Seq(A) /\ ask("alarm") \in Seq(A)
    <3>1. Own("info") \in A /\ Own("health") \in A /\ Own("alarm") \in A
      OBVIOUS
    <3>2. <<>> \in Seq(A) /\ \A c \in A : <<c>> \in Seq(A)
      OBVIOUS
    <3>3. QED
      BY <3>1, <3>2
  <2>2. \A c \in A : Fit(c)
    BY OwnCallsFit
  <2> HIDE DEF A, ask
  <2>3. left \in Seq(A)
    BY <2>1
  <2> HIDE DEF left
  <2>4. AllFit(left)
    BY <2>2, <2>3 DEF AllFit
  <2>5. QED
    BY <1>0, <2>4, ShortFits DEF Overview, left, ask
<1>4. Fits(Diagnosis)
  BY ShortFits, OwnCallsFit DEF Diagnosis
<1>5. \A t, over, locating : Fits(locating) => Fits(Single(t, over, locating))
  BY ShortFits, OwnCallsFit DEF Single
<1>6. \A c : Fit(c) => Fits(Before(c))
  <2> SUFFICES ASSUME NEW c, Fit(c) PROVE Fits(Before(c))
    OBVIOUS
  <2> DEFINE input == IF c.tool \in DiagnosisTools THEN Prerequisite(c.tool) ELSE "snapshot"
             call == IF Has("point") THEN Own(input) ELSE Locate("point")
  <2>1. Fit(call)
    BY <1>0, OwnCallsFit
  <2> HIDE DEF call
  <2>2. Fits(More(<<call>>)) /\ Fits(More(<<Own("rpm")>>)) /\ Fits(LocateFirst(c.level)) /\ Fits(Silent)
    BY <2>1, ShortFits, OwnCallsFit DEF Fit
  <2>3. QED
    BY <2>2 DEF Before, call
<1>7. QED
  BY <1>1, <1>2, <1>3, <1>4, <1>5, <1>6

\* So does what the checks make of a verdict.
LEMMA CheckedFits ==
  ASSUME NEW cs, Listed(cs), AllFit(cs) PROVE Fits(Checked(cs))
<1> DEFINE waits == [i \in DOMAIN cs |-> Before(cs[i])]
<1>1. Listed(waits)
  BY DEF Listed
<1>2. Fits(FirstSaid(waits))
  <2>1. \A i \in DOMAIN waits : Fits(waits[i])
    BY StagesFit DEF AllFit
  <2> HIDE DEF waits
  <2>2. QED
    BY <1>1, <2>1, FirstIsOneOf, ShortFits
<1>3. QED
  BY <1>2, ShortFits DEF Checked

\* Every verdict, from whichever stage, asks for calls that fit.
LEMMA VerdictsFit == \A v \in Verdicts : Fits(v)
<1>0. \A c \in ModelCalls : Fit(c)
  BY OwnCallsFit DEF ModelCalls
<1>1. \A v \in Model : Fits(v)
  <2>1. \A c, d \in ModelCalls : Fits(Checked(<<c>>)) /\ Fits(Checked(<<c, d>>))
    BY <1>0, CheckedFits, ShortLists, OwnCallsFit
  <2>2. Fits(More(<<>>))
    BY OwnCallsFit, ShortFits
  <2> DEFINE ones == {Checked(<<c>>) : c \in ModelCalls}
             twos == {Checked(<<c, d>>) : c, d \in ModelCalls}
             drafts == {Answerable, Cannot, AskUser, More(<<>>)}
  <2>3. Model = ones \cup twos \cup drafts
    BY DEF Model
  <2>4. \A v \in ones : \E c \in ModelCalls : v = Checked(<<c>>)
    OBVIOUS
  <2>5. \A v \in twos : \E c, d \in ModelCalls : v = Checked(<<c, d>>)
    OBVIOUS
  <2>6. \A v \in drafts : Fits(v)
    BY <2>2, ShortFits
  <2> HIDE DEF ones, twos, drafts
  <2>7. ASSUME NEW v \in ones PROVE Fits(v)
    <3>1. PICK c \in ModelCalls : v = Checked(<<c>>)
      BY <2>4
    <3>2. QED
      BY <2>1, <3>1
  <2>8. ASSUME NEW v \in twos PROVE Fits(v)
    <3>1. PICK c, d \in ModelCalls : v = Checked(<<c, d>>)
      BY <2>5
    <3>2. QED
      BY <2>1, <3>1
  <2>9. QED
    BY <2>3, <2>6, <2>7, <2>8
<1>2. \A v \in NextReactAction : Fits(v)
  <2> DEFINE stages ==
        <<OneShot("query"), OneShot("several"), Explain,
          IF IdentityFailed THEN Cannot ELSE Silent,
          IF GoalReached THEN Answerable ELSE Silent,
          Overview,
          Single("info", Done("info"), LocateFirst("equipment")),
          Single("alarm", Attempted("alarm"), LocateFirst("equipment")),
          Single("health", Done("health"), More(<<Locate("equipment")>>)),
          Diagnosis>>
  <2>1. DOMAIN stages = 1 .. 10 /\ "equipment" \in Level
    BY DEF Level
  <2>2. Listed(stages)
    BY <2>1 DEF Listed
  <2>3. Fits(LocateFirst("equipment")) /\ Fits(More(<<Locate("equipment")>>))
    BY <2>1, ShortFits, OwnCallsFit
  <2>4. \A i \in 1 .. 10 : Fits(stages[i])
    BY <2>3, StagesFit, ShortFits
  <2>5. NextReactAction = IF FirstSaid(stages) = Silent THEN Model ELSE {FirstSaid(stages)}
    BY DEF NextReactAction
  <2> HIDE DEF stages
  <2>6. Fits(FirstSaid(stages))
    BY <2>1, <2>2, <2>4, FirstIsOneOf, ShortFits
  <2>7. QED
    BY <1>1, <2>5, <2>6
<1>3. AllFit(NextRecipeCalls)
  BY OwnCallsFit DEF NextRecipeCalls
<1>4. QED
  BY <1>2, <1>3, ShortFits DEF Verdicts

\* The gate adds only calls that fit.
LEMMA GateFits ==
  ASSUME NEW w, Fits(w), NEW plans, NEW v \in Gate(w, plans)
  PROVE  Fits(v)
<1>1. \A cs \in GapCalls : AllFit(cs)
  BY OwnCallsFit DEF GapCalls
<1>2. QED
  BY <1>1, ShortFits, OwnCallsFit DEF Gate

\* What is planned of calls that fit, repaired or not, fits.
LEMMA BatchFits ==
  ASSUME NEW cs, Listed(cs), AllFit(cs), Limit \in Nat \ {0}
  PROVE  \A c \in Batch(cs) : Fit(c)
<1> DEFINE fixed == [i \in DOMAIN cs |-> Repaired(cs[i])]
           allowed == {i \in DOMAIN cs : depth = "detailed" \/ ~RequiresDetailed(cs[i])}
           able == {i \in allowed : /\ Signature(fixed[i]) \notin visited
                                    /\ \A j \in allowed : j < i => fixed[j] # fixed[i]}
<1>1. PICK n \in Nat : DOMAIN cs = 1 .. n
  BY DEF Listed
<1>2. \A i \in DOMAIN cs : Fit(fixed[i])
  BY OwnCallsFit DEF Repaired, AllFit
<1>3. Batch(cs) = Independent(fixed, able, Limit)
  BY DEF Batch
<1>4. able \subseteq 1 .. n
  BY <1>1
<1> HIDE DEF able, fixed
<1>5. IsFiniteSet(1 .. n)
  BY FS_Interval
<1>6. IsFiniteSet(able) /\ able \in SUBSET Nat
  <2>1. IsFiniteSet(able)
    BY <1>4, <1>5, FS_Subset
  <2>2. able \in SUBSET Nat
    BY <1>4
  <2>3. QED
    BY <2>1, <2>2
<1>7. \A c \in Independent(fixed, able, Limit) : \E i \in able : c = fixed[i]
  BY <1>6, IndependentIsLimited
<1>8. QED
  BY <1>1, <1>2, <1>3, <1>4, <1>7

\* Whichever entity is found, it has a level.
LEMMA LevelsFound ==
  /\ \A need : FoundLevels(need) \subseteq Level
  /\ AgentTyped => CurrentEntity \in Level
<1>1. {"none", "equipment", "point"} = Level
  BY DEF Level
<1>2. \A need : FoundLevels(need) \subseteq Level
  BY <1>1 DEF FoundLevels
<1>3. AgentTyped => CurrentEntity \in Level
  <2> SUFFICES ASSUME AgentTyped PROVE CurrentEntity \in Level
    OBVIOUS
  <2>1. who.selected \in Level /\ who.anchor \in Level /\ who.fuzzy \in Level /\ who.resolved \in Level
    BY DEF AgentTyped
  <2>2. "none" \in Level /\ \A a, b \in Level : Or(a, b) \in Level
    BY <1>1 DEF Or
  <2>3. QED
    BY <2>1, <2>2 DEF CurrentEntity
<1>4. QED
  BY <1>2, <1>3

\* Looking an entity up leaves it of its type.
LEMMA WhoTyped ==
  ASSUME AgentTyped, \/ \E need : LookUp(need)
                     \/ \E level : FindEntity(level)
                     \/ DrillDown
  PROVE  who' \in [action : {"", "none", "reuse", "replace"}, anchor : Level, fuzzy : Level,
                   resolved : Level, selected : Level]
<1> DEFINE W == [action : {"", "none", "reuse", "replace"}, anchor : Level, fuzzy : Level,
                 resolved : Level, selected : Level]
<1>0. who \in W /\ "none" \in Level /\ "point" \in Level
  BY DEF AgentTyped, Level
<1>1. ASSUME NEW need, LookUp(need) PROVE who' \in W
  <2>1. ASSUME NEW action \in {"reuse", "replace"}, NEW found \in FoundLevels(need),
               who' = [who EXCEPT !.action = action, !.fuzzy = found, !.resolved = found,
                                  !.anchor = IF action = "reuse" THEN found ELSE "none"]
        PROVE  who' \in W
    <3>1. found \in Level /\ (IF action = "reuse" THEN found ELSE "none") \in Level
      BY <1>0, LevelsFound
    <3>2. QED
      BY <1>0, <2>1, <3>1
  <2>2. CASE \/ who' = [who EXCEPT !.action = "replace", !.resolved = "none", !.anchor = "none"]
             \/ who' = [who EXCEPT !.action = "none", !.resolved = "none", !.anchor = "none"]
    BY <1>0, <2>2
  <2>3. QED
    BY <1>1, <2>1, <2>2 DEF LookUp
<1>2. ASSUME DrillDown PROVE who' \in W
  BY <1>0, <1>2 DEF DrillDown
<1>3. ASSUME NEW level, FindEntity(level) PROVE who' \in W
  <2>1. CurrentEntity \in Level
    BY LevelsFound
  <2>2. CASE Has(level)
    BY <1>0, <1>3, <2>1, <2>2 DEF FindEntity
  <2>3. CASE ~Has(level)
    BY <1>1, <1>2, <1>3, <2>3 DEF FindEntity
  <2>4. QED
    BY <2>2, <2>3
<1>4. QED
  BY <1>1, <1>2, <1>3

\* Every step of the agent keeps the types of its state.
LEMMA AgentTypedStep == LoopInv /\ AgentTyped /\ [AgentNext]_agentVars => AgentTyped'
<1> SUFFICES ASSUME LoopInv, AgentTyped, [AgentNext]_agentVars PROVE AgentTyped'
  OBVIOUS
<1> DEFINE W == [action : {"", "none", "reuse", "replace"}, anchor : Level, fuzzy : Level,
                 resolved : Level, selected : Level]
<1>0. who \in W /\ "none" \in Level /\ "point" \in Level /\ "equipment" \in Level
  BY DEF AgentTyped, Level
<1>1. ASSUME UNCHANGED <<intent, depth, hasSpeed>>, who' \in W, \A c \in plan' : Fit(c) PROVE AgentTyped'
  BY <1>1 DEF AgentTyped
<1>2. \A c \in plan : Fit(c)
  BY DEF AgentTyped
<1>3. CASE Resolve
  <2>1. who' \in W
    <3>1. CASE \E need : LookUp(need)
      BY <3>1, WhoTyped
    <3>2. CASE who' = [who EXCEPT !.action = "none"] \/ who' = who
      BY <1>0, <3>2
    <3>3. QED
      BY <1>3, <3>1, <3>2 DEF Resolve
  <2>2. QED
    BY <1>1, <1>2, <1>3, <2>1 DEF Resolve
<1>4. CASE Decide
  <2>1. PICK w \in Verdicts : \E v \in Gate(w, ~AtBound) : plan' = Batch(v.calls)
    BY <1>4 DEF Decide
  <2>2. PICK v \in Gate(w, ~AtBound) : plan' = Batch(v.calls)
    BY <2>1
  <2>3. WellFormed(v) /\ Fits(v) /\ (AtBound => v.calls = <<>>)
    <3>1. WellFormed(w) /\ Fits(w)
      BY VerdictsAreWellFormed, VerdictsFit
    <3>2. AtBound => w.calls = <<>>
      BY ShortVerdicts DEF Verdicts
    <3>3. QED
      BY <3>1, <3>2, GateKeepsContract, GateFits
  <2>4. \A c \in plan' : Fit(c)
    <3>1. CASE AtBound
      BY <2>2, <2>3, <3>1, NothingToRun
    <3>2. CASE ~AtBound
      <4>1. Limit \in Nat \ {0}
        BY <3>2, BoundsAssumption DEF LoopInv, LoopTyped, AtBound, Limit
      <4>2. QED
        BY <2>2, <2>3, <4>1, BatchFits DEF LoopInv, WellFormed, Fits
    <3>3. QED
      BY <3>1, <3>2
  <2>5. QED
    BY <1>0, <1>1, <1>4, <2>4 DEF Decide
<1>5. CASE AskForDepth
  BY <1>0, <1>1, <1>5 DEF AskForDepth
<1>6. CASE Execute
  <2>1. who' \in W
    <3>1. CASE (\E level : FindEntity(level)) \/ DrillDown
      BY <3>1, WhoTyped
    <3>2. CASE UNCHANGED who
      BY <1>0, <3>2
    <3>3. QED
      BY <1>6, <3>1, <3>2 DEF Execute
  <2>2. hasSpeed' \in BOOLEAN
    BY <1>6 DEF Execute, RunTools, AgentTyped
  <2>3. UNCHANGED <<intent, depth>> /\ plan' = {}
    BY <1>6 DEF Execute
  <2>4. QED
    BY <2>1, <2>2, <2>3 DEF AgentTyped
<1>7. CASE Finalize \/ ResolutionFails \/ WaitForSelection
  BY <1>0, <1>1, <1>2, <1>7 DEF Finalize, ResolutionFails, WaitForSelection
<1>8. ASSUME NEW node, ResumeAt(node), depth' = depth \/ depth' \in {"quick", "detailed"}, who' \in W
      PROVE  AgentTyped'
  <2>1. hasSpeed' = FALSE /\ UNCHANGED <<intent, plan>>
    BY <1>8 DEF ResumeAt
  <2>2. depth' \in {"unspecified", "quick", "detailed"} /\ hasSpeed' \in BOOLEAN /\ intent' \in Intent
    BY <1>8, <2>1 DEF AgentTyped
  <2>3. QED
    BY <1>2, <1>8, <2>1, <2>2 DEF AgentTyped
<1>9. CASE Select
  <2>1. PICK found \in FoundLevels(lookup.among) :
          who' = [action |-> "reuse", anchor |-> found, fuzzy |-> "none", resolved |-> found, selected |-> found]
    BY <1>9 DEF Select
  <2>2. found \in Level
    BY LevelsFound
  <2>3. who' \in W
    BY <1>0, <2>1, <2>2
  <2>4. QED
    BY <1>8, <1>9, <2>3 DEF Select
<1>10. CASE SelectParent
  <2>1. who' \in W
    BY <1>0, <1>10 DEF SelectParent
  <2>2. QED
    BY <1>8, <1>10, <2>1 DEF SelectParent
<1>11. CASE ChooseDepth
  <2>1. who' \in W
    BY <1>0, <1>11 DEF ChooseDepth
  <2>2. QED
    BY <1>8, <1>11, <2>1 DEF ChooseDepth
<1>12. CASE UNCHANGED agentVars
  BY <1>12 DEF agentVars, AgentTyped
<1>13. QED
  BY <1>3, <1>4, <1>5, <1>6, <1>7, <1>9, <1>10, <1>11, <1>12 DEF AgentNext

\* The beginning has them, and the fields hold what the graph's state declares.
LEMMA AgentTypes ==
  /\ AgentInit => AgentTyped
  /\ LoopInv /\ AgentTyped => AgentTypeOK
<1>1. ASSUME AgentInit PROVE AgentTyped
  <2>1. intent \in Intent /\ depth = intent.depth /\ hasSpeed = FALSE /\ plan = {}
    BY <1>1 DEF AgentInit
  <2>2. depth \in {"unspecified", "quick", "detailed"} /\ hasSpeed \in BOOLEAN
    BY <2>1, IntentAssumption
  <2>3. who \in [action : {"", "none", "reuse", "replace"}, anchor : Level, fuzzy : Level,
                 resolved : Level, selected : Level]
    BY <1>1 DEF AgentInit, Level
  <2>4. QED
    BY <2>1, <2>2, <2>3 DEF AgentTyped
<1>2. LoopInv /\ AgentTyped => AgentTypeOK
  BY DEF LoopInv, LoopTyped, AgentTyped, AgentTypeOK, Fit
<1>3. QED
  BY <1>1, <1>2

-----------------------------------------------------------------------------
\* Bounded numbers have a greatest one, which is their Max.
LEMMA GreatestOne ==
  ASSUME NEW n \in Nat, NEW S \in SUBSET (1 .. n), S # {}
  PROVE  Max(S) \in S /\ \A j \in S : j <= Max(S)
<1> DEFINE Bounds == {m \in Nat : \A j \in S : j <= m}
<1>1. \A j \in S : j \in Nat /\ j >= 1 /\ j <= n
  OBVIOUS
<1>2. n \in Bounds /\ Bounds \in SUBSET Nat
  BY <1>1
<1>3. \E m \in Bounds : \A j \in Bounds : m <= j
  BY <1>2, LeastOne
<1>4. PICK m \in Bounds : \A j \in Bounds : m <= j
  BY <1>3
<1>5. m \in S
  <2>1. SUFFICES ASSUME m \notin S PROVE FALSE
    OBVIOUS
  <2>2. \A j \in S : j < m
    BY <1>1, <1>4, <2>1
  <2>3. m \in Nat /\ m > 0
    <3>1. PICK j \in S : TRUE
      OBVIOUS
    <3>2. j \in Nat /\ j >= 1 /\ j < m /\ m \in Nat
      BY <1>1, <1>4, <2>2, <3>1
    <3>3. QED
      BY <3>2
  <2>4. m - 1 \in Bounds
    BY <1>1, <2>2, <2>3
  <2>5. QED
    BY <1>4, <2>3, <2>4
<1>6. \A j \in S : m >= j
  BY <1>1, <1>4
<1>7. \E x \in S : \A y \in S : x >= y
  BY <1>5, <1>6
<1>8. Max(S) \in S /\ \A y \in S : Max(S) >= y
  BY <1>7 DEF Max
<1>9. QED
  BY <1>1, <1>8

-----------------------------------------------------------------------------
(* The workspace's slots of hot topics *)

\* What is left of the slots without a topic that is none of them, or one.
LEMMA OthersOfNone ==
  ASSUME NEW x, \A i \in DOMAIN hot : hot[i] # x
  PROVE  Others(x) = hot
BY DEF Others

\* With the topic in slot k, what is left closes the gap.
LEMMA OthersOfOne ==
  ASSUME NEW S, hot \in Seq(S), NEW k \in 1 .. Len(hot),
         \A i, j \in DOMAIN hot : hot[i] = hot[j] => i = j
  PROVE  /\ Others(hot[k]) \in Seq(S) /\ Len(Others(hot[k])) = Len(hot) - 1
         /\ \A i \in 1 .. Len(hot) - 1 :
              Others(hot[k])[i] = IF i < k THEN hot[i] ELSE hot[i + 1]
<1> DEFINE lo == SubSeq(hot, 1, k - 1)
           hi == SubSeq(hot, k + 1, Len(hot))
<1>0. Len(hot) \in Nat /\ k \in Nat /\ 1 <= k /\ k <= Len(hot)
  OBVIOUS
<1>1. /\ Len(hot) \in Nat /\ k \in Nat /\ 1 <= k /\ k <= Len(hot)
      /\ DOMAIN hot = 1 .. Len(hot) /\ \A i \in 1 .. Len(hot) : hot[i] \in S
  OBVIOUS
<1>2. {i \in DOMAIN hot : hot[i] = hot[k]} = {k}
  BY <1>1
<1>3. Others(hot[k]) = lo \o hi
  <2>1. (CHOOSE i \in {k} : TRUE) = k
    OBVIOUS
  <2>2. QED
    BY <1>2, <2>1 DEF Others, RemoveAt
<1>4. lo \in Seq(S) /\ Len(lo) = k - 1 /\ \A i \in 1 .. k - 1 : lo[i] = hot[i]
  <2>1. \A i \in 1 .. k - 1 : hot[i] \in S
    BY <1>1
  <2>2. k - 1 \in Int /\ 1 \in Int
    BY <1>1
  <2>3. QED
    BY <1>1, <2>1, <2>2, SubSeqProperties
<1>5. hi \in Seq(S) /\ Len(hi) = Len(hot) - k /\ \A i \in 1 .. Len(hot) - k : hi[i] = hot[k + i]
  <2>1. \A i \in k + 1 .. Len(hot) : hot[i] \in S
    BY <1>1
  <2>2. k + 1 \in Int /\ Len(hot) \in Int
    BY <1>1
  <2>3. hi \in Seq(S)
    BY <2>1, <2>2, SubSeqProperties
  <2>4. Len(hi) = IF k + 1 <= Len(hot) THEN Len(hot) - (k + 1) + 1 ELSE 0
    BY <2>1, <2>2, SubSeqProperties
  <2>5. \A i \in 1 .. Len(hot) - (k + 1) + 1 : hi[i] = hot[k + 1 + i - 1]
    BY <2>1, <2>2, SubSeqProperties
  <2> HIDE DEF hi
  <2>6. Len(hi) = Len(hot) - k
    <3>1. CASE k + 1 <= Len(hot)
      <4>1. Len(hi) = Len(hot) - (k + 1) + 1
        BY <2>4, <3>1
      <4>2. QED
        BY <1>0, <4>1
    <3>2. CASE ~(k + 1 <= Len(hot))
      <4>1. Len(hi) = 0
        BY <2>4, <3>2
      <4>2. k = Len(hot) /\ Len(hot) - Len(hot) = 0
        BY <1>0, <3>2
      <4>3. QED
        BY <4>1, <4>2
    <3>3. QED
      BY <3>1, <3>2
  <2>7. Len(hot) - (k + 1) + 1 = Len(hot) - k /\ \A i \in Nat : k + 1 + i - 1 = k + i
    BY <1>1
  <2>8. \A i \in 1 .. Len(hot) - k : hi[i] = hot[k + i]
    BY <1>1, <2>5, <2>7
  <2>9. QED
    BY <2>3, <2>6, <2>8
<1> HIDE DEF lo, hi
<1>6. /\ lo \o hi \in Seq(S) /\ Len(lo \o hi) = Len(lo) + Len(hi)
      /\ \A i \in 1 .. Len(lo) + Len(hi) :
           (lo \o hi)[i] = IF i <= Len(lo) THEN lo[i] ELSE hi[i - Len(lo)]
  BY <1>4, <1>5, ConcatProperties
<1> DEFINE others == lo \o hi
<1>7. others \in Seq(S) /\ Len(others) = Len(hot) - 1
  BY <1>1, <1>4, <1>5, <1>6
<1> HIDE DEF others
<1>8. ASSUME NEW i \in 1 .. Len(hot) - 1
      PROVE  others[i] = IF i < k THEN hot[i] ELSE hot[i + 1]
  <2>1. CASE i < k
    BY <1>1, <1>4, <1>5, <1>6, <2>1 DEF others
  <2>2. CASE i >= k
    <3>1. others[i] = hi[i - (k - 1)]
      BY <1>1, <1>4, <1>5, <1>6, <2>2 DEF others
    <3>2. i - (k - 1) \in 1 .. Len(hot) - k /\ k + (i - (k - 1)) = i + 1
      BY <1>1, <2>2
    <3>3. hi[i - (k - 1)] = hot[k + (i - (k - 1))]
      BY <1>5, <3>2
    <3>4. ~(i < k)
      BY <1>1, <2>2
    <3>5. QED
      BY <3>1, <3>2, <3>3, <3>4
  <2>3. QED
    BY <1>1, <2>1, <2>2
<1>9. QED
  BY <1>3, <1>7, <1>8 DEF others

\* The topic in front, then the others, three at most.
LEMMA InFrontIs ==
  ASSUME NEW S, NEW x \in S, Others(x) \in Seq(S)
  PROVE  /\ InFront(x) \in Seq(S)
         /\ Len(InFront(x)) = IF Len(Others(x)) < 2 THEN Len(Others(x)) + 1 ELSE 3
         /\ InFront(x)[1] = x
         /\ \A i \in 2 .. Len(InFront(x)) : InFront(x)[i] = Others(x)[i - 1]
<1> DEFINE rest == Others(x)
           order == <<x>> \o rest
           n == IF Len(order) < 3 THEN Len(order) ELSE 3
           front == SubSeq(order, 1, n)
<1>1. InFront(x) = front
  BY DEF InFront
<1>2. rest \in Seq(S) /\ Len(rest) \in Nat
  OBVIOUS
<1> HIDE DEF rest
<1>3. /\ order \in Seq(S) /\ Len(order) = Len(rest) + 1
      /\ \A i \in 1 .. Len(rest) + 1 : order[i] = IF i = 1 THEN x ELSE rest[i - 1]
  <2>1. <<x>> \in Seq(S) /\ Len(<<x>>) = 1 /\ <<x>>[1] = x
    OBVIOUS
  <2>2. order \in Seq(S) /\ Len(order) = 1 + Len(rest)
    BY <1>2, <2>1, ConcatProperties
  <2>3. \A i \in 1 .. 1 + Len(rest) : order[i] = IF i <= 1 THEN <<x>>[i] ELSE rest[i - 1]
    BY <1>2, <2>1, ConcatProperties
  <2> HIDE DEF order
  <2>4. QED
    BY <1>2, <2>1, <2>2, <2>3
<1> HIDE DEF order
<1>4. n \in Nat /\ n = (IF Len(rest) < 2 THEN Len(rest) + 1 ELSE 3) /\ 1 <= n /\ n <= Len(rest) + 1
  BY <1>2, <1>3
<1> HIDE DEF n
<1>5. \A i \in 1 .. n : order[i] \in S
  BY <1>2, <1>3, <1>4
<1>6. /\ front \in Seq(S) /\ Len(front) = IF 1 <= n THEN n - 1 + 1 ELSE 0
      /\ \A i \in 1 .. n - 1 + 1 : front[i] = order[1 + i - 1]
  BY <1>4, <1>5, SubSeqProperties
<1> HIDE DEF front
<1>7. Len(front) = n /\ \A i \in 1 .. n : front[i] = order[i]
  BY <1>4, <1>6
<1>8. /\ front[1] = x /\ \A i \in 2 .. n : front[i] = rest[i - 1]
  BY <1>2, <1>3, <1>4, <1>7
<1>9. QED
  BY <1>1, <1>4, <1>6, <1>7, <1>8 DEF rest

\* What is in a set of numbers and not below any of them is its Max.
LEMMA MaxIs ==
  ASSUME NEW n \in Nat, NEW S \in SUBSET (1 .. n), NEW j \in S, \A i \in S : i <= j
  PROVE  Max(S) = j
<1>1. Max(S) \in S /\ \A i \in S : i <= Max(S)
  BY GreatestOne
<1>2. \A i \in S : i \in Nat
  OBVIOUS
<1>3. Max(S) \in Nat /\ j \in Nat /\ Max(S) <= j /\ j <= Max(S)
  BY <1>1, <1>2
<1>4. QED
  BY <1>3

\* Where a topic was placed last.
LEMMA LastPlacedIs ==
  ASSUME placed \in Seq(Nat), NEW x, x \in ToSet(placed)
  PROVE  /\ LastPlaced(x) \in 1 .. Len(placed) /\ placed[LastPlaced(x)] = x
         /\ \A j \in 1 .. Len(placed) : placed[j] = x => j <= LastPlaced(x)
<1> DEFINE P == {j \in DOMAIN placed : placed[j] = x}
<1>1. P \in SUBSET (1 .. Len(placed)) /\ P # {} /\ Len(placed) \in Nat
  BY DEF ToSet
<1>2. Max(P) \in P /\ \A j \in P : j <= Max(P)
  BY <1>1, GreatestOne
<1>3. QED
  BY <1>1, <1>2 DEF LastPlaced

\* A placing changes where its own topic was placed last, and no other.
LEMMA LastPlacedNext ==
  ASSUME placed \in Seq(Nat), NEW x \in Nat, placed' = Append(placed, x)
  PROVE  /\ placed' \in Seq(Nat) /\ ToSet(placed)' = ToSet(placed) \cup {x}
         /\ LastPlaced(x)' = Len(placed) + 1
         /\ \A y \in ToSet(placed) \ {x} : LastPlaced(y)' = LastPlaced(y)
<1>1. /\ placed' \in Seq(Nat) /\ Len(placed') = Len(placed) + 1 /\ Len(placed) \in Nat
      /\ \A i \in 1 .. Len(placed) : placed'[i] = placed[i]
      /\ placed'[Len(placed) + 1] = x
  BY AppendProperties
<1>2. DOMAIN placed' = 1 .. Len(placed) + 1 /\ DOMAIN placed = 1 .. Len(placed)
  BY <1>1
<1>3. ToSet(placed)' = ToSet(placed) \cup {x}
  BY <1>1, <1>2 DEF ToSet
<1>4. LastPlaced(x)' = Len(placed) + 1
  <2> DEFINE P == {i \in DOMAIN placed' : placed'[i] = x}
  <2>1. /\ P \in SUBSET (1 .. Len(placed) + 1) /\ Len(placed) + 1 \in P
        /\ \A i \in P : i <= Len(placed) + 1
    BY <1>1, <1>2
  <2> HIDE DEF P
  <2>2. Len(placed) + 1 \in Nat
    BY <1>1
  <2>3. Max(P) = Len(placed) + 1
    BY <2>1, <2>2, MaxIs
  <2>4. QED
    BY <2>3 DEF P, LastPlaced
<1>5. ASSUME NEW y \in ToSet(placed) \ {x} PROVE LastPlaced(y)' = LastPlaced(y)
  <2>1. PICK n \in 1 .. Len(placed) :
          /\ n = LastPlaced(y) /\ placed[n] = y
          /\ \A i \in 1 .. Len(placed) : placed[i] = y => i <= n
    BY LastPlacedIs
  <2>2. n \in 1 .. Len(placed') /\ placed'[n] = y
    BY <1>1, <2>1
  <2>3. ASSUME NEW i \in 1 .. Len(placed'), placed'[i] = y PROVE i <= n
    <3>1. i \in 1 .. Len(placed) \/ i = Len(placed) + 1
      BY <1>1
    <3>2. i \in 1 .. Len(placed)
      BY <1>1, <2>3, <3>1
    <3>3. QED
      BY <1>1, <2>1, <2>3, <3>2
  <2>4. LastPlaced(y)' = n
    <3> DEFINE P == {i \in DOMAIN placed' : placed'[i] = y}
    <3>1. P \in SUBSET (1 .. Len(placed) + 1) /\ n \in P /\ \A i \in P : i <= n
      BY <1>1, <1>2, <2>2, <2>3
    <3> HIDE DEF P
    <3>2. Len(placed) + 1 \in Nat
      BY <1>1
    <3>3. Max(P) = n
      BY <3>1, <3>2, MaxIs
    <3>4. QED
      BY <3>3 DEF P, LastPlaced
  <2>5. QED
    BY <2>1, <2>4
<1>6. QED
  BY <1>1, <1>3, <1>4, <1>5

\* What WorkspaceIsSound says of the slots,
SlotsAgree ==
    /\ \A i, j \in DOMAIN hot : i < j => LastPlaced(hot[i]) > LastPlaced(hot[j])
    /\ \A x \in ToSet(placed) \ ToSet(hot) :
         Len(hot) = 3 /\ \A i \in DOMAIN hot : LastPlaced(hot[i]) > LastPlaced(x)

\* with what it rests on.
SlotsInv ==
    /\ hot \in Seq(Nat) /\ placed \in Seq(Nat) /\ Len(hot) <= 3
    /\ ToSet(hot) \subseteq ToSet(placed)
    /\ SlotsAgree

\* What is hot or was is placed.
LEMMA HotAges ==
  ASSUME SlotsInv
  PROVE  /\ \A i \in 1 .. Len(hot) :
              hot[i] \in ToSet(placed) /\ LastPlaced(hot[i]) \in 1 .. Len(placed)
         /\ \A y \in ToSet(placed) : LastPlaced(y) \in 1 .. Len(placed)
<1>0. /\ hot \in Seq(Nat) /\ placed \in Seq(Nat) /\ ToSet(hot) \subseteq ToSet(placed)
  BY DEF SlotsInv
<1>1. ASSUME NEW y \in ToSet(placed) PROVE LastPlaced(y) \in 1 .. Len(placed)
  BY <1>0, LastPlacedIs
<1>2. ASSUME NEW i \in 1 .. Len(hot) PROVE hot[i] \in ToSet(placed)
  <2>1. hot[i] \in ToSet(hot)
    BY <1>0 DEF ToSet
  <2>2. QED
    BY <1>0, <2>1
<1>3. QED
  BY <1>1, <1>2

\* No topic is in two slots.
LEMMA HotOnce ==
  ASSUME SlotsInv
  PROVE  \A i, j \in DOMAIN hot : hot[i] = hot[j] => i = j
<1>1. DOMAIN hot = 1 .. Len(hot) /\ Len(hot) \in Nat
  BY DEF SlotsInv
<1>2. ASSUME NEW i \in 1 .. Len(hot), NEW j \in 1 .. Len(hot), i < j PROVE hot[i] # hot[j]
  <2>1. LastPlaced(hot[i]) > LastPlaced(hot[j])
    BY <1>1, <1>2 DEF SlotsInv, SlotsAgree
  <2>2. LastPlaced(hot[i]) \in 1 .. Len(placed) /\ Len(placed) \in Nat
    BY HotAges DEF SlotsInv
  <2>3. LastPlaced(hot[i]) \in Nat
    BY <2>2
  <2>4. QED
    BY <2>1, <2>3
<1>3. QED
  BY <1>1, <1>2

\* A topic goes to the front, others keep their order behind it, and what
\* leaves the slots was behind all that stays.
LEMMA Reordered ==
  ASSUME SlotsInv, NEW x \in Nat, placed' = Append(placed, x),
         hot' \in Seq(Nat), Len(hot') \in 1 .. 3, hot'[1] = x,
         Len(hot) = 3 => Len(hot') = 3,
         NEW from \in [2 .. Len(hot') -> 1 .. Len(hot)],
         \A i, j \in 2 .. Len(hot') : i < j => from[i] < from[j],
         \A i \in 2 .. Len(hot') : hot'[i] = hot[from[i]] /\ hot'[i] # x,
         \A j \in 1 .. Len(hot) :
           \/ hot[j] \in ToSet(hot)'
           \/ Len(hot') = 3 /\ \A i \in 2 .. 3 : from[i] < j
  PROVE  SlotsInv'
<1>0. /\ hot \in Seq(Nat) /\ placed \in Seq(Nat) /\ Len(hot) <= 3
      /\ ToSet(hot) \subseteq ToSet(placed) /\ SlotsAgree
  BY DEF SlotsInv
<1>1. /\ Len(hot) \in Nat /\ Len(hot') \in Nat /\ Len(placed) \in Nat
      /\ 1 <= Len(hot') /\ Len(hot') <= 3
      /\ DOMAIN hot = 1 .. Len(hot) /\ DOMAIN hot' = 1 .. Len(hot')
  <2>1. Len(hot) \in Nat /\ Len(hot') \in Nat /\ Len(placed) \in Nat
    BY <1>0
  <2>2. 1 <= Len(hot') /\ Len(hot') <= 3
    <3>1. \A n \in 1 .. 3 : 1 <= n /\ n <= 3
      OBVIOUS
    <3>2. QED
      BY <3>1, Zenon
  <2>3. DOMAIN hot = 1 .. Len(hot) /\ DOMAIN hot' = 1 .. Len(hot')
    BY <1>0
  <2>4. QED
    BY <2>1, <2>2, <2>3
<1>2. /\ placed' \in Seq(Nat) /\ ToSet(placed)' = ToSet(placed) \cup {x}
      /\ LastPlaced(x)' = Len(placed) + 1
      /\ \A y \in ToSet(placed) \ {x} : LastPlaced(y)' = LastPlaced(y)
  BY <1>0, LastPlacedNext
<1>3. ASSUME NEW y \in ToSet(placed) PROVE LastPlaced(y) \in Nat /\ LastPlaced(y) <= Len(placed)
  <2>1. LastPlaced(y) \in 1 .. Len(placed)
    BY HotAges
  <2>2. QED
    BY <1>1, <2>1
<1>4. ASSUME NEW i \in 2 .. Len(hot')
      PROVE  /\ hot'[i] \in ToSet(placed)
             /\ LastPlaced(hot[i])' = LastPlaced(hot[from[i]])
             /\ LastPlaced(hot[from[i]]) \in Nat /\ LastPlaced(hot[from[i]]) <= Len(placed)
  <2>1. PICK y : y = hot'[i]
    OBVIOUS
  <2>2. y = hot[from[i]] /\ y # x
    BY <2>1
  <2>3. from[i] \in 1 .. Len(hot)
    OBVIOUS
  <2>4. y \in ToSet(placed)
    BY <2>2, <2>3, HotAges
  <2>5. LastPlaced(y)' = LastPlaced(y)
    BY <1>2, <2>2, <2>4
  <2>6. LastPlaced(hot[i])' = LastPlaced(y)'
    BY <2>1 DEF LastPlaced
  <2>7. LastPlaced(hot[i])' = LastPlaced(hot[from[i]])
    BY <2>2, <2>5, <2>6
  <2>8. LastPlaced(hot[from[i]]) \in Nat /\ LastPlaced(hot[from[i]]) <= Len(placed)
    BY <1>3, <2>2, <2>4
  <2>9. QED
    BY <2>1, <2>4, <2>7, <2>8
<1>5. LastPlaced(hot[1])' = Len(placed) + 1
  <2>1. PICK y \in Nat : y = x
    OBVIOUS
  <2>2. LastPlaced(hot[1])' = LastPlaced(x)'
    BY DEF LastPlaced
  <2>3. QED
    BY <1>2, <2>2
<1>6. ToSet(hot)' \subseteq ToSet(placed)' /\ x \in ToSet(hot)'
  <2>1. ASSUME NEW i \in 1 .. Len(hot') PROVE hot'[i] \in ToSet(placed)'
    <3>1. CASE i = 1
      BY <1>2, <3>1
    <3>2. CASE i # 1
      <4>1. i \in 2 .. Len(hot')
        BY <1>1, <3>2
      <4>2. QED
        BY <1>2, <1>4, <4>1
    <3>3. QED
      BY <3>1, <3>2
  <2>2. ToSet(hot)' = {hot'[i] : i \in 1 .. Len(hot')}
    BY <1>1 DEF ToSet
  <2>3. 1 \in 1 .. Len(hot')
    BY <1>1
  <2>4. QED
    BY <2>1, <2>2, <2>3
<1>7. ASSUME NEW i \in DOMAIN hot', NEW j \in DOMAIN hot', i < j
      PROVE  LastPlaced(hot[i])' > LastPlaced(hot[j])'
  <2>1. j \in 2 .. Len(hot') /\ (i = 1 \/ i \in 2 .. Len(hot'))
    BY <1>1, <1>7
  <2>2. CASE i = 1
    <3>1. LastPlaced(hot[j])' \in Nat /\ LastPlaced(hot[j])' <= Len(placed)
      BY <1>4, <2>1
    <3>2. LastPlaced(hot[i])' = Len(placed) + 1
      BY <1>5, <2>2
    <3>3. QED
      BY <1>1, <3>1, <3>2
  <2>3. CASE i \in 2 .. Len(hot')
    <3>1. from[i] \in DOMAIN hot /\ from[j] \in DOMAIN hot /\ from[i] < from[j]
      BY <1>1, <1>7, <2>1, <2>3
    <3>2. LastPlaced(hot[from[i]]) > LastPlaced(hot[from[j]])
      BY <1>0, <3>1 DEF SlotsAgree
    <3>3. LastPlaced(hot[i])' = LastPlaced(hot[from[i]]) /\ LastPlaced(hot[j])' = LastPlaced(hot[from[j]])
      BY <1>4, <2>1, <2>3
    <3>4. QED
      BY <3>2, <3>3
  <2>4. QED
    BY <2>1, <2>2, <2>3
<1>8. ASSUME NEW y \in ToSet(placed)' \ ToSet(hot)'
      PROVE  Len(hot') = 3 /\ \A i \in DOMAIN hot' : LastPlaced(hot[i])' > LastPlaced(y)'
  <2>1. y # x /\ y \in ToSet(placed)
    BY <1>2, <1>6
  <2>2. LastPlaced(y)' = LastPlaced(y) /\ LastPlaced(y) \in Nat /\ LastPlaced(y) <= Len(placed)
    BY <1>2, <1>3, <2>1
  <2>3. Len(hot') = 3 /\ \A i \in 2 .. Len(hot') : LastPlaced(hot[from[i]]) > LastPlaced(y)
    <3>1. CASE y \in ToSet(hot)
      <4>1. PICK j \in 1 .. Len(hot) : y = hot[j]
        BY <1>1, <3>1 DEF ToSet
      <4>2. Len(hot') = 3 /\ \A i \in 2 .. 3 : from[i] < j
        BY <4>1
      <4>3. ASSUME NEW i \in 2 .. 3 PROVE LastPlaced(hot[from[i]]) > LastPlaced(hot[j])
        <5>1. from[i] \in DOMAIN hot /\ j \in DOMAIN hot /\ from[i] < j
          BY <1>1, <4>2
        <5>2. QED
          BY <1>0, <5>1 DEF SlotsAgree
      <4>4. QED
        BY <4>1, <4>2, <4>3
    <3>2. CASE y \notin ToSet(hot)
      <4>1. Len(hot) = 3 /\ \A i \in DOMAIN hot : LastPlaced(hot[i]) > LastPlaced(y)
        BY <1>0, <2>1, <3>2 DEF SlotsAgree
      <4>2. \A i \in 2 .. Len(hot') : from[i] \in DOMAIN hot
        BY <1>1
      <4>3. QED
        BY <4>1, <4>2
    <3>3. QED
      BY <3>1, <3>2
  <2>4. ASSUME NEW i \in DOMAIN hot' PROVE LastPlaced(hot[i])' > LastPlaced(y)
    <3>1. CASE i = 1
      <4>1. LastPlaced(hot[i])' = Len(placed) + 1
        BY <1>5, <3>1
      <4>2. QED
        BY <1>1, <2>2, <4>1
    <3>2. CASE i # 1
      <4>1. i \in 2 .. Len(hot')
        BY <1>1, <3>2
      <4>2. QED
        BY <1>4, <2>3, <4>1
    <3>3. QED
      BY <3>1, <3>2
  <2>5. QED
    BY <2>2, <2>3, <2>4
<1>9. SlotsAgree'
  BY <1>7, <1>8 DEF SlotsAgree
<1>10. QED
  BY <1>1, <1>2, <1>6, <1>9 DEF SlotsInv

\* The topic that goes to the front was in slot k,
LEMMA FromSlot ==
  ASSUME SlotsInv, NEW x \in Nat, placed' = Append(placed, x),
         NEW k \in 1 .. Len(hot), x = hot[k],
         hot' \in Seq(Nat), Len(hot') = Len(hot), hot'[1] = x,
         \A i \in 2 .. Len(hot) : hot'[i] = IF i <= k THEN hot[i - 1] ELSE hot[i]
  PROVE  SlotsInv'
<1>1. /\ hot \in Seq(Nat) /\ Len(hot) \in Nat /\ Len(hot) <= 3 /\ DOMAIN hot = 1 .. Len(hot)
      /\ DOMAIN hot' = 1 .. Len(hot)
  BY DEF SlotsInv
<1>2. \A i, j \in DOMAIN hot : hot[i] = hot[j] => i = j
  BY HotOnce
<1>3. k \in Nat /\ 1 <= k /\ k <= Len(hot)
  BY <1>1
<1> DEFINE from == [i \in 2 .. Len(hot) |-> IF i <= k THEN i - 1 ELSE i]
<1>4. ASSUME NEW i \in 2 .. Len(hot)
      PROVE  from[i] \in 1 .. Len(hot) /\ from[i] # k /\ from[i] = IF i <= k THEN i - 1 ELSE i
  BY <1>1, <1>3
<1>5. from \in [2 .. Len(hot') -> 1 .. Len(hot)]
  BY <1>4
<1>6. \A i, j \in 2 .. Len(hot') : i < j => from[i] < from[j]
  BY <1>1, <1>3
<1> HIDE DEF from
<1>7. ASSUME NEW i \in 2 .. Len(hot') PROVE hot'[i] = hot[from[i]] /\ hot'[i] # x
  <2>1. hot'[i] = hot[from[i]]
    BY <1>4
  <2>2. hot[from[i]] # hot[k]
    BY <1>1, <1>2, <1>4
  <2>3. QED
    BY <2>1, <2>2
<1>8. ASSUME NEW j \in 1 .. Len(hot) PROVE hot[j] \in ToSet(hot)'
  <2>1. CASE j < k
    <3>1. j + 1 \in 2 .. Len(hot') /\ j + 1 <= k /\ j + 1 - 1 = j /\ j + 1 \in DOMAIN hot'
      BY <1>1, <1>3, <2>1
    <3>2. hot'[j + 1] = hot[j]
      BY <1>4, <1>7, <3>1
    <3>3. QED
      BY <3>1, <3>2 DEF ToSet
  <2>2. CASE j = k
    <3>1. 1 \in DOMAIN hot'
      BY <1>1, <1>3
    <3>2. QED
      BY <2>2, <3>1 DEF ToSet
  <2>3. CASE j > k
    <3>1. j \in 2 .. Len(hot') /\ ~(j <= k) /\ j \in DOMAIN hot'
      BY <1>1, <1>3, <2>3
    <3>2. hot'[j] = hot[j]
      BY <1>4, <1>7, <3>1
    <3>3. QED
      BY <3>1, <3>2 DEF ToSet
  <2>4. QED
    BY <1>1, <1>3, <2>1, <2>2, <2>3
<1>9. Len(hot') \in 1 .. 3 /\ (Len(hot) = 3 => Len(hot') = 3)
  <2>0. \A n \in Nat : 1 <= n /\ n <= 3 => n \in 1 .. 3
    OBVIOUS
  <2>1. Len(hot) \in 1 .. 3
    <3>1. 1 <= Len(hot)
      BY <1>1, <1>3
    <3>2. QED
      BY <1>1, <2>0, <3>1
  <2>2. QED
    BY <2>1
<1>10. QED
  BY <1>5, <1>6, <1>7, <1>8, <1>9, Reordered

\* or in none, and the third topic leaves.
LEMMA FromOutside ==
  ASSUME SlotsInv, NEW x \in Nat, placed' = Append(placed, x),
         \A i \in 1 .. Len(hot) : hot[i] # x,
         hot' \in Seq(Nat), Len(hot') = IF Len(hot) < 2 THEN Len(hot) + 1 ELSE 3, hot'[1] = x,
         \A i \in 2 .. Len(hot') : hot'[i] = hot[i - 1]
  PROVE  SlotsInv'
<1>1. hot \in Seq(Nat) /\ Len(hot) \in Nat /\ Len(hot) <= 3 /\ DOMAIN hot = 1 .. Len(hot)
  BY DEF SlotsInv
<1>2. DOMAIN hot' = 1 .. Len(hot') /\ Len(hot') \in Nat
  <2>1. \A s \in Seq(Nat) : DOMAIN s = 1 .. Len(s) /\ Len(s) \in Nat
    OBVIOUS
  <2>2. QED
    BY <2>1, Zenon
<1>3. Len(hot') = Len(hot) + 1 \/ (Len(hot) = 3 /\ Len(hot') = 3)
  <2>1. CASE Len(hot) < 2
    BY <2>1
  <2>2. CASE ~(Len(hot) < 2)
    <3>1. \A n \in Nat : n <= 3 /\ ~(n < 2) => n = 2 \/ n = 3
      OBVIOUS
    <3>2. Len(hot) = 2 \/ Len(hot) = 3
      BY <1>1, <2>2, <3>1, Zenon
    <3>3. QED
      BY <2>2, <3>2
  <2>3. QED
    BY <2>1, <2>2
<1>4. 1 <= Len(hot') /\ Len(hot') <= 3 /\ Len(hot') <= Len(hot) + 1
  BY <1>1
<1> DEFINE from == [i \in 2 .. Len(hot') |-> i - 1]
<1>5. ASSUME NEW i \in 2 .. Len(hot') PROVE from[i] \in 1 .. Len(hot) /\ from[i] = i - 1
  <2>1. i \in Nat /\ 2 <= i /\ i <= Len(hot')
    BY <1>2
  <2>2. i - 1 \in 1 .. Len(hot)
    BY <1>1, <1>2, <1>4, <2>1
  <2>3. QED
    BY <2>2
<1>6. from \in [2 .. Len(hot') -> 1 .. Len(hot)]
  BY <1>5
<1> HIDE DEF from
<1>7. \A i, j \in 2 .. Len(hot') : i < j => from[i] < from[j]
  <2>1. \A i \in 2 .. Len(hot') : i \in Nat
    BY <1>2
  <2>2. QED
    BY <1>5, <2>1
<1>8. \A i \in 2 .. Len(hot') : hot'[i] = hot[from[i]] /\ hot'[i] # x
  BY <1>5
<1>9. ASSUME NEW j \in 1 .. Len(hot)
      PROVE  \/ hot[j] \in ToSet(hot)'
             \/ Len(hot') = 3 /\ \A i \in 2 .. 3 : from[i] < j
  <2>1. CASE j + 1 <= Len(hot')
    <3>1. j + 1 \in 2 .. Len(hot') /\ j + 1 - 1 = j /\ j + 1 \in DOMAIN hot'
      BY <1>1, <1>2, <2>1
    <3>2. hot'[j + 1] = hot[j]
      BY <3>1
    <3>3. QED
      BY <3>1, <3>2 DEF ToSet
  <2>2. CASE ~(j + 1 <= Len(hot'))
    <3>1. Len(hot') = 3 /\ j = 3
      BY <1>1, <1>3, <2>2
    <3>2. \A i \in 2 .. 3 : from[i] = i - 1
      BY <1>5, <3>1
    <3>3. QED
      BY <3>1, <3>2
  <2>3. QED
    BY <2>1, <2>2
<1>10. Len(hot') \in 1 .. 3 /\ (Len(hot) = 3 => Len(hot') = 3)
  <2>1. \A n \in Nat : 1 <= n /\ n <= 3 => n \in 1 .. 3
    OBVIOUS
  <2>2. Len(hot') \in 1 .. 3
    BY <1>2, <1>4, <2>1
  <2>3. QED
    BY <2>2
<1>11. QED
  BY <1>6, <1>7, <1>8, <1>9, <1>10, Reordered

\* So a placing, whichever topic it is of, keeps the slots in order.
LEMMA PlacedInFront ==
  ASSUME SlotsInv, NEW x \in Nat, hot' = InFront(x), placed' = Append(placed, x)
  PROVE  SlotsInv'
<1>1. hot \in Seq(Nat) /\ Len(hot) \in Nat /\ Len(hot) <= 3 /\ DOMAIN hot = 1 .. Len(hot)
  BY DEF SlotsInv
<1>2. \A i, j \in DOMAIN hot : hot[i] = hot[j] => i = j
  BY HotOnce
<1>3. ASSUME NEW k \in 1 .. Len(hot), x = hot[k] PROVE SlotsInv'
  <2>1. /\ Others(x) \in Seq(Nat) /\ Len(Others(x)) = Len(hot) - 1
        /\ \A i \in 1 .. Len(hot) - 1 : Others(x)[i] = IF i < k THEN hot[i] ELSE hot[i + 1]
    BY <1>1, <1>2, <1>3, OthersOfOne
  <2>2. /\ InFront(x) \in Seq(Nat)
        /\ Len(InFront(x)) = IF Len(Others(x)) < 2 THEN Len(Others(x)) + 1 ELSE 3
        /\ InFront(x)[1] = x
        /\ \A i \in 2 .. Len(InFront(x)) : InFront(x)[i] = Others(x)[i - 1]
    BY <2>1, InFrontIs
  <2>3. Len(InFront(x)) = Len(hot)
    <3>1. \A n \in Nat : n <= 3 /\ n # 0 => n = IF n - 1 < 2 THEN n - 1 + 1 ELSE 3
      OBVIOUS
    <3>2. Len(hot) # 0
      BY <1>1
    <3>3. QED
      BY <1>1, <2>1, <2>2, <3>1, <3>2
  <2>4. ASSUME NEW i \in 2 .. Len(hot)
        PROVE  InFront(x)[i] = IF i <= k THEN hot[i - 1] ELSE hot[i]
    <3>1. i - 1 \in 1 .. Len(hot) - 1 /\ i - 1 + 1 = i /\ (i - 1 < k <=> i <= k)
      BY <1>1
    <3>2. QED
      BY <2>1, <2>2, <2>3, <3>1
  <2>5. QED
    BY <1>3, <2>2, <2>3, <2>4, FromSlot
<1>4. ASSUME \A i \in 1 .. Len(hot) : hot[i] # x PROVE SlotsInv'
  <2>1. Others(x) = hot
    BY <1>1, <1>4, OthersOfNone
  <2>2. /\ InFront(x) \in Seq(Nat)
        /\ Len(InFront(x)) = IF Len(hot) < 2 THEN Len(hot) + 1 ELSE 3
        /\ InFront(x)[1] = x
        /\ \A i \in 2 .. Len(InFront(x)) : InFront(x)[i] = hot[i - 1]
    BY <1>1, <2>1, InFrontIs
  <2>3. QED
    BY <1>4, <2>2, FromOutside
<1>5. QED
  BY <1>3, <1>4

-----------------------------------------------------------------------------
(* The invariant of the workspace *)

\* What evidence can be about.
Subject == Asset \cup {NoAsset}
\* What a turn can be decided to do.
Action == {"NEW_TOPIC", "RESUME_COLD_TOPIC", "CONTINUE_CURRENT", "RESUME_PREVIOUS_1", "RESUME_PREVIOUS_2"}
TurnRecord ==
    [pc : {"idle", "ready", "waiting", "unfound", "active", "done"}, action : Action,
     topic : Nat, asset : BOOLEAN, about : Subject, active : Subject, home : Nat,
     homes : SUBSET Nat, inputs : SUBSET Nat]
Fact == [kind : Kind, turn : Turn \cup {0}, home : Nat, subject : Subject, over : Nat, parents : SUBSET Nat]

\* The types of the workspace.
Typed ==
    /\ topics \in Seq(Subject) /\ anchor \in Subject
    /\ course \in [Turn -> TurnRecord] /\ facts \in Seq(Fact)

\* Every topic that is named exists.
TopicsExist ==
    /\ ToSet(placed) \subseteq 1 .. Len(topics)
    /\ \A t \in Turn : course[t].topic \in 0 .. Len(topics) /\ course[t].homes \subseteq 1 .. Len(topics)
    /\ \A i \in 1 .. Len(facts) : facts[i].home \in 1 .. Len(topics)

\* A turn is on one of its topics, and its INPUTs are evidence of them.
CourseInv ==
    \A t \in Turn :
      /\ \A i \in course[t].inputs : i \in 1 .. Len(facts) /\ facts[i].home \in course[t].homes
      /\ course[t].pc = "active" => course[t].home # 0 /\ course[t].home \in course[t].homes
      /\ course[t].pc # "active" => course[t].home = 0
      /\ course[t].pc = "unfound" => course[t].homes = {} 

\* Evidence is of turns that are done or of none, that of one turn in a row.
FactsInv ==
    /\ \A i \in 1 .. Len(facts) : facts[i].turn # 0 => course[facts[i].turn].pc = "done"
    /\ \A i, j, k \in 1 .. Len(facts) :
         i < j /\ j < k /\ facts[i].turn = facts[k].turn => facts[j].turn = facts[i].turn

\* What WorkspaceIsSound says of readings that are superseded: only readings are.
Superseding ==
    /\ \A i \in 1 .. Len(facts) : facts[i].over # 0 =>
         /\ facts[i].over < i /\ facts[i].kind = "reading"
         /\ facts[facts[i].over].turn # facts[i].turn
         /\ facts[facts[i].over].subject = facts[i].subject
    /\ \A i, j \in 1 .. Len(facts) : facts[i].over # 0 /\ facts[j].over = facts[i].over => j = i

\* The turns that were placed on one topic.
OfOneTopic == {t \in Turn : Cardinality(course[t].homes) = 1}

\* What it says of evidence that is derived, always by a turn.
Lineage ==
    \A i \in 1 .. Len(facts) : \A j \in facts[i].parents :
      /\ j \in 1 .. Len(facts) /\ j # i /\ facts[i].turn \in Turn
      /\ facts[i].turn \in OfOneTopic => facts[j].home = facts[i].home

\* Inductive: the slots do not depend on the evidence, and the evidence only on
\* turns that are done.
WorkspaceInv ==
    Typed /\ TopicsExist /\ SlotsInv /\ CourseInv /\ FactsInv /\ Superseding /\ Lineage

\* The topic that a turn is placed on exists, or is yet to be created.
LEMMA TargetExists ==
  ASSUME Typed, SlotsInv, TopicsExist, NEW t \in Turn
  PROVE  Target(course[t]) \in 0 .. Len(topics)
<1>1. course[t] \in TurnRecord /\ course[t].topic \in 0 .. Len(topics)
  BY DEF Typed, TopicsExist
<1>2. ASSUME course[t].action \in DOMAIN Slot, Slot[course[t].action] <= Len(hot)
      PROVE  hot[Slot[course[t].action]] \in 0 .. Len(topics)
  <2>1. Slot[course[t].action] \in 1 .. 3
    BY <1>2 DEF Slot
  <2>2. Slot[course[t].action] \in 1 .. Len(hot)
    BY <1>2, <2>1 DEF SlotsInv
  <2>3. hot[Slot[course[t].action]] \in ToSet(placed)
    BY <2>2, HotAges
  <2>4. hot[Slot[course[t].action]] \in 1 .. Len(topics)
    BY <2>3 DEF TopicsExist
  <2>5. QED
    BY <2>4
<1>3. 0 \in 0 .. Len(topics)
  BY DEF Typed
<1>4. QED
  BY <1>1, <1>2, <1>3 DEF Target

\* So does the one a catalogue offers.
LEMMA DecisionTyped ==
  ASSUME Typed, SlotsInv, TopicsExist, NEW decision \in Decisions
  PROVE  decision[1] \in Action /\ decision[2] \in 0 .. Len(topics)
<1>1. CASE decision = <<"NEW_TOPIC", 0>>
  BY <1>1 DEF Typed, Action
<1>2. ASSUME NEW x \in Cold, decision = <<"RESUME_COLD_TOPIC", x>>
      PROVE  decision[1] \in Action /\ decision[2] \in 0 .. Len(topics)
  BY <1>2 DEF Typed, Action, Cold
<1>3. ASSUME NEW k \in DOMAIN Slot, Slot[k] <= Len(hot), decision = <<k, hot[Slot[k]]>>
      PROVE  decision[1] \in Action /\ decision[2] \in 0 .. Len(topics)
  <2>1. Slot[k] \in 1 .. 3 /\ k \in Action
    BY DEF Slot, Action
  <2>2. Slot[k] \in 1 .. Len(hot)
    BY <1>3, <2>1 DEF SlotsInv
  <2>3. hot[Slot[k]] \in 1 .. Len(topics)
    BY <2>2, HotAges DEF TopicsExist
  <2>4. QED
    BY <1>3, <2>1, <2>3
<1>4. QED
  BY <1>1, <1>2, <1>3 DEF Decisions

\* Without a placing the slots stay in order.
LEMMA SlotsKept ==
  ASSUME SlotsInv, hot' = hot, placed' = placed
  PROVE  SlotsInv' /\ ToSet(placed)' = ToSet(placed)
<1>1. ToSet(placed)' = ToSet(placed) /\ ToSet(hot)' = ToSet(hot)
  BY DEF ToSet
<1>2. \A x : LastPlaced(x)' = LastPlaced(x)
  BY DEF LastPlaced
<1>3. \A i : LastPlaced(hot[i])' = LastPlaced(hot[i])
  BY DEF LastPlaced
<1>4. SlotsAgree'
  BY <1>1, <1>2, <1>3 DEF SlotsInv, SlotsAgree
<1>5. QED
  BY <1>1, <1>4 DEF SlotsInv

\* No turn has the number that stands for none.
LEMMA TurnsArePositive == \A t \in Turn : t # 0
  BY WorkspaceAssumption DEF Turn

\* A turn that is not done changes, and with it no evidence.
LEMMA TurnMoves ==
  ASSUME WorkspaceInv, NEW t \in Turn, NEW record \in TurnRecord,
         course[t].pc # "done", Set(t, record), facts' = facts,
         topics' \in Seq(Subject), Len(topics) <= Len(topics'), anchor' \in Subject,
         SlotsInv', ToSet(placed)' \subseteq 1 .. Len(topics'),
         record.topic \in 0 .. Len(topics'), record.homes \subseteq 1 .. Len(topics'),
         \A i \in record.inputs : i \in 1 .. Len(facts) /\ facts[i].home \in record.homes,
         record.pc = "active" => record.home # 0 /\ record.home \in record.homes,
         record.pc # "active" => record.home = 0,
         record.pc = "unfound" => record.homes = {}
  PROVE  WorkspaceInv'
<1>1. Typed /\ TopicsExist /\ SlotsInv /\ CourseInv /\ FactsInv /\ Superseding /\ Lineage
  BY DEF WorkspaceInv
<1>2. /\ course' \in [Turn -> TurnRecord] /\ course'[t] = record
      /\ \A u \in Turn : u # t => course'[u] = course[u]
  BY <1>1 DEF Typed, Set
<1>3. Len(topics) \in Nat /\ Len(topics') \in Nat /\ Len(facts) \in Nat
  BY <1>1 DEF Typed
<1>4. \A n : (n \in 1 .. Len(topics) => n \in 1 .. Len(topics')) /\ (n \in 0 .. Len(topics) => n \in 0 .. Len(topics'))
  BY <1>3
<1>5. Typed'
  BY <1>1, <1>2 DEF Typed
<1>6. TopicsExist'
  <2>1. ASSUME NEW u \in Turn PROVE course'[u].topic \in 0 .. Len(topics') /\ course'[u].homes \subseteq 1 .. Len(topics')
    <3>1. CASE u = t
      BY <1>2, <3>1
    <3>2. CASE u # t
      BY <1>1, <1>2, <1>4, <3>2 DEF TopicsExist
    <3>3. QED
      BY <3>1, <3>2
  <2>2. \A i \in 1 .. Len(facts) : facts[i].home \in 1 .. Len(topics')
    BY <1>1, <1>4 DEF TopicsExist
  <2>3. QED
    BY <2>1, <2>2 DEF TopicsExist
<1>7. CourseInv'
  BY <1>1, <1>2 DEF CourseInv
<1>8. \A i \in 1 .. Len(facts) : facts[i].turn # 0 => course'[facts[i].turn] = course[facts[i].turn]
  <2>1. ASSUME NEW i \in 1 .. Len(facts), facts[i].turn # 0
        PROVE  facts[i].turn \in Turn /\ course[facts[i].turn].pc = "done"
    <3>1. facts[i] \in Fact
      BY <1>1 DEF Typed
    <3>2. course[facts[i].turn].pc = "done"
      BY <1>1, <2>1 DEF FactsInv
    <3>3. QED
      BY <2>1, <3>1, <3>2 DEF Fact
  <2>2. QED
    BY <1>2, <2>1
<1>9. FactsInv' /\ Superseding'
  BY <1>1, <1>8 DEF FactsInv, Superseding
<1>10. Lineage'
  <2>1. \A i \in 1 .. Len(facts) : facts[i].turn \in OfOneTopic' => facts[i].turn \in OfOneTopic
    BY <1>8, TurnsArePositive DEF OfOneTopic
  <2>2. QED
    BY <1>1, <2>1 DEF Lineage
<1>11. QED
  BY <1>5, <1>6, <1>7, <1>9, <1>10 DEF WorkspaceInv

\* While there are no topics no turn was placed and no evidence is kept: what
\* the history leaves is all there is, and was superseded by nothing.
LEMMA InvMigrate ==
  ASSUME WorkspaceInv, NEW kinds \in History, Migrate(kinds)
  PROVE  WorkspaceInv'
<1>1. Typed /\ TopicsExist /\ SlotsInv /\ CourseInv /\ FactsInv /\ Superseding /\ Lineage
  BY DEF WorkspaceInv
<1>2. /\ topics = <<>> /\ topics' = <<NoAsset>> /\ hot' = <<1>> /\ placed' = <<1>>
      /\ facts' = [i \in DOMAIN kinds |->
                     [kind |-> kinds[i], turn |-> 0, home |-> 1, subject |-> NoAsset, over |-> 0, parents |-> {}]]
      /\ anchor' = anchor /\ course' = course
  BY DEF Migrate
<1>3. topics' \in Seq(Subject) /\ Len(topics') = 1 /\ Len(topics) = 0
  BY <1>2 DEF Subject
<1>4. PICK n \in Nat : kinds \in [1 .. n -> {"reading", "history"}]
  BY WorkspaceAssumption DEF History
<1>5. /\ facts' \in Seq(Fact) /\ Len(facts') = n
      /\ \A i \in 1 .. n : /\ facts'[i].turn = 0 /\ facts'[i].home = 1
                           /\ facts'[i].over = 0 /\ facts'[i].parents = {}
  <2> DEFINE new(i) == [kind |-> kinds[i], turn |-> 0, home |-> 1, subject |-> NoAsset, over |-> 0, parents |-> {}]
  <2>1. \A i \in 1 .. n : /\ new(i) \in Fact /\ new(i).turn = 0 /\ new(i).home = 1
                          /\ new(i).over = 0 /\ new(i).parents = {}
    BY <1>4 DEF Fact, Kind, Subject
  <2>2. facts' = [i \in 1 .. n |-> new(i)]
    BY <1>2, <1>4
  <2> HIDE DEF new
  <2>3. facts' \in Seq(Fact) /\ Len(facts') = n /\ \A i \in 1 .. n : facts'[i] = new(i)
    BY <1>4, <2>1, <2>2
  <2>4. QED
    BY <2>1, <2>3
<1>6. Len(facts) = 0
  <2>1. Len(facts) \in Nat
    BY <1>1 DEF Typed
  <2>2. \A i \in 1 .. Len(facts) : facts[i].home \in 1 .. 0
    BY <1>1, <1>3 DEF TopicsExist
  <2>3. 1 \notin 1 .. Len(facts)
    BY <2>2
  <2>4. QED
    BY <2>1, <2>3
<1>7. SlotsInv' /\ ToSet(placed)' = {1}
  <2>1. /\ hot' \in Seq(Nat) /\ placed' \in Seq(Nat) /\ Len(hot') = 1
        /\ ToSet(hot)' = {1} /\ ToSet(placed)' = {1} /\ DOMAIN hot' = {1}
    BY <1>2 DEF ToSet
  <2>2. SlotsAgree'
    BY <2>1 DEF SlotsAgree
  <2>3. QED
    BY <2>1, <2>2 DEF SlotsInv
<1>8. Typed'
  BY <1>1, <1>2, <1>3, <1>5 DEF Typed
<1>9. TopicsExist'
  <2>1. \A j : (j \in 1 .. Len(topics) => j \in 1 .. Len(topics')) /\ (j \in 0 .. Len(topics) => j \in 0 .. Len(topics'))
    BY <1>3
  <2>2. \A u \in Turn : course'[u].topic \in 0 .. Len(topics') /\ course'[u].homes \subseteq 1 .. Len(topics')
    BY <1>1, <1>2, <2>1 DEF TopicsExist
  <2>3. 1 \in 1 .. Len(topics')
    BY <1>3
  <2>4. \A i \in 1 .. Len(facts') : facts'[i].home \in 1 .. Len(topics')
    BY <1>5, <2>3
  <2>5. ToSet(placed)' \subseteq 1 .. Len(topics')
    BY <1>7, <2>3
  <2>6. QED
    BY <2>2, <2>4, <2>5 DEF TopicsExist
<1>10. CourseInv'
  <2>1. \A u \in Turn : course[u].inputs = {}
    BY <1>1, <1>6 DEF CourseInv
  <2>2. QED
    BY <1>1, <1>2, <2>1 DEF CourseInv
<1>11. FactsInv' /\ Superseding' /\ Lineage'
  BY <1>5 DEF FactsInv, Superseding, Lineage
<1>12. QED
  BY <1>7, <1>8, <1>9, <1>10, <1>11 DEF WorkspaceInv

\* A turn is asked for.
LEMMA InvAskTurn ==
  ASSUME WorkspaceInv, NEW t \in Turn, NEW decision \in Decisions, NEW asset \in BOOLEAN,
         NEW a \in Subject, NEW pc \in {"ready", "waiting", "unfound"}, AskTurn(t, decision, asset, a, pc)
  PROVE  WorkspaceInv'
<1> DEFINE record == [Unasked EXCEPT !.pc = pc, !.action = decision[1], !.topic = decision[2],
                                   !.asset = asset, !.about = a, !.active = anchor]
<1>1. Typed /\ TopicsExist /\ SlotsInv
  BY DEF WorkspaceInv
<1>2. decision[1] \in Action /\ decision[2] \in 0 .. Len(topics) /\ decision[2] \in Nat
  <2>1. decision[1] \in Action /\ decision[2] \in 0 .. Len(topics)
    BY <1>1, DecisionTyped
  <2>2. QED
    BY <2>1
<1>3. /\ course[t].pc = "idle" /\ Set(t, record)
      /\ topics' = topics /\ hot' = hot /\ facts' = facts /\ anchor' = anchor /\ placed' = placed
  BY DEF AskTurn
<1>4. Unasked \in TurnRecord
  BY DEF Unasked, TurnRecord, Action, Subject
<1>5. record \in TurnRecord
  BY <1>1, <1>2, <1>4 DEF TurnRecord, Typed
<1>6. /\ record.topic \in 0 .. Len(topics) /\ record.homes = {} /\ record.inputs = {}
      /\ record.home = 0 /\ record.pc # "active"
  <2>1. Unasked.homes = {} /\ Unasked.inputs = {} /\ Unasked.home = 0
    BY DEF Unasked
  <2>2. /\ record.topic = decision[2] /\ record.homes = Unasked.homes /\ record.inputs = Unasked.inputs
        /\ record.home = Unasked.home /\ record.pc = pc
    BY <1>4 DEF TurnRecord
  <2>3. QED
    BY <1>2, <2>1, <2>2
<1> HIDE DEF record
<1>7. SlotsInv' /\ ToSet(placed)' = ToSet(placed)
  BY <1>1, <1>3, SlotsKept
<1>8. topics' \in Seq(Subject) /\ Len(topics) <= Len(topics') /\ anchor' \in Subject
  BY <1>1, <1>3 DEF Typed
<1>9. ToSet(placed)' \subseteq 1 .. Len(topics')
  BY <1>1, <1>3, <1>7 DEF TopicsExist
<1>10. QED
  BY <1>3, <1>5, <1>6, <1>7, <1>8, <1>9, TurnMoves

\* A run that goes on, or asks, or is resumed leaves the slots alone.
LEMMA InvSameSlots ==
  ASSUME WorkspaceInv, NEW t \in Turn,
         \/ \E a \in Asset : LookEntityUp(t, a) \/ ResumeTurn(t, a)
         \/ Suspend(t)
  PROVE  WorkspaceInv'
<1>1. Typed /\ TopicsExist /\ SlotsInv /\ CourseInv
  BY DEF WorkspaceInv
<1>2. /\ course[t] \in TurnRecord /\ anchor \in Subject
      /\ course[t].topic \in 0 .. Len(topics) /\ course[t].homes \subseteq 1 .. Len(topics)
      /\ \A i \in course[t].inputs : i \in 1 .. Len(facts) /\ facts[i].home \in course[t].homes
      /\ course[t].pc = "active" => course[t].home # 0 /\ course[t].home \in course[t].homes
  BY <1>1 DEF Typed, TopicsExist, CourseInv
<1>3. /\ topics' = topics /\ hot' = hot /\ facts' = facts /\ placed' = placed
      /\ anchor' \in Subject
  BY <1>2 DEF LookEntityUp, ResumeTurn, Suspend, First, TurnRecord
<1>4. /\ SlotsInv' /\ topics' \in Seq(Subject) /\ Len(topics) <= Len(topics')
      /\ ToSet(placed)' \subseteq 1 .. Len(topics')
  <2>1. SlotsInv' /\ ToSet(placed)' = ToSet(placed)
    BY <1>1, <1>3, SlotsKept
  <2>2. topics' \in Seq(Subject) /\ Len(topics) <= Len(topics')
    BY <1>1, <1>3 DEF Typed
  <2>3. ToSet(placed)' \subseteq 1 .. Len(topics')
    BY <1>1, <1>3, <2>1 DEF TopicsExist
  <2>4. QED
    BY <2>1, <2>2, <2>3
<1>5. ASSUME NEW record \in TurnRecord, Set(t, record), course[t].pc # "done",
             record.topic = course[t].topic, record.homes = course[t].homes, record.inputs = course[t].inputs,
             \/ record.pc = "active" /\ record.home = course[t].home /\ course[t].pc = "active"
             \/ record.pc \in {"ready", "waiting"} /\ record.home = 0
      PROVE  WorkspaceInv'
  BY <1>2, <1>3, <1>4, <1>5, TurnMoves
<1>6. ASSUME NEW a \in Asset, LookEntityUp(t, a) PROVE WorkspaceInv'
  <2> DEFINE record == [course[t] EXCEPT !.about = a]
  <2>1. record \in TurnRecord
    BY <1>2 DEF TurnRecord, Subject
  <2>2. /\ record.pc = course[t].pc /\ record.topic = course[t].topic /\ record.homes = course[t].homes
        /\ record.inputs = course[t].inputs /\ record.home = course[t].home
    BY <1>2 DEF TurnRecord
  <2>3. Set(t, record) /\ course[t].pc = "active"
    BY <1>6 DEF LookEntityUp
  <2> HIDE DEF record
  <2>4. QED
    BY <1>5, <2>1, <2>2, <2>3
<1>7. ASSUME NEW a \in Asset, ResumeTurn(t, a) PROVE WorkspaceInv'
  <2> DEFINE record == [course[t] EXCEPT !.pc = "ready", !.about = a, !.active = anchor]
  <2>1. record \in TurnRecord
    BY <1>2 DEF TurnRecord, Subject
  <2>2. /\ record.pc = "ready" /\ record.topic = course[t].topic /\ record.homes = course[t].homes
        /\ record.inputs = course[t].inputs /\ record.home = course[t].home
    BY <1>2 DEF TurnRecord
  <2>3. Set(t, record) /\ course[t].pc = "waiting"
    BY <1>7 DEF ResumeTurn
  <2>4. course[t].home = 0
    BY <1>1, <2>3 DEF CourseInv
  <2> HIDE DEF record
  <2>5. QED
    BY <1>5, <2>1, <2>2, <2>3, <2>4
<1>8. ASSUME Suspend(t) PROVE WorkspaceInv'
  <2> DEFINE record == [course[t] EXCEPT !.pc = "waiting", !.home = 0]
  <2>1. record \in TurnRecord
    BY <1>2 DEF TurnRecord
  <2>2. /\ record.pc = "waiting" /\ record.topic = course[t].topic /\ record.homes = course[t].homes
        /\ record.inputs = course[t].inputs /\ record.home = 0
    BY <1>2 DEF TurnRecord
  <2>3. Set(t, record) /\ course[t].pc = "active"
    BY <1>8 DEF Suspend
  <2> HIDE DEF record
  <2>4. QED
    BY <1>5, <2>1, <2>2, <2>3
<1>9. QED
  BY <1>6, <1>7, <1>8

\* A turn that was decided on is placed on a topic.
LEMMA InvPlace ==
  ASSUME WorkspaceInv, NEW t \in Turn, course[t].pc = "ready",
         topics' \in Seq(Subject), Len(topics) <= Len(topics'), NEW x \in 1 .. Len(topics'),
         NEW a \in Subject, NEW action \in Action, Place(t, x, a, action)
  PROVE  WorkspaceInv'
<1>1. Typed /\ TopicsExist /\ SlotsInv /\ CourseInv
  BY DEF WorkspaceInv
<1>2. PICK reused \in SUBSET Usable(x, a) :
        Set(t, [course[t] EXCEPT !.pc = "active", !.action = action, !.home = x,
                                 !.homes = @ \cup {x}, !.inputs = @ \cup reused])
  BY DEF Place
<1>3. hot' = InFront(x) /\ placed' = Append(placed, x) /\ facts' = facts /\ anchor' = anchor
  BY DEF Place
<1>4. x \in Nat /\ x # 0
  BY <1>1 DEF Typed
<1>5. SlotsInv'
  BY <1>1, <1>3, <1>4, PlacedInFront
<1>6. ToSet(placed)' \subseteq 1 .. Len(topics')
  <2>1. ToSet(placed)' = ToSet(placed) \cup {x}
    BY <1>1, <1>3, <1>4, LastPlacedNext DEF SlotsInv
  <2>2. \A n \in 1 .. Len(topics) : n \in 1 .. Len(topics')
    BY <1>1 DEF Typed
  <2>3. QED
    BY <1>1, <2>1, <2>2 DEF TopicsExist
<1>7. /\ course[t] \in TurnRecord
      /\ course[t].topic \in 0 .. Len(topics) /\ course[t].homes \subseteq 1 .. Len(topics)
      /\ \A i \in course[t].inputs : i \in 1 .. Len(facts) /\ facts[i].home \in course[t].homes
  BY <1>1 DEF Typed, TopicsExist, CourseInv
<1>8. \A i \in reused : i \in 1 .. Len(facts) /\ i \in Nat /\ facts[i].home = x
  BY <1>1 DEF Usable, Typed
<1> DEFINE record == [course[t] EXCEPT !.pc = "active", !.action = action, !.home = x,
                                     !.homes = @ \cup {x}, !.inputs = @ \cup reused]
<1>9. record \in TurnRecord
  <2>1. reused \in SUBSET Nat
    BY <1>8
  <2>2. QED
    BY <1>4, <1>7, <2>1 DEF TurnRecord
<1>10. /\ record.pc = "active" /\ record.home = x /\ record.topic = course[t].topic
       /\ record.homes = course[t].homes \cup {x} /\ record.inputs = course[t].inputs \cup reused
  BY <1>7 DEF TurnRecord
<1>11. Set(t, record)
  BY <1>2
<1> HIDE DEF record
<1>12. record.topic \in 0 .. Len(topics') /\ record.homes \subseteq 1 .. Len(topics')
  <2>1. \A n : (n \in 1 .. Len(topics) => n \in 1 .. Len(topics')) /\ (n \in 0 .. Len(topics) => n \in 0 .. Len(topics'))
    BY <1>1 DEF Typed
  <2>2. QED
    BY <1>7, <1>10, <2>1
<1>13. \A i \in record.inputs : i \in 1 .. Len(facts) /\ facts[i].home \in record.homes
  BY <1>7, <1>8, <1>10
<1>14. anchor' \in Subject
  BY <1>1, <1>3 DEF Typed
<1>15. QED
  BY <1>3, <1>4, <1>5, <1>6, <1>9, <1>10, <1>11, <1>12, <1>13, <1>14, TurnMoves

\* A turn is placed on a topic, new or not.
LEMMA InvActivate ==
  ASSUME WorkspaceInv, NEW t \in Turn, ActivateNew(t) \/ ActivateOld(t)
  PROVE  WorkspaceInv'
<1>1. Typed /\ TopicsExist /\ SlotsInv /\ course[t] \in TurnRecord
  BY DEF WorkspaceInv, Typed
<1>2. Identity(course[t]) \in Subject
  BY <1>1 DEF Identity, First, TurnRecord, Subject
<1>3. CASE ActivateNew(t)
  <2>1. /\ course[t].pc = "ready" /\ topics' = Append(topics, Identity(course[t]))
        /\ Place(t, Len(topics'), Identity(course[t]), "NEW_TOPIC")
    BY <1>3 DEF ActivateNew
  <2>2. topics' \in Seq(Subject) /\ Len(topics') = Len(topics) + 1 /\ Len(topics) \in Nat
    BY <1>1, <1>2, <2>1, AppendProperties DEF Typed
  <2>3. Len(topics) <= Len(topics') /\ Len(topics') \in 1 .. Len(topics') /\ "NEW_TOPIC" \in Action
    BY <2>2 DEF Action
  <2>4. QED
    BY <1>2, <2>1, <2>2, <2>3, InvPlace
<1>4. CASE ActivateOld(t)
  <2> DEFINE x == Target(course[t])
             a == First(Identity(course[t]), topics[x])
  <2>1. /\ course[t].pc = "ready" /\ x # 0 /\ topics' = [topics EXCEPT ![x] = a]
        /\ Place(t, x, a, course[t].action)
    BY <1>4 DEF ActivateOld
  <2>2. x \in 0 .. Len(topics)
    BY <1>1, TargetExists
  <2> HIDE DEF x
  <2>3. x \in 1 .. Len(topics)
    BY <1>1, <2>1, <2>2 DEF Typed
  <2>4. a \in Subject
    BY <1>1, <1>2, <2>3 DEF First, Typed
  <2> HIDE DEF a
  <2>5. topics' \in Seq(Subject) /\ Len(topics') = Len(topics)
    BY <1>1, <2>1, <2>3, <2>4 DEF Typed
  <2>6. Len(topics) <= Len(topics') /\ x \in 1 .. Len(topics') /\ course[t].action \in Action
    BY <1>1, <2>3, <2>5 DEF Typed, TurnRecord
  <2>7. QED
    BY <2>1, <2>4, <2>5, <2>6, InvPlace
<1>5. QED
  BY <1>3, <1>4

-----------------------------------------------------------------------------
(* The end of a turn *)

\* A latest reading is superseded by none: what superseded it would be a later
\* reading of the asset, of another turn, between two of one turn.
LEMMA LatestIsFree ==
  ASSUME WorkspaceInv, NEW a \in Subject, NEW old \in Latest("reading", a)
  PROVE  /\ old \in 1 .. Len(facts) /\ facts[old].subject = a
         /\ \A j \in 1 .. Len(facts) : facts[j].over # old
<1>1. Typed /\ FactsInv /\ Superseding /\ Len(facts) \in Nat /\ DOMAIN facts = 1 .. Len(facts)
  BY DEF WorkspaceInv, Typed
<1> DEFINE R == Same("reading", a)
           m == Max(R)
<1>2. /\ R \in SUBSET (1 .. Len(facts)) /\ old \in R /\ facts[old].turn = facts[m].turn
      /\ \A i \in 1 .. Len(facts) : i \in R <=> facts[i].kind = "reading" /\ facts[i].subject = a
  BY <1>1 DEF Latest, Same
<1> HIDE DEF R
<1>3. m \in R /\ \A j \in R : j <= m
  BY <1>1, <1>2, GreatestOne
<1> HIDE DEF m
<1>4. ASSUME NEW j \in 1 .. Len(facts), facts[j].over = old PROVE FALSE
  <2>1. old \in Nat /\ old # 0 /\ j \in Nat /\ m \in Nat /\ m \in 1 .. Len(facts)
    BY <1>1, <1>2, <1>3
  <2>2. /\ old < j /\ facts[j].kind = "reading" /\ facts[old].turn # facts[j].turn
        /\ facts[old].subject = facts[j].subject
    BY <1>1, <1>4, <2>1 DEF Superseding
  <2>3. j \in R
    BY <1>2, <2>2
  <2>4. j <= m /\ j # m
    BY <1>2, <1>3, <2>2, <2>3
  <2>5. old < j /\ j < m
    BY <2>1, <2>2, <2>4
  <2>6. facts[j].turn = facts[old].turn
    BY <1>1, <1>2, <2>1, <2>5 DEF FactsInv
  <2>7. QED
    BY <2>2, <2>6
<1>5. QED
  BY <1>2, <1>4

\* What a turn appends: evidence of its own in one topic, one piece of it in
\* place of an earlier reading that no other has replaced.
Behind(new, t, x, old) ==
    /\ \A i \in 1 .. Len(new) : new[i].turn = t /\ new[i].home = x
    /\ old # 0 => old \in 1 .. Len(facts) /\ \A j \in 1 .. Len(facts) : facts[j].over # old
    /\ \A i \in 1 .. Len(new) : new[i].over # 0 =>
         new[i].over = old /\ new[i].kind = "reading" /\ facts[old].subject = new[i].subject
    /\ \A i, j \in 1 .. Len(new) : new[i].over # 0 /\ new[j].over # 0 => i = j
    /\ \A i \in 1 .. Len(new) : \A j \in new[i].parents :
         \/ j \in 1 .. Len(facts) /\ (t \in OfOneTopic => facts[j].home = x)
         \/ \E k \in 1 .. Len(new) : k # i /\ j = Len(facts) + k

\* A turn ends, and what it found is appended.
LEMMA EvidenceAdded ==
  ASSUME WorkspaceInv, NEW t \in Turn, course[t].pc # "done",
         NEW record \in TurnRecord, Set(t, record), record.pc = "done", record.homes = course[t].homes,
         record.inputs = {}, record.home = 0, record.topic = 0,
         NEW new \in Seq(Fact), facts' \in Seq(Fact), Len(facts') = Len(facts) + Len(new),
         \A i \in 1 .. Len(facts) : facts'[i] = facts[i],
         \A i \in 1 .. Len(new) : facts'[Len(facts) + i] = new[i],
         topics' \in Seq(Subject), Len(topics) <= Len(topics'), anchor' \in Subject,
         SlotsInv', ToSet(placed)' \subseteq 1 .. Len(topics'), NEW x \in 1 .. Len(topics'),
         NEW old \in Nat, Behind(new, t, x, old)
  PROVE  WorkspaceInv'
<1> USE DEF Behind
<1>1. Typed /\ TopicsExist /\ SlotsInv /\ CourseInv /\ FactsInv /\ Superseding /\ Lineage
  BY DEF WorkspaceInv
<1>2. /\ course' \in [Turn -> TurnRecord] /\ course'[t] = record
      /\ \A u \in Turn : u # t => course'[u] = course[u]
  BY <1>1 DEF Typed, Set
<1>3. Len(topics) \in Nat /\ Len(topics') \in Nat /\ Len(facts) \in Nat /\ Len(new) \in Nat /\ facts \in Seq(Fact)
  BY <1>1 DEF Typed
<1> DEFINE n == Len(facts)
<1>4. /\ facts' \in Seq(Fact) /\ Len(facts') = n + Len(new)
      /\ \A i \in 1 .. n : facts'[i] = facts[i]
      /\ \A i \in 1 .. Len(new) : facts'[n + i] = new[i]
  OBVIOUS
<1> HIDE DEF n
<1>5. n \in Nat /\ Len(new) \in Nat /\ n = Len(facts)
  BY <1>3 DEF n
<1>6. ASSUME NEW i \in 1 .. n
      PROVE  /\ facts[i] \in Fact /\ facts[i].turn # t
             /\ facts[i].turn # 0 => /\ course[facts[i].turn].pc = "done"
                                    /\ course'[facts[i].turn] = course[facts[i].turn]
             /\ facts'[i] = facts[i] /\ i \in 1 .. Len(facts') /\ i \in Nat /\ i <= n
  <2>1. facts[i] \in Fact
    BY <1>1, <1>5 DEF Typed
  <2>2. facts[i].turn \in Turn \cup {0}
    BY <2>1 DEF Fact
  <2>3. facts[i].turn # 0 => course[facts[i].turn].pc = "done"
    BY <1>1, <1>5 DEF FactsInv
  <2>4. facts[i].turn # t
    BY <2>3, TurnsArePositive
  <2>5. i \in 1 .. Len(facts') /\ i \in Nat /\ i <= n
    BY <1>4, <1>5
  <2>6. QED
    BY <1>2, <1>4, <2>1, <2>2, <2>3, <2>4, <2>5
<1>7. ASSUME NEW k \in 1 .. Len(new)
      PROVE  /\ facts'[n + k] = new[k] /\ n + k \in 1 .. Len(facts') /\ n + k > n
             /\ new[k] \in Fact /\ new[k].turn = t /\ new[k].home = x
  <2>1. n + k \in 1 .. Len(facts') /\ n + k > n
    BY <1>4, <1>5
  <2>2. QED
    BY <1>4, <2>1
\* A piece of evidence was there, or is new.
<1>8. ASSUME NEW i \in 1 .. Len(facts')
      PROVE  i \in 1 .. n \/ \E k \in 1 .. Len(new) : i = n + k
  <2>1. i \in Nat /\ 1 <= i /\ i <= n + Len(new)
    BY <1>4, <1>5
  <2>2. CASE i <= n
    BY <1>5, <2>1, <2>2
  <2>3. CASE ~(i <= n)
    <3>1. i - n \in 1 .. Len(new) /\ i = n + (i - n)
      BY <1>5, <2>1, <2>3
    <3>2. QED
      BY <3>1
  <2>4. QED
    BY <2>2, <2>3
<1>9. Typed'
  BY <1>2, <1>4 DEF Typed
<1>10. TopicsExist'
  <2>1. \A j : (j \in 1 .. Len(topics) => j \in 1 .. Len(topics')) /\ (j \in 0 .. Len(topics) => j \in 0 .. Len(topics'))
    BY <1>3
  <2>2. ASSUME NEW u \in Turn
        PROVE  course'[u].topic \in 0 .. Len(topics') /\ course'[u].homes \subseteq 1 .. Len(topics')
    <3>1. course[u].topic \in 0 .. Len(topics) /\ course[u].homes \subseteq 1 .. Len(topics)
      BY <1>1 DEF TopicsExist
    <3>2. 0 \in 0 .. Len(topics')
      BY <1>3
    <3>3. QED
      BY <1>2, <2>1, <3>1, <3>2
  <2>3. ASSUME NEW i \in 1 .. Len(facts') PROVE facts'[i].home \in 1 .. Len(topics')
    <3>1. CASE i \in 1 .. n
      <4>1. facts[i].home \in 1 .. Len(topics)
        BY <1>1, <1>5, <3>1 DEF TopicsExist
      <4>2. QED
        BY <1>6, <2>1, <3>1, <4>1
    <3>2. ASSUME NEW k \in 1 .. Len(new), i = n + k PROVE facts'[i].home \in 1 .. Len(topics')
      BY <1>7, <3>2
    <3>3. QED
      BY <1>8, <3>1, <3>2
  <2>4. QED
    BY <2>2, <2>3 DEF TopicsExist
<1>11. CourseInv'
  <2>1. ASSUME NEW u \in Turn, NEW i \in course'[u].inputs
        PROVE  i \in 1 .. Len(facts') /\ facts'[i].home \in course'[u].homes
    <3>1. u # t /\ course'[u] = course[u]
      BY <1>2, <2>1
    <3>2. i \in 1 .. n /\ facts[i].home \in course[u].homes
      BY <1>1, <1>5, <2>1, <3>1 DEF CourseInv
    <3>3. QED
      BY <1>6, <3>1, <3>2
  <2>2. ASSUME NEW u \in Turn
        PROVE  /\ course'[u].pc = "active" => course'[u].home # 0 /\ course'[u].home \in course'[u].homes
               /\ course'[u].pc # "active" => course'[u].home = 0
               /\ course'[u].pc = "unfound" => course'[u].homes = {}
    BY <1>1, <1>2 DEF CourseInv
  <2>3. QED
    BY <2>1, <2>2 DEF CourseInv
<1>12. FactsInv'
  <2>1. ASSUME NEW i \in 1 .. Len(facts'), facts'[i].turn # 0 PROVE course'[facts'[i].turn].pc = "done"
    <3>1. CASE i \in 1 .. n
      BY <1>6, <2>1, <3>1
    <3>2. ASSUME NEW k \in 1 .. Len(new), i = n + k PROVE course'[facts'[i].turn].pc = "done"
      BY <1>2, <1>7, <3>2
    <3>3. QED
      BY <1>8, <3>1, <3>2
  <2>2. ASSUME NEW i \in 1 .. Len(facts'), NEW j \in 1 .. Len(facts'), NEW k \in 1 .. Len(facts'),
               i < j, j < k, facts'[i].turn = facts'[k].turn
        PROVE  facts'[j].turn = facts'[i].turn
    <3>1. CASE k \in 1 .. n
      <4>1. i \in 1 .. n /\ j \in 1 .. n
        BY <1>4, <1>5, <2>2, <3>1
      <4>2. facts'[i] = facts[i] /\ facts'[j] = facts[j] /\ facts'[k] = facts[k]
        BY <1>6, <3>1, <4>1
      <4>3. QED
        BY <1>1, <1>5, <2>2, <3>1, <4>1, <4>2 DEF FactsInv
    <3>2. CASE k \notin 1 .. n
      <4>1. facts'[k].turn = t
        <5>1. PICK l \in 1 .. Len(new) : k = n + l
          BY <1>8, <3>2
        <5>2. QED
          BY <1>7, <5>1
      <4>2. i \notin 1 .. n
        BY <1>6, <2>2, <4>1
      <4>3. j \notin 1 .. n
        BY <1>4, <1>5, <2>2, <4>2
      <4>4. facts'[i].turn = t /\ facts'[j].turn = t
        <5>1. PICK l \in 1 .. Len(new) : i = n + l
          BY <1>8, <4>2
        <5>2. PICK m \in 1 .. Len(new) : j = n + m
          BY <1>8, <4>3
        <5>3. QED
          BY <1>7, <5>1, <5>2
      <4>5. QED
        BY <4>4
    <3>3. QED
      BY <3>1, <3>2
  <2>3. QED
    BY <2>1, <2>2 DEF FactsInv
<1>13. Superseding'
  <2>1. ASSUME NEW i \in 1 .. Len(facts'), facts'[i].over # 0
        PROVE  /\ facts'[i].over < i /\ facts'[i].kind = "reading"
               /\ facts'[facts'[i].over].turn # facts'[i].turn
               /\ facts'[facts'[i].over].subject = facts'[i].subject
    <3>1. CASE i \in 1 .. n
      <4>1. /\ facts[i].over # 0 /\ facts[i].over < i /\ facts[i].kind = "reading"
            /\ facts[facts[i].over].turn # facts[i].turn
            /\ facts[facts[i].over].subject = facts[i].subject
        BY <1>1, <1>5, <1>6, <2>1, <3>1 DEF Superseding
      <4>2. facts[i].over \in Nat
        BY <1>6, <3>1 DEF Fact
      <4>3. facts[i].over \in 1 .. n
        BY <1>5, <1>6, <3>1, <4>1, <4>2
      <4>4. facts'[facts[i].over] = facts[facts[i].over] /\ facts'[i] = facts[i]
        BY <1>6, <3>1, <4>3
      <4>5. QED
        BY <4>1, <4>4
    <3>2. ASSUME NEW k \in 1 .. Len(new), i = n + k
          PROVE  /\ facts'[i].over < i /\ facts'[i].kind = "reading"
                 /\ facts'[facts'[i].over].turn # facts'[i].turn
                 /\ facts'[facts'[i].over].subject = facts'[i].subject
      <4>1. facts'[i] = new[k] /\ new[k].turn = t /\ i > n /\ i \in Nat
        BY <1>5, <1>7, <3>2
      <4>2. new[k].over = old /\ old # 0 /\ new[k].kind = "reading" /\ facts[old].subject = new[k].subject
        BY <2>1, <4>1
      <4>3. old \in 1 .. n
        BY <1>5, <4>2
      <4>4. facts'[old] = facts[old] /\ facts[old].turn # t /\ old < i
        BY <1>5, <1>6, <4>1, <4>3
      <4>5. QED
        BY <4>1, <4>2, <4>4
    <3>3. QED
      BY <1>8, <3>1, <3>2
  <2>2. ASSUME NEW i \in 1 .. n, NEW k \in 1 .. Len(new), facts'[i].over # 0
        PROVE  facts'[i].over # facts'[n + k].over
    <3>1. facts'[i] = facts[i] /\ facts'[n + k] = new[k]
      BY <1>6, <1>7
    <3>2. CASE new[k].over = 0
      BY <2>2, <3>1, <3>2
    <3>3. CASE new[k].over # 0
      <4>1. new[k].over = old /\ old # 0
        BY <3>3
      <4>2. facts[i].over # old
        BY <1>5, <4>1
      <4>3. QED
        BY <3>1, <4>1, <4>2
    <3>4. QED
      BY <3>2, <3>3
  <2>3. ASSUME NEW i \in 1 .. Len(facts'), NEW j \in 1 .. Len(facts'),
               facts'[i].over # 0, facts'[j].over = facts'[i].over
        PROVE  j = i
    <3>1. CASE i \in 1 .. n /\ j \in 1 .. n
      BY <1>1, <1>5, <1>6, <2>3, <3>1 DEF Superseding
    <3>2. CASE i \in 1 .. n /\ j \notin 1 .. n
      <4>1. PICK k \in 1 .. Len(new) : j = n + k
        BY <1>8, <3>2
      <4>2. QED
        BY <2>2, <2>3, <3>2, <4>1
    <3>3. CASE i \notin 1 .. n /\ j \in 1 .. n
      <4>1. PICK k \in 1 .. Len(new) : i = n + k
        BY <1>8, <3>3
      <4>2. facts'[j].over # 0
        BY <2>3
      <4>3. QED
        BY <2>2, <2>3, <3>3, <4>1, <4>2
    <3>4. CASE i \notin 1 .. n /\ j \notin 1 .. n
      <4>1. PICK k \in 1 .. Len(new) : i = n + k
        BY <1>8, <3>4
      <4>2. PICK l \in 1 .. Len(new) : j = n + l
        BY <1>8, <3>4
      <4>3. new[k].over # 0 /\ new[l].over # 0
        BY <1>7, <2>3, <4>1, <4>2
      <4>4. QED
        BY <4>1, <4>2, <4>3
    <3>5. QED
      BY <3>1, <3>2, <3>3, <3>4
  <2>4. QED
    BY <2>1, <2>3 DEF Superseding
<1>14. Lineage'
  <2>1. /\ \A i \in 1 .. n : facts[i].turn \in OfOneTopic' => facts[i].turn \in OfOneTopic
        /\ t \in OfOneTopic' => t \in OfOneTopic
    BY <1>2, <1>6, TurnsArePositive DEF OfOneTopic
  <2>2. ASSUME NEW i \in 1 .. Len(facts'), NEW j \in facts'[i].parents
        PROVE  /\ j \in 1 .. Len(facts') /\ j # i /\ facts'[i].turn \in Turn
               /\ facts'[i].turn \in OfOneTopic' => facts'[j].home = facts'[i].home
    <3>1. CASE i \in 1 .. n
      <4>1. facts'[i] = facts[i] /\ j \in facts[i].parents
        BY <1>6, <2>2, <3>1
      <4>2. /\ j \in 1 .. n /\ j # i /\ facts[i].turn \in Turn
            /\ facts[i].turn \in OfOneTopic => facts[j].home = facts[i].home
        BY <1>1, <1>5, <3>1, <4>1 DEF Lineage
      <4>3. facts'[j] = facts[j] /\ j \in 1 .. Len(facts')
        BY <1>6, <4>2
      <4>4. QED
        BY <2>1, <3>1, <4>1, <4>2, <4>3
    <3>2. ASSUME NEW k \in 1 .. Len(new), i = n + k
          PROVE  /\ j \in 1 .. Len(facts') /\ j # i /\ facts'[i].turn \in Turn
                 /\ facts'[i].turn \in OfOneTopic' => facts'[j].home = facts'[i].home
      <4>1. facts'[i] = new[k] /\ new[k].turn = t /\ new[k].home = x /\ i > n /\ j \in new[k].parents
        BY <1>7, <2>2, <3>2
      <4>2. CASE j \in 1 .. n /\ (t \in OfOneTopic => facts[j].home = x)
        <5>1. facts'[j] = facts[j] /\ j \in 1 .. Len(facts') /\ j # i
          BY <1>5, <1>6, <4>1, <4>2
        <5>2. QED
          BY <2>1, <4>1, <4>2, <5>1
      <4>3. ASSUME NEW l \in 1 .. Len(new), l # k, j = n + l
            PROVE  j \in 1 .. Len(facts') /\ j # i /\ facts'[j].home = x
        <5>1. n + l # n + k
          <6>1. l \in Nat /\ k \in Nat
            OBVIOUS
          <6>2. QED
            BY <1>5, <4>3, <6>1
        <5>2. QED
          BY <1>7, <3>2, <4>3, <5>1
      <4>4. \/ j \in 1 .. n /\ (t \in OfOneTopic => facts[j].home = x)
            \/ \E l \in 1 .. Len(new) : l # k /\ j = n + l
        BY <1>5, <4>1
      <4>5. QED
        BY <4>1, <4>2, <4>3, <4>4
    <3>3. QED
      BY <1>8, <3>1, <3>2
  <2>3. QED
    BY <2>2 DEF Lineage
<1>15. QED
  BY <1>9, <1>10, <1>11, <1>12, <1>13, <1>14 DEF WorkspaceInv

\* Evidence that is appended stands behind what was there.
LEMMA Appended ==
  ASSUME NEW S, NEW old \in Seq(S), NEW new \in Seq(S), NEW all, all = old \o new
  PROVE  /\ all \in Seq(S) /\ Len(all) = Len(old) + Len(new)
         /\ \A i \in 1 .. Len(old) : all[i] = old[i]
         /\ \A i \in 1 .. Len(new) : all[Len(old) + i] = new[i]
<1>1. /\ old \o new \in Seq(S) /\ Len(old \o new) = Len(old) + Len(new)
      /\ \A i \in 1 .. Len(old) + Len(new) :
           (old \o new)[i] = IF i <= Len(old) THEN old[i] ELSE new[i - Len(old)]
  BY ConcatProperties
<1>2. Len(old) \in Nat /\ Len(new) \in Nat
  OBVIOUS
<1>3. \A i \in 1 .. Len(old) : i \in 1 .. Len(old) + Len(new) /\ i <= Len(old)
  BY <1>2
<1>4. \A i \in 1 .. Len(new) :
        Len(old) + i \in 1 .. Len(old) + Len(new) /\ ~(Len(old) + i <= Len(old)) /\ Len(old) + i - Len(old) = i
  BY <1>2
<1> DEFINE both == old \o new
<1> HIDE DEF both
<1>5. /\ both \in Seq(S) /\ Len(both) = Len(old) + Len(new)
      /\ \A i \in 1 .. Len(old) : both[i] = old[i]
      /\ \A i \in 1 .. Len(new) : both[Len(old) + i] = new[i]
  BY <1>1, <1>3, <1>4 DEF both
<1>6. all = both
  BY DEF both
<1>7. QED
  BY <1>5, <1>6, Zenon

\* What a turn found is typed, and links as Supersedes and Parents say.
LEMMA FoundTyped ==
  ASSUME Typed, NEW t \in Turn, NEW results \in Seq(Kind), NEW x \in Nat, NEW old \in Nat
  PROVE  /\ Found(t, results, x, old) \in Seq(Fact)
         /\ Len(Found(t, results, x, old)) = Len(results)
         /\ \A i \in 1 .. Len(results) :
              LET new == Found(t, results, x, old)[i] IN
              /\ new.kind = results[i] /\ new.turn = t /\ new.home = x
              /\ new.kind # "answer" => new.subject = First(course[t].about, course[t].active)
              /\ new.over = Supersedes(t, results, i, old) /\ new.parents = Parents(t, results, i)
<1> DEFINE new == Found(t, results, x, old)
           n == Len(results)
<1>1. n \in Nat /\ DOMAIN results = 1 .. n /\ \A i \in 1 .. n : results[i] \in Kind
  OBVIOUS
<1>2. course[t] \in TurnRecord
  BY DEF Typed
<1>3. First(course[t].about, course[t].active) \in Subject
  BY <1>2 DEF First, TurnRecord
<1>4. \A i \in 1 .. n : Parents(t, results, i) \in SUBSET Nat
  <2>1. course[t].inputs \in SUBSET Nat /\ Len(facts) \in Nat
    BY <1>2 DEF Typed, TurnRecord
  <2>2. \A j \in 1 .. n : Len(facts) + j \in Nat
    BY <2>1
  <2>3. QED
    BY <1>1, <2>1, <2>2 DEF Parents
<1>5. \A i \in 1 .. n : Supersedes(t, results, i, old) \in Nat
  BY DEF Supersedes
<1> DEFINE subject(i) ==
      IF results[i] = "answer" THEN IF x \in DOMAIN topics THEN topics[x] ELSE NoAsset
      ELSE First(course[t].about, course[t].active)
<1>6. \A i \in 1 .. n : subject(i) \in Subject
  <2>1. x \in DOMAIN topics => topics[x] \in Subject
    BY DEF Typed
  <2>2. NoAsset \in Subject
    BY DEF Subject
  <2>3. QED
    BY <1>3, <2>1, <2>2
<1> DEFINE evidence(i) ==
      [kind |-> results[i], turn |-> t, home |-> x, subject |-> subject(i),
       over |-> Supersedes(t, results, i, old), parents |-> Parents(t, results, i)]
<1>7. new = [i \in 1 .. n |-> evidence(i)]
  BY <1>1 DEF Found
<1> HIDE DEF new
<1>8. \A i \in 1 .. n : evidence(i) \in Fact
  <2> HIDE DEF subject
  <2>1. QED
    BY <1>1, <1>4, <1>5, <1>6 DEF Fact
<1>9. new \in Seq(Fact) /\ Len(new) = n
  <2> HIDE DEF evidence, n
  <2>1. QED
    BY <1>1, <1>7, <1>8
<1>10. \A i \in 1 .. n :
         /\ new[i].kind = results[i] /\ new[i].turn = t /\ new[i].home = x
         /\ new[i].subject = subject(i)
         /\ new[i].over = Supersedes(t, results, i, old) /\ new[i].parents = Parents(t, results, i)
  <2> HIDE DEF subject
  <2>1. QED
    BY <1>7
<1>11. \A i \in 1 .. n : new[i].kind # "answer" => new[i].subject = First(course[t].about, course[t].active)
  BY <1>10
<1>12. QED
  BY <1>9, <1>10, <1>11 DEF new

\* A turn ends on a topic: it supersedes once, with its first reading, and what it
\* derives comes from its INPUTs and from what else it found.
LEMMA InvEndOn ==
  ASSUME WorkspaceInv, NEW t \in Turn, NEW results \in Seq(Kind), NEW clears,
         course[t].pc \in {"active", "unfound"},
         course[t].pc = "unfound" => results \in {<<>>, <<"answer">>},
         topics' \in Seq(Subject), Len(topics) <= Len(topics'), NEW x \in 1 .. Len(topics'),
         course[t].home # 0 => x = course[t].home,
         SlotsInv', ToSet(placed)' \subseteq 1 .. Len(topics'),
         EndOn(t, x, results, clears)
  PROVE  WorkspaceInv'
<1>1. Typed /\ TopicsExist /\ SlotsInv /\ CourseInv /\ FactsInv
  BY DEF WorkspaceInv
<1> DEFINE a == First(course[t].about, course[t].active)
<1>2. PICK old \in IF Same("reading", a) = {} THEN {0} ELSE Latest("reading", a) :
        facts' = facts \o Found(t, results, x, old)
  BY DEF EndOn
<1>3. course[t] \in TurnRecord /\ a \in Subject /\ anchor \in Subject
  BY <1>1 DEF Typed, First, TurnRecord
<1> HIDE DEF a
<1>4. old \in Nat /\ (old # 0 => /\ old \in 1 .. Len(facts) /\ facts[old].subject = a
                                 /\ \A j \in 1 .. Len(facts) : facts[j].over # old)
  <2>1. CASE old = 0
    BY <2>1
  <2>2. CASE old # 0
    <3>1. old \in Latest("reading", a)
      BY <1>2, <2>2
    <3>2. /\ old \in 1 .. Len(facts) /\ facts[old].subject = a
          /\ \A j \in 1 .. Len(facts) : facts[j].over # old
      BY <1>3, <3>1, LatestIsFree
    <3>3. QED
      BY <1>1, <3>2 DEF Typed
  <2>3. QED
    BY <2>1, <2>2
<1> DEFINE new == Found(t, results, x, old)
           record == [Unasked EXCEPT !.pc = "done", !.homes = course[t].homes]
<1>5. x \in Nat
  OBVIOUS
<1>6. /\ new \in Seq(Fact) /\ Len(new) = Len(results)
      /\ \A i \in 1 .. Len(results) :
           /\ new[i].kind = results[i] /\ new[i].turn = t /\ new[i].home = x
           /\ new[i].kind # "answer" => new[i].subject = a
           /\ new[i].over = Supersedes(t, results, i, old) /\ new[i].parents = Parents(t, results, i)
  BY <1>1, <1>4, <1>5, FoundTyped DEF a
<1> HIDE DEF new
<1>7. /\ facts' \in Seq(Fact) /\ Len(facts') = Len(facts) + Len(new)
      /\ \A i \in 1 .. Len(facts) : facts'[i] = facts[i]
      /\ \A i \in 1 .. Len(new) : facts'[Len(facts) + i] = new[i]
  <2>1. facts' = facts \o new /\ facts \in Seq(Fact) /\ new \in Seq(Fact)
    BY <1>1, <1>2, <1>6 DEF Typed, new
  <2>2. QED
    BY <2>1, Appended
<1>8. record \in TurnRecord /\ Set(t, record) /\ record.pc = "done" /\ record.homes = course[t].homes
      /\ record.inputs = {} /\ record.home = 0 /\ record.topic = 0
  <2>1. /\ Unasked \in TurnRecord /\ Unasked.inputs = {} /\ Unasked.home = 0 /\ Unasked.topic = 0
    BY DEF Unasked, TurnRecord, Action, Subject
  <2>2. course[t].homes \in SUBSET Nat
    BY <1>3 DEF TurnRecord
  <2>3. record \in TurnRecord
    BY <2>1, <2>2 DEF TurnRecord
  <2>4. /\ record.pc = "done" /\ record.homes = course[t].homes
        /\ record.inputs = Unasked.inputs /\ record.home = Unasked.home /\ record.topic = Unasked.topic
    BY <2>1 DEF TurnRecord
  <2>5. Set(t, record)
    BY DEF EndOn
  <2>6. QED
    BY <2>1, <2>3, <2>4, <2>5
<1>9. anchor' \in Subject
  BY <1>3 DEF EndOn, First, TurnRecord, Subject
<1>10. Len(new) \in Nat /\ Len(results) \in Nat /\ \A i \in 1 .. Len(new) : i \in 1 .. Len(results) /\ i \in Nat
  BY <1>6
<1>11. ASSUME NEW i \in 1 .. Len(new), new[i].over # 0
       PROVE  /\ new[i].over = old /\ new[i].kind = "reading" /\ facts[old].subject = new[i].subject
              /\ \A j \in 1 .. (i - 1) : results[j] # "reading"
  <2>1. Supersedes(t, results, i, old) # 0
    BY <1>6, <1>10, <1>11
  <2>2. /\ results[i] = "reading" /\ Supersedes(t, results, i, old) = old
        /\ \A j \in 1 .. (i - 1) : results[j] # "reading"
    BY <2>1 DEF Supersedes
  <2>3. old # 0
    BY <2>1, <2>2
  <2>4. facts[old].subject = a
    BY <1>4, <2>3
  <2>5. new[i].kind = "reading" /\ new[i].over = old
    BY <1>6, <1>10, <2>2
  <2>6. new[i].subject = a
    BY <1>6, <1>10, <2>5
  <2>7. QED
    BY <2>2, <2>4, <2>5, <2>6
<1>12. ASSUME NEW i \in 1 .. Len(new), NEW j \in 1 .. Len(new), new[i].over # 0, new[j].over # 0
       PROVE  i = j
  <2>1. ASSUME NEW k \in 1 .. Len(new), NEW l \in 1 .. Len(new), k < l, new[k].over # 0
        PROVE  new[l].over = 0
    <3>1. results[k] = "reading"
      BY <1>6, <1>10, <1>11, <2>1
    <3>2. k \in 1 .. (l - 1)
      BY <1>10, <2>1
    <3>3. QED
      BY <1>11, <3>1, <3>2
  <2>2. ~(i < j) /\ ~(j < i)
    BY <1>12, <2>1
  <2>3. i \in Nat /\ j \in Nat
    BY <1>10
  <2>4. QED
    BY <2>2, <2>3
<1>13. ASSUME NEW i \in 1 .. Len(new), NEW j \in new[i].parents
       PROVE  \/ j \in 1 .. Len(facts) /\ (t \in OfOneTopic => facts[j].home = x)
              \/ \E k \in 1 .. Len(new) : k # i /\ j = Len(facts) + k
  <2>1. j \in Parents(t, results, i)
    BY <1>6, <1>10, <1>13
  <2>2. j \in course[t].inputs \/ \E k \in DOMAIN results \ {i} : j = Len(facts) + k
    BY <2>1 DEF Parents
  <2>3. CASE j \in course[t].inputs
    <3>1. j \in 1 .. Len(facts) /\ facts[j].home \in course[t].homes
      BY <1>1, <2>3 DEF CourseInv
    <3>2. course[t].pc = "active" /\ course[t].home # 0 /\ course[t].home \in course[t].homes
      BY <1>1, <3>1 DEF CourseInv
    <3>3. x \in course[t].homes
      BY <3>2
    <3>4. ASSUME t \in OfOneTopic PROVE facts[j].home = x
      <4>1. Cardinality(course[t].homes) = 1
        BY <3>4 DEF OfOneTopic
      <4>2. IsFiniteSet(course[t].homes)
        <5>1. course[t].homes \subseteq 1 .. Len(topics) /\ Len(topics) \in Nat
          BY <1>1 DEF TopicsExist, Typed
        <5>2. IsFiniteSet(1 .. Len(topics))
          BY <5>1, FS_Interval
        <5>3. QED
          BY <5>1, <5>2, FS_Subset
      <4>3. \E y : course[t].homes = {y}
        BY <4>1, <4>2, FS_Singleton
      <4>4. QED
        BY <3>1, <3>3, <4>3
    <3>5. QED
      BY <3>1, <3>4
  <2>4. ASSUME NEW k \in DOMAIN results \ {i}, j = Len(facts) + k
        PROVE  \E l \in 1 .. Len(new) : l # i /\ j = Len(facts) + l
    <3>1. k \in 1 .. Len(new) /\ k # i
      BY <1>6
    <3>2. QED
      BY <2>4, <3>1
  <2>5. QED
    BY <2>2, <2>3, <2>4
<1> HIDE DEF record
<1>14. Behind(new, t, x, old) /\ course[t].pc # "done" /\ old \in Nat /\ new \in Seq(Fact)
  BY <1>4, <1>6, <1>10, <1>11, <1>12, <1>13 DEF Behind
<1>15. QED
  BY <1>7, <1>8, <1>9, <1>14, EvidenceAdded

\* It ends on the topic it was placed on, or on the current one,
LEMMA InvPersistTurn ==
  ASSUME WorkspaceInv, NEW t \in Turn, NEW results \in Seq(Kind), NEW clears,
         PersistTurn(t, results, clears)
  PROVE  WorkspaceInv'
<1>1. Typed /\ TopicsExist /\ SlotsInv /\ CourseInv /\ course[t] \in TurnRecord
  BY DEF WorkspaceInv, Typed
<1> DEFINE x == IF course[t].home # 0 THEN course[t].home ELSE hot[1]
<1>2. /\ course[t].pc \in {"active", "unfound"}
      /\ course[t].pc = "unfound" => results \in {<<>>, <<"answer">>}
      /\ course[t].home # 0 \/ hot # <<>>
      /\ topics' = [topics EXCEPT ![x] = First(course[t].about, topics[x])]
      /\ EndOn(t, x, results, clears)
      /\ hot' = hot /\ placed' = placed
  BY DEF PersistTurn, Ends
<1>3. x \in 1 .. Len(topics)
  <2>1. CASE course[t].home # 0
    BY <1>1, <2>1 DEF CourseInv, TopicsExist
  <2>2. CASE course[t].home = 0
    <3>1. 1 \in 1 .. Len(hot)
      BY <1>1, <1>2, <2>2 DEF SlotsInv
    <3>2. hot[1] \in ToSet(placed)
      BY <1>1, <3>1, HotAges
    <3>3. QED
      BY <1>1, <2>2, <3>2 DEF TopicsExist
  <2>3. QED
    BY <2>1, <2>2
<1>4. course[t].home # 0 => x = course[t].home
  OBVIOUS
<1> HIDE DEF x
<1>5. First(course[t].about, topics[x]) \in Subject
  BY <1>1, <1>3 DEF First, Typed, TurnRecord
<1>6. topics' \in Seq(Subject) /\ Len(topics') = Len(topics) /\ Len(topics) \in Nat
  BY <1>1, <1>2, <1>3, <1>5 DEF Typed
<1>7. Len(topics) <= Len(topics') /\ x \in 1 .. Len(topics')
  BY <1>3, <1>6
<1>8. SlotsInv' /\ ToSet(placed)' = ToSet(placed)
  BY <1>1, <1>2, SlotsKept
<1>9. ToSet(placed)' \subseteq 1 .. Len(topics')
  BY <1>1, <1>6, <1>8 DEF TopicsExist
<1>10. QED
  BY <1>2, <1>4, <1>6, <1>7, <1>8, <1>9, InvEndOn

\* or on the first of the conversation.
LEMMA InvPersistFirst ==
  ASSUME WorkspaceInv, NEW t \in Turn, NEW results \in Seq(Kind), NEW clears,
         PersistFirst(t, results, clears)
  PROVE  WorkspaceInv'
<1>1. Typed /\ TopicsExist /\ SlotsInv /\ course[t] \in TurnRecord
  BY DEF WorkspaceInv, Typed
<1>2. PICK x : x = Len(topics')
  OBVIOUS
<1>3. /\ course[t].pc \in {"active", "unfound"}
      /\ course[t].pc = "unfound" => results \in {<<>>, <<"answer">>}
      /\ course[t].home = 0 /\ hot = <<>>
      /\ topics' = Append(topics, course[t].about)
      /\ hot' = <<x>> /\ placed' = Append(placed, x)
      /\ EndOn(t, x, results, clears)
  BY <1>2 DEF PersistFirst, Ends
<1>4. topics' \in Seq(Subject) /\ Len(topics') = Len(topics) + 1 /\ Len(topics) \in Nat
  <2>1. course[t].about \in Subject /\ topics \in Seq(Subject)
    BY <1>1 DEF Typed, TurnRecord
  <2>2. QED
    BY <1>3, <2>1, AppendProperties
<1>5. x \in Nat /\ x \in 1 .. Len(topics') /\ Len(topics) <= Len(topics')
  BY <1>2, <1>4
<1>6. SlotsInv'
  <2>1. \A i \in 1 .. Len(hot) : hot[i] # x
    BY <1>3
  <2>2. hot' \in Seq(Nat) /\ hot'[1] = x /\ Len(hot') = 1 /\ Len(hot) = 0
    BY <1>3, <1>5
  <2>3. \A i \in 2 .. Len(hot') : hot'[i] = hot[i - 1]
    BY <2>2
  <2>4. QED
    BY <1>1, <1>3, <1>5, <2>1, <2>2, <2>3, FromOutside
<1>7. ToSet(placed)' \subseteq 1 .. Len(topics')
  <2>1. ToSet(placed)' = ToSet(placed) \cup {x}
    BY <1>1, <1>3, <1>5, LastPlacedNext DEF SlotsInv
  <2>2. \A n \in 1 .. Len(topics) : n \in 1 .. Len(topics')
    BY <1>4
  <2>3. QED
    BY <1>1, <1>5, <2>1, <2>2 DEF TopicsExist
<1>8. QED
  BY <1>3, <1>4, <1>5, <1>6, <1>7, InvEndOn

\* Every step of a turn keeps the invariant.
LEMMA InvTurnStep ==
  ASSUME WorkspaceInv, NEW t \in Turn, TurnStep(t)
  PROVE  WorkspaceInv'
<1>1. CASE \E decision \in Decisions, asset \in BOOLEAN, a \in Subject,
              pc \in {"ready", "waiting", "unfound"} : AskTurn(t, decision, asset, a, pc)
  BY <1>1, InvAskTurn
<1>2. CASE ActivateNew(t) \/ ActivateOld(t)
  BY <1>2, InvActivate
<1>3. CASE (\E a \in Asset : LookEntityUp(t, a) \/ ResumeTurn(t, a)) \/ Suspend(t)
  BY <1>3, InvSameSlots
<1>4. ASSUME NEW found \in Results, NEW answer \in {<<>>, <<"answer">>}, NEW clears \in BOOLEAN,
             PersistTurn(t, found \o answer, clears) \/ PersistFirst(t, found \o answer, clears)
      PROVE  WorkspaceInv'
  <2>1. found \in Seq(Kind) /\ answer \in Seq(Kind)
    <3>1. <<>> \in Seq(Kind) /\ <<"reading">> \in Seq(Kind) /\ <<"reading", "reading">> \in Seq(Kind)
      BY DEF Kind
    <3>2. <<"diagnosis">> \in Seq(Kind) /\ <<"reading", "diagnosis">> \in Seq(Kind) /\ <<"answer">> \in Seq(Kind)
      BY DEF Kind
    <3>3. QED
      BY <3>1, <3>2, Zenon DEF Results
  <2>2. found \o answer \in Seq(Kind)
    BY <2>1, ConcatProperties
  <2>3. QED
    BY <1>4, <2>2, InvPersistTurn, InvPersistFirst
<1>5. QED
  BY <1>1, <1>2, <1>3, <1>4 DEF TurnStep, Subject

\* The invariant holds of an empty workspace.
LEMMA InvWorkspaceInit ==
  ASSUME WorkspaceInit
  PROVE  WorkspaceInv
<1>1. topics = <<>> /\ hot = <<>> /\ facts = <<>> /\ anchor \in Asset \cup {NoAsset}
      /\ placed = <<>> /\ course = [t \in Turn |-> Unasked]
  BY DEF WorkspaceInit
<1>2. /\ Unasked \in TurnRecord /\ Unasked.inputs = {} /\ Unasked.home = 0 /\ Unasked.topic = 0
      /\ Unasked.homes = {} /\ Unasked.pc = "idle"
  BY DEF Unasked, TurnRecord, Action, Subject
<1>3. Len(topics) = 0 /\ Len(facts) = 0 /\ Len(hot) = 0 /\ \A i : i \notin 1 .. 0
  BY <1>1
<1>4. Typed
  BY <1>1, <1>2 DEF Typed, Subject
<1>5. ToSet(placed) = {} /\ ToSet(hot) = {} /\ DOMAIN hot = {}
  BY <1>1 DEF ToSet
<1>6. TopicsExist /\ CourseInv
  BY <1>1, <1>2, <1>3, <1>5 DEF TopicsExist, CourseInv
<1>7. SlotsInv
  <2>1. SlotsAgree
    BY <1>5 DEF SlotsAgree
  <2>2. QED
    BY <1>1, <1>3, <1>5, <2>1 DEF SlotsInv
<1>8. FactsInv /\ Superseding /\ Lineage
  BY <1>3 DEF FactsInv, Superseding, Lineage
<1>9. QED
  BY <1>4, <1>6, <1>7, <1>8 DEF WorkspaceInv

\* Every step of the workspace keeps it.
LEMMA InvWorkspaceNext ==
  ASSUME WorkspaceInv, [WorkspaceNext]_workspaceVars
  PROVE  WorkspaceInv'
<1>1. CASE UNCHANGED workspaceVars
  <2>1. topics' = topics /\ hot' = hot /\ facts' = facts /\ anchor' = anchor /\ course' = course /\ placed' = placed
    BY <1>1 DEF workspaceVars
  <2>2. SlotsInv' /\ ToSet(placed)' = ToSet(placed)
    BY <2>1, SlotsKept DEF WorkspaceInv
  <2>3. Typed' /\ TopicsExist' /\ CourseInv' /\ FactsInv' /\ Superseding'
    BY <2>1, <2>2 DEF WorkspaceInv, Typed, TopicsExist, CourseInv, FactsInv, Superseding
  <2>4. Lineage'
    BY <2>1 DEF WorkspaceInv, Lineage, OfOneTopic
  <2>5. QED
    BY <2>2, <2>3, <2>4 DEF WorkspaceInv
<1>2. CASE WorkspaceNext
  BY <1>2, InvMigrate, InvTurnStep DEF WorkspaceNext
<1>3. QED
  BY <1>1, <1>2

\* It says all that the property says.
LEMMA InvSaysSound ==
  ASSUME WorkspaceInv
  PROVE  WorkspaceIsSound
<1>1. Typed /\ SlotsInv /\ FactsInv /\ Superseding /\ Lineage /\ DOMAIN facts = 1 .. Len(facts)
  BY DEF WorkspaceInv, Typed
<1>2. ASSUME NEW i \in DOMAIN facts, facts[i].over # 0
      PROVE  /\ facts[i].over < i /\ facts[facts[i].over].turn # facts[i].turn
             /\ facts[facts[i].over].subject = facts[i].subject
             /\ \A j \in DOMAIN facts : facts[j].over = facts[i].over => j = i
  BY <1>1, <1>2 DEF Superseding
<1>3. ASSUME NEW i \in DOMAIN facts, NEW j \in facts[i].parents
      PROVE  /\ j # i
             /\ Cardinality(course[facts[i].turn].homes) = 1 => facts[j].home = facts[i].home
  BY <1>1, <1>3 DEF Lineage, OfOneTopic
<1>4. SlotsAgree
  BY <1>1 DEF SlotsInv
<1>5. QED
  BY <1>2, <1>3, <1>4 DEF WorkspaceIsSound, SlotsAgree

(***************************************************************************)
(* For any assets, turns and pieces of evidence, whatever turns wait,      *)
(* resume and end in between: the hot topics are the three that were       *)
(* placed last, in that order; a reading is superseded by at most one, of  *)
(* a later turn and the same asset; nothing a turn derives is derived from *)
(* itself, and it comes from the turn's topic where that is one            *)
(* (activate_turn, persist_turn, EvidenceRepository).                      *)
(***************************************************************************)
THEOREM EvidenceIsSound == WorkspaceSpec => []WorkspaceIsSound
<1>1. WorkspaceInit => WorkspaceInv
  BY InvWorkspaceInit
<1>2. WorkspaceInv /\ [WorkspaceNext]_workspaceVars => WorkspaceInv'
  BY InvWorkspaceNext
<1>3. WorkspaceInv => WorkspaceIsSound
  BY InvSaysSound
<1>4. QED
  BY <1>1, <1>2, <1>3, PTL DEF WorkspaceSpec

-----------------------------------------------------------------------------
(* Answers: pieces on their way to the event log *)

(***************************************************************************)
(* The items of a list after the first few, of one channel, are numbered   *)
(* from low + 1 to high, in that order; those of other channels may be in  *)
(* between.                                                                *)
(***************************************************************************)
Spread(items, from, channel, low, high) ==
    /\ low <= high
    /\ \A i \in from + 1 .. Len(items) :
         items[i].channel = channel => items[i].n \in low + 1 .. high
    /\ \A i, j \in from + 1 .. Len(items) :
         i < j /\ items[i].channel = channel /\ items[j].channel = channel => items[i].n < items[j].n
    /\ \A n \in low + 1 .. high :
         \E i \in from + 1 .. Len(items) : items[i].channel = channel /\ items[i].n = n

\* The pieces of a list are all of one channel, numbered from low + 1.
Numbered(pieces, channel, low) ==
    \A i \in 1 .. Len(pieces) : pieces[i].channel = channel /\ pieces[i].n = low + i

\* One list after the other, told by their items.
Joined(all, items, run) ==
    /\ Len(items) \in Nat /\ Len(run) \in Nat /\ Len(all) = Len(items) + Len(run)
    /\ \A i \in 1 .. Len(items) : all[i] = items[i]
    /\ \A i \in 1 .. Len(run) : all[Len(items) + i] = run[i]

\* A run of one channel: its numbers go on from mid to high if it is this one.
GoesOn(run, channel, mid, high) ==
    \/ Numbered(run, channel, mid) /\ high = mid + Len(run)
    \/ (\A i \in 1 .. Len(run) : run[i].channel # channel) /\ high = mid

\* Where no item of the channel follows, none is missing; and the reverse.
LEMMA SpreadNone ==
  ASSUME NEW items, NEW from \in Nat, NEW channel, NEW low \in Nat, NEW high \in Nat,
         \A i \in from + 1 .. Len(items) : items[i].channel # channel
  PROVE  Spread(items, from, channel, low, high) <=> low = high
<1>1. low < high => low + 1 \in low + 1 .. high
  OBVIOUS
<1>2. low = high => low <= high /\ low + 1 .. high = {}
  OBVIOUS
<1>3. low <= high => low = high \/ low < high
  OBVIOUS
<1>4. QED
  BY <1>1, <1>2, <1>3 DEF Spread

\* A run of pieces is put after the items: of the channel, they continue the
\* numbers; of another, they change nothing.
LEMMA SpreadContinued ==
  ASSUME NEW items, NEW run, NEW all, Joined(all, items, run),
         NEW from \in 0 .. Len(items), NEW channel, NEW low \in Nat, NEW mid \in Nat, NEW high \in Nat,
         Spread(items, from, channel, low, mid), GoesOn(run, channel, mid, high)
  PROVE  Spread(all, from, channel, low, high)
<1> DEFINE old == from + 1 .. Len(items)
           is(i) == i \in from + 1 .. Len(all) /\ all[i].channel = channel
<1> USE DEF Joined, GoesOn
<1>1. /\ Len(items) \in Nat /\ Len(run) \in Nat /\ from \in Nat /\ from <= Len(items)
      /\ low <= mid /\ mid <= high
  BY DEF Spread
<1>2. ASSUME NEW i \in from + 1 .. Len(all)
      PROVE  (i \in old /\ all[i] = items[i])
             \/ (i - Len(items) \in 1 .. Len(run) /\ i > Len(items) /\ all[i] = run[i - Len(items)])
  <2>1. i \in old => i \in 1 .. Len(items)
    BY <1>1
  <2>2. i \notin old => /\ i - Len(items) \in 1 .. Len(run) /\ i > Len(items)
                        /\ Len(items) + (i - Len(items)) = i
    BY <1>1
  <2>3. QED
    BY <2>1, <2>2
<1>3. ASSUME NEW i, is(i)
      PROVE  /\ i \in Int /\ all[i].n \in low + 1 .. high
             /\ i \in old => items[i].channel = channel /\ all[i].n = items[i].n /\ all[i].n <= mid
             /\ i \notin old => /\ i > Len(items) /\ all[i].n = mid + (i - Len(items))
                                /\ Numbered(run, channel, mid) /\ high = mid + Len(run)
  <2>1. CASE i \in old
    <3>1. all[i] = items[i]
      BY <1>1, <1>2, <1>3, <2>1
    <3>2. items[i].n \in low + 1 .. mid
      BY <1>3, <2>1, <3>1 DEF Spread
    <3>3. QED
      BY <1>1, <1>3, <2>1, <3>1, <3>2
  <2>2. CASE i \notin old
    <3>1. /\ i - Len(items) \in 1 .. Len(run) /\ i > Len(items) /\ all[i] = run[i - Len(items)]
      BY <1>2, <1>3, <2>2
    <3>2. Numbered(run, channel, mid) /\ high = mid + Len(run)
      BY <1>3, <3>1
    <3>3. all[i].n = mid + (i - Len(items))
      BY <3>1, <3>2 DEF Numbered
    <3>4. i \in Int
      BY <1>3
    <3>5. mid + (i - Len(items)) \in low + 1 .. high
      BY <1>1, <3>1, <3>2, <3>4
    <3>6. QED
      BY <2>2, <3>1, <3>2, <3>3, <3>4, <3>5
  <2>3. QED
    BY <2>1, <2>2
<1>4. ASSUME NEW i, NEW j, is(i), is(j), i < j PROVE all[i].n < all[j].n
  <2>1. i \in from + 1 .. Len(all) /\ j \in from + 1 .. Len(all)
    BY <1>4
  <2>2. CASE j \in old
    <3>1. i \in old
      BY <1>1, <1>4, <2>1, <2>2
    <3>2. items[i].channel = channel /\ items[j].channel = channel /\ all[i].n = items[i].n /\ all[j].n = items[j].n
      BY <1>3, <1>4, <2>2, <3>1
    <3>3. QED
      BY <1>4, <2>2, <3>1, <3>2 DEF Spread
  <2>3. CASE j \notin old /\ i \in old
    <3>1. all[i].n <= mid /\ all[i].n \in low + 1 .. high
      BY <1>3, <1>4, <2>3
    <3>2. all[j].n = mid + (j - Len(items)) /\ j > Len(items)
      BY <1>3, <1>4, <2>3
    <3>3. QED
      BY <1>1, <2>1, <3>1, <3>2
  <2>4. CASE j \notin old /\ i \notin old
    <3>1. all[i].n = mid + (i - Len(items)) /\ all[j].n = mid + (j - Len(items))
      BY <1>3, <1>4, <2>4
    <3>2. QED
      BY <1>1, <1>4, <2>1, <3>1
  <2>5. QED
    BY <2>2, <2>3, <2>4
<1>5. ASSUME NEW n \in low + 1 .. high PROVE \E i : is(i) /\ all[i].n = n
  <2>1. CASE n <= mid
    <3>1. n \in low + 1 .. mid
      BY <1>1, <2>1
    <3>2. PICK i \in old : items[i].channel = channel /\ items[i].n = n
      BY <3>1 DEF Spread
    <3>3. i \in 1 .. Len(items) /\ i \in from + 1 .. Len(all)
      BY <1>1, <3>2
    <3>4. QED
      BY <3>2, <3>3
  <2>2. CASE ~(n <= mid)
    <3>1. high # mid /\ n - mid \in 1 .. high - mid
      BY <1>1, <2>2
    <3>2. Numbered(run, channel, mid) /\ high = mid + Len(run)
      BY <3>1
    <3>3. /\ n - mid \in 1 .. Len(run) /\ Len(items) + (n - mid) \in from + 1 .. Len(all)
          /\ mid + (n - mid) = n
      BY <1>1, <3>1, <3>2
    <3>4. run[n - mid].channel = channel /\ run[n - mid].n = n
      BY <3>2, <3>3 DEF Numbered
    <3>5. QED
      BY <3>3, <3>4
  <2>3. QED
    BY <2>1, <2>2
<1>6. low <= high
  BY <1>1
<1>7. QED
  BY <1>3, <1>4, <1>5, <1>6 DEF Spread

\* The first of the items are taken, all of one channel: if it is this one,
\* they are the next numbers.
LEMMA SpreadTaken ==
  ASSUME NEW items, Len(items) \in Nat, NEW from \in Nat, NEW k \in Nat,
         from + k <= Len(items), NEW channel, NEW other, NEW low \in Nat, NEW high \in Nat,
         Spread(items, from, channel, low, high),
         \A i \in from + 1 .. from + k : items[i].channel = other
  PROVE  /\ other = channel => /\ Spread(items, from + k, channel, low + k, high)
                               /\ \A i \in 1 .. k : items[from + i].n = low + i
         /\ other # channel => Spread(items, from + k, channel, low, high)
<1>1. /\ from + k + 1 .. Len(items) \subseteq from + 1 .. Len(items)
      /\ from + 1 .. from + k \subseteq from + 1 .. Len(items)
      /\ \A i \in from + 1 .. Len(items) : i \in from + 1 .. from + k \/ i \in from + k + 1 .. Len(items)
  OBVIOUS
<1>2. ASSUME other # channel PROVE Spread(items, from + k, channel, low, high)
  BY <1>1, <1>2 DEF Spread
<1>3. ASSUME other = channel PROVE \A i \in 1 .. k : items[from + i].n = low + i
  <2> DEFINE wrong == {i \in 1 .. k : items[from + i].n # low + i}
  <2>1. SUFFICES ASSUME wrong # {} PROVE FALSE
    OBVIOUS
  <2>2. wrong \in SUBSET Nat
    OBVIOUS
  <2> HIDE DEF wrong
  <2>3. PICK i \in wrong : \A j \in wrong : i <= j
    BY <2>1, <2>2, LeastOne
  <2>4. i \in 1 .. k /\ items[from + i].n # low + i
    BY <2>3 DEF wrong
  <2>5. ASSUME NEW j \in 1 .. k, j < i PROVE items[from + j].n = low + j
    <3>1. ~(i <= j)
      BY <2>4, <2>5
    <3>2. QED
      BY <2>3, <3>1 DEF wrong
  <2>6. \A j \in 1 .. k : from + j \in from + 1 .. from + k /\ from + j \in from + 1 .. Len(items)
    OBVIOUS
  <2>7. /\ items[from + i].channel = channel /\ items[from + i].n \in low + 1 .. high
    BY <1>3, <2>4, <2>6 DEF Spread
  <2>8. i > 1 => /\ i - 1 \in 1 .. k /\ i - 1 < i /\ from + (i - 1) < from + i
    BY <2>4
  <2>9. i > 1 => items[from + (i - 1)].n = low + (i - 1)
    BY <2>5, <2>8
  <2>10. i > 1 => items[from + (i - 1)].n < items[from + i].n
    BY <1>3, <2>4, <2>6, <2>8 DEF Spread
  <2>11. items[from + i].n > low + i /\ low + i \in low + 1 .. high
    <3>1. \A m \in low + 1 .. high :
            m # low + i /\ (i > 1 => low + (i - 1) < m) => m > low + i /\ low + i \in low + 1 .. high
      BY <2>4
    <3>2. i > 1 => low + (i - 1) < items[from + i].n
      BY <2>9, <2>10
    <3>3. QED
      BY <2>4, <2>7, <3>1, <3>2
  <2>12. PICK j \in from + 1 .. Len(items) : items[j].channel = channel /\ items[j].n = low + i
    BY <2>11 DEF Spread
  <2>13. CASE j < from + i
    <3>1. j - from \in 1 .. k /\ j - from < i /\ from + (j - from) = j
      BY <2>4, <2>12, <2>13
    <3>2. items[j].n = low + (j - from)
      BY <2>5, <3>1
    <3>3. QED
      BY <2>4, <2>12, <3>1, <3>2
  <2>14. CASE j = from + i
    BY <2>4, <2>12, <2>14
  <2>15. CASE j > from + i
    <3>1. from + i \in from + 1 .. Len(items) /\ from + i < j
      BY <2>4, <2>6, <2>15
    <3>2. items[from + i].n < items[j].n
      BY <2>7, <2>12, <3>1 DEF Spread
    <3>3. QED
      BY <2>4, <2>7, <2>11, <2>12, <3>2
  <2>16. QED
    BY <2>4, <2>12, <2>13, <2>14, <2>15
<1>4. ASSUME other = channel PROVE Spread(items, from + k, channel, low + k, high)
  <2>1. \A i \in 1 .. k : items[from + i].n = low + i
    BY <1>3, <1>4
  <2>2. k > 0 => /\ k \in 1 .. k /\ from + k \in from + 1 .. from + k
                 /\ from + k \in from + 1 .. Len(items)
    OBVIOUS
  <2>3. k > 0 => items[from + k].channel = channel /\ items[from + k].n = low + k
    BY <1>4, <2>1, <2>2
  <2>4. low + k <= high
    <3>1. k > 0 => items[from + k].n \in low + 1 .. high
      BY <2>2, <2>3 DEF Spread
    <3>2. low <= high
      BY DEF Spread
    <3>3. QED
      BY <2>3, <3>1, <3>2
  <2>5. ASSUME NEW i \in from + k + 1 .. Len(items), items[i].channel = channel
        PROVE  items[i].n \in low + k + 1 .. high
    <3>1. i \in from + 1 .. Len(items) /\ from + k < i
      BY <1>1
    <3>2. items[i].n \in low + 1 .. high
      BY <2>5, <3>1 DEF Spread
    <3>3. k > 0 => items[from + k].n < items[i].n
      BY <2>2, <2>3, <2>5, <3>1 DEF Spread
    <3>4. QED
      BY <2>3, <3>2, <3>3
  <2>6. ASSUME NEW n \in low + k + 1 .. high
        PROVE  \E i \in from + k + 1 .. Len(items) : items[i].channel = channel /\ items[i].n = n
    <3>1. n \in low + 1 .. high
      OBVIOUS
    <3>2. PICK i \in from + 1 .. Len(items) : items[i].channel = channel /\ items[i].n = n
      BY <3>1 DEF Spread
    <3>3. CASE i \in from + 1 .. from + k
      <4>1. i - from \in 1 .. k /\ from + (i - from) = i
        BY <3>3
      <4>2. items[i].n = low + (i - from)
        BY <2>1, <4>1
      <4>3. QED
        BY <3>2, <4>1, <4>2
    <3>4. QED
      BY <1>1, <3>2, <3>3
  <2>7. \A i, j \in from + k + 1 .. Len(items) :
          i < j /\ items[i].channel = channel /\ items[j].channel = channel => items[i].n < items[j].n
    BY <1>1 DEF Spread
  <2>8. QED
    BY <2>4, <2>5, <2>6, <2>7 DEF Spread
<1>5. QED
  BY <1>2, <1>3, <1>4

\* What comes after the head is the tail.
LEMMA SpreadTail ==
  ASSUME NEW items, Len(items) \in Nat \ {0}, NEW rest,
         Len(rest) = Len(items) - 1, \A i \in 1 .. Len(items) - 1 : rest[i] = items[i + 1],
         NEW channel, NEW low \in Nat, NEW high \in Nat, Spread(items, 1, channel, low, high)
  PROVE  Spread(rest, 0, channel, low, high)
<1>1. /\ \A i \in 0 + 1 .. Len(rest) : i \in 1 .. Len(items) - 1 /\ i + 1 \in 1 + 1 .. Len(items)
      /\ \A i \in 1 + 1 .. Len(items) : i - 1 \in 0 + 1 .. Len(rest) /\ i - 1 \in 1 .. Len(items) - 1 /\ i - 1 + 1 = i
      /\ \A i, j \in 0 + 1 .. Len(rest) : i < j => i + 1 < j + 1
  OBVIOUS
<1>2. low <= high
  BY DEF Spread
<1>3. ASSUME NEW i \in 0 + 1 .. Len(rest), rest[i].channel = channel PROVE rest[i].n \in low + 1 .. high
  BY <1>1, <1>3 DEF Spread
<1>4. ASSUME NEW i \in 0 + 1 .. Len(rest), NEW j \in 0 + 1 .. Len(rest),
             i < j, rest[i].channel = channel, rest[j].channel = channel
      PROVE  rest[i].n < rest[j].n
  <2>1. rest[i] = items[i + 1] /\ rest[j] = items[j + 1] /\ i + 1 < j + 1
    BY <1>1, <1>4
  <2>2. QED
    BY <1>1, <1>4, <2>1 DEF Spread
<1>5. ASSUME NEW n \in low + 1 .. high
      PROVE  \E i \in 0 + 1 .. Len(rest) : rest[i].channel = channel /\ rest[i].n = n
  <2>1. PICK i \in 1 + 1 .. Len(items) : items[i].channel = channel /\ items[i].n = n
    BY DEF Spread
  <2>2. i - 1 \in 0 + 1 .. Len(rest) /\ rest[i - 1] = items[i]
    <3>1. i - 1 \in 0 + 1 .. Len(rest) /\ i - 1 \in 1 .. Len(items) - 1 /\ i - 1 + 1 = i
      BY <1>1
    <3>2. QED
      BY <3>1
  <2>3. QED
    BY <2>1, <2>2
<1>6. QED
  BY <1>2, <1>3, <1>4, <1>5 DEF Spread

-----------------------------------------------------------------------------
(* Answers: the inductive invariant *)

Pieces(gen) == [channel : Channel, gen : {gen}, n : Nat]
PiecesOf(gen, which) == [channel : {which}, gen : {gen}, n : Nat]
QueueItems(gen) == [channel : Channel \cup {"end", "model", "other"}, gen : {gen}, n : Nat]

Running == stage \in {"streaming", "flushing"}

\* Whatever a session has in hand, and whatever is shown, is of the generation.
OfTheGeneration ==
    /\ AnswersTypeOK
    /\ turn.reasoning \in BOOLEAN /\ torn \in BOOLEAN
    /\ model \in [gen : Nat, made : [Channel -> Nat], over : BOOLEAN]
    /\ meta \in [content : Seq(Pieces(model.gen)), reasoning : BOOLEAN]
    /\ shown \in [Channel -> Seq(Pieces(model.gen))]
    /\ Running => /\ box \in Seq(QueueItems(model.gen)) /\ ready \in Seq(Pieces(model.gen))
                  /\ held \in [Channel -> Seq(Pieces(model.gen))] /\ sent \in Nat
                  /\ \A channel \in Channel : held[channel] \in Seq(PiecesOf(model.gen, channel))

\* Nothing is shown when a call of the model is begun; a failure to publish
\* leads to the end; the end of the model is the last item, and the answer is
\* flushed when nothing else is in hand.
Phases ==
    /\ stage = "call" => ~Streamed /\ shown = NoHeld /\ ~torn
    /\ stage = "streaming" => sent = 0 /\ ~torn
    /\ torn => \/ stage = "flushing" /\ then \notin {"loop", "answer"} /\ Streamed
               \/ stage = "over" /\ outcome.status # "COMPLETED"
    /\ Running =>
         /\ way \in Ways
         /\ \A i \in 1 .. Len(box) : box[i].channel \notin Channel => i = Len(box) /\ model.over
    /\ stage = "flushing" /\ then = "answer" => model.over /\ box = <<>> /\ held = NoHeld

\* The pieces of a channel that was made are shown, released, held or still in
\* the queue, in this order and none missing.
Flow(channel) ==
    /\ Numbered(shown[channel], channel, 0)
    /\ \E released \in 0 .. model.made[channel] :
         /\ Spread(ready, sent, channel, Len(shown[channel]), released)
         /\ Numbered(held[channel], channel, released)
         /\ Spread(box, 0, channel, released + Len(held[channel]), model.made[channel])

Streams ==
    Running /\ ~torn =>
      /\ meta.content = shown.final
      /\ shown.reasoning # <<>> => meta.reasoning
      /\ \A channel \in Channel :
           IF Publishable(channel) THEN Flow(channel) ELSE shown[channel] = <<>>

AnswersInv == OfTheGeneration /\ Phases /\ Streams /\ (stage = "over" => AnswerIsShown)

\* A list that one is put after, cut after the first k.
IsCut(front, back, pieces, piece, k) ==
    /\ Len(pieces) \in Nat /\ k \in 0 .. Len(pieces) + 1
    /\ Len(front) = k /\ Len(back) = Len(pieces) + 1 - k
    /\ \A i \in 1 .. k : front[i] = IF i = Len(pieces) + 1 THEN piece ELSE pieces[i]
    /\ \A i \in 1 .. Len(pieces) + 1 - k :
         back[i] = IF k + i = Len(pieces) + 1 THEN piece ELSE pieces[k + i]

\* That is what Append and SubSeq make of it.
LEMMA CutParts ==
  ASSUME NEW S, NEW pieces \in Seq(S), NEW piece \in S, NEW k \in 0 .. Len(pieces) + 1
  PROVE  LET all == Append(pieces, piece)
             front == SubSeq(all, 1, k)
             back == SubSeq(all, k + 1, Len(all))
         IN  front \in Seq(S) /\ back \in Seq(S) /\ IsCut(front, back, pieces, piece, k)
<1> DEFINE all == Append(pieces, piece)
           front == SubSeq(all, 1, k)
           back == SubSeq(all, k + 1, Len(all))
<1>1. /\ all \in Seq(S) /\ Len(all) = Len(pieces) + 1 /\ Len(pieces) \in Nat
      /\ \A i \in 1 .. Len(pieces) : all[i] = pieces[i]
      /\ all[Len(pieces) + 1] = piece
  BY AppendProperties
<1> HIDE DEF all
<1>2. \A i \in 1 .. Len(pieces) + 1 : all[i] = IF i = Len(pieces) + 1 THEN piece ELSE pieces[i]
  <2>1. \A i \in 1 .. Len(pieces) + 1 : i \in 1 .. Len(pieces) \/ i = Len(pieces) + 1
    BY <1>1
  <2>2. QED
    BY <1>1, <2>1
<1>3. front \in Seq(S) /\ Len(front) = k /\ \A i \in 1 .. k : front[i] = all[i]
  <2>1. \A i \in 1 .. k : i \in 1 .. Len(all)
    BY <1>1
  <2>2. \A i \in 1 .. k : all[i] \in S
    BY <1>1, <2>1
  <2>3. QED
    BY <1>1, <2>2
<1>4. /\ back \in Seq(S) /\ Len(back) = Len(pieces) + 1 - k
      /\ \A i \in 1 .. Len(pieces) + 1 - k : back[i] = all[k + i]
  <2>1. \A i \in k + 1 .. Len(all) : i \in 1 .. Len(all)
    BY <1>1
  <2>2. \A i \in k + 1 .. Len(all) : all[i] \in S
    BY <1>1, <2>1
  <2>3. /\ Len(pieces) + 1 \in Nat /\ k + 1 \in Int /\ k \in Nat /\ Len(all) \in Int
        /\ k <= Len(pieces) + 1
    BY <1>1
  <2>4. /\ back \in Seq(S)
        /\ Len(back) = IF k + 1 <= Len(all) THEN Len(all) - (k + 1) + 1 ELSE 0
        /\ \A i \in 1 .. Len(all) - (k + 1) + 1 : back[i] = all[k + 1 + i - 1]
    BY <2>2, <2>3, SubSeqProperties
  <2>5. (IF k + 1 <= Len(all) THEN Len(all) - (k + 1) + 1 ELSE 0) = Len(pieces) + 1 - k
    BY <1>1, <2>3
  <2>6. /\ Len(all) - (k + 1) + 1 = Len(pieces) + 1 - k
        /\ \A i \in 1 .. Len(pieces) + 1 - k : k + 1 + i - 1 = k + i
    BY <1>1, <2>3
  <2> HIDE DEF back
  <2>7. QED
    BY <2>4, <2>5, <2>6
<1>5. /\ \A i \in 1 .. k : i \in 1 .. Len(pieces) + 1
      /\ \A i \in 1 .. Len(pieces) + 1 - k : k + i \in 1 .. Len(pieces) + 1
  BY <1>1
<1> HIDE DEF front, back
<1>6. front \in Seq(S) /\ back \in Seq(S) /\ IsCut(front, back, pieces, piece, k)
  BY <1>1, <1>2, <1>3, <1>4, <1>5 DEF IsCut
<1>7. QED
  BY <1>6 DEF all, front, back

\* So much of a list of numbered pieces and so much that is left.
LEMMA NumberedParts ==
  ASSUME NEW front, NEW back, NEW pieces, NEW piece, NEW k, IsCut(front, back, pieces, piece, k),
         NEW channel, NEW low \in Nat,
         Numbered(pieces, channel, low), piece.channel = channel, piece.n = low + Len(pieces) + 1
  PROVE  Numbered(front, channel, low) /\ Numbered(back, channel, low + k)
<1>1. Len(pieces) \in Nat /\ k \in 0 .. Len(pieces) + 1 /\ k \in Nat
  BY DEF IsCut
<1> DEFINE whole(i) == IF i = Len(pieces) + 1 THEN piece ELSE pieces[i]
<1>2. \A i \in 1 .. Len(pieces) + 1 : whole(i).channel = channel /\ whole(i).n = low + i
  <2>1. \A i \in 1 .. Len(pieces) + 1 : i \in 1 .. Len(pieces) \/ i = Len(pieces) + 1
    BY <1>1
  <2>2. low + Len(pieces) + 1 = low + (Len(pieces) + 1)
    BY <1>1
  <2>3. QED
    BY <2>1, <2>2 DEF Numbered
<1>3. /\ Len(front) = k /\ \A i \in 1 .. k : front[i] = whole(i)
      /\ Len(back) = Len(pieces) + 1 - k /\ \A i \in 1 .. Len(pieces) + 1 - k : back[i] = whole(k + i)
  BY DEF IsCut
<1> HIDE DEF whole
<1>4. Numbered(front, channel, low)
  <2>1. \A i \in 1 .. k : i \in 1 .. Len(pieces) + 1
    BY <1>1
  <2>2. QED
    BY <1>2, <1>3, <2>1 DEF Numbered
<1>5. Numbered(back, channel, low + k)
  <2>1. \A i \in 1 .. Len(pieces) + 1 - k : k + i \in 1 .. Len(pieces) + 1 /\ low + (k + i) = low + k + i
    BY <1>1
  <2>2. QED
    BY <1>2, <1>3, <2>1 DEF Numbered
<1>6. QED
  BY <1>4, <1>5

\* A piece of a generation is known by its channel and its number.
LEMMA PieceIs ==
  ASSUME NEW gen, NEW x \in Pieces(gen)
  PROVE  x = Piece(x.channel, gen, x.n) /\ x.n \in Nat /\ x.channel \in Channel /\ x.gen = gen
BY DEF Pieces, Piece

\* A list of numbered pieces is the beginning of the generation.
LEMMA NumberedBegins ==
  ASSUME NEW pieces \in Seq(Pieces(model.gen)), NEW channel, Numbered(pieces, channel, 0)
  PROVE  pieces = Beginning(channel, Len(pieces))
<1>1. /\ pieces = [i \in 1 .. Len(pieces) |-> pieces[i]]
      /\ \A i \in 1 .. Len(pieces) : pieces[i] \in Pieces(model.gen)
      /\ \A i \in 1 .. Len(pieces) : 0 + i = i
  OBVIOUS
<1>2. ASSUME NEW i \in 1 .. Len(pieces) PROVE pieces[i] = Piece(channel, model.gen, i)
  <2>1. pieces[i] = Piece(pieces[i].channel, model.gen, pieces[i].n)
    BY <1>1, PieceIs
  <2>2. pieces[i].channel = channel /\ pieces[i].n = i
    BY <1>1 DEF Numbered
  <2>3. QED
    BY <2>1, <2>2
<1>3. QED
  BY <1>1, <1>2 DEF Beginning

\* What is shown while a session runs.
LEMMA RunningIsShown == OfTheGeneration /\ Phases /\ Streams /\ stage # "over" => AnswerIsShown
<1> SUFFICES ASSUME OfTheGeneration, Phases, Streams, stage # "over" PROVE AnswerIsShown
  OBVIOUS
<1>1. outcome.status # "COMPLETED"
  BY DEF OfTheGeneration, AnswersTypeOK, Unanswered
<1>2. ASSUME NEW channel \in Channel, NEW i \in 1 .. Len(shown[channel])
      PROVE  shown[channel][i].gen = model.gen
  <2>1. shown[channel] \in Seq(Pieces(model.gen))
    BY DEF OfTheGeneration
  <2>2. shown[channel][i] \in Pieces(model.gen)
    BY <2>1
  <2>3. QED
    BY <2>2, PieceIs
<1>3. ASSUME NEW channel \in Channel, ~torn
      PROVE  /\ Len(shown[channel]) <= model.made[channel]
             /\ shown[channel] = Beginning(channel, Len(shown[channel]))
  <2>1. shown[channel] \in Seq(Pieces(model.gen)) /\ model.made[channel] \in Nat
    BY DEF OfTheGeneration
  <2>2. CASE shown[channel] = <<>>
    <3>1. Numbered(shown[channel], channel, 0)
      BY <2>2 DEF Numbered
    <3>2. Len(shown[channel]) = 0 /\ 0 <= model.made[channel]
      BY <2>1, <2>2
    <3>3. QED
      BY <2>1, <3>1, <3>2, NumberedBegins
  <2>3. CASE shown[channel] # <<>>
    <3>1. Running
      BY <2>3 DEF Phases, NoHeld, OfTheGeneration, AnswersTypeOK, Running, Channel
    <3>2. Flow(channel)
      BY <1>3, <2>3, <3>1 DEF Streams
    <3>3. PICK released \in 0 .. model.made[channel] : Spread(ready, sent, channel, Len(shown[channel]), released)
      BY <3>2 DEF Flow
    <3>4. Len(shown[channel]) <= released /\ Len(shown[channel]) \in Nat
      BY <2>1, <3>3 DEF Spread
    <3>5. Len(shown[channel]) <= model.made[channel]
      BY <2>1, <3>3, <3>4
    <3>6. QED
      BY <2>1, <3>2, <3>5, NumberedBegins DEF Flow
  <2>4. QED
    BY <2>2, <2>3
<1>4. QED
  BY <1>1, <1>2, <1>3 DEF AnswerIsShown

\* Where what was raised leads: to another call, with nothing public, or to
\* the end with what there is.
LEMMA RaisedLeads ==
  ASSUME AnswersInv, stage # "over",
         (\E error : Raised(error)) \/ (\E retryable \in BOOLEAN : Fails(retryable))
  PROVE  /\ execution' \in 1 .. MaxAttempts /\ way' \in Ways \cup {"blocking"}
         /\ \/ stage' = "call" /\ outcome' = outcome /\ ~Streamed
            \/ /\ stage' = "over"
               /\ \E ending \in {"FAILED", "STOPPED"} : outcome' = [status |-> ending, text |-> meta.content]
<1> DEFINE leads == /\ execution' \in 1 .. MaxAttempts /\ way' \in Ways \cup {"blocking"}
                    /\ \/ stage' = "call" /\ outcome' = outcome /\ ~Streamed
                       \/ /\ stage' = "over"
                          /\ \E ending \in {"FAILED", "STOPPED"} :
                               outcome' = [status |-> ending, text |-> meta.content]
<1>1. /\ execution \in 1 .. MaxAttempts /\ way \in Ways \cup {"blocking"} /\ MaxAttempts \in Nat
      /\ FirstWay \in Ways
  BY AnswersAssumption DEF AnswersInv, OfTheGeneration, AnswersTypeOK, FirstWay, Ways
<1>2. ASSUME NEW ending \in {"FAILED", "STOPPED"}, TurnOver(ending, meta.content) PROVE leads
  BY <1>1, <1>2 DEF TurnOver
<1>3. ASSUME NEW retryable \in BOOLEAN, Fails(retryable) PROVE leads
  <2>1. CASE turn.path = "quick" /\ retryable /\ ~Streamed /\ execution < MaxAttempts
    <3>1. execution + 1 \in 1 .. MaxAttempts
      BY <1>1, <2>1
    <3>2. execution' = execution + 1 /\ way' = FirstWay /\ stage' = "call" /\ outcome' = outcome
      BY <1>3, <2>1 DEF Fails
    <3>3. QED
      BY <1>1, <2>1, <3>1, <3>2
  <2>2. CASE ~(turn.path = "quick" /\ retryable /\ ~Streamed /\ execution < MaxAttempts)
    <3>1. TurnOver("FAILED", meta.content)
      BY <1>3, <2>2 DEF Fails
    <3>2. QED
      BY <1>2, <3>1
  <2>3. QED
    BY <2>1, <2>2
<1>4. ASSUME ModelFails PROVE leads
  <2>1. CASE (way = "native" /\ ~Streamed) \/ (way = "blocking" /\ ~turn.images)
    <3>1. way = "blocking" => stage = "call"
      BY DEF AnswersInv, Phases, Running, Ways, OfTheGeneration, AnswersTypeOK
    <3>2. ~Streamed
      BY <2>1, <3>1 DEF AnswersInv, Phases
    <3>3. /\ way' \in {"blocking", "text"} /\ stage' = "call" /\ execution' = execution /\ outcome' = outcome
      BY <1>4, <2>1 DEF ModelFails
    <3>4. QED
      BY <1>1, <3>2, <3>3 DEF Ways
  <2>2. CASE ~((way = "native" /\ ~Streamed) \/ (way = "blocking" /\ ~turn.images))
    BY <1>3, <1>4, <2>2 DEF ModelFails
  <2>3. QED
    BY <2>1, <2>2
<1>5. ASSUME NEW error, Raised(error) PROVE leads
  BY <1>2, <1>3, <1>4, <1>5 DEF Raised
<1>6. QED
  BY <1>3, <1>5

\* A call or a session that ends, to another call or with the turn.
LEMMA EndedStep ==
  ASSUME AnswersInv, stage # "over", UNCHANGED <<turn, model, meta, shown, torn, then>>,
         Len(box') <= QueueSize, sent' <= Len(ready'),
         execution' \in 1 .. MaxAttempts, way' \in Ways \cup {"blocking"},
         \/ stage' = "call" /\ outcome' = outcome /\ ~Streamed
         \/ /\ stage' = "over"
            /\ \E ending \in {"FAILED", "STOPPED", "COMPLETED"} :
                 /\ outcome' = [status |-> ending, text |-> meta.content]
                 /\ ending = "COMPLETED" =>
                      /\ ~torn
                      /\ \A channel \in Channel :
                           Publishable(channel) => shown[channel] = Beginning(channel, model.made[channel])
  PROVE  AnswersInv'
<1>1. AnswerIsShown
  BY RunningIsShown DEF AnswersInv
<1>2. ~torn => meta.content = shown.final /\ (shown.reasoning # <<>> => meta.reasoning)
  <2>1. CASE stage = "call"
    BY <2>1 DEF AnswersInv, Phases, NoHeld, Streamed
  <2>2. CASE Running
    BY <2>2 DEF AnswersInv, Streams
  <2>3. QED
    BY <2>1, <2>2 DEF AnswersInv, OfTheGeneration, AnswersTypeOK, Running
<1>3. CASE stage' = "call" /\ outcome' = outcome /\ ~Streamed
  <2>1. ~torn
    BY <1>3 DEF AnswersInv, Phases
  <2>2. shown = NoHeld
    <3>1. shown.final = <<>> /\ shown.reasoning = <<>>
      BY <1>2, <1>3, <2>1 DEF Streamed, AnswersInv, OfTheGeneration
    <3>2. DOMAIN shown = {"final", "reasoning"} /\ shown = [c \in DOMAIN shown |-> shown[c]]
      BY DEF AnswersInv, OfTheGeneration, Channel
    <3>3. QED
      BY <3>1, <3>2 DEF NoHeld
  <2>3. OfTheGeneration'
    BY <1>3 DEF AnswersInv, OfTheGeneration, AnswersTypeOK, Running
  <2>4. Phases'
    BY <1>3, <2>1, <2>2 DEF Phases, Running, Streamed
  <2>5. QED
    BY <1>3, <2>3, <2>4 DEF AnswersInv, Streams, Running
<1>4. ASSUME stage' = "over", NEW ending \in {"FAILED", "STOPPED", "COMPLETED"},
             outcome' = [status |-> ending, text |-> meta.content],
             ending = "COMPLETED" =>
               /\ ~torn
               /\ \A channel \in Channel :
                    Publishable(channel) => shown[channel] = Beginning(channel, model.made[channel])
      PROVE  AnswersInv'
  <2>1. outcome'.status = ending /\ outcome'.text = meta.content
    BY <1>4
  <2>2. OfTheGeneration'
    <3>1. outcome' # Unanswered
      BY <2>1 DEF Unanswered
    <3>2. QED
      BY <1>4, <3>1 DEF AnswersInv, OfTheGeneration, AnswersTypeOK, Running
  <2>3. Phases'
    BY <1>4, <2>1 DEF Phases, Running
  <2>4. AnswerIsShown'
    <3>1. ASSUME NEW channel \in Channel
          PROVE  /\ \A i \in 1 .. Len(shown'[channel]) : shown'[channel][i].gen = model'.gen
                 /\ ~torn' => /\ Len(shown'[channel]) <= model'.made[channel]
                              /\ shown'[channel] = Beginning(channel, Len(shown[channel]))'
                 /\ outcome'.status = "COMPLETED" /\ Publishable(channel)' =>
                      shown'[channel] = Beginning(channel, model.made[channel])'
      BY <1>1, <1>4, <2>1 DEF AnswerIsShown, Beginning, Publishable
    <3>2. ~torn' \/ outcome'.status = "COMPLETED" => outcome'.text = shown'.final
      BY <1>2, <1>4, <2>1
    <3>3. QED
      BY <3>1, <3>2 DEF AnswerIsShown
  <2>5. QED
    BY <1>4, <2>2, <2>3, <2>4 DEF AnswersInv, Streams, Running
<1>5. QED
  BY <1>3, <1>4

\* What is told of the two channels.
LEMMA ByChannel ==
  ASSUME NEW S, NEW one \in S, NEW other \in S, NEW both, both = [final |-> one, reasoning |-> other]
  PROVE  /\ both \in [Channel -> S] /\ both.final = one /\ both.reasoning = other
         /\ both["final"] = one /\ both["reasoning"] = other
BY DEF Channel

\* There is nothing yet.
LEMMA NothingYet ==
  ASSUME NEW S
  PROVE  /\ NoHeld \in [Channel -> Seq(S)] /\ NoHeld.final = <<>> /\ NoHeld.reasoning = <<>>
         /\ \A channel \in Channel : NoHeld[channel] = <<>> /\ NoneMade[channel] = 0
         /\ NoneMade \in [Channel -> Nat] /\ NoneMade.final + NoneMade.reasoning = 0
         /\ NoMeta \in [content : Seq(S), reasoning : BOOLEAN] /\ NoMeta.content = <<>>
<1>1. <<>> \in Seq(S) /\ 0 \in Nat /\ 0 + 0 = 0
  OBVIOUS
<1>2. /\ NoHeld \in [Channel -> Seq(S)] /\ NoHeld.final = <<>> /\ NoHeld.reasoning = <<>>
      /\ \A channel \in Channel : NoHeld[channel] = <<>>
  <2>1. NoHeld = [final |-> <<>>, reasoning |-> <<>>]
    BY DEF NoHeld
  <2>2. NoHeld \in [Channel -> Seq(S)]
    BY <1>1, <2>1, ByChannel
  <2>3. QED
    BY <2>1, <2>2 DEF Channel
<1>3. /\ NoneMade \in [Channel -> Nat] /\ NoneMade.final = 0 /\ NoneMade.reasoning = 0
      /\ \A channel \in Channel : NoneMade[channel] = 0
  <2>1. NoneMade = [final |-> 0, reasoning |-> 0]
    BY DEF NoneMade
  <2>2. NoneMade \in [Channel -> Nat]
    BY <1>1, <2>1, ByChannel
  <2>3. QED
    BY <2>1, <2>2 DEF Channel
<1>4. NoMeta \in [content : Seq(S), reasoning : BOOLEAN] /\ NoMeta.content = <<>>
  BY <1>1 DEF NoMeta
<1>5. QED
  BY <1>1, <1>2, <1>3, <1>4

\* Nothing is in hand when the model is asked.
LEMMA AskStep == AnswersInv /\ Ask => AnswersInv'
<1> SUFFICES ASSUME AnswersInv, Ask PROVE AnswersInv'
  OBVIOUS
<1>1. /\ stage = "call" /\ shown = NoHeld /\ ~torn /\ outcome = Unanswered /\ model.gen \in Nat
      /\ way \in Ways /\ stage' = "streaming" /\ then' = "loop" /\ box' = <<>> /\ held' = NoHeld
      /\ ready' = <<>> /\ sent' = 0 /\ meta' = NoMeta
      /\ model' = [gen |-> model.gen + 1, made |-> NoneMade, over |-> FALSE]
      /\ UNCHANGED <<turn, execution, way, shown, torn, outcome>>
  BY DEF AnswersInv, Phases, OfTheGeneration, AnswersTypeOK, Ask
<1>2. /\ model'.gen = model.gen + 1 /\ model'.made = NoneMade
      /\ NoneMade \in [Channel -> Nat] /\ \A channel \in Channel : NoneMade[channel] = 0
      /\ NoneMade.final + NoneMade.reasoning = 0
      /\ \A channel \in Channel : NoHeld[channel] = <<>>
      /\ NoHeld.final = <<>> /\ NoHeld.reasoning = <<>> /\ NoMeta.content = <<>>
  BY <1>1, NothingYet
<1>3. MaxPieces \in Nat /\ QueueSize \in Nat
  BY AnswersAssumption
<1>4. OfTheGeneration'
  <2>1. AnswersTypeOK'
    BY <1>1, <1>2, <1>3 DEF AnswersTypeOK, AnswersInv, OfTheGeneration
  <2>2. /\ model' \in [gen : Nat, made : [Channel -> Nat], over : BOOLEAN]
        /\ meta' \in [content : Seq(Pieces(model.gen)'), reasoning : BOOLEAN]
        /\ shown' \in [Channel -> Seq(Pieces(model.gen)')]
        /\ held' \in [Channel -> Seq(Pieces(model.gen)')]
        /\ box' \in Seq(QueueItems(model.gen)') /\ ready' \in Seq(Pieces(model.gen)')
    <3>1. \A S : <<>> \in Seq(S)
      OBVIOUS
    <3>2. model' \in [gen : Nat, made : [Channel -> Nat], over : BOOLEAN]
      BY <1>1, <1>2
    <3>3. NoHeld \in [Channel -> Seq(Pieces(model.gen)')] /\ NoMeta \in [content : Seq(Pieces(model.gen)'), reasoning : BOOLEAN]
      BY NothingYet
    <3>4. QED
      BY <1>1, <3>1, <3>2, <3>3
  <2>3. \A channel \in Channel : held'[channel] \in Seq(PiecesOf(model.gen, channel)')
    <3>1. \A S : <<>> \in Seq(S)
      OBVIOUS
    <3>2. QED
      BY <1>1, <1>2, <3>1
  <2>4. QED
    BY <1>1, <2>1, <2>2, <2>3 DEF OfTheGeneration, AnswersInv
<1>5. Phases'
  BY <1>1 DEF Phases, Running
<1>6. ASSUME NEW channel \in Channel PROVE Flow(channel)'
  <2>1. /\ shown'[channel] = <<>> /\ held'[channel] = <<>> /\ model'.made[channel] = 0
        /\ box' = <<>> /\ ready' = <<>> /\ sent' = 0
    BY <1>1, <1>2
  <2>2. Spread(<<>>, 0, channel, 0, 0) /\ Numbered(<<>>, channel, 0) /\ 0 \in 0 .. 0 /\ 0 + Len(<<>>) = 0
    BY DEF Spread, Numbered
  <2>3. QED
    BY <2>1, <2>2 DEF Flow
<1>7. Streams'
  <2>1. ASSUME NEW channel \in Channel
        PROVE  IF Publishable(channel)' THEN Flow(channel)' ELSE shown'[channel] = <<>>
    BY <1>1, <1>2, <1>6
  <2>2. QED
    BY <1>1, <1>2, <2>1 DEF Streams
<1>8. QED
  BY <1>1, <1>4, <1>5, <1>7 DEF AnswersInv

\* A call that fails.
LEMMA AskFailsStep == AnswersInv /\ AskFails => AnswersInv'
<1> SUFFICES ASSUME AnswersInv, AskFails PROVE AnswersInv'
  OBVIOUS
<1>1. \E error : Raised(error)
  BY DEF AskFails
<1>2. /\ stage = "call" /\ UNCHANGED <<turn, model, meta, shown, torn, then, box, ready, sent>>
      /\ Len(box) <= QueueSize /\ sent <= Len(ready)
  BY DEF AskFails, session, AnswersInv, OfTheGeneration, AnswersTypeOK
<1>3. QED
  BY <1>1, <1>2, RaisedLeads, EndedStep

\* A blocking call: nothing was shown before.
LEMMA AskBlockingStep == AnswersInv /\ AskBlocking => AnswersInv'
<1> SUFFICES ASSUME AnswersInv, AskBlocking PROVE AnswersInv'
  OBVIOUS
<1> DEFINE piece == Piece("final", model.gen + 1, 1)
           whole == [shown EXCEPT !.final = Append(@, piece)]
<1>1. /\ stage = "call" /\ shown = NoHeld /\ ~torn /\ ~Streamed /\ model.gen \in Nat
      /\ UNCHANGED <<turn, meta, then, box, held, ready, sent>>
  BY DEF AnswersInv, Phases, OfTheGeneration, AskBlocking, session
<1>2. /\ model' = [gen |-> piece.gen, made |-> [NoneMade EXCEPT !.final = 1], over |-> TRUE]
      /\ \/ shown' = whole /\ TurnOver("COMPLETED", <<piece>>) /\ UNCHANGED torn
         \/ /\ shown' \in {shown, whole} /\ torn' = TRUE
            /\ TurnOver("FAILED", meta.content)
  BY DEF AskBlocking
<1>3. /\ piece.gen = model.gen + 1 /\ piece \in Pieces(model.gen + 1) /\ piece.channel = "final" /\ piece.n = 1
  BY <1>1 DEF Piece, Pieces, Channel
<1>4. /\ model'.gen = model.gen + 1 /\ model'.made \in [Channel -> Nat]
      /\ model'.made.final = 1 /\ model'.made.reasoning = 0
      /\ model' \in [gen : Nat, made : [Channel -> Nat], over : BOOLEAN]
  BY <1>1, <1>2, <1>3 DEF NoneMade, Channel
<1>5. /\ whole.final = <<piece>> /\ whole.reasoning = <<>>
      /\ NoHeld.final = <<>> /\ NoHeld.reasoning = <<>> /\ <<piece>> # <<>>
  BY <1>1 DEF NoHeld
<1>6. /\ whole \in [Channel -> Seq(Pieces(model.gen + 1))]
      /\ NoHeld \in [Channel -> Seq(Pieces(model.gen + 1))]
  <2>1. <<piece>> \in Seq(Pieces(model.gen + 1)) /\ <<>> \in Seq(Pieces(model.gen + 1))
    BY <1>3
  <2>2. /\ whole = [final |-> <<piece>>, reasoning |-> <<>>]
    BY <1>1 DEF NoHeld
  <2> HIDE DEF whole, piece
  <2>3. whole \in [Channel -> Seq(Pieces(model.gen + 1))]
    BY <2>1, <2>2, ByChannel
  <2>4. QED
    BY <2>3, NothingYet
<1>7. /\ meta.content = <<>> /\ ~meta.reasoning /\ meta' = meta
      /\ meta' \in [content : Seq(Pieces(model.gen + 1)), reasoning : BOOLEAN]
  <2>1. meta.content = <<>> /\ ~meta.reasoning /\ meta' = meta
    BY <1>1 DEF AnswersInv, OfTheGeneration, Streamed
  <2>2. meta = [content |-> <<>>, reasoning |-> FALSE]
    BY <2>1 DEF AnswersInv, OfTheGeneration
  <2>3. <<>> \in Seq(Pieces(model.gen + 1))
    OBVIOUS
  <2>4. QED
    BY <2>1, <2>2, <2>3
<1>8. /\ stage' = "over" /\ execution' = execution /\ way' = way
      /\ shown' \in {NoHeld, whole} /\ torn' \in BOOLEAN
      /\ outcome'.status \in {"COMPLETED", "FAILED"} /\ outcome' # Unanswered
      /\ outcome'.status = "COMPLETED" => ~torn'
      /\ ~torn' => shown' = whole /\ outcome'.text = <<piece>>
  <2>1. CASE shown' = whole /\ TurnOver("COMPLETED", <<piece>>) /\ UNCHANGED torn
    <3>1. outcome'.status = "COMPLETED" /\ outcome'.text = <<piece>>
      BY <2>1 DEF TurnOver
    <3>2. stage' = "over" /\ execution' = execution /\ way' = way
      BY <2>1 DEF TurnOver
    <3>3. outcome' # Unanswered
      BY <3>1 DEF Unanswered
    <3>4. shown' = whole /\ torn' = FALSE
      BY <1>1, <2>1 DEF AnswersInv, OfTheGeneration
    <3>5. QED
      BY <3>1, <3>2, <3>3, <3>4
  <2>2. CASE shown' \in {shown, whole} /\ torn' = TRUE /\ TurnOver("FAILED", meta.content)
    <3>1. outcome'.status = "FAILED" /\ stage' = "over" /\ execution' = execution /\ way' = way
      BY <2>2 DEF TurnOver
    <3>2. outcome' # Unanswered
      BY <3>1 DEF Unanswered
    <3>3. QED
      BY <1>1, <2>2, <3>1, <3>2
  <2>3. QED
    BY <1>2, <2>1, <2>2
<1>9. OfTheGeneration'
  <2>1. AnswersTypeOK'
    <3>1. model'.made.final + model'.made.reasoning <= MaxPieces
      BY <1>4, AnswersAssumption
    <3>2. QED
      BY <1>1, <1>8, <3>1 DEF AnswersInv, OfTheGeneration, AnswersTypeOK
  <2>2. shown' \in [Channel -> Seq(Pieces(model'.gen))] /\ turn'.reasoning \in BOOLEAN
    BY <1>1, <1>4, <1>6, <1>8 DEF AnswersInv, OfTheGeneration
  <2>3. meta' \in [content : Seq(Pieces(model'.gen)), reasoning : BOOLEAN]
    BY <1>4, <1>7
  <2>4. QED
    BY <1>4, <1>8, <2>1, <2>2, <2>3 DEF OfTheGeneration, Running
<1>10. Phases'
  BY <1>8 DEF Phases, Running
<1>11. AnswerIsShown'
  <2>1. ASSUME NEW channel \in Channel
        PROVE  /\ \A i \in 1 .. Len(shown'[channel]) : shown'[channel][i].gen = model'.gen
               /\ ~torn' => /\ Len(shown'[channel]) <= model'.made[channel]
                            /\ shown'[channel] = Beginning(channel, Len(shown[channel]))'
               /\ outcome'.status = "COMPLETED" /\ Publishable(channel)' =>
                    shown'[channel] = Beginning(channel, model.made[channel])'
    <3>1. CASE shown'[channel] = <<>>
      <4>1. 0 <= model'.made[channel] /\ Len(shown'[channel]) = 0
        BY <1>4, <3>1
      <4>2. Beginning(channel, 0)' = <<>>
        BY DEF Beginning
      <4>3. ~torn' => model'.made[channel] = 0
        BY <1>4, <1>5, <1>8, <3>1 DEF Channel
      <4>4. QED
        BY <1>8, <3>1, <4>1, <4>2, <4>3 DEF Beginning
    <3>2. CASE shown'[channel] # <<>>
      <4>1. channel = "final" /\ shown'[channel] = <<piece>>
        BY <1>5, <1>8, <3>2 DEF Channel
      <4>2. Beginning(channel, 1)' = <<piece>>
        BY <1>4, <4>1 DEF Beginning
      <4>3. Len(<<piece>>) = 1 /\ \A i \in 1 .. 1 : <<piece>>[i] = piece
        OBVIOUS
      <4>4. QED
        BY <1>3, <1>4, <4>1, <4>2, <4>3 DEF Beginning
    <3>3. QED
      BY <3>1, <3>2
  <2>2. ~torn' \/ outcome'.status = "COMPLETED" => outcome'.text = shown'.final
    BY <1>5, <1>8
  <2>3. QED
    BY <2>1, <2>2 DEF AnswerIsShown
<1>12. QED
  BY <1>8, <1>9, <1>10, <1>11 DEF AnswersInv, Streams, Running

\* The producer adds a piece, or its end.
LEMMA ProduceStep == AnswersInv /\ Produce => AnswersInv'
<1> SUFFICES ASSUME AnswersInv, Produce PROVE AnswersInv'
  OBVIOUS
<1>1. /\ Running /\ stage # "over" /\ stage # "call" /\ ~model.over /\ Len(box) < QueueSize
      /\ UNCHANGED <<turn, execution, way, stage, then, held, ready, sent, meta, shown, torn, outcome>>
      /\ model.gen \in Nat /\ model.made \in [Channel -> Nat] /\ box \in Seq(QueueItems(model.gen))
      /\ model.made.final \in Nat /\ model.made.reasoning \in Nat /\ Len(box) \in Nat
  BY DEF AnswersInv, Produce, Running, OfTheGeneration, Channel
<1>2. PICK item \in QueueItems(model.gen) :
        /\ box' = Append(box, item)
        /\ \/ /\ item.channel \in Channel /\ item.n = model.made[item.channel] + 1
              /\ model.made.final + model.made.reasoning < MaxPieces
              /\ model' = [model EXCEPT !.made[item.channel] = @ + 1]
           \/ item.channel \notin Channel /\ model' = [model EXCEPT !.over = TRUE]
  <2>1. ASSUME NEW channel \in Channel,
               model.made.final + model.made.reasoning < MaxPieces,
               model' = [model EXCEPT !.made[channel] = @ + 1],
               box' = Append(box, Piece(channel, model.gen, model.made[channel] + 1))
        PROVE  \E item \in QueueItems(model.gen) :
                 /\ box' = Append(box, item)
                 /\ item.channel \in Channel /\ item.n = model.made[item.channel] + 1
                 /\ model.made.final + model.made.reasoning < MaxPieces
                 /\ model' = [model EXCEPT !.made[item.channel] = @ + 1]
    <3>1. model.made[channel] + 1 \in Nat
      BY <1>1
    <3>2. /\ Piece(channel, model.gen, model.made[channel] + 1) \in QueueItems(model.gen)
          /\ Piece(channel, model.gen, model.made[channel] + 1).channel = channel
          /\ Piece(channel, model.gen, model.made[channel] + 1).n = model.made[channel] + 1
      BY <3>1 DEF Piece, QueueItems
    <3>3. QED
      BY <2>1, <3>2
  <2>2. ASSUME NEW end \in {"end", "model", "other"},
               model' = [model EXCEPT !.over = TRUE], box' = Append(box, Piece(end, model.gen, 0))
        PROVE  \E item \in QueueItems(model.gen) :
                 /\ box' = Append(box, item)
                 /\ item.channel \notin Channel /\ model' = [model EXCEPT !.over = TRUE]
    <3>1. /\ Piece(end, model.gen, 0) \in QueueItems(model.gen) /\ Piece(end, model.gen, 0).channel = end
          /\ end \notin Channel
      BY DEF Piece, QueueItems, Channel
    <3>2. QED
      BY <2>2, <3>1
  <2>3. QED
    BY <2>1, <2>2 DEF Produce
<1>3. /\ model'.gen = model.gen /\ model' \in [gen : Nat, made : [Channel -> Nat], over : BOOLEAN]
      /\ item.channel \in Channel =>
           /\ model'.made[item.channel] = model.made[item.channel] + 1 /\ model'.over = model.over
           /\ \A channel \in Channel : channel # item.channel => model'.made[channel] = model.made[channel]
      /\ item.channel \notin Channel => model'.over = TRUE /\ model'.made = model.made
  <2>1. model \in [gen : Nat, made : [Channel -> Nat], over : BOOLEAN]
    BY DEF AnswersInv, OfTheGeneration
  <2>2. CASE item.channel \in Channel
    <3>1. model' = [model EXCEPT !.made[item.channel] = @ + 1]
      BY <1>2, <2>2
    <3>2. model.made[item.channel] + 1 \in Nat
      BY <1>1, <2>2
    <3>3. /\ [model.made EXCEPT ![item.channel] = @ + 1] \in [Channel -> Nat]
          /\ \A channel \in Channel :
               [model.made EXCEPT ![item.channel] = @ + 1][channel] =
                 IF channel = item.channel THEN model.made[channel] + 1 ELSE model.made[channel]
      BY <1>1, <3>2
    <3>4. model'.made = [model.made EXCEPT ![item.channel] = @ + 1]
      BY <2>1, <3>1
    <3>5. model'.gen = model.gen /\ model'.over = model.over
      BY <2>1, <3>1
    <3>6. model' = [gen |-> model.gen, made |-> model'.made, over |-> model.over]
      BY <2>1, <3>1
    <3>7. model' \in [gen : Nat, made : [Channel -> Nat], over : BOOLEAN]
      BY <2>1, <3>3, <3>4, <3>6
    <3>8. QED
      BY <2>2, <3>3, <3>4, <3>5, <3>7
  <2>3. CASE item.channel \notin Channel
    BY <1>2, <2>1, <2>3
  <2>4. QED
    BY <2>2, <2>3
<1>4. /\ box' \in Seq(QueueItems(model.gen)) /\ Len(box') = Len(box) + 1
      /\ \A i \in 1 .. Len(box) : box'[i] = box[i]
      /\ box'[Len(box) + 1] = item
  <2>1. box' = Append(box, item)
    BY <1>2
  <2> DEFINE more == Append(box, item)
  <2>2. /\ more \in Seq(QueueItems(model.gen)) /\ Len(more) = Len(box) + 1
        /\ \A i \in 1 .. Len(box) : more[i] = box[i]
        /\ more[Len(box) + 1] = item
    BY <1>1, AppendProperties
  <2>3. box' = more
    BY <2>1
  <2> HIDE DEF more
  <2>4. QED
    BY <2>2, <2>3, Zenon
<1>5. \A channel \in Channel : model.made[channel] <= model'.made[channel] /\ model'.made[channel] \in Nat
  <2>1. ASSUME NEW channel \in Channel
        PROVE  model.made[channel] <= model'.made[channel] /\ model'.made[channel] \in Nat
    <3>1. model.made[channel] \in Nat /\ model'.made[channel] \in Nat
      BY <1>1, <1>3
    <3>2. model'.made[channel] = model.made[channel] \/ model'.made[channel] = model.made[channel] + 1
      <4>1. CASE item.channel = channel
        BY <1>3, <4>1
      <4>2. CASE item.channel # channel
        BY <1>3, <4>2
      <4>3. QED
        BY <4>1, <4>2
    <3>3. QED
      BY <3>1, <3>2
  <2>2. QED
    BY <2>1
<1>6. OfTheGeneration'
  <2>1. model'.made.final + model'.made.reasoning <= MaxPieces
    <3> DEFINE f == model.made
               r == model'.made
    <3>0. /\ f["final"] \in Nat /\ f["reasoning"] \in Nat
          /\ f.final = f["final"] /\ f.reasoning = f["reasoning"]
          /\ r.final = r["final"] /\ r.reasoning = r["reasoning"]
      BY <1>1 DEF Channel
    <3>1. /\ item.channel \in Channel =>
               /\ r[item.channel] = f[item.channel] + 1
               /\ \A channel \in Channel : channel # item.channel => r[channel] = f[channel]
          /\ item.channel \notin Channel => r = f
      BY <1>3
    <3>2. f.final + f.reasoning <= MaxPieces /\ (item.channel \in Channel => f.final + f.reasoning < MaxPieces)
      BY <1>2 DEF AnswersInv, OfTheGeneration, AnswersTypeOK
    <3> HIDE DEF f, r
    <3>3. CASE item.channel \in Channel
      <4>1. r["final"] + r["reasoning"] = f["final"] + f["reasoning"] + 1
        <5>1. CASE item.channel = "final"
          <6>1. r["final"] = f["final"] + 1 /\ r["reasoning"] = f["reasoning"]
            BY <3>1, <3>3, <5>1 DEF Channel
          <6>2. QED
            BY <3>0, <6>1
        <5>2. CASE item.channel = "reasoning"
          <6>1. r["reasoning"] = f["reasoning"] + 1 /\ r["final"] = f["final"]
            BY <3>1, <3>3, <5>2 DEF Channel
          <6>2. QED
            BY <3>0, <6>1
        <5>3. QED
          BY <3>3, <5>1, <5>2 DEF Channel
      <4>2. r.final + r.reasoning <= MaxPieces
        BY <3>0, <3>2, <3>3, <4>1, AnswersAssumption
      <4>3. QED
        BY <4>2 DEF r
    <3>4. CASE item.channel \notin Channel
      BY <3>1, <3>2, <3>4 DEF r
    <3>5. QED
      BY <3>3, <3>4
  <2>2. Len(box') <= QueueSize
    BY <1>1, <1>4, AnswersAssumption
  <2>3. AnswersTypeOK'
    BY <1>1, <2>1, <2>2 DEF AnswersInv, OfTheGeneration, AnswersTypeOK
  <2>4. QED
    BY <1>1, <1>3, <1>4, <2>3 DEF AnswersInv, OfTheGeneration, Running
<1>7. Phases'
  <2>1. ASSUME NEW i \in 1 .. Len(box'), box'[i].channel \notin Channel PROVE i = Len(box') /\ model'.over
    <3>1. CASE i \in 1 .. Len(box)
      BY <1>1, <1>4, <2>1, <3>1 DEF AnswersInv, Phases
    <3>2. CASE i \notin 1 .. Len(box)
      <4>1. i = Len(box) + 1
        BY <1>1, <1>4, <3>2
      <4>2. QED
        BY <1>3, <1>4, <2>1, <4>1
    <3>3. QED
      BY <3>1, <3>2
  <2>2. ~(stage = "flushing" /\ then = "answer")
    BY <1>1 DEF AnswersInv, Phases
  <2>3. QED
    BY <1>1, <2>1, <2>2 DEF AnswersInv, Phases, Running, Streamed
<1>8. ASSUME NEW channel \in Channel, Flow(channel) PROVE Flow(channel)'
  <2>1. PICK released \in 0 .. model.made[channel] :
          /\ Spread(ready, sent, channel, Len(shown[channel]), released)
          /\ Numbered(held[channel], channel, released)
          /\ Spread(box, 0, channel, released + Len(held[channel]), model.made[channel])
    BY <1>8 DEF Flow
  <2>2. released \in 0 .. model'.made[channel] /\ released \in Nat
    BY <1>1, <1>5
  <2>3. held[channel] \in Seq(Pieces(model.gen)) /\ released + Len(held[channel]) \in Nat
    BY <1>1, <2>2 DEF AnswersInv, OfTheGeneration
  <2>4. Spread(box', 0, channel, released + Len(held[channel]), model'.made[channel])
    <3> DEFINE run == <<item>>
               low == released + Len(held[channel])
    <3>1. run \in Seq(QueueItems(model.gen)) /\ Len(run) = 1 /\ run[1] = item /\ \A i \in 1 .. Len(run) : i = 1
      OBVIOUS
    <3>2. Joined(box', box, run)
      BY <1>1, <1>4, <3>1 DEF Joined
    <3>3. GoesOn(run, channel, model.made[channel], model'.made[channel])
      <4>1. CASE item.channel = channel
        <5>1. item.n = model.made[channel] + 1 /\ model'.made[channel] = model.made[channel] + 1
          BY <1>2, <1>3, <4>1
        <5>2. QED
          BY <3>1, <4>1, <5>1 DEF Numbered, GoesOn
      <4>2. CASE item.channel # channel
        BY <1>3, <3>1, <4>2 DEF GoesOn
      <4>3. QED
        BY <4>1, <4>2
    <3>4. /\ low \in Nat /\ model.made[channel] \in Nat /\ model'.made[channel] \in Nat /\ 0 \in 0 .. Len(box)
          /\ Spread(box, 0, channel, low, model.made[channel])
      BY <1>1, <1>5, <2>1, <2>3
    <3> HIDE DEF run, low
    <3>5. Spread(box', 0, channel, low, model'.made[channel])
      BY <3>2, <3>3, <3>4, SpreadContinued
    <3>6. QED
      BY <3>5 DEF low
  <2>5. QED
    BY <1>1, <1>8, <2>1, <2>2, <2>4 DEF Flow
<1>9. Streams'
  <2>1. ASSUME NEW channel \in Channel, ~torn
        PROVE  IF Publishable(channel)' THEN Flow(channel)' ELSE shown'[channel] = <<>>
    BY <1>1, <1>8, <2>1 DEF AnswersInv, Streams, Publishable
  <2>2. QED
    BY <1>1, <2>1 DEF AnswersInv, Streams, Running
<1>10. QED
  BY <1>1, <1>6, <1>7, <1>9 DEF AnswersInv

\* A flush begins.
LEMMA InterruptStep == AnswersInv /\ Interrupt => AnswersInv'
<1> SUFFICES ASSUME AnswersInv, Interrupt PROVE AnswersInv'
  OBVIOUS
<1>1. /\ stage = "streaming" /\ Running /\ stage' = "flushing" /\ then' \in {"loop", "stopped", "timeout"}
      /\ sent = 0 /\ sent' = 0 /\ ~torn
      /\ UNCHANGED <<turn, execution, way, model, box, held, ready, meta, shown, torn, outcome>>
  BY DEF AnswersInv, Phases, Interrupt, Flush, Running
<1>2. OfTheGeneration'
  BY <1>1 DEF AnswersInv, OfTheGeneration, AnswersTypeOK, Running
<1>3. Phases'
  BY <1>1 DEF AnswersInv, Phases, Running
<1>4. Streams'
  <2>1. ASSUME NEW channel \in Channel
        PROVE  IF Publishable(channel)' THEN Flow(channel)' ELSE shown'[channel] = <<>>
    BY <1>1 DEF AnswersInv, Streams, Publishable, Flow
  <2>2. QED
    BY <1>1, <2>1 DEF AnswersInv, Streams
<1>5. QED
  BY <1>1, <1>2, <1>3, <1>4 DEF AnswersInv

\* Lists of a type joined are of the type.
LEMMA ConcatJoins ==
  ASSUME NEW S, NEW one \in Seq(S), NEW two \in Seq(S)
  PROVE  one \o two \in Seq(S) /\ Joined(one \o two, one, two)
<1> DEFINE all == one \o two
<1>1. /\ all \in Seq(S) /\ Len(all) = Len(one) + Len(two)
      /\ \A i \in 1 .. Len(one) : all[i] = one[i]
      /\ \A i \in 1 .. Len(two) : all[Len(one) + i] = two[i]
  BY Appended
<1>2. Len(one) \in Nat /\ Len(two) \in Nat
  OBVIOUS
<1> HIDE DEF all
<1>3. all \in Seq(S) /\ Joined(all, one, two)
  BY <1>1, <1>2 DEF Joined
<1>4. QED
  BY <1>3 DEF all

\* The first item is taken from the queue.
LEMMA ItemTaken ==
  ASSUME AnswersInv, TakeItem
  PROVE  /\ stage = "streaming" /\ Running /\ sent = 0 /\ ~torn /\ model.gen \in Nat
         /\ Len(box) \in Nat \ {0} /\ Head(box) = box[1] /\ box[1] \in QueueItems(model.gen)
         /\ box' \in Seq(QueueItems(model.gen)) /\ Len(box') = Len(box) - 1
         /\ \A i \in 1 .. Len(box) - 1 : box'[i] = box[i + 1]
         /\ box[1].channel \notin Channel => box' = <<>> /\ model.over
<1>1. /\ stage = "streaming" /\ Running /\ sent = 0 /\ ~torn /\ model.gen \in Nat
      /\ box \in Seq(QueueItems(model.gen)) /\ box # <<>> /\ box' = Tail(box)
  BY DEF AnswersInv, Phases, TakeItem, Running, OfTheGeneration
<1> DEFINE rest == Tail(box)
<1>2. /\ Len(box) \in Nat \ {0} /\ Head(box) = box[1] /\ box[1] \in QueueItems(model.gen)
      /\ rest \in Seq(QueueItems(model.gen)) /\ Len(rest) = Len(box) - 1
      /\ \A i \in 1 .. Len(box) - 1 : rest[i] = box[i + 1]
  BY <1>1
<1>3. box' = rest
  BY <1>1
<1> HIDE DEF rest
<1>4. box[1].channel \notin Channel => rest = <<>> /\ model.over
  <2>1. 1 \in 1 .. Len(box)
    BY <1>2
  <2>2. box[1].channel \notin Channel => 1 = Len(box) /\ model.over
    BY <1>1, <2>1 DEF AnswersInv, Phases
  <2>3. Len(rest) = 0 => rest = <<>>
    BY <1>2
  <2>4. QED
    BY <1>2, <2>2, <2>3
<1>5. QED
  BY <1>1, <1>2, <1>3, <1>4, Zenon

\* The items that are left are the next ones of each channel.
LEMMA SpreadTakenItem ==
  ASSUME AnswersInv, TakeItem, NEW channel, NEW low \in Nat, NEW high \in Nat,
         Spread(box, 0, channel, low, high)
  PROVE  /\ box[1].channel = channel => box[1].n = low + 1 /\ Spread(box', 0, channel, low + 1, high)
         /\ box[1].channel # channel => Spread(box', 0, channel, low, high)
<1>1. /\ Len(box) \in Nat \ {0} /\ Len(box) \in Nat /\ 0 \in Nat /\ 1 \in Nat /\ 0 + 1 = 1 /\ 0 + 1 <= Len(box)
      /\ Len(box') = Len(box) - 1 /\ \A i \in 1 .. Len(box) - 1 : box'[i] = box[i + 1]
  BY ItemTaken
<1>2. \A i \in 0 + 1 .. 0 + 1 : box[i].channel = box[1].channel
  OBVIOUS
<1>3. /\ box[1].channel = channel => /\ Spread(box, 0 + 1, channel, low + 1, high)
                                     /\ \A i \in 1 .. 1 : box[0 + i].n = low + i
      /\ box[1].channel # channel => Spread(box, 0 + 1, channel, low, high)
  BY <1>1, <1>2, SpreadTaken
<1>4. 0 + 1 = 1 /\ 1 \in 1 .. 1 /\ low + 1 \in Nat
  OBVIOUS
<1>5. box[1].channel = channel => box[1].n = low + 1
  BY <1>3, <1>4
<1>6. ASSUME NEW from \in Nat, Spread(box, 1, channel, from, high) PROVE Spread(box', 0, channel, from, high)
  BY <1>1, <1>6, SpreadTail
<1>7. QED
  BY <1>3, <1>4, <1>5, <1>6

\* What every item taken has in common.
LEMMA TakenPhases ==
  ASSUME AnswersInv, TakeItem, stage' \in {"streaming", "flushing"}, sent' = 0, torn' = torn,
         stage' = "flushing" /\ then' = "answer" => model.over /\ box' = <<>> /\ held' = NoHeld
  PROVE  Phases'
<1>1. ~torn /\ Running /\ model' = model /\ way' = way
  BY ItemTaken DEF TakeItem
<1>2. ASSUME NEW i \in 1 .. Len(box'), box'[i].channel \notin Channel PROVE i = Len(box') /\ model.over
  <2>1. /\ i \in 1 .. Len(box) - 1 /\ i + 1 \in 1 .. Len(box)
        /\ i + 1 = Len(box) => i = Len(box')
    BY ItemTaken
  <2>2. box'[i] = box[i + 1]
    BY <2>1, ItemTaken
  <2>3. \A h \in 1 .. Len(box) : box[h].channel \notin Channel => h = Len(box) /\ model.over
    BY <1>1 DEF AnswersInv, Phases
  <2>4. i + 1 = Len(box) /\ model.over
    BY <1>2, <2>1, <2>2, <2>3
  <2>5. QED
    BY <2>1, <2>4
<1>3. QED
  BY <1>1, <1>2 DEF AnswersInv, Phases, Running

\* What is taken is a piece, the end of the model, or its failure.
LEMMA TakeItemCases ==
  ASSUME TakeItem
  PROVE  LET item == Head(box) IN
         \/ /\ item.channel \in Channel /\ TakePiece(item)
            /\ Flush("loop") \/ UNCHANGED <<stage, then, sent>>
         \/ /\ item.channel = "end" /\ item.channel \notin Channel
            /\ ready' = ready \o Remainder /\ held' = NoHeld /\ Flush("answer")
         \/ /\ item.channel \notin Channel \cup {"end"}
            /\ Flush(item.channel) /\ UNCHANGED <<held, ready>>
<1> DEFINE item == Head(box)
<1>1. "end" \notin Channel
  BY DEF Channel
<1>2. CASE item.channel \in Channel
  BY <1>1, <1>2 DEF TakeItem
<1>3. CASE item.channel = "end"
  BY <1>1, <1>3 DEF TakeItem
<1>4. CASE item.channel \notin Channel /\ item.channel # "end"
  BY <1>4 DEF TakeItem
<1>5. QED
  BY <1>2, <1>3, <1>4

\* A piece is taken: it goes through its renderer.
LEMMA TakePieceStep ==
  ASSUME AnswersInv, TakeItem, box[1].channel \in Channel
  PROVE  AnswersInv'
<1> DEFINE item == box[1]
           which == item.channel
           all == Append(held[which], item)
<1>1. /\ stage = "streaming" /\ Running /\ sent = 0 /\ ~torn /\ model.gen \in Nat /\ Head(box) = item
      /\ item \in QueueItems(model.gen) /\ box' \in Seq(QueueItems(model.gen)) /\ Len(box') = Len(box) - 1
      /\ Len(box) \in Nat \ {0}
      /\ UNCHANGED <<turn, execution, way, model, meta, shown, torn, outcome>>
  BY ItemTaken DEF TakeItem
<1>2. PICK k \in {Len(all) - 1, Len(all)} :
        /\ held' = [held EXCEPT ![which] = SubSeq(all, k + 1, Len(all))]
        /\ ready' = ready \o SubSeq(all, 1, k)
  <2>1. TakePiece(item)
    BY <1>1, TakeItemCases
  <2>2. QED
    BY <2>1 DEF TakePiece
<1>3. sent' = 0 /\ (stage' = "streaming" \/ (stage' = "flushing" /\ then' = "loop"))
      /\ then' \in {"loop", "answer", "model", "other", "stopped", "timeout"}
  <2>1. Flush("loop") \/ UNCHANGED <<stage, then, sent>>
    BY <1>1, TakeItemCases
  <2>2. QED
    BY <1>1, <2>1 DEF Flush, AnswersInv, OfTheGeneration, AnswersTypeOK
<1>4. /\ held \in [Channel -> Seq(Pieces(model.gen))] /\ ready \in Seq(Pieces(model.gen))
      /\ \A channel \in Channel : held[channel] \in Seq(PiecesOf(model.gen, channel))
      /\ model.made \in [Channel -> Nat] /\ shown \in [Channel -> Seq(Pieces(model.gen))]
  BY <1>1 DEF AnswersInv, OfTheGeneration
<1>5. item \in PiecesOf(model.gen, which)
  BY <1>1 DEF QueueItems, PiecesOf
<1>6. \A channel : PiecesOf(model.gen, channel) \subseteq [channel : {channel}, gen : {model.gen}, n : Nat]
      /\ (channel \in Channel => PiecesOf(model.gen, channel) \subseteq Pieces(model.gen))
  BY DEF PiecesOf, Pieces
<1> DEFINE front == SubSeq(all, 1, k)
           back == SubSeq(all, k + 1, Len(all))
<1>7. held[which] \in Seq(PiecesOf(model.gen, which)) /\ which \in Channel
  BY <1>4
<1>8. k \in 0 .. Len(held[which]) + 1 /\ k \in Nat
  <2>1. Len(all) = Len(held[which]) + 1 /\ Len(held[which]) \in Nat
    BY <1>5, <1>7, AppendProperties
  <2> HIDE DEF all
  <2>2. QED
    BY <1>2, <2>1
<1>9. /\ Len(held[which]) \in Nat
      /\ front \in Seq(PiecesOf(model.gen, which)) /\ Len(front) = k
      /\ back \in Seq(PiecesOf(model.gen, which)) /\ Len(back) = Len(held[which]) + 1 - k
      /\ IsCut(front, back, held[which], item, k)
  <2>1. /\ front \in Seq(PiecesOf(model.gen, which)) /\ back \in Seq(PiecesOf(model.gen, which))
        /\ IsCut(front, back, held[which], item, k)
    BY <1>5, <1>7, <1>8, CutParts
  <2> HIDE DEF front, back, all
  <2>2. QED
    BY <2>1 DEF IsCut
<1>10. /\ held'[which] = back /\ \A channel \in Channel : channel # which => held'[channel] = held[channel]
       /\ ready' = ready \o front
  BY <1>2, <1>4, <1>7
<1>11. front \in Seq(Pieces(model.gen)) /\ back \in Seq(Pieces(model.gen))
  BY <1>6, <1>7, <1>9, SeqMonotonic
<1>12. held' \in [Channel -> Seq(Pieces(model.gen))]
  BY <1>2, <1>4, <1>11
<1>13. ready' \in Seq(Pieces(model.gen)) /\ Joined(ready', ready, front)
  <2> DEFINE sum == ready \o front
  <2>1. sum \in Seq(Pieces(model.gen)) /\ Joined(sum, ready, front)
    BY <1>4, <1>11, ConcatJoins
  <2>2. ready' = sum
    BY <1>10
  <2> HIDE DEF sum, front
  <2>3. QED
    BY <2>1, <2>2
<1>14. \A channel \in Channel : held'[channel] \in Seq(PiecesOf(model.gen, channel))
  BY <1>4, <1>9, <1>10
<1>15. \A i \in 1 .. Len(front) : front[i].channel = which
  <2>1. front \in Seq(PiecesOf(model.gen, which))
    BY <1>9
  <2> HIDE DEF front, all
  <2>2. \A i \in 1 .. Len(front) : front[i] \in PiecesOf(model.gen, which)
    BY <2>1
  <2>3. QED
    BY <2>2 DEF PiecesOf
<1> HIDE DEF all, front, back
<1>16. OfTheGeneration'
  <2>1. AnswersTypeOK'
    <3>1. Len(ready') \in Nat
      BY <1>13
    <3>2. Len(box') <= QueueSize
      BY <1>1, AnswersAssumption DEF AnswersInv, OfTheGeneration, AnswersTypeOK
    <3>3. sent' <= Len(ready')
      BY <1>3, <3>1
    <3>4. outcome' = outcome /\ stage # "over" /\ stage' # "over"
      BY <1>1, <1>3
    <3>5. QED
      BY <1>1, <1>3, <3>2, <3>3, <3>4 DEF AnswersInv, OfTheGeneration, AnswersTypeOK
  <2>2. QED
    BY <1>1, <1>3, <1>12, <1>13, <1>14, <2>1 DEF AnswersInv, OfTheGeneration, Running
<1>17. Phases'
  BY <1>1, <1>3, TakenPhases
<1>18. ASSUME NEW channel \in Channel, Flow(channel) PROVE Flow(channel)'
  <2>1. PICK released \in 0 .. model.made[channel] :
          /\ Spread(ready, sent, channel, Len(shown[channel]), released)
          /\ Numbered(held[channel], channel, released)
          /\ Spread(box, 0, channel, released + Len(held[channel]), model.made[channel])
    BY <1>18 DEF Flow
  <2> DEFINE low == released + Len(held[channel])
  <2>2. /\ model.made[channel] \in Nat /\ released \in Nat /\ Len(held[channel]) \in Nat /\ low \in Nat
        /\ Len(shown[channel]) \in Nat /\ released <= model.made[channel]
    BY <1>4
  <2>3. /\ item.channel = channel => item.n = low + 1 /\ Spread(box', 0, channel, low + 1, model.made[channel])
        /\ item.channel # channel => Spread(box', 0, channel, low, model.made[channel])
    BY <2>1, <2>2, SpreadTakenItem
  <2>4. Len(ready) \in Nat /\ 0 \in 0 .. Len(ready) /\ Spread(ready, 0, channel, Len(shown[channel]), released)
    BY <1>1, <1>4, <2>1
  <2> HIDE DEF low
  <2>50. Joined(ready', ready, front)
    BY <1>13
  <2>5. CASE which = channel
    <3>1. /\ Numbered(front, channel, released) /\ Numbered(back, channel, released + k)
      <4>1. item.channel = channel /\ item.n = released + Len(held[channel]) + 1
        BY <2>3, <2>5 DEF low
      <4>2. IsCut(front, back, held[channel], item, k)
        BY <1>9, <2>5
      <4>3. QED
        BY <2>1, <2>2, <4>1, <4>2, NumberedParts
    <3>2. released + k \in Nat /\ GoesOn(front, channel, released, released + k)
      BY <1>8, <1>9, <2>2, <3>1 DEF GoesOn
    <3>3. Spread(ready', 0, channel, Len(shown[channel]), released + k)
      <4> DEFINE high == released + k
                 shownTo == Len(shown[channel])
      <4>1. high \in Nat /\ shownTo \in Nat /\ GoesOn(front, channel, released, high) /\ released \in Nat
        BY <2>2, <3>2
      <4>2. Spread(ready, 0, channel, shownTo, released) /\ 0 \in 0 .. Len(ready)
        BY <2>4
      <4> HIDE DEF high, shownTo
      <4>3. Spread(ready', 0, channel, shownTo, high)
        BY <2>50, <4>1, <4>2, SpreadContinued
      <4>4. QED
        BY <4>3 DEF high, shownTo
    <3>4. released + k + Len(back) = low + 1
      <4>1. Len(back) = Len(held[channel]) + 1 - k
        BY <1>9, <2>5
      <4>2. ASSUME NEW length \in Nat, NEW rest, rest = length + 1 - k
            PROVE  released + k + rest = released + length + 1
        BY <1>8, <2>2, <4>2
      <4>3. released + k + Len(back) = released + Len(held[channel]) + 1
        BY <2>2, <4>1, <4>2
      <4>4. QED
        BY <4>3 DEF low
    <3>5. released + k \in 0 .. model.made[channel]
      <4>1. low + 1 <= model.made[channel]
        BY <2>3, <2>5 DEF Spread
      <4>2. QED
        BY <1>8, <2>2, <2>5, <4>1 DEF low
    <3>6. Spread(box', 0, channel, released + k + Len(back), model.made[channel])
      BY <2>3, <2>5, <3>4
    <3>7. QED
      BY <1>1, <1>3, <1>10, <1>18, <2>5, <3>1, <3>3, <3>5, <3>6 DEF Flow
  <2>6. CASE which # channel
    <3>1. GoesOn(front, channel, released, released)
      BY <1>15, <2>6 DEF GoesOn
    <3>2. Spread(ready', 0, channel, Len(shown[channel]), released)
      BY <2>2, <2>4, <2>50, <3>1, SpreadContinued
    <3>3. held'[channel] = held[channel]
      BY <1>10, <2>6
    <3>4. Spread(box', 0, channel, released + Len(held[channel]), model.made[channel])
      BY <2>3, <2>6 DEF low
    <3>5. QED
      BY <1>1, <1>3, <1>18, <2>1, <3>2, <3>3, <3>4 DEF Flow
  <2>7. QED
    BY <2>5, <2>6
<1>19. Streams'
  <2>1. ASSUME NEW channel \in Channel
        PROVE  IF Publishable(channel)' THEN Flow(channel)' ELSE shown'[channel] = <<>>
    BY <1>1, <1>18 DEF AnswersInv, Streams, Publishable
  <2>2. QED
    BY <1>1, <2>1 DEF AnswersInv, Streams
<1>20. QED
  BY <1>3, <1>16, <1>17, <1>19 DEF AnswersInv


\* What a renderer holds goes on from what is released, of its channel.
LEMMA HeldGoesOn ==
  ASSUME AnswersInv, Running, NEW channel \in Channel, NEW which \in Channel, NEW mid \in Nat,
         which = channel => Numbered(held[channel], channel, mid)
  PROVE  GoesOn(held[which], channel, mid, IF which = channel THEN mid + Len(held[channel]) ELSE mid)
<1>1. CASE which = channel
  BY <1>1 DEF GoesOn
<1>2. CASE which # channel
  <2>1. held[which] \in Seq(PiecesOf(model.gen, which))
    BY DEF AnswersInv, OfTheGeneration
  <2>2. \A i \in 1 .. Len(held[which]) : held[which][i] \in PiecesOf(model.gen, which)
    BY <2>1
  <2>3. \A i \in 1 .. Len(held[which]) : held[which][i].channel # channel
    BY <1>2, <2>2 DEF PiecesOf
  <2>4. QED
    BY <1>2, <2>3 DEF GoesOn
<1>3. QED
  BY <1>1, <1>2

\* At the end what the renderers hold is released after the rest.
LEMMA RemainderGoesOn ==
  ASSUME AnswersInv, Running, NEW channel \in Channel, NEW low \in Nat, NEW released \in Nat,
         Spread(ready, 0, channel, low, released), Numbered(held[channel], channel, released)
  PROVE  Spread(ready \o Remainder, 0, channel, low, released + Len(held[channel]))
<1> DEFINE S == Pieces(model.gen)
           one == held["final"]
           two == held["reasoning"]
           most == ready \o one
           all == most \o two
           mid == IF "final" = channel THEN released + Len(held[channel]) ELSE released
           high == released + Len(held[channel])
<1>1. /\ ready \in Seq(S) /\ one \in Seq(S) /\ two \in Seq(S) /\ "final" \in Channel /\ "reasoning" \in Channel
      /\ held \in [Channel -> Seq(S)]
  BY DEF AnswersInv, OfTheGeneration, Channel
<1>2. Len(held[channel]) \in Nat
  BY <1>1
<1>3. mid \in Nat /\ high \in Nat
  BY <1>2
<1>4. GoesOn(one, channel, released, mid)
  BY <1>1, HeldGoesOn
<1>5. GoesOn(two, channel, mid, high)
  <2>1. CASE channel = "reasoning"
    <3>1. GoesOn(two, channel, released, high)
      BY <1>1, <2>1, HeldGoesOn
    <3>2. mid = released
      BY <2>1
    <3>3. QED
      BY <3>1, <3>2
  <2>2. CASE channel = "final"
    <3>1. mid = high
      BY <2>2
    <3>2. GoesOn(two, channel, high, high)
      BY <1>1, <1>3, <2>2, HeldGoesOn
    <3>3. QED
      BY <3>1, <3>2
  <2>3. QED
    BY <2>1, <2>2 DEF Channel
<1>6. most \in Seq(S) /\ Joined(most, ready, one)
  BY <1>1, ConcatJoins
<1>7. 0 \in 0 .. Len(ready) /\ 0 \in 0 .. Len(most)
  <2>1. \A x \in Seq(S) : 0 \in 0 .. Len(x)
    OBVIOUS
  <2> HIDE DEF most
  <2>2. QED
    BY <1>1, <1>6, <2>1
<1> HIDE DEF mid, high, one, two, S
<1>8. all \in Seq(S) /\ Joined(all, most, two)
  <2> HIDE DEF most
  <2>1. QED
    BY <1>1, <1>6, ConcatJoins
<1>9. ready \o Remainder = all
  <2>1. Remainder = one \o two
    BY DEF Remainder, one, two
  <2> HIDE DEF most, all
  <2>2. \A x, y, z \in Seq(S) : (x \o y) \o z = x \o (y \o z)
    BY ConcatAssociative
  <2>3. (ready \o one) \o two = ready \o (one \o two)
    BY <1>1, <2>2, Zenon
  <2>4. QED
    BY <2>1, <2>3, Zenon DEF all, most
<1> HIDE DEF most, all
<1>10. Spread(most, 0, channel, low, mid)
  BY <1>3, <1>4, <1>6, <1>7, SpreadContinued
<1>11. Spread(all, 0, channel, low, high)
  BY <1>3, <1>5, <1>7, <1>8, <1>10, SpreadContinued
<1>12. QED
  BY <1>9, <1>11 DEF high

\* The end of the model is taken: the answer is flushed.
LEMMA TakeEndStep ==
  ASSUME AnswersInv, TakeItem, box[1].channel = "end"
  PROVE  AnswersInv'
<1>1. /\ stage = "streaming" /\ Running /\ sent = 0 /\ ~torn /\ model.gen \in Nat /\ Head(box) = box[1]
      /\ box' = <<>> /\ model.over /\ box' \in Seq(QueueItems(model.gen))
      /\ UNCHANGED <<turn, execution, way, model, meta, shown, torn, outcome>>
  <2>1. box[1].channel \notin Channel
    BY DEF Channel
  <2>2. QED
    BY <2>1, ItemTaken DEF TakeItem
<1>2. ready' = ready \o Remainder /\ held' = NoHeld /\ stage' = "flushing" /\ then' = "answer" /\ sent' = 0
  BY <1>1, TakeItemCases DEF Flush, Channel
<1>3. /\ held \in [Channel -> Seq(Pieces(model.gen))] /\ ready \in Seq(Pieces(model.gen))
      /\ model.made \in [Channel -> Nat] /\ shown \in [Channel -> Seq(Pieces(model.gen))]
  BY <1>1 DEF AnswersInv, OfTheGeneration
<1>4. ready' \in Seq(Pieces(model.gen))
  <2>1. held.final \in Seq(Pieces(model.gen)) /\ held.reasoning \in Seq(Pieces(model.gen))
    BY <1>3 DEF Channel
  <2>2. held.final \o held.reasoning \in Seq(Pieces(model.gen))
    BY <2>1, ConcatJoins
  <2>3. Remainder \in Seq(Pieces(model.gen))
    BY <2>2 DEF Remainder
  <2>4. QED
    BY <1>2, <1>3, <2>3, ConcatJoins
<1>5. /\ NoHeld \in [Channel -> Seq(Pieces(model.gen))]
      /\ \A channel \in Channel : NoHeld[channel] = <<>>
  BY NothingYet
<1>6. OfTheGeneration'
  <2>1. AnswersTypeOK'
    <3>1. Len(ready') \in Nat /\ Len(box') = 0
      BY <1>1, <1>4
    <3>2. sent' <= Len(ready') /\ Len(box') <= QueueSize
      BY <1>2, <3>1, AnswersAssumption
    <3>3. stage # "over" /\ stage' # "over"
      BY <1>1, <1>2
    <3>4. QED
      BY <1>1, <1>2, <3>2, <3>3 DEF AnswersInv, OfTheGeneration, AnswersTypeOK
  <2>2. \A channel \in Channel : held'[channel] \in Seq(PiecesOf(model.gen, channel))
    <3>1. \A T : <<>> \in Seq(T)
      OBVIOUS
    <3>2. QED
      BY <1>2, <1>5, <3>1
  <2>3. held' \in [Channel -> Seq(Pieces(model.gen))] /\ sent' \in Nat
    BY <1>2, <1>5
  <2>4. QED
    BY <1>1, <1>4, <2>1, <2>2, <2>3 DEF AnswersInv, OfTheGeneration, Running
<1>7. Phases'
  BY <1>1, <1>2, TakenPhases
<1>8. ASSUME NEW channel \in Channel, Flow(channel) PROVE Flow(channel)'
  <2>1. PICK released \in 0 .. model.made[channel] :
          /\ Spread(ready, sent, channel, Len(shown[channel]), released)
          /\ Numbered(held[channel], channel, released)
          /\ Spread(box, 0, channel, released + Len(held[channel]), model.made[channel])
    BY <1>8 DEF Flow
  <2> DEFINE low == released + Len(held[channel])
             made == model.made[channel]
  <2>2. /\ made \in Nat /\ released \in Nat /\ low \in Nat /\ Len(shown[channel]) \in Nat
    BY <1>3
  <2>3. Spread(box', 0, channel, low, made)
    <3>1. box[1].channel # channel
      BY DEF Channel
    <3>2. QED
      BY <2>1, <2>2, <3>1, SpreadTakenItem
  <2>4. low = made
    <3>1. \A i \in 0 + 1 .. Len(box') : box'[i].channel # channel
      BY <1>1
    <3> HIDE DEF low, made
    <3>2. QED
      BY <2>2, <2>3, <3>1, SpreadNone
  <2>5. Spread(ready', 0, channel, Len(shown[channel]), made)
    <3>1. Spread(ready, 0, channel, Len(shown[channel]), released)
      BY <1>1, <2>1
    <3>2. Spread(ready \o Remainder, 0, channel, Len(shown[channel]), low)
      BY <1>1, <2>1, <2>2, <3>1, RemainderGoesOn
    <3>3. QED
      BY <1>2, <2>4, <3>2
  <2>6. held'[channel] = <<>>
    BY <1>2, <1>5
  <2>7. Numbered(<<>>, channel, made) /\ Spread(<<>>, 0, channel, made, made)
    BY <2>2 DEF Numbered, Spread
  <2>8. made \in 0 .. made /\ made + Len(<<>>) = made
    BY <2>2
  <2>9. Numbered(shown'[channel], channel, 0)
    BY <1>1, <1>8 DEF Flow
  <2>10. made = model'.made[channel] /\ shown' = shown /\ sent' = 0
    BY <1>1, <1>2
  <2> HIDE DEF made
  <2>11. QED
    BY <1>1, <2>5, <2>6, <2>7, <2>8, <2>9, <2>10 DEF Flow
<1>9. Streams'
  <2>1. ASSUME NEW channel \in Channel
        PROVE  IF Publishable(channel)' THEN Flow(channel)' ELSE shown'[channel] = <<>>
    BY <1>1, <1>8 DEF AnswersInv, Streams, Publishable
  <2>2. QED
    BY <1>1, <2>1 DEF AnswersInv, Streams
<1>10. QED
  BY <1>2, <1>6, <1>7, <1>9 DEF AnswersInv

\* The failure of the model is taken: what was released is flushed first.
LEMMA TakeErrorStep ==
  ASSUME AnswersInv, TakeItem, box[1].channel \notin Channel \cup {"end"}
  PROVE  AnswersInv'
<1>1. /\ stage = "streaming" /\ Running /\ sent = 0 /\ ~torn /\ model.gen \in Nat /\ Head(box) = box[1]
      /\ box[1] \in QueueItems(model.gen)
      /\ box' = <<>> /\ model.over /\ box' \in Seq(QueueItems(model.gen))
      /\ UNCHANGED <<turn, execution, way, model, meta, shown, torn, outcome>>
  BY ItemTaken DEF TakeItem
<1>2. /\ stage' = "flushing" /\ then' = box[1].channel /\ sent' = 0 /\ UNCHANGED <<held, ready>>
      /\ then' \in {"model", "other"}
  <2>1. Flush(box[1].channel) /\ UNCHANGED <<held, ready>>
    BY <1>1, TakeItemCases
  <2>2. box[1].channel \in {"model", "other"}
    BY <1>1 DEF QueueItems
  <2>3. QED
    BY <2>1, <2>2 DEF Flush
<1>3. OfTheGeneration'
  <2>1. Len(box') = 0 /\ Len(box') <= QueueSize
    BY <1>1, AnswersAssumption
  <2>2. QED
    BY <1>1, <1>2, <2>1 DEF AnswersInv, OfTheGeneration, AnswersTypeOK, Running
<1>4. Phases'
  BY <1>1, <1>2, TakenPhases
<1>5. ASSUME NEW channel \in Channel, Flow(channel) PROVE Flow(channel)'
  <2>1. PICK released \in 0 .. model.made[channel] :
          /\ Spread(ready, sent, channel, Len(shown[channel]), released)
          /\ Numbered(held[channel], channel, released)
          /\ Spread(box, 0, channel, released + Len(held[channel]), model.made[channel])
    BY <1>5 DEF Flow
  <2>2. model.made[channel] \in Nat /\ released + Len(held[channel]) \in Nat
    BY <1>1 DEF AnswersInv, OfTheGeneration
  <2>3. Spread(box', 0, channel, released + Len(held[channel]), model.made[channel])
    BY <2>1, <2>2, SpreadTakenItem
  <2>4. QED
    BY <1>1, <1>2, <1>5, <2>1, <2>3 DEF Flow
<1>6. Streams'
  <2>1. ASSUME NEW channel \in Channel
        PROVE  IF Publishable(channel)' THEN Flow(channel)' ELSE shown'[channel] = <<>>
    BY <1>1, <1>5 DEF AnswersInv, Streams, Publishable
  <2>2. QED
    BY <1>1, <2>1 DEF AnswersInv, Streams
<1>7. QED
  BY <1>2, <1>3, <1>4, <1>6 DEF AnswersInv

\* An item is taken from the queue.
LEMMA TakeItemStep == AnswersInv /\ TakeItem => AnswersInv'
<1>1. box[1].channel \in Channel \/ box[1].channel = "end" \/ box[1].channel \notin Channel \cup {"end"}
  OBVIOUS
<1>2. QED
  BY <1>1, TakePieceStep, TakeEndStep, TakeErrorStep

\* What is published at a time is of one channel and of this generation.
LEMMA DeltaIs ==
  ASSUME AnswersInv, Running, NEW k \in 1 .. Len(ready) - sent, NEW which \in Channel, IsDelta(k, which)
  PROVE  LET delta == SubSeq(ready, sent + 1, sent + k) IN
         /\ delta \in Seq(Pieces(model.gen)) /\ Len(delta) = k /\ delta # <<>>
         /\ \A i \in 1 .. k : delta[i] = ready[sent + i] /\ delta[i].channel = which
         /\ \A i \in sent + 1 .. sent + k : ready[i].channel = which
         /\ sent \in Nat /\ Len(ready) \in Nat /\ k \in Nat \ {0} /\ sent + k <= Len(ready)
<1> DEFINE delta == SubSeq(ready, sent + 1, sent + k)
<1>1. /\ ready \in Seq(Pieces(model.gen)) /\ sent \in Nat /\ Len(ready) \in Nat /\ sent <= Len(ready)
  BY DEF AnswersInv, OfTheGeneration, AnswersTypeOK
<1>2. /\ k \in Nat \ {0} /\ sent + k <= Len(ready) /\ sent + 1 \in Int /\ sent + k \in Int
      /\ sent + 1 <= sent + k /\ sent + k - (sent + 1) + 1 = k
      /\ \A i \in sent + 1 .. sent + k : i \in 1 .. Len(ready)
      /\ \A i \in 1 .. k : sent + i \in sent + 1 .. sent + k /\ sent + 1 + i - 1 = sent + i
  BY <1>1
<1>3. \A i \in sent + 1 .. sent + k : ready[i] \in Pieces(model.gen)
  BY <1>1, <1>2
<1>4. \A i \in sent + 1 .. sent + k : ready[i].channel = which
  BY <1>2 DEF IsDelta
<1>5. /\ delta \in Seq(Pieces(model.gen))
      /\ Len(delta) = IF sent + 1 <= sent + k THEN sent + k - (sent + 1) + 1 ELSE 0
      /\ \A i \in 1 .. sent + k - (sent + 1) + 1 : delta[i] = ready[sent + 1 + i - 1]
  BY <1>2, <1>3, SubSeqProperties
<1> HIDE DEF delta
<1>6. Len(delta) = k /\ \A i \in 1 .. k : delta[i] = ready[sent + i]
  BY <1>2, <1>5
<1>7. delta # <<>>
  BY <1>2, <1>6
<1>8. ASSUME NEW i \in 1 .. k PROVE delta[i].channel = which
  <2>1. sent + i \in sent + 1 .. sent + k
    BY <1>2
  <2>2. ready[sent + i].channel = which
    BY <1>4, <2>1
  <2>3. QED
    BY <1>6, <2>2
<1>9. /\ delta \in Seq(Pieces(model.gen)) /\ Len(delta) = k /\ delta # <<>>
      /\ \A i \in 1 .. k : delta[i] = ready[sent + i] /\ delta[i].channel = which
      /\ \A i \in sent + 1 .. sent + k : ready[i].channel = which
      /\ sent \in Nat /\ Len(ready) \in Nat /\ k \in Nat \ {0} /\ sent + k <= Len(ready)
  BY <1>1, <1>2, <1>4, <1>5, <1>6, <1>7, <1>8
<1>10. QED
  BY <1>9 DEF delta

\* What is taken down is public from then on.
LEMMA TakenDown ==
  ASSUME AnswersInv, NEW which \in Channel, NEW delta \in Seq(Pieces(model.gen)), delta # <<>>,
         TakeDown(which, delta)
  PROVE  /\ meta' \in [content : Seq(Pieces(model.gen)), reasoning : BOOLEAN]
         /\ meta'.content # <<>> \/ meta'.reasoning
         /\ which = "final" => meta'.content = meta.content \o delta /\ meta'.reasoning = meta.reasoning
         /\ which = "reasoning" => meta'.content = meta.content /\ meta'.reasoning
<1> DEFINE more == meta.content \o delta
<1>1. meta \in [content : Seq(Pieces(model.gen)), reasoning : BOOLEAN]
  BY DEF AnswersInv, OfTheGeneration
<1>2. meta.content \in Seq(Pieces(model.gen)) /\ meta.reasoning \in BOOLEAN
  BY <1>1
<1>3. more \in Seq(Pieces(model.gen)) /\ Len(more) = Len(meta.content) + Len(delta)
  BY <1>2, Appended
<1>4. more # <<>>
  <2>1. Len(meta.content) \in Nat /\ Len(delta) \in Nat \ {0}
    BY <1>2
  <2>2. Len(more) # 0
    BY <1>3, <2>1
  <2> HIDE DEF more
  <2>3. QED
    BY <2>2
<1>5. CASE which = "final"
  <2>1. meta' = [meta EXCEPT !.content = more]
    BY <1>5 DEF TakeDown
  <2> HIDE DEF more
  <2>2. meta'.content = more /\ meta'.reasoning = meta.reasoning /\ meta' = [content |-> more, reasoning |-> meta.reasoning]
    BY <1>1, <2>1
  <2>3. meta' \in [content : Seq(Pieces(model.gen)), reasoning : BOOLEAN]
    BY <1>2, <1>3, <2>2
  <2>4. QED
    BY <1>4, <1>5, <2>2, <2>3 DEF more
<1>6. CASE which = "reasoning"
  <2>1. meta' = [meta EXCEPT !.reasoning = TRUE]
    BY <1>6 DEF TakeDown
  <2>2. QED
    BY <1>1, <1>6, <2>1
<1>7. QED
  BY <1>5, <1>6 DEF Channel

\* What is shown of the channel is longer by what is published.
LEMMA ShownMore ==
  ASSUME AnswersInv, NEW which \in Channel, NEW delta \in Seq(Pieces(model.gen))
  PROVE  LET more == [shown EXCEPT ![which] = @ \o delta] IN
         /\ more \in [Channel -> Seq(Pieces(model.gen))]
         /\ more[which] = shown[which] \o delta
         /\ \A channel \in Channel : channel # which => more[channel] = shown[channel]
<1>1. shown \in [Channel -> Seq(Pieces(model.gen))]
  BY DEF AnswersInv, OfTheGeneration
<1>2. shown[which] \o delta \in Seq(Pieces(model.gen))
  BY <1>1, ConcatJoins
<1>3. QED
  BY <1>1, <1>2

\* A list of numbered pieces, and the ones that come next.
LEMMA NumberedJoined ==
  ASSUME NEW all, NEW items, NEW run, Joined(all, items, run), NEW channel,
         Numbered(items, channel, 0), Numbered(run, channel, Len(items))
  PROVE  Numbered(all, channel, 0)
<1>1. Len(items) \in Nat /\ Len(run) \in Nat /\ Len(all) = Len(items) + Len(run)
  BY DEF Joined
<1>2. ASSUME NEW i \in 1 .. Len(all) PROVE all[i].channel = channel /\ all[i].n = 0 + i
  <2>1. CASE i \in 1 .. Len(items)
    BY <2>1 DEF Joined, Numbered
  <2>2. CASE i \notin 1 .. Len(items)
    <3>1. i - Len(items) \in 1 .. Len(run) /\ Len(items) + (i - Len(items)) = i /\ 0 + i = i
      BY <1>1, <2>2
    <3>2. all[i] = run[i - Len(items)]
      BY <3>1 DEF Joined
    <3>3. run[i - Len(items)].channel = channel /\ run[i - Len(items)].n = i
      BY <3>1 DEF Numbered
    <3>4. QED
      BY <3>1, <3>2, <3>3
  <2>3. QED
    BY <2>1, <2>2
<1>3. QED
  BY <1>2 DEF Numbered

\* The pieces of a channel while pieces of a public channel are published.
LEMMA FlowPublished ==
  ASSUME AnswersInv, Running, NEW k \in 1 .. Len(ready) - sent, NEW which \in Channel, IsDelta(k, which),
         NEW channel \in Channel, Flow(channel),
         UNCHANGED <<model, box, held, ready>>, sent' = sent + k,
         shown'[channel] = IF channel = which THEN shown[channel] \o SubSeq(ready, sent + 1, sent + k)
                           ELSE shown[channel]
  PROVE  Flow(channel)'
<1> DEFINE delta == SubSeq(ready, sent + 1, sent + k)
<1>1. PICK released \in 0 .. model.made[channel] :
        /\ Spread(ready, sent, channel, Len(shown[channel]), released)
        /\ Numbered(held[channel], channel, released)
        /\ Spread(box, 0, channel, released + Len(held[channel]), model.made[channel])
  BY DEF Flow
<1>2. /\ model.made[channel] \in Nat /\ released \in Nat /\ Len(shown[channel]) \in Nat
      /\ shown[channel] \in Seq(Pieces(model.gen))
  BY DEF AnswersInv, OfTheGeneration
<1>3. /\ delta \in Seq(Pieces(model.gen)) /\ Len(delta) = k
      /\ \A i \in 1 .. k : delta[i] = ready[sent + i] /\ delta[i].channel = which
      /\ \A i \in sent + 1 .. sent + k : ready[i].channel = which
      /\ sent \in Nat /\ Len(ready) \in Nat /\ k \in Nat /\ sent + k <= Len(ready)
  BY DeltaIs
<1>4. /\ which = channel => /\ Spread(ready, sent + k, channel, Len(shown[channel]) + k, released)
                            /\ \A i \in 1 .. k : ready[sent + i].n = Len(shown[channel]) + i
      /\ which # channel => Spread(ready, sent + k, channel, Len(shown[channel]), released)
  <2> DEFINE low == Len(shown[channel])
  <2>1. low \in Nat /\ Spread(ready, sent, channel, low, released)
    BY <1>1, <1>2
  <2>2. sent \in Nat /\ Len(ready) \in Nat /\ k \in Nat /\ sent + k <= Len(ready) /\ released \in Nat
    BY <1>2, <1>3
  <2>3. \A i \in sent + 1 .. sent + k : ready[i].channel = which
    BY <1>3
  <2> HIDE DEF low, delta
  <2>4. /\ which = channel => /\ Spread(ready, sent + k, channel, low + k, released)
                              /\ \A i \in 1 .. k : ready[sent + i].n = low + i
        /\ which # channel => Spread(ready, sent + k, channel, low, released)
    BY <2>1, <2>2, <2>3, SpreadTaken
  <2>5. QED
    BY <2>4 DEF low
<1>5. CASE which # channel
  BY <1>1, <1>4, <1>5 DEF Flow
<1>6. CASE which = channel
  <2> DEFINE sum == shown[channel] \o delta
  <2>1. Joined(sum, shown[channel], delta)
    BY <1>2, <1>3, ConcatJoins
  <2>2. Numbered(delta, channel, Len(shown[channel]))
    <3> HIDE DEF delta
    <3>1. QED
      BY <1>3, <1>4, <1>6 DEF Numbered
  <2>3. shown'[channel] = sum
    BY <1>6
  <2> HIDE DEF sum, delta
  <2>4. Numbered(sum, channel, 0)
    BY <2>1, <2>2, NumberedJoined DEF Flow
  <2>5. Len(sum) = Len(shown[channel]) + k
    BY <1>3, <2>1 DEF Joined
  <2>6. QED
    BY <1>1, <1>4, <1>6, <2>3, <2>4, <2>5 DEF Flow
<1>7. QED
  BY <1>5, <1>6

\* Pieces are published, or not when the channel is not public.
LEMMA PublishStep == AnswersInv /\ Publish => AnswersInv'
<1> SUFFICES ASSUME AnswersInv, Publish PROVE AnswersInv'
  OBVIOUS
<1>1. /\ stage = "flushing" /\ stage' = "flushing" /\ Running /\ model.gen \in Nat
      /\ UNCHANGED <<turn, execution, way, stage, then, model, box, held, ready, torn, outcome>>
  BY DEF Publish, Running, AnswersInv, OfTheGeneration
<1>2. PICK k \in 1 .. Len(ready) - sent, which \in Channel :
        LET delta == SubSeq(ready, sent + 1, sent + k) IN
        /\ IsDelta(k, which) /\ sent' = sent + k
        /\ IF Publishable(which)
           THEN TakeDown(which, delta) /\ shown' = [shown EXCEPT ![which] = @ \o delta]
           ELSE UNCHANGED <<meta, shown>>
  BY DEF Publish
<1> DEFINE delta == SubSeq(ready, sent + 1, sent + k)
<1>3. IsDelta(k, which) /\ sent' = sent + k
  BY <1>2
<1>4. /\ delta \in Seq(Pieces(model.gen)) /\ delta # <<>> /\ sent' <= Len(ready) /\ sent' \in Nat
  <2>1. /\ delta \in Seq(Pieces(model.gen)) /\ delta # <<>>
        /\ sent \in Nat /\ k \in Nat \ {0} /\ sent + k <= Len(ready)
    BY <1>1, <1>3, DeltaIs
  <2> HIDE DEF delta
  <2>2. QED
    BY <1>3, <2>1
<1>5. Publishable(which) => TakeDown(which, delta) /\ shown' = [shown EXCEPT ![which] = @ \o delta]
  BY <1>2
<1>6. ~Publishable(which) => UNCHANGED <<meta, shown>>
  BY <1>2
<1>7. Publishable(which) =>
        /\ shown' \in [Channel -> Seq(Pieces(model.gen))]
        /\ shown'[which] = shown[which] \o delta
        /\ \A channel \in Channel : channel # which => shown'[channel] = shown[channel]
  <2> DEFINE more == [shown EXCEPT ![which] = @ \o delta]
  <2>1. Publishable(which) => shown' = more
    BY <1>5
  <2> HIDE DEF delta
  <2>2. /\ more \in [Channel -> Seq(Pieces(model.gen))]
        /\ more[which] = shown[which] \o delta
        /\ \A channel \in Channel : channel # which => more[channel] = shown[channel]
    BY <1>4, ShownMore
  <2> HIDE DEF more
  <2>3. QED
    BY <2>1, <2>2
<1> HIDE DEF delta
<1>8. Publishable(which) =>
        /\ meta' \in [content : Seq(Pieces(model.gen)), reasoning : BOOLEAN]
        /\ meta'.content # <<>> \/ meta'.reasoning
        /\ which = "final" => meta'.content = meta.content \o delta /\ meta'.reasoning = meta.reasoning
        /\ which = "reasoning" => meta'.content = meta.content /\ meta'.reasoning
  BY <1>4, <1>5, TakenDown
<1>9. OfTheGeneration'
  <2>1. /\ meta' \in [content : Seq(Pieces(model.gen)), reasoning : BOOLEAN]
        /\ shown' \in [Channel -> Seq(Pieces(model.gen))]
    <3>1. CASE Publishable(which)
      BY <1>7, <1>8, <3>1
    <3>2. CASE ~Publishable(which)
      BY <1>6, <3>2 DEF AnswersInv, OfTheGeneration
    <3>3. QED
      BY <3>1, <3>2
  <2>2. AnswersTypeOK'
    BY <1>1, <1>4 DEF AnswersInv, OfTheGeneration, AnswersTypeOK
  <2>3. QED
    BY <1>1, <1>4, <2>1, <2>2 DEF AnswersInv, OfTheGeneration, Running
<1>10. Phases'
  <2>1. Streamed => Streamed'
    <3>1. CASE Publishable(which)
      BY <1>8, <3>1 DEF Streamed
    <3>2. CASE ~Publishable(which)
      BY <1>6, <3>2 DEF Streamed
    <3>3. QED
      BY <3>1, <3>2
  <2>2. QED
    BY <1>1, <2>1 DEF AnswersInv, Phases, Running
<1>11. Streams'
  <2>1. SUFFICES ASSUME ~torn PROVE Streams'
    BY <1>1 DEF Streams
  <2>2. /\ meta.content = shown.final /\ (shown.reasoning # <<>> => meta.reasoning)
        /\ \A channel \in Channel : IF Publishable(channel) THEN Flow(channel) ELSE shown[channel] = <<>>
    BY <1>1, <2>1 DEF AnswersInv, Streams
  <2>3. meta'.content = shown'.final /\ (shown'.reasoning # <<>> => meta'.reasoning)
    <3>1. CASE ~Publishable(which)
      BY <1>6, <2>2, <3>1
    <3>2. CASE Publishable(which) /\ which = "final"
      <4>1. shown'["final"] = shown["final"] \o delta /\ shown'["reasoning"] = shown["reasoning"]
        BY <1>7, <3>2 DEF Channel
      <4>2. meta'.content = meta.content \o delta /\ meta'.reasoning = meta.reasoning
        BY <1>8, <3>2
      <4>3. QED
        BY <2>2, <4>1, <4>2, Zenon
    <3>3. CASE Publishable(which) /\ which = "reasoning"
      <4>1. shown'["final"] = shown["final"]
        BY <1>7, <3>3 DEF Channel
      <4>2. meta'.content = meta.content /\ meta'.reasoning
        BY <1>8, <3>3
      <4>3. QED
        BY <2>2, <4>1, <4>2, Zenon
    <3>4. QED
      BY <3>1, <3>2, <3>3 DEF Channel
  <2>4. ASSUME NEW channel \in Channel
        PROVE  IF Publishable(channel)' THEN Flow(channel)' ELSE shown'[channel] = <<>>
    <3>1. Publishable(channel)' <=> Publishable(channel)
      BY <1>1 DEF Publishable
    <3>2. CASE ~Publishable(channel)
      <4>1. shown'[channel] = shown[channel]
        BY <1>6, <1>7, <3>2
      <4>2. QED
        BY <2>2, <3>1, <3>2, <4>1
    <3>3. CASE Publishable(channel)
      <4>1. shown'[channel] = IF channel = which THEN shown[channel] \o delta ELSE shown[channel]
        BY <1>6, <1>7, <3>3
      <4>2. Flow(channel) /\ UNCHANGED <<model, box, held, ready>>
        BY <1>1, <2>2, <3>3
      <4>3. Flow(channel)'
        BY <1>1, <1>3, <4>1, <4>2, FlowPublished DEF delta
      <4>4. QED
        BY <3>1, <3>3, <4>3
    <3>4. QED
      BY <3>2, <3>3
  <2>5. QED
    BY <2>3, <2>4 DEF Streams
<1>12. QED
  BY <1>1, <1>9, <1>10, <1>11 DEF AnswersInv

\* Publishing fails or is cancelled: once more when the session goes on to the
\* end, and then the turn is over.
LEMMA PublishFailsStep == AnswersInv /\ PublishFails => AnswersInv'
<1> SUFFICES ASSUME AnswersInv, PublishFails PROVE AnswersInv'
  OBVIOUS
<1>1. /\ stage = "flushing" /\ Running /\ torn' = TRUE /\ model.gen \in Nat
      /\ UNCHANGED <<turn, model, box, held, ready>>
  BY DEF PublishFails, Running, AnswersInv, OfTheGeneration
<1>2. PICK k \in 1 .. Len(ready) - sent, which \in Channel :
        LET delta == SubSeq(ready, sent + 1, sent + k) IN
        /\ IsDelta(k, which) /\ Publishable(which) /\ TakeDown(which, delta)
        /\ shown' \in {shown, [shown EXCEPT ![which] = @ \o delta]}
  BY DEF PublishFails
<1> DEFINE delta == SubSeq(ready, sent + 1, sent + k)
           more == [shown EXCEPT ![which] = @ \o delta]
<1>3. IsDelta(k, which) /\ TakeDown(which, delta) /\ shown' \in {shown, more}
  BY <1>2
<1>4. /\ delta \in Seq(Pieces(model.gen)) /\ delta # <<>>
  BY <1>1, <1>3, DeltaIs
<1> HIDE DEF delta
<1>5. /\ meta' \in [content : Seq(Pieces(model.gen)), reasoning : BOOLEAN]
      /\ meta'.content # <<>> \/ meta'.reasoning
  BY <1>3, <1>4, TakenDown
<1>6. more \in [Channel -> Seq(Pieces(model.gen))]
  BY <1>4, ShownMore
<1> HIDE DEF more
<1>7. /\ shown' \in [Channel -> Seq(Pieces(model.gen))] /\ sent \in Nat /\ sent <= Len(ready) /\ Len(ready) \in Nat
  <2>1. shown \in [Channel -> Seq(Pieces(model.gen))] /\ ready \in Seq(Pieces(model.gen))
    BY <1>1 DEF AnswersInv, OfTheGeneration
  <2>2. sent \in Nat /\ sent <= Len(ready)
    BY <1>1 DEF AnswersInv, OfTheGeneration, AnswersTypeOK
  <2>3. shown' \in [Channel -> Seq(Pieces(model.gen))]
    BY <1>3, <1>6, <2>1
  <2>4. QED
    BY <2>1, <2>2, <2>3
<1>8. \/ /\ stage' = "flushing" /\ then' \in {"other", "timeout"} /\ sent' = 0 /\ outcome' = outcome
      \/ /\ stage' = "over" /\ then' = then /\ sent' = sent
         /\ outcome' = [status |-> "FAILED", text |-> meta'.content]
  BY DEF PublishFails, Flush, TurnOver
<1>9. execution' = execution /\ way' = way
  BY DEF PublishFails, TurnOver
<1>10. stage' = "over" => outcome' # Unanswered /\ outcome'.status = "FAILED"
  <2>1. SUFFICES ASSUME stage' = "over" PROVE outcome'.status = "FAILED"
    BY DEF Unanswered
  <2>2. QED
    BY <1>8, <2>1
<1>11. OfTheGeneration'
  <2>1. AnswersTypeOK'
    <3>1. sent' <= Len(ready')
      BY <1>1, <1>7, <1>8
    <3>2. then' \in {"loop", "answer", "model", "other", "stopped", "timeout"}
      BY <1>8 DEF AnswersInv, OfTheGeneration, AnswersTypeOK
    <3>3. stage' \in {"call", "streaming", "flushing", "over"} /\ (stage' = "over" <=> outcome' # Unanswered)
      BY <1>1, <1>8, <1>10 DEF AnswersInv, OfTheGeneration, AnswersTypeOK
    <3>4. QED
      BY <1>1, <1>9, <3>1, <3>2, <3>3 DEF AnswersInv, OfTheGeneration, AnswersTypeOK
  <2>2. sent' \in Nat
    BY <1>7, <1>8
  <2>3. QED
    BY <1>1, <1>5, <1>7, <2>1, <2>2 DEF AnswersInv, OfTheGeneration, Running
<1>12. Phases'
  BY <1>1, <1>5, <1>8, <1>9, <1>10 DEF AnswersInv, Phases, Running, Streamed
<1>13. ASSUME stage' = "over" PROVE AnswerIsShown'
  <2>1. ASSUME NEW channel \in Channel, NEW i \in 1 .. Len(shown'[channel])
        PROVE  shown'[channel][i].gen = model'.gen
    <3>1. shown'[channel] \in Seq(Pieces(model.gen))
      BY <1>7
    <3>2. shown'[channel][i] \in Pieces(model.gen)
      BY <3>1
    <3>3. shown'[channel][i].gen = model.gen
      BY <3>2, PieceIs
    <3>4. QED
      BY <1>1, <3>3
  <2>2. QED
    BY <1>1, <1>10, <1>13, <2>1 DEF AnswerIsShown
<1>14. QED
  BY <1>1, <1>11, <1>12, <1>13 DEF AnswersInv, Streams

\* An answer whose flush ends is shown as far as it was made.
LEMMA FlushedWhole ==
  ASSUME AnswersInv, stage = "flushing", then = "answer", sent = Len(ready),
         NEW channel \in Channel, Publishable(channel)
  PROVE  shown[channel] = Beginning(channel, model.made[channel])
<1>1. Running /\ ~torn /\ box = <<>> /\ held = NoHeld
  BY DEF AnswersInv, Phases, Running
<1>2. Flow(channel)
  BY <1>1 DEF AnswersInv, Streams
<1>3. PICK released \in 0 .. model.made[channel] :
        /\ Spread(ready, sent, channel, Len(shown[channel]), released)
        /\ Numbered(held[channel], channel, released)
        /\ Spread(box, 0, channel, released + Len(held[channel]), model.made[channel])
  BY <1>2 DEF Flow
<1>4. /\ shown[channel] \in Seq(Pieces(model.gen)) /\ Len(shown[channel]) \in Nat
      /\ model.made[channel] \in Nat /\ released \in Nat /\ sent \in Nat
      /\ ready \in Seq(Pieces(model.gen)) /\ Len(ready) \in Nat
  BY <1>1 DEF AnswersInv, OfTheGeneration
<1>5. Len(held[channel]) = 0 /\ released + Len(held[channel]) = released
  <2>1. held[channel] = <<>>
    BY <1>1, NothingYet
  <2>2. Len(<<>>) = 0 /\ released + 0 = released
    BY <1>4
  <2>3. QED
    BY <2>1, <2>2
<1>6. released = model.made[channel]
  <2>1. Spread(box, 0, channel, released, model.made[channel])
    BY <1>3, <1>5
  <2>2. \A i \in 0 + 1 .. Len(box) : box[i].channel # channel
    BY <1>1
  <2>3. QED
    BY <1>4, <2>1, <2>2, SpreadNone
<1>7. Len(shown[channel]) = released
  <2>1. \A i \in sent + 1 .. Len(ready) : ready[i].channel # channel
    BY <1>4
  <2>2. QED
    BY <1>3, <1>4, <2>1, SpreadNone
<1>8. shown[channel] = Beginning(channel, Len(shown[channel]))
  BY <1>2, <1>4, NumberedBegins DEF Flow
<1>9. QED
  BY <1>6, <1>7, <1>8

\* A flush that ends the session.
LEMMA SessionEndsStep == AnswersInv /\ EndFlush /\ then # "loop" => AnswersInv'
<1> SUFFICES ASSUME AnswersInv, EndFlush, then # "loop" PROVE AnswersInv'
  OBVIOUS
<1>1. /\ stage = "flushing" /\ stage # "over" /\ sent = Len(ready) /\ ready' = <<>> /\ sent' = 0
      /\ UNCHANGED <<turn, model, then, box, held, meta, shown, torn>>
  BY DEF EndFlush
<1>2. Len(box') <= QueueSize /\ sent' <= Len(ready')
  BY <1>1 DEF AnswersInv, OfTheGeneration, AnswersTypeOK
<1>3. \/ (\E error : Raised(error)) \/ (\E retryable \in BOOLEAN : Fails(retryable))
      \/ then = "answer" /\ TurnOver("COMPLETED", meta.content)
  <2>1. \/ Raised("other")
        \/ then # "answer" /\ Raised(then)
        \/ then = "answer" /\ IF way = "native" /\ meta.content = <<>>
                              THEN Fails(FALSE) ELSE TurnOver("COMPLETED", meta.content)
    BY DEF EndFlush
  <2>2. QED
    BY <2>1
<1>4. CASE (\E error : Raised(error)) \/ (\E retryable \in BOOLEAN : Fails(retryable))
  <2>1. /\ execution' \in 1 .. MaxAttempts /\ way' \in Ways \cup {"blocking"}
        /\ \/ stage' = "call" /\ outcome' = outcome /\ ~Streamed
           \/ /\ stage' = "over"
              /\ \E ending \in {"FAILED", "STOPPED"} : outcome' = [status |-> ending, text |-> meta.content]
    BY <1>1, <1>4, RaisedLeads
  <2>2. CASE stage' = "call" /\ outcome' = outcome /\ ~Streamed
    BY <1>1, <1>2, <2>1, <2>2, EndedStep
  <2>3. ASSUME stage' = "over", NEW ending \in {"FAILED", "STOPPED"},
               outcome' = [status |-> ending, text |-> meta.content]
        PROVE  AnswersInv'
    <3>1. ending \in {"FAILED", "STOPPED", "COMPLETED"} /\ ending # "COMPLETED"
      BY <2>3
    <3>2. QED
      BY <1>1, <1>2, <2>1, <2>3, <3>1, EndedStep
  <2>4. QED
    BY <2>1, <2>2, <2>3
<1>5. CASE then = "answer" /\ TurnOver("COMPLETED", meta.content)
  <2>1. /\ stage' = "over" /\ outcome' = [status |-> "COMPLETED", text |-> meta.content]
        /\ execution' = execution /\ way' = way
    BY <1>5 DEF TurnOver
  <2>2. ~torn
    BY <1>1, <1>5 DEF AnswersInv, Phases
  <2>3. \A channel \in Channel :
          Publishable(channel) => shown[channel] = Beginning(channel, model.made[channel])
    BY <1>1, <1>5, FlushedWhole
  <2>4. execution' \in 1 .. MaxAttempts /\ way' \in Ways \cup {"blocking"}
    BY <2>1 DEF AnswersInv, OfTheGeneration, AnswersTypeOK
  <2>5. \E ending \in {"FAILED", "STOPPED", "COMPLETED"} :
          /\ outcome' = [status |-> ending, text |-> meta.content]
          /\ ending = "COMPLETED" =>
               /\ ~torn
               /\ \A channel \in Channel :
                    Publishable(channel) => shown[channel] = Beginning(channel, model.made[channel])
    BY <2>1, <2>2, <2>3
  <2>6. QED
    BY <1>1, <1>2, <2>1, <2>4, <2>5, EndedStep
<1>6. QED
  BY <1>3, <1>4, <1>5

\* A flush after which the session goes on.
LEMMA FlushedStep == AnswersInv /\ EndFlush /\ then = "loop" => AnswersInv'
<1> SUFFICES ASSUME AnswersInv, EndFlush, then = "loop" PROVE AnswersInv'
  OBVIOUS
<1>1. /\ stage = "flushing" /\ Running /\ sent = Len(ready) /\ ready' = <<>> /\ sent' = 0 /\ ~torn
      /\ stage' = "streaming"
      /\ UNCHANGED <<turn, execution, way, outcome, model, then, box, held, meta, shown, torn>>
  BY DEF EndFlush, AnswersInv, Phases, Running
<1>2. ready' \in Seq(Pieces(model.gen)) /\ Len(ready') = 0 /\ sent' <= Len(ready')
  <2>1. <<>> \in Seq(Pieces(model.gen)) /\ Len(<<>>) = 0 /\ 0 <= 0
    OBVIOUS
  <2>2. QED
    BY <1>1, <2>1
<1>3. OfTheGeneration'
  BY <1>1, <1>2 DEF AnswersInv, OfTheGeneration, AnswersTypeOK, Running
<1>4. Phases'
  BY <1>1 DEF AnswersInv, Phases, Running
<1>5. ASSUME NEW channel \in Channel, Flow(channel) PROVE Flow(channel)'
  <2>1. PICK released \in 0 .. model.made[channel] :
          /\ Spread(ready, sent, channel, Len(shown[channel]), released)
          /\ Numbered(held[channel], channel, released)
          /\ Spread(box, 0, channel, released + Len(held[channel]), model.made[channel])
    BY <1>5 DEF Flow
  <2>2. /\ Len(shown[channel]) \in Nat /\ released \in Nat /\ sent \in Nat /\ Len(ready) \in Nat
    BY <1>1 DEF AnswersInv, OfTheGeneration
  <2>3. \A i \in sent + 1 .. Len(ready) : ready[i].channel # channel
    BY <1>1, <2>2
  <2>4. Len(shown[channel]) = released
    BY <2>1, <2>2, <2>3, SpreadNone
  <2>5. Spread(<<>>, 0, channel, released, released)
    BY <2>2 DEF Spread
  <2>6. QED
    BY <1>1, <1>5, <2>1, <2>4, <2>5 DEF Flow
<1>6. Streams'
  <2>1. ASSUME NEW channel \in Channel
        PROVE  IF Publishable(channel)' THEN Flow(channel)' ELSE shown'[channel] = <<>>
    BY <1>1, <1>5 DEF AnswersInv, Streams, Publishable
  <2>2. QED
    BY <1>1, <2>1 DEF AnswersInv, Streams
<1>7. QED
  BY <1>1, <1>3, <1>4, <1>6 DEF AnswersInv

\* At the start nothing is asked yet.
LEMMA AnswersInitInv == AnswersInit => AnswersInv
<1> SUFFICES ASSUME AnswersInit PROVE AnswersInv
  OBVIOUS
<1>1. /\ execution = 1 /\ way = FirstWay /\ stage = "call" /\ then = "loop"
      /\ model = [gen |-> 0, made |-> NoneMade, over |-> TRUE]
      /\ box = <<>> /\ held = NoHeld /\ ready = <<>> /\ sent = 0
      /\ meta = NoMeta /\ shown = NoHeld /\ torn = FALSE /\ outcome = Unanswered
      /\ turn.reasoning \in BOOLEAN /\ model.gen = 0 /\ model.made = NoneMade
  BY DEF AnswersInit
<1>2. /\ NoneMade \in [Channel -> Nat] /\ NoneMade.final + NoneMade.reasoning = 0
      /\ NoHeld \in [Channel -> Seq(Pieces(model.gen))]
      /\ NoMeta \in [content : Seq(Pieces(model.gen)), reasoning : BOOLEAN] /\ NoMeta.content = <<>>
  BY NothingYet
<1>3. MaxPieces \in Nat /\ QueueSize \in Nat /\ 1 \in 1 .. MaxAttempts /\ FirstWay \in Ways
  BY AnswersAssumption DEF FirstWay, Ways
<1>4. AnswersTypeOK
  BY <1>1, <1>2, <1>3 DEF AnswersTypeOK
<1>5. OfTheGeneration
  BY <1>1, <1>2, <1>4 DEF OfTheGeneration, Running
<1>6. Phases
  BY <1>1, <1>2 DEF Phases, Running, Streamed, NoMeta
<1>7. QED
  BY <1>1, <1>5, <1>6 DEF AnswersInv, Streams, Running

\* Every step keeps it.
LEMMA AnswersStep == AnswersInv /\ [AnswersNext]_answerVars => AnswersInv'
<1> SUFFICES ASSUME AnswersInv, [AnswersNext]_answerVars PROVE AnswersInv'
  OBVIOUS
<1>1. CASE UNCHANGED answerVars
  BY <1>1 DEF AnswersInv, OfTheGeneration, AnswersTypeOK, Phases, Streams, Flow, AnswerIsShown, answerVars,
              session, Running, Streamed, Publishable, Beginning
<1>2. CASE EndFlush
  BY <1>2, FlushedStep, SessionEndsStep
<1>3. QED
  BY <1>1, <1>2, AskStep, AskFailsStep, AskBlockingStep, ProduceStep, TakeItemStep, InterruptStep,
     PublishStep, PublishFailsStep DEF AnswersNext

\* What holds of a turn throughout.
LEMMA AnswersInvariant == AnswersSpec => []AnswersInv
BY AnswersInitInv, AnswersStep, PTL DEF AnswersSpec

\* The variables of a turn and of its session keep their types, the queue and
\* the number of executions their bounds.
THEOREM AnswersTypes == AnswersSpec => []AnswersTypeOK
<1>1. AnswersInv => AnswersTypeOK
  BY DEF AnswersInv, OfTheGeneration
<1>2. QED
  BY <1>1, AnswersInvariant, PTL

\* What the customer sees of an answer is the beginning of one generation, in
\* its order and once, whatever is retried, flushed again or stopped, and all
\* of it when the answer is complete: for every size of the queue, every length
\* of a generation and every number of executions (AnswerStreamSession.run,
\* GeneralContentAgent.execute, ResilientAgentExecutor.execute).
THEOREM AnswerShown == AnswersSpec => []AnswerIsShown
<1>1. AnswersInv => AnswerIsShown
  BY RunningIsShown DEF AnswersInv
<1>2. QED
  BY <1>1, AnswersInvariant, PTL
=============================================================================
