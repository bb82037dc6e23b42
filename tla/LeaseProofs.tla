----------------------------- MODULE LeaseProofs ----------------------------
(***************************************************************************)
(* ConcurrencyService for any conversations, users, limits and TTL.  The   *)
(* limits are not inductive alone: the scripts count members of sorted     *)
(* sets, so the proof carries that the unexpired members are exactly the   *)
(* locks in force (LiveLockIsCounted and NoSlotLeaked).                    *)
(***************************************************************************)
EXTENDS Lease, FiniteSetTheorems, FunctionTheorems, TLAPS

Agreement == TypeOK /\ LiveLockIsCounted /\ NoSlotLeaked

LEMMA InitAgreement == Init => Agreement
  BY LeaseAssumption
  DEF Init, Agreement, TypeOK, LiveLockIsCounted, NoSlotLeaked, Live, Exists

LEMMA TypeStep == TypeOK /\ [Next]_vars => TypeOK'
<1> SUFFICES ASSUME TypeOK, [Next]_vars PROVE TypeOK'
  OBVIOUS
<1> USE LeaseAssumption DEF TypeOK
<1>1. ASSUME NEW c \in Conversation, AcquireRefused(c) PROVE TypeOK'
  BY <1>1 DEF AcquireRefused, Purge, PurgedUser, PurgedGlobal
<1>2. ASSUME NEW c \in Conversation, NEW l \in LeaseId, Acquire(c, l) PROVE TypeOK'
  <2>1. PurgedUser(c) \in [LeaseId -> Nat] /\ PurgedGlobal \in [LeaseId -> Nat]
    BY DEF PurgedUser, PurgedGlobal, Purge
  <2>2. now + TTL \in Nat
    OBVIOUS
  <2>3. /\ [PurgedUser(c) EXCEPT ![l] = now + TTL] \in [LeaseId -> Nat]
        /\ [PurgedGlobal EXCEPT ![l] = now + TTL] \in [LeaseId -> Nat]
    BY <2>1, <2>2
  <2>4. userSet' \in [User -> [LeaseId -> Nat]] /\ globalSet' \in [LeaseId -> Nat]
    BY <1>2, <2>3 DEF Acquire
  <2>5. /\ lock' \in [Conversation -> LeaseId \cup {NoLease}]
        /\ lockUntil' \in [Conversation -> Nat]
        /\ granted' \in [LeaseId -> Conversation \cup {NoConversation}]
        /\ inUse' \in SUBSET LeaseId /\ now' = now
    BY <1>2, <2>2 DEF Acquire
  <2>6. QED BY <2>4, <2>5
<1>3. ASSUME NEW c \in Conversation, NEW l \in LeaseId, Release(c, l) PROVE TypeOK'
  <2>1. CASE IsOwner(c, l)
    <3>1. /\ lock' = [lock EXCEPT ![c] = NoLease]
          /\ userSet' = [userSet EXCEPT ![OwnerOf[c]][l] = 0]
          /\ globalSet' = [globalSet EXCEPT ![l] = 0]
          /\ inUse' = inUse \ {l}
          /\ UNCHANGED <<now, lockUntil, granted>>
      BY <1>3, <2>1 DEF Release
    <3>2. userSet' \in [User -> [LeaseId -> Nat]]
      BY <3>1
    <3>3. QED BY <3>1, <3>2
  <2>2. CASE ~IsOwner(c, l)
    BY <1>3, <2>2 DEF Release
  <2>3. QED BY <2>1, <2>2
<1>4. ASSUME NEW c \in Conversation, NEW l \in LeaseId, Renew(c, l) PROVE TypeOK'
  BY <1>4 DEF Renew
<1>5. CASE Tick
  BY <1>5 DEF Tick
<1>6. CASE UNCHANGED vars
  BY <1>6 DEF vars
<1>7. QED
  BY <1>1, <1>2, <1>3, <1>4, <1>5, <1>6 DEF Next

LEMMA AgreementStep == Agreement /\ [Next]_vars => Agreement'
<1> SUFFICES ASSUME Agreement, [Next]_vars
             PROVE LiveLockIsCounted' /\ NoSlotLeaked'
  BY TypeStep DEF Agreement
<1> USE LeaseAssumption DEF Agreement, TypeOK, LiveLockIsCounted, NoSlotLeaked, Live, LiveOf, Exists
<1>1. ASSUME NEW c \in Conversation, AcquireRefused(c)
      PROVE LiveLockIsCounted' /\ NoSlotLeaked'
  <2>1. LiveLockIsCounted'
    BY <1>1 DEF AcquireRefused, Purge, PurgedUser, PurgedGlobal
  <2>2. NoSlotLeaked'
    BY <1>1 DEF AcquireRefused, Purge, PurgedUser, PurgedGlobal
  <2>3. QED BY <2>1, <2>2
<1>2. ASSUME NEW c \in Conversation, NEW l \in LeaseId, Acquire(c, l)
      PROVE LiveLockIsCounted' /\ NoSlotLeaked'
  <2> USE <1>2 DEF Acquire, Fresh, Refused
  <2>1. ~Exists(c)
    OBVIOUS
  <2>2. ASSUME NEW d \in Conversation, Exists(d)'
        PROVE /\ granted'[lock'[d]] = d
              /\ userSet'[OwnerOf[d]][lock'[d]] = lockUntil'[d]
              /\ globalSet'[lock'[d]] = lockUntil'[d]
    <3>1. CASE d = c
      BY <3>1 DEF Purge, PurgedUser, PurgedGlobal
    <3>2. CASE d # c
      <4>1. Exists(d) /\ lock'[d] = lock[d] /\ lock[d] # l
        BY <2>2, <3>2
      <4>2. QED
        BY <3>2, <4>1 DEF Purge, PurgedUser, PurgedGlobal
    <3>3. QED BY <3>1, <3>2
  <2>3. ASSUME NEW m \in LeaseId, globalSet'[m] > now'
        PROVE \E d \in Conversation : Exists(d)' /\ lock'[d] = m
    <3>1. CASE m = l
      BY <3>1
    <3>2. CASE m # l
      <4>1. globalSet[m] > now
        BY <2>3, <3>2 DEF Purge, PurgedGlobal
      <4>2. PICK d \in Conversation : Exists(d) /\ lock[d] = m
        BY <4>1
      <4>3. d # c
        BY <4>2, <2>1
      <4>4. QED
        BY <4>2, <4>3
    <3>3. QED BY <3>1, <3>2
  <2>4. ASSUME NEW m \in LeaseId, NEW u \in User, userSet'[u][m] > now'
        PROVE \E d \in Conversation : Exists(d)' /\ OwnerOf[d] = u /\ lock'[d] = m
    <3>1. CASE m = l /\ u = OwnerOf[c]
      BY <3>1
    <3>2. CASE ~(m = l /\ u = OwnerOf[c])
      <4>1. userSet[u][m] > now
        BY <2>4, <3>2 DEF Purge, PurgedUser
      <4>2. PICK d \in Conversation : Exists(d) /\ OwnerOf[d] = u /\ lock[d] = m
        BY <4>1
      <4>3. d # c
        BY <4>2, <2>1
      <4>4. QED
        BY <4>2, <4>3
    <3>3. QED BY <3>1, <3>2
  <2>5. QED
    BY <2>2, <2>3, <2>4
<1>3. ASSUME NEW c \in Conversation, NEW l \in LeaseId, Release(c, l)
      PROVE LiveLockIsCounted' /\ NoSlotLeaked'
  <2>1. CASE IsOwner(c, l)
    <3>1. LiveLockIsCounted'
      <4>1. SUFFICES ASSUME NEW d \in Conversation, Exists(d)'
                     PROVE  /\ granted'[lock'[d]] = d
                            /\ userSet'[OwnerOf[d]][lock'[d]] = lockUntil'[d]
                            /\ globalSet'[lock'[d]] = lockUntil'[d]
        OBVIOUS
      <4>2. d # c /\ lock'[d] = lock[d] /\ Exists(d)
        BY <1>3, <2>1, <4>1 DEF Release
      <4>3. lock[d] # l
        BY <2>1, <4>2 DEF IsOwner
      <4>4. /\ userSet'[OwnerOf[d]][lock[d]] = userSet[OwnerOf[d]][lock[d]]
            /\ globalSet'[lock[d]] = globalSet[lock[d]]
        <5>1. /\ userSet' = [userSet EXCEPT ![OwnerOf[c]] = [userSet[OwnerOf[c]] EXCEPT ![l] = 0]]
              /\ globalSet' = [globalSet EXCEPT ![l] = 0]
          BY <1>3, <2>1 DEF Release
        <5>2. /\ userSet \in [User -> [LeaseId -> Nat]] /\ globalSet \in [LeaseId -> Nat]
              /\ OwnerOf[c] \in User /\ OwnerOf[d] \in User
              /\ lock[d] \in LeaseId
          BY <4>2
        <5>3. QED
          BY <4>3, <5>1, <5>2
      <4>5. granted' = granted /\ lockUntil' = lockUntil
        BY <1>3 DEF Release
      <4>6. QED
        BY <4>2, <4>4, <4>5
    <3>2. \A d \in Conversation : Exists(d) /\ lock[d] = l => d = c
      BY <2>1 DEF IsOwner
    <3>3. ASSUME NEW m \in LeaseId, globalSet'[m] > now'
          PROVE \E d \in Conversation : Exists(d)' /\ lock'[d] = m
      <4>1. m # l /\ globalSet[m] > now
        BY <1>3, <2>1, <3>3 DEF Release
      <4>2. PICK d \in Conversation : Exists(d) /\ lock[d] = m
        BY <4>1
      <4>3. d # c
        BY <2>1, <4>1, <4>2 DEF IsOwner
      <4>4. QED
        BY <1>3, <2>1, <4>2, <4>3 DEF Release
    <3>4. ASSUME NEW m \in LeaseId, NEW u \in User, userSet'[u][m] > now'
          PROVE \E d \in Conversation : Exists(d)' /\ OwnerOf[d] = u /\ lock'[d] = m
      <4>1. userSet[u][m] > now /\ (u # OwnerOf[c] \/ m # l)
        BY <1>3, <2>1, <3>4 DEF Release
      <4>2. PICK d \in Conversation : Exists(d) /\ OwnerOf[d] = u /\ lock[d] = m
        BY <4>1
      <4>3. d # c
        BY <2>1, <3>2, <4>1, <4>2 DEF IsOwner
      <4>4. QED
        BY <1>3, <2>1, <4>2, <4>3 DEF Release
    <3>5. QED BY <3>1, <3>3, <3>4
  <2>2. CASE ~IsOwner(c, l)
    BY <1>3, <2>2 DEF Release
  <2>3. QED BY <2>1, <2>2
<1>4. ASSUME NEW c \in Conversation, NEW l \in LeaseId, Renew(c, l)
      PROVE LiveLockIsCounted' /\ NoSlotLeaked'
  <2>1. LiveLockIsCounted'
    BY <1>4 DEF Renew, IsOwner
  <2>2. NoSlotLeaked'
    BY <1>4 DEF Renew, IsOwner
  <2>3. QED BY <2>1, <2>2
<1>5. CASE Tick
  <2>1. LiveLockIsCounted'
    BY <1>5 DEF Tick
  <2>2. ASSUME NEW m \in LeaseId, globalSet'[m] > now'
        PROVE \E d \in Conversation : Exists(d)' /\ lock'[d] = m
    <3>1. PICK d \in Conversation : Exists(d) /\ lock[d] = m
      BY <1>5, <2>2 DEF Tick
    <3>2. QED
      BY <1>5, <2>2, <3>1 DEF Tick
  <2>3. ASSUME NEW m \in LeaseId, NEW u \in User, userSet'[u][m] > now'
        PROVE \E d \in Conversation : Exists(d)' /\ OwnerOf[d] = u /\ lock'[d] = m
    <3>1. PICK d \in Conversation : Exists(d) /\ OwnerOf[d] = u /\ lock[d] = m
      <4>1. userSet[u][m] > now
        BY <1>5, <2>3 DEF Tick
      <4>2. QED BY <4>1
    <3>2. QED
      BY <1>5, <2>3, <3>1 DEF Tick
  <2>4. QED BY <2>1, <2>2, <2>3
<1>6. CASE UNCHANGED vars
  BY <1>6 DEF vars
<1>7. QED
  BY <1>1, <1>2, <1>3, <1>4, <1>5, <1>6 DEF Next

(***************************************************************************)
(* Whatever the callers do and whenever they crash, the three Redis keys   *)
(* agree about the leases in force.                                        *)
(***************************************************************************)
THEOREM KeysAgree == Spec => []KeysTellOneStory
<1>1. Spec => []Agreement
  BY InitAgreement, AgreementStep, PTL DEF Spec
<1>2. QED
  BY <1>1, PTL DEF Agreement, KeysTellOneStory

(***************************************************************************)
(* The variables keep their types, and no uuid of a lease is granted       *)
(* twice, for any number of conversations, users and leases.               *)
(***************************************************************************)
THEOREM TypeCorrect == Spec => []TypeOK
<1>1. Init => TypeOK
  BY InitAgreement DEF Agreement
<1>2. QED
  BY <1>1, TypeStep, PTL DEF Spec

-----------------------------------------------------------------------------
LEMMA ValueBijection ==
  ASSUME NEW S, NEW T, NEW f \in [S -> T],
         \A x, y \in S : f[x] = f[y] => x = y,
         \A t \in T : \E x \in S : f[x] = t,
         IsFiniteSet(S)
  PROVE  IsFiniteSet(T) /\ Cardinality(T) = Cardinality(S)
<1>1. f \in Bijection(S, T)
  BY DEF Bijection, Injection, Surjection, IsInjective
<1>2. QED
  BY <1>1, FS_Bijection DEF ExistsBijection

(***************************************************************************)
(* What the acquire script counts after its purge is the number of leases  *)
(* in force, for the user and for the platform.                            *)
(***************************************************************************)
LEMMA CountIsExact ==
  ASSUME Agreement, NEW c \in Conversation, IsFiniteSet(Live)
  PROVE  /\ Cardinality(Members(PurgedGlobal)) = Cardinality(Live)
         /\ Cardinality(Members(PurgedUser(c))) = Cardinality(LiveOf(OwnerOf[c]))
<1> USE LeaseAssumption DEF Agreement, TypeOK, LiveLockIsCounted, NoSlotLeaked, Live, LiveOf, Exists
<1>1. \A d, e \in Live : lock[d] = lock[e] => d = e
  OBVIOUS
<1>2. Members(PurgedGlobal) = {l \in LeaseId : globalSet[l] > now}
  BY DEF Members, PurgedGlobal, Purge
<1>3. Members(PurgedUser(c)) = {l \in LeaseId : userSet[OwnerOf[c]][l] > now}
  BY DEF Members, PurgedUser, Purge
<1>4. Cardinality(Members(PurgedGlobal)) = Cardinality(Live)
  <2> DEFINE f == [d \in Live |-> lock[d]]
  <2>1. f \in [Live -> Members(PurgedGlobal)]
    BY <1>2
  <2>2. \A t \in Members(PurgedGlobal) : \E x \in Live : f[x] = t
    BY <1>2
  <2>3. \A x, y \in Live : f[x] = f[y] => x = y
    BY <1>1
  <2> HIDE DEF f, Live, Exists, Agreement
  <2>4. QED
    BY <2>1, <2>2, <2>3, ValueBijection
<1>5. Cardinality(Members(PurgedUser(c))) = Cardinality(LiveOf(OwnerOf[c]))
  <2> DEFINE S == LiveOf(OwnerOf[c])
             T == Members(PurgedUser(c))
             g == [d \in S |-> lock[d]]
  <2>1. g \in [S -> T]
    BY <1>3
  <2>2. \A t \in T : \E x \in S : g[x] = t
    BY <1>3
  <2>3. \A x, y \in S : g[x] = g[y] => x = y
    BY <1>1
  <2>4. IsFiniteSet(S)
    BY FS_Subset, S \subseteq Live
  <2> HIDE DEF g, S, T, Live, LiveOf, Exists, Agreement
  <2>5. Cardinality(T) = Cardinality(S)
    BY <2>1, <2>2, <2>3, <2>4, ValueBijection
  <2>6. QED
    BY <2>5 DEF S, T
<1>6. QED
  BY <1>4, <1>5

\* The inductive form of WithinLimits.
Bounded == IsFiniteSet(Live) /\ WithinLimits

LEMMA ShrinkBounded ==
  ASSUME Bounded, Live' \subseteq Live
  PROVE  Bounded'
<1> USE LeaseAssumption DEF Bounded, WithinLimits
<1>1. IsFiniteSet(Live') /\ Cardinality(Live') <= Cardinality(Live)
  BY FS_Subset
<1>2. ASSUME NEW u \in User
      PROVE  Cardinality(LiveOf(u)') <= Cardinality(LiveOf(u))
  <2>1. LiveOf(u)' \subseteq LiveOf(u) /\ LiveOf(u) \subseteq Live
    BY DEF LiveOf
  <2>2. QED
    BY <2>1, FS_Subset
<1>3. \A u \in User : LiveOf(u) \subseteq Live /\ LiveOf(u)' \subseteq Live'
  BY DEF LiveOf
<1>4. /\ Cardinality(Live) \in Nat /\ Cardinality(Live') \in Nat
      /\ \A u \in User : Cardinality(LiveOf(u)) \in Nat /\ Cardinality(LiveOf(u)') \in Nat
  BY <1>1, <1>3, FS_Subset, FS_CardinalityType
<1>5. QED
  BY <1>1, <1>2, <1>4

LEMMA AcquireBounded ==
  ASSUME Agreement, Bounded, NEW c \in Conversation, NEW l \in LeaseId, Acquire(c, l)
  PROVE  Bounded'
<1> USE LeaseAssumption DEF Bounded, WithinLimits
<1>1. Live' = Live \cup {c} /\ c \notin Live
  BY DEF Acquire, Refused, Live, Exists, Agreement, TypeOK, Fresh
<1>2. /\ LiveOf(OwnerOf[c])' = LiveOf(OwnerOf[c]) \cup {c}
      /\ \A u \in User \ {OwnerOf[c]} : LiveOf(u)' = LiveOf(u)
      /\ \A u \in User : LiveOf(u) \subseteq Live /\ c \notin LiveOf(u)
  BY <1>1 DEF LiveOf
<1>3. Cardinality(Live) \in Nat /\ \A u \in User : IsFiniteSet(LiveOf(u)) /\ Cardinality(LiveOf(u)) \in Nat
  BY <1>2, FS_Subset, FS_CardinalityType
<1>4. Cardinality(Live) < MaxGlobal /\ Cardinality(LiveOf(OwnerOf[c])) < MaxUser
  <2>1. ~(Cardinality(Members(PurgedGlobal)) >= MaxGlobal)
        /\ ~(Cardinality(Members(PurgedUser(c))) >= MaxUser)
    BY DEF Acquire, Refused
  <2>2. OwnerOf[c] \in User
    OBVIOUS
  <2>3. QED
    BY <1>3, <2>1, <2>2, CountIsExact
<1>5. /\ IsFiniteSet(Live') /\ Cardinality(Live') = Cardinality(Live) + 1
      /\ Cardinality(LiveOf(OwnerOf[c])') = Cardinality(LiveOf(OwnerOf[c])) + 1
  <2>1. IsFiniteSet(Live) /\ IsFiniteSet(LiveOf(OwnerOf[c])) /\ c \notin LiveOf(OwnerOf[c])
    BY <1>2, <1>3
  <2>2. IsFiniteSet(Live') /\ Cardinality(Live') = Cardinality(Live) + 1
    BY <1>1, <2>1, FS_AddElement
  <2>3. Cardinality(LiveOf(OwnerOf[c])') = Cardinality(LiveOf(OwnerOf[c])) + 1
    <3>1. LiveOf(OwnerOf[c])' = LiveOf(OwnerOf[c]) \cup {c}
      BY <1>2
    <3>2. QED
      BY <2>1, <3>1, FS_AddElement
  <2>4. QED
    BY <2>2, <2>3
<1>6. QED
  BY <1>2, <1>3, <1>4, <1>5

LEMMA BoundedInit == Init => Bounded
<1> SUFFICES ASSUME Init PROVE Bounded
  OBVIOUS
<1>1. Live = {} /\ \A u \in User : LiveOf(u) = {}
  BY LeaseAssumption DEF Init, Live, LiveOf, Exists
<1>2. QED
  BY <1>1, FS_EmptySet, LeaseAssumption DEF Bounded, WithinLimits

LEMMA BoundedStep == Agreement /\ Bounded /\ [Next]_vars => Bounded'
<1> SUFFICES ASSUME Agreement, Bounded, [Next]_vars PROVE Bounded'
  OBVIOUS
<1> USE LeaseAssumption
<1>1. ASSUME NEW c \in Conversation, NEW l \in LeaseId, Acquire(c, l) PROVE Bounded'
  BY <1>1, AcquireBounded
<1>2. ASSUME NEW c \in Conversation, AcquireRefused(c) PROVE Live' \subseteq Live
  BY <1>2 DEF AcquireRefused, Live, Exists
<1>3. ASSUME NEW c \in Conversation, NEW l \in LeaseId, Release(c, l) PROVE Live' \subseteq Live
  <2>1. CASE IsOwner(c, l)
    BY <1>3, <2>1 DEF Release, Live, Exists, Agreement, TypeOK
  <2>2. CASE ~IsOwner(c, l)
    BY <1>3, <2>2 DEF Release, Live, Exists
  <2>3. QED BY <2>1, <2>2
<1>4. ASSUME NEW c \in Conversation, NEW l \in LeaseId, Renew(c, l) PROVE Live' \subseteq Live
  BY <1>4 DEF Renew, IsOwner, Live, Exists, Agreement, TypeOK
<1>5. CASE Tick
  <2>1. Live' \subseteq Live
    BY <1>5 DEF Tick, Live, Exists, Agreement, TypeOK
  <2>2. QED BY <2>1, ShrinkBounded
<1>6. CASE UNCHANGED vars
  <2>1. Live' \subseteq Live
    BY <1>6 DEF vars, Live, Exists
  <2>2. QED BY <2>1, ShrinkBounded
<1>7. QED
  BY <1>1, <1>2, <1>3, <1>4, <1>5, <1>6, ShrinkBounded DEF Next

(***************************************************************************)
(* The user's and the platform's limits hold at every moment, for any      *)
(* limits, any number of conversations and any crash of a caller.          *)
(***************************************************************************)
THEOREM LimitsHold == Spec => []WithinLimits
  BY BoundedInit, InitAgreement, AgreementStep, BoundedStep, PTL DEF Spec, Bounded

-----------------------------------------------------------------------------
\* No lock is set or renewed for longer than a TTL, so a renewal never shortens it.
WithinTTL == \A c \in Conversation : lockUntil[c] <= now + TTL

LEMMA WithinTTLStep == TypeOK /\ WithinTTL /\ [Next]_vars => WithinTTL'
<1> SUFFICES ASSUME TypeOK, WithinTTL, [Next]_vars PROVE WithinTTL'
  OBVIOUS
<1> USE LeaseAssumption DEF TypeOK, WithinTTL
<1>1. ASSUME NEW c \in Conversation, AcquireRefused(c) PROVE WithinTTL'
  BY <1>1 DEF AcquireRefused
<1>2. ASSUME NEW c \in Conversation, NEW l \in LeaseId, Acquire(c, l) PROVE WithinTTL'
  BY <1>2 DEF Acquire
<1>3. ASSUME NEW c \in Conversation, NEW l \in LeaseId, Release(c, l) PROVE WithinTTL'
  BY <1>3 DEF Release
<1>4. ASSUME NEW c \in Conversation, NEW l \in LeaseId, Renew(c, l) PROVE WithinTTL'
  BY <1>4 DEF Renew
<1>5. CASE Tick
  BY <1>5 DEF Tick
<1>6. CASE UNCHANGED vars
  BY <1>6 DEF vars
<1>7. QED
  BY <1>1, <1>2, <1>3, <1>4, <1>5, <1>6 DEF Next

(***************************************************************************)
(* A caller that still uses its lease loses it only by its running out.    *)
(***************************************************************************)
THEOREM LeaseIsNotStolen == Spec => NoTheft
<1> USE LeaseAssumption
<1> DEFINE Kept == \A c \in Live : lock[c] \in inUse \cap inUse'
                     => lock'[c] = lock[c] /\ lockUntil'[c] >= lockUntil[c]
<1>1. TypeOK /\ WithinTTL /\ [Next]_vars => [Kept]_vars
  <2> SUFFICES ASSUME TypeOK, WithinTTL, Next, NEW d \in Live, lock[d] \in inUse, lock[d] \in inUse'
               PROVE  lock'[d] = lock[d] /\ lockUntil'[d] >= lockUntil[d]
    OBVIOUS
  <2> USE DEF TypeOK, Live, Exists
  <2>1. ASSUME NEW c \in Conversation, AcquireRefused(c)
        PROVE  lock'[d] = lock[d] /\ lockUntil'[d] >= lockUntil[d]
    BY <2>1 DEF AcquireRefused
  <2>2. ASSUME NEW c \in Conversation, NEW l \in LeaseId, Acquire(c, l)
        PROVE  lock'[d] = lock[d] /\ lockUntil'[d] >= lockUntil[d]
    <3>1. d # c
      BY <2>2 DEF Acquire, Refused
    <3>2. QED
      BY <2>2, <3>1 DEF Acquire
  <2>3. ASSUME NEW c \in Conversation, NEW l \in LeaseId, Release(c, l)
        PROVE  lock'[d] = lock[d] /\ lockUntil'[d] >= lockUntil[d]
    <3>1. CASE IsOwner(c, l)
      <4>1. d # c
        BY <2>3, <3>1 DEF Release, IsOwner
      <4>2. QED
        BY <2>3, <3>1, <4>1 DEF Release
    <3>2. CASE ~IsOwner(c, l)
      BY <2>3, <3>2 DEF Release
    <3>3. QED BY <3>1, <3>2
  <2>4. ASSUME NEW c \in Conversation, NEW l \in LeaseId, Renew(c, l)
        PROVE  lock'[d] = lock[d] /\ lockUntil'[d] >= lockUntil[d]
    BY <2>4 DEF Renew, WithinTTL
  <2>5. CASE Tick
    BY <2>5 DEF Tick
  <2>6. QED
    BY <2>1, <2>2, <2>3, <2>4, <2>5 DEF Next
<1>2. Init => TypeOK /\ WithinTTL
  BY InitAgreement DEF Init, WithinTTL, Agreement
<1>3. QED
  BY <1>1, <1>2, TypeStep, WithinTTLStep, PTL DEF Spec, NoTheft

-----------------------------------------------------------------------------
\* The refinement mapping of Lease, spelled out.
Holder == [c \in Conversation |-> IF Exists(c) THEN lock[c] ELSE NoLease]
Spent == {l \in LeaseId : granted[l] # NoConversation}

LEMMA MappedSets ==
  ASSUME TypeOK
  PROVE  Abs!Held = Live /\ \A u \in User : Abs!HeldBy(u) = LiveOf(u)
  BY LeaseAssumption DEF TypeOK, Abs!Held, Abs!HeldBy, Live, LiveOf, Exists

\* A step that keeps the granted leases and every surviving lock ends some leases.
LEMMA EndingStep ==
  ASSUME TypeOK, granted' = granted, Live' \subseteq Live,
         \A c \in Live' : lock'[c] = lock[c]
  PROVE  [Abs!Next]_(Abs!absVars)
<1> DEFINE S == Live \ Live'
<1>1. S \subseteq Abs!Held /\ S \in SUBSET Conversation
  BY MappedSets DEF Live
<1>2. Holder' = [c \in Conversation |-> IF c \in S THEN NoLease ELSE Holder[c]]
  BY LeaseAssumption DEF Holder, Live, Exists, TypeOK
<1>3. Spent' = Spent
  BY DEF Spent
<1>4. Abs!End(S)
  BY <1>1, <1>2, <1>3 DEF Abs!End, Holder, Spent
<1>5. \E T \in SUBSET Conversation : Abs!End(T)
  BY <1>1, <1>4 DEF Abs!End
<1>6. QED
  BY <1>5 DEF Abs!Next

LEMMA GrantStep ==
  ASSUME Agreement, Bounded, NEW c \in Conversation, NEW l \in LeaseId, Acquire(c, l)
  PROVE  Abs!Next
<1> USE LeaseAssumption
<1>1. OwnerOf[c] \in User /\ IsFiniteSet(Live) /\ c \notin Live
  BY DEF Bounded, Acquire, Refused, Live
<1>2. /\ Cardinality(Members(PurgedGlobal)) < MaxGlobal
      /\ Cardinality(Members(PurgedUser(c))) < MaxUser
  <2>1. /\ Cardinality(Live) \in Nat
        /\ Cardinality(LiveOf(OwnerOf[c])) \in Nat
    BY <1>1, FS_Subset, FS_CardinalityType, LiveOf(OwnerOf[c]) \subseteq Live DEF LiveOf
  <2>2. QED
    BY <1>1, <2>1, CountIsExact DEF Acquire, Refused
<1>3. Cardinality(Abs!Held) < MaxGlobal /\ Cardinality(Abs!HeldBy(OwnerOf[c])) < MaxUser
  BY <1>1, <1>2, CountIsExact, MappedSets DEF Agreement
<1>4. Holder[c] = NoLease /\ l \notin Spent
  BY <1>1 DEF Holder, Spent, Live, Acquire, Fresh
<1>5. Holder' = [Holder EXCEPT ![c] = l]
  <2>1. Exists(c)' /\ lock'[c] = l
    BY DEF Acquire, Fresh, Exists, Agreement, TypeOK
  <2>2. \A d \in Conversation \ {c} : lock'[d] = lock[d] /\ (Exists(d)' <=> Exists(d))
    BY DEF Acquire, Exists, Agreement, TypeOK
  <2>3. QED
    BY <2>1, <2>2 DEF Holder
<1>6. Spent' = Spent \cup {l}
  BY DEF Spent, Acquire, Agreement, TypeOK
<1>7. Abs!Grant(c, l)
  BY <1>3, <1>4, <1>5, <1>6 DEF Abs!Grant, Abs!Cardinality, Cardinality, Holder, Spent
<1>8. QED
  BY <1>7 DEF Abs!Next

(***************************************************************************)
(* The three scripts implement the abstract lease service of LeaseAbs.     *)
(***************************************************************************)
THEOREM LeaseImplementsLeaseAbs == Spec => ImplementsLeaseAbs
<1> USE LeaseAssumption
<1>1. Init => Abs!Init
  BY DEF Init, Abs!Init, Exists
<1>2. Agreement /\ Bounded /\ [Next]_vars => [Abs!Next]_(Abs!absVars)
  <2> SUFFICES ASSUME Agreement, Bounded, [Next]_vars PROVE [Abs!Next]_(Abs!absVars)
    OBVIOUS
  <2>1. TypeOK
    BY DEF Agreement
  <2>2. ASSUME NEW c \in Conversation, AcquireRefused(c) PROVE [Abs!Next]_(Abs!absVars)
    BY <2>1, <2>2, EndingStep DEF AcquireRefused, Live, Exists
  <2>3. ASSUME NEW c \in Conversation, NEW l \in LeaseId, Acquire(c, l)
        PROVE  [Abs!Next]_(Abs!absVars)
    BY <2>3, GrantStep
  <2>4. ASSUME NEW c \in Conversation, NEW l \in LeaseId, Release(c, l)
        PROVE  [Abs!Next]_(Abs!absVars)
    <3>1. CASE IsOwner(c, l)
      <4>1. granted' = granted /\ Live' \subseteq Live /\ \A d \in Live' : lock'[d] = lock[d]
        BY <2>1, <2>4, <3>1 DEF Release, Live, Exists, TypeOK
      <4>2. QED BY <2>1, <4>1, EndingStep
    <3>2. CASE ~IsOwner(c, l)
      <4>1. granted' = granted /\ Live' \subseteq Live /\ \A d \in Live' : lock'[d] = lock[d]
        BY <2>4, <3>2 DEF Release, Live, Exists
      <4>2. QED BY <2>1, <4>1, EndingStep
    <3>3. QED BY <3>1, <3>2
  <2>5. ASSUME NEW c \in Conversation, NEW l \in LeaseId, Renew(c, l)
        PROVE  [Abs!Next]_(Abs!absVars)
    <3>1. granted' = granted /\ Live' \subseteq Live /\ \A d \in Live' : lock'[d] = lock[d]
      BY <2>1, <2>5 DEF Renew, IsOwner, Live, Exists, TypeOK
    <3>2. QED BY <2>1, <3>1, EndingStep
  <2>6. CASE Tick
    <3>1. granted' = granted /\ Live' \subseteq Live /\ \A d \in Live' : lock'[d] = lock[d]
      BY <2>1, <2>6 DEF Tick, Live, Exists, TypeOK
    <3>2. QED BY <2>1, <3>1, EndingStep
  <2>7. CASE UNCHANGED vars
    <3>1. granted' = granted /\ Live' \subseteq Live /\ \A d \in Live' : lock'[d] = lock[d]
      BY <2>7 DEF vars, Live, Exists
    <3>2. QED BY <2>1, <3>1, EndingStep
  <2>8. QED
    BY <2>2, <2>3, <2>4, <2>5, <2>6, <2>7 DEF Next
<1>3. Init => Bounded
  BY BoundedInit
<1>4. QED
  BY <1>1, <1>2, <1>3, InitAgreement, AgreementStep, BoundedStep, PTL
  DEF Spec, ImplementsLeaseAbs, Abs!Spec
=============================================================================
