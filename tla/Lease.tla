------------------------------- MODULE Lease --------------------------------
(***************************************************************************)
(* ConcurrencyService (services/concurrency_service.py): one Redis lock    *)
(* per conversation and two sorted sets of lease expiry times, one per     *)
(* user and one global, changed only by three Lua scripts that Redis runs  *)
(* atomically.  Time is Redis' own clock, one tick per unit of TTL.  A     *)
(* caller may crash, or release and renew a lease it lost long ago: any    *)
(* granted lease may be released or renewed at any moment.                 *)
(***************************************************************************)
EXTENDS Naturals, FiniteSets

CONSTANTS Conversation, User, LeaseId, NoLease, NoConversation,
          OwnerOf,       \* the user whose token is hashed into the user key
          TTL,           \* ConcurrencyService.ttl
          MaxUser,       \* max_active_generations_per_user
          MaxGlobal,     \* max_active_generations_global
          MaxTime        \* bound: the clock stops here

ASSUME LeaseAssumption ==
    /\ OwnerOf \in [Conversation -> User]
    /\ NoLease \notin LeaseId
    /\ NoConversation \notin Conversation
    /\ TTL \in Nat \ {0}
    /\ MaxUser \in Nat /\ MaxGlobal \in Nat /\ MaxTime \in Nat

VARIABLES
          now,           \* redis TIME
          lock,          \* value of chat:lock:conversation:{id}
          lockUntil,     \* expiry of that key
          userSet,       \* chat:leases:v11:user:{hash}: member -> score, 0 when absent
          globalSet,     \* chat:leases:v11:global
          granted,       \* the conversation each returned uuid was granted for
          inUse          \* granted leases their caller has not released yet

vars == <<now, lock, lockUntil, userSet, globalSet, granted, inUse>>

(***************************************************************************)
(* A key whose expiry has come is gone: GET returns nil, EXISTS 0.  The    *)
(* sorted sets' own EXPIRE is ttl + 60 s after the last ZADD, later than   *)
(* any score in them, so it never removes a member the purge would keep.   *)
(***************************************************************************)
Exists(c) == lock[c] # NoLease /\ lockUntil[c] > now
\* A variant: any live lock passes for the caller's own.
IsOwnerOfAny(c, l) == Exists(c)

\* A variant that takes a lock whose time has run out for one in force.
IsOwnerOnce(c, l) == lock[c] = l

IsOwner(c, l) == Exists(c) /\ lock[c] = l

\* ZREMRANGEBYSCORE key -inf now
Purge(zset) == [l \in LeaseId |-> IF zset[l] <= now THEN 0 ELSE zset[l]]
Members(zset) == {l \in LeaseId : zset[l] # 0}

Fresh(l) == l \in LeaseId /\ granted[l] = NoConversation

Init ==
    /\ now = 0
    /\ lock = [c \in Conversation |-> NoLease]
    /\ lockUntil = [c \in Conversation |-> 0]
    /\ userSet = [u \in User |-> [l \in LeaseId |-> 0]]
    /\ globalSet = [l \in LeaseId |-> 0]
    /\ granted = [l \in LeaseId |-> NoConversation]
    /\ inUse = {}

-----------------------------------------------------------------------------
\* Every outcome of the acquire script starts with the purge of both sets.
PurgedUser(c) == Purge(userSet[OwnerOf[c]])
PurgedGlobal == Purge(globalSet)

\* A variant that lets one lease too many through.
RefusedOneLate(c) ==
    \/ Exists(c)
    \/ Cardinality(Members(PurgedUser(c))) > MaxUser
    \/ Cardinality(Members(PurgedGlobal)) > MaxGlobal

\* -1 CONVERSATION_BUSY, -2 USER_CONCURRENCY_LIMIT, -3 GLOBAL_CONCURRENCY_LIMIT
Refused(c) ==
    \/ Exists(c)
    \/ Cardinality(Members(PurgedUser(c))) >= MaxUser
    \/ Cardinality(Members(PurgedGlobal)) >= MaxGlobal

AcquireRefused(c) ==
    /\ Refused(c)
    /\ userSet' = [userSet EXCEPT ![OwnerOf[c]] = PurgedUser(c)]
    /\ globalSet' = PurgedGlobal
    /\ UNCHANGED <<now, lock, lockUntil, granted, inUse>>

\* A variant that writes the wrong argument into the lock key.
AcquireWrongValue(c, l) ==
    /\ Fresh(l)
    /\ ~Refused(c)
    /\ lock' = [lock EXCEPT ![c] = c]
    /\ UNCHANGED <<now, lockUntil, userSet, globalSet, granted, inUse>>

Acquire(c, l) ==
    /\ Fresh(l)
    /\ ~Refused(c)
    /\ lock' = [lock EXCEPT ![c] = l]
    /\ lockUntil' = [lockUntil EXCEPT ![c] = now + TTL]
    /\ userSet' = [userSet EXCEPT ![OwnerOf[c]] = [PurgedUser(c) EXCEPT ![l] = now + TTL]]
    /\ globalSet' = [PurgedGlobal EXCEPT ![l] = now + TTL]
    /\ granted' = [granted EXCEPT ![l] = c]
    /\ inUse' = inUse \cup {l}
    /\ UNCHANGED now

\* A variant that deletes the lock and leaves its members to run out.
ReleaseLockOnly(c, l) ==
    /\ granted[l] = c
    /\ inUse' = inUse \ {l}
    /\ lock' = IF IsOwner(c, l) THEN [lock EXCEPT ![c] = NoLease] ELSE lock
    /\ UNCHANGED <<now, lockUntil, userSet, globalSet, granted>>

(***************************************************************************)
(* release(): the lock key decides; a caller whose lease is no longer the  *)
(* lock's value changes nothing.  A caller may release more than once (the *)
(* worker releases early and again in its finally).  A call without a      *)
(* lease id passes the literal "1", which no uuid equals: a stuttering     *)
(* step.                                                                   *)
(***************************************************************************)
Release(c, l) ==
    /\ granted[l] = c
    /\ inUse' = inUse \ {l}
    /\ IF IsOwner(c, l)
          THEN /\ lock' = [lock EXCEPT ![c] = NoLease]
               /\ userSet' = [userSet EXCEPT ![OwnerOf[c]][l] = 0]
               /\ globalSet' = [globalSet EXCEPT ![l] = 0]
          ELSE UNCHANGED <<lock, userSet, globalSet>>
    /\ UNCHANGED <<now, lockUntil, granted>>

\* A variant that renews the lock key and forgets the sorted sets.
RenewLockOnly(c, l) ==
    /\ granted[l] = c
    /\ IsOwner(c, l)
    /\ lockUntil' = [lockUntil EXCEPT ![c] = now + TTL]
    /\ UNCHANGED <<now, lock, userSet, globalSet, granted, inUse>>

\* renew(), from the worker's heartbeat; refused (0) to any other lease.
Renew(c, l) ==
    /\ granted[l] = c
    /\ IsOwner(c, l)
    /\ lockUntil' = [lockUntil EXCEPT ![c] = now + TTL]
    /\ userSet' = [userSet EXCEPT ![OwnerOf[c]][l] = now + TTL]
    /\ globalSet' = [globalSet EXCEPT ![l] = now + TTL]
    /\ UNCHANGED <<now, lock, granted, inUse>>

Tick ==
    /\ now < MaxTime
    /\ now' = now + 1
    /\ UNCHANGED <<lock, lockUntil, userSet, globalSet, granted, inUse>>

Next ==
    \/ \E c \in Conversation : AcquireRefused(c)
    \/ \E c \in Conversation, l \in LeaseId :
           Acquire(c, l) \/ Release(c, l) \/ Renew(c, l)
    \/ Tick

Spec == Init /\ [][Next]_vars

-----------------------------------------------------------------------------
Live == {c \in Conversation : Exists(c)}
LiveOf(u) == {c \in Live : OwnerOf[c] = u}

\* Every variable holds a value of its type; a uuid is granted at most once.
TypeOK ==
    /\ now \in Nat
    /\ lock \in [Conversation -> LeaseId \cup {NoLease}]
    /\ lockUntil \in [Conversation -> Nat]
    /\ userSet \in [User -> [LeaseId -> Nat]]
    /\ globalSet \in [LeaseId -> Nat]
    /\ granted \in [LeaseId -> Conversation \cup {NoConversation}]
    /\ inUse \in SUBSET LeaseId

(***************************************************************************)
(* A lock that is in force is counted in both sorted sets, and with the    *)
(* same expiry: after a renewal, a release, or the purge another           *)
(* conversation's acquire performs, the three keys still tell one story.   *)
(***************************************************************************)
LiveLockIsCounted ==
    \A c \in Live :
        /\ granted[lock[c]] = c
        /\ userSet[OwnerOf[c]][lock[c]] = lockUntil[c]
        /\ globalSet[lock[c]] = lockUntil[c]

(***************************************************************************)
(* An unexpired member of either set is the lock of a conversation in      *)
(* force, of that user: nobody is refused for a generation that has ended. *)
(***************************************************************************)
NoSlotLeaked ==
    \A l \in LeaseId :
        /\ globalSet[l] > now => \E c \in Live : lock[c] = l
        /\ \A u \in User : userSet[u][l] > now => \E c \in LiveOf(u) : lock[c] = l

\* The three keys tell one story, read from the lock and from the sets.
KeysTellOneStory == LiveLockIsCounted /\ NoSlotLeaked

(***************************************************************************)
(* The limits the acquire script enforces: leases in force never exceed    *)
(* the user's or the platform's maximum.                                   *)
(***************************************************************************)
WithinLimits ==
    /\ Cardinality(Live) <= MaxGlobal
    /\ \A u \in User : Cardinality(LiveOf(u)) <= MaxUser

(***************************************************************************)
(* A lease whose caller still uses it is only ever lost by running out:    *)
(* no release or renew of an older holder, and no acquire, takes it away   *)
(* or shortens it.                                                         *)
(***************************************************************************)
NoTheft ==
    [][\A c \in Live :
         lock[c] \in inUse \cap inUse'
           => lock'[c] = lock[c] /\ lockUntil'[c] >= lockUntil[c]]_vars

(***************************************************************************)
(* The three scripts implement the abstract lease service: an expired lock *)
(* is no lock.                                                             *)
(***************************************************************************)
Abs == INSTANCE LeaseAbs WITH
    holder <- [c \in Conversation |-> IF Exists(c) THEN lock[c] ELSE NoLease],
    spent <- {l \in LeaseId : granted[l] # NoConversation}

ImplementsLeaseAbs == Abs!Spec
=============================================================================
