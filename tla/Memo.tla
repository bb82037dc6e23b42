-------------------------------- MODULE Memo --------------------------------
(***************************************************************************)
(* AsyncMemo, the cache before the model and sensor services of            *)
(* phm_assert_mcp: one computation per key at a time, shared by every      *)
(* caller that asks for the key, any of whom may be cancelled.             *)
(***************************************************************************)
EXTENDS Naturals, Sequences, FiniteSets, SequencesExt

CONSTANTS Reader,   \* coroutines that call get
          Key,
          Capacity, \* maxsize; with 0 nothing is kept or shared
          NoKey

ASSUME MemoAssumption == Capacity \in Nat \ {0} /\ NoKey \notin Key

VARIABLES
    values,  \* what is stored, oldest first (OrderedDict)
    young,   \* the stored keys whose time to live has not passed
    pending, \* the state of each key's shared computation; none without an entry
    reader,  \* what each coroutine is doing
    got,  \* what its last call came to
    closed   \* whether close() has begun, or ended

memoVars == <<values, young, pending, reader, got, closed>>

Outcome == {"value", "error", "cancelled"}
Away == [pc |-> "away", key |-> NoKey, refresh |-> FALSE, what |-> "none"]
NoAnswer == [from |-> "none", what |-> "none", refresh |-> FALSE]

MemoInit ==
    /\ values = <<>> /\ young = {} /\ closed = "no"
    /\ pending = [k \in Key |-> "none"]
    /\ reader = [r \in Reader |-> Away] /\ got = [r \in Reader |-> NoAnswer]

Pending == {k \in Key : pending[k] # "none"}
StoredAt(k) == {i \in DOMAIN values : values[i].key = k}
Without(k) == IF StoredAt(k) = {} THEN values ELSE RemoveAt(values, CHOOSE i \in StoredAt(k) : TRUE)
Drop(k) == values' = Without(k) /\ young' = young \ {k}
Await(r, pc, k, refresh) ==
    /\ reader' = [reader EXCEPT ![r] = [pc |-> pc, key |-> k, refresh |-> refresh, what |-> "none"]]
    /\ got' = [got EXCEPT ![r] = NoAnswer]
End(r, from, what, refresh) ==
    /\ reader' = [reader EXCEPT ![r] = Away]
    /\ got' = [got EXCEPT ![r] = [from |-> from, what |-> what, refresh |-> refresh]]

-----------------------------------------------------------------------------
(* get *)

Hit(r, k, refresh) ==
    /\ reader[r].pc = "away" /\ ~refresh
    /\ \E i \in DOMAIN values :
         /\ values[i].key = k /\ k \in young
         /\ End(r, "stored", values[i].what, refresh)
         /\ values' = Append(Without(k), values[i])
    /\ UNCHANGED <<young, pending, closed>>

Misses(r, k, refresh) == reader[r].pc = "away" /\ (refresh \/ k \notin young)

\* A refresh, too, joins a computation that is there.
Join(r, k, refresh) ==
    /\ Misses(r, k, refresh) /\ Drop(k)
    /\ \/ /\ pending[k] \in {"running", "cancelling"}
          /\ Await(r, "waiting", k, refresh)
       \/ pending[k] \in Outcome /\ End(r, "shared", pending[k], refresh)
    /\ UNCHANGED <<pending, closed>>

Compute(r, k, refresh) ==
    /\ Misses(r, k, refresh) /\ Drop(k)
    /\ pending[k] = "none" /\ Cardinality(Pending) < Capacity
    /\ pending' = [pending EXCEPT ![k] = "running"]
    /\ Await(r, "waiting", k, refresh)
    /\ UNCHANGED closed

\* As many computations are pending as values may be kept: one of its own.
Bypass(r, k, refresh) ==
    /\ Misses(r, k, refresh) /\ Drop(k)
    /\ pending[k] = "none" /\ Cardinality(Pending) >= Capacity
    /\ Await(r, "computing", k, refresh)
    /\ UNCHANGED <<pending, closed>>

EndBypass(r) ==
    /\ reader[r].pc = "computing"
    /\ \E what \in {"value", "error"} : End(r, "own", what, reader[r].refresh)
    /\ UNCHANGED <<values, young, pending, closed>>

Wake(r) ==
    /\ reader[r].pc = "woken"
    /\ End(r, "shared", reader[r].what, reader[r].refresh)
    /\ UNCHANGED <<values, young, pending, closed>>

\* A variant without the shield: the computation is cancelled with the caller.
CancelUnshielded(r) ==
    /\ reader[r].pc # "away"
    /\ reader' = [reader EXCEPT ![r] = Away] /\ got' = [got EXCEPT ![r] = NoAnswer]
    /\ pending' = [k \in Key |-> IF k = reader[r].key /\ pending[k] = "running"
                                 THEN "cancelling" ELSE pending[k]]
    /\ UNCHANGED <<values, young, closed>>

\* A caller is cancelled; the computation it waits for is shielded.
Cancel(r) ==
    /\ reader[r].pc # "away"
    /\ reader' = [reader EXCEPT ![r] = Away] /\ got' = [got EXCEPT ![r] = NoAnswer]
    /\ UNCHANGED <<values, young, pending, closed>>

-----------------------------------------------------------------------------
(* The shared computation, its done callback, time and close *)

Settle(k) ==
    /\ \/ /\ pending[k] = "running"
          /\ \E what \in {"value", "error"} : pending' = [pending EXCEPT ![k] = what]
       \/ /\ pending[k] = "cancelling"
          /\ pending' = [pending EXCEPT ![k] = "cancelled"]
    /\ UNCHANGED <<values, young, reader, got, closed>>

\* Those who wait go on when the callbacks have run.
WakeWaiting(k) ==
    reader' = [r \in Reader |-> IF reader[r].pc = "waiting" /\ reader[r].key = k
                                THEN [reader[r] EXCEPT !.pc = "woken", !.what = pending[k]]
                                ELSE reader[r]]

Keep(k) ==
    LET all == Append(Without(k), [key |-> k, what |-> pending[k]])
        kept == IF Len(all) > Capacity THEN Tail(all) ELSE all
    IN values' = kept /\ young' = {x \in young \cup {k} : \E i \in DOMAIN kept : kept[i].key = x}

\* The callback takes the entry away and keeps a value, the oldest giving way.
Completed(k) ==
    /\ pending[k] \in Outcome
    /\ pending' = [pending EXCEPT ![k] = "none"]
    /\ WakeWaiting(k)
    /\ IF pending[k] = "value" THEN Keep(k) ELSE UNCHANGED <<values, young>>
    /\ UNCHANGED <<got, closed>>

Age(k) ==
    /\ k \in young /\ young' = young \ {k}
    /\ UNCHANGED <<values, pending, reader, got, closed>>

Close ==
    /\ closed = "no" /\ closed' = "closing"
    /\ pending' = [k \in Key |-> IF pending[k] = "running" THEN "cancelling" ELSE pending[k]]
    /\ UNCHANGED <<values, young, reader, got>>

\* When the computations it cancelled have ended.
ClearValues ==
    /\ closed = "closing" /\ closed' = "yes"
    /\ \A k \in Key : pending[k] # "cancelling"
    /\ values' = <<>> /\ young' = {}
    /\ UNCHANGED <<pending, reader, got>>

MemoNext ==
    \/ \E r \in Reader, k \in Key, refresh \in BOOLEAN :
         Hit(r, k, refresh) \/ Join(r, k, refresh) \/ Compute(r, k, refresh) \/ Bypass(r, k, refresh)
    \/ \E r \in Reader : EndBypass(r) \/ Wake(r) \/ Cancel(r)
    \/ \E k \in Key : Settle(k) \/ Completed(k) \/ Age(k)
    \/ Close \/ ClearValues

MemoSpec == MemoInit /\ [][MemoNext]_memoVars

-----------------------------------------------------------------------------
(***************************************************************************)
(* Every variable holds a value of its type, no more values are kept and   *)
(* computations shared than the cache may hold, no key is stored twice,    *)
(* and a caller that waits waits for a computation that is there.          *)
(***************************************************************************)
MemoTypeOK ==
    /\ values \in Seq([key : Key, what : Outcome]) /\ Len(values) <= Capacity
    /\ \A i, j \in DOMAIN values : values[i].key = values[j].key => i = j
    /\ young \subseteq {values[i].key : i \in DOMAIN values}
    /\ pending \in [Key -> Outcome \cup {"none", "running", "cancelling"}]
    /\ Cardinality(Pending) <= Capacity
    /\ \A r \in Reader :
         /\ reader[r].pc \in {"away", "waiting", "computing", "woken"}
         /\ reader[r].pc = "waiting" => reader[r].key \in Pending
    /\ closed \in {"no", "closing", "yes"}

(***************************************************************************)
(* Whoever else asks or is cancelled: a caller that wants a new value is   *)
(* not given one that was stored, a failure is never kept and served, and  *)
(* only close takes a computation from those who wait for it.              *)
(***************************************************************************)
AnswersAreSound ==
    \A r \in Reader :
        /\ got[r].refresh => got[r].from # "stored"
        /\ got[r].from = "stored" => got[r].what = "value"
        /\ got[r].what = "cancelled" => closed # "no"
=============================================================================
