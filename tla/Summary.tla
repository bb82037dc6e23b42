------------------------------- MODULE Summary -------------------------------
(***************************************************************************)
(* The running summary of a branch: SummaryWorker._process, fed by the     *)
(* turns that end on the branch, and ContextBuilder.build, which puts the  *)
(* newest snapshot before the recent messages.  Every worker process runs  *)
(* a SummaryWorker.  A message is its position on the branch's path, a     *)
(* summary how often each message is in it; cutting a long summary is left *)
(* out.                                                                    *)
(***************************************************************************)
EXTENDS Naturals, FiniteSets

CONSTANTS Worker,
          Trigger,   \* summary_trigger_message_count
          Recent,    \* context_recent_message_limit
          MaxPath    \* bound: messages on the branch

\* As shipped (10 and 12): a summary is asked for before anything drops out.
ASSUME SummaryAssumption ==
    /\ Trigger \in Nat /\ Recent \in Nat \ {0} /\ MaxPath \in Nat
    /\ Trigger <= Recent + 1

VARIABLES
    path,      \* messages of the branch that may be in a context
    answering, \* the last turn has not ended
    waiting,   \* deliveries in the summary stream
    job,       \* what each worker does with its delivery
    latest,    \* the snapshot with the newest created_at
    clock,     \* transactions begun
    through,   \* the path's length when the last finished job read it
    overlapped \* two jobs have been under way at once

summaryVars == <<path, answering, waiting, job, latest, clock, through, overlapped>>

Message == 1 .. MaxPath
Empty == [m \in Message |-> 0]
NoJob == [pc |-> "idle", read |-> 0, upTo |-> 0, text |-> Empty, begun |-> 0]
NoSnapshot == [upTo |-> 0, text |-> Empty, begun |-> 0]

SummaryInit ==
    /\ path = 0 /\ answering = FALSE /\ waiting = 0 /\ clock = 0 /\ through = 0 /\ overlapped = FALSE
    /\ job = [w \in Worker |-> NoJob] /\ latest = NoSnapshot

-----------------------------------------------------------------------------
SendMessage ==
    /\ ~answering /\ path + 2 <= MaxPath
    /\ answering' = TRUE /\ path' = path + 1
    /\ UNCHANGED <<waiting, job, latest, clock, through, overlapped>>

\* The answer joins the context unless the turn failed; only a completed turn
\* asks for a summary.
EndTurn(answers, asks) ==
    /\ answering /\ answering' = FALSE
    /\ path' = path + answers
    /\ waiting' = waiting + asks
    /\ UNCHANGED <<job, latest, clock, through, overlapped>>

CompleteTurn == EndTurn(1, 1)
StopTurn == EndTurn(1, 0)
FailTurn == EndTurn(0, 0)

\* The position of the last message to fold, 0 where there is none.
CutoffEarly(n) == IF n < Trigger \/ n <= Recent + 1 THEN 0 ELSE n - Recent - 1

Cutoff(n) == IF n < Trigger \/ n <= Recent THEN 0 ELSE n - Recent

Quit(w) == job' = [job EXCEPT ![w] = NoJob]

\* The path is read without a lock; a job with nothing to fold is over.
Take(w) ==
    /\ waiting > 0 /\ job[w].pc = "idle"
    /\ waiting' = waiting - 1
    /\ IF Cutoff(path) = 0
       THEN through' = path /\ UNCHANGED job
       ELSE /\ job' = [job EXCEPT ![w] = [NoJob EXCEPT !.pc = "read", !.read = path]]
            /\ UNCHANGED through
    /\ overlapped' = (overlapped \/ \E v \in Worker \ {w} : job[v].pc # "idle")
    /\ UNCHANGED <<path, answering, latest, clock>>

\* A variant that folds the last folded message again.
FoldAgain(text, from, to) ==
    [m \in Message |-> text[m] + (IF from <= m /\ m <= to THEN 1 ELSE 0)]

\* What follows the last folded message, up to the cutoff, is appended.
Fold(text, after, to) ==
    [m \in Message |-> text[m] + (IF after < m /\ m <= to THEN 1 ELSE 0)]

\* The snapshot is read in a second query; where the path that was read does
\* not have its last message, folding starts from the beginning.
Merge(w) ==
    /\ job[w].pc = "read"
    /\ LET to == Cutoff(job[w].read)
           after == IF latest.upTo <= job[w].read THEN latest.upTo ELSE 0
       IN IF latest.upTo = to
          THEN Quit(w) /\ through' = job[w].read
          ELSE /\ job' = [job EXCEPT ![w] =
                            [pc |-> "merged", read |-> job[w].read, upTo |-> to,
                             text |-> Fold(latest.text, after, to), begun |-> 0]]
               /\ UNCHANGED through
    /\ UNCHANGED <<path, answering, waiting, latest, clock, overlapped>>

\* created_at is the start of the writing transaction, which then waits for
\* the branch's lock.
BeginWrite(w) ==
    /\ job[w].pc = "merged"
    /\ clock' = clock + 1
    /\ job' = [job EXCEPT ![w] = [pc |-> "writing", read |-> job[w].read, upTo |-> job[w].upTo,
                                  text |-> job[w].text, begun |-> clock + 1]]
    /\ UNCHANGED <<path, answering, waiting, latest, through, overlapped>>

Write(w) ==
    /\ job[w].pc = "writing"
    /\ latest' = IF job[w].begun > latest.begun
                 THEN [upTo |-> job[w].upTo, text |-> job[w].text, begun |-> job[w].begun]
                 ELSE latest
    /\ Quit(w) /\ through' = job[w].read
    /\ UNCHANGED <<path, answering, waiting, clock, overlapped>>

\* The delivery is acknowledged whatever happens, and never claimed again.
Lose(w) ==
    /\ job[w].pc # "idle"
    /\ Quit(w)
    /\ UNCHANGED <<path, answering, waiting, latest, clock, through, overlapped>>

SummaryNext ==
    \/ SendMessage \/ CompleteTurn \/ StopTurn \/ FailTurn
    \/ \E w \in Worker : Take(w) \/ Merge(w) \/ BeginWrite(w) \/ Write(w) \/ Lose(w)

SummarySpec == SummaryInit /\ [][SummaryNext]_summaryVars

-----------------------------------------------------------------------------
\* ContextBuilder.build: neither in the snapshot nor among the recent messages.
Omitted == {m \in 1 .. path : latest.upTo < m /\ m + Recent <= path}

\* Every variable holds a value of its type; no job reads past the path.
SummaryTypeOK ==
    /\ path \in 0 .. MaxPath /\ (answering => path < MaxPath) /\ answering \in BOOLEAN
    /\ waiting \in Nat /\ clock \in Nat
    /\ through \in 0 .. path /\ overlapped \in BOOLEAN
    /\ job \in [Worker -> [pc : {"idle", "read", "merged", "writing"}, read : 0 .. path,
                           upTo : 0 .. path, text : [Message -> Nat], begun : 0 .. clock]]
    /\ latest \in [upTo : 0 .. path, text : [Message -> Nat], begun : 0 .. clock]

FoldedOnce ==
    \A m \in Message :
        /\ m <= latest.upTo => latest.text[m] >= 1
        /\ ~overlapped => latest.text[m] = IF m <= latest.upTo THEN 1 ELSE 0

OmitsOnlyUnread == Cardinality(Omitted) <= path - through

(***************************************************************************)
(* The snapshot the next context is built from has every message up to its *)
(* last one.  Unless two workers summarised the branch at once, it has     *)
(* each exactly once and nothing that the context then shows again, and    *)
(* the context omits no more messages than were added since a summary job  *)
(* last got through: a job that was lost is made up for by the next one    *)
(* (SummaryWorker._process, ContextBuilder.build).                         *)
(***************************************************************************)
ContextIsWhole == FoldedOnce /\ (~overlapped => OmitsOnlyUnread)
=============================================================================
