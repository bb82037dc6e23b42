--------------------------- MODULE EventLogProofs ---------------------------
(***************************************************************************)
(* The safety properties of EventLog for every set of spans, every log and *)
(* any number of faults: the log is in order (LogInv) by whoever writes    *)
(* it, the stream sends what it reads (StreamInv), and once the task has   *)
(* ended by its run nothing is opened that the stream does not see closed  *)
(* (BoundaryInv).                                                          *)
(***************************************************************************)
EXTENDS EventLog, FiniteSetTheorems, SequenceTheorems, TLAPS

-----------------------------------------------------------------------------
(* Events, and the end records of the open spans *)

\* The kinds of the events of a span.
SpanKinds == {"started", "ended"}

\* An event of a span is the record of its start or of its end.
LEMMA EventShapes ==
  /\ \A s \in Span : Started(s) \in Events /\ Ended(s) \in Events
  /\ \A kind \in Kinds : Plain(kind) \in Events
  /\ \A e \in Events : e.kind \in Kinds \cup SpanKinds
  /\ \A e \in Events : e.kind = "started" => e.span \in Span /\ e = Started(e.span)
  /\ \A e \in Events : e.kind = "ended" => e.span \in Span /\ e = Ended(e.span)
  /\ \A s \in Span : /\ Started(s).kind = "started" /\ Started(s).span = s
                     /\ Ended(s).kind = "ended" /\ Ended(s).span = s
  /\ \A kind \in Kinds : Plain(kind).kind = kind
<1>1. \A e \in Events : \/ e \in [kind : Kinds] /\ e.kind \in Kinds
                        \/ e \in [kind : SpanKinds, span : Span] /\ e.kind \in SpanKinds /\ e.span \in Span
  BY DEF Events, SpanKinds
<1>2. \A e \in [kind : SpanKinds, span : Span] : e = [kind |-> e.kind, span |-> e.span]
  OBVIOUS
<1>3. Kinds \cap SpanKinds = {}
  BY DEF Kinds, SpanKinds
<1>4. \A s \in Span : Started(s) \in Events /\ Ended(s) \in Events
  BY DEF Events, Started, Ended
<1>5. \A kind \in Kinds : Plain(kind) \in Events
  BY DEF Events, Plain
<1>6. \A e \in Events : e.kind = "started" => e.span \in Span /\ e = Started(e.span)
  BY <1>1, <1>2, <1>3 DEF Started, SpanKinds
<1>7. \A e \in Events : e.kind = "ended" => e.span \in Span /\ e = Ended(e.span)
  BY <1>1, <1>2, <1>3 DEF Ended, SpanKinds
<1>8. QED
  BY <1>1, <1>4, <1>5, <1>6, <1>7 DEF Started, Ended, Plain

\* Each element of a finite set of numbers has a rank, each rank an element.
LEMMA Ranks ==
  ASSUME NEW S \in SUBSET Nat, IsFiniteSet(S)
  PROVE  /\ Cardinality(S) \in Nat
         /\ \A n \in 1 .. Cardinality(S) : /\ Nth(S, n) \in S
                                          /\ Cardinality({h \in S : h <= Nth(S, n)}) = n
         /\ \A i \in S : \E n \in 1 .. Cardinality(S) : Nth(S, n) = i
<1> DEFINE upTo(i) == {h \in S : h <= i}
           rank(i) == Cardinality(upTo(i))
           ranks == {rank(i) : i \in S}
<1>1. Cardinality(S) \in Nat
  BY FS_CardinalityType
<1>2. ASSUME NEW i \in S PROVE IsFiniteSet(upTo(i)) /\ rank(i) \in 1 .. Cardinality(S)
  <2>1. IsFiniteSet(upTo(i)) /\ rank(i) <= Cardinality(S) /\ rank(i) \in Nat
    BY FS_Subset, FS_CardinalityType
  <2>2. i \in upTo(i)
    OBVIOUS
  <2>3. rank(i) # 0
    BY <2>1, <2>2, FS_EmptySet
  <2>4. QED
    BY <2>1, <2>3
<1>3. ASSUME NEW i \in S, NEW j \in S, i < j PROVE rank(i) < rank(j)
  <2>1. upTo(i) \subseteq upTo(j) /\ j \notin upTo(i) /\ j \in upTo(j)
    <3>1. i \in Nat /\ j \in Nat /\ i <= j /\ ~(j <= i) /\ j <= j
      BY <1>3
    <3>2. \A h \in S : h \in Nat
      OBVIOUS
    <3>3. \A h \in S : h <= i => h <= j
      BY <3>1, <3>2
    <3>4. QED
      BY <3>1, <3>3
  <2>2. rank(i) <= rank(j) /\ (rank(i) = rank(j) => upTo(i) = upTo(j))
    BY <1>2, <2>1, FS_Subset
  <2>3. rank(i) \in Nat /\ rank(j) \in Nat
    BY <1>2, <1>1
  <2>4. QED
    BY <2>1, <2>2, <2>3
<1>4. \A i, j \in S : rank(i) = rank(j) => i = j
  <2>1. SUFFICES ASSUME NEW i \in S, NEW j \in S, i # j PROVE rank(i) # rank(j)
    OBVIOUS
  <2>2. i < j \/ j < i
    BY <2>1
  <2>3. rank(i) \in Nat /\ rank(j) \in Nat
    BY <1>2, <1>1
  <2>4. QED
    BY <1>3, <2>2, <2>3
<1>5. ranks = 1 .. Cardinality(S)
  <2> DEFINE f == [i \in S |-> rank(i)]
  <2>1. f \in Bijection(S, ranks)
    BY <1>4 DEF Bijection, Injection, Surjection, IsInjective
  <2>2. IsFiniteSet(ranks) /\ Cardinality(ranks) = Cardinality(S)
    BY <2>1, FS_Bijection DEF ExistsBijection
  <2>3. ranks \subseteq 1 .. Cardinality(S)
    BY <1>2
  <2>4. IsFiniteSet(1 .. Cardinality(S)) /\ Cardinality(1 .. Cardinality(S)) = Cardinality(S)
    BY <1>1, FS_Interval
  <2>5. QED
    BY <2>2, <2>3, <2>4, FS_Subset
<1>6. ASSUME NEW n \in 1 .. Cardinality(S) PROVE Nth(S, n) \in S /\ rank(Nth(S, n)) = n
  <2>1. PICK i \in S : rank(i) = n
    BY <1>5
  <2>2. QED
    BY <2>1 DEF Nth
<1>7. ASSUME NEW i \in S PROVE \E n \in 1 .. Cardinality(S) : Nth(S, n) = i
  BY <1>2, <1>4, <1>6
<1>8. QED
  BY <1>1, <1>6, <1>7

\* Started and not ended.
Open(s) == Logged(Started(s)) /\ ~Logged(Ended(s))

\* One end for each open span.
LEMMA EndsOfOpenSpans ==
  ASSUME log \in Seq(Events)
  PROVE  /\ OpenSpanEnds \in Seq(Events)
         /\ \A n \in DOMAIN OpenSpanEnds : \E s \in Span : Open(s) /\ OpenSpanEnds[n] = Ended(s)
         /\ \A s \in Span : Open(s) => \E n \in DOMAIN OpenSpanEnds : OpenSpanEnds[n] = Ended(s)
         /\ (\A i, j \in DOMAIN log : log[i].kind \in SpanKinds /\ log[i] = log[j] => i = j)
              => \A m, n \in DOMAIN OpenSpanEnds : OpenSpanEnds[m] = OpenSpanEnds[n] => m = n
<1> DEFINE starts == OpenStarts
           count == Cardinality(starts)
<1>1. Len(log) \in Nat /\ DOMAIN log = 1 .. Len(log) /\ \A i \in DOMAIN log : log[i] \in Events
  OBVIOUS
<1>2. starts \subseteq 1 .. Len(log) /\ starts \in SUBSET Nat
  BY <1>1 DEF OpenStarts
<1>3. IsFiniteSet(starts)
  <2> HIDE DEF starts
  <2>1. IsFiniteSet(1 .. Len(log))
    BY <1>1, FS_Interval
  <2>2. QED
    BY <1>2, <2>1, FS_Subset
<1>4. /\ count \in Nat
      /\ \A n \in 1 .. count : /\ Nth(starts, n) \in starts
                               /\ Cardinality({h \in starts : h <= Nth(starts, n)}) = n
      /\ \A i \in starts : \E n \in 1 .. count : Nth(starts, n) = i
  <2> HIDE DEF starts
  <2>1. QED
    BY <1>2, <1>3, Ranks
<1>5. \A i \in starts : /\ i \in DOMAIN log /\ log[i].span \in Span /\ log[i] = Started(log[i].span)
                        /\ Open(log[i].span)
  BY <1>1, EventShapes DEF OpenStarts, Open, Logged
<1>6. \A s \in Span : Open(s) => \E i \in starts : log[i] = Started(s)
  BY <1>1, EventShapes DEF OpenStarts, Open, Logged
<1>7. /\ DOMAIN OpenSpanEnds = 1 .. count
      /\ \A n \in 1 .. count : OpenSpanEnds[n] = Ended(log[Nth(starts, n)].span)
  BY DEF OpenSpanEnds
<1> HIDE DEF starts
<1>8. \A n \in 1 .. count : \E s \in Span : Open(s) /\ OpenSpanEnds[n] = Ended(s)
  BY <1>4, <1>5, <1>7
<1>9. OpenSpanEnds \in Seq(Events)
  <2>1. \A n \in 1 .. count : Ended(log[Nth(starts, n)].span) \in Events
    BY <1>4, <1>5, EventShapes
  <2>2. OpenSpanEnds = [n \in 1 .. count |-> Ended(log[Nth(starts, n)].span)]
    BY DEF OpenSpanEnds, starts
  <2>3. [n \in 1 .. count |-> Ended(log[Nth(starts, n)].span)] \in [1 .. count -> Events]
    BY <2>1
  <2>4. QED
    BY <1>4, <2>2, <2>3
<1>10. \A s \in Span : Open(s) => \E n \in 1 .. count : OpenSpanEnds[n] = Ended(s)
  BY <1>4, <1>6, <1>7, EventShapes
<1>11. ASSUME \A i, j \in DOMAIN log : log[i].kind \in SpanKinds /\ log[i] = log[j] => i = j,
              NEW m \in 1 .. count, NEW n \in 1 .. count, OpenSpanEnds[m] = OpenSpanEnds[n]
       PROVE  m = n
  <2>1. Ended(log[Nth(starts, m)].span).span = Ended(log[Nth(starts, n)].span).span
    BY <1>7, <1>11
  <2>2. log[Nth(starts, m)].span = log[Nth(starts, n)].span
    BY <1>4, <1>5, <2>1, EventShapes
  <2>3. Nth(starts, m) = Nth(starts, n)
    <3> DEFINE i == Nth(starts, m)
               j == Nth(starts, n)
    <3>1. i \in starts /\ j \in starts /\ log[i].span = log[j].span
      BY <1>4, <2>2
    <3>2. log[i] = log[j] /\ log[i] = Started(log[i].span) /\ log[i].span \in Span
      BY <1>5, <3>1
    <3>3. log[i].kind \in SpanKinds
      BY <3>2, EventShapes DEF SpanKinds
    <3>4. QED
      BY <1>5, <1>11, <3>1, <3>2, <3>3
  <2>4. QED
    BY <1>4, <2>3
<1>12. QED
  BY <1>7, <1>8, <1>9, <1>10, <1>11

-----------------------------------------------------------------------------
(* What the log is in order by *)

In(e, l) == \E i \in DOMAIN l : l[i] = e

SpanEventsOnce(l) == \A i, j \in DOMAIN l : l[i].kind \in SpanKinds /\ l[i] = l[j] => i = j
StartsComeFirst(l) ==
    \A i, j \in DOMAIN l : \A s \in Span : l[i] = Started(s) /\ l[j] = Ended(s) => i < j
EndedBeforeTerminal(l) ==
    \A i, t \in DOMAIN l : i < t /\ l[i].kind = "started" /\ l[t].kind = "terminal" =>
        \E j \in i .. t : l[j] = Ended(l[i].span)
Orderly(l) == SpanEventsOnce(l) /\ StartsComeFirst(l) /\ EndedBeforeTerminal(l)

\* Of no span does l have the start alone.
NoneOpen(l) == \A s \in Span : In(Started(s), l) => In(Ended(s), l)

Extends(new, l) == Len(new) >= Len(l) /\ \A i \in DOMAIN l : new[i] = l[i]

\* One event more leaves the log in order where it is no second event of its span
\* and, if it is the terminal one, nothing is open.
LEMMA AppendKeepsOrder ==
  ASSUME NEW l \in Seq(Events), NEW e \in Events, Orderly(l),
         e.kind \in SpanKinds => ~In(e, l),
         e.kind = "started" => ~In(Ended(e.span), l),
         e.kind = "terminal" => NoneOpen(l)
  PROVE  Orderly(Append(l, e))
<1> DEFINE new == Append(l, e)
<1>1. /\ new \in Seq(Events) /\ Len(l) \in Nat /\ Len(new) = Len(l) + 1
      /\ DOMAIN l = 1 .. Len(l) /\ DOMAIN new = 1 .. Len(l) + 1
      /\ \A i \in 1 .. Len(l) : new[i] = l[i] /\ l[i] \in Events
      /\ new[Len(l) + 1] = e
  OBVIOUS
<1> HIDE DEF new
<1>2. SpanEventsOnce(new)
  BY <1>1 DEF SpanEventsOnce, Orderly, In
<1>3. StartsComeFirst(new)
  <2>1. SUFFICES ASSUME NEW i \in DOMAIN new, NEW j \in DOMAIN new, NEW s \in Span,
                        new[i] = Started(s), new[j] = Ended(s)
                 PROVE  i < j
    BY DEF StartsComeFirst
  <2>2. CASE i \in DOMAIN l /\ j \in DOMAIN l
    BY <1>1, <2>1, <2>2 DEF StartsComeFirst, Orderly
  <2>3. CASE i = Len(l) + 1 /\ j \in DOMAIN l
    BY <1>1, <2>1, <2>3, EventShapes DEF In
  <2>4. CASE j = Len(l) + 1
    BY <1>1, <2>1, <2>4, EventShapes
  <2>5. QED
    BY <1>1, <2>2, <2>3, <2>4
<1>4. EndedBeforeTerminal(new)
  <2>1. SUFFICES ASSUME NEW i \in DOMAIN new, NEW t \in DOMAIN new, i < t,
                        new[i].kind = "started", new[t].kind = "terminal"
                 PROVE  \E j \in i .. t : new[j] = Ended(new[i].span)
    BY DEF EndedBeforeTerminal
  <2>2. i \in DOMAIN l /\ new[i] = l[i]
    BY <1>1, <2>1
  <2>3. CASE t \in DOMAIN l
    BY <1>1, <2>1, <2>2, <2>3 DEF EndedBeforeTerminal, Orderly
  <2>4. CASE t = Len(l) + 1
    <3>1. l[i].span \in Span /\ l[i] = Started(l[i].span)
      BY <1>1, <2>1, <2>2, EventShapes
    <3>2. PICK j \in DOMAIN l : l[j] = Ended(l[i].span)
      BY <1>1, <2>1, <2>2, <2>4, <3>1 DEF NoneOpen, In
    <3>3. i < j
      BY <2>2, <3>1, <3>2 DEF StartsComeFirst, Orderly
    <3>4. QED
      BY <1>1, <2>2, <2>4, <3>2, <3>3
  <2>5. QED
    BY <1>1, <2>3, <2>4
<1>5. QED
  BY <1>2, <1>3, <1>4 DEF Orderly, new

\* The log with the end records of what was open.
LEMMA ClosingKeepsOrder ==
  ASSUME log \in Seq(Events), Orderly(log)
  PROVE  /\ log \o OpenSpanEnds \in Seq(Events) /\ Extends(log \o OpenSpanEnds, log)
         /\ Orderly(log \o OpenSpanEnds) /\ NoneOpen(log \o OpenSpanEnds)
         /\ \A i \in DOMAIN (log \o OpenSpanEnds) : i \in DOMAIN log \/
              \E s \in Span : Logged(Started(s)) /\ (log \o OpenSpanEnds)[i] = Ended(s)
<1> DEFINE new == log \o OpenSpanEnds
           n == Len(log)
           m == Len(OpenSpanEnds)
<1>1. /\ OpenSpanEnds \in Seq(Events)
      /\ \A k \in DOMAIN OpenSpanEnds : \E s \in Span : Open(s) /\ OpenSpanEnds[k] = Ended(s)
      /\ \A s \in Span : Open(s) => \E k \in DOMAIN OpenSpanEnds : OpenSpanEnds[k] = Ended(s)
      /\ \A j, k \in DOMAIN OpenSpanEnds : OpenSpanEnds[j] = OpenSpanEnds[k] => j = k
  BY EndsOfOpenSpans DEF Orderly, SpanEventsOnce
<1>2. /\ new \in Seq(Events) /\ n \in Nat /\ m \in Nat /\ Len(new) = n + m
      /\ DOMAIN log = 1 .. n /\ DOMAIN new = 1 .. n + m /\ DOMAIN OpenSpanEnds = 1 .. m
      /\ \A i \in 1 .. n : new[i] = log[i] /\ log[i] \in Events
      /\ \A i \in n + 1 .. n + m : new[i] = OpenSpanEnds[i - n] /\ i - n \in 1 .. m
      /\ \A k \in 1 .. m : new[n + k] = OpenSpanEnds[k] /\ n + k \in n + 1 .. n + m
  BY <1>1
<1> HIDE DEF new, n, m
<1>3. ASSUME NEW i \in n + 1 .. n + m PROVE \E s \in Span : Open(s) /\ new[i] = Ended(s)
  <2>1. new[i] = OpenSpanEnds[i - n] /\ i - n \in DOMAIN OpenSpanEnds
    BY <1>2
  <2>2. PICK s \in Span : Open(s) /\ OpenSpanEnds[i - n] = Ended(s)
    BY <1>1, <2>1
  <2>3. QED
    BY <2>1, <2>2
<1>4. ASSUME NEW s \in Span, Open(s) PROVE \E i \in n + 1 .. n + m : new[i] = Ended(s)
  <2>1. PICK k \in DOMAIN OpenSpanEnds : OpenSpanEnds[k] = Ended(s)
    BY <1>1, <1>4
  <2>2. new[n + k] = Ended(s) /\ n + k \in n + 1 .. n + m
    BY <1>2, <2>1
  <2>3. QED
    BY <2>2
<1>5. SpanEventsOnce(new)
  <2>1. SUFFICES ASSUME NEW i \in DOMAIN new, NEW j \in DOMAIN new,
                        new[i].kind \in SpanKinds, new[i] = new[j]
                 PROVE  i = j
    BY DEF SpanEventsOnce
  <2>2. CASE i \in 1 .. n /\ j \in 1 .. n
    BY <1>2, <2>1, <2>2 DEF Orderly, SpanEventsOnce
  <2>3. CASE (i \in 1 .. n /\ j \in n + 1 .. n + m) \/ (j \in 1 .. n /\ i \in n + 1 .. n + m)
    <3>1. ASSUME NEW h \in 1 .. n, NEW k \in n + 1 .. n + m PROVE new[h] # new[k]
      <4>1. PICK s \in Span : Open(s) /\ new[k] = Ended(s)
        BY <1>3
      <4>2. QED
        BY <1>2, <4>1 DEF Open, Logged
    <3>2. QED
      BY <2>1, <2>3, <3>1
  <2>4. CASE i \in n + 1 .. n + m /\ j \in n + 1 .. n + m
    <3>1. OpenSpanEnds[i - n] = OpenSpanEnds[j - n] /\ i - n \in 1 .. m /\ j - n \in 1 .. m
      BY <1>2, <2>1, <2>4
    <3>2. i - n = j - n
      BY <1>1, <1>2, <3>1
    <3>3. QED
      BY <1>2, <2>4, <3>2
  <2>5. QED
    BY <1>2, <2>2, <2>3, <2>4
<1>6. StartsComeFirst(new)
  <2>1. SUFFICES ASSUME NEW i \in DOMAIN new, NEW j \in DOMAIN new, NEW s \in Span,
                        new[i] = Started(s), new[j] = Ended(s)
                 PROVE  i < j
    BY DEF StartsComeFirst
  <2>2. i \in 1 .. n
    BY <1>2, <1>3, <2>1, EventShapes
  <2>3. CASE j \in 1 .. n
    BY <1>2, <2>1, <2>2, <2>3 DEF StartsComeFirst, Orderly
  <2>4. QED
    BY <1>2, <2>2, <2>3
<1>7. EndedBeforeTerminal(new)
  <2>1. SUFFICES ASSUME NEW i \in DOMAIN new, NEW t \in DOMAIN new, i < t,
                        new[i].kind = "started", new[t].kind = "terminal"
                 PROVE  \E j \in i .. t : new[j] = Ended(new[i].span)
    BY DEF EndedBeforeTerminal
  <2>2. t \in 1 .. n /\ i \in 1 .. n
    <3>1. ASSUME NEW k \in n + 1 .. n + m PROVE new[k].kind = "ended"
      BY <1>3, EventShapes
    <3>2. t \notin n + 1 .. n + m /\ i \notin n + 1 .. n + m
      BY <2>1, <3>1
    <3>3. QED
      BY <1>2, <3>2
  <2>3. QED
    BY <1>2, <2>1, <2>2 DEF EndedBeforeTerminal, Orderly
<1>8. NoneOpen(new)
  <2>1. SUFFICES ASSUME NEW s \in Span, NEW i \in DOMAIN new, new[i] = Started(s)
                 PROVE  In(Ended(s), new)
    BY DEF NoneOpen, In
  <2>2. Logged(Started(s))
    <3>1. i \in 1 .. n
      BY <1>2, <1>3, <2>1, EventShapes
    <3>2. QED
      BY <1>2, <2>1, <3>1 DEF Logged
  <2>3. CASE Open(s)
    <3>1. PICK k \in n + 1 .. n + m : new[k] = Ended(s)
      BY <1>4, <2>3
    <3>2. k \in DOMAIN new
      BY <1>2
    <3>3. QED
      BY <3>1, <3>2 DEF In
  <2>4. CASE Logged(Ended(s))
    BY <1>2, <2>4 DEF In, Logged
  <2>5. QED
    BY <2>2, <2>3, <2>4 DEF Open
<1>9. Extends(new, log)
  BY <1>2 DEF Extends, n
<1>10. \A i \in DOMAIN new : i \in DOMAIN log \/ \E s \in Span : Logged(Started(s)) /\ new[i] = Ended(s)
  BY <1>2, <1>3 DEF Open
<1>11. QED
  BY <1>2, <1>5, <1>6, <1>7, <1>8, <1>9, <1>10 DEF Orderly, new

-----------------------------------------------------------------------------
(* What a step does to the log *)

(***************************************************************************)
(* What is in the log says how far run and task have come: a span that the *)
(* tracer has not begun has no event, a terminal event means that the task *)
(* has ended, and after the run has ended it no span is started.           *)
(***************************************************************************)
LogInv ==
    /\ Orderly(log)
    /\ \A s \in Span : tracer[s] = "new" => ~Logged(Started(s)) /\ ~Logged(Ended(s))
    /\ \A i \in DOMAIN log : log[i].kind = "terminal" => HasEnded
    /\ worker \in {"committed", "answered", "finishing", "done"} => HasEnded
    /\ ended = "byRun" => worker # "running"

\* The log grows, in order; a start is a step of a run, a terminal event of a
\* task, that has not, or has, ended.
Grown ==
    /\ log' \in Seq(Events) /\ Extends(log', log) /\ Orderly(log')
    /\ \A i \in DOMAIN log' \ DOMAIN log :
         /\ log'[i].kind = "terminal" => HasEnded'
         /\ log'[i].kind = "started" => worker = "running" /\ tracer'[log'[i].span] # "new"
         /\ log'[i].kind = "ended" => tracer'[log'[i].span] # "new"

\* EventService.publish of what is not the end of the task.
LEMMA OneMoreEvent ==
  ASSUME log \in Seq(Events), LogInv, NEW e \in Events, Publish(e),
         e.kind \in SpanKinds => ~Logged(e) /\ tracer'[e.span] # "new",
         e.kind = "started" => ~Logged(Ended(e.span)) /\ worker = "running",
         e.kind # "terminal"
  PROVE  Grown
<1>1. Orderly(log) /\ \A x : In(x, log) <=> Logged(x)
  BY DEF LogInv, In, Logged
<1>2. Append(log, e) \in Seq(Events) /\ Orderly(Append(log, e))
  BY <1>1, AppendKeepsOrder
<1>3. /\ Len(log) \in Nat /\ DOMAIN log = 1 .. Len(log) /\ Len(log') = Len(log) + 1
      /\ DOMAIN log' = 1 .. Len(log) + 1
      /\ log'[Len(log) + 1] = e /\ \A i \in DOMAIN log : log'[i] = log[i]
  BY DEF Publish
<1>4. log' \in Seq(Events) /\ Orderly(log')
  BY <1>2 DEF Publish
<1>5. QED
  BY <1>3, <1>4 DEF Grown, Extends, SpanKinds

\* close_open_spans of EventService.
LEMMA OpenSpansClosed ==
  ASSUME log \in Seq(Events), LogInv, CloseOpenSpans, UNCHANGED tracer
  PROVE  Grown /\ NoneOpen(log')
<1>1. log' = log \o OpenSpanEnds /\ Orderly(log)
  BY DEF CloseOpenSpans, LogInv
<1>2. \A i \in DOMAIN log' : i \in DOMAIN log \/
        \E s \in Span : Logged(Started(s)) /\ log'[i] = Ended(s)
  BY <1>1, ClosingKeepsOrder
<1>3. \A i \in DOMAIN log' \ DOMAIN log :
        \E s \in Span : tracer[s] # "new" /\ log'[i].kind = "ended" /\ log'[i].span = s
  BY <1>2, EventShapes DEF LogInv
<1>4. QED
  BY <1>1, <1>3, ClosingKeepsOrder DEF Grown

\* The terminal event, with the ends of the open spans before it.
LEMMA TaskTold ==
  ASSUME log \in Seq(Events), LogInv, PublishTerminal, UNCHANGED tracer, HasEnded'
  PROVE  Grown
<1> DEFINE closed == log \o OpenSpanEnds
           end == Plain("terminal")
<1>1. /\ closed \in Seq(Events) /\ Extends(closed, log) /\ Orderly(closed) /\ NoneOpen(closed)
      /\ \A i \in DOMAIN closed : i \in DOMAIN log \/
           \E s \in Span : Logged(Started(s)) /\ closed[i] = Ended(s)
  BY ClosingKeepsOrder DEF LogInv
<1>2. end \in Events /\ end.kind = "terminal"
  BY EventShapes DEF Kinds
<1>3. log' = Append(closed, end)
  BY DEF PublishTerminal
<1> HIDE DEF closed, end
<1>4. log' \in Seq(Events) /\ Orderly(log')
  BY <1>1, <1>2, <1>3, AppendKeepsOrder DEF SpanKinds
<1>5. /\ Len(log) \in Nat /\ DOMAIN log = 1 .. Len(log) /\ DOMAIN closed = 1 .. Len(closed)
      /\ Len(closed) \in Nat /\ Len(log') = Len(closed) + 1 /\ DOMAIN log' = 1 .. Len(closed) + 1
      /\ log'[Len(closed) + 1] = end /\ \A i \in DOMAIN closed : log'[i] = closed[i]
  BY <1>1, <1>2, <1>3
<1>6. Extends(log', log)
  BY <1>1, <1>5 DEF Extends
<1>7. ASSUME NEW i \in DOMAIN log' \ DOMAIN log
      PROVE  \/ log'[i].kind = "terminal"
             \/ \E s \in Span : tracer[s] # "new" /\ log'[i].kind = "ended" /\ log'[i].span = s
  <2>1. CASE i \in DOMAIN closed
    BY <1>1, <1>5, <1>7, <2>1, EventShapes DEF LogInv
  <2>2. CASE i = Len(closed) + 1
    BY <1>2, <1>5, <2>2
  <2>3. QED
    BY <1>5, <2>1, <2>2
<1>8. QED
  BY <1>4, <1>6, <1>7 DEF Grown

\* A step that writes no event.
LEMMA Unlogged ==
  ASSUME log \in Seq(Events), LogInv, UNCHANGED log
  PROVE  Grown
  BY DEF Grown, Extends, LogInv

\* What TypeOK says of all but the stream.
RunTyped ==
    /\ log \in Seq(Events) /\ ended \in {"not", "byRun", "elsewhere"}
    /\ worker \in {"running", "committed", "answered", "finishing", "done", "dead"}
    /\ tracer \in [Span -> {"new", "started", "ended"}]
    /\ faults \in Nat

\* Whoever takes a step, the log only grows, in order.
LEMMA EveryStepGrows ==
  ASSUME RunTyped, LogInv, [Next]_vars
  PROVE  Grown
<1> USE DEF RunTyped
<1>1. ASSUME NEW s \in Span, SpanStarts(s) PROVE Grown
  <2>1. /\ Publish(Started(s)) /\ ~Logged(Started(s)) /\ ~Logged(Ended(s))
        /\ worker = "running" /\ tracer'[s] = "started"
    BY <1>1 DEF SpanStarts, Streaming, LogInv
  <2>2. QED
    BY <2>1, OneMoreEvent, EventShapes DEF SpanKinds
<1>2. ASSUME NEW s \in Span, SpanEnds(s) PROVE Grown
  <2>1. tracer'[s] = "ended"
    BY <1>2 DEF SpanEnds
  <2>2. CASE Logged(Ended(s))
    BY <1>2, <2>2, Unlogged DEF SpanEnds, PublishEnd
  <2>3. CASE ~Logged(Ended(s))
    <3>1. Publish(Ended(s))
      BY <1>2, <2>3 DEF SpanEnds, PublishEnd
    <3>2. QED
      BY <2>1, <2>3, <3>1, OneMoreEvent, EventShapes DEF SpanKinds
  <2>4. QED
    BY <2>2, <2>3
<1>3. CASE Stream
  <2>1. PICK kind \in {"reasoning", "delta"} : Publish(Plain(kind))
    BY <1>3 DEF Stream
  <2>2. Plain(kind) \in Events /\ Plain(kind).kind = kind
    BY EventShapes DEF Kinds
  <2>3. QED
    BY <2>1, <2>2, OneMoreEvent DEF SpanKinds
<1>4. CASE CompleteAnswer
  <2>1. Publish(Plain("answer")) /\ Plain("answer") \in Events /\ Plain("answer").kind = "answer"
    BY <1>4, EventShapes DEF CompleteAnswer, Kinds
  <2>2. QED
    BY <2>1, OneMoreEvent DEF SpanKinds
<1>5. CASE CompleteTask
  BY <1>5, TaskTold DEF CompleteTask, LogInv, HasEnded
<1>6. CASE Finish
  BY <1>6, OpenSpansClosed DEF Finish
<1>7. CASE EndElsewhere
  <2>1. HasEnded' /\ UNCHANGED tracer
    BY <1>7 DEF EndElsewhere, HasEnded
  <2>2. UNCHANGED log \/ PublishTerminal
    BY <1>7 DEF EndElsewhere, PublishTerminal
  <2>3. QED
    BY <2>1, <2>2, TaskTold, Unlogged
<1>8. CASE RecoverBoundary
  BY <1>8, OpenSpansClosed DEF RecoverBoundary
<1>9. CASE \/ Commit \/ WorkerCrash \/ Disconnect \/ ReadAgain \/ Connect \/ ReadRow \/ ReadNothing
           \/ SendDeferred \/ Synthesize \/ UNCHANGED vars
  <2>1. UNCHANGED log
    BY <1>9 DEF Commit, WorkerCrash, Disconnect, ReadAgain, Connect, ReadRow, ReadNothing,
                SendDeferred, Synthesize, vars
  <2>2. QED
    BY <2>1, Unlogged
<1>10. QED
  BY <1>1, <1>2, <1>3, <1>4, <1>5, <1>6, <1>7, <1>8, <1>9 DEF Next, Run, Serve

\* Where run and task go in a step.
LEMMA RunMoves ==
  ASSUME RunTyped, LogInv, [Next]_vars
  PROVE  /\ ended' \in {"not", "byRun", "elsewhere"} /\ (ended # "not" => ended' = ended)
         /\ worker' \in {"running", "committed", "answered", "finishing", "done", "dead"}
         /\ worker # "running" => worker' # "running"
         /\ worker' \in {"committed", "answered", "finishing", "done"} => HasEnded'
         /\ ended' = "byRun" => worker' # "running"
         /\ tracer' \in [Span -> {"new", "started", "ended"}]
         /\ \A s \in Span : tracer'[s] = "new" => tracer[s] = "new"
         /\ faults' \in Nat
<1> USE DEF RunTyped, LogInv, HasEnded
<1>1. CASE \E s \in Span : SpanStarts(s) \/ SpanEnds(s)
  BY <1>1 DEF SpanStarts, SpanEnds
<1>2. CASE Stream \/ CompleteAnswer \/ CompleteTask \/ Finish
  BY <1>2 DEF Stream, CompleteAnswer, CompleteTask, Finish
<1>3. CASE Commit
  BY <1>3 DEF Commit
<1>4. CASE WorkerCrash \/ EndElsewhere \/ Disconnect
  BY <1>4 DEF WorkerCrash, EndElsewhere, Disconnect, Fault
<1>5. CASE Serve \/ ReadAgain \/ UNCHANGED vars
  BY <1>5 DEF Serve, Connect, ReadRow, ReadNothing, RecoverBoundary, SendDeferred, Synthesize,
              ReadAgain, vars
<1>6. QED
  BY <1>1, <1>2, <1>3, <1>4, <1>5 DEF Next, Run

\* LogInv is inductive.
LEMMA LogStep == RunTyped /\ LogInv /\ [Next]_vars => RunTyped' /\ LogInv'
<1> SUFFICES ASSUME RunTyped, LogInv, [Next]_vars PROVE RunTyped' /\ LogInv'
  OBVIOUS
<1>1. Grown
  BY EveryStepGrows
<1>2. /\ log \in Seq(Events) /\ log' \in Seq(Events) /\ \A i \in DOMAIN log : log'[i] = log[i]
  BY <1>1 DEF Grown, RunTyped, Extends
<1>3. RunTyped'
  BY <1>2, RunMoves DEF RunTyped
<1>4. \A s \in Span : tracer'[s] = "new" => ~Logged(Started(s))' /\ ~Logged(Ended(s))'
  <2>1. SUFFICES ASSUME NEW s \in Span, tracer'[s] = "new", NEW i \in DOMAIN log',
                        log'[i] = Started(s) \/ log'[i] = Ended(s)
                 PROVE  FALSE
    BY DEF Logged, Started, Ended
  <2>2. tracer[s] = "new"
    BY <2>1, RunMoves
  <2>3. CASE i \in DOMAIN log
    BY <1>2, <2>1, <2>2, <2>3 DEF LogInv, Logged
  <2>4. CASE i \notin DOMAIN log
    BY <1>1, <2>1, <2>4, EventShapes DEF Grown
  <2>5. QED
    BY <2>3, <2>4
<1>5. \A i \in DOMAIN log' : log'[i].kind = "terminal" => HasEnded'
  BY <1>1, <1>2, RunMoves DEF Grown, LogInv, HasEnded
<1>6. Orderly(log')
  BY <1>1 DEF Grown
<1>7. QED
  BY <1>3, <1>4, <1>5, <1>6, RunMoves DEF LogInv

-----------------------------------------------------------------------------
(* The stream *)

StreamTyped ==
    /\ sse \in [pc : {"closed", "read", "drained"}, cursor : Nat, deferred : Nat, recovered : BOOLEAN]
    /\ sse.cursor <= Len(log) /\ sse.deferred <= sse.cursor
    /\ received \in Seq(1 .. Len(log))
    /\ told \in {"none", "event", "snapshot"}

(***************************************************************************)
(* The browser has been sent what the open response has read, in order; a  *)
(* terminal event it has read is put off until it is told, and that is the *)
(* last thing it is sent.                                                  *)
(***************************************************************************)
StreamInv ==
    /\ sse.pc # "closed" => told = "none" /\ LastEventId <= sse.cursor
    /\ sse.pc = "closed" => sse = Closed
    /\ sse.deferred # 0 => log[sse.deferred].kind = "terminal"
    /\ told = "none" => \A i \in DOMAIN received : log[received[i]].kind # "terminal"
    /\ ReceivedInOrder

\* What has been received has an id up to the last one, and is still there.
LEMMA LastIsGreatest ==
  ASSUME RunTyped, StreamTyped, \A i, j \in DOMAIN received : i < j => received[i] < received[j]
  PROVE  /\ LastEventId \in 0 .. Len(log)
         /\ \A i \in DOMAIN received : received[i] \in 1 .. LastEventId /\ received[i] \in DOMAIN log
<1>1. /\ Len(received) \in Nat /\ DOMAIN received = 1 .. Len(received) /\ Len(log) \in Nat
      /\ DOMAIN log = 1 .. Len(log)
      /\ \A i \in DOMAIN received : received[i] \in 1 .. Len(log)
      /\ received = <<>> <=> Len(received) = 0
  BY DEF StreamTyped, RunTyped
<1>2. CASE received = <<>>
  BY <1>1, <1>2 DEF LastEventId
<1>3. CASE received # <<>>
  <2>1. LastEventId = received[Len(received)] /\ Len(received) \in DOMAIN received
    BY <1>1, <1>3 DEF LastEventId
  <2>2. ASSUME NEW i \in DOMAIN received PROVE received[i] <= LastEventId
    BY <1>1, <2>1
  <2>3. QED
    BY <1>1, <2>1, <2>2
<1>4. QED
  BY <1>2, <1>3

\* What a step that sends nothing leaves as it is.
LEMMA NothingSent ==
  ASSUME RunTyped, StreamTyped, StreamInv, Grown, UNCHANGED <<received, told>>,
         \/ UNCHANGED sse
         \/ sse' = Closed
         \/ /\ sse.pc # "closed" /\ sse'.pc # "closed"
            /\ sse'.cursor = sse.cursor /\ sse'.deferred = sse.deferred
            /\ sse' \in [pc : {"closed", "read", "drained"}, cursor : Nat, deferred : Nat, recovered : BOOLEAN]
  PROVE  StreamTyped' /\ StreamInv'
<1>1. /\ Len(log') >= Len(log) /\ Len(log) \in Nat /\ Len(log') \in Nat
      /\ DOMAIN log = 1 .. Len(log) /\ DOMAIN log' = 1 .. Len(log')
      /\ \A i \in DOMAIN log : log'[i] = log[i]
  BY DEF Grown, Extends, RunTyped
<1>2. Closed = [pc |-> "closed", cursor |-> 0, deferred |-> 0, recovered |-> FALSE]
  BY DEF Closed
<1>3. /\ sse' \in [pc : {"closed", "read", "drained"}, cursor : Nat, deferred : Nat, recovered : BOOLEAN]
      /\ \/ sse'.cursor = sse.cursor /\ sse'.deferred = sse.deferred
         \/ sse'.cursor = 0 /\ sse'.deferred = 0
      /\ sse'.pc # "closed" => sse.pc # "closed" /\ sse'.cursor = sse.cursor
      /\ sse'.pc = "closed" => sse' = Closed
  <2>1. CASE UNCHANGED sse
    BY <2>1 DEF StreamTyped, StreamInv
  <2>2. CASE sse' = Closed
    BY <1>2, <2>2
  <2>3. CASE sse.pc # "closed" /\ sse'.pc # "closed"
    BY <2>3, <1>2 DEF StreamTyped
  <2>4. QED
    BY <2>1, <2>2, <2>3
<1>4. StreamTyped'
  <2>1. received' \in Seq(1 .. Len(log'))
    BY <1>1, SeqMonotonic DEF StreamTyped
  <2>2. QED
    BY <1>1, <1>3, <2>1 DEF StreamTyped
<1>5. /\ LastEventId \in 0 .. Len(log) /\ LastEventId' = LastEventId
      /\ \A i \in DOMAIN received : received[i] \in DOMAIN log
  BY LastIsGreatest DEF StreamInv, ReceivedInOrder, LastEventId
<1>6. ReceivedInOrder'
  <2>1. \A id \in DOMAIN log' : id <= sse'.cursor \/ id <= LastEventId =>
          id \in DOMAIN log /\ (id <= sse.cursor \/ id <= LastEventId)
    BY <1>1, <1>3, <1>5 DEF StreamTyped
  <2>2. QED
    BY <1>1, <1>5, <2>1 DEF StreamInv, ReceivedInOrder
<1>7. sse'.deferred # 0 => log'[sse'.deferred].kind = "terminal"
  BY <1>1, <1>3 DEF StreamInv, StreamTyped
<1>8. told' = "none" => \A i \in DOMAIN received' : log'[received'[i]].kind # "terminal"
  BY <1>1, <1>5 DEF StreamInv
<1>9. sse'.pc # "closed" => told' = "none" /\ LastEventId' <= sse'.cursor
  BY <1>3, <1>5 DEF StreamInv
<1>10. QED
  BY <1>3, <1>4, <1>6, <1>7, <1>8, <1>9 DEF StreamInv

\* A row that the browser is sent, or not.
LEMMA RowSent ==
  ASSUME RunTyped, StreamTyped, StreamInv, LogInv, ReadRow
  PROVE  StreamTyped' /\ StreamInv'
<1> DEFINE id == sse.cursor + 1
           kind == log[id].kind
<1>1. /\ Len(log) \in Nat /\ DOMAIN log = 1 .. Len(log) /\ sse.cursor \in Nat /\ id \in 1 .. Len(log)
      /\ log' = log /\ told' = told /\ told = "none" /\ sse.pc = "read"
  BY DEF ReadRow, StreamTyped, StreamInv, RunTyped
<1>2. /\ sse' \in [pc : {"closed", "read", "drained"}, cursor : Nat, deferred : Nat, recovered : BOOLEAN]
      /\ sse'.pc = "read" /\ sse'.cursor = id
      /\ sse'.deferred = IF kind = "terminal" THEN id ELSE sse.deferred
  <2>1. sse' = [sse EXCEPT !.cursor = id, !.deferred = IF kind = "terminal" THEN id ELSE sse.deferred]
    BY DEF ReadRow
  <2>2. sse \in [pc : {"closed", "read", "drained"}, cursor : Nat, deferred : Nat, recovered : BOOLEAN]
    BY DEF StreamTyped
  <2> HIDE DEF id, kind
  <2>3. id \in Nat
    BY <1>1
  <2>4. QED
    BY <1>1, <2>1, <2>2, <2>3
<1>3. /\ LastEventId \in 0 .. sse.cursor
      /\ \A i \in DOMAIN received : received[i] \in 1 .. LastEventId /\ received[i] \in DOMAIN log
  BY <1>1, LastIsGreatest DEF StreamInv, ReceivedInOrder, StreamTyped
<1>4. CASE kind \in {"reasoning", "terminal"}
  <2>1. received' = received /\ LastEventId' = LastEventId
    BY <1>1, <1>4 DEF ReadRow, LastEventId
  <2>2. StreamTyped'
    BY <1>1, <1>2, <2>1 DEF StreamTyped
  <2>3. ReceivedInOrder'
    <3>1. \A h \in DOMAIN log : h <= id => h <= sse.cursor \/ h = id
      BY <1>1
    <3>2. QED
      BY <1>1, <1>2, <1>3, <1>4, <2>1, <3>1 DEF StreamInv, ReceivedInOrder
  <2>4. QED
    BY <1>1, <1>2, <1>3, <2>1, <2>2, <2>3 DEF StreamInv
<1>5. CASE kind \notin {"reasoning", "terminal"}
  <2>1. received' = Append(received, id)
    BY <1>1, <1>5 DEF ReadRow
  <2>2. /\ received' \in Seq(1 .. Len(log)) /\ Len(received) \in Nat
        /\ DOMAIN received = 1 .. Len(received) /\ DOMAIN received' = 1 .. Len(received) + 1
        /\ Len(received') = Len(received) + 1
        /\ received'[Len(received) + 1] = id /\ \A i \in DOMAIN received : received'[i] = received[i]
        /\ received' # <<>>
    BY <1>1, <2>1 DEF StreamTyped
  <2>3. LastEventId' = id
    BY <2>2 DEF LastEventId
  <2>4. StreamTyped'
    BY <1>1, <1>2, <2>2 DEF StreamTyped
  <2>5. \A i, j \in DOMAIN received' : i < j => received'[i] < received'[j]
    <3>1. \A i \in DOMAIN received : received'[i] < id
      BY <1>1, <1>3, <2>2
    <3>2. QED
      BY <2>2, <3>1 DEF StreamInv, ReceivedInOrder
  <2>6. ReceivedInOrder'
    <3>1. SUFFICES ASSUME NEW h \in DOMAIN log, h <= id
                   PROVE  \/ log[h].kind \in {"reasoning", "terminal"}
                          \/ \E i \in DOMAIN received' : received'[i] = h
      BY <1>1, <1>2, <2>3, <2>5 DEF ReceivedInOrder
    <3>2. CASE h <= sse.cursor
      BY <1>1, <2>2, <3>1, <3>2 DEF StreamInv, ReceivedInOrder
    <3>3. CASE h = id
      BY <2>2, <3>3
    <3>4. QED
      BY <1>1, <3>1, <3>2, <3>3
  <2>7. \A i \in DOMAIN received' : log'[received'[i]].kind # "terminal"
    <3>1. \A i \in DOMAIN received : log'[received'[i]].kind # "terminal"
      BY <1>1, <2>2 DEF StreamInv
    <3>2. log'[received'[Len(received) + 1]].kind # "terminal"
      BY <1>1, <1>5, <2>2
    <3>3. QED
      BY <2>2, <3>1, <3>2
  <2>8. QED
    BY <1>1, <1>2, <1>5, <2>3, <2>4, <2>6, <2>7 DEF StreamInv
<1>6. QED
  BY <1>4, <1>5

\* A terminal event goes under its own id only where nothing came after it.
LEMMA TerminalSent ==
  ASSUME RunTyped, StreamTyped, StreamInv, LogInv, SendDeferred, sse.deferred = sse.cursor
  PROVE  StreamTyped' /\ StreamInv'
<1> DEFINE id == sse.cursor
<1>1. /\ Len(log) \in Nat /\ DOMAIN log = 1 .. Len(log) /\ id \in 1 .. Len(log)
      /\ log' = log /\ told = "none" /\ told' = "event" /\ log[id].kind = "terminal"
      /\ received' = Append(received, id) /\ sse' = Closed
  BY DEF SendDeferred, StreamTyped, StreamInv, RunTyped
<1>2. /\ Closed \in [pc : {"closed", "read", "drained"}, cursor : Nat, deferred : Nat, recovered : BOOLEAN]
      /\ Closed.pc = "closed" /\ Closed.cursor = 0 /\ Closed.deferred = 0
  BY DEF Closed
<1>3. /\ LastEventId \in 0 .. id
      /\ \A i \in DOMAIN received : received[i] \in 1 .. LastEventId /\ received[i] \in DOMAIN log
  BY <1>1, LastIsGreatest DEF StreamInv, ReceivedInOrder, SendDeferred
<1>4. /\ received' \in Seq(1 .. Len(log)) /\ Len(received) \in Nat
      /\ DOMAIN received = 1 .. Len(received) /\ DOMAIN received' = 1 .. Len(received) + 1
      /\ Len(received') = Len(received) + 1
      /\ received'[Len(received) + 1] = id /\ \A i \in DOMAIN received : received'[i] = received[i]
      /\ received' # <<>>
  BY <1>1 DEF StreamTyped
<1>5. LastEventId' = id
  BY <1>4 DEF LastEventId
<1>6. StreamTyped'
  BY <1>1, <1>2, <1>4 DEF StreamTyped
<1>7. \A i, j \in DOMAIN received' : i < j => received'[i] < received'[j]
  <2>1. \A i \in DOMAIN received : received[i] # id
    BY <1>1 DEF StreamInv
  <2>2. \A i \in DOMAIN received : received'[i] < id
    BY <1>1, <1>3, <1>4, <2>1
  <2>3. QED
    BY <1>4, <2>2 DEF StreamInv, ReceivedInOrder
<1>8. ReceivedInOrder'
  BY <1>1, <1>2, <1>4, <1>5, <1>7 DEF StreamInv, ReceivedInOrder
<1>9. QED
  BY <1>1, <1>2, <1>6, <1>8 DEF StreamInv

\* The end is told without an id.
LEMMA SnapshotSent ==
  ASSUME RunTyped, StreamTyped, StreamInv, sse.pc # "closed",
         told' = "snapshot", sse' = Closed, UNCHANGED <<received, log>>
  PROVE  StreamTyped' /\ StreamInv'
<1>1. /\ Closed \in [pc : {"closed", "read", "drained"}, cursor : Nat, deferred : Nat, recovered : BOOLEAN]
      /\ Closed.pc = "closed" /\ Closed.cursor = 0 /\ Closed.deferred = 0
  BY DEF Closed
<1>2. StreamTyped'
  BY <1>1 DEF StreamTyped, RunTyped
<1>3. ReceivedInOrder'
  <2>1. LastEventId' = LastEventId
    BY DEF LastEventId
  <2>2. \A id \in DOMAIN log : id <= 0 => FALSE
    BY DEF RunTyped
  <2>3. QED
    BY <1>1, <2>1, <2>2 DEF StreamInv, ReceivedInOrder
<1>4. QED
  BY <1>1, <1>2, <1>3 DEF StreamInv

\* StreamInv is inductive.
LEMMA StreamStep ==
  ASSUME RunTyped, LogInv, StreamTyped, StreamInv, [Next]_vars
  PROVE  StreamTyped' /\ StreamInv'
<1>1. Grown
  BY EveryStepGrows
<1>2. CASE \/ Run \/ WorkerCrash \/ EndElsewhere \/ UNCHANGED vars
  <2>1. UNCHANGED <<received, told, sse>>
    BY <1>2 DEF Run, WorkerCrash, EndElsewhere, vars, Stream, Commit, CompleteAnswer, CompleteTask,
                Finish, SpanStarts, SpanEnds
  <2>2. QED
    BY <1>1, <2>1, NothingSent
<1>3. CASE Disconnect
  BY <1>1, <1>3, NothingSent DEF Disconnect
<1>4. CASE ReadNothing \/ RecoverBoundary \/ ReadAgain
  BY <1>1, <1>4, NothingSent DEF ReadNothing, RecoverBoundary, ReadAgain, StreamTyped
<1>5. CASE Connect
  <2>1. /\ LastEventId \in 0 .. Len(log) /\ LastEventId' = LastEventId /\ told = "none"
        /\ sse' = [pc |-> "read", cursor |-> LastEventId, deferred |-> 0, recovered |-> FALSE]
        /\ UNCHANGED <<log, received, told>>
    BY <1>5, LastIsGreatest DEF Connect, StreamInv, ReceivedInOrder, LastEventId
  <2>2. StreamTyped'
    BY <2>1 DEF StreamTyped, RunTyped
  <2>3. ReceivedInOrder'
    BY <2>1 DEF StreamInv, ReceivedInOrder
  <2>4. QED
    BY <2>1, <2>2, <2>3 DEF StreamInv
<1>6. CASE ReadRow
  BY <1>6, RowSent
<1>7. CASE SendDeferred
  <2>1. CASE sse.deferred = sse.cursor
    BY <1>7, <2>1, TerminalSent
  <2>2. CASE sse.deferred # sse.cursor
    BY <1>7, <2>2, SnapshotSent DEF SendDeferred
  <2>3. QED
    BY <2>1, <2>2
<1>8. CASE Synthesize
  BY <1>8, SnapshotSent DEF Synthesize
<1>9. QED
  BY <1>2, <1>3, <1>4, <1>5, <1>6, <1>7, <1>8 DEF Next, Serve

-----------------------------------------------------------------------------
(* The end of the task *)

\* Of no span has the stream read the start alone.
NoneHalfRead ==
    \A s \in Span : \A i \in 1 .. sse.cursor : log[i] = Started(s) =>
        \E j \in 1 .. sse.cursor : log[j] = Ended(s)

(***************************************************************************)
(* The stream recovers the boundary once the task has ended.  Where its    *)
(* run ended it, no span is started after that: once the stream has read   *)
(* all there is, it has the ends of all it has the starts of.              *)
(***************************************************************************)
BoundaryInv ==
    /\ told # "none" \/ sse.recovered => HasEnded
    /\ sse.recovered /\ ended = "byRun" => NoneOpen(log)
    /\ sse.recovered /\ sse.pc = "drained" /\ ended = "byRun" => NoneHalfRead
    /\ told # "none" /\ ended = "byRun" => \A s \in Span : Received(Started(s)) => Received(Ended(s))

EventLogInv == RunTyped /\ LogInv /\ StreamTyped /\ StreamInv /\ BoundaryInv

\* Once the run has ended the task, no span is opened.
LEMMA NoneOpenStays ==
  ASSUME RunTyped, LogInv, [Next]_vars, ended = "byRun", NoneOpen(log)
  PROVE  NoneOpen(log')
<1>1. Grown /\ worker # "running"
  BY EveryStepGrows DEF LogInv
<1>2. \A i \in DOMAIN log' \ DOMAIN log : log'[i].kind # "started"
  BY <1>1 DEF Grown
<1>3. /\ log \in Seq(Events) /\ log' \in Seq(Events) /\ DOMAIN log \subseteq DOMAIN log'
      /\ \A i \in DOMAIN log : log'[i] = log[i]
  <2>1. log \in Seq(Events) /\ log' \in Seq(Events) /\ Extends(log', log)
    BY <1>1 DEF Grown, RunTyped
  <2>2. /\ DOMAIN log = 1 .. Len(log) /\ DOMAIN log' = 1 .. Len(log')
        /\ Len(log) \in Nat /\ Len(log') \in Nat
    BY <2>1
  <2>3. QED
    BY <2>1, <2>2 DEF Extends
<1>4. ASSUME NEW s \in Span, In(Started(s), log') PROVE In(Ended(s), log')
  <2>1. In(Started(s), log)
    BY <1>2, <1>4, EventShapes, <1>3 DEF In
  <2>2. In(Ended(s), log)
    BY <2>1 DEF NoneOpen
  <2>3. QED
    BY <1>3, <2>2 DEF In
<1>5. QED
  BY <1>4 DEF NoneOpen

\* The browser has all that the stream has read of the spans.
LEMMA EndsReceived ==
  ASSUME EventLogInv, sse.pc = "drained", sse.recovered, ended = "byRun"
  PROVE  \A s \in Span : Received(Started(s)) => Received(Ended(s))
<1>1. SUFFICES ASSUME NEW s \in Span, NEW i \in DOMAIN received, log[received[i]] = Started(s)
               PROVE  Received(Ended(s))
  BY DEF Received
<1>2. /\ received[i] \in 1 .. sse.cursor /\ sse.cursor \in Nat /\ sse.cursor <= Len(log)
      /\ Len(log) \in Nat /\ DOMAIN log = 1 .. Len(log)
  BY LastIsGreatest DEF EventLogInv, StreamInv, ReceivedInOrder, StreamTyped, RunTyped
<1>3. PICK j \in 1 .. sse.cursor : log[j] = Ended(s)
  BY <1>1, <1>2 DEF EventLogInv, BoundaryInv, NoneHalfRead
<1>4. j \in DOMAIN log /\ log[j].kind \notin {"reasoning", "terminal"}
  BY <1>2, <1>3, EventShapes
<1>5. PICK k \in DOMAIN received : received[k] = j
  BY <1>2, <1>3, <1>4 DEF EventLogInv, StreamInv, ReceivedInOrder
<1>6. QED
  BY <1>3, <1>5 DEF Received

\* BoundaryInv is inductive.
LEMMA BoundaryStep == EventLogInv /\ [Next]_vars => BoundaryInv'
<1> SUFFICES ASSUME RunTyped, LogInv, StreamTyped, StreamInv, BoundaryInv, EventLogInv, [Next]_vars
             PROVE  BoundaryInv'
  BY DEF EventLogInv
<1>1. Grown /\ (HasEnded => HasEnded' /\ ended' = ended)
  BY EveryStepGrows, RunMoves DEF HasEnded
<1>2. /\ log \in Seq(Events) /\ log' \in Seq(Events) /\ Len(log) \in Nat
      /\ DOMAIN log = 1 .. Len(log)
      /\ \A i \in DOMAIN log : log'[i] = log[i]
      /\ sse.cursor \in Nat /\ sse.cursor <= Len(log)
  BY <1>1 DEF Grown, Extends, RunTyped, StreamTyped
<1>3. \A i \in DOMAIN received : received[i] \in DOMAIN log
  BY LastIsGreatest DEF StreamInv, ReceivedInOrder
<1>4. UNCHANGED sse => (NoneHalfRead => NoneHalfRead')
  <2>1. \A i \in 1 .. sse.cursor : log'[i] = log[i]
    BY <1>2
  <2>2. QED
    BY <2>1 DEF NoneHalfRead, Started, Ended
<1>5. UNCHANGED received => \A s \in Span : /\ Received(Started(s))' = Received(Started(s))
                                            /\ Received(Ended(s))' = Received(Ended(s))
  BY <1>2, <1>3 DEF Received, Started, Ended
<1>6. HasEnded /\ ended = "byRun" /\ NoneOpen(log) => NoneOpen(log')
  BY NoneOpenStays
<1>7. CASE UNCHANGED <<sse, received, told>>
  BY <1>1, <1>4, <1>5, <1>6, <1>7 DEF BoundaryInv, HasEnded
<1>8. CASE Disconnect \/ Connect \/ ReadAgain \/ ReadRow
  <2>1. \/ sse'.recovered = FALSE
        \/ sse'.recovered = sse.recovered /\ sse'.pc = "read"
    <3>1. CASE Disconnect \/ Connect
      BY <3>1 DEF Disconnect, Connect, Closed
    <3>2. CASE ReadAgain
      BY <3>2 DEF ReadAgain, StreamTyped
    <3>3. CASE ReadRow
      <4>1. PICK c, d : sse' = [sse EXCEPT !.cursor = c, !.deferred = d] /\ sse.pc = "read"
        BY <3>3 DEF ReadRow
      <4>2. QED
        BY <4>1 DEF StreamTyped
    <3>4. QED
      BY <1>8, <3>1, <3>2, <3>3
  <2>2. told' = told /\ (told' # "none" => UNCHANGED received)
    BY <1>8 DEF Disconnect, Connect, ReadAgain, ReadRow, StreamInv
  <2>3. QED
    BY <1>1, <1>5, <1>6, <2>1, <2>2 DEF BoundaryInv, HasEnded
<1>9. CASE ReadNothing
  <2>1. /\ sse'.recovered = sse.recovered /\ sse'.cursor = sse.cursor /\ sse.cursor = Len(log)
        /\ UNCHANGED <<log, received, told, ended>>
    BY <1>9 DEF ReadNothing, StreamTyped
  <2>2. NoneOpen(log) => NoneHalfRead'
    BY <1>2, <2>1 DEF NoneOpen, NoneHalfRead, In, Started, Ended
  <2>3. QED
    BY <1>5, <2>1, <2>2 DEF BoundaryInv, HasEnded
<1>10. CASE RecoverBoundary
  <2>1. HasEnded
    <3>1. sse.deferred # 0 => sse.deferred \in DOMAIN log
      BY <1>2 DEF StreamTyped
    <3>2. QED
      BY <1>10, <3>1 DEF RecoverBoundary, StreamInv, LogInv
  <2>2. NoneOpen(log')
    BY <1>10, OpenSpansClosed DEF RecoverBoundary, RunTyped
  <2>3. sse'.pc = "read" /\ UNCHANGED <<received, told, ended>>
    BY <1>10 DEF RecoverBoundary, StreamTyped
  <2>4. QED
    BY <1>1, <1>5, <2>1, <2>2, <2>3 DEF BoundaryInv, HasEnded
<1>11. CASE SendDeferred \/ Synthesize
  <2>1. /\ sse.pc = "drained" /\ sse.recovered /\ sse'.recovered = FALSE
        /\ UNCHANGED <<log, ended>>
    BY <1>11 DEF SendDeferred, Synthesize, Closed
  <2>2. HasEnded'
    BY <1>1, <2>1 DEF BoundaryInv
  <2>3. ASSUME ended = "byRun", NEW s \in Span, Received(Started(s))' PROVE Received(Ended(s))'
    <3>1. Received(Started(s)) => Received(Ended(s))
      BY <2>1, <2>3, EndsReceived
    <3>2. CASE UNCHANGED received
      BY <1>5, <2>3, <3>1, <3>2
    <3>3. CASE received' = Append(received, sse.deferred) /\ sse.deferred # 0
      <4>1. sse.deferred \in DOMAIN log /\ log[sse.deferred].kind = "terminal"
        BY <1>2, <3>3 DEF StreamTyped, StreamInv
      <4>2. /\ DOMAIN received = 1 .. Len(received) /\ Len(received) \in Nat
            /\ DOMAIN received' = 1 .. Len(received) + 1
            /\ received'[Len(received) + 1] = sse.deferred
            /\ \A i \in DOMAIN received : received'[i] = received[i]
        BY <3>3 DEF StreamTyped
      <4>3. Received(Started(s))
        <5>1. PICK i \in DOMAIN received' : log[received'[i]] = Started(s)
          BY <2>1, <2>3 DEF Received, Started
        <5>2. log[received'[i]].kind = "started"
          BY <5>1, EventShapes
        <5>3. i \in DOMAIN received
          BY <4>1, <4>2, <5>2
        <5>4. QED
          BY <4>2, <5>1, <5>3 DEF Received
      <4>4. PICK j \in DOMAIN received : log[received[j]] = Ended(s)
        BY <3>1, <4>3 DEF Received
      <4>5. j \in DOMAIN received' /\ log'[received'[j]] = Ended(s)
        BY <2>1, <4>2, <4>4
      <4>6. QED
        BY <4>5 DEF Received, Ended
    <3>4. QED
      BY <1>11, <3>2, <3>3 DEF SendDeferred, Synthesize
  <2>4. QED
    BY <2>1, <2>2, <2>3 DEF BoundaryInv
<1>12. Run \/ WorkerCrash \/ EndElsewhere \/ UNCHANGED vars => UNCHANGED <<sse, received, told>>
  BY DEF Run, WorkerCrash, EndElsewhere, vars, Stream, Commit, CompleteAnswer, CompleteTask,
         Finish, SpanStarts, SpanEnds
<1>13. QED
  BY <1>7, <1>8, <1>9, <1>10, <1>11, <1>12 DEF Next, Serve

-----------------------------------------------------------------------------
\* The inductive invariant of EventLog.
LEMMA EventLogInvariant == Spec => []EventLogInv
<1>1. Init => EventLogInv
  <2> SUFFICES ASSUME Init PROVE EventLogInv
    OBVIOUS
  <2> USE DEF Init
  <2>1. log = <<>> /\ received = <<>> /\ DOMAIN log = {} /\ DOMAIN received = {} /\ Len(log) = 0
    BY DEF Init
  <2>2. RunTyped /\ StreamTyped
    BY <2>1 DEF RunTyped, StreamTyped, Closed
  <2>3. LogInv
    BY <2>1 DEF LogInv, Orderly, SpanEventsOnce, StartsComeFirst, EndedBeforeTerminal, Logged
  <2>4. StreamInv
    BY <2>1 DEF StreamInv, ReceivedInOrder, Closed
  <2>5. BoundaryInv
    BY <2>1 DEF BoundaryInv, Closed, HasEnded
  <2>6. QED
    BY <2>2, <2>3, <2>4, <2>5 DEF EventLogInv
<1>2. EventLogInv /\ [Next]_vars => EventLogInv'
  BY LogStep, StreamStep, BoundaryStep DEF EventLogInv
<1>3. QED
  BY <1>1, <1>2, PTL DEF Spec

(***************************************************************************)
(* Every event is of a known form, and neither the stream nor the browser  *)
(* has an id that the log lacks (EventService.publish, task_events).       *)
(***************************************************************************)
THEOREM EventsAreTyped == Spec => []TypeOK
<1>1. EventLogInv => TypeOK
  <2> SUFFICES ASSUME EventLogInv PROVE TypeOK
    OBVIOUS
  <2>1. sse.cursor \in 0 .. Len(log) /\ sse.deferred \in 0 .. Len(log) /\ Len(log) \in Nat
    BY DEF EventLogInv, StreamTyped, RunTyped
  <2>2. QED
    BY <2>1 DEF EventLogInv, RunTyped, StreamTyped, TypeOK
<1>2. QED
  BY <1>1, EventLogInvariant, PTL

(***************************************************************************)
(* Over all its connections the browser's ids only grow, and below the     *)
(* cursor and Last-Event-ID it misses nothing but what is withheld         *)
(* (task_events).                                                          *)
(***************************************************************************)
THEOREM NothingIsLost == Spec => []ReceivedInOrder
<1>1. EventLogInv => ReceivedInOrder
  BY DEF EventLogInv, StreamInv
<1>2. QED
  BY <1>1, EventLogInvariant, PTL

(***************************************************************************)
(* A span ends once in the log and before the task's terminal event, and a *)
(* browser that was told the end by the run has the end of every span it   *)
(* saw start (EventService.publish, _close_open_spans_locked,              *)
(* task_events).                                                           *)
(***************************************************************************)
THEOREM EverySpanEnds == Spec => []SpansEnd
<1>1. EventLogInv => SpansEnd
  <2> SUFFICES ASSUME EventLogInv PROVE SpansEnd
    OBVIOUS
  <2>1. SpanEventsOnce(log) /\ EndedBeforeTerminal(log)
    BY DEF EventLogInv, LogInv, Orderly
  <2>2. \A i, j \in DOMAIN log : log[i] = log[j] /\ log[i].kind = "ended" => i = j
    BY <2>1 DEF SpanEventsOnce, SpanKinds
  <2>3. told # "none" /\ ended # "elsewhere" =>
          \A s \in Span : Received(Started(s)) => Received(Ended(s))
    BY DEF EventLogInv, BoundaryInv, RunTyped, HasEnded
  <2>4. QED
    BY <2>1, <2>2, <2>3 DEF SpansEnd, EndedBeforeTerminal
<1>2. QED
  BY <1>1, EventLogInvariant, PTL
=============================================================================
