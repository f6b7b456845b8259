---------------------------- MODULE RouterProofs ----------------------------
(***************************************************************************)
(* Theorems about Router, for every policy, request, registry and report,  *)
(* and every log that Attempts, reports and decisions come to.             *)
(*                                                                         *)
(* What the log says of a candidate is a fold over its events.  Facts      *)
(* about it are proved by the least length at which they would fail.       *)
(***************************************************************************)
EXTENDS Router, FiniteSetTheorems, TLAPS

----------------------------------------------------------------------------
\* Sequences of whatever they hold, and numbers.

IsSequence(s) == s \in Seq({s[n] : n \in DOMAIN s})

\* A non-empty set of numbers has a least one.
LEMMA LeastNumber ==
    ASSUME NEW T, T \subseteq Nat, T # {}
    PROVE  \E x \in T : \A y \in T : x <= y
<1>1. \E R : IsWellFoundedOn(R, Nat) /\ \A x, y \in Nat : <<y, x>> \in R <=> y < x
  <2> DEFINE R == OpToRel(<, Nat)
  <2>1. IsWellFoundedOn(R, Nat)
    BY NatLessThanWellFounded
  <2>2. \A x, y \in Nat : <<y, x>> \in R <=> y < x
    BY DEF OpToRel
  <2> HIDE DEF R
  <2> QED
    BY <2>1, <2>2
<1>2. PICK R : IsWellFoundedOn(R, Nat) /\ \A x, y \in Nat : <<y, x>> \in R <=> y < x
  BY <1>1
<1>3. PICK x \in T : \A y \in T : ~ (<<y, x>> \in R)
  BY <1>2, WFMin
<1>4. ASSUME NEW y \in T PROVE x <= y
  <2>1. x \in Nat /\ y \in Nat /\ <<y, x>> \notin R
    BY <1>3
  <2>2. ~ (y < x)
    BY <2>1, <1>2
  <2> QED
    BY <2>1, <2>2
<1> QED
  BY <1>4

\* What is appended to a sequence.
LEMMA Appending ==
    ASSUME NEW s, NEW e, IsSequence(s)
    PROVE  /\ Len(s) \in Nat /\ DOMAIN s = 1..Len(s)
           /\ IsSequence(Append(s, e))
           /\ Len(Append(s, e)) = Len(s) + 1 /\ DOMAIN Append(s, e) = 1..(Len(s) + 1)
           /\ \A n \in 1..Len(s) : Append(s, e)[n] = s[n]
           /\ Append(s, e)[Len(s) + 1] = e
<1> DEFINE S == {s[n] : n \in DOMAIN s}
           t == Append(s, e)
<1>1. s \in Seq(S)
  BY DEF IsSequence
<1>2. s \in Seq(S \cup {e}) /\ e \in S \cup {e}
  <2>1. Len(s) \in Nat /\ DOMAIN s = 1..Len(s) /\ \A n \in 1..Len(s) : s[n] \in S \cup {e}
    BY <1>1
  <2> HIDE DEF S
  <2> QED
    BY <1>1, <2>1
<1> HIDE DEF S
<1>3. /\ Len(s) \in Nat /\ DOMAIN s = 1..Len(s)
      /\ t \in Seq(S \cup {e})
      /\ Len(t) = Len(s) + 1 /\ DOMAIN t = 1..(Len(s) + 1)
      /\ \A n \in 1..Len(s) : t[n] = s[n]
      /\ t[Len(s) + 1] = e
  BY <1>2
<1> HIDE DEF t
<1>4. t \in Seq({t[n] : n \in DOMAIN t})
  <2> DEFINE T == {t[n] : n \in DOMAIN t}
  <2>1. \A n \in 1..Len(t) : t[n] \in T
    BY <1>3
  <2> HIDE DEF T
  <2> QED
    BY <1>3, <2>1 DEF T
<1> QED
  BY <1>3, <1>4 DEF IsSequence, t

\* The first n of a sequence, and the one after them.
LEMMA FirstEvents ==
    ASSUME NEW s, NEW n \in 0..Len(s), IsSequence(s)
    PROVE  /\ IsSequence(SubSeq(s, 1, n)) /\ Len(SubSeq(s, 1, n)) = n
           /\ \A k \in 1..n : SubSeq(s, 1, n)[k] = s[k]
           /\ n = Len(s) => SubSeq(s, 1, n) = s
           /\ n < Len(s) => SubSeq(s, 1, n + 1) = Append(SubSeq(s, 1, n), s[n + 1])
<1> DEFINE S == {s[k] : k \in DOMAIN s}
           t == SubSeq(s, 1, n)
<1>1. s \in Seq(S)
  BY DEF IsSequence
<1> HIDE DEF S
<1>2. /\ Len(s) \in Nat /\ DOMAIN s = 1..Len(s)
      /\ t \in Seq(S) /\ Len(t) = n /\ DOMAIN t = 1..n /\ \A k \in 1..n : t[k] = s[k]
  BY <1>1
<1>3. n = Len(s) => t = s
  BY <1>1
<1>4. n < Len(s) => SubSeq(s, 1, n + 1) = Append(t, s[n + 1])
  BY <1>1
<1> HIDE DEF t
<1>5. IsSequence(t)
  <2> DEFINE T == {t[k] : k \in DOMAIN t}
  <2>1. \A k \in 1..Len(t) : t[k] \in T
    BY <1>2
  <2> HIDE DEF T
  <2> QED
    BY <1>2, <2>1 DEF T, IsSequence
<1> QED
  BY <1>2, <1>3, <1>4, <1>5 DEF t

\* The first n of a sequence are the first n of what is appended to it.
LEMMA PrefixKept ==
    ASSUME NEW s, NEW e, NEW n \in 0..Len(s), IsSequence(s)
    PROVE  SubSeq(Append(s, e), 1, n) = SubSeq(s, 1, n)
<1> DEFINE S == {s[k] : k \in DOMAIN s} \cup {e}
           t == SubSeq(s, 1, n)
           u == SubSeq(Append(s, e), 1, n)
<1>1. Len(s) \in Nat /\ IsSequence(Append(s, e)) /\ n \in 0..Len(Append(s, e))
  BY Appending
<1>2. IsSequence(t) /\ Len(t) = n /\ \A k \in 1..n : t[k] = s[k]
  BY FirstEvents
<1>3. IsSequence(u) /\ Len(u) = n /\ \A k \in 1..n : u[k] = Append(s, e)[k]
  BY <1>1, FirstEvents
<1>4. \A k \in 1..n : Append(s, e)[k] = s[k]
  BY <1>1, Appending
<1> HIDE DEF t, u
<1>5. DOMAIN t = 1..n /\ DOMAIN u = 1..n /\ t = [k \in 1..n |-> t[k]] /\ u = [k \in 1..n |-> u[k]]
  <2>1. /\ t \in Seq({t[k] : k \in DOMAIN t})
        /\ u \in Seq({u[k] : k \in DOMAIN u})
    BY <1>2, <1>3 DEF IsSequence
  <2> QED
    BY <2>1, <1>2, <1>3
<1> QED
  BY <1>2, <1>3, <1>4, <1>5 DEF t, u

----------------------------------------------------------------------------
\* The fold over the events.

\* f gives what is known of candidate c after each of the first N events of s.
Folds(f, s, N, c) ==
    f = [n \in 0..N |-> IF n = 0 THEN NothingKnown ELSE Observe(f[n - 1], s[n], c)]

LEMMA FoldStep ==
    ASSUME NEW s, NEW c, NEW N \in Nat, NEW f, Folds(f, s, N, c)
    PROVE  \E g : Folds(g, s, N + 1, c)
<1> DEFINE g == [n \in 0..(N + 1) |-> IF n <= N THEN f[n] ELSE Observe(f[N], s[N + 1], c)]
           h == [n \in 0..(N + 1) |->
                    IF n = 0 THEN NothingKnown ELSE Observe(g[n - 1], s[n], c)]
<1>1. f = [n \in 0..N |-> IF n = 0 THEN NothingKnown ELSE Observe(f[n - 1], s[n], c)]
  BY DEF Folds
<1>2. \A n \in 0..N : g[n] = f[n]
  OBVIOUS
<1>3. g[N + 1] = Observe(f[N], s[N + 1], c)
  OBVIOUS
<1>4. DOMAIN g = 0..(N + 1) /\ g = [n \in 0..(N + 1) |-> g[n]]
  OBVIOUS
<1> HIDE DEF g
<1>5. \A n \in 0..(N + 1) :
        h[n] = IF n = 0 THEN NothingKnown ELSE Observe(g[n - 1], s[n], c)
  OBVIOUS
<1>6. DOMAIN h = 0..(N + 1) /\ h = [n \in 0..(N + 1) |-> h[n]]
  OBVIOUS
<1> HIDE DEF h
<1>7. ASSUME NEW n \in 0..(N + 1) PROVE g[n] = h[n]
  <2>1. CASE n = N + 1
    <3>1. g[N] = f[N] /\ n - 1 = N /\ n # 0
      BY <1>2, <2>1
    <3> QED
      BY <3>1, <1>3, <1>5, <2>1
  <2>2. CASE n # N + 1
    <3>1. n \in 0..N /\ (n # 0 => n - 1 \in 0..N)
      BY <2>2
    <3>2. f[n] = IF n = 0 THEN NothingKnown ELSE Observe(f[n - 1], s[n], c)
      BY <3>1, <1>1
    <3> QED
      BY <3>1, <3>2, <1>2, <1>5
  <2> QED
    BY <2>1, <2>2
<1>8. g = h
  BY <1>4, <1>6, <1>7
<1>9. Folds(g, s, N + 1, c)
  BY <1>8 DEF Folds, h
<1> QED
  BY <1>9

LEMMA FoldExists ==
    ASSUME NEW s, NEW c, NEW N \in Nat
    PROVE  \E f : Folds(f, s, N, c)
<1> DEFINE T == {n \in Nat : ~ \E f : Folds(f, s, n, c)}
<1> SUFFICES ASSUME T # {} PROVE FALSE
  OBVIOUS
<1>1. PICK n \in T : \A m \in T : n <= m
  BY LeastNumber
<1>2. n # 0
  <2> DEFINE f == [k \in 0..0 |-> NothingKnown]
  <2>1. f = [k \in 0..0 |-> IF k = 0 THEN NothingKnown ELSE Observe(f[k - 1], s[k], c)]
    OBVIOUS
  <2>2. Folds(f, s, 0, c)
    BY <2>1 DEF Folds
  <2> QED
    BY <2>2
<1>3. n - 1 \in Nat /\ n - 1 \notin T
  BY <1>1, <1>2
<1>4. PICK f : Folds(f, s, n - 1, c)
  BY <1>3
<1>5. \E g : Folds(g, s, (n - 1) + 1, c)
  BY <1>3, <1>4, FoldStep
<1> QED
  BY <1>1, <1>5

\* Folds over sequences that begin alike begin alike.
LEMMA FoldsBeginAlike ==
    ASSUME NEW s, NEW t, NEW c, NEW N \in Nat, NEW M \in Nat, NEW f, NEW g,
           N <= M, \A n \in 1..N : s[n] = t[n], Folds(f, s, N, c), Folds(g, t, M, c)
    PROVE  \A n \in 0..N : f[n] = g[n]
<1>1. ASSUME NEW n \in 0..N
      PROVE  f[n] = IF n = 0 THEN NothingKnown ELSE Observe(f[n - 1], s[n], c)
  <2>1. f = [k \in 0..N |-> IF k = 0 THEN NothingKnown ELSE Observe(f[k - 1], s[k], c)]
    BY DEF Folds
  <2> QED
    BY <2>1
<1>2. ASSUME NEW n \in 0..M
      PROVE  g[n] = IF n = 0 THEN NothingKnown ELSE Observe(g[n - 1], t[n], c)
  <2>1. g = [k \in 0..M |-> IF k = 0 THEN NothingKnown ELSE Observe(g[k - 1], t[k], c)]
    BY DEF Folds
  <2> QED
    BY <2>1
<1> DEFINE T == {n \in 0..N : f[n] # g[n]}
<1> SUFFICES ASSUME T # {} PROVE FALSE
  OBVIOUS
<1>0. T \subseteq Nat
  OBVIOUS
<1>3. PICK n \in T : \A m \in T : n <= m
  <2> HIDE DEF T
  <2> QED
    BY <1>0, LeastNumber
<1>4. n \in 0..N /\ n \in 0..M
  OBVIOUS
<1>5. n # 0
  BY <1>1, <1>2, <1>4
<1>6. n - 1 \in 0..N /\ n - 1 \notin T /\ n \in 1..N
  BY <1>3, <1>4, <1>5
<1>7. f[n - 1] = g[n - 1] /\ s[n] = t[n]
  BY <1>6
<1>8. f[n] = Observe(f[n - 1], s[n], c) /\ g[n] = Observe(g[n - 1], t[n], c)
  BY <1>1, <1>2, <1>4, <1>5
<1> QED
  BY <1>7, <1>8

LEMMA FoldIs ==
    ASSUME NEW s, NEW c, Len(s) \in Nat
    PROVE  \E f : Folds(f, s, Len(s), c) /\ FromEvents(c, s) = f[Len(s)]
<1>0. \E f : Folds(f, s, Len(s), c)
  BY FoldExists
<1>1. \E f : f = [n \in 0..Len(s) |->
                    IF n = 0 THEN NothingKnown ELSE Observe(f[n - 1], s[n], c)]
  BY <1>0 DEF Folds
<1>2. \E f : /\ f = [n \in 0..Len(s) |->
                        IF n = 0 THEN NothingKnown ELSE Observe(f[n - 1], s[n], c)]
             /\ FromEvents(c, s) = f[Len(s)]
  BY <1>1 DEF FromEvents
<1> QED
  BY <1>2 DEF Folds

\* What is known after no event, and after one more.
LEMMA Known ==
    ASSUME NEW s, NEW e, NEW c, IsSequence(s)
    PROVE  /\ Len(s) = 0 => FromEvents(c, s) = NothingKnown
           /\ FromEvents(c, Append(s, e)) = Observe(FromEvents(c, s), e, c)
<1> DEFINE t == Append(s, e)
           N == Len(s)
<1>1. /\ N \in Nat /\ Len(t) = N + 1
      /\ \A n \in 1..N : s[n] = t[n]
      /\ t[N + 1] = e
  BY Appending
<1> HIDE DEF t, N
<1>2. PICK f : Folds(f, s, N, c) /\ FromEvents(c, s) = f[N]
  BY <1>1, FoldIs DEF N
<1>3. PICK g : Folds(g, t, N + 1, c) /\ FromEvents(c, t) = g[N + 1]
  BY <1>1, FoldIs
<1>4. \A n \in 0..N : f[n] = g[n]
  <2>1. N + 1 \in Nat /\ N <= N + 1
    BY <1>1
  <2>2. Folds(f, s, N, c) /\ Folds(g, t, N + 1, c)
    BY <1>2, <1>3
  <2> QED
    BY <1>1, <2>1, <2>2, FoldsBeginAlike
<1>5. N = 0 => f[N] = NothingKnown
  BY <1>2 DEF Folds
<1>6. g[N + 1] = Observe(g[N], t[N + 1], c)
  <2>1. g = [n \in 0..(N + 1) |-> IF n = 0 THEN NothingKnown ELSE Observe(g[n - 1], t[n], c)]
    BY <1>3 DEF Folds
  <2>2. N + 1 \in 0..(N + 1) /\ N + 1 # 0 /\ (N + 1) - 1 = N
    BY <1>1
  <2> QED
    BY <2>1, <2>2
<1>7. f[N] = g[N]
  BY <1>1, <1>4
<1> QED
  BY <1>1, <1>2, <1>3, <1>5, <1>6, <1>7 DEF t, N

----------------------------------------------------------------------------
\* The events of the log, and what is known of a candidate.

\* A report, the start or the end of an Attempt, or a decision.
Event(e) ==
    \/ e \in Reports
    \/ \E a \in Attempts, c \in Candidates : e = Started(a, c)
    \/ e \in [type : Ends, attempt : Attempts, duration : Durations]
    \/ e.type = "route_decided"

Starting(e) == e.type = "attempt_started"
Ending(e)   == e.type \in Ends

\* What a decision says was decided by the engine, on the events before it; a dispatch
\* selects another candidate.
DecidedOn(s, n) ==
    \E request \in Requests, now \in Times :
        LET d == s[n].decision
        IN  /\ s[n].homes \in Registries
            /\ d.request = request /\ d.now = now /\ d.observed = n - 1
            /\ d.candidates = Evaluate(Drafts(request, SubSeq(s, 1, n - 1), s[n].homes, now),
                                       request, n - 1, now).candidates
            /\ d.selected \in Candidates \cup {None}

\* An Attempt starts once, and ends only after that.
Lawful(s) ==
    /\ IsSequence(s)
    /\ \A n \in DOMAIN s : Event(s[n])
    /\ \A n, m \in DOMAIN s :
        Starting(s[n]) /\ Starting(s[m]) /\ s[n].attempt = s[m].attempt => n = m
    /\ \A n \in DOMAIN s : Ending(s[n]) =>
        \E m \in DOMAIN s : m < n /\ Starting(s[m]) /\ s[m].attempt = s[n].attempt
    /\ \A n \in DOMAIN s : s[n].type = "route_decided" => DecidedOn(s, n)

RouterInv ==
    /\ Lawful(log) /\ Len(log) <= MaxEvents
    /\ registry \in Registries
    /\ seen \in [Callers -> Registries \cup {None}]
    /\ DecisionsAreRecordable

\* CandidateRuntime.
Runtimes ==
    [starts : SUBSET Attempts, terminals : SUBSET Attempts, successes : Nat, duration : Nat,
     health : Stamped(HealthValues) \cup {None}, quota : Stamped(0..Whole) \cup {None},
     auth : Stamped(BOOLEAN) \cup {None}, limit : Stamped(Nat \cup {None}) \cup {None}]

RuntimeInv(r) ==
    /\ r \in Runtimes
    /\ IsFiniteSet(r.starts) /\ r.terminals \subseteq r.starts
    /\ r.successes <= Cardinality(r.terminals)

\* What is known after the first n events of the log.
After(c, n) == FromEvents(c, SubSeq(log, 1, n))

LEMMA LatestTyped ==
    ASSUME NEW Values, NEW cur \in Stamped(Values) \cup {None}, NEW ts \in Nat,
           NEW v \in Values
    PROVE  Latest(cur, ts, v) \in Stamped(Values)
<1>1. CASE cur = None
  BY <1>1 DEF Latest, Stamped
<1>2. CASE cur \in Stamped(Values)
  BY <1>2 DEF Latest, Stamped
<1> QED
  BY <1>1, <1>2

\* The kinds of events have types of their own.
LEMMA EventTypes ==
    ASSUME NEW e, Event(e)
    PROVE  /\ e.type \in HealthTypes => e \in Reports
           /\ Starting(e) => e.attempt \in Attempts
           /\ Ending(e) => e.attempt \in Attempts /\ e.duration \in Nat
           /\ e \in Reports => e.type \in HealthTypes
<1>1. CASE e \in Reports
  BY <1>1, TypesAssumption DEF HealthTypes, Ends, Starting, Ending
<1>2. CASE \E a \in Attempts, c \in Candidates : e = Started(a, c)
  BY SMTT(20), <1>2, TypesAssumption DEF HealthTypes, Ends, Started, Starting, Ending
<1>3. CASE e \in [type : Ends, attempt : Attempts, duration : Durations]
  BY <1>3, TypesAssumption DEF HealthTypes, Ends, Starting, Ending
<1>4. CASE e.type = "route_decided"
  BY <1>4, TypesAssumption DEF HealthTypes, Ends, Starting, Ending
<1> QED
  BY <1>1, <1>2, <1>3, <1>4 DEF Event

LEMMA ReportTypes ==
    ASSUME NEW e \in Reports
    PROVE  /\ e.ts \in Nat
           /\ [status |-> e.status, reachable |-> e.reachable, auth |-> e.auth] \in HealthValues
           /\ e.quota \in 0..Whole \cup {None}
           /\ AuthReported(e) \in BOOLEAN \cup {None}
           /\ e.reset \in Nat \cup {None}
<1>1. /\ e.ts \in Nat /\ e.reachable \in BOOLEAN /\ e.quota \in 0..Whole \cup {None}
      /\ e.auth \in BOOLEAN \cup {None} /\ e.reset \in Nat \cup {None}
  BY TypesAssumption
<1>2. e.status \in {x.status : x \in Reports}
  OBVIOUS
<1>3. AuthReported(e) \in BOOLEAN \cup {None}
  BY <1>1 DEF AuthReported
<1> QED
  BY <1>1, <1>2, <1>3 DEF HealthValues

LEMMA ObserveTyped ==
    ASSUME NEW r, NEW e, NEW c, RuntimeInv(r), Event(e)
    PROVE  RuntimeInv(Observe(r, e, c))
<1> DEFINE o == Observe(r, e, c)
<1>0. /\ r \in Runtimes /\ IsFiniteSet(r.starts) /\ r.terminals \subseteq r.starts
      /\ r.successes <= Cardinality(r.terminals)
  BY DEF RuntimeInv
<1>1. CASE o = r
  BY <1>1
<1>2. CASE Starting(e) /\ o # r
  <2>1. o = [r EXCEPT !.starts = @ \cup {e.attempt}]
    BY <1>2 DEF Observe, Starting, Ends, HealthTypes
  <2>2. e.attempt \in Attempts
    BY <1>2, EventTypes
  <2>3. /\ o \in Runtimes /\ o.starts = r.starts \cup {e.attempt}
        /\ o.terminals = r.terminals /\ o.successes = r.successes
    BY <1>0, <2>1, <2>2 DEF Runtimes
  <2>4. IsFiniteSet(o.starts)
    BY <1>0, <2>3, FS_AddElement
  <2> QED
    BY <1>0, <2>3, <2>4 DEF RuntimeInv
<1>3. CASE Ending(e) /\ o # r
  <2>1. /\ e.attempt \in r.starts \ r.terminals
        /\ o = [r EXCEPT !.terminals = @ \cup {e.attempt},
                         !.successes = @ + IF e.type = "attempt_completed" THEN 1 ELSE 0,
                         !.duration  = @ + e.duration]
    BY <1>3 DEF Observe, Ending, Ends, HealthTypes
  <2>2. e.duration \in Nat
    BY <1>3, EventTypes
  <2>3. /\ o \in Runtimes /\ o.starts = r.starts
        /\ o.terminals = r.terminals \cup {e.attempt}
        /\ o.successes \in Nat /\ r.successes \in Nat /\ o.successes <= r.successes + 1
    <3> DEFINE k == IF e.type = "attempt_completed" THEN 1 ELSE 0
    <3>1. k \in Nat /\ k <= 1
      OBVIOUS
    <3>2. o = [r EXCEPT !.terminals = @ \cup {e.attempt}, !.successes = @ + k,
                        !.duration  = @ + e.duration]
      BY <2>1
    <3>3. /\ r.successes \in Nat /\ r.duration \in Nat /\ r.terminals \cup {e.attempt} \in SUBSET Attempts
          /\ r.successes + k \in Nat /\ r.duration + e.duration \in Nat
          /\ r.successes + k <= r.successes + 1
      <4> HIDE DEF k
      <4> QED
        BY <1>0, <2>1, <2>2, <3>1 DEF Runtimes
    <3> HIDE DEF o, k
    <3>4. r \in Runtimes
      BY <1>0
    <3> QED
      BY <3>2, <3>3, <3>4 DEF Runtimes
  <2>4. IsFiniteSet(r.terminals)
    BY <1>0, FS_Subset
  <2>5. Cardinality(o.terminals) = Cardinality(r.terminals) + 1 /\ Cardinality(r.terminals) \in Nat
    BY <2>1, <2>3, <2>4, FS_AddElement, FS_CardinalityType
  <2> HIDE DEF o
  <2>6. o.successes <= Cardinality(o.terminals)
    BY <1>0, <2>3, <2>5
  <2> QED
    BY <1>0, <2>1, <2>3, <2>6 DEF RuntimeInv, o
<1>4. CASE e.type \in HealthTypes /\ o # r
  <2>0. e \in Reports
    BY <1>4, EventTypes
  <2> DEFINE h  == [status |-> e.status, reachable |-> e.reachable, auth |-> e.auth]
             nh == Latest(r.health, e.ts, h)
             nq == IF e.quota = None THEN r.quota ELSE Latest(r.quota, e.ts, e.quota)
             na == IF AuthReported(e) = None THEN r.auth ELSE Latest(r.auth, e.ts, AuthReported(e))
             nl == IF e.type = "rate_limited" THEN Latest(r.limit, e.ts, e.reset) ELSE r.limit
  <2>1. o = [r EXCEPT !.health = nh, !.quota = nq, !.auth = na, !.limit = nl]
    BY <1>4 DEF Observe, HealthTypes, Ends
  <2>2. /\ e.ts \in Nat /\ h \in HealthValues /\ e.quota \in 0..Whole \cup {None}
        /\ AuthReported(e) \in BOOLEAN \cup {None} /\ e.reset \in Nat \cup {None}
    BY <2>0, ReportTypes
  <2>3. /\ r.health \in Stamped(HealthValues) \cup {None}
        /\ r.quota \in Stamped(0..Whole) \cup {None}
        /\ r.auth \in Stamped(BOOLEAN) \cup {None}
        /\ r.limit \in Stamped(Nat \cup {None}) \cup {None}
    BY <1>0 DEF Runtimes
  <2> HIDE DEF h
  <2>4. nh \in Stamped(HealthValues)
    BY <2>2, <2>3, LatestTyped
  <2>5. nq \in Stamped(0..Whole) \cup {None}
    BY <2>2, <2>3, LatestTyped
  <2>6. na \in Stamped(BOOLEAN) \cup {None}
    BY <2>2, <2>3, LatestTyped
  <2>7. nl \in Stamped(Nat \cup {None}) \cup {None}
    BY <2>2, <2>3, LatestTyped
  <2> HIDE DEF nh, nq, na, nl
  <2>8. /\ o \in Runtimes /\ o.starts = r.starts
        /\ o.terminals = r.terminals /\ o.successes = r.successes
    BY <1>0, <2>1, <2>4, <2>5, <2>6, <2>7 DEF Runtimes
  <2> QED
    BY <1>0, <2>8 DEF RuntimeInv
<1>5. CASE ~Starting(e) /\ ~Ending(e) /\ e.type \notin HealthTypes
  <2>1. o = r
    BY <1>5 DEF Observe, Starting, Ending
  <2> QED
    BY <2>1
<1> QED
  BY <1>1, <1>2, <1>3, <1>4, <1>5

\* What is known after n events, and after one more.
LEMMA AfterIs ==
    ASSUME NEW c, IsSequence(log)
    PROVE  /\ Len(log) \in Nat /\ DOMAIN log = 1..Len(log)
           /\ After(c, 0) = NothingKnown
           /\ \A n \in 0..Len(log) :
                n < Len(log) => After(c, n + 1) = Observe(After(c, n), log[n + 1], c)
<1>1. Len(log) \in Nat /\ DOMAIN log = 1..Len(log)
  BY Appending
<1>2. After(c, 0) = NothingKnown
  <2>1. 0 \in 0..Len(log)
    BY <1>1
  <2>2. IsSequence(SubSeq(log, 1, 0)) /\ Len(SubSeq(log, 1, 0)) = 0
    BY <2>1, FirstEvents
  <2> QED
    BY <2>2, Known DEF After
<1>3. ASSUME NEW n \in 0..Len(log), n < Len(log)
      PROVE  After(c, n + 1) = Observe(After(c, n), log[n + 1], c)
  <2>1. /\ IsSequence(SubSeq(log, 1, n))
        /\ SubSeq(log, 1, n + 1) = Append(SubSeq(log, 1, n), log[n + 1])
    BY <1>3, FirstEvents
  <2> QED
    BY <2>1, Known DEF After
<1> QED
  BY <1>1, <1>2, <1>3

LEMMA RuntimeTyped ==
    ASSUME NEW c, Lawful(log)
    PROVE  \A n \in 0..Len(log) : RuntimeInv(After(c, n))
<1>0. /\ Len(log) \in Nat /\ DOMAIN log = 1..Len(log)
      /\ After(c, 0) = NothingKnown
      /\ \A n \in 0..Len(log) :
            n < Len(log) => After(c, n + 1) = Observe(After(c, n), log[n + 1], c)
  BY AfterIs DEF Lawful
<1> DEFINE T == {n \in 0..Len(log) : ~RuntimeInv(After(c, n))}
<1> SUFFICES ASSUME T # {} PROVE FALSE
  OBVIOUS
<1>1. T \subseteq Nat
  BY <1>0
<1>2. PICK n \in T : \A m \in T : n <= m
  <2> HIDE DEF T
  <2> QED
    BY <1>1, LeastNumber
<1>3. n # 0
  <2>1. NothingKnown \in Runtimes /\ Cardinality({}) = 0 /\ IsFiniteSet({})
    BY FS_EmptySet DEF NothingKnown, Runtimes
  <2>2. RuntimeInv(NothingKnown)
    BY <2>1 DEF RuntimeInv, NothingKnown
  <2> QED
    BY <1>0, <2>2
<1>4. n - 1 \in 0..Len(log) /\ n - 1 < Len(log) /\ n - 1 \notin T /\ n \in DOMAIN log
  BY <1>0, <1>2, <1>3
<1>5. RuntimeInv(After(c, n - 1)) /\ Event(log[n])
  BY <1>4 DEF Lawful
<1>6. After(c, (n - 1) + 1) = Observe(After(c, n - 1), log[(n - 1) + 1], c)
  BY <1>0, <1>4
<1>7. (n - 1) + 1 = n
  BY <1>0
<1>8. RuntimeInv(After(c, n))
  BY <1>5, <1>6, <1>7, ObserveTyped
<1> QED
  BY <1>8

----------------------------------------------------------------------------
\* The log grows lawfully.

LEMMA LawfulAppend ==
    ASSUME NEW s, NEW e, Lawful(s), Event(e),
           Starting(e) => e.attempt \notin AttemptsIn(s),
           Ending(e) => e.attempt \in AttemptsIn(s),
           e.type = "route_decided" => DecidedOn(Append(s, e), Len(s) + 1)
    PROVE  Lawful(Append(s, e))
<1> DEFINE t == Append(s, e)
           N == Len(s)
<1>1. /\ IsSequence(s) /\ IsSequence(t)
      /\ N \in Nat /\ DOMAIN s = 1..N /\ DOMAIN t = 1..(N + 1)
      /\ \A n \in 1..N : t[n] = s[n]
      /\ t[N + 1] = e
  BY Appending DEF Lawful
<1>2. DOMAIN t = DOMAIN s \cup {N + 1} /\ N + 1 \notin DOMAIN s
  BY <1>1
<1>3. ASSUME NEW n \in 1..N, s[n].type = "route_decided" PROVE DecidedOn(t, n)
  <2>1. n - 1 \in 0..N
    BY <1>1
  <2>2. SubSeq(t, 1, n - 1) = SubSeq(s, 1, n - 1)
    BY <1>1, <2>1, PrefixKept
  <2>3. DecidedOn(s, n) /\ t[n] = s[n]
    BY <1>1, <1>3 DEF Lawful
  <2> HIDE DEF t
  <2> QED
    BY ZenonT(40), <2>2, <2>3 DEF DecidedOn
<1>4. e.type = "route_decided" => DecidedOn(t, N + 1)
  OBVIOUS
<1> HIDE DEF t, N
<1>5. \A n \in DOMAIN t : Event(t[n])
  BY <1>1, <1>2 DEF Lawful
<1>6. ASSUME NEW n \in DOMAIN t, NEW m \in DOMAIN t,
             Starting(t[n]), Starting(t[m]), t[n].attempt = t[m].attempt
      PROVE  n = m
  <2>1. \A k \in DOMAIN s : Starting(s[k]) => s[k].attempt \in AttemptsIn(s)
    BY DEF AttemptsIn, Starting
  <2>2. \A k \in DOMAIN s : t[k] = s[k]
    BY <1>1
  <2>3. CASE n \in DOMAIN s /\ m \in DOMAIN s
    BY <1>6, <2>2, <2>3 DEF Lawful
  <2>4. CASE n = N + 1 /\ m \in DOMAIN s
    BY <1>1, <1>6, <2>1, <2>2, <2>4
  <2>5. CASE m = N + 1 /\ n \in DOMAIN s
    BY <1>1, <1>6, <2>1, <2>2, <2>5
  <2> QED
    BY <1>2, <2>3, <2>4, <2>5
<1>7. ASSUME NEW n \in DOMAIN t, Ending(t[n])
      PROVE  \E m \in DOMAIN t : m < n /\ Starting(t[m]) /\ t[m].attempt = t[n].attempt
  <2>1. CASE n \in DOMAIN s
    <3>1. t[n] = s[n]
      BY <1>1, <2>1
    <3>2. PICK m \in DOMAIN s : m < n /\ Starting(s[m]) /\ s[m].attempt = s[n].attempt
      BY <1>7, <2>1, <3>1 DEF Lawful
    <3>3. t[m] = s[m] /\ m \in DOMAIN t
      BY <1>1, <1>2, <3>2
    <3> QED
      BY <3>1, <3>2, <3>3
  <2>2. CASE n = N + 1
    <3>1. t[n] = e /\ e.attempt \in AttemptsIn(s)
      BY <1>1, <1>7, <2>2
    <3>2. PICK m \in DOMAIN s : Starting(s[m]) /\ s[m].attempt = e.attempt
      BY <3>1 DEF AttemptsIn, Starting
    <3>3. t[m] = s[m] /\ m \in DOMAIN t /\ m < n
      BY <1>1, <1>2, <2>2, <3>2
    <3> QED
      BY <3>1, <3>2, <3>3
  <2> QED
    BY <1>2, <2>1, <2>2
<1>8. \A n \in DOMAIN t : t[n].type = "route_decided" => DecidedOn(t, n)
  BY <1>1, <1>2, <1>3, <1>4
<1> QED
  BY <1>1, <1>5, <1>6, <1>7, <1>8 DEF Lawful, t

----------------------------------------------------------------------------
\* RouteEngine::evaluate, part by part.

Eligible(draft) == {c \in Candidates : draft[c].rejections = {}}
Cheapest(draft) == Least({draft[c].cost : c \in Eligible(draft)})
Fastest(draft)  == Least({draft[c].duration : c \in Eligible(draft)} \ {None})

Parts(draft, request, c) ==
    Weighted(Scores(c, request, draft[c], Cheapest(draft), Fastest(draft)), Weights(request))

Score(draft, request, c) == AtMostWhole(Total(Parts(draft, request, c)))

LEMMA LeastIs ==
    ASSUME NEW S, S \subseteq Nat
    PROVE  /\ S = {} => Least(S) = None
           /\ S # {} => Least(S) \in S /\ \A x \in S : Least(S) <= x
<1>1. CASE S = {}
  BY <1>1 DEF Least
<1>2. CASE S # {}
  <2>1. \E x \in S : \A y \in S : x <= y
    BY <1>2, LeastNumber
  <2>2. Min(S) \in S /\ \A y \in S : Min(S) <= y
    BY <2>1 DEF Min
  <2> QED
    BY <1>2, <2>2 DEF Least
<1> QED
  BY <1>1, <1>2

LEMMA Evaluated ==
    ASSUME NEW draft, NEW request, NEW observed, NEW now, NEW e,
           e = Evaluate(draft, request, observed, now)
    PROVE  /\ e.request = request /\ e.now = now /\ e.observed = observed
           /\ e.eligible = Cardinality(Eligible(draft))
           /\ e.selected \in Eligible(draft) \cup {None}
           /\ \A x : /\ [e EXCEPT !.selected = x].request = request
                     /\ [e EXCEPT !.selected = x].now = now
                     /\ [e EXCEPT !.selected = x].observed = observed
                     /\ [e EXCEPT !.selected = x].selected = x
                     /\ [e EXCEPT !.selected = x].candidates = e.candidates
           /\ DOMAIN e.candidates = Candidates
           /\ \A c \in Candidates :
                /\ e.candidates[c].eligible = (c \in Eligible(draft))
                /\ e.candidates[c].score = IF c \in Eligible(draft)
                                           THEN Score(draft, request, c) ELSE None
                /\ e.candidates[c].parts = IF c \in Eligible(draft)
                                           THEN Parts(draft, request, c) ELSE <<>>
                /\ e.candidates[c].weights = Weights(request)
                /\ e.candidates[c].success = draft[c].success
                /\ e.candidates[c].quota = draft[c].quota
                /\ e.candidates[c].rejections = draft[c].rejections
<1> DEFINE eligible == Eligible(draft)
           parts(c) == Parts(draft, request, c)
           score == {<<c, AtMostWhole(Total(parts(c)))>> : c \in eligible}
           best == {c \in eligible : \E s \in score : s[1] = c /\ \A t \in score : t[2] <= s[2]}
           all == [c \in Candidates |->
                            [identity   |-> Identity(c),
                             eligible   |-> c \in eligible,
                             score      |-> IF c \in eligible THEN AtMostWhole(Total(parts(c)))
                                            ELSE None,
                             parts      |-> IF c \in eligible THEN parts(c) ELSE <<>>,
                             weights    |-> Weights(request),
                             cost       |-> draft[c].cost,
                             success    |-> draft[c].success,
                             quota      |-> draft[c].quota,
                             active     |-> draft[c].active,
                             rejections |-> draft[c].rejections]]
<1>1. e = [request |-> request, now |-> now, observed |-> observed, selected |-> Least(best),
           eligible |-> Cardinality(eligible), candidates |-> all]
  BY DEF Evaluate, Eligible, Parts, Cheapest, Fastest
<1>2. best \subseteq Nat /\ best \subseteq eligible
  BY TypesAssumption DEF Eligible
<1> HIDE DEF best
<1>3. Least(best) \in eligible \cup {None}
  BY <1>2, LeastIs
<1>4. /\ DOMAIN all = Candidates
      /\ \A c \in Candidates :
            /\ all[c].eligible = (c \in eligible)
            /\ all[c].score = IF c \in eligible THEN Score(draft, request, c) ELSE None
            /\ all[c].parts = IF c \in eligible THEN Parts(draft, request, c) ELSE <<>>
            /\ all[c].weights = Weights(request) /\ all[c].success = draft[c].success
            /\ all[c].quota = draft[c].quota /\ all[c].rejections = draft[c].rejections
  <2> HIDE DEF eligible
  <2> QED
    BY DEF Score
<1> HIDE DEF eligible, all
<1> QED
  BY <1>1, <1>3, <1>4 DEF eligible

----------------------------------------------------------------------------
\* Arithmetic.

LEMMA Quotient ==
    ASSUME NEW a \in Nat, NEW b \in Nat, b > 0
    PROVE  /\ a \div b \in Nat
           /\ b * (a \div b) <= a /\ a < b * (a \div b) + b
  OBVIOUS

\* A quotient is the largest that fits.
LEMMA QuotientLeast ==
    ASSUME NEW a \in Nat, NEW b \in Nat, NEW q \in Nat, b > 0, b * q <= a
    PROVE  q <= a \div b
<1> DEFINE d == a \div b
<1>1. d \in Nat /\ a < b * d + b
  BY Quotient
<1> HIDE DEF d
<1>2. CASE d < q
  <2>1. d + 1 <= q
    BY <1>1, <1>2
  <2>2. PICK k \in Nat : q = d + 1 + k
    <3>1. q - (d + 1) \in Nat /\ q = d + 1 + (q - (d + 1))
      BY <1>1, <2>1
    <3> QED
      BY <3>1
  <2>3. b * q = b * d + b + b * k /\ b * k \in Nat /\ b * d \in Nat
    BY <1>1, <2>2
  <2> QED
    BY <1>1, <2>3
<1> QED
  BY <1>1, <1>2 DEF d

\* Quotients keep the order of what they are quotients of.
LEMMA QuotientMonotone ==
    ASSUME NEW a \in Nat, NEW b \in Nat, NEW c \in Nat, NEW d \in Nat,
           b > 0, d > 0, a * d <= c * b
    PROVE  a \div b <= c \div d
<1> DEFINE q == a \div b
<1>1. q \in Nat /\ b * q <= a
  BY Quotient
<1> HIDE DEF q
<1>2. b * (d * q) <= b * c
  <2>1. (b * q) * d <= a * d
    <3>1. PICK k \in Nat : a = b * q + k
      <4>1. b * q \in Nat
        BY <1>1
      <4>2. a - b * q \in Nat /\ a = b * q + (a - b * q)
        BY <4>1, <1>1
      <4> QED
        BY <4>2
    <3>2. a * d = (b * q) * d + k * d /\ k * d \in Nat /\ (b * q) * d \in Nat
      BY <1>1, <3>1
    <3> QED
      BY <3>2
  <2>2. (b * q) * d = b * (d * q) /\ c * b = b * c /\ b * (d * q) \in Nat /\ a * d \in Nat
        /\ b * c \in Nat
    BY <1>1
  <2> QED
    BY <2>1, <2>2
<1>3. d * q <= c
  <2>1. d * q \in Nat
    BY <1>1
  <2>2. CASE c < d * q
    <3>1. PICK k \in Nat : d * q = c + 1 + k
      <4>1. d * q - (c + 1) \in Nat /\ d * q = c + 1 + (d * q - (c + 1))
        BY <2>1, <2>2
      <4> QED
        BY <4>1
    <3>2. b * (c + 1 + k) = b * c + b + b * k /\ b * k \in Nat /\ b * c \in Nat
      OBVIOUS
    <3> QED
      BY <1>2, <3>1, <3>2
  <2> QED
    BY <2>1, <2>2
<1>4. q <= c \div d
  BY <1>1, <1>3, QuotientLeast
<1> QED
  BY <1>4 DEF q

LEMMA Products ==
    ASSUME NEW a \in Nat, NEW b \in Nat, NEW c \in Nat, NEW d \in Nat, a <= c, b <= d
    PROVE  a * b \in Nat /\ c * d \in Nat /\ a * b <= c * d
<1>1. PICK i \in Nat, j \in Nat : c = a + i /\ d = b + j
  <2>1. c - a \in Nat /\ c = a + (c - a) /\ d - b \in Nat /\ d = b + (d - b)
    OBVIOUS
  <2> QED
    BY <2>1
<1>2. (a + i) * (b + j) = a * b + a * j + i * b + i * j
  OBVIOUS
<1>3. a * b \in Nat /\ a * j \in Nat /\ i * b \in Nat /\ i * j \in Nat
  OBVIOUS
<1> QED
  BY <1>1, <1>2, <1>3

\* The part a weight gives of a score is at most the weight, and grows with the score.
LEMMA Part ==
    ASSUME NEW s \in 0..Whole, NEW t \in 0..Whole, NEW w \in Nat, t <= s
    PROVE  /\ (s * w) \div Whole \in Nat /\ (t * w) \div Whole \in Nat
           /\ (t * w) \div Whole <= (s * w) \div Whole
           /\ (s * w) \div Whole <= w
<1>1. s \in Nat /\ t \in Nat /\ s <= 10000 /\ Whole = 10000
  BY DEF Whole
<1>2. s * w \in Nat /\ t * w \in Nat /\ t * w <= s * w /\ s * w <= 10000 * w
  BY <1>1, Products
<1>3. (s * w) \div 10000 \in Nat /\ (t * w) \div 10000 \in Nat
  BY <1>2, Quotient
<1>4. (t * w) \div 10000 <= (s * w) \div 10000
  <2>1. (t * w) * 10000 <= (s * w) * 10000
    BY <1>2
  <2> QED
    BY <1>2, <2>1, QuotientMonotone
<1>5. (s * w) \div 10000 <= w \div 1
  <2>1. (s * w) * 1 <= w * 10000
    BY <1>2
  <2> QED
    BY <1>2, <2>1, QuotientMonotone
<1> QED
  BY <1>1, <1>3, <1>4, <1>5

----------------------------------------------------------------------------
\* What the score is made of.

LEMMA WholeRange ==
    /\ Whole \in Nat /\ 0 \in 0..Whole
    /\ \A x \in 0..Whole : x \in Nat /\ x <= Whole /\ x <= x /\ Whole - x \in 0..Whole
    /\ \A x \in Nat : x <= Whole => x \in 0..Whole
    /\ \A x \in Nat : AtMostWhole(x) \in 0..Whole
<1>1. Whole \in Nat /\ 0 \in 0..Whole
  BY DEF Whole
<1>2. ASSUME NEW x \in 0..Whole
      PROVE  x \in Nat /\ x <= Whole /\ x <= x /\ Whole - x \in 0..Whole
  BY <1>1, <1>2
<1>3. ASSUME NEW x \in Nat, x <= Whole
      PROVE  x \in 0..Whole
  BY <1>1, <1>3
<1>4. \A x \in Nat : AtMostWhole(x) \in 0..Whole
  BY DEF AtMostWhole, Whole
<1> QED
  BY <1>1, <1>2, <1>3, <1>4

LEMMA Complement ==
    \A i, j \in 0..Whole : i <= j => Whole - j <= Whole - i
<1>1. \A w, i, j \in Nat : i <= j => w - j <= w - i
  OBVIOUS
<1> QED
  BY <1>1, WholeRange

LEMMA RatioBounded ==
    ASSUME NEW part \in Nat, NEW of \in Nat
    PROVE  Ratio(part, of) \in 0..Whole
<1>1. Whole = 10000 /\ part * Whole \in Nat
  BY DEF Whole
<1>2. of # 0 => (part * Whole) \div of \in Nat
  BY <1>1, Quotient
<1> QED
  <2>1. CASE of = 0
    BY <2>1, WholeRange DEF Ratio
  <2>2. CASE of # 0
    <3>1. Ratio(part, of) = AtMostWhole((part * Whole) \div of)
      BY <2>2 DEF Ratio
    <3> QED
      BY <1>2, <2>2, <3>1, WholeRange
  <2> QED
    BY <2>1, <2>2

LEMMA PriorTypes ==
    /\ Policy.successPrior \in 0..Whole /\ Policy.unknownQuota \in 0..Whole
    /\ Policy.unknownHealth \in 0..Whole /\ Policy.priorAttempts \in Nat
<1> DEFINE P == {Policy.successPrior, Policy.priorAttempts, Policy.unknownQuota,
                 Policy.unknownHealth}
<1>1. P \subseteq Nat
  BY TypesAssumption
<1>2. /\ Policy.successPrior \in P /\ Policy.priorAttempts \in P
      /\ Policy.unknownQuota \in P /\ Policy.unknownHealth \in P
  OBVIOUS
<1> HIDE DEF P
<1>3. /\ Policy.successPrior <= Whole /\ Policy.unknownQuota <= Whole
      /\ Policy.unknownHealth <= Whole
  BY PolicyAssumption DEF ValidPolicy
<1>5. /\ Policy.successPrior \in Nat /\ Policy.priorAttempts \in Nat
      /\ Policy.unknownQuota \in Nat /\ Policy.unknownHealth \in Nat
  BY <1>1, <1>2
<1> QED
  <2>1. \A x \in Nat : x <= Whole => x \in 0..Whole
    BY WholeRange
  <2> QED
    BY <1>3, <1>5, <2>1

\* What a function makes of finitely many is finitely many.
LEMMA ImageFinite ==
    ASSUME NEW S, NEW f, IsFiniteSet(S), DOMAIN f = S
    PROVE  IsFiniteSet({f[x] : x \in S})
<1> DEFINE T == {f[x] : x \in S}
           g == [x \in S |-> f[x]]
<1>1. g \in Surjection(S, T)
  BY DEF Surjection
<1> HIDE DEF g
<1>2. IsFiniteSet(T)
  <2> HIDE DEF T
  <2> QED
    BY <1>1, FS_Surjection
<1> QED
  BY <1>2

\* A request's and its rule's labels are finitely many, and its weights are of the policy.
LEMMA RequestTypes ==
    ASSUME NEW request \in Requests
    PROVE  /\ IsFiniteSet(RequiredCapabilities(request))
           /\ IsFiniteSet(PreferredSpecialties(request))
           /\ ValidWeights(Weights(request)) /\ Weights(request) \in [Components -> Nat]
           /\ Rule(request).strength \in Nat \cup {None}
           /\ request.context \in Nat /\ request.output \in Nat
           /\ request.maxCost \in Nat \cup {None} /\ request.allowDegraded \in BOOLEAN
<1> DEFINE rule == Rule(request)
<1>1. /\ IsFiniteSet(rule.capabilities) /\ IsFiniteSet(rule.specialties)
      /\ rule.strength \in Nat \cup {None}
      /\ rule.weights \in [Components -> Nat] \cup {None}
      /\ rule.weights # None => ValidWeights(rule.weights)
  <2>1. CASE request.kind \in DOMAIN Policy.rules
    BY <2>1, TypesAssumption, PolicyAssumption DEF Rule, ValidPolicy, ValidRule
  <2>2. CASE request.kind \notin DOMAIN Policy.rules
    BY <2>2, FS_EmptySet DEF Rule, NoRule
  <2> QED
    BY <2>1, <2>2
<1>2. /\ IsFiniteSet(request.capabilities) /\ IsFiniteSet(request.specialties)
      /\ request.context \in Nat /\ request.output \in Nat
      /\ request.maxCost \in Nat \cup {None} /\ request.allowDegraded \in BOOLEAN
  BY TypesAssumption
<1>3. ValidWeights(Policy.weights) /\ Policy.weights \in [Components -> Nat]
  BY TypesAssumption, PolicyAssumption DEF ValidPolicy
<1>4. IsFiniteSet(RequiredCapabilities(request)) /\ IsFiniteSet(PreferredSpecialties(request))
  BY <1>1, <1>2, FS_Union DEF RequiredCapabilities, PreferredSpecialties
<1>5. ValidWeights(Weights(request)) /\ Weights(request) \in [Components -> Nat]
  BY <1>1, <1>3 DEF Weights
<1> QED
  BY <1>1, <1>2, <1>4, <1>5

LEMMA ProfileTypes ==
    ASSUME NEW c \in Candidates
    PROVE  /\ Profile(c).context \in Nat /\ Profile(c).capacity \in Nat
           /\ Profile(c).strength \in 0..Whole
           /\ Profile(c).inputPrice \in Nat /\ Profile(c).outputPrice \in Nat
           /\ Profile(c).baseline \in Nat \cup {None} /\ Profile(c).baseline # 0
           /\ Profile(c).context > 0 /\ Profile(c).capacity > 0
           /\ IsFiniteSet(Profile(c).specialties)
<1>1. Profile(c).strength <= Whole /\ Profile(c).context > 0 /\ Profile(c).capacity > 0
      /\ Profile(c).baseline # 0
  BY PolicyAssumption DEF ValidPolicy, ValidProfile
<1>2. {Profile(c).context, Profile(c).strength, Profile(c).capacity,
        Profile(c).inputPrice, Profile(c).outputPrice} \subseteq Nat
      /\ Profile(c).baseline \in Nat \cup {None} /\ IsFiniteSet(Profile(c).specialties)
  BY TypesAssumption
<1> QED
  BY <1>1, <1>2

LEMMA HealthScored ==
    ASSUME NEW health \in Stamped(HealthValues) \cup {None}
    PROVE  HealthScore(health) \in 0..Whole
<1>1. Policy.unknownHealth \in 0..Whole
  BY PriorTypes
<1>2. {0, 2000, 5000, 7500, Whole} \subseteq 0..Whole
  BY DEF Whole
<1>3. HealthScore(health) \in {0, 2000, 5000, 7500, Whole, Policy.unknownHealth}
  BY DEF HealthScore
<1> QED
  BY <1>1, <1>2, <1>3

LEMMA SuccessSmoothed ==
    ASSUME NEW r, RuntimeInv(r)
    PROVE  SmoothedSuccess(r) \in 0..Whole
<1>1. Policy.successPrior \in 0..Whole /\ Policy.priorAttempts \in Nat 
  BY PriorTypes
<1>2. r.successes \in Nat /\ IsFiniteSet(r.terminals)
  BY FS_Subset DEF RuntimeInv, Runtimes
<1>3. TerminalAttempts(r) \in Nat
  BY <1>2, FS_CardinalityType DEF TerminalAttempts
<1> DEFINE attempts == TerminalAttempts(r) + Policy.priorAttempts
           sum == r.successes * Whole + Policy.successPrior * Policy.priorAttempts
<1>4. attempts \in Nat /\ sum \in Nat
  <2>1. \A x, y \in Nat : x * y \in Nat
    OBVIOUS
  <2>2. Whole \in Nat /\ \A x \in 0..Whole : x \in Nat
    BY WholeRange
  <2>3. r.successes * Whole \in Nat /\ Policy.successPrior * Policy.priorAttempts \in Nat
    BY <1>1, <1>2, <2>1, <2>2
  <2> QED
    BY <1>1, <1>3, <2>3
<1>5. SmoothedSuccess(r) = IF attempts = 0 THEN Policy.successPrior
                           ELSE AtMostWhole(sum \div attempts)
  BY DEF SmoothedSuccess
<1> HIDE DEF attempts, sum
<1>6. attempts # 0 => sum \div attempts \in Nat
  BY <1>4, Quotient
<1> QED
  <2>1. \A x \in Nat : AtMostWhole(x) \in 0..Whole
    BY DEF AtMostWhole, Whole
  <2> QED
    BY <1>1, <1>5, <1>6, <2>1

\* What is known of a candidate before the comparison.
LEMMA DraftTypes ==
    ASSUME NEW c \in Candidates, NEW request \in Requests, NEW s, NEW homes, NEW now,
           RuntimeInv(FromEvents(c, s)), NEW d, d = Draft(c, request, s, homes, now)
    PROVE  /\ d.cost \in Nat /\ d.active \in Nat /\ d.success \in 0..Whole
           /\ d.quota \in 0..Whole \cup {None} /\ d.health \in 0..Whole
           /\ d.duration \in Nat \cup {None} /\ d.headroom \in 0..Whole
           /\ IsFiniteSet(d.rejections)
           /\ d.rejections = Rejections(c, request, FromEvents(c, s), homes, now)
<1> DEFINE r == FromEvents(c, s)
<1>1. /\ d.rejections = Rejections(c, request, r, homes, now)
      /\ d.cost = EstimatedCost(c, request) /\ d.active = ActiveAttempts(r)
      /\ d.success = SmoothedSuccess(r)
      /\ d.quota = IF r.quota = None THEN None ELSE r.quota.value
      /\ d.health = HealthScore(r.health)
      /\ d.duration = IF r.terminals = {} THEN Profile(c).baseline
                      ELSE r.duration \div TerminalAttempts(r)
      /\ d.headroom = ContextHeadroom(c, request)
  BY DEF Draft
<1>2. RuntimeInv(r)
  OBVIOUS
<1> HIDE DEF r
<1>3. /\ r.duration \in Nat /\ r.quota \in Stamped(0..Whole) \cup {None}
      /\ r.health \in Stamped(HealthValues) \cup {None}
      /\ IsFiniteSet(r.starts) /\ IsFiniteSet(r.terminals)
  BY <1>2, FS_Subset DEF RuntimeInv, Runtimes
<1>4. /\ request.context \in Nat /\ request.output \in Nat
      /\ IsFiniteSet(RequiredCapabilities(request))
  BY RequestTypes
<1>5. /\ Profile(c).context \in Nat /\ Profile(c).inputPrice \in Nat
      /\ Profile(c).outputPrice \in Nat /\ Profile(c).baseline \in Nat \cup {None}
  BY ProfileTypes
<1>6. d.cost \in Nat
  <2> DEFINE n == request.context * Profile(c).inputPrice
                    + request.output * Profile(c).outputPrice + 999999
  <2>1. n \in Nat
    <3>1. /\ request.context * Profile(c).inputPrice \in Nat
          /\ request.output * Profile(c).outputPrice \in Nat
      BY <1>4, <1>5
    <3> QED
      BY <3>1
  <2>2. d.cost = n \div 1000000
    BY <1>1 DEF EstimatedCost
  <2> HIDE DEF n
  <2> QED
    BY <2>1, <2>2, Quotient
<1>7. d.active \in Nat
  <2>1. IsFiniteSet(r.starts \ r.terminals)
    BY <1>3, FS_Difference
  <2> QED
    BY <1>1, <2>1, FS_CardinalityType DEF ActiveAttempts
<1>8. d.success \in 0..Whole
  BY <1>1, <1>2, SuccessSmoothed
<1>9. d.quota \in 0..Whole \cup {None}
  BY <1>1, <1>3 DEF Stamped
<1>10. d.health \in 0..Whole
  BY <1>1, <1>3, HealthScored
<1>11. d.duration \in Nat \cup {None}
  <2>1. CASE r.terminals = {}
    BY <1>1, <1>5, <2>1
  <2>2. CASE r.terminals # {}
    <3>1. TerminalAttempts(r) \in Nat /\ TerminalAttempts(r) > 0
      BY <1>3, <2>2, FS_EmptySet, FS_CardinalityType DEF TerminalAttempts
    <3> QED
      BY <1>1, <1>3, <2>2, <3>1, Quotient
  <2> QED
    BY <2>1, <2>2
<1>12. d.headroom \in 0..Whole
  <2> DEFINE needed == request.context + request.output
  <2>1. needed \in Nat /\ 0 \in 0..Whole
    BY <1>4, WholeRange
  <2>2. d.headroom = IF needed >= Profile(c).context THEN 0
                     ELSE Ratio(Profile(c).context - needed, Profile(c).context)
    BY <1>1 DEF ContextHeadroom
  <2> HIDE DEF needed
  <2>3. CASE needed >= Profile(c).context
    BY <2>1, <2>2, <2>3
  <2>4. CASE ~(needed >= Profile(c).context)
    <3>1. Profile(c).context - needed \in Nat
      BY <1>5, <2>1, <2>4
    <3> QED
      BY <1>5, <2>2, <2>4, <3>1, RatioBounded
  <2> QED
    BY <2>3, <2>4
<1>13. IsFiniteSet(d.rejections)
  <2> DEFINE g == Grounds(c, request, r, homes, now)
             G == {x \in DOMAIN g : g[x]}
             L == RequiredCapabilities(request) \ Profile(c).capabilities
  <2>1. IsFiniteSet(DOMAIN g)
    <3>1. DOMAIN g = {"disabled", "home", "lockedHome", "lockedModel", "domain", "context",
                      "strength", "cost", "load", "unreachable", "unhealthy", "auth", "quota",
                      "limited"}
      BY DEF Grounds
    <3>2. DOMAIN g = {"disabled", "home", "lockedHome"} \cup {"lockedModel", "domain", "context"}
                     \cup {"strength", "cost", "load"} \cup {"unreachable", "unhealthy", "auth"}
                     \cup {"quota", "limited"}
      BY <3>1
    <3>3. \A x, y, z : IsFiniteSet({x, y, z})
      <4> TAKE x, y, z
      <4>1. IsFiniteSet({x}) /\ IsFiniteSet({y}) /\ IsFiniteSet({z})
        BY FS_Singleton
      <4>2. IsFiniteSet({x} \cup {y})
        BY <4>1, FS_Union
      <4>3. IsFiniteSet(({x} \cup {y}) \cup {z})
        BY <4>1, <4>2, FS_Union
      <4>4. {x, y, z} = ({x} \cup {y}) \cup {z}
        OBVIOUS
      <4> QED
        BY <4>3, <4>4
    <3> DEFINE A == {"disabled", "home", "lockedHome"}
               B == {"lockedModel", "domain", "context"}
               C == {"strength", "cost", "load"}
               D == {"unreachable", "unhealthy", "auth"}
               E == {"quota", "limited", "limited"}
    <3>4. DOMAIN g = (((A \cup B) \cup C) \cup D) \cup E
      BY <3>2
    <3>5. /\ IsFiniteSet(A) /\ IsFiniteSet(B) /\ IsFiniteSet(C) /\ IsFiniteSet(D)
          /\ IsFiniteSet(E)
      BY <3>3
    <3> HIDE DEF A, B, C, D, E, g
    <3>6. IsFiniteSet((A \cup B) \cup C)
      BY <3>5, FS_Union
    <3>7. IsFiniteSet((((A \cup B) \cup C) \cup D) \cup E)
      BY <3>5, <3>6, FS_Union
    <3> QED
      BY <3>4, <3>7
  <2>2. IsFiniteSet(G) /\ IsFiniteSet(L)
    <3> HIDE DEF g
    <3>1. G \subseteq DOMAIN g /\ L \subseteq RequiredCapabilities(request)
      OBVIOUS
    <3> QED
      BY <1>4, <2>1, <3>1, FS_Subset
  <2>3. d.rejections = {<<x, None>> : x \in G} \cup {<<"capability", x>> : x \in L}
    BY <1>1 DEF Rejections
  <2> HIDE DEF G, L
  <2>4. IsFiniteSet({<<x, None>> : x \in G}) /\ IsFiniteSet({<<"capability", x>> : x \in L})
    <3> DEFINE f == [x \in G |-> <<x, None>>]
               h == [x \in L |-> <<"capability", x>>]
    <3>1. /\ {<<x, None>> : x \in G} = {f[x] : x \in G}
          /\ {<<"capability", x>> : x \in L} = {h[x] : x \in L}
      OBVIOUS
    <3>2. DOMAIN f = G /\ DOMAIN h = L
      OBVIOUS
    <3> HIDE DEF f, h
    <3>3. IsFiniteSet({f[x] : x \in G}) /\ IsFiniteSet({h[x] : x \in L})
      BY <2>2, <3>2, ImageFinite
    <3> QED
      BY <3>1, <3>3
  <2> QED
    BY ZenonT(40), <2>3, <2>4, FS_Union
<1> QED
  BY <1>1, <1>6, <1>7, <1>8, <1>9, <1>10, <1>11, <1>12, <1>13 DEF r

\* What DraftTypes says.
DraftInv(d) ==
    /\ d.cost \in Nat /\ d.active \in Nat /\ d.success \in 0..Whole
    /\ d.quota \in 0..Whole \cup {None} /\ d.health \in 0..Whole
    /\ d.duration \in Nat \cup {None} /\ d.headroom \in 0..Whole
    /\ IsFiniteSet(d.rejections)

LEMMA InverseBounded ==
    ASSUME NEW value \in Nat \cup {None}, NEW least \in Nat \cup {None}
    PROVE  RelativeInverse(value, least) \in 0..Whole
<1>1. {0, 5000, Whole} \subseteq 0..Whole
  BY DEF Whole
<1>2. CASE value = None
  BY <1>1, <1>2 DEF RelativeInverse
<1>3. CASE value = 0
  BY <1>1, <1>3, TypesAssumption DEF RelativeInverse
<1>4. CASE value # None /\ value # 0 /\ least = None
  BY <1>1, <1>4 DEF RelativeInverse
<1>5. CASE value # None /\ value # 0 /\ least # None
  <2>1. RelativeInverse(value, least) = Ratio(least, value)
    BY <1>5 DEF RelativeInverse
  <2> QED
    BY <1>5, <2>1, RatioBounded
<1> QED
  BY <1>2, <1>3, <1>4, <1>5

LEMMA MatchesBounded ==
    ASSUME NEW values, NEW expected, IsFiniteSet(expected)
    PROVE  RatioMatches(values, expected) \in 0..Whole
<1>1. IsFiniteSet(values \cap expected)
  BY FS_Subset
<1>2. Cardinality(values \cap expected) \in Nat /\ Cardinality(expected) \in Nat
  BY <1>1, FS_CardinalityType
<1>3. 5000 \in 0..Whole
  BY DEF Whole
<1>4. Ratio(Cardinality(values \cap expected), Cardinality(expected)) \in 0..Whole
  BY <1>2, RatioBounded
<1> QED
  BY <1>3, <1>4 DEF RatioMatches

LEMMA ScoreTypes ==
    ASSUME NEW c \in Candidates, NEW request \in Requests, NEW d, DraftInv(d),
           NEW leastCost \in Nat \cup {None}, NEW leastDuration \in Nat \cup {None}
    PROVE  \A name \in Components :
                Scores(c, request, d, leastCost, leastDuration)[name] \in 0..Whole
<1> DEFINE s == Scores(c, request, d, leastCost, leastDuration)
<1>1. /\ s["task_fit"] = RatioMatches(Profile(c).specialties, PreferredSpecialties(request))
      /\ s["model_strength"] = Profile(c).strength
      /\ s["context_headroom"] = d.headroom
      /\ s["quota"] = IF d.quota = None THEN Policy.unknownQuota ELSE d.quota
      /\ s["historical_success"] = d.success
      /\ s["speed"] = RelativeInverse(d.duration, leastDuration)
      /\ s["cost"] = RelativeInverse(d.cost, leastCost)
      /\ s["load"] = Whole - Ratio(d.active, Profile(c).capacity)
      /\ s["health"] = d.health
  BY DEF Scores
<1> HIDE DEF s
<1>2. s["task_fit"] \in 0..Whole
  BY <1>1, RequestTypes, MatchesBounded
<1>3. s["model_strength"] \in 0..Whole
  BY <1>1, ProfileTypes
<1>4. s["context_headroom"] \in 0..Whole /\ s["historical_success"] \in 0..Whole
      /\ s["health"] \in 0..Whole
  BY <1>1 DEF DraftInv
<1>5. s["quota"] \in 0..Whole
  BY <1>1, PriorTypes DEF DraftInv
<1>6. s["speed"] \in 0..Whole /\ s["cost"] \in 0..Whole
  BY <1>1, InverseBounded DEF DraftInv
<1>7. s["load"] \in 0..Whole
  <2>1. Ratio(d.active, Profile(c).capacity) \in 0..Whole
    BY RatioBounded, ProfileTypes DEF DraftInv
  <2>2. \A x \in 0..Whole : Whole - x \in 0..Whole
    BY WholeRange
  <2> QED
    BY <1>1, <2>1, <2>2
<1> QED
  BY <1>2, <1>3, <1>4, <1>5, <1>6, <1>7 DEF Components, s

\* The parts of a score are at most their weights, and so is the whole; and better
\* parts make the better whole.
LEMMA WeightedBounded ==
    ASSUME NEW s, NEW t, NEW weights \in [Components -> Nat],
           \A name \in Components : s[name] \in 0..Whole /\ t[name] \in 0..Whole
    PROVE  /\ Total(Weighted(s, weights)) \in Nat
           /\ Total(weights) \in Nat
           /\ Total(Weighted(s, weights)) <= Total(weights)
           /\ (\A name \in Components : t[name] <= s[name])
              => Total(Weighted(t, weights)) <= Total(Weighted(s, weights))
<1> DEFINE p == Weighted(s, weights)
           q == Weighted(t, weights)
<1>1. \A name \in Components :
        p[name] = (s[name] * weights[name]) \div Whole
        /\ q[name] = (t[name] * weights[name]) \div Whole /\ weights[name] \in Nat
  BY DEF Weighted
<1> HIDE DEF p, q
<1>2. ASSUME NEW name \in Components
      PROVE  /\ p[name] \in Nat /\ q[name] \in Nat /\ weights[name] \in Nat
             /\ p[name] <= weights[name]
             /\ t[name] <= s[name] => q[name] <= p[name]
  <2>1. s[name] \in 0..Whole /\ t[name] \in 0..Whole /\ weights[name] \in Nat
    BY <1>1
  <2>2. /\ (s[name] * weights[name]) \div Whole \in Nat
        /\ (s[name] * weights[name]) \div Whole <= weights[name]
    <3>1. \A x \in 0..Whole : x <= x
      BY WholeRange
    <3> QED
      BY <2>1, <3>1, Part
  <2>3. (t[name] * weights[name]) \div Whole \in Nat
    <3>1. \A x \in 0..Whole : x <= x
      BY WholeRange
    <3> QED
      BY <2>1, <3>1, Part
  <2>4. t[name] <= s[name] =>
            (t[name] * weights[name]) \div Whole <= (s[name] * weights[name]) \div Whole
    BY <2>1, Part
  <2> QED
    BY <1>1, <2>1, <2>2, <2>3, <2>4
<1>3. {"task_fit", "model_strength", "context_headroom", "quota", "historical_success",
       "speed", "cost", "load", "health"} = Components
  BY DEF Components
<1>4. Total(p) \in Nat /\ Total(weights) \in Nat /\ Total(p) <= Total(weights)
  BY <1>2, <1>3 DEF Total
<1>5. (\A name \in Components : t[name] <= s[name]) => Total(q) <= Total(p)
  BY <1>2, <1>3 DEF Total
<1> QED
  BY <1>4, <1>5 DEF p, q

\* The least cost and the least duration of the eligible are numbers, if there are any.
LEMMA LeastTypes ==
    ASSUME NEW draft, \A c \in Candidates : DraftInv(draft[c])
    PROVE  Cheapest(draft) \in Nat \cup {None} /\ Fastest(draft) \in Nat \cup {None}
<1> DEFINE S == {draft[c].cost : c \in Eligible(draft)}
           T == {draft[c].duration : c \in Eligible(draft)} \ {None}
<1>1. S \subseteq Nat /\ T \subseteq Nat
  BY DEF Eligible, DraftInv
<1> HIDE DEF S, T
<1>2. Least(S) \in Nat \cup {None} /\ Least(T) \in Nat \cup {None}
  BY <1>1, LeastIs
<1> QED
  BY <1>2 DEF Cheapest, Fastest, S, T

\* What the engine decides is recordable, but for the number of its rejections.
LEMMA EvaluatedRecordable ==
    ASSUME NEW draft, NEW request \in Requests, NEW observed, NEW now, NEW e,
           \A c \in Candidates : DraftInv(draft[c]),
           e = Evaluate(draft, request, observed, now), ~Recordable(e)
    PROVE  \E c \in Candidates : Cardinality(e.candidates[c].rejections) > MaxLabels
<1>1. /\ e.eligible = Cardinality(Eligible(draft))
      /\ e.selected \in Eligible(draft) \cup {None}
  BY Evaluated
<1>2. ASSUME NEW c \in Candidates
      PROVE  /\ e.candidates[c].eligible = (c \in Eligible(draft))
             /\ e.candidates[c].score = IF c \in Eligible(draft)
                                        THEN Score(draft, request, c) ELSE None
             /\ e.candidates[c].parts = IF c \in Eligible(draft)
                                        THEN Parts(draft, request, c) ELSE <<>>
             /\ e.candidates[c].weights = Weights(request)
             /\ e.candidates[c].success = draft[c].success
             /\ e.candidates[c].quota = draft[c].quota
             /\ e.candidates[c].rejections = draft[c].rejections
  BY Evaluated
<1>3. ASSUME NEW c \in Candidates
      PROVE  Score(draft, request, c) = Total(Parts(draft, request, c))
             /\ Score(draft, request, c) \in 0..Whole
  <2> DEFINE s == Scores(c, request, draft[c], Cheapest(draft), Fastest(draft))
  <2>1. \A name \in Components : s[name] \in 0..Whole
    BY LeastTypes, ScoreTypes
  <2>2. Weights(request) \in [Components -> Nat] /\ Total(Weights(request)) = Whole
    BY RequestTypes DEF ValidWeights
  <2>3. Parts(draft, request, c) = Weighted(s, Weights(request))
    BY DEF Parts
  <2> HIDE DEF s
  <2>4. Total(Parts(draft, request, c)) \in Nat /\ Total(Parts(draft, request, c)) <= Whole
    BY <2>1, <2>2, <2>3, WeightedBounded
  <2>5. \A x \in Nat : x <= Whole => AtMostWhole(x) = x /\ x \in 0..Whole
    BY DEF AtMostWhole, Whole
  <2> QED
    BY <2>4, <2>5 DEF Score
<1>4. e.eligible = Cardinality({c \in Candidates : e.candidates[c].eligible})
  <2>1. {c \in Candidates : e.candidates[c].eligible} = Eligible(draft)
    BY <1>2 DEF Eligible
  <2> QED
    BY <1>1, <2>1
<1>5. e.selected # None => e.selected \in Candidates /\ e.candidates[e.selected].eligible
  BY <1>1, <1>2 DEF Eligible
<1>6. ASSUME NEW c \in Candidates
      PROVE  /\ e.candidates[c].eligible <=> e.candidates[c].score # None
             /\ e.candidates[c].score # None => e.candidates[c].score <= Whole
             /\ e.candidates[c].success <= Whole
             /\ e.candidates[c].quota # None => e.candidates[c].quota <= Whole
             /\ e.candidates[c].eligible <=> e.candidates[c].rejections = {}
             /\ e.candidates[c].eligible =>
                    /\ ValidWeights(e.candidates[c].weights)
                    /\ e.candidates[c].score = Total(e.candidates[c].parts)
  <2>1. \A x \in 0..Whole : x \in Nat /\ x <= Whole /\ x # None
    <3>1. None \notin Nat
      BY TypesAssumption
    <3> QED
      BY <3>1, WholeRange
  <2>2. DraftInv(draft[c])
    OBVIOUS
  <2>3. /\ draft[c].success \in 0..Whole /\ draft[c].quota \in 0..Whole \cup {None}
    BY <2>2 DEF DraftInv
  <2>4. ValidWeights(Weights(request))
    BY RequestTypes
  <2>5. c \in Eligible(draft) <=> draft[c].rejections = {}
    BY DEF Eligible
  <2>6. CASE c \in Eligible(draft)
    BY <1>2, <1>3, <2>1, <2>3, <2>4, <2>5, <2>6
  <2>7. CASE c \notin Eligible(draft)
    BY <1>2, <1>3, <2>1, <2>3, <2>4, <2>5, <2>7
  <2> QED
    BY <2>6, <2>7
<1>7. PICK c \in Candidates : ~(Cardinality(e.candidates[c].rejections) <= MaxLabels)
  BY <1>4, <1>5, <1>6 DEF Recordable
<1>8. Cardinality(e.candidates[c].rejections) \in Nat /\ MaxLabels \in Nat
  <2>1. DraftInv(draft[c])
    OBVIOUS
  <2> QED
    BY <1>2, <2>1, FS_CardinalityType, BoundsAssumption DEF DraftInv
<1> QED
  BY <1>7, <1>8

----------------------------------------------------------------------------
\* The invariant.

\* The drafts of a decision on the log as it is.
LEMMA DraftsTyped ==
    ASSUME NEW request \in Requests, NEW homes, NEW now, Lawful(log)
    PROVE  \A c \in Candidates : DraftInv(Drafts(request, log, homes, now)[c])
<1> TAKE c \in Candidates
<1> DEFINE d == Draft(c, request, log, homes, now)
<1>1. Drafts(request, log, homes, now)[c] = d
  BY DEF Drafts
<1>2. Len(log) \in 0..Len(log) /\ SubSeq(log, 1, Len(log)) = log
  <2>1. IsSequence(log) /\ Len(log) \in Nat
    BY Appending DEF Lawful
  <2>2. Len(log) \in 0..Len(log)
    BY <2>1
  <2> QED
    BY <2>1, <2>2, FirstEvents
<1>3. RuntimeInv(FromEvents(c, log))
  BY <1>2, RuntimeTyped DEF After
<1> HIDE DEF d
<1>4. DraftInv(d)
  BY <1>3, DraftTypes DEF DraftInv, d
<1> QED
  BY <1>1, <1>4

\* The decision of the engine, and of a dispatch, on the log it is appended to.
LEMMA LawfulDecision ==
    ASSUME NEW request \in Requests, NEW homes \in Registries, NEW now \in Times, NEW e,
           NEW d, Lawful(log), e.type = "route_decided", e.homes = homes,
           d = Evaluate(Drafts(request, log, homes, now), request, Len(log), now),
           \/ e.decision = d
           \/ \E x \in Candidates : e.decision = [d EXCEPT !.selected = x]
    PROVE  /\ Lawful(Append(log, e))
           /\ AttemptsIn(Append(log, e)) = AttemptsIn(log)
<1> DEFINE s == Append(log, e)
           N == Len(log)
<1>1. /\ IsSequence(log) /\ N \in Nat /\ s[N + 1] = e /\ Len(s) = N + 1
      /\ DOMAIN log = 1..N /\ DOMAIN s = 1..(N + 1) /\ \A n \in 1..N : s[n] = log[n]
  BY Appending DEF Lawful
<1>2. SubSeq(s, 1, N) = log /\ (N + 1) - 1 = N
  <2>1. N \in 0..N /\ (N + 1) - 1 = N
    BY <1>1
  <2>2. SubSeq(s, 1, N) = SubSeq(log, 1, N)
    BY <1>1, <2>1, PrefixKept
  <2>3. SubSeq(log, 1, N) = log
    BY <1>1, <2>1, FirstEvents
  <2> QED
    BY <2>1, <2>2, <2>3
<1>3. /\ e.decision.request = request /\ e.decision.now = now /\ e.decision.observed = N
      /\ e.decision.candidates = d.candidates
      /\ e.decision.selected \in Candidates \cup {None}
  <2>1. /\ d.request = request /\ d.now = now /\ d.observed = N
        /\ d.selected \in Candidates \cup {None}
        /\ \A x : /\ [d EXCEPT !.selected = x].request = request
                  /\ [d EXCEPT !.selected = x].now = now
                  /\ [d EXCEPT !.selected = x].observed = N
                  /\ [d EXCEPT !.selected = x].selected = x
                  /\ [d EXCEPT !.selected = x].candidates = d.candidates
    <3> DEFINE draft == Drafts(request, log, homes, now)
    <3> HIDE DEF draft
    <3>1. d = Evaluate(draft, request, N, now)
      BY DEF draft
    <3>2. Eligible(draft) \subseteq Candidates
      BY DEF Eligible
    <3> HIDE DEF N
    <3> QED
      BY <3>1, <3>2, Evaluated
  <2>2. CASE e.decision = d
    BY <2>1, <2>2
  <2>3. CASE \E x \in Candidates : e.decision = [d EXCEPT !.selected = x]
    <3> HIDE DEF N
    <3> QED
      BY <2>1, <2>3
  <2> QED
    BY <2>2, <2>3
<1> HIDE DEF s, N
<1>4. DecidedOn(s, N + 1)
  <2>1. d = Evaluate(Drafts(request, SubSeq(s, 1, (N + 1) - 1), homes, now), request,
                     (N + 1) - 1, now)
    BY <1>2 DEF N
  <2> QED
    BY <1>1, <1>2, <1>3, <2>1 DEF DecidedOn
<1>5. Event(e) /\ ~Starting(e) /\ ~Ending(e)
  BY DEF Event, Starting, Ending, Ends
<1>6. Lawful(s)
  BY <1>4, <1>5, LawfulAppend DEF s, N
<1>7. AttemptsIn(s) = AttemptsIn(log)
  <2>1. DOMAIN s = DOMAIN log \cup {N + 1} /\ s[N + 1].type # "attempt_started"
    BY <1>1, <1>5 DEF Starting
  <2>2. {n \in DOMAIN s : s[n].type = "attempt_started"}
            = {n \in DOMAIN log : log[n].type = "attempt_started"}
    BY <1>1, <2>1
  <2>3. \A n \in {n \in DOMAIN log : log[n].type = "attempt_started"} : s[n] = log[n]
    BY <1>1
  <2> QED
    BY <2>2, <2>3 DEF AttemptsIn
<1> QED
  BY <1>6, <1>7 DEF s

LEMMA StartingEvent ==
    ASSUME NEW a \in Attempts, NEW c \in Candidates
    PROVE  /\ Event(Started(a, c)) /\ Starting(Started(a, c)) /\ ~Ending(Started(a, c))
           /\ Started(a, c).attempt = a /\ Started(a, c).type # "route_decided"
           /\ Started(a, c).identity = Identity(c)
  BY DEF Event, Starting, Ending, Ends, Started

LEMMA InitInv == Init => RouterInv
<1> SUFFICES ASSUME Init PROVE RouterInv
  OBVIOUS
<1>1. log = <<>> /\ registry \in Registries /\ refused = None
      /\ seen = [caller \in Callers |-> None]
  BY DEF Init
<1>2. IsSequence(<<>>) /\ Len(<<>>) = 0 /\ DOMAIN <<>> = {}
  BY DEF IsSequence
<1>3. Lawful(log)
  BY <1>1, <1>2 DEF Lawful
<1>4. Len(log) <= MaxEvents
  BY <1>1, <1>2, BoundsAssumption
<1> QED
  BY <1>1, <1>3, <1>4 DEF RouterInv, DecisionsAreRecordable

LEMMA NextInv == RouterInv /\ [Next]_vars => RouterInv'
<1> SUFFICES ASSUME RouterInv, [Next]_vars PROVE RouterInv'
  OBVIOUS
<1>0. /\ Lawful(log) /\ Len(log) <= MaxEvents /\ registry \in Registries
      /\ seen \in [Callers -> Registries \cup {None}] /\ DecisionsAreRecordable
      /\ IsSequence(log) /\ Len(log) \in Nat
  BY Appending DEF RouterInv, Lawful
<1>a. refused' = None => DecisionsAreRecordable'
  BY DEF DecisionsAreRecordable
<1>b. ASSUME NEW e, Appended(e) PROVE log' = Append(log, e) /\ Len(log') <= MaxEvents
  <2>1. log' = Append(log, e) /\ Len(log) < MaxEvents
    BY <1>b DEF Appended
  <2>2. Len(Append(log, e)) = Len(log) + 1
    BY <1>0, Appending
  <2> QED
    BY <1>0, <2>1, <2>2, BoundsAssumption
<1> DEFINE Kept == RouterInv'
<1>1. ASSUME RegistryChanges PROVE Kept
  BY <1>0, <1>1, <1>a DEF RegistryChanges, RouterInv
<1>2. ASSUME NEW caller \in Callers, ReadHomes(caller) PROVE Kept
  BY <1>0, <1>2, <1>a DEF ReadHomes, RouterInv
<1>3. ASSUME NEW caller \in Callers, NEW request \in Requests, NEW now \in Times,
             Decide(caller, request, now)
      PROVE  Kept
  <2> DEFINE homes == seen[caller]
             d == Evaluate(Drafts(request, log, homes, now), request, Len(log), now)
             e == [type |-> "route_decided", homes |-> homes, decision |-> d]
  <2>1. /\ homes # None /\ registry' = registry
        /\ seen' = [seen EXCEPT ![caller] = None]
        /\ IF Recordable(e.decision) THEN Appended(e) /\ refused' = None
           ELSE refused' = e.decision /\ UNCHANGED log
    BY <1>3 DEF Decide, Decided
  <2>2. homes \in Registries /\ seen' \in [Callers -> Registries \cup {None}]
    BY <1>0, <2>1
  <2>3. e.type = "route_decided" /\ e.homes = homes /\ e.decision = d
    OBVIOUS
  <2>4. \A c \in Candidates : DraftInv(Drafts(request, log, homes, now)[c])
    BY <1>0, DraftsTyped
  <2> HIDE DEF homes, e, d
  <2>5. CASE Recordable(d)
    <3>1. Appended(e) /\ refused' = None
      BY <2>1, <2>3, <2>5
    <3>2. Lawful(Append(log, e))
      BY <1>0, <2>2, <2>3, LawfulDecision DEF d
    <3>3. log' = Append(log, e) /\ Len(log') <= MaxEvents
      BY <1>b, <3>1
    <3> QED
      BY <1>0, <1>a, <2>1, <2>2, <3>1, <3>2, <3>3 DEF RouterInv
  <2>6. CASE ~Recordable(d)
    <3>1. refused' = d /\ log' = log
      BY <2>1, <2>3, <2>6
    <3>2. \E c \in Candidates : Cardinality(d.candidates[c].rejections) > MaxLabels
      BY <2>4, <2>6, EvaluatedRecordable DEF d
    <3>3. DecisionsAreRecordable'
      BY <3>1, <3>2 DEF DecisionsAreRecordable
    <3> QED
      BY <1>0, <2>1, <2>2, <3>1, <3>3 DEF RouterInv
  <2> QED
    BY <2>5, <2>6
<1>4. ASSUME NEW caller \in Callers, NEW a \in Attempts, NEW request \in Requests,
             NEW now \in Times, Dispatch(caller, a, request, now)
      PROVE  Kept
  <2> DEFINE homes == seen[caller]
             d == Evaluate(Drafts(request, log, homes, now), request, Len(log), now)
             e == [type |-> "route_decided", homes |-> homes, decision |-> d]
  <2>1. /\ homes # None /\ registry' = registry /\ refused' = None
        /\ seen' = [seen EXCEPT ![caller] = None] /\ a \notin AttemptsIn(log)
        /\ Len(log') <= MaxEvents
    BY <1>4 DEF Dispatch
  <2>2. PICK c \in Candidates :
            log' = log \o <<[e EXCEPT !.decision.selected = c], Started(a, c)>>
    BY <1>4 DEF Dispatch, Decided
  <2>3. homes \in Registries /\ seen' \in [Callers -> Registries \cup {None}]
    BY <1>0, <2>1
  <2> DEFINE e1 == [e EXCEPT !.decision.selected = c]
             e2 == Started(a, c)
  <2>4. /\ e1.type = "route_decided" /\ e1.homes = homes
        /\ e1.decision = [d EXCEPT !.selected = c]
    <3> HIDE DEF d, homes
    <3> QED
      OBVIOUS
  <2> HIDE DEF homes, d, e1
  <2>5. Lawful(Append(log, e1)) /\ AttemptsIn(Append(log, e1)) = AttemptsIn(log)
    BY <1>0, <2>3, <2>4, LawfulDecision DEF d
  <2>6. Lawful(Append(Append(log, e1), e2))
    <3>1. Event(e2) /\ ~Ending(e2) /\ e2.attempt = a /\ e2.type # "route_decided"
      BY StartingEvent
    <3> HIDE DEF e2
    <3> QED
      BY <2>1, <2>5, <3>1, LawfulAppend
  <2>7. log' = Append(Append(log, e1), e2)
    <3>1. log' = log \o <<e1, e2>>
      BY <2>2 DEF e1
    <3> HIDE DEF e2
    <3> QED
      BY <1>0, <3>1 DEF IsSequence
  <2> QED
    BY <1>0, <1>a, <2>1, <2>3, <2>6, <2>7 DEF RouterInv
<1>5. ASSUME NEW a \in Attempts, NEW c \in Candidates, StartAttempt(a, c) PROVE Kept
  <2>1. /\ a \notin AttemptsIn(log) /\ Appended(Started(a, c))
        /\ UNCHANGED <<registry, seen>> /\ refused' = None
    BY <1>5 DEF StartAttempt
  <2>2. Lawful(Append(log, Started(a, c)))
    BY <1>0, <2>1, StartingEvent, LawfulAppend
  <2>3. log' = Append(log, Started(a, c)) /\ Len(log') <= MaxEvents
    BY <1>b, <2>1
  <2> QED
    BY <1>0, <1>a, <2>1, <2>2, <2>3 DEF RouterInv
<1>6. ASSUME NEW a \in Attempts, NEW type \in Ends, NEW t \in Durations,
             FinishAttempt(a, type, t)
      PROVE  Kept
  <2> DEFINE e == [type |-> type, attempt |-> a, duration |-> t]
  <2>1. /\ a \in AttemptsIn(log) /\ Appended(e) /\ UNCHANGED <<registry, seen>>
        /\ refused' = None
    BY <1>6 DEF FinishAttempt
  <2>2. Event(e) /\ ~Starting(e) /\ e.attempt = a /\ e.type # "route_decided"
    BY DEF Event, Starting, Ends
  <2> HIDE DEF e
  <2>3. Lawful(Append(log, e))
    BY <1>0, <2>1, <2>2, LawfulAppend
  <2>4. log' = Append(log, e) /\ Len(log') <= MaxEvents
    BY <1>b, <2>1
  <2> QED
    BY <1>0, <1>a, <2>1, <2>3, <2>4 DEF RouterInv
<1>7. ASSUME NEW e \in Reports, Report(e) PROVE Kept
  <2>1. Appended(e) /\ UNCHANGED <<registry, seen>> /\ refused' = None
    BY <1>7 DEF Report
  <2>2. Event(e) /\ ~Starting(e) /\ ~Ending(e) /\ e.type # "route_decided"
    <3>1. e.type \in HealthTypes
      BY TypesAssumption
    <3> QED
      BY <3>1 DEF Event, Starting, Ending, Ends, HealthTypes
  <2>3. Lawful(Append(log, e))
    BY <1>0, <2>2, LawfulAppend
  <2>4. log' = Append(log, e) /\ Len(log') <= MaxEvents
    BY <1>b, <2>1
  <2> QED
    BY <1>0, <1>a, <2>1, <2>3, <2>4 DEF RouterInv
<1>8. ASSUME UNCHANGED vars PROVE Kept
  BY <1>0, <1>8 DEF vars, RouterInv, DecisionsAreRecordable
<1> HIDE DEF Kept
<1>9. ASSUME Next PROVE Kept
  BY <1>1, <1>2, <1>3, <1>4, <1>5, <1>6, <1>7, <1>9 DEF Next
<1>10. Kept
  BY <1>8, <1>9
<1> QED
  BY <1>10 DEF Kept

THEOREM RouterInvariant == Spec => []RouterInv
  BY InitInv, NextInv, PTL DEF Spec

\* What the first n events say is what TypeOK says of their decisions.
LEMMA InvType == RouterInv => TypeOK
<1> SUFFICES ASSUME RouterInv PROVE TypeOK
  OBVIOUS
<1>1. \A n \in Decisions : /\ log[n].decision.observed = n - 1
                           /\ log[n].decision.selected \in Candidates \cup {None}
  BY DEF Decisions, RouterInv, Lawful, DecidedOn
<1> QED
  BY <1>1 DEF TypeOK, RouterInv

\* The types of the router: every recorded decision saw exactly the events before it.
THEOREM RouterTypeCorrect == Spec => []TypeOK
  BY RouterInvariant, InvType, PTL

\* Whatever valid request meets whatever log, the engine decides nothing the verifier
\* of the log refuses, but for more rejections than an event may hold texts.
THEOREM DecisionsAreRecordableHolds == Spec => []DecisionsAreRecordable
<1>1. RouterInv => DecisionsAreRecordable
  BY DEF RouterInv
<1> QED
  BY RouterInvariant, <1>1, PTL

----------------------------------------------------------------------------
\* A dispatch stays within the concurrency of the candidate it takes.

\* A candidate without a rejection has no ground for one.
LEMMA NoGround ==
    ASSUME NEW c, NEW request, NEW r, NEW homes, NEW now
    PROVE  Rejections(c, request, r, homes, now) = {} <=>
            /\ \A g \in DOMAIN Grounds(c, request, r, homes, now) :
                    ~Grounds(c, request, r, homes, now)[g]
            /\ RequiredCapabilities(request) \subseteq Profile(c).capabilities
<1> DEFINE g == Grounds(c, request, r, homes, now)
           G == {x \in DOMAIN g : g[x]}
           L == RequiredCapabilities(request) \ Profile(c).capabilities
<1>1. Rejections(c, request, r, homes, now)
        = {<<x, None>> : x \in G} \cup {<<"capability", label>> : label \in L}
  BY DEF Rejections
<1>2. G = {} <=> \A x \in DOMAIN g : ~g[x]
  <2> HIDE DEF g
  <2> QED
    OBVIOUS
<1>3. L = {} <=> RequiredCapabilities(request) \subseteq Profile(c).capabilities
  OBVIOUS
<1> HIDE DEF G, L
<1>4. {<<x, None>> : x \in G} \cup {<<"capability", label>> : label \in L} = {}
        <=> G = {} /\ L = {}
  OBVIOUS
<1> HIDE DEF g
<1> QED
  BY <1>1, <1>2, <1>3, <1>4 DEF g

LEMMA DispatchStep ==
    ASSUME RouterInv, NEW caller \in Callers, NEW a \in Attempts, NEW request \in Requests,
           NEW now \in Times, Dispatch(caller, a, request, now), NEW c \in Candidates,
           log'[Len(log) + 1].decision.selected = c
    PROVE  ActiveAttempts(FromEvents(c, log')) <= Profile(c).capacity
<1> DEFINE homes == seen[caller]
           draft == Drafts(request, log, homes, now)
           d == Evaluate(draft, request, Len(log), now)
           e == [type |-> "route_decided", homes |-> homes, decision |-> d]
           r == FromEvents(c, log)
<1>1. PICK x \in Candidates :
        /\ d.candidates[x].eligible
        /\ log' = log \o <<[e EXCEPT !.decision.selected = x], Started(a, x)>>
  <2>1. Decided(caller, request, now) = {e}
    <3>1. Decided(caller, request, now) =
            {[type |-> "route_decided", homes |-> homes,
              decision |-> Evaluate(drafts, request, Len(log), now)] : drafts \in {draft}}
      BY DEF Decided
    <3> HIDE DEF homes, draft
    <3> QED
      BY <3>1
  <2>2. e.decision = d
    OBVIOUS
  <2> HIDE DEF e, d
  <2>3. \E x \in {x \in Candidates : e.decision.candidates[x].eligible} :
            log' = log \o <<[e EXCEPT !.decision.selected = x], Started(a, x)>>
    BY <2>1 DEF Dispatch
  <2> QED
    BY <2>2, <2>3
<1> DEFINE e1 == [e EXCEPT !.decision.selected = x]
           e2 == Started(a, x)
<1>2. e1.type = "route_decided" /\ e1.decision = [d EXCEPT !.selected = x]
  <2> HIDE DEF d, homes
  <2> QED
    OBVIOUS
<1>3. d.candidates[c].eligible <=> draft[c].rejections = {}
  <2> HIDE DEF draft
  <2>1. d.candidates[c].eligible = (c \in Eligible(draft))
    BY Evaluated
  <2> HIDE DEF d
  <2> QED
    BY <2>1 DEF Eligible
<1>4. [d EXCEPT !.selected = x].selected = x
  <2> HIDE DEF draft
  <2> QED
    BY Evaluated
<1>5. /\ Event(e2) /\ e2.type = "attempt_started" /\ e2.attempt = a
  BY StartingEvent DEF Starting
<1>6. IsSequence(log) /\ Len(log) \in Nat /\ Lawful(log)
  BY Appending DEF RouterInv, Lawful
<1>7. draft[c].rejections = Rejections(c, request, r, homes, now)
  BY DEF Drafts, Draft
<1> HIDE DEF homes, draft, d, e1, e2, r
<1>8. log' = Append(Append(log, e1), e2)
  <2>1. log' = log \o <<e1, e2>>
    BY <1>1 DEF e1, e2
  <2> QED
    BY <1>6, <2>1 DEF IsSequence
<1>9. x = c
  <2>1. /\ IsSequence(Append(log, e1)) /\ Len(Append(log, e1)) = Len(log) + 1
        /\ Append(log, e1)[Len(log) + 1] = e1
    BY <1>6, Appending
  <2>2. log'[Len(log) + 1] = e1
    <3>1. Len(log) + 1 \in 1..Len(Append(log, e1))
      BY <1>6, <2>1
    <3> QED
      BY <1>8, <2>1, <3>1, Appending
  <2> QED
    BY <1>2, <1>4, <2>2
<1>10. ~(ActiveAttempts(r) >= Profile(c).capacity)
  <2>1. Rejections(c, request, r, homes, now) = {}
    BY <1>1, <1>3, <1>7, <1>9
  <2>2. \A g \in DOMAIN Grounds(c, request, r, homes, now) :
            ~Grounds(c, request, r, homes, now)[g]
    BY <2>1, NoGround
  <2>3. ~Grounds(c, request, r, homes, now)["load"]
    BY <2>2 DEF Grounds
  <2> QED
    BY <2>3 DEF Grounds
<1>11. RuntimeInv(r)
  <2>1. Len(log) \in 0..Len(log) /\ SubSeq(log, 1, Len(log)) = log
    <3>1. Len(log) \in 0..Len(log)
      BY <1>6
    <3> QED
      BY <1>6, <3>1, FirstEvents
  <2> QED
    BY <1>6, <2>1, RuntimeTyped DEF After, r
<1>12. FromEvents(c, log') = Observe(r, e2, c)
  <2>1. FromEvents(c, Append(log, e1)) = Observe(r, e1, c)
    BY <1>6, Known DEF r
  <2>2. Observe(r, e1, c) = r
    BY <1>2 DEF Observe, Ends, HealthTypes
  <2>3. IsSequence(Append(log, e1))
    BY <1>6, Appending
  <2> QED
    BY <1>8, <2>1, <2>2, <2>3, Known
<1> DEFINE o == Observe(r, e2, c)
<1>13. o = IF IdentityMatches(e2.identity, c) THEN [r EXCEPT !.starts = @ \cup {a}] ELSE r
  BY <1>5 DEF Observe, Ends, HealthTypes
<1> HIDE DEF o
<1>14. /\ IsFiniteSet(r.starts) /\ r \in Runtimes
  BY <1>11 DEF RuntimeInv
<1>15. o.starts \ o.terminals \subseteq (r.starts \ r.terminals) \cup {a}
  BY <1>13, <1>14 DEF Runtimes
<1>16. ActiveAttempts(o) <= ActiveAttempts(r) + 1 /\ ActiveAttempts(o) \in Nat
       /\ ActiveAttempts(r) \in Nat
  <2> DEFINE A == r.starts \ r.terminals
             B == o.starts \ o.terminals
  <2>1. IsFiniteSet(A)
    BY <1>14, FS_Subset
  <2>2. IsFiniteSet(A \cup {a}) /\ Cardinality(A \cup {a}) <= Cardinality(A) + 1
        /\ Cardinality(A) \in Nat
    BY <2>1, FS_AddElement, FS_CardinalityType
  <2>3. B \subseteq A \cup {a}
    BY <1>15
  <2> HIDE DEF A, B
  <2>4. IsFiniteSet(B) /\ Cardinality(B) <= Cardinality(A \cup {a})
    BY <2>2, <2>3, FS_Subset
  <2>5. Cardinality(B) \in Nat /\ Cardinality(A \cup {a}) \in Nat
    BY <2>2, <2>4, FS_CardinalityType
  <2>6. Cardinality(B) <= Cardinality(A) + 1
    BY <2>2, <2>4, <2>5
  <2> QED
    BY <2>2, <2>5, <2>6 DEF ActiveAttempts, A, B
<1>17. Profile(c).capacity \in Nat
  BY ProfileTypes
<1> QED
  BY <1>10, <1>12, <1>16, <1>17 DEF o

\* No other action appends two events.
LEMMA NextWithinCapacity ==
    ASSUME RouterInv, [Next]_vars, NEW c \in Candidates, Len(log') = Len(log) + 2,
           log'[Len(log) + 1].decision.selected = c
    PROVE  ActiveAttempts(FromEvents(c, log')) <= Profile(c).capacity
<1>0. IsSequence(log) /\ Len(log) \in Nat
  BY Appending DEF RouterInv, Lawful
<1>1. log' # log
  BY <1>0
<1>2. \A e : log' # Append(log, e)
  <2>1. \A e : Len(Append(log, e)) = Len(log) + 1
    BY <1>0, Appending
  <2> QED
    BY <1>0, <2>1
<1>3. PICK caller \in Callers, a \in Attempts, request \in Requests, now \in Times :
        Dispatch(caller, a, request, now)
  <2>1. ~RegistryChanges
    BY <1>1 DEF RegistryChanges
  <2>2. \A caller \in Callers : ~ReadHomes(caller)
    BY <1>1 DEF ReadHomes
  <2>3. \A caller \in Callers, request \in Requests, now \in Times :
            ~Decide(caller, request, now)
    BY <1>1, <1>2 DEF Decide, Appended
  <2>4. \A a \in Attempts, x \in Candidates : ~StartAttempt(a, x)
    BY <1>2 DEF StartAttempt, Appended
  <2>5. \A a \in Attempts, type \in Ends, t \in Durations : ~FinishAttempt(a, type, t)
    BY <1>2 DEF FinishAttempt, Appended
  <2>6. \A e \in Reports : ~Report(e)
    BY <1>2 DEF Report, Appended
  <2>7. ~UNCHANGED vars
    BY <1>1 DEF vars
  <2> QED
    BY <2>1, <2>2, <2>3, <2>4, <2>5, <2>6, <2>7 DEF Next
<1> QED
  BY <1>3, DispatchStep

\* A dispatch never takes the candidate it selects past its concurrency limit.
THEOREM DispatchWithinCapacityHolds == Spec => DispatchWithinCapacity
<1>1. RouterInv /\ [Next]_vars =>
        [\A c \in Candidates :
            Len(log') = Len(log) + 2 /\ log'[Len(log) + 1].decision.selected = c
            => ActiveAttempts(FromEvents(c, log')) <= Profile(c).capacity]_vars
  BY NextWithinCapacity
<1> QED
  BY <1>1, RouterInvariant, PTL DEF Spec, DispatchWithinCapacity

----------------------------------------------------------------------------
\* What is known of a candidate is what the log says, without the fold.

\* The places of the reports on a candidate, and of those that say something of its
\* quota, its authentication and its rate limit.
About(c)  == {m \in DOMAIN log : log[m].type \in HealthTypes /\ HealthMatches(log[m].identity, c)}
Quotas(c) == {m \in About(c) : log[m].quota # None}
Auths(c)  == {m \in About(c) : log[m].type = "auth_invalid" \/ log[m].auth # None}
Limits(c) == {m \in About(c) : log[m].type = "rate_limited"}

\* What they say.
HealthAt == [m \in DOMAIN log |-> [status |-> log[m].status, reachable |-> log[m].reachable,
                                   auth |-> log[m].auth]]
QuotaAt  == [m \in DOMAIN log |-> log[m].quota]
AuthAt   == [m \in DOMAIN log |-> AuthReported(log[m])]
LimitAt  == [m \in DOMAIN log |-> log[m].reset]

NewestAt(m, places) ==
    \A k \in places : log[k].ts < log[m].ts \/ (log[k].ts = log[m].ts /\ k <= m)

\* cur is what the newest of the places says.
IsNewest(cur, places, says) ==
    IF places = {} THEN cur = None
    ELSE \E m \in places : /\ NewestAt(m, places)
                           /\ cur = [ts |-> log[m].ts, value |-> says[m]]

LEMMA NewestStep ==
    ASSUME NEW n \in Nat, NEW places \in SUBSET (1..n), NEW says, NEW cur,
           \A m \in places \cup {n + 1} : log[m].ts \in Nat,
           IsNewest(cur, places, says), NEW Values, None \notin Stamped(Values),
           \A m \in places \cup {n + 1} : says[m] \in Values
    PROVE  IsNewest(Latest(cur, log[n + 1].ts, says[n + 1]), places \cup {n + 1}, says)
<1> DEFINE new == [ts |-> log[n + 1].ts, value |-> says[n + 1]]
           all == places \cup {n + 1}
<1>1. \A k \in places : k \in Nat /\ k <= n + 1
  OBVIOUS
<1>2. log[n + 1].ts \in Nat /\ n + 1 <= n + 1
  OBVIOUS
<1>3. CASE places = {}
  <2>1. cur = None /\ Latest(cur, log[n + 1].ts, says[n + 1]) = new
    BY <1>3 DEF IsNewest, Latest
  <2>2. NewestAt(n + 1, all)
    BY <1>2, <1>3 DEF NewestAt
  <2> QED
    BY <2>1, <2>2 DEF IsNewest
<1>4. CASE places # {}
  <2>1. PICK m \in places : NewestAt(m, places) /\ cur = [ts |-> log[m].ts, value |-> says[m]]
    BY <1>4 DEF IsNewest
  <2>2. cur # None /\ cur.ts = log[m].ts /\ log[m].ts \in Nat
    BY <2>1 DEF Stamped
  <2>3. CASE log[n + 1].ts >= log[m].ts
    <3>1. Latest(cur, log[n + 1].ts, says[n + 1]) = new
      BY <2>2, <2>3 DEF Latest
    <3>2. NewestAt(n + 1, all)
      <4>1. ASSUME NEW k \in places
            PROVE  log[k].ts < log[n + 1].ts \/ (log[k].ts = log[n + 1].ts /\ k <= n + 1)
        <5>1. log[k].ts <= log[m].ts /\ log[k].ts \in Nat
          BY <2>1, <2>2 DEF NewestAt
        <5> QED
          BY <1>1, <1>2, <2>2, <2>3, <5>1
      <4> QED
        BY <1>2, <4>1 DEF NewestAt
    <3> QED
      BY <3>1, <3>2 DEF IsNewest
  <2>4. CASE ~(log[n + 1].ts >= log[m].ts)
    <3>1. Latest(cur, log[n + 1].ts, says[n + 1]) = cur
      BY <2>2, <2>4 DEF Latest
    <3>2. NewestAt(m, all)
      BY <1>2, <2>1, <2>2, <2>4 DEF NewestAt
    <3> QED
      BY <2>1, <3>1, <3>2 DEF IsNewest
  <2> QED
    BY <2>3, <2>4
<1> QED
  BY <1>3, <1>4

\* There is one newest place, and it says what is known.
LEMMA NewestIs ==
    ASSUME NEW places \in SUBSET Nat, NEW says, NEW cur, IsNewest(cur, places, says),
           NEW Values, None \notin Stamped(Values),
           \A m \in places : log[m].ts \in Nat /\ says[m] \in Values
    PROVE  /\ places = {} <=> cur = None
           /\ places # {} => /\ NewestOf(places) \in places
                             /\ cur.value = says[NewestOf(places)]
<1>1. CASE places = {}
  BY <1>1 DEF IsNewest
<1>2. CASE places # {}
  <2>1. PICK m \in places : NewestAt(m, places) /\ cur = [ts |-> log[m].ts, value |-> says[m]]
    BY <1>2 DEF IsNewest
  <2>2. cur # None /\ cur.value = says[m]
    BY <2>1 DEF Stamped
  <2>3. NewestOf(places) \in places /\ NewestAt(NewestOf(places), places)
    BY <2>1 DEF NewestOf, NewestAt
  <2>4. NewestOf(places) = m
    <3> DEFINE k == NewestOf(places)
    <3>1. k \in Nat /\ m \in Nat /\ log[k].ts \in Nat /\ log[m].ts \in Nat
      BY <2>3
    <3>2. /\ log[k].ts < log[m].ts \/ (log[k].ts = log[m].ts /\ k <= m)
          /\ log[m].ts < log[k].ts \/ (log[m].ts = log[k].ts /\ m <= k)
      BY <2>1, <2>3 DEF NewestAt
    <3> HIDE DEF k
    <3> QED
      BY <3>1, <3>2 DEF k
  <2> QED
    BY <1>2, <2>2, <2>3, <2>4
<1> QED
  BY <1>1, <1>2

\* What the places say is of the types of what is known.
LEMMA PlaceTypes ==
    ASSUME NEW c, Lawful(log), NEW m \in About(c)
    PROVE  /\ log[m] \in Reports /\ log[m].ts \in Nat
           /\ HealthAt[m] \in HealthValues
           /\ QuotaAt[m] \in Nat \cup {None} /\ (m \in Quotas(c) => QuotaAt[m] \in 0..Whole)
           /\ AuthAt[m] \in BOOLEAN \cup {None}
           /\ m \in Auths(c) <=> AuthAt[m] # None
           /\ LimitAt[m] \in Nat \cup {None}
<1>1. m \in DOMAIN log /\ log[m].type \in HealthTypes /\ Event(log[m])
  BY DEF About, Lawful
<1>2. log[m] \in Reports
  BY <1>1, EventTypes
<1>3. /\ log[m].ts \in Nat
      /\ [status |-> log[m].status, reachable |-> log[m].reachable, auth |-> log[m].auth]
            \in HealthValues
      /\ log[m].quota \in 0..Whole \cup {None}
      /\ AuthReported(log[m]) \in BOOLEAN \cup {None}
      /\ log[m].reset \in Nat \cup {None}
  BY <1>2, ReportTypes
<1>4. /\ HealthAt[m] \in HealthValues /\ QuotaAt[m] = log[m].quota
      /\ AuthAt[m] = AuthReported(log[m]) /\ LimitAt[m] \in Nat \cup {None}
  BY <1>1, <1>3 DEF HealthAt, QuotaAt, AuthAt, LimitAt
<1>5. m \in Auths(c) <=> AuthAt[m] # None
  BY <1>1, <1>4, TypesAssumption DEF Auths, AuthReported
<1>6. QuotaAt[m] \in Nat \cup {None} /\ (m \in Quotas(c) => QuotaAt[m] \in 0..Whole)
  <2>1. \A x \in 0..Whole : x \in Nat
    BY DEF Whole
  <2> QED
    BY <1>3, <1>4, <2>1 DEF Quotas
<1> QED
  BY <1>2, <1>3, <1>4, <1>5, <1>6

\* The starts of a candidate, and the Attempts that ended.
Begun(c, n)   == {m \in 1..n : Starting(log[m]) /\ IdentityMatches(log[m].identity, c)}
EndedBy(a, n) == \E k \in 1..n : Ending(log[k]) /\ log[k].attempt = a

\* What is known after n events is what they say.
HealthSaid(r, c, n) ==
    /\ IsNewest(r.health, About(c) \cap (1..n), HealthAt)
    /\ IsNewest(r.quota, Quotas(c) \cap (1..n), QuotaAt)
    /\ IsNewest(r.auth, Auths(c) \cap (1..n), AuthAt)
    /\ IsNewest(r.limit, Limits(c) \cap (1..n), LimitAt)

AttemptsSaid(r, c, n) ==
    /\ r.starts = {log[m].attempt : m \in Begun(c, n)}
    /\ r.terminals = {a \in r.starts : EndedBy(a, n)}

LEMMA HealthStep ==
    ASSUME NEW c, Lawful(log), NEW n \in 0..Len(log), n < Len(log), NEW r, RuntimeInv(r),
           HealthSaid(r, c, n)
    PROVE  HealthSaid(Observe(r, log[n + 1], c), c, n + 1)
<1> DEFINE e == log[n + 1]
           o == Observe(r, e, c)
<1>0. /\ IsSequence(log) /\ Len(log) \in Nat /\ DOMAIN log = 1..Len(log)
      /\ n \in Nat /\ n + 1 \in DOMAIN log /\ Event(e)
  <2>1. IsSequence(log) /\ Len(log) \in Nat /\ DOMAIN log = 1..Len(log)
    BY Appending DEF Lawful
  <2>2. n \in Nat /\ n + 1 \in DOMAIN log
    BY <2>1
  <2> QED
    BY <2>1, <2>2 DEF Lawful
<1>1. \A Q : /\ n + 1 \in Q => Q \cap (1..(n + 1)) = (Q \cap (1..n)) \cup {n + 1}
             /\ n + 1 \notin Q => Q \cap (1..(n + 1)) = Q \cap (1..n)
             /\ Q \cap (1..n) \in SUBSET (1..n)
  BY <1>0
<1>2. Quotas(c) \subseteq About(c) /\ Auths(c) \subseteq About(c) /\ Limits(c) \subseteq About(c)
  BY DEF Quotas, Auths, Limits
<1>3. /\ IsNewest(r.health, About(c) \cap (1..n), HealthAt)
      /\ IsNewest(r.quota, Quotas(c) \cap (1..n), QuotaAt)
      /\ IsNewest(r.auth, Auths(c) \cap (1..n), AuthAt)
      /\ IsNewest(r.limit, Limits(c) \cap (1..n), LimitAt)
  BY DEF HealthSaid
<1>4. CASE n + 1 \notin About(c)
  <2>1. o.health = r.health /\ o.quota = r.quota /\ o.auth = r.auth /\ o.limit = r.limit
    <3>1. ~(e.type \in HealthTypes /\ HealthMatches(e.identity, c))
      BY <1>0, <1>4 DEF About
    <3>2. \/ o = r
          \/ o = [r EXCEPT !.starts = @ \cup {e.attempt}]
          \/ o = [r EXCEPT !.terminals = @ \cup {e.attempt},
                           !.successes = @ + IF e.type = "attempt_completed" THEN 1 ELSE 0,
                           !.duration  = @ + e.duration]
      BY <3>1 DEF Observe
    <3>3. r \in Runtimes
      BY DEF RuntimeInv
    <3> HIDE DEF o, e
    <3> QED
      BY <3>2, <3>3 DEF Runtimes
  <2>2. n + 1 \notin Quotas(c) /\ n + 1 \notin Auths(c) /\ n + 1 \notin Limits(c)
    BY <1>2, <1>4
  <2> HIDE DEF o
  <2> QED
    BY <1>1, <1>3, <1>4, <2>1, <2>2 DEF HealthSaid, o
<1>5. CASE n + 1 \in About(c)
  <2> DEFINE h  == [status |-> e.status, reachable |-> e.reachable, auth |-> e.auth]
             nh == Latest(r.health, e.ts, h)
             nq == IF e.quota = None THEN r.quota ELSE Latest(r.quota, e.ts, e.quota)
             na == IF AuthReported(e) = None THEN r.auth ELSE Latest(r.auth, e.ts, AuthReported(e))
             nl == IF e.type = "rate_limited" THEN Latest(r.limit, e.ts, e.reset) ELSE r.limit
  <2>1. o.health = nh /\ o.quota = nq /\ o.auth = na /\ o.limit = nl
    <3>1. e.type \in HealthTypes /\ HealthMatches(e.identity, c)
      BY <1>5 DEF About
    <3>2. o = [r EXCEPT !.health = nh, !.quota = nq, !.auth = na, !.limit = nl]
      BY <3>1 DEF Observe, HealthTypes, Ends
    <3>3. r \in Runtimes
      BY DEF RuntimeInv
    <3> HIDE DEF o, nh, nq, na, nl
    <3> QED
      BY <3>2, <3>3 DEF Runtimes
  <2>2. h = HealthAt[n + 1] /\ e.quota = QuotaAt[n + 1] /\ AuthReported(e) = AuthAt[n + 1]
        /\ e.reset = LimitAt[n + 1]
    BY <1>0 DEF HealthAt, QuotaAt, AuthAt, LimitAt
  <2>3. /\ \A m \in About(c) :
            /\ log[m].ts \in Nat /\ HealthAt[m] \in HealthValues
            /\ QuotaAt[m] \in Nat \cup {None} /\ AuthAt[m] \in BOOLEAN \cup {None}
            /\ m \in Auths(c) <=> AuthAt[m] # None
            /\ LimitAt[m] \in Nat \cup {None}
    BY PlaceTypes
  <2>4. /\ None \notin Stamped(HealthValues) /\ None \notin Stamped(BOOLEAN)
        /\ None \notin Stamped(Nat \cup {None})
    BY TypesAssumption
  <2> HIDE DEF h, o
  <2>5. IsNewest(nh, About(c) \cap (1..(n + 1)), HealthAt)
    <3>1. About(c) \cap (1..(n + 1)) = (About(c) \cap (1..n)) \cup {n + 1}
      BY <1>1, <1>5
    <3>2. \A m \in (About(c) \cap (1..n)) \cup {n + 1} :
            log[m].ts \in Nat /\ HealthAt[m] \in HealthValues
      BY <1>5, <2>3
    <3>3. IsNewest(Latest(r.health, log[n + 1].ts, HealthAt[n + 1]),
                   (About(c) \cap (1..n)) \cup {n + 1}, HealthAt)
      BY <1>0, <1>1, <1>3, <2>4, <3>2, NewestStep
    <3> QED
      BY <2>2, <3>1, <3>3
  <2>6. IsNewest(nq, Quotas(c) \cap (1..(n + 1)), QuotaAt)
    <3>1. n + 1 \in Quotas(c) <=> e.quota # None
      BY <1>5 DEF Quotas
    <3>2. CASE e.quota = None
      BY <1>1, <1>3, <3>1, <3>2
    <3>3. CASE e.quota # None
      <4>1. Quotas(c) \cap (1..(n + 1)) = (Quotas(c) \cap (1..n)) \cup {n + 1}
        BY <1>1, <3>1, <3>3
      <4>2. \A m \in (Quotas(c) \cap (1..n)) \cup {n + 1} :
              log[m].ts \in Nat /\ QuotaAt[m] \in Nat \cup {None}
        BY <1>2, <1>5, <2>3
      <4>3. IsNewest(Latest(r.quota, log[n + 1].ts, QuotaAt[n + 1]),
                     (Quotas(c) \cap (1..n)) \cup {n + 1}, QuotaAt)
        BY <1>0, <1>1, <1>3, <2>4, <4>2, NewestStep
      <4> QED
        BY <2>2, <3>3, <4>1, <4>3
    <3> QED
      BY <3>2, <3>3
  <2>7. IsNewest(na, Auths(c) \cap (1..(n + 1)), AuthAt)
    <3>1. n + 1 \in Auths(c) <=> AuthReported(e) # None
      BY <1>5, <2>2, <2>3
    <3>2. CASE AuthReported(e) = None
      BY <1>1, <1>3, <3>1, <3>2
    <3>3. CASE AuthReported(e) # None
      <4>1. Auths(c) \cap (1..(n + 1)) = (Auths(c) \cap (1..n)) \cup {n + 1}
        BY <1>1, <3>1, <3>3
      <4>2. \A m \in (Auths(c) \cap (1..n)) \cup {n + 1} :
              log[m].ts \in Nat /\ AuthAt[m] \in BOOLEAN
        <5>1. \A m \in (Auths(c) \cap (1..n)) \cup {n + 1} : m \in Auths(c) /\ m \in About(c)
          BY <1>2, <1>5, <3>1, <3>3
        <5> QED
          BY <2>3, <5>1
      <4>3. IsNewest(Latest(r.auth, log[n + 1].ts, AuthAt[n + 1]),
                     (Auths(c) \cap (1..n)) \cup {n + 1}, AuthAt)
        BY <1>0, <1>1, <1>3, <2>4, <4>2, NewestStep
      <4> QED
        BY <2>2, <3>3, <4>1, <4>3
    <3> QED
      BY <3>2, <3>3
  <2>8. IsNewest(nl, Limits(c) \cap (1..(n + 1)), LimitAt)
    <3>1. n + 1 \in Limits(c) <=> e.type = "rate_limited"
      BY <1>5 DEF Limits
    <3>2. CASE e.type # "rate_limited"
      BY <1>1, <1>3, <3>1, <3>2
    <3>3. CASE e.type = "rate_limited"
      <4>1. Limits(c) \cap (1..(n + 1)) = (Limits(c) \cap (1..n)) \cup {n + 1}
        BY <1>1, <3>1, <3>3
      <4>2. \A m \in (Limits(c) \cap (1..n)) \cup {n + 1} :
              log[m].ts \in Nat /\ LimitAt[m] \in Nat \cup {None}
        BY <1>2, <1>5, <2>3
      <4>3. IsNewest(Latest(r.limit, log[n + 1].ts, LimitAt[n + 1]),
                     (Limits(c) \cap (1..n)) \cup {n + 1}, LimitAt)
        BY <1>0, <1>1, <1>3, <2>4, <4>2, NewestStep
      <4> QED
        BY <2>2, <3>3, <4>1, <4>3
    <3> QED
      BY <3>2, <3>3
  <2> HIDE DEF nh, nq, na, nl
  <2> QED
    BY <2>1, <2>5, <2>6, <2>7, <2>8 DEF HealthSaid, o
<1> QED
  BY <1>4, <1>5

LEMMA AttemptsStep ==
    ASSUME NEW c, Lawful(log), NEW n \in 0..Len(log), n < Len(log), NEW r, RuntimeInv(r),
           AttemptsSaid(r, c, n)
    PROVE  AttemptsSaid(Observe(r, log[n + 1], c), c, n + 1)
<1> DEFINE e == log[n + 1]
           o == Observe(r, e, c)
<1>0. /\ IsSequence(log) /\ Len(log) \in Nat /\ DOMAIN log = 1..Len(log)
      /\ n \in Nat /\ n + 1 \in DOMAIN log /\ Event(e) /\ 1..n \subseteq DOMAIN log
  <2>1. IsSequence(log) /\ Len(log) \in Nat /\ DOMAIN log = 1..Len(log)
    BY Appending DEF Lawful
  <2>2. n \in Nat /\ n + 1 \in DOMAIN log /\ 1..n \subseteq DOMAIN log
    BY <2>1
  <2> QED
    BY <2>1, <2>2 DEF Lawful
<1>1. /\ r \in Runtimes /\ r.starts = {log[m].attempt : m \in Begun(c, n)}
      /\ r.terminals = {a \in r.starts : EndedBy(a, n)}
  BY DEF AttemptsSaid, RuntimeInv
<1>2. 1..(n + 1) = 1..n \cup {n + 1}
  BY <1>0
<1>3. CASE Starting(e) /\ IdentityMatches(e.identity, c)
  <2>1. o = [r EXCEPT !.starts = @ \cup {e.attempt}] /\ ~Ending(e)
    BY <1>3 DEF Observe, Starting, Ending, Ends, HealthTypes
  <2>2. o.starts = r.starts \cup {e.attempt} /\ o.terminals = r.terminals
    BY <1>1, <2>1 DEF Runtimes
  <2>3. Begun(c, n + 1) = Begun(c, n) \cup {n + 1}
    BY <1>2, <1>3 DEF Begun
  <2>4. \A a : EndedBy(a, n + 1) <=> EndedBy(a, n)
    BY <1>2, <2>1 DEF EndedBy
  <2>5. ~EndedBy(e.attempt, n)
    <3>1. ASSUME NEW k \in 1..n, Ending(log[k]), log[k].attempt = e.attempt PROVE FALSE
      <4>1. k \in DOMAIN log
        BY <1>0
      <4>2. PICK m \in DOMAIN log : m < k /\ Starting(log[m]) /\ log[m].attempt = log[k].attempt
        BY <3>1, <4>1 DEF Lawful
      <4>3. m = n + 1
        BY <1>0, <1>3, <3>1, <4>2 DEF Lawful
      <4> QED
        BY <1>0, <4>2, <4>3
    <3> QED
      BY <3>1 DEF EndedBy
  <2> HIDE DEF o
  <2>6. o.starts = {log[m].attempt : m \in Begun(c, n + 1)}
    BY <1>1, <2>2, <2>3
  <2>7. o.terminals = {a \in o.starts : EndedBy(a, n + 1)}
    BY <1>1, <2>2, <2>4, <2>5
  <2> QED
    BY <2>6, <2>7 DEF AttemptsSaid, o
<1>4. CASE Ending(e)
  <2>1. ~Starting(e)
    BY <1>4 DEF Starting, Ending, Ends
  <2>2. Begun(c, n + 1) = Begun(c, n)
    BY <1>2, <2>1 DEF Begun
  <2>3. \A a : EndedBy(a, n + 1) <=> EndedBy(a, n) \/ a = e.attempt
    BY <1>2, <1>4 DEF EndedBy
  <2>4. o.starts = r.starts
        /\ o.terminals = r.terminals \cup ({e.attempt} \cap r.starts)
    <3>1. o = IF e.attempt \in r.starts \ r.terminals
              THEN [r EXCEPT !.terminals = @ \cup {e.attempt},
                             !.successes = @ + IF e.type = "attempt_completed" THEN 1 ELSE 0,
                             !.duration  = @ + e.duration]
              ELSE r
      BY <1>4 DEF Observe, Ending, Ends, HealthTypes
    <3> HIDE DEF e, o
    <3>2. CASE e.attempt \in r.starts \ r.terminals
      BY <1>1, <3>1, <3>2 DEF Runtimes
    <3>3. CASE e.attempt \notin r.starts \ r.terminals
      BY <1>1, <3>1, <3>3
    <3> QED
      BY <3>2, <3>3
  <2> HIDE DEF o
  <2>5. o.starts = {log[m].attempt : m \in Begun(c, n + 1)}
    BY <1>1, <2>2, <2>4
  <2>6. o.terminals = {a \in o.starts : EndedBy(a, n + 1)}
    BY <1>1, <2>3, <2>4
  <2> QED
    BY <2>5, <2>6 DEF AttemptsSaid, o
<1>5. CASE ~(Starting(e) /\ IdentityMatches(e.identity, c)) /\ ~Ending(e)
  <2>1. o.starts = r.starts /\ o.terminals = r.terminals
    <3>1. \/ o = r
          \/ \E h, q, a, l :
                o = [r EXCEPT !.health = h, !.quota = q, !.auth = a, !.limit = l]
      <4> DEFINE h == Latest(r.health, e.ts, [status |-> e.status, reachable |-> e.reachable,
                                              auth |-> e.auth])
                 q == IF e.quota = None THEN r.quota ELSE Latest(r.quota, e.ts, e.quota)
                 a == IF AuthReported(e) = None THEN r.auth
                      ELSE Latest(r.auth, e.ts, AuthReported(e))
                 l == IF e.type = "rate_limited" THEN Latest(r.limit, e.ts, e.reset) ELSE r.limit
      <4>1. CASE e.type \in HealthTypes
        <5>1. \/ o = r
              \/ o = [r EXCEPT !.health = h, !.quota = q, !.auth = a, !.limit = l]
          BY <4>1 DEF Observe, HealthTypes, Ends
        <5> HIDE DEF h, q, a, l, o
        <5> QED
          BY <5>1
      <4>2. CASE e.type \notin HealthTypes
        <5>1. o = r
          BY <1>5, <4>2 DEF Observe, Starting, Ending
        <5> HIDE DEF h, q, a, l, o
        <5> QED
          BY <5>1
      <4> QED
        BY <4>1, <4>2
    <3> HIDE DEF o
    <3> QED
      BY <1>1, <3>1 DEF Runtimes
  <2>2. Begun(c, n + 1) = Begun(c, n)
    BY <1>2, <1>5 DEF Begun
  <2>3. \A a : EndedBy(a, n + 1) <=> EndedBy(a, n)
    BY <1>2, <1>5 DEF EndedBy
  <2> HIDE DEF o
  <2> QED
    BY <1>1, <2>1, <2>2, <2>3 DEF AttemptsSaid, o
<1> QED
  BY <1>3, <1>4, <1>5

LEMMA AllSaid ==
    ASSUME NEW c, Lawful(log)
    PROVE  \A n \in 0..Len(log) : HealthSaid(After(c, n), c, n) /\ AttemptsSaid(After(c, n), c, n)
<1>0. /\ Len(log) \in Nat /\ DOMAIN log = 1..Len(log)
      /\ After(c, 0) = NothingKnown
      /\ \A n \in 0..Len(log) :
            n < Len(log) => After(c, n + 1) = Observe(After(c, n), log[n + 1], c)
  BY AfterIs DEF Lawful
<1> DEFINE Said(n) == HealthSaid(After(c, n), c, n) /\ AttemptsSaid(After(c, n), c, n)
           T == {n \in 0..Len(log) : ~Said(n)}
<1> SUFFICES ASSUME T # {} PROVE FALSE
  OBVIOUS
<1>1. T \subseteq Nat
  BY <1>0
<1>2. PICK n \in T : \A m \in T : n <= m
  <2> HIDE DEF T
  <2> QED
    BY <1>1, LeastNumber
<1>3. n # 0
  <2>1. 1..0 = {}
    OBVIOUS
  <2>2. HealthSaid(NothingKnown, c, 0)
    BY <2>1 DEF HealthSaid, IsNewest, NothingKnown
  <2>3. AttemptsSaid(NothingKnown, c, 0)
    BY <2>1 DEF AttemptsSaid, NothingKnown, Begun
  <2>4. Said(0)
    BY <1>0, <2>2, <2>3
  <2> HIDE DEF Said
  <2> QED
    BY <2>4
<1>4. n - 1 \in 0..Len(log) /\ n - 1 < Len(log) /\ n - 1 \notin T
  <2> HIDE DEF Said
  <2> QED
    BY <1>0, <1>2, <1>3
<1>5. Said(n - 1)
  <2> HIDE DEF Said
  <2> QED
    BY <1>4
<1>6. RuntimeInv(After(c, n - 1))
  BY <1>4, RuntimeTyped
<1>7. /\ HealthSaid(Observe(After(c, n - 1), log[(n - 1) + 1], c), c, (n - 1) + 1)
      /\ AttemptsSaid(Observe(After(c, n - 1), log[(n - 1) + 1], c), c, (n - 1) + 1)
  BY <1>4, <1>5, <1>6, HealthStep, AttemptsStep
<1>8. After(c, (n - 1) + 1) = Observe(After(c, n - 1), log[(n - 1) + 1], c)
  BY <1>0, <1>4
<1>9. (n - 1) + 1 = n
  <2> HIDE DEF Said
  <2> QED
    BY <1>0
<1>10. Said(n)
  BY <1>7, <1>8, <1>9
<1> HIDE DEF Said
<1> QED
  BY <1>10

----------------------------------------------------------------------------
\* Which candidates are eligible.

\* The Attempts a candidate runs, counted by their starts.
LEMMA RunningCounted ==
    ASSUME NEW c, Lawful(log), NEW n \in DOMAIN log
    PROVE  Cardinality(Running(c, n)) = ActiveAttempts(After(c, n - 1))
<1> DEFINE r == After(c, n - 1)
           R == Running(c, n)
           A == r.starts \ r.terminals
           f == [m \in R |-> log[m].attempt]
<1>0. /\ Len(log) \in Nat /\ DOMAIN log = 1..Len(log) /\ n - 1 \in 0..Len(log)
      /\ 1..(n - 1) \subseteq DOMAIN log /\ IsFiniteSet(1..(n - 1))
  <2>1. Len(log) \in Nat /\ DOMAIN log = 1..Len(log)
    BY Appending DEF Lawful
  <2>2. n - 1 \in 0..Len(log) /\ 1..(n - 1) \subseteq DOMAIN log
    BY <2>1
  <2>3. 1 \in Int /\ n - 1 \in Int
    BY <2>2
  <2>4. IsFiniteSet(1..(n - 1))
    BY <2>3, FS_Interval
  <2> QED
    BY <2>1, <2>2, <2>4
<1>1. /\ r.starts = {log[m].attempt : m \in Begun(c, n - 1)}
      /\ r.terminals = {a \in r.starts : EndedBy(a, n - 1)}
  BY <1>0, AllSaid DEF AttemptsSaid
<1> HIDE DEF r
<1>2. R = {m \in Begun(c, n - 1) : ~EndedBy(log[m].attempt, n - 1)}
  BY DEF Running, Begun, EndedBy, Starting, Ending
<1>3. R \subseteq 1..(n - 1) /\ R \subseteq DOMAIN log /\ IsFiniteSet(R)
  <2>1. R \subseteq 1..(n - 1)
    BY <1>2 DEF Begun
  <2> HIDE DEF R
  <2> QED
    BY <1>0, <2>1, FS_Subset
<1>4. A = {log[m].attempt : m \in R}
  <2> HIDE DEF R
  <2> QED
    BY <1>1, <1>2
<1>5. \A m, k \in R : log[m].attempt = log[k].attempt => m = k
  <2>1. \A m \in R : m \in DOMAIN log /\ Starting(log[m])
    BY <1>2, <1>3 DEF Begun
  <2> HIDE DEF R
  <2> QED
    BY <2>1 DEF Lawful
<1>6. f \in Bijection(R, A)
  <2> HIDE DEF R, A
  <2>1. \A m \in R : f[m] = log[m].attempt
    OBVIOUS
  <2>2. f \in [R -> A]
    BY <1>4
  <2>3. \A a \in A : \E m \in R : f[m] = a
    BY <1>4
  <2>4. \A m, k \in R : f[m] = f[k] => m = k
    BY <1>5, <2>1
  <2> HIDE DEF f
  <2> QED
    BY <2>2, <2>3, <2>4 DEF Bijection, Injection, Surjection, IsInjective
<1>7. Cardinality(A) = Cardinality(R)
  <2> HIDE DEF R, A, f
  <2>1. ExistsBijection(R, A)
    BY <1>6 DEF ExistsBijection
  <2> QED
    BY <1>3, <2>1, FS_Bijection
<1> QED
  BY <1>7 DEF ActiveAttempts, r

\* What the newest reports allow is what is known after the events.
LEMMA ReportsKnown ==
    ASSUME NEW c, Lawful(log), NEW n \in DOMAIN log, NEW request \in Requests,
           NEW now \in Times, NEW r, r = After(c, n - 1)
    PROVE  ReportsAllow(c, n, request, now) <=>
            /\ ~(r.health # None /\ ~r.health.value.reachable)
            /\ ~(/\ r.health # None /\ ~request.allowDegraded
                 /\ r.health.value.status = "unhealthy" /\ r.health.value.reachable)
            /\ ~(r.auth # None /\ ~r.auth.value)
            /\ ~(r.quota # None /\ r.quota.value = 0)
            /\ ~(/\ r.limit # None
                 /\ r.limit.value = None \/ r.limit.value > now)
<1>0. /\ Len(log) \in Nat /\ DOMAIN log = 1..Len(log) /\ n - 1 \in 0..Len(log)
      /\ 1..(n - 1) \subseteq DOMAIN log /\ 1..(n - 1) \subseteq Nat
  <2>1. Len(log) \in Nat /\ DOMAIN log = 1..Len(log)
    BY Appending DEF Lawful
  <2> QED
    BY <2>1
<1> DEFINE H == About(c) \cap (1..(n - 1))
           Q == Quotas(c) \cap (1..(n - 1))
           U == Auths(c) \cap (1..(n - 1))
           L == Limits(c) \cap (1..(n - 1))
<1>1. /\ IsNewest(r.health, H, HealthAt) /\ IsNewest(r.quota, Q, QuotaAt)
      /\ IsNewest(r.auth, U, AuthAt) /\ IsNewest(r.limit, L, LimitAt)
  BY <1>0, AllSaid DEF HealthSaid
<1>2. /\ H \subseteq About(c) /\ Q \subseteq About(c) /\ U \subseteq About(c)
      /\ L \subseteq About(c) /\ U \subseteq Auths(c) /\ Q \subseteq Quotas(c)
      /\ L \subseteq Limits(c)
  BY DEF Quotas, Auths, Limits
<1>3. /\ H \in SUBSET Nat /\ Q \in SUBSET Nat /\ U \in SUBSET Nat /\ L \in SUBSET Nat
      /\ H \subseteq DOMAIN log
  BY <1>0
<1>4. \A m \in About(c) :
        /\ log[m].ts \in Nat /\ HealthAt[m] \in HealthValues /\ log[m] \in Reports
        /\ QuotaAt[m] \in Nat \cup {None} /\ AuthAt[m] \in BOOLEAN \cup {None}
        /\ m \in Quotas(c) => QuotaAt[m] \in 0..Whole
        /\ m \in Auths(c) <=> AuthAt[m] # None
        /\ LimitAt[m] \in Nat \cup {None}
  BY PlaceTypes
<1>5. /\ None \notin Stamped(HealthValues) /\ None \notin Stamped(BOOLEAN)
      /\ None \notin Stamped(Nat \cup {None})
  BY TypesAssumption
<1>6. /\ Reported(c, n, LAMBDA e : TRUE) = H
      /\ Reported(c, n, LAMBDA e : e.quota # None) = Q
      /\ Reported(c, n, LAMBDA e : e.type = "auth_invalid" \/ e.auth # None) = U
      /\ Reported(c, n, LAMBDA e : e.type = "rate_limited") = L
  BY <1>0 DEF Reported, About, Quotas, Auths, Limits
<1> HIDE DEF H, Q, U, L
<1>7. ReportsAllow(c, n, request, now) <=>
        /\ H # {} => log[NewestOf(H)].reachable
        /\ request.allowDegraded \/ (H # {} => log[NewestOf(H)].status # "unhealthy")
        /\ Q # {} => log[NewestOf(Q)].quota > 0
        /\ U # {} => log[NewestOf(U)].type # "auth_invalid" /\ log[NewestOf(U)].auth
        /\ L # {} => log[NewestOf(L)].reset # None /\ log[NewestOf(L)].reset <= now
  BY <1>6 DEF ReportsAllow, Newest
<1>8. /\ H = {} <=> r.health = None
      /\ H # {} => NewestOf(H) \in H /\ r.health.value = HealthAt[NewestOf(H)]
  <2>1. \A m \in H : log[m].ts \in Nat /\ HealthAt[m] \in HealthValues
    BY <1>2, <1>4
  <2> QED
    BY <1>1, <1>3, <1>5, <2>1, NewestIs
<1>9. /\ Q = {} <=> r.quota = None
      /\ Q # {} => NewestOf(Q) \in Q /\ r.quota.value = QuotaAt[NewestOf(Q)]
  <2>1. \A m \in Q : log[m].ts \in Nat /\ QuotaAt[m] \in Nat \cup {None}
    BY <1>2, <1>4
  <2> QED
    BY <1>1, <1>3, <1>5, <2>1, NewestIs
<1>10. /\ U = {} <=> r.auth = None
       /\ U # {} => NewestOf(U) \in U /\ r.auth.value = AuthAt[NewestOf(U)]
  <2>1. \A m \in U : log[m].ts \in Nat /\ AuthAt[m] \in BOOLEAN
    BY <1>2, <1>4
  <2> QED
    BY <1>1, <1>3, <1>5, <2>1, NewestIs
<1>11. /\ L = {} <=> r.limit = None
       /\ L # {} => NewestOf(L) \in L /\ r.limit.value = LimitAt[NewestOf(L)]
  <2>1. \A m \in L : log[m].ts \in Nat /\ LimitAt[m] \in Nat \cup {None}
    BY <1>2, <1>4
  <2> QED
    BY <1>1, <1>3, <1>5, <2>1, NewestIs
<1>12. About(c) \subseteq DOMAIN log
  BY DEF About
<1>13. H # {} => /\ r.health.value.reachable = log[NewestOf(H)].reachable
                 /\ r.health.value.status = log[NewestOf(H)].status
  <2>1. \A m \in DOMAIN log : HealthAt[m].reachable = log[m].reachable
                              /\ HealthAt[m].status = log[m].status
    BY DEF HealthAt
  <2> QED
    BY <1>2, <1>8, <1>12, <2>1
<1>14. Q # {} => /\ r.quota.value = log[NewestOf(Q)].quota
                 /\ log[NewestOf(Q)].quota \in Nat
  <2>1. \A m \in DOMAIN log : QuotaAt[m] = log[m].quota
    BY DEF QuotaAt
  <2>2. \A m \in Quotas(c) : log[m].quota # None
    BY DEF Quotas
  <2> QED
    BY <1>2, <1>4, <1>9, <1>12, <2>1, <2>2
<1>15. U # {} => (r.auth.value <=> log[NewestOf(U)].type # "auth_invalid" /\ log[NewestOf(U)].auth)
  <2> SUFFICES ASSUME U # {}
               PROVE  r.auth.value <=> /\ log[NewestOf(U)].type # "auth_invalid"
                                       /\ log[NewestOf(U)].auth
    OBVIOUS
  <2> DEFINE m == NewestOf(U)
  <2>1. m \in U /\ r.auth.value = AuthAt[m]
    BY <1>10
  <2>2. AuthAt[m] = IF log[m].type = "auth_invalid" THEN FALSE ELSE log[m].auth
    BY <1>2, <1>12, <2>1 DEF AuthAt, AuthReported
  <2> HIDE DEF m
  <2>3. CASE log[m].type = "auth_invalid"
    BY <2>1, <2>2, <2>3 DEF m
  <2>4. CASE log[m].type # "auth_invalid"
    BY <2>1, <2>2, <2>4 DEF m
  <2> QED
    BY <2>3, <2>4
<1>16. L # {} => /\ r.limit.value = log[NewestOf(L)].reset
                 /\ log[NewestOf(L)].reset \in Nat \cup {None}
  <2>1. \A m \in DOMAIN log : LimitAt[m] = log[m].reset
    BY DEF LimitAt
  <2> QED
    BY <1>2, <1>4, <1>11, <1>12, <2>1
<1>17. now \in Nat
  BY TypesAssumption
<1>18. (H # {} => log[NewestOf(H)].reachable) <=> ~(r.health # None /\ ~r.health.value.reachable)
  BY <1>8, <1>13
<1>19. (H # {} => log[NewestOf(H)].reachable) =>
        (request.allowDegraded \/ (H # {} => log[NewestOf(H)].status # "unhealthy")
         <=> ~(/\ r.health # None /\ ~request.allowDegraded
               /\ r.health.value.status = "unhealthy" /\ r.health.value.reachable))
  BY <1>8, <1>13
<1>20. (Q # {} => log[NewestOf(Q)].quota > 0) <=> ~(r.quota # None /\ r.quota.value = 0)
  BY <1>9, <1>14
<1>21. (U # {} => log[NewestOf(U)].type # "auth_invalid" /\ log[NewestOf(U)].auth)
        <=> ~(r.auth # None /\ ~r.auth.value)
  BY <1>10, <1>15
<1>22. (L # {} => log[NewestOf(L)].reset # None /\ log[NewestOf(L)].reset <= now)
        <=> ~(r.limit # None /\ (r.limit.value = None \/ r.limit.value > now))
  <2>1. CASE L = {}
    BY <1>11, <2>1
  <2>2. CASE L # {}
    <3> DEFINE v == log[NewestOf(L)].reset
    <3>1. v \in Nat \cup {None} /\ r.limit.value = v /\ r.limit # None
      BY <1>11, <1>16, <2>2
    <3> HIDE DEF v
    <3>2. (v # None /\ v <= now) <=> ~(v = None \/ v > now)
      BY <1>17, <3>1
    <3> QED
      BY <2>2, <3>1, <3>2 DEF v
  <2> QED
    BY <2>1, <2>2
<1> QED
  BY <1>7, <1>18, <1>19, <1>20, <1>21, <1>22

\* A profile fits a request when nothing in it is a ground for a rejection.
LEMMA ProfileFits ==
    ASSUME NEW c \in Candidates, NEW request \in Requests
    PROVE  ProfileAllows(c, request) <=>
            /\ Profile(c).enabled
            /\ ~(request.lockedHome # None /\ ~MatchesHome(c, request.lockedHome))
            /\ ~(request.lockedModel \notin {None, Profile(c).model})
            /\ ~(request.domain # None /\ request.domain \notin Profile(c).domains)
            /\ ~(request.context + request.output > Profile(c).context)
            /\ ~(Rule(request).strength # None /\ Profile(c).strength < Rule(request).strength)
            /\ ~(request.maxCost # None /\ EstimatedCost(c, request) > request.maxCost)
            /\ RequiredCapabilities(request) \subseteq Profile(c).capabilities
<1>1. /\ request.context \in Nat /\ request.output \in Nat
      /\ request.maxCost \in Nat \cup {None} /\ Rule(request).strength \in Nat \cup {None}
  BY RequestTypes
<1>2. Profile(c).context \in Nat /\ Profile(c).strength \in Nat
  <2>1. Profile(c).context \in Nat /\ Profile(c).strength \in 0..Whole
    BY ProfileTypes
  <2>2. \A x \in 0..Whole : x \in Nat
    BY DEF Whole
  <2> QED
    BY <2>1, <2>2
<1>3. EstimatedCost(c, request) \in Nat
  <2>1. Profile(c).inputPrice \in Nat /\ Profile(c).outputPrice \in Nat
    BY ProfileTypes
  <2> DEFINE a == request.context * Profile(c).inputPrice
             b == request.output * Profile(c).outputPrice
  <2>2. a \in Nat /\ b \in Nat
    BY <1>1, <2>1
  <2>3. EstimatedCost(c, request) = (a + b + 999999) \div 1000000
    BY DEF EstimatedCost
  <2> HIDE DEF a, b
  <2> QED
    BY <2>2, <2>3, Quotient
<1>4. (request.context + request.output <= Profile(c).context)
        <=> ~(request.context + request.output > Profile(c).context)
  BY <1>1, <1>2
<1>5. (Rule(request).strength # None => Rule(request).strength <= Profile(c).strength)
        <=> ~(Rule(request).strength # None /\ Profile(c).strength < Rule(request).strength)
  BY <1>1, <1>2
<1>6. (request.maxCost # None => EstimatedCost(c, request) <= request.maxCost)
        <=> ~(request.maxCost # None /\ EstimatedCost(c, request) > request.maxCost)
  BY <1>1, <1>3
<1>7. (request.lockedHome \in {None, Profile(c).home, Profile(c).alias})
        <=> ~(request.lockedHome # None /\ ~MatchesHome(c, request.lockedHome))
  BY DEF MatchesHome
<1>8. (request.domain \in {None} \cup Profile(c).domains)
        <=> ~(request.domain # None /\ request.domain \notin Profile(c).domains)
  OBVIOUS
<1> QED
  BY <1>4, <1>5, <1>6, <1>7, <1>8 DEF ProfileAllows, RequiredCapabilities

\* The grounds, taken together.
LEMMA GroundsAre ==
    ASSUME NEW c \in Candidates, NEW request \in Requests, NEW r, NEW homes, NEW now
    PROVE  Rejections(c, request, r, homes, now) = {} <=>
            /\ ProfileAllows(c, request)
            /\ HomeAvailable(c, homes)
            /\ ~(ActiveAttempts(r) >= Profile(c).capacity)
            /\ ~(r.health # None /\ ~r.health.value.reachable)
            /\ ~(/\ r.health # None /\ ~request.allowDegraded
                 /\ r.health.value.status = "unhealthy" /\ r.health.value.reachable)
            /\ ~(r.auth # None /\ ~r.auth.value)
            /\ ~(r.quota # None /\ r.quota.value = 0)
            /\ ~(/\ r.limit # None
                 /\ r.limit.value = None \/ r.limit.value > now)
<1> DEFINE g == Grounds(c, request, r, homes, now)
<1>1. Rejections(c, request, r, homes, now) = {} <=>
        /\ \A x \in DOMAIN g : ~g[x]
        /\ RequiredCapabilities(request) \subseteq Profile(c).capabilities
  BY NoGround
<1>2. DOMAIN g = {"disabled", "home", "lockedHome", "lockedModel", "domain", "context",
                  "strength", "cost", "load", "unreachable", "unhealthy", "auth", "quota",
                  "limited"}
  BY DEF Grounds
<1>3. /\ g["disabled"] <=> ~Profile(c).enabled
      /\ g["home"] <=> ~HomeAvailable(c, homes)
      /\ g["lockedHome"] <=> request.lockedHome # None /\ ~MatchesHome(c, request.lockedHome)
      /\ g["lockedModel"] <=> request.lockedModel \notin {None, Profile(c).model}
      /\ g["domain"] <=> request.domain # None /\ request.domain \notin Profile(c).domains
  BY DEF Grounds
<1>4. /\ g["context"] <=> request.context + request.output > Profile(c).context
      /\ g["strength"] <=> Rule(request).strength # None
                           /\ Profile(c).strength < Rule(request).strength
      /\ g["cost"] <=> request.maxCost # None /\ EstimatedCost(c, request) > request.maxCost
      /\ g["load"] <=> ActiveAttempts(r) >= Profile(c).capacity
  BY DEF Grounds
<1>5. /\ g["unreachable"] <=> r.health # None /\ ~r.health.value.reachable
      /\ g["unhealthy"] <=> /\ r.health # None /\ ~request.allowDegraded
                            /\ r.health.value.status = "unhealthy"
                            /\ r.health.value.reachable
      /\ g["auth"] <=> r.auth # None /\ ~r.auth.value
      /\ g["quota"] <=> r.quota # None /\ r.quota.value = 0
      /\ g["limited"] <=> /\ r.limit # None
                          /\ r.limit.value = None \/ r.limit.value > now
  BY DEF Grounds
<1> HIDE DEF g
<1>6. (\A x \in DOMAIN g : ~g[x]) <=>
        /\ ~g["disabled"] /\ ~g["home"] /\ ~g["lockedHome"] /\ ~g["lockedModel"]
        /\ ~g["domain"] /\ ~g["context"] /\ ~g["strength"] /\ ~g["cost"] /\ ~g["load"]
        /\ ~g["unreachable"] /\ ~g["unhealthy"] /\ ~g["auth"] /\ ~g["quota"] /\ ~g["limited"]
  BY <1>2
<1> QED
  BY <1>1, <1>3, <1>4, <1>5, <1>6, ProfileFits

\* What a decision in the log was made of.
LEMMA DecisionMade ==
    ASSUME RouterInv, NEW n \in Decisions
    PROVE  /\ log[n].decision.request \in Requests /\ log[n].decision.now \in Times
           /\ n \in DOMAIN log
           /\ \A c \in Candidates : RuntimeInv(After(c, n - 1))
           /\ log[n].decision.candidates
                = Evaluate([c \in Candidates |->
                                Draft(c, log[n].decision.request, SubSeq(log, 1, n - 1),
                                      log[n].homes, log[n].decision.now)],
                           log[n].decision.request, n - 1, log[n].decision.now).candidates
<1>1. n \in DOMAIN log /\ Lawful(log) /\ DecidedOn(log, n)
  BY DEF Decisions, RouterInv, Lawful
<1>2. PICK request \in Requests, now \in Times :
        /\ log[n].decision.request = request /\ log[n].decision.now = now
        /\ log[n].decision.candidates
            = Evaluate(Drafts(request, SubSeq(log, 1, n - 1), log[n].homes, now),
                       request, n - 1, now).candidates
  BY <1>1 DEF DecidedOn
<1>3. n - 1 \in 0..Len(log)
  <2>1. Len(log) \in Nat /\ DOMAIN log = 1..Len(log)
    BY <1>1, Appending DEF Lawful
  <2> QED
    BY <1>1, <2>1
<1>4. \A c \in Candidates : RuntimeInv(After(c, n - 1))
  BY <1>1, <1>3, RuntimeTyped
<1> QED
  BY <1>1, <1>2, <1>4 DEF Drafts

LEMMA InvEligible == RouterInv => EligibleExactly
<1> SUFFICES ASSUME RouterInv, NEW n \in NewDecisions, NEW c \in Candidates
             PROVE  LET d == log[n].decision
                    IN  d.candidates[c].eligible <=>
                            /\ ProfileAllows(c, d.request)
                            /\ HomeAvailable(c, log[n].homes)
                            /\ Cardinality(Running(c, n)) < Profile(c).capacity
                            /\ ReportsAllow(c, n, d.request, d.now)
  BY DEF EligibleExactly
<1> DEFINE d == log[n].decision
           request == d.request
           now == d.now
           homes == log[n].homes
           r == After(c, n - 1)
           draft == [x \in Candidates |-> Draft(x, request, SubSeq(log, 1, n - 1), homes, now)]
<1>1. /\ request \in Requests /\ now \in Times /\ n \in DOMAIN log /\ RuntimeInv(r)
      /\ d.candidates = Evaluate(draft, request, n - 1, now).candidates
  <2>1. n \in Decisions
    BY DEF NewDecisions
  <2> QED
    BY <2>1, DecisionMade
<1>2. Lawful(log)
  BY DEF RouterInv
<1>3. draft[c].rejections = Rejections(c, request, r, homes, now)
  BY DEF Draft, After
<1> HIDE DEF draft
<1>4. d.candidates[c].eligible <=> Rejections(c, request, r, homes, now) = {}
  <2> DEFINE e == Evaluate(draft, request, n - 1, now)
  <2> HIDE DEF request, now
  <2>1. e.candidates[c].eligible = (c \in Eligible(draft))
    BY Evaluated
  <2>2. c \in Eligible(draft) <=> draft[c].rejections = {}
    BY DEF Eligible
  <2> HIDE DEF e
  <2>3. d.candidates = e.candidates
    BY <1>1 DEF e
  <2> QED
    BY <1>3, <2>1, <2>2, <2>3
<1>5. (~(ActiveAttempts(r) >= Profile(c).capacity))
        <=> Cardinality(Running(c, n)) < Profile(c).capacity
  <2>1. Cardinality(Running(c, n)) = ActiveAttempts(r)
    BY <1>1, <1>2, RunningCounted
  <2>2. ActiveAttempts(r) \in Nat
    <3>1. IsFiniteSet(r.starts \ r.terminals)
      BY <1>1, FS_Difference DEF RuntimeInv
    <3> QED
      BY <3>1, FS_CardinalityType DEF ActiveAttempts
  <2>3. Profile(c).capacity \in Nat
    BY ProfileTypes
  <2> HIDE DEF r
  <2> QED
    BY <2>1, <2>2, <2>3
<1>6. ReportsAllow(c, n, request, now) <=>
            /\ ~(r.health # None /\ ~r.health.value.reachable)
            /\ ~(/\ r.health # None /\ ~request.allowDegraded
                 /\ r.health.value.status = "unhealthy" /\ r.health.value.reachable)
            /\ ~(r.auth # None /\ ~r.auth.value)
            /\ ~(r.quota # None /\ r.quota.value = 0)
            /\ ~(/\ r.limit # None
                 /\ r.limit.value = None \/ r.limit.value > now)
  BY <1>1, <1>2, ReportsKnown
<1>7. Rejections(c, request, r, homes, now) = {} <=>
            /\ ProfileAllows(c, request)
            /\ HomeAvailable(c, homes)
            /\ ~(ActiveAttempts(r) >= Profile(c).capacity)
            /\ ReportsAllow(c, n, request, now)
  BY <1>1, <1>6, GroundsAre
<1> QED
  BY <1>4, <1>5, <1>7

\* A candidate is eligible in a decision exactly when its profile, its Home, its running
\* Attempts and the newest reports on it allow it, in whatever order the reports came.
THEOREM EligibleExactlyHolds == Spec => []EligibleExactly
  BY RouterInvariant, InvEligible, PTL

----------------------------------------------------------------------------
\* No part of the score turns against the candidate that is as good.

\* What is proved of quotients holds of what is at most the whole of them.
LEMMA CappedMonotone ==
    ASSUME NEW a \in Nat, NEW b \in Nat, NEW c \in Nat, NEW d \in Nat,
           b > 0, d > 0, a * d <= c * b
    PROVE  /\ AtMostWhole(a \div b) \in 0..Whole /\ AtMostWhole(c \div d) \in 0..Whole
           /\ AtMostWhole(a \div b) <= AtMostWhole(c \div d)
<1>1. a \div b \in Nat /\ c \div d \in Nat
  BY Quotient
<1>2. a \div b <= c \div d
  BY QuotientMonotone
<1>3. \A x \in Nat : AtMostWhole(x) \in 0..Whole
  BY DEF AtMostWhole, Whole
<1>4. \A x, y \in Nat : x <= y => AtMostWhole(x) <= AtMostWhole(y)
  BY DEF AtMostWhole, Whole
<1> QED
  BY <1>1, <1>2, <1>3, <1>4

LEMMA RatioMonotone ==
    ASSUME NEW a \in Nat, NEW b \in Nat, NEW c \in Nat, NEW d \in Nat,
           b > 0, d > 0, a * d <= c * b
    PROVE  Ratio(a, b) <= Ratio(c, d)
<1> DEFINE x == a * 10000
           y == c * 10000
<1>1. x \in Nat /\ y \in Nat
  OBVIOUS
<1>2. x * d <= y * b
  <2>1. x * d = (a * d) * 10000 /\ y * b = (c * b) * 10000 /\ a * d \in Nat /\ c * b \in Nat
    OBVIOUS
  <2> HIDE DEF x, y
  <2> QED
    BY <2>1
<1>3. Ratio(a, b) = AtMostWhole(x \div b) /\ Ratio(c, d) = AtMostWhole(y \div d)
  BY DEF Ratio, Whole
<1> HIDE DEF x, y
<1> QED
  BY <1>1, <1>2, <1>3, CappedMonotone

LEMMA HeadroomMonotone ==
    ASSUME NEW c \in Candidates, NEW d \in Candidates, NEW request \in Requests,
           Profile(c).context >= Profile(d).context
    PROVE  ContextHeadroom(d, request) <= ContextHeadroom(c, request)
<1> DEFINE m == request.context + request.output
           C == Profile(c).context
           D == Profile(d).context
<1>1. C \in Nat /\ D \in Nat /\ C > 0 /\ D > 0 /\ m \in Nat /\ D <= C
  BY ProfileTypes, RequestTypes
<1>2. /\ ContextHeadroom(c, request) = IF m >= C THEN 0 ELSE Ratio(C - m, C)
      /\ ContextHeadroom(d, request) = IF m >= D THEN 0 ELSE Ratio(D - m, D)
  BY DEF ContextHeadroom
<1> HIDE DEF m, C, D
<1>3. \A x \in 0..Whole : 0 <= x
  BY DEF Whole
<1>4. CASE m >= C
  BY <1>1, <1>2, <1>4
<1>5. CASE m >= D /\ ~(m >= C)
  <2>1. C - m \in Nat
    BY <1>1, <1>5
  <2> QED
    BY <1>1, <1>2, <1>3, <1>5, <2>1, RatioBounded
<1>6. CASE ~(m >= D)
  <2>1. C - m \in Nat /\ D - m \in Nat /\ ~(m >= C)
    BY <1>1, <1>6
  <2>2. (D - m) * C <= (C - m) * D
    <3>1. (D - m) * C = D * C - m * C /\ (C - m) * D = D * C - m * D
      BY <1>1
    <3>2. m <= m
      BY <1>1
    <3>3. m * D <= m * C /\ m * D \in Nat /\ m * C \in Nat
      BY <1>1, <3>2, Products
    <3>4. D * C \in Nat
      BY <1>1
    <3> QED
      BY <3>1, <3>3, <3>4
  <2> QED
    BY <1>1, <1>2, <1>6, <2>1, <2>2, RatioMonotone
<1> QED
  BY <1>4, <1>5, <1>6

\* The less there is of it, of a duration or a cost, the better.
LEMMA InverseMonotone ==
    ASSUME NEW v \in Nat \cup {None}, NEW w \in Nat \cup {None}, NEW least \in Nat \cup {None},
           v = w \/ (v # None /\ w # None /\ v <= w)
    PROVE  RelativeInverse(w, least) <= RelativeInverse(v, least)
<1>1. RelativeInverse(v, least) \in 0..Whole /\ RelativeInverse(w, least) \in 0..Whole
  BY InverseBounded
<1>2. \A x \in 0..Whole : x <= x /\ x <= Whole
  BY DEF Whole
<1>3. CASE v = w
  BY <1>1, <1>2, <1>3
<1>4. CASE v # w
  <2>1. v \in Nat /\ w \in Nat /\ v <= w /\ w # 0 /\ v # None /\ w # None
    BY <1>4
  <2>2. CASE v = 0
    <3>1. RelativeInverse(v, least) = Whole
      <4>1. None # 0
        BY TypesAssumption
      <4>2. RelativeInverse(0, least) = Whole
        BY <4>1 DEF RelativeInverse
      <4> QED
        BY <2>2, <4>2
    <3> QED
      BY <1>1, <1>2, <3>1
  <2>3. CASE v # 0 /\ least = None
    <3>1. RelativeInverse(v, least) = 5000 /\ RelativeInverse(w, least) = 5000
      BY <2>1, <2>3 DEF RelativeInverse
    <3> QED
      BY <3>1
  <2>4. CASE v # 0 /\ least # None
    <3>1. RelativeInverse(v, least) = Ratio(least, v) /\ RelativeInverse(w, least) = Ratio(least, w)
      BY <2>1, <2>4 DEF RelativeInverse
    <3>2. least \in Nat /\ least <= least
      BY <2>4
    <3>3. least * v <= least * w
      BY <2>1, <3>2, Products
    <3> QED
      BY <2>1, <2>4, <3>1, <3>2, <3>3, RatioMonotone
  <2> QED
    BY <2>2, <2>3, <2>4
<1> QED
  BY <1>3, <1>4

LEMMA MatchesMonotone ==
    ASSUME NEW values, NEW fewer, NEW expected, IsFiniteSet(expected),
           fewer \cap expected \subseteq values
    PROVE  RatioMatches(fewer, expected) <= RatioMatches(values, expected)
<1> DEFINE A == fewer \cap expected
           B == values \cap expected
<1>1. IsFiniteSet(A) /\ IsFiniteSet(B) /\ A \subseteq B
  BY FS_Subset
<1>2. CASE expected = {}
  BY <1>2 DEF RatioMatches
<1>3. CASE expected # {}
  <2> HIDE DEF A, B
  <2> DEFINE a == Cardinality(A)
             b == Cardinality(B)
             k == Cardinality(expected)
  <2>1. a \in Nat /\ b \in Nat /\ k \in Nat /\ a <= b
    BY <1>1, FS_CardinalityType, FS_Subset
  <2>2. k > 0
    BY <1>3, <2>1, FS_EmptySet
  <2> HIDE DEF a, b, k
  <2>3. k <= k
    BY <2>1
  <2>4. a * k <= b * k
    BY <2>1, <2>3, Products
  <2>5. Ratio(a, k) <= Ratio(b, k)
    BY <2>1, <2>2, <2>4, RatioMonotone
  <2> QED
    BY <1>3, <2>5 DEF RatioMatches, a, b, k, A, B
<1> QED
  BY <1>2, <1>3

\* Smoothed, the successes that are no smaller a share of no thinner a history are no less.
LEMMA SuccessMonotone ==
    ASSUME NEW rc, NEW rd, RuntimeInv(rc), RuntimeInv(rd),
           rc.terminals = {} <=> rd.terminals = {},
           rc.successes * TerminalAttempts(rd) >= rd.successes * TerminalAttempts(rc),
           rc.successes = TerminalAttempts(rc) \/ TerminalAttempts(rc) <= TerminalAttempts(rd),
           rd.successes = 0 \/ TerminalAttempts(rc) >= TerminalAttempts(rd)
    PROVE  SmoothedSuccess(rd) <= SmoothedSuccess(rc)
<1> DEFINE sc == rc.successes
           sd == rd.successes
           tc == TerminalAttempts(rc)
           td == TerminalAttempts(rd)
           p  == Policy.successPrior
           k  == Policy.priorAttempts
           W  == Whole
<1>1. /\ sc \in Nat /\ tc \in Nat /\ sc <= tc /\ (rc.terminals = {} <=> tc = 0)
      /\ sd \in Nat /\ td \in Nat /\ sd <= td /\ (rd.terminals = {} <=> td = 0)
  <2>1. \A r : RuntimeInv(r) =>
            /\ r.successes \in Nat /\ IsFiniteSet(r.terminals)
            /\ r.successes <= Cardinality(r.terminals)
    BY FS_Subset DEF RuntimeInv, Runtimes
  <2>2. \A r : RuntimeInv(r) =>
            Cardinality(r.terminals) \in Nat /\ (Cardinality(r.terminals) = 0 <=> r.terminals = {})
    BY <2>1, FS_CardinalityType, FS_EmptySet
  <2> QED
    BY <2>1, <2>2 DEF TerminalAttempts
<1>2. /\ p \in Nat /\ k \in Nat /\ W \in Nat /\ p <= W
  <2>1. W \in Nat /\ \A x \in 0..W : x \in Nat /\ x <= W
    BY DEF Whole
  <2> HIDE DEF W
  <2> QED
    BY <2>1, PriorTypes DEF W
<1>3. /\ tc = 0 <=> td = 0
      /\ sd * tc <= sc * td
      /\ sc = tc \/ tc <= td
      /\ sd = 0 \/ td <= tc
  <2>1. sc * td >= sd * tc /\ (sd = 0 \/ tc >= td) /\ (sc = tc \/ tc <= td)
    OBVIOUS
  <2>2. sc * td \in Nat /\ sd * tc \in Nat
    <3>1. \A x, y \in Nat : x * y \in Nat
      OBVIOUS
    <3> QED
      BY <1>1, <3>1
  <2> HIDE DEF sc, sd, tc, td
  <2> QED
    BY <1>1, <2>1, <2>2
<1>4. /\ SmoothedSuccess(rc) = IF tc + k = 0 THEN p ELSE AtMostWhole((sc * W + p * k) \div (tc + k))
      /\ SmoothedSuccess(rd) = IF td + k = 0 THEN p ELSE AtMostWhole((sd * W + p * k) \div (td + k))
  BY DEF SmoothedSuccess
<1> HIDE DEF sc, sd, tc, td, p, k, W
<1>5. W * sd + p * tc <= W * sc + p * td
  <2>0. \A x, y \in Nat : x * y \in Nat
    OBVIOUS
  <2>a. \A x, y, z \in Nat : y <= z => x * y <= x * z /\ y * x <= z * x
    <3> TAKE x \in Nat, y \in Nat, z \in Nat
    <3> HAVE y <= z
    <3>1. x <= x
      OBVIOUS
    <3> QED
      BY <3>1, Products
  <2>1. CASE sd = 0 /\ tc <= td
    <3>1. W * sd = 0 /\ p * tc <= p * td /\ W * sc \in Nat /\ p * tc \in Nat /\ p * td \in Nat
      BY <1>1, <1>2, <2>0, <2>a, <2>1
    <3> QED
      BY <3>1
  <2>2. CASE tc = td
    <3>1. sd <= sc
      <4>1. CASE td = 0
        BY <1>1, <4>1
      <4>2. CASE td # 0 /\ sc < sd
        <5>1. PICK i \in Nat : sd = sc + 1 + i
          <6>1. sd - (sc + 1) \in Nat /\ sd = sc + 1 + (sd - (sc + 1))
            BY <1>1, <4>2
          <6> QED
            BY <6>1
        <5>2. (sc + 1 + i) * td = sc * td + td + i * td /\ i * td \in Nat /\ sc * td \in Nat
          BY <1>1
        <5>3. sd * td <= sc * td
          BY <1>3, <2>2
        <5> QED
          BY <1>1, <4>2, <5>1, <5>2, <5>3
      <4> QED
        BY <1>1, <4>1, <4>2
    <3>2. W * sd <= W * sc /\ W * sd \in Nat /\ W * sc \in Nat /\ p * tc = p * td /\ p * td \in Nat
      BY <1>1, <1>2, <2>0, <2>a, <2>2, <3>1
    <3> QED
      BY <3>2
  <2>3. CASE sc = tc /\ sd = 0
    <3>1. W * sd = 0 /\ p * tc <= W * tc /\ W * sc = W * tc /\ p * td \in Nat
          /\ p * tc \in Nat /\ W * tc \in Nat
      BY <1>1, <1>2, <2>0, <2>a, <2>3
    <3> QED
      BY <3>1
  <2>4. CASE sc = tc /\ td <= tc
    <3>1. PICK i \in Nat : tc = td + i
      <4>1. tc - td \in Nat /\ tc = td + (tc - td)
        BY <1>1, <2>4
      <4> QED
        BY <4>1
    <3>2. p * (td + i) = p * td + p * i /\ W * (td + i) = W * td + W * i
      BY <1>1, <1>2
    <3>3. p * i <= W * i /\ W * sd <= W * td
      BY <1>1, <1>2, <2>a
    <3>4. /\ p * td \in Nat /\ p * i \in Nat /\ W * td \in Nat /\ W * i \in Nat /\ W * sd \in Nat
      BY <1>1, <1>2, <2>0
    <3>5. W * sc = W * td + W * i /\ p * tc = p * td + p * i
      BY <2>4, <3>1, <3>2
    <3> QED
      BY <3>3, <3>4, <3>5
  <2>5. tc <= td /\ td <= tc => tc = td
    BY <1>1
  <2> QED
    BY <1>3, <2>1, <2>2, <2>3, <2>4, <2>5
<1>6. CASE td + k = 0
  <2>1. td = 0 /\ k = 0 /\ tc = 0
    BY <1>1, <1>2, <1>3, <1>6
  <2> QED
    BY <1>2, <1>4, <2>1
<1>7. CASE td + k # 0
  <2> DEFINE x == sd * W + p * k
             y == sc * W + p * k
             i == td + k
             j == tc + k
  <2>0. \A u, v \in Nat : u * v \in Nat
    OBVIOUS
  <2>1. x \in Nat /\ y \in Nat /\ i \in Nat /\ j \in Nat /\ i > 0 /\ j > 0
    <3>1. sd * W \in Nat /\ sc * W \in Nat /\ p * k \in Nat
      BY <1>1, <1>2, <2>0
    <3>2. tc + k # 0
      BY <1>1, <1>2, <1>3, <1>7
    <3> QED
      BY <1>1, <1>2, <1>7, <3>1, <3>2
  <2>2. x * j <= y * i
    <3>1. x * j = W * (sd * tc) + k * (W * sd + p * tc) + (p * k) * k
      BY <1>1, <1>2
    <3>2. y * i = W * (sc * td) + k * (W * sc + p * td) + (p * k) * k
      BY <1>1, <1>2
    <3>3. /\ sd * tc \in Nat /\ sc * td \in Nat /\ W <= W /\ k <= k
          /\ W * sd + p * tc \in Nat /\ W * sc + p * td \in Nat /\ (p * k) * k \in Nat
      <4>1. W * sd \in Nat /\ p * tc \in Nat /\ W * sc \in Nat /\ p * td \in Nat /\ p * k \in Nat
        BY <1>1, <1>2, <2>0
      <4>2. sd * tc \in Nat /\ sc * td \in Nat /\ (p * k) * k \in Nat
        BY <1>1, <1>2, <2>0, <4>1
      <4> QED
        BY <1>2, <4>1, <4>2
    <3>4. /\ W * (sd * tc) <= W * (sc * td) /\ W * (sd * tc) \in Nat /\ W * (sc * td) \in Nat
      BY <1>2, <1>3, <3>3, Products
    <3>5. /\ k * (W * sd + p * tc) <= k * (W * sc + p * td)
          /\ k * (W * sd + p * tc) \in Nat /\ k * (W * sc + p * td) \in Nat
      BY <1>2, <1>5, <3>3, Products
    <3> HIDE DEF x, y, i, j
    <3> QED
      BY <3>1, <3>2, <3>3, <3>4, <3>5
  <2>3. SmoothedSuccess(rc) = AtMostWhole(y \div j) /\ SmoothedSuccess(rd) = AtMostWhole(x \div i)
    BY <1>4, <1>7, <2>1
  <2> HIDE DEF x, y, i, j
  <2> QED
    BY <2>1, <2>2, <2>3, CappedMonotone
<1> QED
  BY <1>6, <1>7

LEMMA InvAsGood == RouterInv => NoneAsGoodScoresLower
<1> SUFFICES ASSUME RouterInv, NEW n \in NewDecisions, NEW c \in Candidates,
                    NEW d \in Candidates,
                    log[n].decision.candidates[c].eligible,
                    log[n].decision.candidates[d].eligible,
                    AsGood(c, d, log[n].decision.request, n)
             PROVE  log[n].decision.candidates[c].score >= log[n].decision.candidates[d].score
  BY DEF NoneAsGoodScoresLower
<1> DEFINE decision == log[n].decision
           request == decision.request
           now == decision.now
           homes == log[n].homes
           before == SubSeq(log, 1, n - 1)
           draft == [x \in Candidates |-> Draft(x, request, before, homes, now)]
           rc == After(c, n - 1)
           rd == After(d, n - 1)
           wanted == PreferredSpecialties(request)
           dc == Draft(c, request, before, homes, now)
           dd == Draft(d, request, before, homes, now)
<1>1. /\ request \in Requests /\ n \in Decisions
      /\ RuntimeInv(rc) /\ RuntimeInv(rd)
      /\ \A x \in Candidates : RuntimeInv(FromEvents(x, before))
      /\ decision.candidates = Evaluate(draft, request, n - 1, now).candidates
  <2>1. n \in Decisions
    BY DEF NewDecisions
  <2> QED
    BY <2>1, DecisionMade DEF After
<1>2. /\ Profile(d).specialties \cap wanted \subseteq Profile(c).specialties
      /\ Profile(c).strength >= Profile(d).strength
      /\ Profile(c).context >= Profile(d).context
      /\ dc.quota = dd.quota \/ (dc.quota # None /\ dd.quota # None /\ dc.quota >= dd.quota)
      /\ rc.terminals = {} <=> rd.terminals = {}
      /\ rc.successes * TerminalAttempts(rd) >= rd.successes * TerminalAttempts(rc)
      /\ rc.successes = TerminalAttempts(rc) \/ TerminalAttempts(rc) <= TerminalAttempts(rd)
      /\ rd.successes = 0 \/ TerminalAttempts(rc) >= TerminalAttempts(rd)
      /\ dc.duration = dd.duration
         \/ (dc.duration # None /\ dd.duration # None /\ dc.duration <= dd.duration)
      /\ dc.cost <= dd.cost
      /\ dc.active * Profile(d).capacity <= dd.active * Profile(c).capacity
      /\ dc.health >= dd.health
  BY DEF AsGood, After
<1>3. \A x \in Candidates : DraftInv(draft[x])
  <2> TAKE x \in Candidates
  <2>1. draft[x] = Draft(x, request, before, homes, now)
    OBVIOUS
  <2> HIDE DEF draft, request, before, homes, now
  <2> QED
    BY <1>1, <2>1, DraftTypes DEF DraftInv
<1>4. /\ draft[c] = dc /\ draft[d] = dd
      /\ dc.success = SmoothedSuccess(rc) /\ dd.success = SmoothedSuccess(rd)
      /\ dc.headroom = ContextHeadroom(c, request) /\ dd.headroom = ContextHeadroom(d, request)
  BY DEF Draft, After
<1> HIDE DEF decision, request, now, homes, before, draft, rc, rd, wanted, dc, dd
<1>5. DraftInv(dc) /\ DraftInv(dd)
  BY <1>3, <1>4
<1> DEFINE lc == Cheapest(draft)
           ld == Fastest(draft)
           s == Scores(c, request, dc, lc, ld)
           t == Scores(d, request, dd, lc, ld)
           weights == Weights(request)
<1>6. lc \in Nat \cup {None} /\ ld \in Nat \cup {None}
  BY <1>3, LeastTypes
<1>7. \A name \in Components : s[name] \in 0..Whole /\ t[name] \in 0..Whole
  BY <1>1, <1>5, <1>6, ScoreTypes
<1>8. \A x, y \in 0..Whole : x >= y => y <= x
  <2>1. \A x, y \in Nat : x >= y => y <= x
    OBVIOUS
  <2> QED
    BY <2>1, WholeRange
<1>9. \A name \in Components : t[name] <= s[name]
  <2> HIDE DEF lc, ld
  <2>1. /\ s["task_fit"] = RatioMatches(Profile(c).specialties, wanted)
        /\ s["model_strength"] = Profile(c).strength
        /\ s["context_headroom"] = dc.headroom
        /\ s["quota"] = IF dc.quota = None THEN Policy.unknownQuota ELSE dc.quota
        /\ s["historical_success"] = dc.success
        /\ s["speed"] = RelativeInverse(dc.duration, ld)
        /\ s["cost"] = RelativeInverse(dc.cost, lc)
        /\ s["load"] = Whole - Ratio(dc.active, Profile(c).capacity)
        /\ s["health"] = dc.health
    BY DEF Scores, wanted
  <2>2. /\ t["task_fit"] = RatioMatches(Profile(d).specialties, wanted)
        /\ t["model_strength"] = Profile(d).strength
        /\ t["context_headroom"] = dd.headroom
        /\ t["quota"] = IF dd.quota = None THEN Policy.unknownQuota ELSE dd.quota
        /\ t["historical_success"] = dd.success
        /\ t["speed"] = RelativeInverse(dd.duration, ld)
        /\ t["cost"] = RelativeInverse(dd.cost, lc)
        /\ t["load"] = Whole - Ratio(dd.active, Profile(d).capacity)
        /\ t["health"] = dd.health
    BY DEF Scores, wanted
  <2> HIDE DEF s, t
  <2>3. t["task_fit"] <= s["task_fit"]
    <3>1. IsFiniteSet(wanted)
      BY <1>1, RequestTypes DEF wanted
    <3> QED
      BY <1>2, <2>1, <2>2, <3>1, MatchesMonotone
  <2>4. t["model_strength"] <= s["model_strength"]
    BY <1>2, <1>8, <2>1, <2>2, ProfileTypes
  <2>5. t["context_headroom"] <= s["context_headroom"]
    BY <1>1, <1>2, <1>4, <2>1, <2>2, HeadroomMonotone
  <2>6. t["quota"] <= s["quota"]
    <3>1. dc.quota \in 0..Whole \cup {None} /\ dd.quota \in 0..Whole \cup {None}
      BY <1>5 DEF DraftInv
    <3>2. \A x \in 0..Whole : x <= x
      BY DEF Whole
    <3>3. CASE dc.quota = dd.quota
      BY <2>1, <2>2, <3>1, <3>2, <3>3, PriorTypes
    <3>4. CASE dc.quota # None /\ dd.quota # None /\ dc.quota >= dd.quota
      BY <1>8, <2>1, <2>2, <3>1, <3>4
    <3> QED
      BY <1>2, <3>3, <3>4
  <2>7. t["historical_success"] <= s["historical_success"]
    BY <1>1, <1>2, <1>4, <2>1, <2>2, SuccessMonotone
  <2>8. t["speed"] <= s["speed"]
    <3>1. dc.duration \in Nat \cup {None} /\ dd.duration \in Nat \cup {None}
      BY <1>5 DEF DraftInv
    <3> QED
      BY ZenonT(40), <1>2, <1>6, <2>1, <2>2, <3>1, InverseMonotone DEF ld
  <2>9. t["cost"] <= s["cost"]
    <3>1. dc.cost \in Nat /\ dd.cost \in Nat /\ None \notin Nat
      BY <1>5, TypesAssumption DEF DraftInv
    <3>2. dc.cost \in Nat \cup {None} /\ dd.cost \in Nat \cup {None}
          /\ dc.cost # None /\ dd.cost # None
      BY <3>1
    <3> QED
      BY ZenonT(40), <1>2, <1>6, <2>1, <2>2, <3>2, InverseMonotone DEF lc
  <2>10. t["load"] <= s["load"]
    <3> DEFINE x == Ratio(dc.active, Profile(c).capacity)
               y == Ratio(dd.active, Profile(d).capacity)
    <3>1. /\ dc.active \in Nat /\ dd.active \in Nat
          /\ Profile(c).capacity \in Nat /\ Profile(c).capacity > 0
          /\ Profile(d).capacity \in Nat /\ Profile(d).capacity > 0
      BY <1>5, ProfileTypes DEF DraftInv
    <3>2. x \in 0..Whole /\ y \in 0..Whole /\ x <= y
      BY <1>2, <3>1, RatioBounded, RatioMonotone
    <3>3. \A i, j \in 0..Whole : i <= j => Whole - j <= Whole - i
      BY Complement
    <3> HIDE DEF x, y
    <3>4. Whole - y <= Whole - x
      BY <3>2, <3>3
    <3> QED
      BY <2>1, <2>2, <3>4 DEF x, y
  <2>11. t["health"] <= s["health"]
    BY <1>2, <1>5, <1>8, <2>1, <2>2 DEF DraftInv
  <2> QED
    BY <2>3, <2>4, <2>5, <2>6, <2>7, <2>8, <2>9, <2>10, <2>11 DEF Components
<1>10. weights \in [Components -> Nat]
  BY <1>1, RequestTypes
<1> DEFINE p == Total(Weighted(s, weights))
           q == Total(Weighted(t, weights))
<1>11. p \in Nat /\ q \in Nat /\ q <= p
  <2> HIDE DEF s, t, weights
  <2> QED
    BY <1>7, <1>9, <1>10, WeightedBounded
<1>12. /\ c \in Eligible(draft) /\ d \in Eligible(draft)
       /\ decision.candidates[c].score = AtMostWhole(p)
       /\ decision.candidates[d].score = AtMostWhole(q)
  <2> DEFINE e == Evaluate(draft, request, n - 1, now)
  <2>1. \A x \in Candidates :
            /\ e.candidates[x].eligible = (x \in Eligible(draft))
            /\ e.candidates[x].score = IF x \in Eligible(draft) THEN Score(draft, request, x)
                                       ELSE None
    BY Evaluated
  <2> HIDE DEF e, p, q
  <2>2. e.candidates[c].eligible /\ e.candidates[d].eligible
        /\ decision.candidates = e.candidates
    BY <1>1 DEF e, decision
  <2>3. c \in Eligible(draft) /\ d \in Eligible(draft)
    BY <2>1, <2>2
  <2>4. Score(draft, request, c) = AtMostWhole(p) /\ Score(draft, request, d) = AtMostWhole(q)
    BY <1>4 DEF Score, Parts, p, q
  <2> QED
    BY <2>1, <2>2, <2>3, <2>4
<1>13. \A x, y \in Nat : y <= x => AtMostWhole(x) >= AtMostWhole(y)
  BY DEF AtMostWhole, Whole
<1> HIDE DEF p, q
<1>14. decision.candidates[c].score >= decision.candidates[d].score
  BY <1>11, <1>12, <1>13
<1> QED
  BY <1>14 DEF decision

\* A candidate at least as good as another in everything the score is made of never has
\* the lower score, whatever the weights and the roundings.
THEOREM NoneAsGoodScoresLowerHolds == Spec => []NoneAsGoodScoresLower
  BY RouterInvariant, InvAsGood, PTL

=============================================================================
