------------------------- MODULE WorktreeGateProofs -------------------------
(***************************************************************************)
(* Theorems about WorktreeGate, for every value of its constants.          *)
(***************************************************************************)
EXTENDS WorktreeGate, WellFoundedInduction, TLAPS

----------------------------------------------------------------------------
\* The inductive invariant.

\* Evidence that is being collected has a name.
Named == \A c \in Collectors : collecting[c].at # "idle" => collecting[c].id \in EvidenceIds

\* Nobody reviews while an Attempt is active, and none becomes active again.
ReviewedAtRest == reviews # <<>> => Active = {}

Independence == \A r \in DOMAIN reviews : Independent(reviews[r].home)

\* The commit merged with one the target branch has had.
Mergeable(h) == \E t \in 0..target : <<t, h>> \notin Conflicting

FreeWasMerged ==
    /\ \A k \in Checkers : checking[k].free => Mergeable(checking[k].head)
    /\ \A k \in DOMAIN checks : checks[k].free => Mergeable(checks[k].head)

GateInv == Typed /\ Refers /\ Named /\ ReviewedAtRest /\ Independence /\ FreeWasMerged

----------------------------------------------------------------------------
\* The newest check is one of the checks.

\* A set of natural numbers that is not empty has a least element.
LEMMA Least ==
    ASSUME NEW T, T \subseteq Nat, T # {}
    PROVE  \E x \in T : \A y \in T : x <= y
<1>1. \E R : IsWellFoundedOn(R, Nat) /\ \A x, y \in Nat : <<y, x>> \in R <=> y < x
  <2> DEFINE R == OpToRel(<, Nat)
  <2>1. IsWellFoundedOn(R, Nat)
    BY NatLessThanWellFounded
  <2>2. \A x, y \in Nat : <<y, x>> \in R <=> y < x
    BY DEF OpToRel
  <2> HIDE DEF R
  <2> QED
    BY <2>1, <2>2
<1>2. PICK R : IsWellFoundedOn(R, Nat) /\ \A x, y \in Nat : <<y, x>> \in R <=> y < x
  BY <1>1
<1>3. PICK x \in T : \A y \in T : ~ (<<y, x>> \in R)
  BY <1>2, WFMin
<1>4. ASSUME NEW y \in T PROVE x <= y
  <2>1. x \in Nat /\ y \in Nat /\ <<y, x>> \notin R
    BY <1>3
  <2>2. ~ (y < x)
    BY <1>2, <2>1
  <2> QED
    BY <2>1, <2>2
<1> QED
  BY <1>4

\* One that is bounded as well has a greatest.
LEMMA Greatest ==
    ASSUME NEW n \in Nat, NEW S, S \subseteq 0..n, S # {}
    PROVE  \E x \in S : \A y \in S : y <= x
<1> DEFINE T == {n - k : k \in S}
<1>1. T \subseteq Nat
  <2>1. \A k \in S : k \in 0..n /\ n - k \in Nat
    OBVIOUS
  <2> QED
    BY <2>1
<1>2. T # {}
  OBVIOUS
<1>3. PICK t \in T : \A y \in T : t <= y
  BY <1>1, <1>2, Least
<1>4. PICK x \in S : t = n - x
  OBVIOUS
<1>5. ASSUME NEW y \in S PROVE y <= x
  <2>1. n - y \in T /\ x \in 0..n /\ y \in 0..n
    OBVIOUS
  <2>2. n - x <= n - y
    BY <1>3, <1>4, <2>1
  <2> QED
    BY <2>1, <2>2
<1> QED
  BY <1>5

\* LatestCheck finds the last of the checks of some evidence, or says there is none.
LEMMA LatestIsLast ==
    ASSUME Typed, NEW e, LatestCheck(e) # 0
    PROVE  /\ LatestCheck(e) \in DOMAIN checks
           /\ checks[LatestCheck(e)].evidence = e
           /\ \A m \in DOMAIN checks : m > LatestCheck(e) => checks[m].evidence # e
<1> DEFINE of == {k \in DOMAIN checks : checks[k].evidence = e}
           latest == CHOOSE k \in of : \A m \in of : m <= k
<1>1. Len(checks) \in Nat /\ DOMAIN checks = 1..Len(checks)
  BY DEF Typed
<1>2. of # {} /\ LatestCheck(e) = latest
  BY DEF LatestCheck
<1>3. of \subseteq 0..Len(checks)
  BY <1>1
<1>4. \E x \in of : \A m \in of : m <= x
  <2> HIDE DEF of
  <2> QED
    BY <1>1, <1>2, <1>3, Greatest
<1>5. latest \in of /\ \A m \in of : m <= latest
  <2> HIDE DEF of
  <2> QED
    BY <1>4
<1>6. ASSUME NEW m \in DOMAIN checks, m > latest PROVE checks[m].evidence # e
  <2>1. m \in Int /\ latest \in Int
    BY <1>1, <1>5
  <2>2. ~ (m <= latest)
    BY <1>6, <2>1
  <2> QED
    BY <1>5, <2>2
<1> HIDE DEF latest
<1> QED
  BY <1>2, <1>5, <1>6

----------------------------------------------------------------------------
\* The invariant is inductive.

Collectings ==
    [at : {"idle", "test", "status", "record"}, id : EvidenceIds \cup {0}, head : Trees,
     tested : BOOLEAN, passed : BOOLEAN, clean : BOOLEAN]

Checkings == [at : {"idle", "record"}, head : Trees, free : BOOLEAN]

\* It holds before anything is recorded.
LEMMA GateInit == Init => GateInv
<1> SUFFICES ASSUME Init PROVE GateInv
  OBVIOUS
<1> USE GateAssumption
<1>1. 0 \in Trees
  BY DEF Trees
<1>2. NotCollecting \in Collectings /\ NotCollecting.at = "idle"
  BY <1>1 DEF NotCollecting, Collectings
<1>3. NotChecking \in Checkings /\ ~NotChecking.free
  BY <1>1 DEF NotChecking, Checkings
<1>4. Typed
  BY <1>1, <1>2, <1>3 DEF Init, Typed, Collectings, Checkings, Statuses
<1>5. Refers /\ Named /\ ReviewedAtRest /\ Independence /\ FreeWasMerged
  BY <1>2, <1>3 DEF Init, Refers, Named, ReviewedAtRest, Independence, FreeWasMerged
<1> QED
  BY <1>4, <1>5 DEF GateInv

\* What a step leaves alone stays right.
LEMMA GateFrame ==
    ASSUME GateInv
    PROVE  /\ (UNCHANGED <<attempt, reviews>> => ReviewedAtRest' /\ Independence')
           /\ (UNCHANGED collecting => Named')
           /\ (UNCHANGED <<evidence, reviews, checks>> => Refers')
           /\ (UNCHANGED <<checks, checking>> /\ target' \in Nat /\ target' >= target
                 => FreeWasMerged')
<1>1. target \in Nat
  BY GateAssumption DEF GateInv, Typed
<1>2. ASSUME UNCHANGED <<attempt, reviews>> PROVE ReviewedAtRest' /\ Independence'
  BY <1>2 DEF GateInv, ReviewedAtRest, Independence, Independent, Active
<1>3. ASSUME UNCHANGED collecting PROVE Named'
  BY <1>3 DEF GateInv, Named
<1>4. ASSUME UNCHANGED <<checks, checking>>, target' \in Nat, target' >= target
      PROVE  FreeWasMerged'
  BY <1>1, <1>4 DEF GateInv, FreeWasMerged, Mergeable
<1>5. ASSUME UNCHANGED <<evidence, reviews, checks>> PROVE Refers'
  BY <1>5 DEF GateInv, Refers, Approved
<1> QED
  BY <1>2, <1>3, <1>4, <1>5

\* A sequence with one more element.
Longer(old, new, last) ==
    /\ DOMAIN new = DOMAIN old \cup {Len(old) + 1} /\ Len(old) + 1 \notin DOMAIN old
    /\ \A i \in DOMAIN old : new[i] = old[i]
    /\ new[Len(old) + 1] = last

LEMMA AppendLonger ==
    ASSUME NEW S, NEW old \in Seq(S), NEW last \in S
    PROVE  Append(old, last) \in Seq(S) /\ Longer(old, Append(old, last), last)
<1>1. Len(old) \in Nat /\ DOMAIN old = 1..Len(old)
  OBVIOUS
<1>2. Append(old, last) \in Seq(S) /\ DOMAIN Append(old, last) = 1..Len(old) + 1
  OBVIOUS
<1>3. 1..Len(old) + 1 = 1..Len(old) \cup {Len(old) + 1} /\ Len(old) + 1 \notin 1..Len(old)
  BY <1>1
<1>4. /\ \A i \in DOMAIN old : Append(old, last)[i] = old[i]
      /\ Append(old, last)[Len(old) + 1] = last
  OBVIOUS
<1> QED
  BY <1>1, <1>2, <1>3, <1>4 DEF Longer

\* More evidence under a new name, one more review and one more check leave the
\* records referring to each other.
LEMMA EvidenceAdded ==
    ASSUME GateInv, NEW record \in Evidence, UnusedId(record.id),
           Longer(evidence, evidence', record), UNCHANGED <<reviews, checks>>
    PROVE  Refers'
<1>1. Refers
  BY DEF GateInv
<1>2. ASSUME NEW m \in DOMAIN evidence', NEW n \in DOMAIN evidence', evidence'[m].id = evidence'[n].id
      PROVE  m = n
  BY <1>1, <1>2 DEF Refers, Longer, UnusedId
<1>3. \A e \in DOMAIN evidence : e \in DOMAIN evidence' /\ evidence'[e] = evidence[e]
  BY DEF Longer
<1>4. \A e : Approved(e) => Approved(e)'
  BY DEF Approved
<1> QED
  BY <1>1, <1>2, <1>3, <1>4 DEF Refers

LEMMA ReviewAdded ==
    ASSUME GateInv, NEW review \in Review, review.evidence \in DOMAIN evidence,
           review.decision = "approved" =>
              evidence[review.evidence].clean /\ evidence[review.evidence].passed,
           Longer(reviews, reviews', review), UNCHANGED <<evidence, checks>>
    PROVE  Refers'
<1>1. Refers
  BY DEF GateInv
<1>2. ASSUME NEW r \in DOMAIN reviews'
      PROVE  /\ reviews'[r].evidence \in DOMAIN evidence
             /\ reviews'[r].decision = "approved" =>
                   evidence[reviews'[r].evidence].clean /\ evidence[reviews'[r].evidence].passed
  BY <1>1, <1>2 DEF Refers, Longer
<1>3. \A e : Approved(e) => Approved(e)'
  BY DEF Approved, Longer
<1> QED
  BY <1>1, <1>2, <1>3 DEF Refers

LEMMA CheckAdded ==
    ASSUME GateInv, NEW check \in Check, check.evidence \in DOMAIN evidence,
           check.head = evidence[check.evidence].head, Approved(check.evidence),
           Longer(checks, checks', check), UNCHANGED <<evidence, reviews>>
    PROVE  Refers'
<1>1. Refers
  BY DEF GateInv
<1>2. \A e : Approved(e) => Approved(e)'
  BY DEF Approved
<1>3. ASSUME NEW k \in DOMAIN checks'
      PROVE  /\ checks'[k].evidence \in DOMAIN evidence
             /\ checks'[k].head = evidence[checks'[k].evidence].head
             /\ Approved(checks'[k].evidence)
  BY <1>1, <1>3 DEF Refers, Longer
<1> QED
  BY <1>1, <1>2, <1>3 DEF Refers

\* A collector at work keeps its evidence typed and named.
LEMMA CollectStep ==
    ASSUME GateInv, NEW c \in Collectors, NEW new \in Collectings,
           new.at # "idle" => new.id \in EvidenceIds,
           collecting' = [collecting EXCEPT ![c] = new],
           UNCHANGED <<gitVars, run, attempt, reviews, checks, checking>>,
           \/ UNCHANGED evidence
           \/ \E record \in Evidence : UnusedId(record.id) /\ evidence' = Append(evidence, record)
    PROVE  GateInv'
<1> USE GateAssumption
<1>1. collecting \in [Collectors -> Collectings]
  BY DEF GateInv, Typed, Collectings
<1>2. /\ collecting' \in [Collectors -> Collectings]
      /\ collecting'[c] = new /\ \A d \in Collectors \ {c} : collecting'[d] = collecting[d]
  BY <1>1
<1>3. evidence' \in Seq(Evidence) /\ Refers'
  <2>1. evidence \in Seq(Evidence)
    BY DEF GateInv, Typed
  <2>2. CASE UNCHANGED evidence
    BY <2>1, <2>2, GateFrame
  <2>3. ASSUME NEW record \in Evidence, UnusedId(record.id), evidence' = Append(evidence, record)
        PROVE  evidence' \in Seq(Evidence) /\ Refers'
    <3>1. evidence' \in Seq(Evidence) /\ Longer(evidence, evidence', record)
      BY <2>1, <2>3, AppendLonger
    <3> QED
      BY <2>3, <3>1, EvidenceAdded
  <2> QED
    BY <2>2, <2>3
<1>4. Typed'
  BY <1>2, <1>3 DEF GateInv, Typed, Collectings, gitVars
<1>5. Named'
  BY <1>2 DEF GateInv, Named
<1>6. target \in Nat
  BY DEF GateInv, Typed
<1> QED
  BY <1>3, <1>4, <1>5, <1>6, GateFrame DEF GateInv, gitVars

\* A checker at work keeps its check typed, and the checks honest.
LEMMA CheckStep ==
    ASSUME GateInv, NEW k \in Checkers, NEW new \in Checkings,
           new.free => Mergeable(new.head),
           checking' = [checking EXCEPT ![k] = new],
           UNCHANGED <<gitVars, run, attempt, evidence, reviews, collecting>>,
           \/ UNCHANGED checks
           \/ \E check \in Check :
                 /\ checks' = Append(checks, check)
                 /\ check.free => Mergeable(check.head)
                 /\ check.evidence \in DOMAIN evidence /\ Approved(check.evidence)
                 /\ check.head = evidence[check.evidence].head
    PROVE  GateInv'
<1> USE GateAssumption
<1>1. checking \in [Checkers -> Checkings] /\ checks \in Seq(Check)
  BY DEF GateInv, Typed, Checkings
<1>2. /\ checking' \in [Checkers -> Checkings]
      /\ checking'[k] = new /\ \A d \in Checkers \ {k} : checking'[d] = checking[d]
  BY <1>1
<1>3. \A h : Mergeable(h) => Mergeable(h)'
  BY DEF Mergeable, gitVars
<1>4. /\ checks' \in Seq(Check) /\ Refers'
      /\ \A i \in DOMAIN checks' : checks'[i].free => Mergeable(checks'[i].head)
  <2>1. CASE UNCHANGED checks
    BY <1>1, <2>1, GateFrame DEF GateInv, FreeWasMerged
  <2>2. ASSUME NEW check \in Check, checks' = Append(checks, check),
               check.free => Mergeable(check.head),
               check.evidence \in DOMAIN evidence, Approved(check.evidence),
               check.head = evidence[check.evidence].head
        PROVE  /\ checks' \in Seq(Check) /\ Refers'
               /\ \A i \in DOMAIN checks' : checks'[i].free => Mergeable(checks'[i].head)
    <3>1. checks' \in Seq(Check) /\ Longer(checks, checks', check)
      BY <1>1, <2>2, AppendLonger
    <3>2. Refers'
      BY <2>2, <3>1, CheckAdded
    <3> QED
      BY <2>2, <3>1, <3>2 DEF GateInv, FreeWasMerged, Longer
  <2> QED
    BY <2>1, <2>2
<1>5. Typed'
  BY <1>2, <1>4 DEF GateInv, Typed, Checkings, gitVars
<1>6. FreeWasMerged'
  <2>1. \A d \in Checkers : checking'[d].free => Mergeable(checking'[d].head)
    BY <1>2 DEF GateInv, FreeWasMerged
  <2> QED
    BY <1>3, <1>4, <2>1 DEF FreeWasMerged, Mergeable, gitVars
<1> QED
  BY <1>4, <1>5, <1>6, GateFrame DEF GateInv, gitVars

\* Every step keeps the invariant.
LEMMA GateStep == GateInv /\ [Next]_vars => GateInv'
<1> USE GateAssumption
<1> DEFINE Kept == GateInv'
<1>a. /\ Typed /\ Named /\ ReviewedAtRest /\ Independence /\ FreeWasMerged
      => /\ collecting \in [Collectors -> Collectings] /\ checking \in [Checkers -> Checkings]
         /\ evidence \in Seq(Evidence) /\ reviews \in Seq(Review) /\ checks \in Seq(Check)
         /\ target \in Nat
  BY DEF Typed, Collectings, Checkings
<1>b. 0 \in Trees
  BY DEF Trees
<1>c. NotCollecting \in Collectings /\ NotCollecting.at = "idle"
  BY <1>b DEF NotCollecting, Collectings
<1>d. NotChecking \in Checkings /\ ~NotChecking.free
  BY <1>b DEF NotChecking, Checkings
<1>1. ASSUME GateInv, Work PROVE Kept
  <2>1. Typed'
    BY <1>1 DEF GateInv, Typed, Work, logVars
  <2>2. Refers' /\ Named' /\ ReviewedAtRest' /\ Independence' /\ FreeWasMerged'
    BY <1>1, <1>a, GateFrame DEF GateInv, Work, logVars
  <2> QED
    BY <2>1, <2>2 DEF GateInv
<1>2. ASSUME GateInv, TargetMoves PROVE Kept
  <2>1. Typed'
    BY <1>2 DEF GateInv, Typed, TargetMoves, logVars
  <2>2. target' \in Nat /\ target' >= target
    BY <1>2, <1>a DEF TargetMoves, GateInv
  <2>3. Refers' /\ Named' /\ ReviewedAtRest' /\ Independence' /\ FreeWasMerged'
    BY <1>2, <2>2, GateFrame DEF GateInv, TargetMoves, logVars
  <2> QED
    BY <2>1, <2>3 DEF GateInv
<1>3. ASSUME GateInv, NEW c \in Collectors, NEW id \in EvidenceIds, ReadHead(c, id) PROVE Kept
  <2> DEFINE new == [NotCollecting EXCEPT !.at = "test", !.id = id, !.head = head]
  <2>1. new \in Collectings /\ new.id \in EvidenceIds
    BY <1>3, <1>b DEF GateInv, Typed, NotCollecting, Collectings
  <2>2. collecting' = [collecting EXCEPT ![c] = new] /\ UNCHANGED <<gitVars, logVars, checking>>
    BY <1>3 DEF ReadHead
  <2> HIDE DEF new
  <2> QED
    BY <1>3, <1>a, <2>1, <2>2, CollectStep DEF GateInv, logVars
<1>4. ASSUME GateInv, NEW c \in Collectors, RunTests(c) PROVE Kept
  <2>1. PICK passed \in {FALSE, (tree \in Passing)} :
           collecting' = [collecting EXCEPT
              ![c].at = "status", ![c].passed = passed,
              ![c].tested = (passed /\ tree = collecting[c].head)]
    BY <1>4 DEF RunTests
  <2> DEFINE new == [collecting[c] EXCEPT !.at = "status", !.passed = passed,
                        !.tested = (passed /\ tree = collecting[c].head)]
  <2>2. collecting[c] \in Collectings /\ collecting[c].id \in EvidenceIds
    BY <1>4, <1>a DEF GateInv, Named, RunTests
  <2>3. passed \in BOOLEAN
    <3>1. (tree \in Passing) \in BOOLEAN
      OBVIOUS
    <3> QED
      BY <3>1, Zenon
  <2>4. new \in Collectings /\ new.id \in EvidenceIds
    BY <2>2, <2>3 DEF Collectings
  <2>5. collecting' = [collecting EXCEPT ![c] = new] /\ UNCHANGED <<gitVars, logVars, checking>>
    BY <1>4, <2>1, <1>a DEF RunTests, GateInv
  <2> HIDE DEF new
  <2> QED
    BY <1>4, <1>a, <2>4, <2>5, CollectStep DEF GateInv, logVars
<1>5. ASSUME GateInv, NEW c \in Collectors, ReadStatus(c) PROVE Kept
  <2> DEFINE new == [collecting[c] EXCEPT !.at = "record", !.clean = (tree = head)]
  <2>1. collecting[c] \in Collectings /\ collecting[c].id \in EvidenceIds
    BY <1>5, <1>a DEF GateInv, Named, ReadStatus
  <2>2. new \in Collectings /\ new.id \in EvidenceIds
    BY <2>1 DEF Collectings
  <2>3. collecting' = [collecting EXCEPT ![c] = new] /\ UNCHANGED <<gitVars, logVars, checking>>
    BY <1>5, <1>a DEF ReadStatus, GateInv
  <2> HIDE DEF new
  <2> QED
    BY <1>5, <1>a, <2>2, <2>3, CollectStep DEF GateInv, logVars
<1>6. ASSUME GateInv, NEW c \in Collectors, RecordEvidence(c) PROVE Kept
  <2> DEFINE record == [id |-> collecting[c].id, head |-> collecting[c].head,
                        tested |-> collecting[c].tested, passed |-> collecting[c].passed,
                        clean |-> collecting[c].clean]
  <2>1. collecting[c] \in Collectings /\ collecting[c].id \in EvidenceIds
    BY <1>6, <1>a DEF GateInv, Named, RecordEvidence
  <2>2. record \in Evidence
    BY <2>1 DEF Collectings, Evidence
  <2>3. evidence' = Append(evidence, record) /\ UnusedId(record.id)
    BY <1>6 DEF RecordEvidence
  <2>4. /\ collecting' = [collecting EXCEPT ![c] = NotCollecting]
        /\ UNCHANGED <<gitVars, run, attempt, reviews, checks, checking>>
    BY <1>6 DEF RecordEvidence
  <2> HIDE DEF record
  <2> QED
    BY <1>6, <1>c, <2>2, <2>3, <2>4, CollectStep
<1>7. ASSUME GateInv, NEW c \in Collectors, AbandonEvidence(c) PROVE Kept
  <2>1. /\ collecting' = [collecting EXCEPT ![c] = NotCollecting]
        /\ UNCHANGED <<gitVars, logVars, checking>>
    BY <1>7 DEF AbandonEvidence
  <2> QED
    BY <1>7, <1>a, <1>c, <2>1, CollectStep DEF GateInv, logVars
<1>8. ASSUME GateInv, NEW e \in DOMAIN evidence, NEW home \in Homes, NEW decision \in Decisions,
             RecordReview(e, decision, home)
      PROVE  Kept
  <2> DEFINE review == [evidence |-> e, decision |-> decision, home |-> home]
  <2>1. review \in Review /\ Independent(review.home)
    BY <1>8, <1>a DEF GateInv, Review, RecordReview
  <2>2. /\ reviews' = Append(reviews, review) /\ Active = {}
        /\ UNCHANGED <<gitVars, run, attempt, evidence, checks, collecting, checking>>
    BY <1>8 DEF RecordReview
  <2>r. /\ review.evidence \in DOMAIN evidence
        /\ review.decision = "approved" =>
              evidence[review.evidence].clean /\ evidence[review.evidence].passed
    BY <1>8 DEF RecordReview
  <2> HIDE DEF review
  <2>3. reviews' \in Seq(Review) /\ Longer(reviews, reviews', review)
    BY <1>8, <1>a, <2>1, <2>2, AppendLonger DEF GateInv
  <2>4. \A r \in DOMAIN reviews' : Independent(reviews'[r].home)
    BY <1>8, <2>1, <2>3 DEF GateInv, Independence, Longer
  <2>5. Refers'
    BY <1>8, <2>1, <2>2, <2>3, <2>r, ReviewAdded
  <2>6. Typed'
    BY <1>8, <2>2, <2>3 DEF GateInv, Typed, gitVars
  <2>7. ReviewedAtRest' /\ Independence'
    BY <2>2, <2>4 DEF ReviewedAtRest, Independence, Active, Independent
  <2> QED
    BY <1>8, <1>a, <2>2, <2>5, <2>6, <2>7, GateFrame DEF GateInv, gitVars
<1>9. ASSUME GateInv, NEW e \in DOMAIN evidence, NEW home \in Homes, NEW k \in Checkers,
             RecordCheck(k, e, home)
      PROVE  Kept
  <2> DEFINE check == [evidence |-> e, head |-> checking[k].head, free |-> checking[k].free]
  <2>1. checking[k] \in Checkings /\ e \in Nat
    BY <1>9, <1>a DEF GateInv
  <2>2. /\ check \in Check
        /\ check.free => Mergeable(check.head)
        /\ check.evidence \in DOMAIN evidence /\ Approved(check.evidence)
        /\ check.head = evidence[check.evidence].head
    BY <1>9, <2>1 DEF GateInv, FreeWasMerged, Check, Checkings, RecordCheck
  <2>3. /\ checks' = Append(checks, check)
        /\ checking' = [checking EXCEPT ![k] = NotChecking]
        /\ UNCHANGED <<gitVars, run, attempt, evidence, reviews, collecting>>
    BY <1>9 DEF RecordCheck
  <2> HIDE DEF check
  <2> QED
    BY <1>9, <1>d, <2>2, <2>3, CheckStep
<1>10. ASSUME GateInv, NEW k \in Checkers, TryMerge(k) PROVE Kept
  <2> DEFINE new == [at |-> "record", head |-> head, free |-> <<target, head>> \notin Conflicting]
  <2>1. new \in Checkings
    BY <1>10 DEF GateInv, Typed, Checkings
  <2>2. new.free => Mergeable(new.head)
    <3>1. new.head = head /\ new.free = (<<target, head>> \notin Conflicting)
      OBVIOUS
    <3>2. target \in 0..target
      BY <1>10, <1>a DEF GateInv
    <3> HIDE DEF new
    <3> QED
      BY <3>1, <3>2 DEF Mergeable
  <2>3. /\ checking' = [checking EXCEPT ![k] = new]
        /\ UNCHANGED <<gitVars, logVars, collecting>>
    BY <1>10 DEF TryMerge
  <2> HIDE DEF new
  <2> QED
    BY <1>10, <2>1, <2>2, <2>3, CheckStep DEF logVars
<1>11. ASSUME GateInv, NEW k \in Checkers, AbandonCheck(k) PROVE Kept
  <2>1. /\ checking' = [checking EXCEPT ![k] = NotChecking]
        /\ UNCHANGED <<gitVars, logVars, collecting>>
    BY <1>11 DEF AbandonCheck
  <2> QED
    BY <1>11, <1>d, <2>1, CheckStep DEF logVars
<1>12. ASSUME GateInv, NEW a \in Attempts, NEW status \in {"succeeded", "failed"},
              CloseAttempt(a, status)
       PROVE  Kept
  <2>1. Typed'
    BY <1>12 DEF GateInv, Typed, CloseAttempt, Statuses, gitVars
  <2>2. Active' \subseteq Active
    BY <1>12 DEF GateInv, Typed, CloseAttempt, Active
  <2>3. ReviewedAtRest' /\ Independence'
    BY <1>12, <2>2 DEF GateInv, CloseAttempt, ReviewedAtRest, Independence, Independent
  <2>4. Refers' /\ Named' /\ FreeWasMerged'
    BY <1>12, <1>a, GateFrame DEF GateInv, CloseAttempt, gitVars
  <2> QED
    BY <2>1, <2>3, <2>4 DEF GateInv
<1>13. ASSUME GateInv, NEW status \in {"succeeded", "failed"}, run' = status,
              UNCHANGED <<gitVars, attempt, evidence, reviews, checks, collecting, checking>>
       PROVE  Kept
  <2>1. Typed'
    BY <1>13 DEF GateInv, Typed, Statuses, gitVars
  <2>2. Refers' /\ ReviewedAtRest' /\ Independence' /\ Named' /\ FreeWasMerged'
    BY <1>13, <1>a, GateFrame DEF GateInv, gitVars
  <2> QED
    BY <2>1, <2>2 DEF GateInv
<1>14. ASSUME GateInv, UNCHANGED vars PROVE Kept
  <2>1. Typed'
    BY <1>14 DEF GateInv, Typed, vars
  <2>2. Refers' /\ ReviewedAtRest' /\ Independence' /\ Named' /\ FreeWasMerged'
    BY <1>14, <1>a, GateFrame DEF GateInv, vars
  <2> QED
    BY <2>1, <2>2 DEF GateInv
<1> HIDE DEF Kept
<1>15. ASSUME GateInv, CompleteRun \/ FailRun PROVE Kept
  BY <1>15, <1>13 DEF CompleteRun, FailRun
<1>16. ASSUME GateInv, Next PROVE Kept
  BY <1>16, <1>1, <1>2, <1>3, <1>4, <1>5, <1>6, <1>7, <1>8, <1>9, <1>10, <1>11, <1>12, <1>15
     DEF Next
<1>17. GateInv /\ [Next]_vars => Kept
  BY <1>14, <1>16
<1> QED
  BY <1>17 DEF Kept

LEMMA GateInvariant == Spec => []GateInv
<1> QED
  BY GateInit, GateStep, PTL DEF Spec

----------------------------------------------------------------------------
\* The properties.

\* Every variable of the gate holds a value of its type, and evidence, reviews and
\* checks refer to each other as they should, whoever collects, checks, reviews and
\* works at the same time.
THEOREM GateTypeCorrect == Spec => []TypeOK
<1>1. GateInv => TypeOK
  BY DEF GateInv, TypeOK
<1> QED
  BY <1>1, GateInvariant, PTL

\* Only RecordEvidence adds to the evidence, and it needs the responsible Attempt
\* active: nobody has reviewed by then.
LEMMA EvidenceStep ==
    ASSUME GateInv, Next
    PROVE  ReviewsComeLast
<1>1. ASSUME NEW c \in Collectors, RecordEvidence(c) PROVE reviews = <<>>
  BY <1>1 DEF RecordEvidence, GateInv, ReviewedAtRest
<1>2. ASSUME \A c \in Collectors : ~RecordEvidence(c) PROVE evidence' = evidence
  BY <1>2 DEF Next, Work, TargetMoves, ReadHead, RunTests, ReadStatus, AbandonEvidence,
       RecordReview, RecordCheck, TryMerge, AbandonCheck, CloseAttempt, CompleteRun, FailRun,
       logVars
<1> QED
  BY <1>1, <1>2 DEF ReviewsComeLast

\* Only CompleteRun completes a Run, and its gate reads records that are as the
\* invariant says.
LEMMA CompletionStep ==
    ASSUME GateInv, Next
    PROVE  CompletesApprovedWork
<1> SUFFICES ASSUME run' = "succeeded", run # "succeeded" PROVE CompletesApprovedWork
  BY DEF CompletesApprovedWork
<1> USE GateAssumption
<1> DEFINE e == Len(evidence)
           k == LatestCheck(e)
<1>1. CompleteRun
  BY DEF Next, Work, TargetMoves, ReadHead, RunTests, ReadStatus, RecordEvidence,
       AbandonEvidence, RecordReview, RecordCheck, TryMerge, AbandonCheck, CloseAttempt,
       FailRun, logVars
<1>2. /\ e # 0 /\ Approved(e)
      /\ k # 0 /\ checks[k].free /\ checks[k].head = evidence[e].head
      /\ head = evidence[e].head /\ tree = head
  BY <1>1 DEF CompleteRun, MayComplete
<1>3. e \in DOMAIN evidence
  BY <1>2 DEF GateInv, Typed
<1>4. PICK r \in DOMAIN reviews : reviews[r].evidence = e /\ reviews[r].decision = "approved"
  BY <1>2 DEF Approved
<1>5. reviews[r].home # ResponsibleHome
  BY DEF GateInv, Independence, Independent
<1>6. /\ k \in DOMAIN checks /\ checks[k].evidence = e
      /\ \A m \in DOMAIN checks : m > k => checks[m].evidence # e
  BY <1>2, LatestIsLast DEF GateInv
<1>7. \E t \in 0..target : <<t, head>> \notin Conflicting
  BY <1>2, <1>6 DEF GateInv, FreeWasMerged, Mergeable
<1> HIDE DEF e, k
<1> QED
  BY <1>2, <1>3, <1>4, <1>5, <1>6, <1>7 DEF CompletesApprovedWork

\* What a Run completes with is what was reviewed and checked, although collecting
\* evidence holds no lock and the worktree and the target go on changing: nothing
\* is recorded after a review, and the gate reads the worktree once more.
THEOREM CompletesReviewedWorkHolds == Spec => CompletesReviewedWork
<1>1. GateInv /\ [Next]_vars => [ReviewsComeLast /\ CompletesApprovedWork]_vars
  BY EvidenceStep, CompletionStep
<1> QED
  BY <1>1, GateInvariant, PTL DEF Spec, CompletesReviewedWork

=============================================================================
