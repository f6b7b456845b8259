------------------------------- MODULE Router -------------------------------
(***************************************************************************)
(* The policy router (router.rs: RouteEngine) and how it is used.  A       *)
(* decision reads the Homes of the registry first, then takes the lock of  *)
(* the event log, evaluates every candidate of the policy on the events    *)
(* that are there, and appends what it decided (AgentRunStore::            *)
(* decide_route); an Attempt is bound to the decision by a later call.     *)
(* The scheduler appends the decision and the Attempt together             *)
(* (Dispatch).  Attempts end, and health is reported, at any time and with *)
(* timestamps of clocks that need not agree.                               *)
(*                                                                         *)
(* Labels are compared without regard to case and are model values here;   *)
(* candidateIds are numbers in the order of the texts.  Only the events    *)
(* the router reads, and its own, are in the log.                          *)
(***************************************************************************)
EXTENDS Integers, Sequences, SequencesExt, FiniteSets, FiniteSetsExt

CONSTANTS
    None,            \* an absent optional field
    Policy,          \* RoutePolicy: candidates, rules, weights and priors
    Requests,        \* RouteRequests callers may make, valid or not
    Registries,      \* what the Home registry may hold: sequences of its entries
    Callers, Attempts,
    Reports,         \* health events that may be reported
    Durations,       \* durations of Attempts
    Times,           \* times the clock may show to a decision
    MaxLabels,       \* most labels of one list, and texts of one event (64)
    MaxCount,        \* the largest number a counter of the program holds
    MaxEvents        \* bound of the model: events of the log

VARIABLES
    log,             \* the event log
    registry,        \* the Homes in the registry
    seen,            \* per caller: the Homes it has read for its decision, or None
    refused          \* the decision the last call failed with: the log did not accept it

vars == <<log, registry, seen, refused>>

Whole       == 10000
Components  == {"task_fit", "model_strength", "context_headroom", "quota",
                "historical_success", "speed", "cost", "load", "health"}
HealthTypes == {"quota_snapshot", "rate_limited", "auth_invalid", "home_health"}
Ends        == {"attempt_completed", "attempt_failed"}
Candidates  == DOMAIN Policy.candidates
Profile(c)  == Policy.candidates[c]

Total(f) == f["task_fit"] + f["model_strength"] + f["context_headroom"] + f["quota"]
            + f["historical_success"] + f["speed"] + f["cost"] + f["load"] + f["health"]

----------------------------------------------------------------------------
\* RouteRequest::validate, RoutePolicy::validate.

ValidRequest(request) ==
    /\ request.context > 0
    /\ request.sensitive => request.lockedHome # None
    /\ request.maxCost # 0
    /\ Cardinality(request.capabilities) <= MaxLabels
    /\ Cardinality(request.specialties) <= MaxLabels

ValidWeights(weights) == DOMAIN weights = Components /\ Total(weights) = Whole

ValidRule(rule) ==
    /\ Cardinality(rule.capabilities) <= MaxLabels
    /\ Cardinality(rule.specialties) <= MaxLabels
    /\ rule.strength # None => rule.strength <= Whole
    /\ rule.weights # None => ValidWeights(rule.weights)

ValidProfile(p) ==
    /\ p.context > 0 /\ p.strength <= Whole /\ p.capacity > 0 /\ p.baseline # 0
    /\ Cardinality(p.capabilities) <= MaxLabels /\ Cardinality(p.specialties) <= MaxLabels

ValidPolicy ==
    /\ ValidWeights(Policy.weights)
    /\ Policy.successPrior <= Whole /\ Policy.unknownQuota <= Whole
    /\ Policy.unknownHealth <= Whole
    /\ Candidates # {}
    /\ \A c \in Candidates : ValidProfile(Profile(c))
    /\ \A kind \in DOMAIN Policy.rules : ValidRule(Policy.rules[kind])

ASSUME PolicyAssumption == ValidPolicy
ASSUME BoundsAssumption == MaxEvents \in Nat /\ MaxCount \in Nat /\ MaxLabels \in Nat

\* What a report may say of the health of a Home, and anything of which the time is known.
HealthValues == [status : {e.status : e \in Reports}, reachable : BOOLEAN,
                 auth : BOOLEAN \cup {None}]

Stamped(Values) == [ts : Nat, value : Values]

\* The types of what the policy, the requests, the registry and the reports hold.
ASSUME TypesAssumption ==
    /\ None \notin Nat /\ None \notin BOOLEAN /\ None \notin Registries
    /\ None \notin Stamped(HealthValues) /\ None \notin Stamped(BOOLEAN)
    /\ None \notin Stamped(Nat \cup {None})
    /\ Candidates \subseteq Nat /\ IsFiniteSet(Candidates)
    /\ Policy.weights \in [Components -> Nat]
    /\ {Policy.successPrior, Policy.priorAttempts, Policy.unknownQuota, Policy.unknownHealth}
            \subseteq Nat
    /\ \A c \in Candidates :
        /\ Profile(c).home # None /\ Profile(c).enabled \in BOOLEAN
        /\ {Profile(c).context, Profile(c).strength, Profile(c).capacity,
             Profile(c).inputPrice, Profile(c).outputPrice} \subseteq Nat
        /\ Profile(c).baseline \in Nat \cup {None}
        /\ IsFiniteSet(Profile(c).specialties)
    /\ \A kind \in DOMAIN Policy.rules :
        /\ IsFiniteSet(Policy.rules[kind].capabilities)
        /\ IsFiniteSet(Policy.rules[kind].specialties)
        /\ Policy.rules[kind].strength \in Nat \cup {None}
        /\ Policy.rules[kind].weights \in [Components -> Nat] \cup {None}
    /\ \A request \in Requests :
        /\ request.context \in Nat /\ request.output \in Nat
        /\ request.maxCost \in Nat \cup {None} /\ request.allowDegraded \in BOOLEAN
        /\ IsFiniteSet(request.capabilities) /\ IsFiniteSet(request.specialties)
    /\ \A homes \in Registries :
        /\ homes \in Seq({homes[n] : n \in DOMAIN homes})
        /\ \A n \in DOMAIN homes : homes[n].available \in BOOLEAN
    /\ \A e \in Reports :
        /\ e.type \in HealthTypes /\ e.ts \in Nat /\ e.reachable \in BOOLEAN
        /\ e.quota \in 0..Whole \cup {None} /\ e.auth \in BOOLEAN \cup {None}
        /\ e.reset \in Nat \cup {None}
    /\ Durations \subseteq Nat /\ Times \subseteq Nat

NoRule == [capabilities |-> {}, specialties |-> {}, strength |-> None, weights |-> None]

Rule(request) == IF request.kind \in DOMAIN Policy.rules THEN Policy.rules[request.kind]
                 ELSE NoRule

\* Mutant: the weights of the rule are laid over those of the policy.
Weights_Merged(request) ==
    IF Rule(request).weights = None THEN Policy.weights
    ELSE [name \in Components |-> IF Rule(request).weights[name] # 0
                                  THEN Rule(request).weights[name] ELSE Policy.weights[name]]

Weights(request) == IF Rule(request).weights # None THEN Rule(request).weights
                    ELSE Policy.weights

\* normalized_union, of what the request and the rule of its kind ask for.
RequiredCapabilities(request) == request.capabilities \cup Rule(request).capabilities
PreferredSpecialties(request) == request.specialties \cup Rule(request).specialties

----------------------------------------------------------------------------
\* CandidateRuntime: what the log says of a candidate.

Identity(c) == [home |-> Profile(c).home, account |-> Profile(c).account,
                model |-> Profile(c).model]

\* matches_home: by id or by alias.
MatchesHome(c, name) == name # None /\ name \in {Profile(c).home, Profile(c).alias}

IdentityMatches(identity, c) ==
    /\ MatchesHome(c, identity.home)
    /\ identity.account = Profile(c).account
    /\ identity.model = Profile(c).model

\* A report that names no account, or no model, is about all of the Home.
HealthMatches(identity, c) ==
    /\ MatchesHome(c, identity.home)
    /\ identity.account \in {None, Profile(c).account}
    /\ identity.model \in {None, Profile(c).model}

NothingKnown == [starts |-> {}, terminals |-> {}, successes |-> 0, duration |-> 0,
                 health |-> None, quota |-> None, auth |-> None, limit |-> None]

\* Mutant: the last report to come wins, whenever it was made.
Latest_Arrival(current, ts, value) == [ts |-> ts, value |-> value]

\* The newer of what is known and what an event says, by timestamp; of equals the later.
Latest(current, ts, value) ==
    IF current = None \/ ts >= current.ts THEN [ts |-> ts, value |-> value] ELSE current

AuthReported(e) == IF e.type = "auth_invalid" THEN FALSE ELSE e.auth

Observe(r, e, c) ==
    CASE e.type = "attempt_started" ->
            IF IdentityMatches(e.identity, c) THEN [r EXCEPT !.starts = @ \cup {e.attempt}] ELSE r
      [] e.type \in Ends ->
            IF e.attempt \in r.starts \ r.terminals
            THEN [r EXCEPT !.terminals = @ \cup {e.attempt},
                           !.successes = @ + IF e.type = "attempt_completed" THEN 1 ELSE 0,
                           !.duration  = @ + e.duration]
            ELSE r
      [] e.type \in HealthTypes ->
            IF ~HealthMatches(e.identity, c) THEN r
            ELSE [r EXCEPT
                    !.health = Latest(@, e.ts, [status |-> e.status, reachable |-> e.reachable,
                                                auth |-> e.auth]),
                    !.quota  = IF e.quota = None THEN @ ELSE Latest(@, e.ts, e.quota),
                    !.auth   = IF AuthReported(e) = None THEN @
                               ELSE Latest(@, e.ts, AuthReported(e)),
                    !.limit  = IF e.type = "rate_limited" THEN Latest(@, e.ts, e.reset) ELSE @]
      [] OTHER -> r

FromEvents(c, events) ==
    LET after[n \in 0..Len(events)] ==
            IF n = 0 THEN NothingKnown ELSE Observe(after[n - 1], events[n], c)
    IN  after[Len(events)]

ActiveAttempts(runtime)   == Cardinality(runtime.starts \ runtime.terminals)
TerminalAttempts(runtime) == Cardinality(runtime.terminals)

----------------------------------------------------------------------------
\* evaluate_constraints.

\* home_state: the first entry that has the id or the alias of the candidate.
HomesOf(c, homes) ==
    {n \in DOMAIN homes : \/ homes[n].home = Profile(c).home
                          \/ Profile(c).alias # None /\ homes[n].alias = Profile(c).alias}

HomeAvailable(c, homes) == HomesOf(c, homes) # {} /\ homes[Min(HomesOf(c, homes))].available

\* estimated_cost: in millionths, rounded up.
EstimatedCost(c, request) ==
    (request.context * Profile(c).inputPrice + request.output * Profile(c).outputPrice
        + 999999) \div 1000000

Grounds(c, request, runtime, homes, now) ==
    LET p == Profile(c)
    IN
    [disabled    |-> ~p.enabled,
     home        |-> ~HomeAvailable(c, homes),
     lockedHome  |-> request.lockedHome # None /\ ~MatchesHome(c, request.lockedHome),
     lockedModel |-> request.lockedModel \notin {None, p.model},
     domain      |-> request.domain # None /\ request.domain \notin p.domains,
     context     |-> request.context + request.output > p.context,
     strength    |-> Rule(request).strength # None /\ p.strength < Rule(request).strength,
     cost        |-> request.maxCost # None /\ EstimatedCost(c, request) > request.maxCost,
     load        |-> ActiveAttempts(runtime) >= p.capacity,
     unreachable |-> runtime.health # None /\ ~runtime.health.value.reachable,
     unhealthy   |-> /\ runtime.health # None /\ ~request.allowDegraded
                     /\ runtime.health.value.status = "unhealthy"
                     /\ runtime.health.value.reachable,
     auth        |-> runtime.auth # None /\ ~runtime.auth.value,
     quota       |-> runtime.quota # None /\ runtime.quota.value = 0,
     limited     |-> /\ runtime.limit # None
                     /\ runtime.limit.value = None \/ runtime.limit.value > now]

\* A ground each, and one for every capability that is missing.
Rejections(c, request, runtime, homes, now) ==
    LET grounds == Grounds(c, request, runtime, homes, now)
    IN  {<<g, None>> : g \in {g \in DOMAIN grounds : grounds[g]}}
        \cup {<<"capability", label>> :
                label \in RequiredCapabilities(request) \ Profile(c).capabilities}

----------------------------------------------------------------------------
\* score_candidate.

AtMostWhole(n) == IF n > Whole THEN Whole ELSE n

Ratio(part, of) == IF of = 0 THEN 0 ELSE AtMostWhole((part * Whole) \div of)

ContextHeadroom(c, request) ==
    LET needed == request.context + request.output
    IN  IF needed >= Profile(c).context THEN 0
        ELSE Ratio(Profile(c).context - needed, Profile(c).context)

SmoothedSuccess(runtime) ==
    LET attempts == TerminalAttempts(runtime) + Policy.priorAttempts
    IN  IF attempts = 0 THEN Policy.successPrior
        ELSE AtMostWhole((runtime.successes * Whole + Policy.successPrior * Policy.priorAttempts)
                            \div attempts)

HealthScore(health) ==
    IF health = None THEN Policy.unknownHealth
    ELSE IF ~health.value.reachable \/ health.value.auth = FALSE THEN 0
    ELSE CASE health.value.status \in {"healthy", "succeeded"} -> Whole
           [] health.value.status = "degraded"                 -> 5000
           [] health.value.status \in {"unhealthy", "failed"}  -> 2000
           [] OTHER                                            -> 7500

RatioMatches(values, expected) ==
    IF expected = {} THEN 5000
    ELSE Ratio(Cardinality(values \cap expected), Cardinality(expected))

\* Mutant: what a value is above the least, not what the least is of it.
RelativeInverse_Excess(value, least) ==
    CASE value = None -> 5000
      [] value = 0    -> Whole
      [] value # 0 /\ least = None -> 5000
      [] OTHER        -> Ratio(value - least, value)

RelativeInverse(value, least) ==
    CASE value = None -> 5000
      [] value = 0    -> Whole
      [] value # 0 /\ least = None -> 5000
      [] OTHER        -> Ratio(least, value)

\* What is known of a candidate before the candidates are compared.
Draft(c, request, events, homes, now) ==
    LET runtime == FromEvents(c, events)
    IN  [rejections |-> Rejections(c, request, runtime, homes, now),
         cost       |-> EstimatedCost(c, request),
         active     |-> ActiveAttempts(runtime),
         history    |-> TerminalAttempts(runtime),
         success    |-> SmoothedSuccess(runtime),
         quota      |-> IF runtime.quota = None THEN None ELSE runtime.quota.value,
         health     |-> HealthScore(runtime.health),
         duration   |-> IF runtime.terminals = {} THEN Profile(c).baseline
                        ELSE runtime.duration \div TerminalAttempts(runtime),
         headroom   |-> ContextHeadroom(c, request)]

Least(values) == IF values = {} THEN None ELSE Min(values)

Scores(c, request, draft, leastCost, leastDuration) ==
    [task_fit           |-> RatioMatches(Profile(c).specialties, PreferredSpecialties(request)),
     model_strength     |-> Profile(c).strength,
     context_headroom   |-> draft.headroom,
     quota              |-> IF draft.quota = None THEN Policy.unknownQuota ELSE draft.quota,
     historical_success |-> draft.success,
     speed              |-> RelativeInverse(draft.duration, leastDuration),
     cost               |-> RelativeInverse(draft.cost, leastCost),
     load               |-> Whole - Ratio(draft.active, Profile(c).capacity),
     health             |-> draft.health]

Weighted(scores, weights) == [name \in Components |-> (scores[name] * weights[name]) \div Whole]

----------------------------------------------------------------------------
\* RouteEngine::evaluate.

\* Mutant: on the log as it was before the last append.
Drafts_Stale(request, events, homes, now) ==
    [c \in Candidates |-> Draft(c, request, IF events = <<>> THEN events ELSE Front(events),
                                homes, now)]

Drafts(request, events, homes, now) ==
    [c \in Candidates |-> Draft(c, request, events, homes, now)]

\* From the draft of every candidate; the log had as many events as observed says.
Evaluate(draft, request, observed, now) ==
    LET eligible == {c \in Candidates : draft[c].rejections = {}}
        cheapest == Least({draft[c].cost : c \in eligible})
        fastest  == Least({draft[c].duration : c \in eligible} \ {None})
        parts(c) == Weighted(Scores(c, request, draft[c], cheapest, fastest), Weights(request))
        score    == {<<c, AtMostWhole(Total(parts(c)))>> : c \in eligible}
        best     == {c \in eligible : \E s \in score : s[1] = c /\ \A t \in score : t[2] <= s[2]}
    IN  [request    |-> request,
         now        |-> now,
         observed   |-> observed,
         selected   |-> Least(best),
         eligible   |-> Cardinality(eligible),
         candidates |-> [c \in Candidates |->
                            [identity   |-> Identity(c),
                             eligible   |-> c \in eligible,
                             score      |-> IF c \in eligible THEN AtMostWhole(Total(parts(c)))
                                            ELSE None,
                             parts      |-> IF c \in eligible THEN parts(c) ELSE <<>>,
                             weights    |-> Weights(request),
                             cost       |-> draft[c].cost,
                             success    |-> draft[c].success,
                             quota      |-> draft[c].quota,
                             active     |-> draft[c].active,
                             rejections |-> draft[c].rejections]]]

\* The sums and the prices that do not fit fail the decision.
Evaluable(request) ==
    /\ ValidRequest(request)
    /\ request.context + request.output <= MaxCount
    /\ \A c \in Candidates : EstimatedCost(c, request) <= MaxCount

\* validate_route_candidates: what the event of a decision must be to be appended.
Recordable(d) ==
    /\ d.eligible = Cardinality({c \in Candidates : d.candidates[c].eligible})
    /\ \A c \in Candidates :
        LET s == d.candidates[c]
        IN  /\ s.eligible <=> s.score # None
            /\ s.score # None => s.score <= Whole
            /\ s.success <= Whole
            /\ s.quota # None => s.quota <= Whole
            /\ s.eligible <=> s.rejections = {}
            /\ Cardinality(s.rejections) <= MaxLabels
            /\ s.eligible => ValidWeights(s.weights) /\ s.score = Total(s.parts)
    /\ d.selected # None => d.selected \in Candidates /\ d.candidates[d.selected].eligible

----------------------------------------------------------------------------
\* The callers.

Appended(e) == /\ Len(log) < MaxEvents
              /\ log' = Append(log, e)

Started(attempt, c) ==
    [type |-> "attempt_started", attempt |-> attempt, identity |-> Identity(c)]

AttemptsIn(events) == {events[n].attempt : n \in {n \in DOMAIN events :
                                                    events[n].type = "attempt_started"}}

EndedIn(events)    == {events[n].attempt : n \in {n \in DOMAIN events : events[n].type \in Ends}}

\* The registry is rewritten by other commands, and Homes come and go on the disk.
RegistryChanges ==
    /\ registry' \in Registries \ {registry}
    /\ UNCHANGED <<log, seen>>
    /\ refused' = None

\* registered_route_homes, before the log is locked.
ReadHomes(caller) ==
    /\ seen[caller] = None
    /\ seen' = [seen EXCEPT ![caller] = registry]
    /\ UNCHANGED <<log, registry>>
    /\ refused' = None

\* Mutant: the decision counts itself among the events it was made on.
Decided_CountsItself(caller, request, now) ==
    {[type |-> "route_decided", homes |-> seen[caller],
      decision |-> Evaluate(drafts, request, Len(log) + 1, now)] :
        drafts \in {Drafts(request, log, seen[caller], now)}}

\* The events a caller may append for a request: the one decision the engine comes to.
Decided(caller, request, now) ==
    {[type |-> "route_decided", homes |-> seen[caller],
      decision |-> Evaluate(drafts, request, Len(log), now)] :
        drafts \in {Drafts(request, log, seen[caller], now)}}

\* AgentRunStore::decide_route: evaluated on the log it is appended to.  What the
\* verifier does not accept is not appended, and the caller has an error.
Decide(caller, request, now) ==
    /\ seen[caller] # None
    /\ Evaluable(request)
    /\ \E e \in Decided(caller, request, now) :
        IF Recordable(e.decision) THEN Appended(e) /\ refused' = None
        ELSE refused' = e.decision /\ UNCHANGED log
    /\ seen' = [seen EXCEPT ![caller] = None]
    /\ UNCHANGED registry

\* StartAttempt, with a decision that selected the candidate or with none at all.
StartAttempt(attempt, c) ==
    /\ attempt \notin AttemptsIn(log)
    /\ Appended(Started(attempt, c))
    /\ UNCHANGED <<registry, seen>>
    /\ refused' = None

\* SchedulerStore::dispatch: the decision and the Attempt are one append.  Which
\* of the eligible candidates it takes, if any, is up to the preferences and the
\* limits of the scheduler (module Scheduler).
Dispatch(caller, attempt, request, now) ==
    /\ seen[caller] # None
    /\ Evaluable(request)
    /\ attempt \notin AttemptsIn(log)
    /\ \E e \in Decided(caller, request, now) :
        /\ Recordable(e.decision)
        /\ \E c \in {c \in Candidates : e.decision.candidates[c].eligible} :
            log' = log \o <<[e EXCEPT !.decision.selected = c], Started(attempt, c)>>
    /\ Len(log') <= MaxEvents
    /\ seen' = [seen EXCEPT ![caller] = None]
    /\ UNCHANGED registry
    /\ refused' = None

FinishAttempt(attempt, type, duration) ==
    /\ attempt \in AttemptsIn(log) \ EndedIn(log)
    /\ Appended([type |-> type, attempt |-> attempt, duration |-> duration])
    /\ UNCHANGED <<registry, seen>>
    /\ refused' = None

\* `observe record' of a health event.
Report(e) ==
    /\ Appended(e)
    /\ UNCHANGED <<registry, seen>>
    /\ refused' = None

Init ==
    /\ log = <<>>
    /\ registry \in Registries
    /\ seen = [caller \in Callers |-> None]
    /\ refused = None

Next ==
    \/ RegistryChanges
    \/ \E caller \in Callers : ReadHomes(caller)
    \/ \E caller \in Callers, request \in Requests, now \in Times : Decide(caller, request, now)
    \/ \E caller \in Callers, a \in Attempts, request \in Requests, now \in Times :
            Dispatch(caller, a, request, now)
    \/ \E a \in Attempts, c \in Candidates : StartAttempt(a, c)
    \/ \E a \in Attempts, type \in Ends, d \in Durations : FinishAttempt(a, type, d)
    \/ \E e \in Reports : Report(e)

Spec == Init /\ [][Next]_vars

----------------------------------------------------------------------------
(* Properties.                                                             *)

Decisions == {n \in DOMAIN log : log[n].type = "route_decided"}

\* The decisions of the last step; the ones before were the last of earlier states.
NewDecisions == Decisions \cap {Len(log) - 1, Len(log)}

\* Every recorded decision saw exactly the events before it, and what it selected
\* is one of the candidates; the Homes read are Homes that were registered.
TypeOK ==
    /\ Len(log) <= MaxEvents
    /\ registry \in Registries
    /\ \A caller \in Callers : seen[caller] \in Registries \cup {None}
    /\ \A n \in Decisions : /\ log[n].decision.observed = n - 1
                            /\ log[n].decision.selected \in Candidates \cup {None}

\* What the first n - 1 events say of a candidate, without the fold: the reports
\* about it with a quality, and the newest of them.
Reported(c, n, Quality(_)) ==
    {m \in 1..(n - 1) : /\ log[m].type \in HealthTypes
                        /\ HealthMatches(log[m].identity, c)
                        /\ Quality(log[m])}

NewestOf(places) ==
    CHOOSE m \in places : \A k \in places :
        log[k].ts < log[m].ts \/ (log[k].ts = log[m].ts /\ k <= m)

Newest(places, Satisfies(_)) == places # {} => Satisfies(log[NewestOf(places)])

Running(c, n) ==
    {m \in 1..(n - 1) :
        /\ log[m].type = "attempt_started" /\ IdentityMatches(log[m].identity, c)
        /\ \A k \in 1..(n - 1) : log[k].type \in Ends => log[k].attempt # log[m].attempt}

ReportsAllow(c, n, request, now) ==
    LET any(e)         == TRUE
        quota(e)       == e.quota # None
        auth(e)        == e.type = "auth_invalid" \/ e.auth # None
        limited(e)     == e.type = "rate_limited"
        reachable(e)   == e.reachable
        healthy(e)     == e.status # "unhealthy"
        remaining(e)   == e.quota > 0
        valid(e)       == e.type # "auth_invalid" /\ e.auth
        over(e)        == e.reset # None /\ e.reset <= now
    IN  /\ Newest(Reported(c, n, any), reachable)
        /\ request.allowDegraded \/ Newest(Reported(c, n, any), healthy)
        /\ Newest(Reported(c, n, quota), remaining)
        /\ Newest(Reported(c, n, auth), valid)
        /\ Newest(Reported(c, n, limited), over)

ProfileAllows(c, request) ==
    /\ Profile(c).enabled
    /\ request.lockedHome \in {None, Profile(c).home, Profile(c).alias}
    /\ request.lockedModel \in {None, Profile(c).model}
    /\ request.domain \in {None} \cup Profile(c).domains
    /\ request.capabilities \cup Rule(request).capabilities \subseteq Profile(c).capabilities
    /\ request.context + request.output <= Profile(c).context
    /\ Rule(request).strength # None => Rule(request).strength <= Profile(c).strength
    /\ request.maxCost # None => EstimatedCost(c, request) <= request.maxCost

\* A candidate is eligible in a recorded decision exactly when its profile fits the
\* request, its Home was read as available, it runs fewer Attempts than it may and
\* the newest report of each kind on it, in whatever order the reports came, is in
\* its favour.
EligibleExactly ==
    \A n \in NewDecisions : \A c \in Candidates :
        LET d == log[n].decision
        IN  d.candidates[c].eligible <=>
                /\ ProfileAllows(c, d.request)
                /\ HomeAvailable(c, log[n].homes)
                /\ Cardinality(Running(c, n)) < Profile(c).capacity
                /\ ReportsAllow(c, n, d.request, d.now)

\* A candidate that is at least as good as another in everything the score is made
\* of never has the lower score: no weight, rounding or comparison turns against it.
AsGood(c, d, request, n) ==
    LET before == SubSeq(log, 1, n - 1)
        rc     == FromEvents(c, before)
        rd     == FromEvents(d, before)
        wanted == PreferredSpecialties(request)
        dc     == Draft(c, request, before, log[n].homes, log[n].decision.now)
        dd     == Draft(d, request, before, log[n].homes, log[n].decision.now)
    IN  /\ Profile(d).specialties \cap wanted \subseteq Profile(c).specialties
        /\ Profile(c).strength >= Profile(d).strength
        /\ Profile(c).context >= Profile(d).context
        /\ dc.quota = dd.quota \/ (dc.quota # None /\ dd.quota # None /\ dc.quota >= dd.quota)
        /\ rc.terminals = {} <=> rd.terminals = {}
        /\ rc.successes * TerminalAttempts(rd) >= rd.successes * TerminalAttempts(rc)
        /\ rc.successes = TerminalAttempts(rc) \/ TerminalAttempts(rc) <= TerminalAttempts(rd)
        /\ rd.successes = 0 \/ TerminalAttempts(rc) >= TerminalAttempts(rd)
        /\ dc.duration = dd.duration
           \/ (dc.duration # None /\ dd.duration # None /\ dc.duration <= dd.duration)
        /\ dc.cost <= dd.cost
        /\ dc.active * Profile(d).capacity <= dd.active * Profile(c).capacity
        /\ dc.health >= dd.health

NoneAsGoodScoresLower ==
    \A n \in NewDecisions : \A c, d \in Candidates :
        LET decision == log[n].decision
        IN  /\ decision.candidates[c].eligible /\ decision.candidates[d].eligible
            /\ AsGood(c, d, decision.request, n)
            => decision.candidates[c].score >= decision.candidates[d].score

\* What the engine decides is what the verifier of the log accepts, whatever valid
\* request meets whatever log: `route decide' fails on its own decision only where a
\* candidate has more rejections than one event may hold texts.
DecisionsAreRecordable ==
    refused # None =>
        \E c \in Candidates : Cardinality(refused.candidates[c].rejections) > MaxLabels

\* Two decisions may both see the same free place before either Attempt starts; a
\* dispatch may not: it never takes the candidate it selects past its concurrency limit.
DispatchWithinCapacity ==
    [][\A c \in Candidates :
        Len(log') = Len(log) + 2 /\ log'[Len(log) + 1].decision.selected = c
        => ActiveAttempts(FromEvents(c, log')) <= Profile(c).capacity]_vars
=============================================================================
