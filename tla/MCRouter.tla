------------------------------ MODULE MCRouter ------------------------------
\* Instances of Router for TLC.  Capabilities are numbers, so that a request can ask for
\* more of them than one event may hold texts.
EXTENDS Router

\* Two candidates on two Homes; the second costs less and may run two Attempts.
Candidate(home, alias, account, strength, price, capacity, baseline) ==
    [enabled |-> TRUE, home |-> home, alias |-> alias, account |-> account, model |-> "m",
     specialties |-> {"code"}, capabilities |-> {0}, domains |-> {"open"},
     context |-> 1000, strength |-> strength, inputPrice |-> price, outputPrice |-> price,
     capacity |-> capacity, baseline |-> baseline]

Even == [name \in Components |-> IF name = "health" THEN 1200 ELSE 1100]
Bulk == [name \in Components |-> CASE name = "cost" -> 6000 [] name = "speed" -> 4000
                                  [] OTHER -> 0]

SomePolicy ==
    [candidates    |-> <<Candidate("h1", "x1", "a1", 9000, 2100, 1, 5),
                         Candidate("h2", "x2", None, 7000, 2000, 2, 8)>>,
     rules         |-> [batch  |-> [NoRule EXCEPT !.weights = Bulk, !.capabilities = {0}],
                        design |-> [NoRule EXCEPT !.strength = 8000],
                        survey |-> [NoRule EXCEPT !.capabilities = 1..40]],
     weights       |-> Even,
     successPrior  |-> 5000, priorAttempts |-> 4,
     unknownQuota  |-> 5000, unknownHealth |-> 7000]

Plain == [kind |-> "general", context |-> 600, output |-> 300, capabilities |-> {},
          specialties |-> {"code"}, sensitive |-> FALSE, domain |-> None, lockedHome |-> None,
          lockedModel |-> None, maxCost |-> None, allowDegraded |-> FALSE]

SomeRequests ==
    {[Plain EXCEPT !.kind = "batch"],
     [Plain EXCEPT !.kind = "survey", !.capabilities = 31..70],
     [Plain EXCEPT !.kind = "design", !.allowDegraded = TRUE],
     [Plain EXCEPT !.sensitive = TRUE, !.lockedHome = "x1", !.maxCost = 1]}

Entry(home, alias, available) == [home |-> home, alias |-> alias, available |-> available]

SomeRegistries ==
    {<<Entry("h1", "x1", TRUE), Entry("h2", "x2", TRUE)>>,
     <<Entry("h1", "x1", FALSE), Entry("h2", "x2", TRUE)>>}

Health(type, home, ts) ==
    [type |-> type, ts |-> ts, status |-> "degraded", reachable |-> TRUE, quota |-> None,
     auth |-> None, reset |-> None,
     identity |-> [home |-> home, account |-> None, model |-> None]]

SomeReports ==
    {[Health("home_health", "h1", 1) EXCEPT !.status = "unhealthy"],
     [Health("quota_snapshot", "h1", 2) EXCEPT !.quota = 8000, !.auth = TRUE],
     [Health("quota_snapshot", "x2", 1) EXCEPT !.quota = 0, !.identity.model = "m"],
     [Health("rate_limited", "h1", 2) EXCEPT !.reset = 3],
     Health("rate_limited", "h1", 1),
     Health("auth_invalid", "h1", 1),
     [Health("home_health", "h1", 2) EXCEPT !.reachable = FALSE, !.identity.account = "a2"]}

=============================================================================
