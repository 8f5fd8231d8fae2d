----------------------------- MODULE MCGateway -----------------------------
(***************************************************************************)
(* Scenarios for Gateway: two clients at an edge with limits of one or two. *)
(***************************************************************************)
EXTENDS Gateway, TLC

CONSTANTS c1, c2

NoRequests == [c \in Clients |-> {}]

Limits ==
    [requests_per_second |-> 9, writes_per_minute |-> 9, volunteer_writes_per_hour |-> 9,
     max_concurrency |-> 2, max_federation_concurrency |-> 2, max_storage |-> 9,
     max_origins |-> 1, max_origin_events |-> 2, max_volunteer_submissions |-> 1,
     volunteer_intake_enabled |-> TRUE, signed_lineage_writes_enabled |-> TRUE,
     allowed_publishers |-> {"O", "P"}]

Quiet ==
    [config |-> Limits, work |-> {}, requests |-> NoRequests, leases |-> NoRequests, bodies |-> {}, budget |-> 4,
     time |-> 0, crashes |-> 0, local |-> FALSE, synchronized |-> [o \in {} |-> {}]]

Get(path) == [path |-> path, token |-> FALSE]
Bundle(path, origin, cursor, token) ==
    [path |-> path, origin |-> origin, cursor |-> cursor, token |-> token]
Upload(artifact, authorization) ==
    [path |-> "artifacts", artifact |-> artifact, authorization |-> authorization,
     token |-> FALSE]
Patch(artifact) ==
    [path |-> "contributions", kind |-> "repository_patch", artifact |-> artifact,
     token |-> FALSE]
Result(work) ==
    [path |-> "contributions", kind |-> "work_result", work |-> work, token |-> FALSE]

\* Two clients with a lease each submit, here and at the administration listener, while
\* leases expire, or again and with another body, while work is completed.
Lease(c, work) == [nonce |-> <<c, 0>>, work |-> work, expires_at |-> 0]
Volunteering ==
    [Quiet EXCEPT !.work = {1, 2}, !.bodies = {"x"}, !.budget = 3, !.time = 1,
                  !.local = TRUE,
                  !.leases = c1 :> {Lease(c1, 1)} @@ c2 :> {Lease(c2, 2)},
                  !.requests = c1 :> {Get("task")} @@ c2 :> {}]
Crashing ==
    [Volunteering EXCEPT !.config.max_volunteer_submissions = 2, !.bodies = {"x", "y"},
                         !.time = 0, !.local = FALSE, !.crashes = 1,
                         !.requests[c2] = {Result(1)}]

\* Both clients publish new origins up to the limits, while the synchronization loop
\* learns one.
Publishing ==
    [Quiet EXCEPT !.config.max_federation_concurrency = 1,
                  !.synchronized = "S" :> {3}, !.crashes = 1, !.budget = 3,
                  !.requests = c1 :> {Bundle("publish", "O", 1, FALSE),
                                      Bundle("publish", "O", 3, FALSE)}
                               @@ c2 :> {Bundle("publish", "P", 2, FALSE),
                                         Bundle("import", "P", 2, TRUE),
                                         Bundle("import", "Q", 2, FALSE),
                                         Bundle("publish", "S", 1, FALSE)}]
Racing == [Publishing EXCEPT !.config.max_federation_concurrency = 2]

\* Both clients upload: the same bytes under two authorizations, and other bytes.
Uploading ==
    [Quiet EXCEPT !.config.max_storage = 1, !.crashes = 1,
                  !.requests = c1 :> {Upload("a", "g"), Patch("a")}
                               @@ c2 :> {Upload("a", "g"), Upload("a", "h"), Upload("b", "i")}]

\* Reads, writes and volunteer results against the three budgets, over time.
Budgets ==
    [Quiet EXCEPT !.config = [Limits EXCEPT !.requests_per_second = 1, !.writes_per_minute = 1,
                                            !.volunteer_writes_per_hour = 1,
                                            !.max_concurrency = 1],
                  !.time = 5, !.work = {1}, !.bodies = {"x"},
                  !.leases = c1 :> {[Lease(c1, 1) EXCEPT !.expires_at = 5]} @@ c2 :> {},
                  !.requests = c1 :> {Get("read")} @@ c2 :> {Get("read")}]

MCScenarios == {Volunteering, Crashing, Publishing, Racing, Uploading, Budgets}

=============================================================================
