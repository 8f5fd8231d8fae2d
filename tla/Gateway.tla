------------------------------- MODULE Gateway -------------------------------
(***************************************************************************)
(* The public edge of a relay and the handlers behind it that anyone may   *)
(* reach: volunteer tasks and results, federation bundles and forge        *)
(* artifacts (src/edge.rs, src/volunteer.rs, src/forge.rs, src/api.rs).    *)
(*                                                                         *)
(* A request passes the middleware enforce_public_edge, which takes its    *)
(* permits, counts it and checks its admission; then its body arrives; then *)
(* its handler runs.  Middleware and handlers of different requests        *)
(* interleave between the locks each of them takes, and the client may be  *)
(* gone at every point where a request waits.  The process may die and be  *)
(* started again: what is on the disk stays, the edge starts afresh.       *)
(*                                                                         *)
(* Abstractions.  A submission, a bundle and an artifact that fail their   *)
(* content checks are refused and change nothing, so those here are well   *)
(* formed and signed.  Storage is counted in artifacts.  What importing a  *)
(* bundle does is Federation; here an origin is a row with a cursor.       *)
(***************************************************************************)
EXTENDS Integers, Sequences, FiniteSets, FiniteSetsExt

CONSTANTS
    Clients,
    Scenarios,      \* limits of the edge, requests of the clients, bounds
    Second, Minute, Hour, VOLUNTEER_LEASE,  \* durations, in ticks
    MAX_RECEIPTS_PER_ARTIFACT

ASSUME DurationAssumption ==
    /\ {Second, Minute, Hour, VOLUNTEER_LEASE} \subseteq Nat \ {0}
    /\ Second <= Minute /\ Minute <= Hour

VARIABLES
    scenario,
    now,
    edge,       \* permits, rate windows and admission queues of the process
    request,    \* per client: the request it has in flight
    leases,     \* per client: the task leases it has received
    disk,       \* database rows and files
    receipts,   \* the receipts the node has signed and sent
    counted,    \* history: the requests this process has let through, by time
    spent       \* requests issued and crashes so far, against their bounds

vars == <<scenario, now, edge, request, leases, disk, receipts, counted, spent>>

config == scenario.config

ConfigLimits ==
    {"requests_per_second", "writes_per_minute", "max_concurrency",
     "max_federation_concurrency", "max_storage", "max_origins", "max_origin_events",
     "volunteer_writes_per_hour", "max_volunteer_submissions"}

validate_config(c) == \A limit \in ConfigLimits : c[limit] > 0

ASSUME ConfigAssumption == \A sc \in Scenarios : validate_config(sc.config)

Idle == [phase |-> "idle"]

PublicEdgePolicy(c, t) ==
    [concurrency |-> c.max_concurrency,
     federation_concurrency |-> c.max_federation_concurrency,
     windows |-> [second_started |-> t, requests_this_second |-> 0,
                  minute_started |-> t, writes_this_minute |-> 0,
                  hour_started |-> t, volunteer_writes_this_hour |-> 0],
     federation_admission |-> <<>>, volunteer_admission |-> <<>>]

Init ==
    /\ scenario \in Scenarios
    /\ now = 0
    /\ edge = PublicEdgePolicy(scenario.config, 0)
    /\ request = [c \in Clients |-> Idle]
    /\ leases = scenario.leases
    /\ disk = [submissions |-> {}, open |-> scenario.work, origins |-> {},
               artifacts |-> {}, temporaries |-> 0, receipt_files |-> {}, patches |-> {}]
    /\ receipts = {}
    /\ counted = <<>>
    /\ spent = [requests |-> 0, crashes |-> 0]

----------------------------------------------------------------------------
(* Requests.                                                               *)

IsWrite(r) == r.path \notin {"task", "read"}
IsVolunteerWrite(r) == r.path = "results"
IsFederationWrite(r) == r.path \in {"import", "publish"}
IsSignedLineageWrite(r) == r.path \in {"contributions", "artifacts"}

\* Limits and cursors are unsigned integers.
ASSUME ScenarioAssumption ==
    /\ IsFiniteSet(Clients)
    /\ \A sc \in Scenarios :
        /\ \A limit \in ConfigLimits : sc.config[limit] \in Nat
        /\ \A c \in Clients : \A r \in sc.requests[c] : IsFederationWrite(r) => r.cursor \in Nat
        /\ \A o \in DOMAIN sc.synchronized : sc.synchronized[o] \subseteq Nat

InFlight == {c \in Clients : request[c].phase # "idle"}
Phase(c, phase) == request[c].phase = phase

\* What a client may ask for: a request of the scenario, or a result for a lease it
\* has, be it again and with another body.
Requests(c) ==
    scenario.requests[c]
    \cup {[path |-> "results", lease |-> l, body |-> b, token |-> FALSE] :
            l \in leases[c], b \in scenario.bodies}

Issue(c) ==
    /\ Phase(c, "idle")
    /\ spent.requests < scenario.budget
    /\ \E r \in Requests(c) :
        request' = [request EXCEPT ![c] = [phase |-> "arrived", r |-> r]]
    /\ spent' = [spent EXCEPT !.requests = @ + 1]
    /\ UNCHANGED <<scenario, now, edge, leases, disk, receipts, counted>>

Goto(c, phase) == request' = [request EXCEPT ![c].phase = phase]

----------------------------------------------------------------------------
(* The end of a request: its permits and its place at a mutex are dropped. *)

Without(queue, c) ==
    IF \E i \in DOMAIN queue : queue[i] = c
    THEN LET i == CHOOSE i \in DOMAIN queue : queue[i] = c
         IN  SubSeq(queue, 1, i - 1) \o SubSeq(queue, i + 1, Len(queue))
    ELSE queue

\* Faulty: a request dropped while it waits keeps its place in the queue.
Released_queued(e, c) ==
    LET r == request[c].r
    IN  [e EXCEPT !.concurrency = @ + 1,
                  !.federation_concurrency = @ + (IF IsFederationWrite(r) THEN 1 ELSE 0),
                  !.federation_admission = IF Phase(c, "waiting") THEN @ ELSE Without(@, c),
                  !.volunteer_admission = IF Phase(c, "waiting") THEN @ ELSE Without(@, c)]

Released(e, c) ==
    LET r == request[c].r
    IN  [e EXCEPT !.concurrency = @ + 1,
                  !.federation_concurrency = @ + (IF IsFederationWrite(r) THEN 1 ELSE 0),
                  !.federation_admission = Without(@, c),
                  !.volunteer_admission = Without(@, c)]

Answer(c) ==
    /\ request' = [request EXCEPT ![c] = Idle]
    /\ edge' = Released(edge, c)
    /\ UNCHANGED <<scenario, now, counted, spent>>

Refuse(c) == Answer(c) /\ UNCHANGED <<leases, disk, receipts>>

----------------------------------------------------------------------------
(* enforce_public_edge.                                                    *)

\* try_acquire and, for bundles, try_acquire_federation: no request waits for a
\* permit.
Enter(c) ==
    /\ Phase(c, "arrived")
    /\ LET bundle == IsFederationWrite(request[c].r)
           granted == /\ edge.concurrency > 0
                      /\ bundle => edge.federation_concurrency > 0
       IN  IF granted
           THEN /\ edge' = [edge EXCEPT !.concurrency = @ - 1,
                                        !.federation_concurrency = @ - (IF bundle THEN 1 ELSE 0)]
                /\ Goto(c, "rate")
           ELSE request' = [request EXCEPT ![c] = Idle] /\ UNCHANGED edge
    /\ UNCHANGED <<scenario, now, leases, disk, receipts, counted, spent>>

\* Faulty: a window that is over is counted anew but not begun anew.
Rolled_unstarted(w) ==
    [w EXCEPT !.requests_this_second = IF now - w.second_started >= Second THEN 0 ELSE @,
              !.writes_this_minute = IF now - w.minute_started >= Minute THEN 0 ELSE @,
              !.volunteer_writes_this_hour = IF now - w.hour_started >= Hour THEN 0 ELSE @]

\* The windows that are over begin again, with this request.
Rolled(w) ==
    LET second == now - w.second_started >= Second
        minute == now - w.minute_started >= Minute
        hour == now - w.hour_started >= Hour
    IN  [second_started |-> IF second THEN now ELSE w.second_started,
         requests_this_second |-> IF second THEN 0 ELSE w.requests_this_second,
         minute_started |-> IF minute THEN now ELSE w.minute_started,
         writes_this_minute |-> IF minute THEN 0 ELSE w.writes_this_minute,
         hour_started |-> IF hour THEN now ELSE w.hour_started,
         volunteer_writes_this_hour |-> IF hour THEN 0 ELSE w.volunteer_writes_this_hour]

RateAllows(w, r) ==
    /\ w.requests_this_second < config.requests_per_second
    /\ IsWrite(r) => w.writes_this_minute < config.writes_per_minute
    /\ IsVolunteerWrite(r) => w.volunteer_writes_this_hour < config.volunteer_writes_per_hour

\* RateWindows::check, under its lock.  A refused request is not counted; one refused
\* later on has been.
CheckRate(c) ==
    /\ Phase(c, "rate")
    /\ LET r == request[c].r
           w == Rolled(edge.windows)
           One(counts) == IF counts THEN 1 ELSE 0
       IN  IF RateAllows(w, r)
           THEN /\ edge' = [edge EXCEPT !.windows =
                    [w EXCEPT !.requests_this_second = @ + 1,
                              !.writes_this_minute = @ + One(IsWrite(r)),
                              !.volunteer_writes_this_hour = @ + One(IsVolunteerWrite(r))]]
                /\ counted' = Append(counted, [at |-> now, write |-> IsWrite(r),
                                               volunteer |-> IsVolunteerWrite(r)])
                /\ Goto(c, "admission")
           ELSE /\ edge' = [Released(edge, c) EXCEPT !.windows = w]
                /\ request' = [request EXCEPT ![c] = Idle]
                /\ UNCHANGED counted
    /\ UNCHANGED <<scenario, now, leases, disk, receipts, spent>>

\* directory_size: artifacts, and temporary files, also those a crash left behind.
Stored == Cardinality(disk.artifacts) + disk.temporaries
Claimed(r) == IF r.path = "artifacts" THEN 1 ELSE 0
ensure_storage_headroom(r) == Stored + Claimed(r) <= config.max_storage

WriteAdmitted(r) ==
    /\ IsVolunteerWrite(r) => config.volunteer_intake_enabled
    /\ \/ IsVolunteerWrite(r)
       \/ r.path = "publish"
       \/ config.signed_lineage_writes_enabled /\ IsSignedLineageWrite(r)
       \/ r.token
    /\ ensure_storage_headroom(r)

Admit(c) ==
    /\ Phase(c, "admission")
    /\ IF IsWrite(request[c].r) => WriteAdmitted(request[c].r)
       THEN /\ Goto(c, "body")
            /\ UNCHANGED <<scenario, now, edge, leases, disk, receipts, counted, spent>>
       ELSE Refuse(c)

----------------------------------------------------------------------------
(* Bodies and admission mutexes.  Nothing bounds the time a body takes.    *)

\* The extractor has the body; a handler with an admission mutex queues for it.
ReceiveBody(c) ==
    /\ Phase(c, "body")
    /\ LET r == request[c].r
       IN  CASE IsFederationWrite(r) ->
                    /\ Goto(c, "waiting")
                    /\ edge' = [edge EXCEPT !.federation_admission = Append(@, c)]
             [] IsVolunteerWrite(r) ->
                    /\ Goto(c, "waiting")
                    /\ edge' = [edge EXCEPT !.volunteer_admission = Append(@, c)]
             [] OTHER -> Goto(c, "handler") /\ UNCHANGED edge
    /\ UNCHANGED <<scenario, now, leases, disk, receipts, counted, spent>>

\* The connection is closed while the request waits: its future is dropped.
Disconnect(c) ==
    /\ request[c].phase \in {"body", "waiting"}
    /\ Refuse(c)

\* Faulty: the handler runs without its mutex.
HasGuard_always(queue, c) == TRUE

\* The mutexes are first come, first served.
HasGuard(queue, c) == queue # <<>> /\ Head(queue) = c

----------------------------------------------------------------------------
(* Volunteers.                                                             *)

volunteer_submission_count == Cardinality(disk.submissions)

authorize_volunteer_task ==
    /\ config.volunteer_intake_enabled
    /\ volunteer_submission_count < config.max_volunteer_submissions

\* The open item with the fewest submissions, the oldest of those; work is numbered
\* by the event that made it.
volunteer_task_candidate ==
    LET count(w) == Cardinality({s \in disk.submissions : s.work = w})
    IN  {w \in disk.open : \A v \in disk.open \ {w} :
            count(w) < count(v) \/ (count(w) = count(v) /\ w < v)}

\* The reply, with its lease, may be lost.
IssueTask(c) ==
    /\ Phase(c, "handler") /\ request[c].r.path = "task"
    /\ LET granted == {l \in {[nonce |-> <<c, Cardinality(leases[c])>>, work |-> w,
                               expires_at |-> now + VOLUNTEER_LEASE] :
                                    w \in volunteer_task_candidate} : authorize_volunteer_task}
       IN  \E arrived \in {{}, granted} : leases' = [leases EXCEPT ![c] = @ \cup arrived]
    /\ Answer(c)
    /\ UNCHANGED <<disk, receipts>>

AuthorizeSubmission(c) ==
    /\ Phase(c, "waiting") /\ IsVolunteerWrite(request[c].r)
    /\ HasGuard(edge.volunteer_admission, c)
    /\ IF authorize_volunteer_task
       THEN /\ Goto(c, "check")
            /\ UNCHANGED <<scenario, now, edge, leases, disk, receipts, counted, spent>>
       ELSE Refuse(c)

\* Results that are not well formed are refused like late ones and left out.
validate_submission(r) == now <= r.lease.expires_at

\* The item is read under a lock of its own.
CheckSubmission(c) ==
    /\ Phase(c, "check")
    /\ LET r == request[c].r
       IN  IF validate_submission(r) /\ r.lease.work \in disk.open
           THEN /\ Goto(c, "store")
                /\ UNCHANGED <<scenario, now, edge, leases, disk, receipts, counted, spent>>
           ELSE Refuse(c)

Submission(r, via) ==
    [nonce |-> r.lease.nonce, work |-> r.lease.work, body |-> r.body, via |-> via]

\* Faulty: INSERT OR REPLACE.
store_volunteer_submission_replacing(rows, row) ==
    {s \in rows : s.nonce # row.nonce} \cup {row}

\* INSERT OR IGNORE: the nonce and the digest are unique.
store_volunteer_submission(rows, row) ==
    IF \E s \in rows : s.nonce = row.nonce THEN rows ELSE rows \cup {row}

VolunteerReceipt(row) ==
    [of |-> "submission", nonce |-> row.nonce, work |-> row.work, body |-> row.body]

StoreSubmission(c) ==
    /\ Phase(c, "store")
    /\ LET row == Submission(request[c].r, "edge")
           rows == store_volunteer_submission(disk.submissions, row)
       IN  IF rows = disk.submissions
           THEN UNCHANGED <<disk, receipts>>
           ELSE /\ disk' = [disk EXCEPT !.submissions = rows]
                /\ receipts' = receipts \cup {VolunteerReceipt(row)}
    /\ Answer(c)
    /\ UNCHANGED leases

\* The administration listener takes the same submission with neither the mutex nor
\* the quota.
LocalSubmission(c) ==
    /\ scenario.local
    /\ \E l \in leases[c], b \in scenario.bodies :
        LET r == [lease |-> l, body |-> b]
            row == Submission(r, "local")
            rows == store_volunteer_submission(disk.submissions, row)
        IN  /\ validate_submission(r) /\ l.work \in disk.open
            /\ rows # disk.submissions
            /\ disk' = [disk EXCEPT !.submissions = rows]
            /\ receipts' = receipts \cup {VolunteerReceipt(row)}
    /\ UNCHANGED <<scenario, now, edge, request, leases, counted, spent>>

\* A signed contribution that completes an item.
ContributeResult(c) ==
    /\ Phase(c, "handler") /\ request[c].r.path = "contributions"
    /\ request[c].r.kind = "work_result"
    /\ disk' = [disk EXCEPT !.open = @ \ {request[c].r.work}]
    /\ Answer(c)
    /\ UNCHANGED <<leases, receipts>>

Read(c) ==
    /\ Phase(c, "handler") /\ request[c].r.path = "read"
    /\ Refuse(c)

----------------------------------------------------------------------------
(* Federation bundles.  The synchronization loop imports as well, and       *)
(* knows nothing of the edge.                                              *)

Origins == {p.origin : p \in disk.origins}
Admitted == {p.origin : p \in {p \in disk.origins : p.via = "edge"}}

authorize_federation_bundle(r) ==
    /\ r.token \/ r.origin \in config.allowed_publishers
    /\ r.cursor <= config.max_origin_events
    /\ r.origin \in Origins \/ Cardinality(Origins) < config.max_origins

AuthorizeBundle(c) ==
    /\ Phase(c, "waiting") /\ IsFederationWrite(request[c].r)
    /\ HasGuard(edge.federation_admission, c)
    /\ IF authorize_federation_bundle(request[c].r)
       THEN /\ Goto(c, "import")
            /\ UNCHANGED <<scenario, now, edge, leases, disk, receipts, counted, spent>>
       ELSE Refuse(c)

\* A new row, or a cursor that only moves on; published is what came by the edge.
Imported(origins, o, cursor, via) ==
    LET known == {p \in origins : p.origin = o}
        before == IF known = {} THEN [origin |-> o, via |-> via, published |-> 0, cursor |-> 0]
                  ELSE CHOOSE p \in known : TRUE
    IN  (origins \ known) \cup
        {[before EXCEPT !.cursor = Max({@, cursor}),
                        !.published = IF via = "edge" THEN Max({@, cursor}) ELSE @]}

\* import_federation_bundle, and for publish a receipt for the checkpoint; the import
\* may also refuse.
ImportBundle(c) ==
    /\ Phase(c, "import")
    /\ LET r == request[c].r
       IN  \/ /\ disk' = [disk EXCEPT !.origins = Imported(@, r.origin, r.cursor, "edge")]
              /\ receipts' = receipts \cup
                    {x \in {[of |-> "bundle", origin |-> r.origin, cursor |-> r.cursor]} :
                        r.path = "publish"}
           \/ UNCHANGED <<disk, receipts>>
    /\ Answer(c)
    /\ UNCHANGED leases

SyncImport(o) ==
    /\ \E cursor \in scenario.synchronized[o] :
        disk' = [disk EXCEPT !.origins = Imported(@, o, cursor, "sync")]
    /\ UNCHANGED <<scenario, now, edge, request, leases, receipts, counted, spent>>

----------------------------------------------------------------------------
(* Forge artifacts: bytes by way of a temporary file, then a receipt file   *)
(* that is written in place.                                               *)

\* store_content_addressed: bytes already stored are not written again.
WriteArtifact(c) ==
    /\ Phase(c, "handler") /\ request[c].r.path = "artifacts"
    /\ IF request[c].r.artifact \in disk.artifacts
       THEN Goto(c, "receipt") /\ UNCHANGED disk
       ELSE Goto(c, "rename") /\ disk' = [disk EXCEPT !.temporaries = @ + 1]
    /\ UNCHANGED <<scenario, now, edge, leases, receipts, counted, spent>>

RenameArtifact(c) ==
    /\ Phase(c, "rename")
    /\ disk' = [disk EXCEPT !.temporaries = @ - 1, !.artifacts = @ \cup {request[c].r.artifact}]
    /\ Goto(c, "receipt")
    /\ UNCHANGED <<scenario, now, edge, leases, receipts, counted, spent>>

\* The write or the rename fails, and the temporary file is removed.
AbandonArtifact(c) ==
    /\ Phase(c, "rename")
    /\ disk' = [disk EXCEPT !.temporaries = @ - 1]
    /\ Answer(c)
    /\ UNCHANGED <<leases, receipts>>

\* A receipt file is named by its authorization.
ReceiptFile(r) == [artifact |-> r.artifact, authorization |-> r.authorization]
FilesOf(artifact) == {f \in disk.receipt_files : f.file.artifact = artifact}
FileAt(r) == {f \in disk.receipt_files : f.file = ReceiptFile(r)}
ArtifactReceipt(r) == [of |-> "artifact", file |-> ReceiptFile(r)]

\* store_receipt, under RECEIPT_WRITE_LOCK until the file is written: an upload that is
\* repeated gets the receipt of the first, unless that cannot be read.
BeginReceipt(c) ==
    /\ Phase(c, "receipt")
    /\ \A d \in Clients : ~Phase(d, "writing")
    /\ LET r == request[c].r
       IN  IF FileAt(r) = {} /\ Cardinality(FilesOf(r.artifact)) < MAX_RECEIPTS_PER_ARTIFACT
           THEN /\ disk' = [disk EXCEPT !.receipt_files =
                                @ \cup {[file |-> ReceiptFile(r), whole |-> FALSE]}]
                /\ Goto(c, "writing")
                /\ UNCHANGED <<scenario, now, edge, leases, receipts, counted, spent>>
           ELSE /\ receipts' = receipts \cup
                        {ArtifactReceipt(r) : f \in {f \in FileAt(r) : f.whole}}
                /\ Answer(c)
                /\ UNCHANGED <<leases, disk>>

FinishReceipt(c) ==
    /\ Phase(c, "writing")
    /\ LET r == request[c].r
       IN  /\ disk' = [disk EXCEPT !.receipt_files =
                            (@ \ FileAt(r)) \cup {[file |-> ReceiptFile(r), whole |-> TRUE]}]
           /\ receipts' = receipts \cup {ArtifactReceipt(r)}
    /\ Answer(c)
    /\ UNCHANGED leases

\* Writing fails; what was written stays.
FailReceipt(c) ==
    /\ Phase(c, "writing")
    /\ Refuse(c)

\* artifact_receipts: one file that cannot be read fails the whole listing.
artifact_receipts(artifact) ==
    IF \A f \in FilesOf(artifact) : f.whole THEN FilesOf(artifact) ELSE {}

require_local_forge_artifact(artifact) ==
    artifact \in disk.artifacts /\ artifact_receipts(artifact) # {}

\* A patch is only accepted where its bytes are.
ContributePatch(c) ==
    /\ Phase(c, "handler") /\ request[c].r.path = "contributions"
    /\ request[c].r.kind = "repository_patch"
    /\ IF require_local_forge_artifact(request[c].r.artifact)
       THEN disk' = [disk EXCEPT !.patches = @ \cup {request[c].r.artifact}]
       ELSE UNCHANGED disk
    /\ Answer(c)
    /\ UNCHANGED <<leases, receipts>>

----------------------------------------------------------------------------

\* The process dies and is started again.
Crash ==
    /\ spent.crashes < scenario.crashes
    /\ spent' = [spent EXCEPT !.crashes = @ + 1]
    /\ request' = [c \in Clients |-> Idle]
    /\ edge' = PublicEdgePolicy(config, now)
    /\ counted' = <<>>
    /\ UNCHANGED <<scenario, now, leases, disk, receipts>>

Tick ==
    /\ now < scenario.time
    /\ now' = now + 1
    /\ UNCHANGED <<scenario, edge, request, leases, disk, receipts, counted, spent>>

\* The steps of a request that wait for nothing but its turn.
Middleware(c) == Enter(c) \/ CheckRate(c) \/ Admit(c)
Handler(c) ==
    \/ IssueTask(c) \/ AuthorizeSubmission(c) \/ CheckSubmission(c) \/ StoreSubmission(c)
    \/ ContributeResult(c) \/ ContributePatch(c) \/ Read(c)
    \/ AuthorizeBundle(c) \/ ImportBundle(c)
    \/ WriteArtifact(c) \/ RenameArtifact(c) \/ AbandonArtifact(c)
    \/ BeginReceipt(c) \/ FinishReceipt(c) \/ FailReceipt(c)

Next ==
    \/ \E c \in Clients :
        \/ Issue(c) \/ Middleware(c) \/ ReceiveBody(c) \/ Disconnect(c) \/ Handler(c)
        \/ LocalSubmission(c)
    \/ \E o \in DOMAIN scenario.synchronized : SyncImport(o)
    \/ Crash
    \/ Tick

\* The runtime polls every task that can go on.  Nothing makes a client send its body.
Fairness == \A c \in Clients : WF_vars(Middleware(c)) /\ WF_vars(Handler(c))

Spec == Init /\ [][Next]_vars /\ Fairness

----------------------------------------------------------------------------
(* Properties.                                                             *)

\* No interleaving of requests takes the edge over its limits: it accepts at most
\* max_volunteer_submissions results, max_origins origins and max_origin_events events
\* of each, whatever the administration listener and the synchronization loop add
\* meanwhile; every permit is returned however a request ends; and uploads checked
\* against the same free space overshoot it by less than one artifact per permit.
LimitsHold ==
    /\ Cardinality({s \in disk.submissions : s.via = "edge"}) <= config.max_volunteer_submissions
    /\ Cardinality(Admitted) <= config.max_origins
    /\ \A p \in disk.origins : p.published <= config.max_origin_events
    /\ edge.concurrency =
            config.max_concurrency - Cardinality({c \in InFlight : ~Phase(c, "arrived")})
    /\ Stored <= config.max_storage + config.max_concurrency - 1

\* Counted requests of a kind in the span of a window that begins at t.
Within(t, length, Kind(_)) ==
    Cardinality({i \in DOMAIN counted : /\ t <= counted[i].at /\ counted[i].at < t + length
                                        /\ Kind(counted[i])})

\* The three budgets bound every span of time of their length, and not only the windows
\* that happen to be counted: since a window begins with the first request after the
\* last one, a span meets at most two of them, and no more than twice the limit passes.
RatesAreBounded ==
    \A t \in 0 .. now :
        /\ Within(t, Second, LAMBDA x : TRUE) <= 2 * config.requests_per_second
        /\ Within(t, Minute, LAMBDA x : x.write) <= 2 * config.writes_per_minute
        /\ Within(t, Hour, LAMBDA x : x.volunteer) <= 2 * config.volunteer_writes_per_hour

\* What the node has signed for it keeps, over retries, racing requests and crashes: a
\* submission receipt has its row, with that very body, and no second submission was
\* accepted for its lease; a bundle receipt has its events; an artifact receipt has
\* its bytes and a receipt file that can be read, and so has an accepted patch.
ReceiptsAreKept ==
    /\ \A a \in disk.patches : \E f \in FilesOf(a) : f.whole /\ a \in disk.artifacts
    /\ \A x \in receipts :
            CASE x.of = "submission" ->
                    /\ \E s \in disk.submissions : VolunteerReceipt(s) = x
                    /\ \A y \in receipts : y.of = "submission" /\ y.nonce = x.nonce => y = x
              [] x.of = "bundle" ->
                    \E p \in disk.origins : p.origin = x.origin /\ p.cursor >= x.cursor
              [] x.of = "artifact" ->
                    /\ x.file.artifact \in disk.artifacts
                    /\ [file |-> x.file, whole |-> TRUE] \in disk.receipt_files

\* A request whose body has arrived is answered, whatever the other requests do: those
\* that wait for a body or lose their client hold up nobody who queues for a mutex.
Handling(c) == request[c].phase \notin {"idle", "arrived", "rate", "admission", "body"}
EveryRequestEnds == \A c \in Clients : Handling(c) ~> Phase(c, "idle")

=============================================================================
