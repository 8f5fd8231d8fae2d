---------------------------- MODULE GatewayProofs ----------------------------
(***************************************************************************)
(* The edge holds its limits, its rates and its receipts for any number of *)
(* clients, requests and crashes.                                          *)
(*                                                                         *)
(* A quota is read in one step and used in a later one.  The invariant     *)
(* says that a request between the two is at the head of its mutex, and    *)
(* keeps one ledger per limit: permits and the requests that hold them,    *)
(* bytes stored and uploads let in, places left and requests on their way  *)
(* to take one, windows and the requests since they began.                 *)
(***************************************************************************)
EXTENDS Gateway, FiniteSetTheorems, TLAPS

\* The phases of a request that holds a permit.
Held ==
    {"rate", "admission", "body", "waiting", "handler", "check", "store", "import", "rename",
     "receipt", "writing"}

RateWindows ==
    [second_started : Nat, requests_this_second : Nat, minute_started : Nat,
     writes_this_minute : Nat, hour_started : Nat, volunteer_writes_this_hour : Nat]

\* A request is idle or has a phase and a content.
Shaped(x) ==
    \/ x = Idle
    \/ /\ x = [phase |-> x.phase, r |-> x.r]
       /\ x.phase \in Held \cup {"arrived"}
       /\ IsFederationWrite(x.r) => x.r.cursor \in Nat

GateType ==
    /\ scenario \in Scenarios
    /\ now \in Nat
    /\ edge \in [concurrency : Nat, federation_concurrency : Int, windows : RateWindows,
                 federation_admission : Seq(Clients), volunteer_admission : Seq(Clients)]
    /\ request = [c \in Clients |-> request[c]]
    /\ \A c \in Clients : Shaped(request[c])
    /\ disk = [submissions |-> disk.submissions, open |-> disk.open, origins |-> disk.origins,
               artifacts |-> disk.artifacts, temporaries |-> disk.temporaries,
               receipt_files |-> disk.receipt_files, patches |-> disk.patches]

\* A handler that has passed its admission check is at the head of its mutex.
Guarded ==
    \A c \in Clients :
        /\ request[c].phase \in {"check", "store"} => HasGuard(edge.volunteer_admission, c)
        /\ request[c].phase = "import" => HasGuard(edge.federation_admission, c)

Holders == {c \in Clients : request[c].phase \in Held}
PermitsReturn == edge.concurrency = config.max_concurrency - Cardinality(Holders)

\* Uploads that have passed the storage check and have not written yet.
Uploads ==
    {c \in Clients : request[c].phase \in {"body", "handler"} /\ request[c].r.path = "artifacts"}
StorageHolds ==
    /\ IsFiniteSet(disk.artifacts)
    /\ disk.temporaries \in Int
    /\ Stored + Cardinality(Uploads) <= config.max_storage + config.max_concurrency - 1

EdgeRows(rows) == {s \in rows : s.via = "edge"}
IntakeHolds ==
    /\ IsFiniteSet(disk.submissions)
    /\ Cardinality(EdgeRows(disk.submissions)) <= config.max_volunteer_submissions
    /\ \A c \in Clients : request[c].phase \in {"check", "store"} =>
            Cardinality(EdgeRows(disk.submissions)) < config.max_volunteer_submissions

\* One row per origin, whose cursor is a number.
OriginRow(p) ==
    /\ p = [origin |-> p.origin, via |-> p.via, published |-> p.published, cursor |-> p.cursor]
    /\ p.cursor \in Nat /\ p.published \in Nat
    /\ p.published <= config.max_origin_events
OriginsHold ==
    /\ \A p \in disk.origins : OriginRow(p)
    /\ \A p, q \in disk.origins : p.origin = q.origin => p = q
    /\ IsFiniteSet(Origins)
    /\ Cardinality(Admitted) <= config.max_origins
    /\ \A c \in Clients : request[c].phase = "import" =>
            /\ request[c].r.cursor \in Nat
            /\ request[c].r.cursor <= config.max_origin_events
            /\ request[c].r.origin \in Origins \/ Cardinality(Admitted) < config.max_origins

\* What is on the disk for a receipt, and for a patch.
HasFile(d, file) == [file |-> file, whole |-> TRUE] \in d.receipt_files
KeptOn(d, x) ==
    \/ x.of = "submission" /\ \E s \in d.submissions : VolunteerReceipt(s) = x
    \/ /\ x.of = "bundle" /\ x.cursor \in Nat
       /\ \E p \in d.origins : p.origin = x.origin /\ p.cursor >= x.cursor
    \/ x.of = "artifact" /\ x.file.artifact \in d.artifacts /\ HasFile(d, x.file)
PatchKept(d, a) == a \in d.artifacts /\ \E file : file.artifact = a /\ HasFile(d, file)

\* A nonce has one row, and a receipt file is whole or not.
RowsUnique(d) == \A s, t \in d.submissions : s.nonce = t.nonce => s = t
FilesShaped(d) ==
    \A f \in d.receipt_files : \E file : \E whole \in BOOLEAN : f = [file |-> file, whole |-> whole]

\* A request at its receipt has its bytes stored.
ReceiptsHold ==
    /\ \A c \in Clients : request[c].phase \in {"receipt", "writing"} =>
            request[c].r.artifact \in disk.artifacts
    /\ RowsUnique(disk) /\ FilesShaped(disk)
    /\ \A a \in disk.patches : PatchKept(disk, a)
    /\ \A x \in receipts : KeptOn(disk, x)

\* Counted requests: those of a span, and those since a moment.
During(log, kind, from, to) == {i \in kind : from <= log[i].at /\ log[i].at < to}
Since(log, kind, from) == {i \in kind : from <= log[i].at}

\* A budget: its window has counted what came since it began, no more than the limit and
\* all within its length; no more than the limit came in any shorter span before it.
BudgetHolds(log, kind, began, count, length, limit, time) ==
    /\ IsFiniteSet(kind)
    /\ began \in Nat /\ began <= time
    /\ count = Cardinality(Since(log, kind, began)) /\ count <= limit
    /\ \A i \in kind : log[i].at \in Nat /\ log[i].at <= time /\ log[i].at < began + length
    /\ \A u \in Nat : u + length > began => Cardinality(During(log, kind, u, began)) <= limit
    /\ \A u \in Nat : Cardinality(During(log, kind, u, u + length)) <= 2 * limit

Entry == [at : Nat, write : BOOLEAN, volunteer : BOOLEAN]
Writes(log) == {i \in DOMAIN log : log[i].write}
Volunteered(log) == {i \in DOMAIN log : log[i].volunteer}

\* The budgets of one moment.
Budgets(log, w, time) ==
    /\ BudgetHolds(log, DOMAIN log, w.second_started, w.requests_this_second, Second,
                   config.requests_per_second, time)
    /\ BudgetHolds(log, Writes(log), w.minute_started, w.writes_this_minute, Minute,
                   config.writes_per_minute, time)
    /\ BudgetHolds(log, Volunteered(log), w.hour_started, w.volunteer_writes_this_hour, Hour,
                   config.volunteer_writes_per_hour, time)
RatesHold == counted \in Seq(Entry) /\ Budgets(counted, edge.windows, now)

GateInv ==
    /\ GateType /\ Guarded /\ PermitsReturn /\ StorageHolds /\ IntakeHolds /\ OriginsHold
    /\ ReceiptsHold /\ RatesHold

-----------------------------------------------------------------------------
(* Queues.                                                                 *)

\* What is left of a queue is a queue.
LEMMA WithoutType ==
    ASSUME NEW q \in Seq(Clients), NEW d \in Clients
    PROVE  Without(q, d) \in Seq(Clients)
    <1>1. CASE \E i \in DOMAIN q : q[i] = d
        <2> DEFINE i == CHOOSE i \in DOMAIN q : q[i] = d
        <2>1. i \in DOMAIN q
            BY <1>1, Zenon
        <2> HIDE DEF i
        <2>2. SubSeq(q, 1, i - 1) \in Seq(Clients) /\ SubSeq(q, i + 1, Len(q)) \in Seq(Clients)
            BY <2>1
        <2>3. Without(q, d) = SubSeq(q, 1, i - 1) \o SubSeq(q, i + 1, Len(q))
            BY <1>1, Zenon DEF Without, i
        <2> QED
            BY <2>2, <2>3
    <1>2. CASE ~\E i \in DOMAIN q : q[i] = d
        BY <1>2 DEF Without
    <1> QED
        BY <1>1, <1>2

\* Who leaves a queue takes no one else's turn.
LEMMA GuardAfterLeave ==
    ASSUME NEW q \in Seq(Clients), NEW c \in Clients, NEW d \in Clients, c # d, HasGuard(q, c)
    PROVE  HasGuard(Without(q, d), c)
    <1>1. CASE \E i \in DOMAIN q : q[i] = d
        <2> DEFINE i == CHOOSE i \in DOMAIN q : q[i] = d
        <2>1. i \in DOMAIN q /\ q[i] = d
            BY <1>1, Zenon
        <2> HIDE DEF i
        <2>2. q # <<>> /\ q[1] = c
            BY DEF HasGuard
        <2>3. i \in 2 .. Len(q)
            BY <2>1, <2>2
        <2> DEFINE before == SubSeq(q, 1, i - 1)
                   behind == SubSeq(q, i + 1, Len(q))
        <2>4. /\ before \in Seq(Clients) /\ behind \in Seq(Clients)
              /\ Len(before) = i - 1 /\ before[1] = c
            BY <2>2, <2>3
        <2>5. Without(q, d) = before \o behind
            BY <1>1, Zenon DEF Without, i
        <2> HIDE DEF before, behind
        <2>6. before \o behind # <<>> /\ Head(before \o behind) = c
            BY <2>3, <2>4
        <2> QED
            BY <2>5, <2>6 DEF HasGuard
    <1>2. CASE ~\E i \in DOMAIN q : q[i] = d
        BY <1>2 DEF Without
    <1> QED
        BY <1>1, <1>2

\* Nor does who joins it.
LEMMA GuardAfterAppend ==
    ASSUME NEW q \in Seq(Clients), NEW c \in Clients, NEW d \in Clients, HasGuard(q, c)
    PROVE  HasGuard(Append(q, d), c)
    BY DEF HasGuard

-----------------------------------------------------------------------------
(* The way of a request.                                                   *)

\* From phase to phase, and what has been checked on the way.
Arrow(c, p) ==
    LET r == request[c].r
        from == request[c].phase
    IN  \/ from = "rate" /\ p = "admission"
        \/ from = "admission" /\ p = "body" /\ (IsWrite(r) => WriteAdmitted(r)) /\ disk' = disk
        \/ from = "body" /\ p \in {"waiting", "handler"}
        \/ /\ from = "waiting" /\ p = "check"
           /\ HasGuard(edge.volunteer_admission, c) /\ authorize_volunteer_task /\ disk' = disk
        \/ from = "check" /\ p = "store"
        \/ /\ from = "waiting" /\ p = "import" /\ IsFederationWrite(r)
           /\ HasGuard(edge.federation_admission, c) /\ authorize_federation_bundle(r)
           /\ disk' = disk
        \/ from = "handler" /\ p = "rename"
        \/ from = "handler" /\ p = "receipt" /\ r.artifact \in disk'.artifacts
        \/ from = "rename" /\ p = "receipt" /\ r.artifact \in disk'.artifacts
        \/ from = "receipt" /\ p = "writing"

Steps(c) == \E p \in Held : Arrow(c, p) /\ Goto(c, p) /\ edge' = edge
Ends(c) ==
    /\ request[c].phase \in Held
    /\ request' = [request EXCEPT ![c] = Idle]
    /\ edge' = Released(edge, c)

\* Every step is one of a few for the request and the edge.
LEMMA RequestForms ==
    ASSUME GateType, [Next]_vars
    PROVE  \/ request' = request /\ edge' = edge
           \/ \E c \in Clients : \/ Issue(c) \/ Enter(c) \/ CheckRate(c) \/ ReceiveBody(c)
                                 \/ Steps(c) \/ Ends(c)
           \/ Crash
    <1> DEFINE Form(c) == \/ Issue(c) \/ Enter(c) \/ CheckRate(c) \/ ReceiveBody(c)
                          \/ Steps(c) \/ Ends(c)
               Goal == \/ request' = request /\ edge' = edge
                       \/ \E c \in Clients : Form(c)
                       \/ Crash
    <1>1. ASSUME NEW c \in Clients, Answer(c), request[c].phase \in Held PROVE Form(c)
        BY <1>1, Zenon DEF Answer, Ends
    <1>2. ASSUME NEW c \in Clients, Issue(c) \/ Enter(c) \/ CheckRate(c) \/ ReceiveBody(c) PROVE Form(c)
        BY <1>2, Zenon
    <1>3. ASSUME NEW c \in Clients, NEW p \in Held, Arrow(c, p), Goto(c, p), edge' = edge PROVE Form(c)
        BY <1>3, Zenon DEF Steps
    <1>4. ASSUME NEW c \in Clients, Admit(c) PROVE Form(c)
        BY <1>1, <1>3, <1>4 DEF Admit, Phase, Refuse, Arrow, Held
    <1>5. ASSUME NEW c \in Clients, Disconnect(c) PROVE Form(c)
        BY <1>1, <1>5 DEF Disconnect, Refuse, Held
    <1>6. ASSUME NEW c \in Clients, IssueTask(c) \/ Read(c) \/ ContributeResult(c) \/ ContributePatch(c)
          PROVE  Form(c)
        BY <1>1, <1>6 DEF IssueTask, Read, ContributeResult, ContributePatch, Phase, Refuse, Held
    <1>7. ASSUME NEW c \in Clients, AuthorizeSubmission(c) PROVE Form(c)
        BY <1>1, <1>3, <1>7 DEF AuthorizeSubmission, Phase, Refuse, Arrow, Held
    <1>8. ASSUME NEW c \in Clients, CheckSubmission(c) PROVE Form(c)
        BY <1>1, <1>3, <1>8 DEF CheckSubmission, Phase, Refuse, Arrow, Held
    <1>9. ASSUME NEW c \in Clients, AuthorizeBundle(c) PROVE Form(c)
        BY <1>1, <1>3, <1>9 DEF AuthorizeBundle, Phase, Refuse, Arrow, Held
    <1>10. ASSUME NEW c \in Clients, StoreSubmission(c) \/ ImportBundle(c) PROVE Form(c)
        BY <1>1, <1>10 DEF StoreSubmission, ImportBundle, Phase, Held
    <1>11. ASSUME NEW c \in Clients, WriteArtifact(c) PROVE Form(c)
        BY <1>1, <1>3, <1>11 DEF WriteArtifact, Phase, Arrow, Held
    <1>12. ASSUME NEW c \in Clients, RenameArtifact(c) PROVE Form(c)
        <2>1. request[c].r.artifact \in disk'.artifacts
            BY <1>12 DEF RenameArtifact, GateType
        <2> QED
            BY <1>1, <1>3, <1>12, <2>1 DEF RenameArtifact, Phase, Arrow, Held
    <1>13. ASSUME NEW c \in Clients, AbandonArtifact(c) \/ FinishReceipt(c) \/ FailReceipt(c)
           PROVE  Form(c)
        BY <1>1, <1>13 DEF AbandonArtifact, FinishReceipt, FailReceipt, Phase, Refuse, Held
    <1>14. ASSUME NEW c \in Clients, BeginReceipt(c) PROVE Form(c)
        BY <1>1, <1>3, <1>14 DEF BeginReceipt, Phase, Arrow, Held
    <1>15. ASSUME NEW c \in Clients, LocalSubmission(c) PROVE Goal
        BY <1>15, Zenon DEF LocalSubmission
    <1>16. ASSUME NEW o, SyncImport(o) PROVE Goal
        BY <1>16, Zenon DEF SyncImport
    <1>17. ASSUME Tick \/ UNCHANGED vars PROVE Goal
        BY <1>17, Zenon DEF Tick, vars
    <1> HIDE DEF Form
    <1> QED
        BY <1>2, <1>4, <1>5, <1>6, <1>7, <1>8, <1>9, <1>10, <1>11, <1>12, <1>13, <1>14, <1>15,
           <1>16, <1>17, Zenon DEF Next, Middleware, Handler, Form

\* The scenario is fixed.
LEMMA SameScenario == [Next]_vars => scenario' = scenario
    BY ZenonT(30) DEF Next, Middleware, Handler, Issue, Enter, CheckRate, Admit, ReceiveBody, Disconnect,
       IssueTask, AuthorizeSubmission, CheckSubmission, StoreSubmission, ContributeResult,
       ContributePatch, Read, AuthorizeBundle, ImportBundle, WriteArtifact, RenameArtifact,
       AbandonArtifact, BeginReceipt, FinishReceipt, FailReceipt, LocalSubmission, SyncImport,
       Crash, Tick, Answer, Refuse, vars

\* A request changes alone.
LEMMA OneRequest ==
    ASSUME GateType, NEW c \in Clients, NEW x, request' = [request EXCEPT ![c] = x]
    PROVE  /\ request' = [d \in Clients |-> request'[d]]
           /\ request'[c] = x
           /\ \A d \in Clients : d # c => request'[d] = request[d]
    BY DEF GateType

\* A request that goes to another phase keeps its content, and the others stay.
LEMMA OnePhase ==
    ASSUME GateType, NEW c \in Clients, NEW p, Goto(c, p), request[c].phase \in Held \cup {"arrived"}
    PROVE  /\ request' = [d \in Clients |-> request'[d]]
           /\ request'[c] = [phase |-> p, r |-> request[c].r]
           /\ \A d \in Clients : d # c => request'[d] = request[d]
    <1>1. request' = [request EXCEPT ![c] = [request[c] EXCEPT !.phase = p]]
        BY DEF Goto
    <1>2. request[c] # Idle
        BY DEF Idle, Held
    <1>3. request[c] = [phase |-> request[c].phase, r |-> request[c].r]
        BY <1>2, Zenon DEF GateType, Shaped
    <1>4. [request[c] EXCEPT !.phase = p] = [phase |-> p, r |-> request[c].r]
        BY <1>3
    <1> QED
        BY <1>1, <1>4, OneRequest, Zenon

\* What a step may do to a request.
Goes(d) ==
    \/ request'[d] = request[d]
    \/ request'[d].phase \in {"idle", "arrived"}
    \/ /\ request'[d].r = request[d].r
       /\ \/ request[d].phase = "arrived" /\ request'[d].phase = "rate"
          \/ Arrow(d, request'[d].phase)

\* Every step takes every request along an arrow, or leaves it where it is.
LEMMA Journey ==
    ASSUME GateType, [Next]_vars, NEW d \in Clients
    PROVE  Goes(d)
    <1>1. ASSUME NEW c \in Clients, Issue(c) PROVE Goes(d)
        <2>1. PICK r \in Requests(c) : request' = [request EXCEPT ![c] = [phase |-> "arrived", r |-> r]]
            BY <1>1, Zenon DEF Issue
        <2>2. request'[c] = [phase |-> "arrived", r |-> r] /\ (d # c => request'[d] = request[d])
            BY <2>1, OneRequest, Zenon
        <2>3. request'[c].phase = "arrived"
            BY <2>2
        <2> QED
            BY <2>2, <2>3 DEF Goes
    <1>2. ASSUME NEW c \in Clients, request' = [request EXCEPT ![c] = Idle] PROVE Goes(d)
        BY <1>2, OneRequest DEF Goes, Idle
    <1>3. ASSUME NEW c \in Clients, Enter(c) PROVE Goes(d)
        <2>1. request[c].phase = "arrived"
            BY <1>3 DEF Enter, Phase
        <2>2. Goto(c, "rate") \/ request' = [request EXCEPT ![c] = Idle]
            BY <1>3, Zenon DEF Enter
        <2>3. ASSUME Goto(c, "rate") PROVE Goes(d)
            <3>1. /\ request'[c] = [phase |-> "rate", r |-> request[c].r]
                  /\ d # c => request'[d] = request[d]
                BY <2>1, <2>3, OnePhase
            <3>2. request'[c].phase = "rate" /\ request'[c].r = request[c].r
                BY <3>1
            <3> QED
                BY <2>1, <3>1, <3>2 DEF Goes
        <2> QED
            BY <1>2, <2>2, <2>3
    <1>4. ASSUME NEW c \in Clients, NEW p \in Held, Arrow(c, p), Goto(c, p) PROVE Goes(d)
        <2>1. request[c].phase \in Held
            BY <1>4 DEF Arrow, Held
        <2>2. request'[c] = [phase |-> p, r |-> request[c].r] /\ (d # c => request'[d] = request[d])
            BY <1>4, <2>1, OnePhase
        <2>3. request'[c].phase = p /\ request'[c].r = request[c].r
            BY <2>2
        <2> QED
            BY <1>4, <2>2, <2>3, Zenon DEF Goes
    <1>5. ASSUME NEW c \in Clients, CheckRate(c) PROVE Goes(d)
        <2>1. Arrow(c, "admission") /\ "admission" \in Held
            BY <1>5 DEF CheckRate, Phase, Arrow, Held
        <2>2. Goto(c, "admission") \/ request' = [request EXCEPT ![c] = Idle]
            BY <1>5, Zenon DEF CheckRate
        <2> QED
            BY <1>2, <1>4, <2>1, <2>2, Zenon
    <1>6. ASSUME NEW c \in Clients, ReceiveBody(c) PROVE Goes(d)
        <2>1. /\ Arrow(c, "waiting") /\ "waiting" \in Held
              /\ Arrow(c, "handler") /\ "handler" \in Held
            BY <1>6 DEF ReceiveBody, Phase, Arrow, Held
        <2>2. Goto(c, "waiting") \/ Goto(c, "handler")
            BY <1>6 DEF ReceiveBody
        <2> QED
            BY <1>4, <2>1, <2>2, Zenon
    <1>7. ASSUME Crash PROVE Goes(d)
        BY <1>7 DEF Crash, Goes, Idle
    <1>8. ASSUME request' = request PROVE Goes(d)
        BY <1>8, Zenon DEF Goes
    <1> QED
        BY <1>1, <1>2, <1>3, <1>4, <1>5, <1>6, <1>7, <1>8, RequestForms, Zenon DEF Steps, Ends

\* A request that goes on keeps its turn.
LEMMA GuardsKept ==
    ASSUME GateType, [Next]_vars, NEW d \in Clients, request'[d].phase \in Held
    PROVE  /\ HasGuard(edge.volunteer_admission, d) => HasGuard(edge'.volunteer_admission, d)
           /\ HasGuard(edge.federation_admission, d) => HasGuard(edge'.federation_admission, d)
    <1> DEFINE Kept == /\ HasGuard(edge.volunteer_admission, d) => HasGuard(edge'.volunteer_admission, d)
                       /\ HasGuard(edge.federation_admission, d) => HasGuard(edge'.federation_admission, d)
    <1>1. edge.volunteer_admission \in Seq(Clients) /\ edge.federation_admission \in Seq(Clients)
        BY DEF GateType
    <1>2. ASSUME /\ edge'.volunteer_admission = edge.volunteer_admission
                 /\ edge'.federation_admission = edge.federation_admission
          PROVE  Kept
        BY <1>2, Zenon
    <1>3. ASSUME NEW c \in Clients, request' = [request EXCEPT ![c] = Idle],
                 edge'.volunteer_admission = Without(edge.volunteer_admission, c),
                 edge'.federation_admission = Without(edge.federation_admission, c)
          PROVE  Kept
        <2>1. c # d
            BY <1>3, OneRequest, Zenon DEF Idle, Held
        <2> QED
            BY <1>1, <1>3, <2>1, GuardAfterLeave, Zenon
    <1>4. ASSUME NEW c \in Clients, Issue(c) PROVE Kept
        BY <1>2, <1>4, Zenon DEF Issue
    <1>5. ASSUME NEW c \in Clients, Enter(c) PROVE Kept
        <2>1. /\ edge'.volunteer_admission = edge.volunteer_admission
              /\ edge'.federation_admission = edge.federation_admission
            BY <1>5, Zenon DEF Enter, GateType
        <2> QED
            BY <1>2, <2>1
    <1>6. ASSUME NEW c \in Clients, CheckRate(c) PROVE Kept
        <2>1. CASE RateAllows(Rolled(edge.windows), request[c].r)
            <3>1. /\ edge'.volunteer_admission = edge.volunteer_admission
                  /\ edge'.federation_admission = edge.federation_admission
                BY <1>6, <2>1 DEF CheckRate, GateType
            <3> QED
                BY <1>2, <3>1
        <2>2. CASE ~RateAllows(Rolled(edge.windows), request[c].r)
            <3>1. /\ edge'.volunteer_admission = Without(edge.volunteer_admission, c)
                  /\ edge'.federation_admission = Without(edge.federation_admission, c)
                BY <1>6, <2>2, Zenon DEF CheckRate, Released, GateType
            <3>2. request' = [request EXCEPT ![c] = Idle]
                BY <1>6, <2>2, Zenon DEF CheckRate
            <3> QED
                BY <1>3, <3>1, <3>2, Zenon
        <2> QED
            BY <2>1, <2>2
    <1>7. ASSUME NEW c \in Clients, ReceiveBody(c) PROVE Kept
        <2>1. \/ edge'.volunteer_admission = edge.volunteer_admission
              \/ edge'.volunteer_admission = Append(edge.volunteer_admission, c)
            BY <1>7 DEF ReceiveBody, GateType
        <2>2. \/ edge'.federation_admission = edge.federation_admission
              \/ edge'.federation_admission = Append(edge.federation_admission, c)
            BY <1>7 DEF ReceiveBody, GateType
        <2> QED
            BY <1>1, <2>1, <2>2, GuardAfterAppend, Zenon
    <1>8. ASSUME NEW c \in Clients, Steps(c) PROVE Kept
        BY <1>2, <1>8, Zenon DEF Steps
    <1>9. ASSUME NEW c \in Clients, Ends(c) PROVE Kept
        <2>1. /\ edge'.volunteer_admission = Without(edge.volunteer_admission, c)
              /\ edge'.federation_admission = Without(edge.federation_admission, c)
            BY <1>9 DEF Ends, Released, GateType
        <2> QED
            BY <1>3, <1>9, <2>1, Zenon DEF Ends
    <1>10. ASSUME Crash PROVE Kept
        BY <1>10 DEF Crash, Idle, Held
    <1> QED
        BY <1>2, <1>4, <1>5, <1>6, <1>7, <1>8, <1>9, <1>10, RequestForms, Zenon

\* The mutexes exclude.
LEMMA GuardedStep ==
    ASSUME GateType, Guarded, [Next]_vars
    PROVE  Guarded'
    <1>1. SUFFICES ASSUME NEW c \in Clients
                   PROVE  /\ request'[c].phase \in {"check", "store"} =>
                                HasGuard(edge'.volunteer_admission, c)
                          /\ request'[c].phase = "import" => HasGuard(edge'.federation_admission, c)
        BY Zenon DEF Guarded
    <1>2. /\ request[c].phase \in {"check", "store"} => HasGuard(edge.volunteer_admission, c)
          /\ request[c].phase = "import" => HasGuard(edge.federation_admission, c)
        BY DEF Guarded
    <1>3. Goes(c)
        BY Journey
    <1>4. request'[c].phase \in {"check", "store"} => HasGuard(edge.volunteer_admission, c)
        BY <1>2, <1>3 DEF Goes, Arrow
    <1>5. request'[c].phase = "import" => HasGuard(edge.federation_admission, c)
        BY <1>2, <1>3 DEF Goes, Arrow
    <1> QED
        BY <1>4, <1>5, GuardsKept DEF Held

-----------------------------------------------------------------------------
(* Types.                                                                  *)

\* validate_config requires every limit to be positive.
LEMMA ConfigFacts ==
    ASSUME scenario \in Scenarios, NEW limit \in ConfigLimits
    PROVE  config[limit] \in Nat \ {0}
    BY ScenarioAssumption, ConfigAssumption DEF config, validate_config

\* The limits, one by one.
LEMMA Limits ==
    ASSUME scenario \in Scenarios
    PROVE  /\ config.requests_per_second \in Nat \ {0} /\ config.writes_per_minute \in Nat \ {0}
           /\ config.max_concurrency \in Nat \ {0} /\ config.max_federation_concurrency \in Nat \ {0}
           /\ config.max_storage \in Nat \ {0} /\ config.max_origins \in Nat \ {0}
           /\ config.max_origin_events \in Nat \ {0}
           /\ config.volunteer_writes_per_hour \in Nat \ {0}
           /\ config.max_volunteer_submissions \in Nat \ {0}
    BY ConfigFacts DEF ConfigLimits

\* A fresh policy has every permit, empty windows and empty mutexes.
LEMMA PolicyType ==
    ASSUME scenario \in Scenarios, NEW t \in Nat
    PROVE  PublicEdgePolicy(config, t) \in
               [concurrency : Nat, federation_concurrency : Int, windows : RateWindows,
                federation_admission : Seq(Clients), volunteer_admission : Seq(Clients)]
    BY Limits DEF PublicEdgePolicy, RateWindows

\* Rolling the windows leaves windows.
LEMMA RolledType ==
    ASSUME now \in Nat, NEW w \in RateWindows
    PROVE  Rolled(w) \in RateWindows
    BY DEF Rolled, RateWindows

EdgeType ==
    [concurrency : Nat, federation_concurrency : Int, windows : RateWindows,
     federation_admission : Seq(Clients), volunteer_admission : Seq(Clients)]

\* A request that ends returns its permits and leaves the queues.
LEMMA ReleasedType ==
    ASSUME edge \in EdgeType, NEW c \in Clients
    PROVE  Released(edge, c) \in EdgeType /\ Released(edge, c).windows = edge.windows
    <1>1. /\ Without(edge.federation_admission, c) \in Seq(Clients)
          /\ Without(edge.volunteer_admission, c) \in Seq(Clients)
        BY WithoutType DEF EdgeType
    <1> DEFINE more == edge.federation_concurrency + (IF IsFederationWrite(request[c].r) THEN 1 ELSE 0)
    <1>2. more \in Int /\ edge.concurrency + 1 \in Nat
        BY DEF EdgeType
    <1>3. Released(edge, c) =
              [edge EXCEPT !.concurrency = edge.concurrency + 1, !.federation_concurrency = more,
                           !.federation_admission = Without(edge.federation_admission, c),
                           !.volunteer_admission = Without(edge.volunteer_admission, c)]
        BY DEF Released
    <1> HIDE DEF more
    <1> QED
        BY <1>1, <1>2, <1>3, Zenon DEF EdgeType

\* No step spoils the policy.
LEMMA EdgeStep ==
    ASSUME GateType, [Next]_vars
    PROVE  edge' \in EdgeType
    <1>1. edge \in EdgeType /\ now \in Nat
        BY DEF GateType, EdgeType
    <1>2. ASSUME NEW c \in Clients, Issue(c) \/ Steps(c) PROVE edge' \in EdgeType
        BY <1>1, <1>2, Zenon DEF Issue, Steps
    <1>3. ASSUME NEW c \in Clients, Enter(c) PROVE edge' \in EdgeType
        <2> DEFINE less == edge.federation_concurrency -
                               (IF IsFederationWrite(request[c].r) THEN 1 ELSE 0)
        <2>1. less \in Int /\ (edge.concurrency > 0 => edge.concurrency - 1 \in Nat)
            BY <1>1 DEF EdgeType
        <2>2. \/ edge' = edge
              \/ /\ edge.concurrency > 0
                 /\ edge' = [edge EXCEPT !.concurrency = edge.concurrency - 1,
                                         !.federation_concurrency = less]
            BY <1>3 DEF Enter
        <2> HIDE DEF less
        <2> QED
            BY <1>1, <2>1, <2>2, Zenon DEF EdgeType
    <1>4. ASSUME NEW c \in Clients, CheckRate(c) PROVE edge' \in EdgeType
        <2> DEFINE w == Rolled(edge.windows)
                   One(counts) == IF counts THEN 1 ELSE 0
                   v == [w EXCEPT !.requests_this_second = @ + 1,
                                  !.writes_this_minute = @ + One(IsWrite(request[c].r)),
                                  !.volunteer_writes_this_hour = @ + One(IsVolunteerWrite(request[c].r))]
        <2>1. w \in RateWindows
            BY <1>1, RolledType DEF EdgeType
        <2>2. edge' = [edge EXCEPT !.windows = v] \/ edge' = [Released(edge, c) EXCEPT !.windows = w]
            BY <1>4 DEF CheckRate
        <2> HIDE DEF w
        <2>3. v \in RateWindows
            <3> DEFINE writes == w.writes_this_minute + One(IsWrite(request[c].r))
                       results == w.volunteer_writes_this_hour + One(IsVolunteerWrite(request[c].r))
            <3>1. writes \in Nat /\ results \in Nat /\ w.requests_this_second + 1 \in Nat
                BY <2>1 DEF RateWindows
            <3>2. v = [w EXCEPT !.requests_this_second = w.requests_this_second + 1,
                                !.writes_this_minute = writes,
                                !.volunteer_writes_this_hour = results]
                OBVIOUS
            <3> HIDE DEF writes, results, v
            <3> QED
                BY <2>1, <3>1, <3>2, Zenon DEF RateWindows
        <2> HIDE DEF v
        <2>4. [edge EXCEPT !.windows = v] \in EdgeType
            BY <1>1, <2>3 DEF EdgeType
        <2>5. [Released(edge, c) EXCEPT !.windows = w] \in EdgeType
            BY <1>1, <2>1, ReleasedType, Zenon DEF EdgeType
        <2> QED
            BY <2>2, <2>4, <2>5
    <1>5. ASSUME NEW c \in Clients, ReceiveBody(c) PROVE edge' \in EdgeType
        <2>1. \/ edge' = edge
              \/ edge' = [edge EXCEPT !.federation_admission = Append(edge.federation_admission, c)]
              \/ edge' = [edge EXCEPT !.volunteer_admission = Append(edge.volunteer_admission, c)]
            BY <1>5 DEF ReceiveBody
        <2>2. /\ Append(edge.federation_admission, c) \in Seq(Clients)
              /\ Append(edge.volunteer_admission, c) \in Seq(Clients)
            BY <1>1 DEF EdgeType
        <2> QED
            BY <1>1, <2>1, <2>2, Zenon DEF EdgeType
    <1>6. ASSUME NEW c \in Clients, Ends(c) PROVE edge' \in EdgeType
        BY <1>1, <1>6, ReleasedType DEF Ends
    <1>7. ASSUME Crash PROVE edge' \in EdgeType
        BY <1>1, <1>7, PolicyType DEF Crash, EdgeType, GateType
    <1> QED
        BY <1>1, <1>2, <1>3, <1>4, <1>5, <1>6, <1>7, RequestForms, Zenon

\* No step spoils a request.
LEMMA ShapedStep ==
    ASSUME GateType, [Next]_vars
    PROVE  request' = [d \in Clients |-> request'[d]] /\ \A d \in Clients : Shaped(request'[d])
    <1> DEFINE Goal == request' = [d \in Clients |-> request'[d]] /\ \A d \in Clients : Shaped(request'[d])
    <1>1. \A d \in Clients : Shaped(request[d])
        BY DEF GateType
    <1>2. Shaped(Idle)
        BY DEF Shaped
    <1>3. ASSUME NEW c \in Clients, request' = [request EXCEPT ![c] = Idle] PROVE Goal
        BY <1>1, <1>2, <1>3, OneRequest, Zenon
    <1>4. ASSUME NEW c \in Clients, NEW p \in Held, Goto(c, p),
                 request[c].phase \in Held \cup {"arrived"}
          PROVE  Goal
        <2>1. request'[c] = [phase |-> p, r |-> request[c].r]
            BY <1>4, OnePhase, Zenon
        <2>2. request[c] # Idle
            BY <1>4 DEF Idle, Held
        <2>3. IsFederationWrite(request[c].r) => request[c].r.cursor \in Nat
            BY <1>1, <2>2, Zenon DEF Shaped
        <2>4. Shaped(request'[c])
            <3>1. request'[c].phase = p /\ request'[c].r = request[c].r
                BY <2>1
            <3> QED
                BY <1>4, <2>1, <2>3, <3>1, Zenon DEF Shaped
        <2> QED
            BY <1>1, <1>4, <2>4, OnePhase, Zenon
    <1>5. ASSUME NEW c \in Clients, Issue(c) PROVE Goal
        <2>1. PICK r \in Requests(c) : request' = [request EXCEPT ![c] = [phase |-> "arrived", r |-> r]]
            BY <1>5, Zenon DEF Issue
        <2>2. IsFederationWrite(r) => r.cursor \in Nat
            <3>1. CASE r \in scenario.requests[c]
                BY <3>1, ScenarioAssumption DEF GateType
            <3>2. CASE \E l \in leases[c], b \in scenario.bodies :
                            r = [path |-> "results", lease |-> l, body |-> b, token |-> FALSE]
                BY <3>2 DEF IsFederationWrite
            <3> QED
                BY <2>1, <3>1, <3>2 DEF Requests
        <2>3. Shaped([phase |-> "arrived", r |-> r])
            BY <2>2 DEF Shaped
        <2> QED
            BY <1>1, <2>1, <2>3, OneRequest, Zenon
    <1>6. ASSUME NEW c \in Clients, Enter(c) PROVE Goal
        <2>1. request[c].phase = "arrived" /\ "rate" \in Held
            BY <1>6 DEF Enter, Phase, Held
        <2>2. Goto(c, "rate") \/ request' = [request EXCEPT ![c] = Idle]
            BY <1>6, Zenon DEF Enter
        <2> QED
            BY <1>3, <1>4, <2>1, <2>2
    <1>7. ASSUME NEW c \in Clients, CheckRate(c) PROVE Goal
        <2>1. request[c].phase \in Held /\ "admission" \in Held
            BY <1>7 DEF CheckRate, Phase, Held
        <2>2. Goto(c, "admission") \/ request' = [request EXCEPT ![c] = Idle]
            BY <1>7, Zenon DEF CheckRate
        <2> QED
            BY <1>3, <1>4, <2>1, <2>2
    <1>8. ASSUME NEW c \in Clients, ReceiveBody(c) PROVE Goal
        <2>1. request[c].phase \in Held /\ "waiting" \in Held /\ "handler" \in Held
            BY <1>8 DEF ReceiveBody, Phase, Held
        <2>2. Goto(c, "waiting") \/ Goto(c, "handler")
            BY <1>8 DEF ReceiveBody
        <2> QED
            BY <1>4, <2>1, <2>2
    <1>9. ASSUME NEW c \in Clients, Steps(c) PROVE Goal
        <2>1. PICK p \in Held : Arrow(c, p) /\ Goto(c, p)
            BY <1>9, Zenon DEF Steps
        <2>2. request[c].phase \in Held
            BY <2>1 DEF Arrow, Held
        <2> QED
            BY <1>4, <2>1, <2>2
    <1>10. ASSUME Crash PROVE Goal
        <2>1. request' = [d \in Clients |-> Idle]
            BY <1>10 DEF Crash
        <2> QED
            BY <1>2, <2>1
    <1>11. ASSUME request' = request PROVE Goal
        BY <1>1, <1>11 DEF GateType
    <1> HIDE DEF Goal
    <1>12. Goal
        BY <1>3, <1>5, <1>6, <1>7, <1>8, <1>9, <1>10, <1>11, RequestForms, Zenon DEF Ends
    <1> QED
        BY <1>12 DEF Goal

\* What a step may do to the disk.
LEMMA DiskForms ==
    ASSUME [Next]_vars
    PROVE  \/ disk' = disk /\ receipts' = receipts
           \/ \E c \in Clients :
                \/ StoreSubmission(c) \/ LocalSubmission(c) \/ ContributeResult(c)
                \/ ContributePatch(c) \/ ImportBundle(c) \/ WriteArtifact(c) \/ RenameArtifact(c)
                \/ AbandonArtifact(c) \/ BeginReceipt(c) \/ FinishReceipt(c)
           \/ \E o \in DOMAIN scenario.synchronized : SyncImport(o)
    BY ZenonT(30) DEF Next, Middleware, Handler, Issue, Enter, CheckRate, Admit, ReceiveBody, Disconnect,
       IssueTask, AuthorizeSubmission, CheckSubmission, Read, AuthorizeBundle, FailReceipt,
       Crash, Tick, Refuse, vars

\* No step adds or drops a table.
LEMMA DiskStep ==
    ASSUME GateType, [Next]_vars
    PROVE  disk' = [submissions |-> disk'.submissions, open |-> disk'.open,
                    origins |-> disk'.origins, artifacts |-> disk'.artifacts,
                    temporaries |-> disk'.temporaries, receipt_files |-> disk'.receipt_files,
                    patches |-> disk'.patches]
    <1> DEFINE Whole(x) == x = [submissions |-> x.submissions, open |-> x.open, origins |-> x.origins,
                                artifacts |-> x.artifacts, temporaries |-> x.temporaries,
                                receipt_files |-> x.receipt_files, patches |-> x.patches]
    <1>1. Whole(disk)
        BY DEF GateType
    <1>2. ASSUME disk' = disk PROVE Whole(disk')
        BY <1>1, <1>2
    <1>3. ASSUME NEW c \in Clients, StoreSubmission(c) PROVE Whole(disk')
        BY <1>1, <1>3 DEF StoreSubmission
    <1>4. ASSUME NEW c \in Clients, LocalSubmission(c) PROVE Whole(disk')
        BY <1>1, <1>4 DEF LocalSubmission
    <1>5. ASSUME NEW c \in Clients, ContributeResult(c) PROVE Whole(disk')
        BY <1>1, <1>5 DEF ContributeResult
    <1>6. ASSUME NEW c \in Clients, ContributePatch(c) PROVE Whole(disk')
        BY <1>1, <1>6 DEF ContributePatch
    <1>7. ASSUME NEW c \in Clients, ImportBundle(c) PROVE Whole(disk')
        BY <1>1, <1>7 DEF ImportBundle
    <1>8. ASSUME NEW c \in Clients, WriteArtifact(c) PROVE Whole(disk')
        BY <1>1, <1>8 DEF WriteArtifact
    <1>9. ASSUME NEW c \in Clients, RenameArtifact(c) PROVE Whole(disk')
        BY <1>1, <1>9, Zenon DEF RenameArtifact
    <1>10. ASSUME NEW c \in Clients, AbandonArtifact(c) PROVE Whole(disk')
        BY <1>1, <1>10 DEF AbandonArtifact
    <1>11. ASSUME NEW c \in Clients, BeginReceipt(c) PROVE Whole(disk')
        BY <1>1, <1>11 DEF BeginReceipt
    <1>12. ASSUME NEW c \in Clients, FinishReceipt(c) PROVE Whole(disk')
        BY <1>1, <1>12 DEF FinishReceipt
    <1>13. ASSUME NEW o, SyncImport(o) PROVE Whole(disk')
        BY <1>1, <1>13 DEF SyncImport
    <1> HIDE DEF Whole
    <1>14. Whole(disk')
        BY <1>2, <1>3, <1>4, <1>5, <1>6, <1>7, <1>8, <1>9, <1>10, <1>11, <1>12, <1>13, DiskForms, Zenon
    <1> QED
        BY <1>14 DEF Whole

\* The types are inductive.
LEMMA GateTypeStep ==
    ASSUME GateType, [Next]_vars
    PROVE  GateType'
    <1>1. scenario' \in Scenarios
        BY SameScenario DEF GateType
    <1>2. now' \in Nat
        <2>1. now' = now \/ now' = now + 1
            BY ZenonT(30) DEF Next, Middleware, Handler, Issue, Enter, CheckRate, Admit, ReceiveBody,
               Disconnect, IssueTask, AuthorizeSubmission, CheckSubmission, StoreSubmission,
               ContributeResult, ContributePatch, Read, AuthorizeBundle, ImportBundle,
               WriteArtifact, RenameArtifact, AbandonArtifact, BeginReceipt, FinishReceipt,
               FailReceipt, LocalSubmission, SyncImport, Crash, Tick, Answer, Refuse, vars
        <2> QED
            BY <2>1 DEF GateType
    <1> QED
        BY <1>1, <1>2, EdgeStep, ShapedStep, DiskStep, Zenon DEF GateType, EdgeType

-----------------------------------------------------------------------------
(* Permits and storage.                                                    *)

\* Sets of clients can be counted.
LEMMA ClientSets ==
    ASSUME NEW S, S \subseteq Clients
    PROVE  IsFiniteSet(S) /\ Cardinality(S) \in Nat
    BY ScenarioAssumption, FS_Subset, FS_CardinalityType

\* Every permit taken is held by one request.
LEMMA PermitsStep ==
    ASSUME GateType, PermitsReturn, [Next]_vars
    PROVE  PermitsReturn'
    <1> DEFINE max == config.max_concurrency
    <1>1. IsFiniteSet(Holders) /\ Cardinality(Holders) \in Nat
        BY ClientSets DEF Holders
    <1>2. /\ edge.concurrency = max - Cardinality(Holders) /\ config' = config
          /\ edge.concurrency \in Nat /\ max \in Nat
        BY SameScenario, Limits, Zenon DEF PermitsReturn, config, GateType
    <1>3. ASSUME edge'.concurrency = edge.concurrency, Holders' = Holders PROVE PermitsReturn'
        BY <1>2, <1>3 DEF PermitsReturn
    <1>4. ASSUME NEW c \in Clients, \A d \in Clients : d # c => request'[d] = request[d],
                 (request[c].phase \in Held) <=> (request'[c].phase \in Held)
          PROVE  Holders' = Holders
        BY <1>4, Zenon DEF Holders
    <1>5. ASSUME NEW c \in Clients, request[c].phase \in Held,
                 request' = [request EXCEPT ![c] = Idle], edge'.concurrency = edge.concurrency + 1
          PROVE  PermitsReturn'
        <2>1. request'[c] = Idle /\ \A d \in Clients : d # c => request'[d] = request[d]
            BY <1>5, OneRequest, Zenon
        <2>2. request'[c].phase \notin Held
            BY <2>1 DEF Idle, Held
        <2>3. Holders' = Holders \ {c} /\ c \in Holders
            BY <1>5, <2>1, <2>2, Zenon DEF Holders
        <2>4. Cardinality(Holders') = Cardinality(Holders) - 1
            BY <1>1, <2>3, FS_RemoveElement
        <2> QED
            BY <1>1, <1>2, <1>5, <2>4 DEF PermitsReturn
    <1>6. ASSUME NEW c \in Clients, Issue(c) PROVE PermitsReturn'
        <2>1. PICK r \in Requests(c) : request' = [request EXCEPT ![c] = [phase |-> "arrived", r |-> r]]
            BY <1>6, Zenon DEF Issue
        <2>2. request'[c] = [phase |-> "arrived", r |-> r] /\ \A d \in Clients : d # c => request'[d] = request[d]
            BY <2>1, OneRequest, Zenon
        <2>3. request'[c].phase \notin Held /\ request[c].phase \notin Held
            BY <1>6, <2>2 DEF Held, Issue, Phase
        <2>4. edge' = edge
            BY <1>6 DEF Issue
        <2> QED
            BY <1>3, <1>4, <2>2, <2>3, <2>4
    <1>7. ASSUME NEW c \in Clients, NEW p \in Held, Goto(c, p), request[c].phase \in Held,
                 edge'.concurrency = edge.concurrency
          PROVE  PermitsReturn'
        <2>1. /\ request'[c] = [phase |-> p, r |-> request[c].r]
              /\ \A d \in Clients : d # c => request'[d] = request[d]
            BY <1>7, OnePhase, Zenon
        <2>2. request'[c].phase = p
            BY <2>1
        <2> QED
            BY <1>3, <1>4, <1>7, <2>1, <2>2
    <1>8. ASSUME NEW c \in Clients, Enter(c) PROVE PermitsReturn'
        <2>1. request[c].phase = "arrived" /\ "rate" \in Held /\ "arrived" \notin Held
            BY <1>8 DEF Enter, Phase, Held
        <2>2. \/ Goto(c, "rate") /\ edge'.concurrency = edge.concurrency - 1
              \/ request' = [request EXCEPT ![c] = Idle] /\ edge' = edge
            BY <1>8, Zenon DEF Enter, GateType
        <2>3. ASSUME Goto(c, "rate"), edge'.concurrency = edge.concurrency - 1 PROVE PermitsReturn'
            <3>1. /\ request'[c] = [phase |-> "rate", r |-> request[c].r]
                  /\ \A d \in Clients : d # c => request'[d] = request[d]
                BY <2>1, <2>3, OnePhase, Zenon
            <3>2. request'[c].phase = "rate"
                BY <3>1
            <3>3. Holders' = Holders \cup {c} /\ c \notin Holders
                BY <2>1, <3>1, <3>2, Zenon DEF Holders
            <3>4. Cardinality(Holders') = Cardinality(Holders) + 1
                BY <1>1, <3>3, FS_AddElement, Zenon
            <3> QED
                BY <1>1, <1>2, <2>3, <3>4 DEF PermitsReturn
        <2>4. ASSUME request' = [request EXCEPT ![c] = Idle], edge' = edge PROVE PermitsReturn'
            <3>1. request'[c] = Idle /\ \A d \in Clients : d # c => request'[d] = request[d]
                BY <2>4, OneRequest, Zenon
            <3>2. request'[c].phase \notin Held
                BY <3>1 DEF Idle, Held
            <3> QED
                BY <1>3, <1>4, <2>1, <2>4, <3>1, <3>2
        <2> QED
            BY <2>2, <2>3, <2>4
    <1>9. ASSUME NEW c \in Clients, CheckRate(c) PROVE PermitsReturn'
        <2>1. request[c].phase \in Held /\ "admission" \in Held
            BY <1>9 DEF CheckRate, Phase, Held
        <2>2. \/ Goto(c, "admission") /\ edge'.concurrency = edge.concurrency
              \/ request' = [request EXCEPT ![c] = Idle] /\ edge'.concurrency = edge.concurrency + 1
            BY <1>9, Zenon DEF CheckRate, Released, GateType
        <2> QED
            BY <1>5, <1>7, <2>1, <2>2
    <1>10. ASSUME NEW c \in Clients, ReceiveBody(c) PROVE PermitsReturn'
        <2>1. request[c].phase \in Held /\ "waiting" \in Held /\ "handler" \in Held
            BY <1>10 DEF ReceiveBody, Phase, Held
        <2>2. (Goto(c, "waiting") \/ Goto(c, "handler")) /\ edge'.concurrency = edge.concurrency
            BY <1>10 DEF ReceiveBody, GateType
        <2> QED
            BY <1>7, <2>1, <2>2
    <1>11. ASSUME NEW c \in Clients, Steps(c) PROVE PermitsReturn'
        <2>1. PICK p \in Held : Arrow(c, p) /\ Goto(c, p) /\ edge' = edge
            BY <1>11, Zenon DEF Steps
        <2>2. request[c].phase \in Held
            BY <2>1 DEF Arrow, Held
        <2> QED
            BY <1>7, <2>1, <2>2
    <1>12. ASSUME NEW c \in Clients, Ends(c) PROVE PermitsReturn'
        <2>1. edge'.concurrency = edge.concurrency + 1
            BY <1>12 DEF Ends, Released, GateType
        <2> QED
            BY <1>5, <1>12, <2>1, Zenon DEF Ends
    <1>13. ASSUME Crash PROVE PermitsReturn'
        <2>1. \A d \in Clients : request'[d].phase \notin Held
            BY <1>13 DEF Crash, Idle, Held
        <2>2. Holders' = {}
            BY <2>1 DEF Holders
        <2>3. edge'.concurrency = max
            BY <1>13 DEF Crash, PublicEdgePolicy
        <2> QED
            BY <1>2, <2>2, <2>3, FS_EmptySet DEF PermitsReturn
    <1>14. ASSUME request' = request, edge' = edge PROVE PermitsReturn'
        BY <1>3, <1>14 DEF Holders
    <1> QED
        BY <1>6, <1>8, <1>9, <1>10, <1>11, <1>12, <1>13, <1>14, RequestForms, Zenon

\* What was admitted together may be stored together, and no more.
LEMMA StorageStep ==
    ASSUME GateType, GateType', PermitsReturn', StorageHolds, [Next]_vars
    PROVE  StorageHolds'
    <1> DEFINE max == config.max_storage + config.max_concurrency - 1
    <1>1. /\ IsFiniteSet(Uploads) /\ Cardinality(Uploads) \in Nat
          /\ IsFiniteSet(Uploads') /\ Cardinality(Uploads') \in Nat
        <2>1. Uploads \subseteq Clients /\ Uploads' \subseteq Clients
            BY DEF Uploads
        <2> QED
            BY <2>1, ClientSets, Zenon
    <1>2. /\ config' = config /\ config.max_storage \in Nat \ {0} /\ config.max_concurrency \in Nat \ {0}
          /\ max \in Nat
        <2>1. config.max_storage \in Nat \ {0} /\ config.max_concurrency \in Nat \ {0}
            BY Limits DEF GateType
        <2>2. config' = config
            BY SameScenario DEF config
        <2> QED
            BY <2>1, <2>2
    <1>3. /\ IsFiniteSet(disk.artifacts) /\ Cardinality(disk.artifacts) \in Nat
          /\ disk.temporaries \in Int /\ Stored \in Int
          /\ Stored + Cardinality(Uploads) <= max
        BY FS_CardinalityType DEF StorageHolds, Stored
    <1>4. ASSUME NEW d \in Uploads', d \notin Uploads
          PROVE  disk' = disk /\ ensure_storage_headroom(request[d].r) /\ Claimed(request[d].r) = 1
        <2>1. Goes(d) /\ request'[d].phase \in {"body", "handler"} /\ request'[d].r.path = "artifacts"
              /\ ~(request[d].phase \in {"body", "handler"} /\ request[d].r.path = "artifacts")
              /\ d \in Clients
            BY <1>4, Journey DEF Uploads
        <2>2. request'[d].r = request[d].r /\ Arrow(d, request'[d].phase)
            BY <2>1 DEF Goes
        <2>3. request[d].r.path = "artifacts"
            BY <2>1, <2>2
        <2>4. (IsWrite(request[d].r) => WriteAdmitted(request[d].r)) /\ disk' = disk
            BY <2>1, <2>2, <2>3 DEF Arrow
        <2> QED
            BY <2>3, <2>4 DEF IsWrite, WriteAdmitted, Claimed
    <1>5. ASSUME NEW d \in Uploads', d \notin Uploads PROVE StorageHolds'
        <2>1. disk' = disk /\ Stored + 1 <= config.max_storage
            BY <1>4, <1>5 DEF ensure_storage_headroom
        <2>2. Uploads' \subseteq Holders'
            BY DEF Uploads, Holders, Held
        <2>3. IsFiniteSet(Holders') /\ Cardinality(Holders') \in Nat
            <3>1. Holders' \subseteq Clients
                BY DEF Holders
            <3> QED
                BY <3>1, ClientSets, Zenon
        <2>4. Cardinality(Uploads') <= Cardinality(Holders')
            BY <2>2, <2>3, FS_Subset
        <2>5. Cardinality(Holders') <= config.max_concurrency
            <3>1. edge'.concurrency \in Nat
                BY DEF GateType
            <3>2. edge'.concurrency = config.max_concurrency - Cardinality(Holders')
                BY <1>2 DEF PermitsReturn
            <3> QED
                BY <1>2, <2>3, <3>1, <3>2
        <2>6. Stored' = Stored
            BY <2>1 DEF Stored
        <2>7. Stored' + Cardinality(Uploads') <= max
            BY <1>1, <1>2, <1>3, <2>1, <2>3, <2>4, <2>5, <2>6
        <2> QED
            BY <1>2, <1>3, <2>1, <2>7 DEF StorageHolds
    <1>6. ASSUME Uploads' \subseteq Uploads, IsFiniteSet(disk'.artifacts), disk'.temporaries \in Int,
                 Cardinality(disk'.artifacts) + disk'.temporaries <= Stored,
                 Cardinality(disk'.artifacts) \in Nat
          PROVE  StorageHolds'
        <2>1. Cardinality(Uploads') <= Cardinality(Uploads)
            BY <1>1, <1>6, FS_Subset
        <2>2. Stored' \in Int /\ Stored' <= Stored
            BY <1>6 DEF Stored
        <2>3. Stored' + Cardinality(Uploads') <= max
            BY <1>1, <1>2, <1>3, <2>1, <2>2
        <2> QED
            BY <1>2, <1>6, <2>3 DEF StorageHolds
    <1>7. ASSUME Uploads' \subseteq Uploads, disk'.artifacts = disk.artifacts,
                 disk'.temporaries = disk.temporaries
          PROVE  StorageHolds'
        BY <1>3, <1>6, <1>7 DEF Stored
    <1>8. ASSUME NEW c \in Clients, Uploads' \subseteq Uploads, AbandonArtifact(c) PROVE StorageHolds'
        <2>1. disk'.artifacts = disk.artifacts /\ disk'.temporaries = disk.temporaries - 1
            BY <1>8 DEF AbandonArtifact, GateType
        <2> QED
            BY <1>3, <1>6, <1>8, <2>1 DEF Stored
    <1>9. ASSUME NEW c \in Clients, Uploads' \subseteq Uploads, RenameArtifact(c) PROVE StorageHolds'
        <2>1. /\ disk'.artifacts = disk.artifacts \cup {request[c].r.artifact}
              /\ disk'.temporaries = disk.temporaries - 1
            BY <1>9 DEF RenameArtifact, GateType
        <2>2. IsFiniteSet(disk'.artifacts) /\ Cardinality(disk'.artifacts) <= Cardinality(disk.artifacts) + 1
            <3> DEFINE A == disk.artifacts
                       x == request[c].r.artifact
            <3>1. /\ IsFiniteSet(A \cup {x})
                  /\ Cardinality(A \cup {x}) = IF x \in A THEN Cardinality(A) ELSE Cardinality(A) + 1
                BY <1>3, FS_AddElement, Zenon
            <3> QED
                BY <1>3, <2>1, <3>1
        <2>3. Cardinality(disk'.artifacts) \in Nat
            BY <2>2, FS_CardinalityType
        <2> QED
            BY <1>3, <1>6, <1>9, <2>1, <2>2, <2>3 DEF Stored
    <1>10. ASSUME NEW c \in Clients, Uploads' \subseteq Uploads, WriteArtifact(c) PROVE StorageHolds'
        <2>1. request[c].phase = "handler" /\ request[c].r.path = "artifacts" /\ c \in Uploads
            BY <1>10 DEF WriteArtifact, Phase, Uploads
        <2>2. CASE request[c].r.artifact \in disk.artifacts
            BY <1>7, <1>10, <2>2 DEF WriteArtifact
        <2>3. CASE request[c].r.artifact \notin disk.artifacts
            <3>1. disk'.artifacts = disk.artifacts /\ disk'.temporaries = disk.temporaries + 1
                BY <1>10, <2>3 DEF WriteArtifact, GateType
            <3>2. request'[c] = [phase |-> "rename", r |-> request[c].r]
                <4>1. Goto(c, "rename")
                    BY <1>10, <2>3 DEF WriteArtifact
                <4> QED
                    BY <2>1, <4>1, OnePhase DEF Held
            <3>3. c \notin Uploads'
                BY <3>2 DEF Uploads
            <3>4. Uploads' \subseteq Uploads \ {c}
                BY <1>10, <3>3
            <3>5. Cardinality(Uploads') <= Cardinality(Uploads) - 1
                BY <1>1, <2>1, <3>4, FS_RemoveElement, FS_Subset
            <3>6. Stored' = Stored + 1
                BY <1>3, <3>1 DEF Stored
            <3>7. Stored' + Cardinality(Uploads') <= max
                BY <1>1, <1>2, <1>3, <3>5, <3>6
            <3> QED
                BY <1>2, <1>3, <3>1, <3>7 DEF StorageHolds
        <2> QED
            BY <2>2, <2>3
    <1>11. \/ disk'.artifacts = disk.artifacts /\ disk'.temporaries = disk.temporaries
           \/ \E c \in Clients : WriteArtifact(c) \/ RenameArtifact(c) \/ AbandonArtifact(c)
        <2> DEFINE Same == disk'.artifacts = disk.artifacts /\ disk'.temporaries = disk.temporaries
        <2>1. ASSUME NEW c \in Clients, StoreSubmission(c) PROVE Same
            BY <2>1 DEF StoreSubmission, GateType
        <2>2. ASSUME NEW c \in Clients, LocalSubmission(c) PROVE Same
            BY <2>2 DEF LocalSubmission, GateType
        <2>3. ASSUME NEW c \in Clients, ContributeResult(c) PROVE Same
            BY <2>3 DEF ContributeResult, GateType
        <2>4. ASSUME NEW c \in Clients, ContributePatch(c) PROVE Same
            BY <2>4 DEF ContributePatch, GateType
        <2>5. ASSUME NEW c \in Clients, ImportBundle(c) PROVE Same
            BY <2>5 DEF ImportBundle, GateType
        <2>6. ASSUME NEW c \in Clients, BeginReceipt(c) PROVE Same
            BY <2>6 DEF BeginReceipt, GateType
        <2>7. ASSUME NEW c \in Clients, FinishReceipt(c) PROVE Same
            BY <2>7 DEF FinishReceipt, GateType
        <2>8. ASSUME NEW o, SyncImport(o) PROVE Same
            BY <2>8 DEF SyncImport, GateType
        <2>9. ASSUME disk' = disk PROVE Same
            BY <2>9
        <2> HIDE DEF Same
        <2>10. Same \/ \E c \in Clients : WriteArtifact(c) \/ RenameArtifact(c) \/ AbandonArtifact(c)
            BY <2>1, <2>2, <2>3, <2>4, <2>5, <2>6, <2>7, <2>8, <2>9, DiskForms, Zenon
        <2> QED
            BY <2>10 DEF Same
    <1>12. CASE Uploads' \subseteq Uploads
        BY <1>7, <1>8, <1>9, <1>10, <1>11, <1>12, Zenon
    <1>13. CASE ~(Uploads' \subseteq Uploads)
        BY <1>5, <1>13
    <1> QED
        BY <1>12, <1>13

-----------------------------------------------------------------------------
(* Volunteer intake.                                                       *)

\* What a step may add to the submissions.
LEMMA SubmissionForms ==
    ASSUME GateType, [Next]_vars
    PROVE  \/ disk'.submissions = disk.submissions
           \/ \E c \in Clients : \/ StoreSubmission(c) /\ request[c].phase = "store"
                                 \/ LocalSubmission(c)
    <1> DEFINE Same == disk'.submissions = disk.submissions
    <1>1. ASSUME NEW c \in Clients, StoreSubmission(c) PROVE request[c].phase = "store"
        BY <1>1 DEF StoreSubmission, Phase
    <1>2. ASSUME NEW c \in Clients, ContributeResult(c) PROVE Same
        BY <1>2 DEF ContributeResult, GateType
    <1>3. ASSUME NEW c \in Clients, ContributePatch(c) PROVE Same
        BY <1>3 DEF ContributePatch, GateType
    <1>4. ASSUME NEW c \in Clients, ImportBundle(c) PROVE Same
        BY <1>4 DEF ImportBundle, GateType
    <1>5. ASSUME NEW c \in Clients, WriteArtifact(c) PROVE Same
        BY <1>5 DEF WriteArtifact, GateType
    <1>6. ASSUME NEW c \in Clients, RenameArtifact(c) \/ AbandonArtifact(c) PROVE Same
        BY <1>6, Zenon DEF RenameArtifact, AbandonArtifact, GateType
    <1>7. ASSUME NEW c \in Clients, BeginReceipt(c) PROVE Same
        BY <1>7 DEF BeginReceipt, GateType
    <1>8. ASSUME NEW c \in Clients, FinishReceipt(c) PROVE Same
        BY <1>8 DEF FinishReceipt, GateType
    <1>9. ASSUME NEW o, SyncImport(o) PROVE Same
        BY <1>9 DEF SyncImport, GateType
    <1>10. ASSUME disk' = disk PROVE Same
        BY <1>10
    <1> HIDE DEF Same
    <1>11. Same \/ \E c \in Clients : StoreSubmission(c) \/ LocalSubmission(c)
        BY <1>2, <1>3, <1>4, <1>5, <1>6, <1>7, <1>8, <1>9, <1>10, DiskForms, Zenon
    <1> QED
        BY <1>1, <1>11 DEF Same

\* One row is added, and only for a nonce without one.
LEMMA RowAdded ==
    ASSUME GateType, NEW c \in Clients, StoreSubmission(c)
    PROVE  LET row == Submission(request[c].r, "edge")
           IN  \/ disk' = disk /\ receipts' = receipts
               \/ /\ disk' = [disk EXCEPT !.submissions = @ \cup {row}]
                  /\ receipts' = receipts \cup {VolunteerReceipt(row)}
                  /\ \A s \in disk.submissions : s.nonce # row.nonce
    BY DEF StoreSubmission, store_volunteer_submission

\* The administration listener adds a row of its own, under a nonce no row has.
LEMMA LocalRowAdded ==
    ASSUME GateType, NEW c \in Clients, LocalSubmission(c)
    PROVE  \E r : LET row == Submission(r, "local")
                  IN  /\ disk' = [disk EXCEPT !.submissions = @ \cup {row}]
                      /\ receipts' = receipts \cup {VolunteerReceipt(row)}
                      /\ \A s \in disk.submissions : s.nonce # row.nonce
    <1>1. PICK l \in leases[c], b \in scenario.bodies :
            LET r == [lease |-> l, body |-> b]
                row == Submission(r, "local")
                rows == store_volunteer_submission(disk.submissions, row)
            IN  /\ rows # disk.submissions
                /\ disk' = [disk EXCEPT !.submissions = rows]
                /\ receipts' = receipts \cup {VolunteerReceipt(row)}
        BY DEF LocalSubmission
    <1> DEFINE r == [lease |-> l, body |-> b]
               row == Submission(r, "local")
    <1> HIDE DEF r
    <1>2. /\ disk' = [disk EXCEPT !.submissions = @ \cup {row}]
          /\ receipts' = receipts \cup {VolunteerReceipt(row)}
          /\ \A s \in disk.submissions : s.nonce # row.nonce
        BY <1>1 DEF store_volunteer_submission, r
    <1> QED
        BY <1>2, Zenon

\* The check of the quota holds until the row is stored.
LEMMA IntakeStep ==
    ASSUME GateType, Guarded, IntakeHolds, [Next]_vars
    PROVE  IntakeHolds'
    <1> DEFINE max == config.max_volunteer_submissions
               E == EdgeRows(disk.submissions)
               F == EdgeRows(disk'.submissions)
    <1>1. config' = config
        BY SameScenario DEF config
    <1>2. max \in Nat
        BY Limits DEF GateType
    <1>3. /\ IsFiniteSet(disk.submissions) /\ Cardinality(disk.submissions) \in Nat
          /\ IsFiniteSet(E) /\ Cardinality(E) \in Nat /\ Cardinality(E) <= Cardinality(disk.submissions)
          /\ Cardinality(E) <= max
        <2>1. IsFiniteSet(disk.submissions) /\ E \in SUBSET disk.submissions /\ Cardinality(E) <= max
            BY DEF IntakeHolds, EdgeRows
        <2> HIDE DEF E
        <2>2. IsFiniteSet(E) /\ Cardinality(E) <= Cardinality(disk.submissions)
            BY <2>1, FS_Subset
        <2> QED
            BY <2>1, <2>2, FS_CardinalityType
    <1>4. ASSUME disk'.submissions = disk.submissions PROVE IntakeHolds'
        <2>1. ASSUME NEW c \in Clients, request'[c].phase \in {"check", "store"}
              PROVE  Cardinality(E) < max
            <3>1. Goes(c)
                BY Journey
            <3>2. request[c].phase \in {"check", "store"} \/ authorize_volunteer_task
                BY <2>1, <3>1, Zenon DEF Goes, Arrow
            <3>3. request[c].phase \in {"check", "store"} => Cardinality(E) < max
                BY DEF IntakeHolds
            <3>4. authorize_volunteer_task => Cardinality(E) < max
                BY <1>2, <1>3 DEF authorize_volunteer_task, volunteer_submission_count
            <3> QED
                BY <3>2, <3>3, <3>4
        <2>2. F = E
            BY <1>4
        <2> HIDE DEF E, F
        <2> QED
            BY <1>1, <1>3, <1>4, <2>1, <2>2 DEF IntakeHolds, F
    <1>5. ASSUME NEW c \in Clients, StoreSubmission(c), request[c].phase = "store" PROVE IntakeHolds'
        <2> DEFINE row == Submission(request[c].r, "edge")
        <2>1. \/ disk' = disk
              \/ disk' = [disk EXCEPT !.submissions = @ \cup {row}]
            BY <1>5, RowAdded, Zenon
        <2>2. disk'.submissions = disk.submissions \/ disk'.submissions = disk.submissions \cup {row}
            BY <2>1 DEF GateType
        <2> HIDE DEF row
        <2>3. ASSUME NEW d \in Clients, request'[d].phase \in {"check", "store"} PROVE FALSE
            <3>1. request' = [request EXCEPT ![c] = Idle]
                BY <1>5 DEF StoreSubmission, Answer
            <3>2. d # c /\ request'[d] = request[d]
                BY <2>3, <3>1, OneRequest, Zenon DEF Idle
            <3>3. HasGuard(edge.volunteer_admission, c) /\ HasGuard(edge.volunteer_admission, d)
                BY <1>5, <2>3, <3>2 DEF Guarded
            <3> QED
                BY <3>2, <3>3 DEF HasGuard
        <2>4. ASSUME disk'.submissions = disk.submissions \cup {row} PROVE IntakeHolds'
            <3>1. F \in SUBSET (E \cup {row})
                BY <2>4 DEF EdgeRows
            <3>2. Cardinality(E) < max
                BY <1>5 DEF IntakeHolds
            <3> HIDE DEF E, F
            <3>3. /\ IsFiniteSet(E \cup {row})
                  /\ Cardinality(E \cup {row}) = IF row \in E THEN Cardinality(E) ELSE Cardinality(E) + 1
                BY <1>3, FS_AddElement, Zenon
            <3>4. IsFiniteSet(F) /\ Cardinality(F) <= Cardinality(E \cup {row})
                BY <3>1, <3>3, FS_Subset
            <3>5. Cardinality(F) \in Nat
                BY <3>4, FS_CardinalityType
            <3>6. Cardinality(F) <= max
                BY <1>2, <1>3, <3>2, <3>3, <3>4, <3>5
            <3>7. IsFiniteSet(disk'.submissions)
                <4>1. IsFiniteSet(disk.submissions \cup {row})
                    BY <1>3, FS_AddElement, Zenon
                <4> QED
                    BY <2>4, <4>1
            <3> QED
                BY <1>1, <2>3, <3>6, <3>7 DEF IntakeHolds, F
        <2> QED
            BY <1>4, <2>2, <2>4
    <1>6. ASSUME NEW c \in Clients, LocalSubmission(c) PROVE IntakeHolds'
        <2>1. PICK r : disk' = [disk EXCEPT !.submissions = @ \cup {Submission(r, "local")}]
            BY <1>6, LocalRowAdded, Zenon
        <2> DEFINE row == Submission(r, "local")
        <2>2. disk'.submissions = disk.submissions \cup {row}
            BY <2>1 DEF GateType
        <2>3. row.via = "local"
            BY DEF Submission
        <2> HIDE DEF row
        <2>4. F = E
            BY <2>2, <2>3 DEF EdgeRows
        <2>5. IsFiniteSet(disk'.submissions)
            <3>1. IsFiniteSet(disk.submissions \cup {row})
                BY <1>3, FS_AddElement, Zenon
            <3> QED
                BY <2>2, <3>1
        <2>6. request' = request
            BY <1>6 DEF LocalSubmission
        <2>7. \A d \in Clients : request[d].phase \in {"check", "store"} => Cardinality(E) < max
            BY DEF IntakeHolds
        <2> HIDE DEF E, F
        <2> QED
            BY <1>1, <1>3, <2>4, <2>5, <2>6, <2>7 DEF IntakeHolds, F
    <1> QED
        BY <1>4, <1>5, <1>6, SubmissionForms, Zenon

-----------------------------------------------------------------------------
(* Origins.                                                                *)

\* The larger of two numbers.
LEMMA MaxOfTwo ==
    ASSUME NEW a \in Nat, NEW b \in Nat
    PROVE  Max({a, b}) \in {a, b} /\ Max({a, b}) >= a /\ Max({a, b}) >= b
    <1>1. \E x \in {a, b} : \A y \in {a, b} : x >= y
        <2>1. CASE a >= b
            BY <2>1
        <2>2. CASE b >= a
            BY <2>2
        <2> QED
            BY <2>1, <2>2
    <1> DEFINE m == CHOOSE x \in {a, b} : \A y \in {a, b} : x >= y
    <1>2. m \in {a, b} /\ \A y \in {a, b} : m >= y
        BY <1>1, Zenon
    <1>3. Max({a, b}) = m
        BY DEF Max
    <1> HIDE DEF m
    <1> QED
        BY <1>2, <1>3

RowsHold(rows) ==
    /\ \A p \in rows : OriginRow(p)
    /\ \A p, q \in rows : p.origin = q.origin => p = q

\* An import leaves one row for its origin, which has moved on and keeps how it came.
LEMMA ImportedRow ==
    ASSUME NEW rows, RowsHold(rows), NEW o, NEW cursor \in Nat, NEW via \in {"edge", "sync"},
           config.max_origin_events \in Nat, via = "edge" => cursor <= config.max_origin_events
    PROVE  \E row : /\ Imported(rows, o, cursor, via) = {p \in rows : p.origin # o} \cup {row}
                    /\ OriginRow(row) /\ row.origin = o /\ row.cursor >= cursor
                    /\ \A p \in rows : p.origin = o => row.via = p.via /\ row.cursor >= p.cursor
                    /\ (\A p \in rows : p.origin # o) => row.via = via
    <1> DEFINE known == {p \in rows : p.origin = o}
               fresh == [origin |-> o, via |-> via, published |-> 0, cursor |-> 0]
               before == IF known = {} THEN fresh ELSE CHOOSE p \in known : TRUE
               row == [before EXCEPT !.cursor = Max({before.cursor, cursor}),
                          !.published = IF via = "edge" THEN Max({before.published, cursor})
                                        ELSE before.published]
    <1>1. Imported(rows, o, cursor, via) = (rows \ known) \cup {row}
        BY DEF Imported
    <1>2. rows \ known = {p \in rows : p.origin # o}
        OBVIOUS
    <1>3. /\ OriginRow(before) /\ before.origin = o
          /\ \A p \in rows : p.origin = o => p = before
          /\ (\A p \in rows : p.origin # o) => before.via = via
        <2>1. CASE known = {}
            <3>1. before = fresh
                BY <2>1
            <3>2. OriginRow(fresh) /\ fresh.origin = o /\ fresh.via = via
                BY DEF OriginRow
            <3> QED
                BY <2>1, <3>1, <3>2, Zenon
        <2>2. CASE known # {}
            <3>1. before \in known
                BY <2>2
            <3> HIDE DEF before
            <3> QED
                BY <3>1 DEF RowsHold
        <2> QED
            BY <2>1, <2>2
    <1> HIDE DEF before
    <1> DEFINE at == Max({before.cursor, cursor})
               published == IF via = "edge" THEN Max({before.published, cursor}) ELSE before.published
    <1>4. before.cursor \in Nat /\ before.published \in Nat /\ before.published <= config.max_origin_events
        BY <1>3 DEF OriginRow
    <1>5. at \in Nat /\ at >= cursor /\ at >= before.cursor
        BY <1>4, MaxOfTwo
    <1>6. published \in Nat /\ published <= config.max_origin_events
        <2>1. CASE via = "edge"
            <3>1. Max({before.published, cursor}) \in {before.published, cursor}
                BY <1>4, MaxOfTwo
            <3> QED
                BY <1>4, <2>1, <3>1
        <2>2. CASE via # "edge"
            BY <1>4, <2>2
        <2> QED
            BY <2>1, <2>2
    <1>7. row = [before EXCEPT !.cursor = at, !.published = published]
        OBVIOUS
    <1> HIDE DEF at, published
    <1>8. row = [origin |-> before.origin, via |-> before.via, published |-> published, cursor |-> at]
        <2>1. before = [origin |-> before.origin, via |-> before.via, published |-> before.published,
                        cursor |-> before.cursor]
            BY <1>3 DEF OriginRow
        <2> HIDE DEF row
        <2> QED
            BY <1>7, <2>1, Zenon
    <1> HIDE DEF row
    <1>9. row.origin = o /\ row.via = before.via /\ row.published = published /\ row.cursor = at
        BY <1>3, <1>8
    <1>10. OriginRow(row)
        <2>1. row = [origin |-> row.origin, via |-> row.via, published |-> row.published,
                     cursor |-> row.cursor]
            BY <1>3, <1>8, <1>9
        <2> QED
            BY <1>5, <1>6, <1>9, <2>1, Zenon DEF OriginRow
    <1>11. \A p \in rows : p.origin = o => row.via = p.via /\ row.cursor >= p.cursor
        BY <1>3, <1>5, <1>9
    <1>12. (\A p \in rows : p.origin # o) => row.via = via
        BY <1>3, <1>9
    <1> QED
        BY <1>1, <1>2, <1>5, <1>9, <1>10, <1>11, <1>12

OriginsOf(rows) == {p.origin : p \in rows}
AdmittedOf(rows) == {p.origin : p \in {p \in rows : p.via = "edge"}}

\* An import keeps one row per origin and moves no cursor back.
LEMMA ImportedRows ==
    ASSUME NEW rows, RowsHold(rows), NEW o, NEW cursor \in Nat, NEW via \in {"edge", "sync"},
           config.max_origin_events \in Nat, via = "edge" => cursor <= config.max_origin_events,
           NEW new, new = Imported(rows, o, cursor, via)
    PROVE  /\ RowsHold(new)
           /\ OriginsOf(rows) \subseteq OriginsOf(new)
           /\ OriginsOf(new) \subseteq OriginsOf(rows) \cup {o}
           /\ AdmittedOf(new) \subseteq AdmittedOf(rows) \cup {o}
           /\ o \in OriginsOf(rows) \/ via = "sync" => AdmittedOf(new) \subseteq AdmittedOf(rows)
           /\ \E p \in new : p.origin = o /\ p.cursor >= cursor
           /\ \A p \in rows : \E q \in new : q.origin = p.origin /\ q.cursor >= p.cursor
    <1>1. PICK row : /\ new = {p \in rows : p.origin # o} \cup {row}
                     /\ OriginRow(row) /\ row.origin = o /\ row.cursor >= cursor
                     /\ \A p \in rows : p.origin = o => row.via = p.via /\ row.cursor >= p.cursor
                     /\ (\A p \in rows : p.origin # o) => row.via = via
        BY ImportedRow
    <1>2. RowsHold(new)
        BY <1>1, Zenon DEF RowsHold
    <1>3. OriginsOf(rows) \subseteq OriginsOf(new) /\ OriginsOf(new) \subseteq OriginsOf(rows) \cup {o}
        BY <1>1 DEF OriginsOf
    <1>4. AdmittedOf(new) \subseteq AdmittedOf(rows) \cup {o}
        BY <1>1 DEF AdmittedOf
    <1>5. ASSUME o \in OriginsOf(rows) \/ via = "sync" PROVE AdmittedOf(new) \subseteq AdmittedOf(rows)
        <2>1. row.via = "edge" => \E p \in rows : p.origin = o /\ p.via = "edge"
            BY <1>1, <1>5 DEF OriginsOf
        <2> QED
            BY <1>1, <2>1 DEF AdmittedOf
    <1>6. \E p \in new : p.origin = o /\ p.cursor >= cursor
        BY <1>1
    <1>7. ASSUME NEW p \in rows PROVE \E q \in new : q.origin = p.origin /\ q.cursor >= p.cursor
        <2>1. CASE p.origin = o
            BY <1>1, <2>1
        <2>2. CASE p.origin # o
            <3>1. p \in new /\ p.cursor \in Nat
                BY <1>1, <2>2 DEF RowsHold, OriginRow
            <3> QED
                BY <3>1
        <2> QED
            BY <2>1, <2>2
    <1> QED
        BY <1>2, <1>3, <1>4, <1>5, <1>6, <1>7

\* What a step may do to the origins.
LEMMA OriginForms ==
    ASSUME GateType, [Next]_vars
    PROVE  \/ disk'.origins = disk.origins
           \/ \E c \in Clients :
                /\ request[c].phase = "import" /\ request' = [request EXCEPT ![c] = Idle]
                /\ disk'.origins = Imported(disk.origins, request[c].r.origin, request[c].r.cursor, "edge")
           \/ \E o \in DOMAIN scenario.synchronized : \E cursor \in scenario.synchronized[o] :
                request' = request /\ disk'.origins = Imported(disk.origins, o, cursor, "sync")
    <1> DEFINE Same == disk'.origins = disk.origins
               Edge == \E c \in Clients :
                  /\ request[c].phase = "import" /\ request' = [request EXCEPT ![c] = Idle]
                  /\ disk'.origins = Imported(disk.origins, request[c].r.origin, request[c].r.cursor, "edge")
               Sync == \E o \in DOMAIN scenario.synchronized : \E cursor \in scenario.synchronized[o] :
                request' = request /\ disk'.origins = Imported(disk.origins, o, cursor, "sync")
    <1>1. ASSUME NEW c \in Clients, StoreSubmission(c) PROVE Same
        BY <1>1 DEF StoreSubmission, GateType
    <1>2. ASSUME NEW c \in Clients, LocalSubmission(c) PROVE Same
        BY <1>2 DEF LocalSubmission, GateType
    <1>3. ASSUME NEW c \in Clients, ContributeResult(c) PROVE Same
        BY <1>3 DEF ContributeResult, GateType
    <1>4. ASSUME NEW c \in Clients, ContributePatch(c) PROVE Same
        BY <1>4 DEF ContributePatch, GateType
    <1>5. ASSUME NEW c \in Clients, WriteArtifact(c) PROVE Same
        BY <1>5 DEF WriteArtifact, GateType
    <1>6. ASSUME NEW c \in Clients, RenameArtifact(c) \/ AbandonArtifact(c) PROVE Same
        BY <1>6, Zenon DEF RenameArtifact, AbandonArtifact, GateType
    <1>7. ASSUME NEW c \in Clients, BeginReceipt(c) PROVE Same
        BY <1>7 DEF BeginReceipt, GateType
    <1>8. ASSUME NEW c \in Clients, FinishReceipt(c) PROVE Same
        BY <1>8 DEF FinishReceipt, GateType
    <1>9. ASSUME disk' = disk PROVE Same
        BY <1>9
    <1>10. ASSUME NEW c \in Clients, ImportBundle(c) PROVE Same \/ Edge
        <2>1. request[c].phase = "import" /\ request' = [request EXCEPT ![c] = Idle]
            BY <1>10 DEF ImportBundle, Phase, Answer
        <2>2. \/ disk' = disk
              \/ disk' = [disk EXCEPT !.origins = Imported(@, request[c].r.origin,
                                                           request[c].r.cursor, "edge")]
            BY <1>10 DEF ImportBundle
        <2>3. \/ disk'.origins = disk.origins
              \/ disk'.origins = Imported(disk.origins, request[c].r.origin, request[c].r.cursor, "edge")
            BY <2>2 DEF GateType
        <2> QED
            BY <2>1, <2>3, Zenon
    <1>11. ASSUME NEW o \in DOMAIN scenario.synchronized, SyncImport(o) PROVE Sync
        <2>1. PICK cursor \in scenario.synchronized[o] :
                disk' = [disk EXCEPT !.origins = Imported(@, o, cursor, "sync")]
            BY <1>11, Zenon DEF SyncImport
        <2>2. disk'.origins = Imported(disk.origins, o, cursor, "sync")
            BY <2>1 DEF GateType
        <2>3. request' = request
            BY <1>11 DEF SyncImport
        <2> QED
            BY <2>2, <2>3, Zenon
    <1> HIDE DEF Same, Edge, Sync
    <1>12. Same \/ Edge \/ Sync
        BY <1>1, <1>2, <1>3, <1>4, <1>5, <1>6, <1>7, <1>8, <1>9, <1>10, <1>11, DiskForms, Zenon
    <1> QED
        BY <1>12, Zenon DEF Same, Edge, Sync

\* Origins stay, and none is admitted above the limit: what the check saw is still so when
\* the bundle is imported, except that the synchronization loop may have learnt more.
LEMMA OriginsStep ==
    ASSUME GateType, Guarded, OriginsHold, [Next]_vars
    PROVE  /\ OriginsHold'
           /\ \A p \in disk.origins : \E q \in disk'.origins : q.origin = p.origin /\ q.cursor >= p.cursor
    <1> DEFINE max == config.max_origins
               Grown == \A p \in disk.origins :
                            \E q \in disk'.origins : q.origin = p.origin /\ q.cursor >= p.cursor
               Case(c, r) == /\ r.cursor \in Nat
                             /\ r.cursor <= config.max_origin_events
                             /\ r.origin \in Origins \/ Cardinality(Admitted) < max
    <1>1. config' = config
        BY SameScenario DEF config
    <1>2. max \in Nat /\ config.max_origin_events \in Nat
        BY Limits, Zenon DEF GateType
    <1>3. /\ RowsHold(disk.origins) /\ Origins = OriginsOf(disk.origins)
          /\ Admitted = AdmittedOf(disk.origins)
          /\ Origins' = OriginsOf(disk'.origins) /\ Admitted' = AdmittedOf(disk'.origins)
        BY Zenon DEF OriginsHold, RowsHold, Origins, OriginsOf, Admitted, AdmittedOf
    <1>4. /\ IsFiniteSet(Origins) /\ Cardinality(Origins) \in Nat
          /\ IsFiniteSet(Admitted) /\ Cardinality(Admitted) \in Nat
          /\ Cardinality(Admitted) <= Cardinality(Origins) /\ Cardinality(Admitted) <= max
        <2>1. IsFiniteSet(Origins) /\ Cardinality(Admitted) <= max
            BY DEF OriginsHold
        <2>2. Admitted \in SUBSET Origins
            BY DEF Admitted, Origins
        <2>3. IsFiniteSet(Admitted) /\ Cardinality(Admitted) <= Cardinality(Origins)
            BY <2>1, <2>2, FS_Subset
        <2> QED
            BY <2>1, <2>3, FS_CardinalityType
    <1>5. ASSUME RowsHold(disk'.origins), IsFiniteSet(Origins'), Cardinality(Admitted') <= max,
                 \A c \in Clients : request'[c].phase = "import" =>
                    /\ request'[c].r.cursor \in Nat
                    /\ request'[c].r.cursor <= config.max_origin_events
                    /\ request'[c].r.origin \in Origins' \/ Cardinality(Admitted') < max
          PROVE  OriginsHold'
        <2>1. \A p : OriginRow(p)' <=> OriginRow(p)
            BY <1>1 DEF OriginRow
        <2> QED
            BY <1>1, <1>5, <2>1, Zenon DEF OriginsHold, RowsHold
    <1>6. ASSUME disk'.origins = disk.origins PROVE OriginsHold' /\ Grown
        <2>1. Origins' = Origins /\ Admitted' = Admitted
            BY <1>3, <1>6
        <2>2. ASSUME NEW c \in Clients, request'[c].phase = "import" PROVE Case(c, request'[c].r)
            <3>1. Goes(c)
                BY Journey
            <3>2. \/ request'[c] = request[c] /\ request[c].phase = "import"
                  \/ /\ request'[c].r = request[c].r /\ request[c].phase = "waiting"
                     /\ IsFederationWrite(request[c].r) /\ authorize_federation_bundle(request[c].r)
                BY <2>2, <3>1, SMTT(20) DEF Goes, Arrow
            <3>3. ASSUME request'[c] = request[c], request[c].phase = "import" PROVE Case(c, request'[c].r)
                BY <3>3 DEF OriginsHold
            <3>4. ASSUME request'[c].r = request[c].r, request[c].phase = "waiting",
                         IsFederationWrite(request[c].r), authorize_federation_bundle(request[c].r)
                  PROVE  Case(c, request'[c].r)
                <4>1. request[c].r.cursor \in Nat
                    <5>1. request[c] # Idle
                        BY <3>4 DEF Idle
                    <5> QED
                        BY <3>4, <5>1, Zenon DEF GateType, Shaped
                <4>2. /\ request[c].r.cursor <= config.max_origin_events
                      /\ request[c].r.origin \in Origins \/ Cardinality(Origins) < max
                    BY <3>4 DEF authorize_federation_bundle
                <4>3. Cardinality(Origins) < max => Cardinality(Admitted) < max
                    BY <1>2, <1>4, SMTT(20)
                <4> QED
                    BY <3>4, <4>1, <4>2, <4>3
            <3> QED
                BY <3>2, <3>3, <3>4, Zenon
        <2>3. OriginsHold'
            BY <1>3, <1>4, <1>5, <1>6, <2>1, <2>2, SMTT(20)
        <2>4. Grown
            BY <1>6 DEF OriginsHold, OriginRow
        <2> QED
            BY <2>3, <2>4
    <1>7. ASSUME NEW o, NEW cursor \in Nat, NEW via \in {"edge", "sync"},
                 via = "edge" => cursor <= config.max_origin_events,
                 disk'.origins = Imported(disk.origins, o, cursor, via)
          PROVE  /\ RowsHold(disk'.origins) /\ IsFiniteSet(Origins') /\ Origins \subseteq Origins'
                 /\ IsFiniteSet(Admitted') /\ Cardinality(Admitted') \in Nat
                 /\ Cardinality(Admitted') <= Cardinality(Admitted) + 1
                 /\ o \in Origins \/ via = "sync" => Cardinality(Admitted') <= Cardinality(Admitted)
                 /\ Grown
        <2> DEFINE rows == disk.origins
                   new == disk'.origins
        <2>1. /\ RowsHold(new)
              /\ OriginsOf(rows) \subseteq OriginsOf(new)
              /\ OriginsOf(new) \subseteq OriginsOf(rows) \cup {o}
              /\ AdmittedOf(new) \subseteq AdmittedOf(rows) \cup {o}
              /\ o \in OriginsOf(rows) \/ via = "sync" => AdmittedOf(new) \subseteq AdmittedOf(rows)
              /\ \A p \in rows : \E q \in new : q.origin = p.origin /\ q.cursor >= p.cursor
            BY <1>2, <1>3, <1>7, ImportedRows, SMTT(20)
        <2>2. /\ Origins' \in SUBSET (Origins \cup {o}) /\ Admitted' \in SUBSET (Admitted \cup {o})
              /\ o \in Origins \/ via = "sync" => Admitted' \in SUBSET Admitted
            BY <1>3, <2>1
        <2>3. IsFiniteSet(Origins \cup {o})
            BY <1>4, FS_AddElement, Zenon
        <2>4. IsFiniteSet(Origins')
            BY <2>2, <2>3, FS_Subset, Zenon
        <2>5. /\ IsFiniteSet(Admitted \cup {o})
              /\ Cardinality(Admitted \cup {o}) =
                    IF o \in Admitted THEN Cardinality(Admitted) ELSE Cardinality(Admitted) + 1
            BY <1>4, FS_AddElement, Zenon
        <2>6. IsFiniteSet(Admitted') /\ Cardinality(Admitted') <= Cardinality(Admitted \cup {o})
            BY <2>2, <2>5, FS_Subset, Zenon
        <2>7. Cardinality(Admitted') \in Nat
            BY <2>6, FS_CardinalityType, Zenon
        <2>8. o \in Origins \/ via = "sync" => Cardinality(Admitted') <= Cardinality(Admitted)
            BY <1>4, <2>2, FS_Subset, Zenon
        <2>9. Cardinality(Admitted') <= Cardinality(Admitted) + 1
            BY <1>4, <2>5, <2>6, <2>7, SMTT(20)
        <2> QED
            BY <1>3, <2>1, <2>4, <2>6, <2>7, <2>8, <2>9, Zenon
    <1>8. ASSUME NEW c \in Clients, request[c].phase = "import", request' = [request EXCEPT ![c] = Idle],
                 disk'.origins = Imported(disk.origins, request[c].r.origin, request[c].r.cursor, "edge")
          PROVE  OriginsHold' /\ Grown
        <2>1. ASSUME NEW d \in Clients, request'[d].phase = "import" PROVE FALSE
            <3>1. d # c /\ request'[d] = request[d]
                BY <1>8, <2>1, OneRequest, Zenon DEF Idle
            <3>2. HasGuard(edge.federation_admission, c) /\ HasGuard(edge.federation_admission, d)
                BY <1>8, <2>1, <3>1, SMTT(20) DEF Guarded
            <3> QED
                BY <3>1, <3>2 DEF HasGuard
        <2>2. Case(c, request[c].r)
            BY <1>8, Zenon DEF OriginsHold
        <2>3. /\ RowsHold(disk'.origins) /\ IsFiniteSet(Origins') /\ Cardinality(Admitted') \in Nat
              /\ Cardinality(Admitted') <= Cardinality(Admitted) + 1
              /\ request[c].r.origin \in Origins => Cardinality(Admitted') <= Cardinality(Admitted)
              /\ Grown
            BY <1>7, <1>8, <2>2, Zenon
        <2>4. Cardinality(Admitted') <= max
            BY <1>2, <1>4, <2>2, <2>3, SMTT(20)
        <2> QED
            BY <1>5, <2>1, <2>3, <2>4
    <1>9. ASSUME NEW o \in DOMAIN scenario.synchronized, NEW cursor \in scenario.synchronized[o],
                 request' = request, disk'.origins = Imported(disk.origins, o, cursor, "sync")
          PROVE  OriginsHold' /\ Grown
        <2>1. cursor \in Nat
            BY <1>9, ScenarioAssumption, SMTT(20) DEF GateType
        <2>2. /\ RowsHold(disk'.origins) /\ IsFiniteSet(Origins') /\ Cardinality(Admitted') \in Nat
              /\ Cardinality(Admitted') <= Cardinality(Admitted) /\ Origins \subseteq Origins'
              /\ Grown
            BY <1>7, <1>9, <2>1, SMTT(20)
        <2>3. ASSUME NEW c \in Clients, request[c].phase = "import" PROVE Case(c, request[c].r)
            BY <2>3, SMTT(20) DEF OriginsHold
        <2>4. Cardinality(Admitted') <= max /\ (Cardinality(Admitted) < max => Cardinality(Admitted') < max)
            BY <1>2, <1>4, <2>2, SMTT(20)
        <2>5. \A c \in Clients : request'[c].phase = "import" =>
                    /\ request'[c].r.cursor \in Nat
                    /\ request'[c].r.cursor <= config.max_origin_events
                    /\ request'[c].r.origin \in Origins' \/ Cardinality(Admitted') < max
            BY <1>9, <2>2, <2>3, <2>4
        <2> QED
            BY <1>5, <2>2, <2>4, <2>5, SMTT(20)
    <1> QED
        BY <1>6, <1>8, <1>9, OriginForms, Zenon

-----------------------------------------------------------------------------
(* Receipts.                                                               *)

\* What a disk holds, a later one holds.
Holds(d, e) ==
    /\ d.submissions \subseteq e.submissions
    /\ \A p \in d.origins : \E q \in e.origins : q.origin = p.origin /\ q.cursor >= p.cursor
    /\ \A p \in d.origins \cup e.origins : p.cursor \in Nat
    /\ d.artifacts \subseteq e.artifacts
    /\ \A file : HasFile(d, file) => HasFile(e, file)

\* A receipt that is kept stays kept while the disk only grows.
LEMMA ReceiptStays ==
    ASSUME NEW d, NEW e, Holds(d, e), NEW x, KeptOn(d, x)
    PROVE  KeptOn(e, x)
    <1>1. CASE x.of = "submission" /\ \E s \in d.submissions : VolunteerReceipt(s) = x
        BY <1>1, Zenon DEF Holds, KeptOn
    <1>2. CASE /\ x.of = "bundle" /\ x.cursor \in Nat
               /\ \E p \in d.origins : p.origin = x.origin /\ p.cursor >= x.cursor
        <2>1. PICK p \in d.origins : p.origin = x.origin /\ p.cursor >= x.cursor
            BY <1>2, SMTT(20)
        <2>2. PICK q \in e.origins : q.origin = p.origin /\ q.cursor >= p.cursor
            BY DEF Holds
        <2>3. p.cursor \in Nat /\ q.cursor \in Nat /\ x.cursor \in Nat
            BY <1>2 DEF Holds
        <2>4. q.origin = x.origin /\ q.cursor >= x.cursor
            BY <2>1, <2>2, <2>3
        <2> QED
            BY <1>2, <2>4, SMTT(20) DEF KeptOn
    <1>3. CASE x.of = "artifact" /\ x.file.artifact \in d.artifacts /\ HasFile(d, x.file)
        BY <1>3, Zenon DEF Holds, KeptOn
    <1> QED
        BY <1>1, <1>2, <1>3, Zenon DEF KeptOn

\* So does a patch.
LEMMA PatchStays ==
    ASSUME NEW d, NEW e, Holds(d, e), NEW a, PatchKept(d, a)
    PROVE  PatchKept(e, a)
    BY Zenon DEF Holds, PatchKept

\* What the disk is after each step that changes it.
LEMMA StepHolds ==
    ASSUME GateType, OriginsHold, OriginsHold', [Next]_vars,
           \A p \in disk.origins : \E q \in disk'.origins : q.origin = p.origin /\ q.cursor >= p.cursor
    PROVE  Holds(disk, disk')
    <1> DEFINE Rest == /\ disk.submissions \subseteq disk'.submissions
                       /\ disk.artifacts \subseteq disk'.artifacts
                       /\ \A file : HasFile(disk, file) => HasFile(disk', file)
    <1>1. \A p \in disk.origins \cup disk'.origins : p.cursor \in Nat
        BY DEF OriginsHold, OriginRow
    <1>2. ASSUME NEW c \in Clients, StoreSubmission(c) PROVE Rest
        <2> DEFINE row == Submission(request[c].r, "edge")
        <2>1. disk' = disk \/ disk' = [disk EXCEPT !.submissions = @ \cup {row}]
            BY <1>2, RowAdded, Zenon
        <2> HIDE DEF row
        <2> QED
            BY <2>1, Zenon DEF GateType, HasFile
    <1>3. ASSUME NEW c \in Clients, LocalSubmission(c) PROVE Rest
        <2>1. PICK r : disk' = [disk EXCEPT !.submissions = @ \cup {Submission(r, "local")}]
            BY <1>3, LocalRowAdded, Zenon
        <2> QED
            BY <2>1 DEF GateType, HasFile
    <1>4. ASSUME NEW c \in Clients, ContributeResult(c) PROVE Rest
        BY <1>4 DEF ContributeResult, GateType, HasFile
    <1>5. ASSUME NEW c \in Clients, ContributePatch(c) PROVE Rest
        BY <1>5, SMTT(20) DEF ContributePatch, GateType, HasFile
    <1>6. ASSUME NEW c \in Clients, ImportBundle(c) PROVE Rest
        BY <1>6 DEF ImportBundle, GateType, HasFile
    <1>7. ASSUME NEW c \in Clients, WriteArtifact(c) PROVE Rest
        BY <1>7, Zenon DEF WriteArtifact, GateType, HasFile
    <1>8. ASSUME NEW c \in Clients, RenameArtifact(c) PROVE Rest
        BY <1>8 DEF RenameArtifact, GateType, HasFile
    <1>9. ASSUME NEW c \in Clients, AbandonArtifact(c) PROVE Rest
        BY <1>9 DEF AbandonArtifact, GateType, HasFile
    <1>10. ASSUME NEW c \in Clients, BeginReceipt(c) PROVE Rest
        BY <1>10 DEF BeginReceipt, GateType, HasFile
    <1>11. ASSUME NEW c \in Clients, FinishReceipt(c) PROVE Rest
        <2> DEFINE whole == [file |-> ReceiptFile(request[c].r), whole |-> TRUE]
        <2>1. /\ disk'.submissions = disk.submissions /\ disk'.artifacts = disk.artifacts
              /\ disk'.receipt_files = (disk.receipt_files \ FileAt(request[c].r)) \cup {whole}
            BY <1>11 DEF FinishReceipt, GateType
        <2>2. ASSUME NEW file, HasFile(disk, file) PROVE HasFile(disk', file)
            <3>1. CASE file = ReceiptFile(request[c].r)
                BY <2>1, <3>1 DEF HasFile
            <3>2. CASE file # ReceiptFile(request[c].r)
                <4>1. [file |-> file, whole |-> TRUE] \notin FileAt(request[c].r)
                    BY <3>2 DEF FileAt
                <4> QED
                    BY <2>1, <2>2, <4>1, SMTT(20) DEF HasFile
            <3> QED
                BY <3>1, <3>2
        <2> QED
            BY <2>1, <2>2
    <1>12. ASSUME NEW o, SyncImport(o) PROVE Rest
        BY <1>12 DEF SyncImport, GateType, HasFile
    <1>13. ASSUME disk' = disk PROVE Rest
        BY <1>13
    <1> HIDE DEF Rest
    <1>14. Rest
        BY <1>2, <1>3, <1>4, <1>5, <1>6, <1>7, <1>8, <1>9, <1>10, <1>11, <1>12, <1>13, DiskForms, Zenon
    <1> QED
        BY <1>1, <1>14 DEF Holds, Rest

\* What a step signs it has, and a patch it accepts has its bytes and a receipt.
Adds ==
    /\ \A f \in disk'.receipt_files :
            \/ f \in disk.receipt_files
            \/ \E file : \E whole \in BOOLEAN : f = [file |-> file, whole |-> whole]
    /\ \A a \in disk'.patches : a \in disk.patches \/ PatchKept(disk, a)
    /\ \A x \in receipts' : x \in receipts \/ KeptOn(disk', x)

\* A stored submission is what its receipt says.
LEMMA SubmissionSigned ==
    ASSUME NEW d, NEW row, row \in d.submissions
    PROVE  KeptOn(d, VolunteerReceipt(row))
    BY DEF KeptOn, VolunteerReceipt

\* What a step signs for, or accepts, is on the disk after it.
LEMMA AddsStep ==
    ASSUME GateType, OriginsHold, ReceiptsHold, [Next]_vars
    PROVE  Adds
    <1>1. ASSUME NEW row, disk' = [disk EXCEPT !.submissions = @ \cup {row}],
                 receipts' = receipts \cup {VolunteerReceipt(row)}
          PROVE  Adds
        <2>1. /\ row \in disk'.submissions /\ disk'.receipt_files = disk.receipt_files
              /\ disk'.patches = disk.patches
            BY <1>1 DEF GateType
        <2>2. KeptOn(disk', VolunteerReceipt(row))
            BY <2>1, SubmissionSigned
        <2> QED
            BY <1>1, <2>1, <2>2, Zenon DEF Adds
    <1>2. ASSUME disk'.receipt_files = disk.receipt_files, disk'.patches = disk.patches,
                 receipts' = receipts
          PROVE  Adds
        BY <1>2, Zenon DEF Adds
    <1>3. ASSUME NEW c \in Clients, StoreSubmission(c) PROVE Adds
        <2> DEFINE row == Submission(request[c].r, "edge")
        <2>1. \/ disk' = disk /\ receipts' = receipts
              \/ /\ disk' = [disk EXCEPT !.submissions = @ \cup {row}]
                 /\ receipts' = receipts \cup {VolunteerReceipt(row)}
            BY <1>3, RowAdded, Zenon
        <2> QED
            BY <1>1, <1>2, <2>1, Zenon
    <1>4. ASSUME NEW c \in Clients, LocalSubmission(c) PROVE Adds
        <2>1. \E r : /\ disk' = [disk EXCEPT !.submissions = @ \cup {Submission(r, "local")}]
                     /\ receipts' = receipts \cup {VolunteerReceipt(Submission(r, "local"))}
            BY <1>4, LocalRowAdded, Zenon
        <2> QED
            BY <1>1, <2>1, Zenon
    <1>5. ASSUME NEW c \in Clients, ContributeResult(c) PROVE Adds
        <2>1. disk'.receipt_files = disk.receipt_files /\ disk'.patches = disk.patches /\ receipts' = receipts
            BY <1>5 DEF ContributeResult, GateType
        <2> QED
            BY <1>2, <2>1
    <1>6. ASSUME NEW c \in Clients, ContributePatch(c) PROVE Adds
        <2> DEFINE a == request[c].r.artifact
        <2>1. /\ receipts' = receipts /\ disk'.receipt_files = disk.receipt_files
              /\ \/ disk'.patches = disk.patches
                 \/ disk'.patches = disk.patches \cup {a} /\ require_local_forge_artifact(a)
            BY <1>6 DEF ContributePatch, GateType
        <2> HIDE DEF a
        <2>2. ASSUME require_local_forge_artifact(a) PROVE PatchKept(disk, a)
            <3>1. a \in disk.artifacts /\ artifact_receipts(a) # {}
                BY <2>2, Zenon DEF require_local_forge_artifact
            <3>2. (\A f \in FilesOf(a) : f.whole) /\ FilesOf(a) # {}
                BY <3>1, Zenon DEF artifact_receipts
            <3>3. PICK f \in disk.receipt_files : f.file.artifact = a /\ f.whole
                BY <3>2, Zenon DEF FilesOf
            <3>4. PICK file : \E whole \in BOOLEAN : f = [file |-> file, whole |-> whole]
                BY Zenon DEF ReceiptsHold, FilesShaped
            <3>5. PICK whole \in BOOLEAN : f = [file |-> file, whole |-> whole]
                BY <3>4
            <3>6. f.file = file /\ f.whole = whole
                BY <3>5
            <3>7. whole = TRUE
                BY <3>3, <3>6, Zenon
            <3>8. HasFile(disk, file)
                BY <3>5, <3>7, Zenon DEF HasFile
            <3> QED
                BY <3>1, <3>3, <3>6, <3>8, Zenon DEF PatchKept
        <2> QED
            BY <2>1, <2>2, Zenon DEF Adds
    <1>7. ASSUME NEW c \in Clients, ImportBundle(c) PROVE Adds
        <2> DEFINE r == request[c].r
                   signed == [of |-> "bundle", origin |-> r.origin, cursor |-> r.cursor]
        <2>1. request[c].phase = "import"
            BY <1>7 DEF ImportBundle, Phase
        <2>2. r.cursor \in Nat /\ r.cursor <= config.max_origin_events
            BY <2>1 DEF OriginsHold
        <2>3. \/ disk' = disk /\ receipts' = receipts
              \/ /\ disk' = [disk EXCEPT !.origins = Imported(@, r.origin, r.cursor, "edge")]
                 /\ receipts' \subseteq receipts \cup {signed}
            BY <1>7 DEF ImportBundle
        <2>4. ASSUME disk' = [disk EXCEPT !.origins = Imported(@, r.origin, r.cursor, "edge")],
                     receipts' \subseteq receipts \cup {signed}
              PROVE  Adds
            <3>1. /\ disk'.receipt_files = disk.receipt_files /\ disk'.patches = disk.patches
                  /\ disk'.origins = Imported(disk.origins, r.origin, r.cursor, "edge")
                BY <2>4, SMTT(20) DEF GateType
            <3>2. \E p \in disk'.origins : p.origin = r.origin /\ p.cursor >= r.cursor
                <4>1. RowsHold(disk.origins)
                    BY Zenon DEF OriginsHold, RowsHold
                <4>2. config.max_origin_events \in Nat
                    BY Limits DEF GateType
                <4> HIDE DEF r
                <4> QED
                    BY <2>2, <3>1, <4>1, <4>2, ImportedRows
            <3>3. signed.of = "bundle" /\ signed.origin = r.origin /\ signed.cursor = r.cursor
                OBVIOUS
            <3> HIDE DEF signed, r
            <3>4. KeptOn(disk', signed)
                BY <2>2, <3>2, <3>3, Zenon DEF KeptOn
            <3> QED
                BY <2>4, <3>1, <3>4, Zenon DEF Adds
        <2> QED
            BY <1>2, <2>3, <2>4, Zenon
    <1>8. ASSUME NEW c \in Clients, WriteArtifact(c) PROVE Adds
        <2>1. disk'.receipt_files = disk.receipt_files /\ disk'.patches = disk.patches /\ receipts' = receipts
            BY <1>8 DEF WriteArtifact, GateType
        <2> QED
            BY <1>2, <2>1
    <1>9. ASSUME NEW c \in Clients, RenameArtifact(c) \/ AbandonArtifact(c) PROVE Adds
        <2>1. disk'.receipt_files = disk.receipt_files /\ disk'.patches = disk.patches /\ receipts' = receipts
            BY <1>9, Zenon DEF RenameArtifact, AbandonArtifact, GateType
        <2> QED
            BY <1>2, <2>1
    <1>10. ASSUME NEW c \in Clients, NEW d, request[c].r.artifact \in d.artifacts,
                  HasFile(d, ReceiptFile(request[c].r))
           PROVE  KeptOn(d, ArtifactReceipt(request[c].r))
        BY <1>10 DEF KeptOn, ArtifactReceipt, ReceiptFile
    <1>11. ASSUME NEW c \in Clients, BeginReceipt(c) PROVE Adds
        <2> DEFINE r == request[c].r
                   part == [file |-> ReceiptFile(r), whole |-> FALSE]
        <2>1. request[c].phase = "receipt"
            BY <1>11 DEF BeginReceipt, Phase
        <2>2. r.artifact \in disk.artifacts
            BY <2>1 DEF ReceiptsHold
        <2>3. \/ /\ disk' = [disk EXCEPT !.receipt_files = @ \cup {part}] /\ receipts' = receipts
              \/ /\ receipts' = receipts \cup {ArtifactReceipt(r) : f \in {f \in FileAt(r) : f.whole}}
                 /\ disk' = disk
            BY <1>11 DEF BeginReceipt
        <2>4. ASSUME disk' = [disk EXCEPT !.receipt_files = @ \cup {part}], receipts' = receipts PROVE Adds
            <3>1. disk'.receipt_files = disk.receipt_files \cup {part} /\ disk'.patches = disk.patches
                BY <2>4 DEF GateType
            <3> QED
                BY <2>4, <3>1, Zenon DEF Adds
        <2>5. ASSUME disk' = disk,
                     receipts' = receipts \cup {ArtifactReceipt(r) : f \in {f \in FileAt(r) : f.whole}}
              PROVE  Adds
            <3>1. ASSUME NEW f \in FileAt(r), f.whole PROVE KeptOn(disk, ArtifactReceipt(r))
                <4>1. f \in disk.receipt_files /\ f.file = ReceiptFile(r)
                    BY <3>1, Zenon DEF FileAt
                <4>2. PICK file : \E whole \in BOOLEAN : f = [file |-> file, whole |-> whole]
                    BY <4>1, Zenon DEF ReceiptsHold, FilesShaped
                <4>3. PICK whole \in BOOLEAN : f = [file |-> file, whole |-> whole]
                    BY <4>2
                <4>4. f.file = file /\ f.whole = whole
                    BY <4>3
                <4>5. whole = TRUE
                    BY <3>1, <4>4, Zenon
                <4>6. HasFile(disk, ReceiptFile(r))
                    BY <4>1, <4>3, <4>4, <4>5, Zenon DEF HasFile
                <4> QED
                    BY <1>10, <2>2, <4>6, Zenon
            <3>2. ASSUME NEW x \in receipts', x \notin receipts PROVE KeptOn(disk', x)
                <4>1. \E f \in FileAt(r) : f.whole /\ x = ArtifactReceipt(r)
                    BY <2>5, <3>2, Zenon
                <4> QED
                    BY <2>5, <3>1, <4>1, Zenon
            <3> QED
                BY <2>5, <3>2, Zenon DEF Adds
        <2> QED
            BY <2>3, <2>4, <2>5, Zenon
    <1>12. ASSUME NEW c \in Clients, FinishReceipt(c) PROVE Adds
        <2> DEFINE r == request[c].r
                   whole == [file |-> ReceiptFile(r), whole |-> TRUE]
        <2>1. request[c].phase = "writing"
            BY <1>12 DEF FinishReceipt, Phase
        <2>2. r.artifact \in disk.artifacts
            BY <2>1 DEF ReceiptsHold
        <2>3. /\ disk'.receipt_files = (disk.receipt_files \ FileAt(r)) \cup {whole}
              /\ disk'.patches = disk.patches /\ disk'.artifacts = disk.artifacts
              /\ receipts' = receipts \cup {ArtifactReceipt(r)}
            BY <1>12 DEF FinishReceipt, GateType
        <2>4. HasFile(disk', ReceiptFile(r))
            BY <2>3 DEF HasFile
        <2>5. KeptOn(disk', ArtifactReceipt(r))
            BY <1>10, <2>2, <2>3, <2>4, Zenon
        <2> QED
            BY <2>3, <2>5, Zenon DEF Adds
    <1>13. ASSUME NEW o, SyncImport(o) PROVE Adds
        <2>1. disk'.receipt_files = disk.receipt_files /\ disk'.patches = disk.patches /\ receipts' = receipts
            BY <1>13 DEF SyncImport, GateType
        <2> QED
            BY <1>2, <2>1
    <1>14. ASSUME disk' = disk, receipts' = receipts PROVE Adds
        BY <1>2, <1>14
    <1> QED
        BY <1>3, <1>4, <1>5, <1>6, <1>7, <1>8, <1>9, <1>11, <1>12, <1>13, <1>14, DiskForms, Zenon

\* Nothing signed for is lost.
LEMMA ReceiptsStep ==
    ASSUME GateType, Guarded, OriginsHold, OriginsHold', ReceiptsHold, [Next]_vars
    PROVE  ReceiptsHold'
    <1>1. Holds(disk, disk')
        BY OriginsStep, StepHolds, Zenon
    <1>2. Adds
        BY AddsStep, Zenon
    <1>3. ASSUME NEW c \in Clients, request'[c].phase \in {"receipt", "writing"}
          PROVE  request'[c].r.artifact \in disk'.artifacts
        <2>1. Goes(c)
            BY Journey, Zenon
        <2>2. request[c].phase \in {"receipt", "writing"} => request[c].r.artifact \in disk'.artifacts
            BY <1>1 DEF ReceiptsHold, Holds
        <2> QED
            BY <1>3, <2>1, <2>2 DEF Goes, Arrow
    <1>4. RowsUnique(disk')
        <2>1. ASSUME disk'.submissions = disk.submissions PROVE RowsUnique(disk')
            BY <2>1, Zenon DEF ReceiptsHold, RowsUnique
        <2>2. ASSUME NEW row, disk' = [disk EXCEPT !.submissions = @ \cup {row}],
                     \A s \in disk.submissions : s.nonce # row.nonce
              PROVE  RowsUnique(disk')
            <3>1. disk'.submissions = disk.submissions \cup {row}
                BY <2>2 DEF GateType
            <3> QED
                BY <2>2, <3>1 DEF ReceiptsHold, RowsUnique
        <2>3. ASSUME NEW c \in Clients, StoreSubmission(c) PROVE RowsUnique(disk')
            <3> DEFINE row == Submission(request[c].r, "edge")
            <3>1. \/ disk' = disk
                  \/ /\ disk' = [disk EXCEPT !.submissions = @ \cup {row}]
                     /\ \A s \in disk.submissions : s.nonce # row.nonce
                BY <2>3, RowAdded, Zenon
            <3> QED
                BY <2>1, <2>2, <3>1, Zenon
        <2>4. ASSUME NEW c \in Clients, LocalSubmission(c) PROVE RowsUnique(disk')
            <3>1. \E r : /\ disk' = [disk EXCEPT !.submissions = @ \cup {Submission(r, "local")}]
                         /\ \A s \in disk.submissions : s.nonce # Submission(r, "local").nonce
                BY <2>4, LocalRowAdded, Zenon
            <3> QED
                BY <2>2, <3>1, Zenon
        <2> QED
            BY <2>1, <2>3, <2>4, SubmissionForms, Zenon
    <1>5. FilesShaped(disk')
        BY <1>2, Zenon DEF Adds, ReceiptsHold, FilesShaped
    <1>6. \A a \in disk'.patches : PatchKept(disk', a)
        BY <1>1, <1>2, PatchStays, Zenon DEF Adds, ReceiptsHold
    <1>7. \A x \in receipts' : KeptOn(disk', x)
        BY <1>1, <1>2, ReceiptStays, Zenon DEF Adds, ReceiptsHold
    <1> QED
        BY <1>3, <1>4, <1>5, <1>6, <1>7, Zenon DEF ReceiptsHold

-----------------------------------------------------------------------------
(* Rates.                                                                  *)

\* A part of a finite set counts no more than the whole.
LEMMA CountedPart ==
    ASSUME NEW kind, IsFiniteSet(kind), NEW S, S \subseteq kind
    PROVE  IsFiniteSet(S) /\ Cardinality(S) \in Nat /\ Cardinality(S) <= Cardinality(kind)
    BY FS_Subset, FS_CardinalityType

\* The requests of a span can be counted.
LEMMA CountedSets ==
    ASSUME NEW kind, IsFiniteSet(kind), NEW log, NEW from, NEW to
    PROVE  /\ IsFiniteSet(During(log, kind, from, to)) /\ Cardinality(During(log, kind, from, to)) \in Nat
           /\ IsFiniteSet(Since(log, kind, from)) /\ Cardinality(Since(log, kind, from)) \in Nat
    <1>1. During(log, kind, from, to) \subseteq kind /\ Since(log, kind, from) \subseteq kind
        BY DEF During, Since
    <1> QED
        BY <1>1, CountedPart, Zenon

\* Time alone changes no budget.
LEMMA BudgetLater ==
    ASSUME NEW log, NEW kind, NEW began, NEW count, NEW length, NEW limit, NEW time \in Nat,
           BudgetHolds(log, kind, began, count, length, limit, time)
    PROVE  BudgetHolds(log, kind, began, count, length, limit, time + 1)
    BY DEF BudgetHolds

\* A window that is over gives way to an empty one: what it has counted is what came in the
\* span before.
LEMMA BudgetRolls ==
    ASSUME NEW log, NEW kind, NEW began, NEW count, NEW length \in Nat \ {0}, NEW limit \in Nat,
           NEW time \in Nat, BudgetHolds(log, kind, began, count, length, limit, time),
           time - began >= length
    PROVE  BudgetHolds(log, kind, time, 0, length, limit, time)
    <1>1. began \in Nat /\ \A i \in kind : log[i].at \in Nat /\ log[i].at < began + length
        BY DEF BudgetHolds
    <1>2. IsFiniteSet(kind)
        BY DEF BudgetHolds
    <1>3. Since(log, kind, time) = {}
        BY <1>1 DEF Since
    <1>4. Cardinality(Since(log, kind, time)) = 0
        BY <1>3, FS_EmptySet
    <1>5. ASSUME NEW u \in Nat, u + length > time
          PROVE  Cardinality(During(log, kind, u, time)) <= limit
        <2>1. During(log, kind, u, time) \subseteq Since(log, kind, began)
            BY <1>1, <1>5 DEF During, Since
        <2>2. Cardinality(During(log, kind, u, time)) <= Cardinality(Since(log, kind, began))
            BY <1>2, <2>1, CountedSets, CountedPart, Zenon
        <2>3. Cardinality(Since(log, kind, began)) <= limit
            BY Zenon DEF BudgetHolds
        <2> QED
            BY <1>2, <2>2, <2>3, CountedSets
    <1>6. \A i \in kind : log[i].at \in Nat /\ log[i].at <= time /\ log[i].at < time + length
        BY <1>1 DEF BudgetHolds
    <1>7. \A u \in Nat : Cardinality(During(log, kind, u, u + length)) <= 2 * limit
        BY Zenon DEF BudgetHolds
    <1>8. time <= time /\ 0 <= limit
        OBVIOUS
    <1> QED
        BY <1>2, <1>4, <1>5, <1>6, <1>7, <1>8, Zenon DEF BudgetHolds

\* A request of another kind changes nothing.
LEMMA BudgetSkips ==
    ASSUME NEW log, NEW kind, NEW began, NEW count, NEW length, NEW limit, NEW time,
           BudgetHolds(log, kind, began, count, length, limit, time),
           NEW more, \A i \in kind : more[i] = log[i]
    PROVE  BudgetHolds(more, kind, began, count, length, limit, time)
    <1>1. ASSUME NEW from, NEW to PROVE During(more, kind, from, to) = During(log, kind, from, to)
        BY DEF During
    <1>2. Since(more, kind, began) = Since(log, kind, began)
        BY DEF Since
    <1> QED
        BY <1>1, <1>2, Zenon DEF BudgetHolds

\* A request that is counted: a span with it in begins within the window, or reaches less
\* than a length before it.
LEMMA BudgetCounts ==
    ASSUME NEW log, NEW kind, NEW began, NEW count, NEW length \in Nat \ {0}, NEW limit \in Nat,
           NEW time \in Nat, BudgetHolds(log, kind, began, count, length, limit, time),
           time - began < length, count < limit,
           NEW more, NEW x, x \notin kind, \A i \in kind : more[i] = log[i], more[x].at = time
    PROVE  BudgetHolds(more, kind \cup {x}, began, count + 1, length, limit, time)
    <1> DEFINE all == kind \cup {x}
    <1>1. began \in Nat /\ began <= time /\ IsFiniteSet(kind)
        BY DEF BudgetHolds
    <1>2. IsFiniteSet(all)
        BY <1>1, FS_AddElement
    <1>3. \A i \in kind : more[i].at \in Nat /\ more[i].at <= time /\ more[i].at < began + length
        BY DEF BudgetHolds
    <1>4. \A i \in all : more[i].at \in Nat /\ more[i].at <= time /\ more[i].at < began + length
        BY <1>1, <1>3
    <1>5. Since(more, all, began) = Since(log, kind, began) \cup {x} /\ x \notin Since(log, kind, began)
        BY <1>1, SMTT(20) DEF Since
    <1>6. Cardinality(Since(more, all, began)) = count + 1 /\ count \in Nat
        <2>1. count = Cardinality(Since(log, kind, began))
            BY Zenon DEF BudgetHolds
        <2> QED
            BY <1>1, <1>5, <2>1, CountedSets, FS_AddElement, Zenon
    <1>7. ASSUME NEW u \in Nat, u + length > began
          PROVE  Cardinality(During(more, all, u, began)) <= limit
        <2>1. During(more, all, u, began) = During(log, kind, u, began)
            BY <1>1 DEF During
        <2>2. Cardinality(During(log, kind, u, began)) <= limit
            BY <1>7, Zenon DEF BudgetHolds
        <2> QED
            BY <2>1, <2>2
    <1>8. ASSUME NEW u \in Nat PROVE Cardinality(During(more, all, u, u + length)) <= 2 * limit
        <2>1. CASE ~(u <= time /\ time < u + length)
            <3>1. During(more, all, u, u + length) = During(log, kind, u, u + length)
                BY <2>1 DEF During
            <3>2. Cardinality(During(log, kind, u, u + length)) <= 2 * limit
                BY Zenon DEF BudgetHolds
            <3> QED
                BY <3>1, <3>2
        <2>2. CASE u <= time /\ time < u + length
            <3> DEFINE A == During(more, all, u, began)
                       B == Since(more, all, began)
            <3>1. During(more, all, u, u + length) \subseteq A \cup B
                BY <1>1, <1>4 DEF During, Since
            <3>2. u + length > began
                BY <1>1, <2>2
            <3>3. Cardinality(A) <= limit /\ Cardinality(B) <= limit
                BY <1>6, <1>7, <3>2, SMTT(20)
            <3>4. IsFiniteSet(A) /\ Cardinality(A) \in Nat /\ IsFiniteSet(B) /\ Cardinality(B) \in Nat
                BY <1>2, CountedSets, Zenon
            <3> HIDE DEF A, B
            <3>5. /\ IsFiniteSet(A \cup B) /\ IsFiniteSet(A \cap B)
                  /\ Cardinality(A \cup B) = Cardinality(A) + Cardinality(B) - Cardinality(A \cap B)
                BY <3>4, FS_Union, FS_Subset, SMTT(20)
            <3>6. Cardinality(A \cap B) \in Nat /\ Cardinality(A \cup B) \in Nat
                BY <3>5, FS_CardinalityType
            <3>7. /\ Cardinality(During(more, all, u, u + length)) \in Nat
                  /\ Cardinality(During(more, all, u, u + length)) <= Cardinality(A \cup B)
                BY <3>1, <3>5, CountedPart, Zenon
            <3> QED
                BY <3>3, <3>4, <3>5, <3>6, <3>7, SMTT(20)
        <2> QED
            BY <2>1, <2>2
    <1>9. count + 1 <= limit
        BY <1>6
    <1> HIDE DEF all
    <1>10. BudgetHolds(more, all, began, count + 1, length, limit, time)
        BY <1>1, <1>2, <1>4, <1>6, <1>7, <1>8, <1>9, Zenon DEF BudgetHolds
    <1> QED
        BY <1>10 DEF all

\* A new window has counted nothing.
LEMMA BudgetStarts ==
    ASSUME NEW length \in Nat, NEW limit \in Nat, NEW time \in Nat
    PROVE  BudgetHolds(<<>>, {}, time, 0, length, limit, time)
    <1>1. \A from, to : During(<<>>, {}, from, to) = {} /\ Since(<<>>, {}, from) = {}
        BY DEF During, Since
    <1>2. IsFiniteSet({}) /\ Cardinality({}) = 0
        BY FS_EmptySet
    <1>3. 0 <= limit /\ 0 <= 2 * limit /\ time <= time
        OBVIOUS
    <1> QED
        BY <1>1, <1>2, <1>3, Zenon DEF BudgetHolds

\* Only a check of the rates, the clock and a new process touch the budgets.
LEMMA RateForms ==
    ASSUME GateType, [Next]_vars
    PROVE  \/ counted' = counted /\ now' = now /\ edge'.windows = edge.windows
           \/ \E c \in Clients : CheckRate(c)
           \/ Tick
           \/ Crash
    <1>1. \/ counted' = counted /\ now' = now
          \/ \E c \in Clients : CheckRate(c)
          \/ Tick
          \/ Crash
        BY ZenonT(30) DEF Next, Middleware, Handler, Issue, Enter, Admit, ReceiveBody, Disconnect,
           IssueTask, AuthorizeSubmission, CheckSubmission, StoreSubmission, ContributeResult,
           ContributePatch, Read, AuthorizeBundle, ImportBundle, WriteArtifact, RenameArtifact,
           AbandonArtifact, BeginReceipt, FinishReceipt, FailReceipt, LocalSubmission, SyncImport,
           Answer, Refuse, vars
    <1>2. ASSUME NEW c \in Clients, Enter(c) PROVE edge'.windows = edge.windows
        BY <1>2, Zenon DEF Enter, GateType
    <1>3. ASSUME NEW c \in Clients, ReceiveBody(c) PROVE edge'.windows = edge.windows
        BY <1>3 DEF ReceiveBody, GateType
    <1>4. ASSUME NEW c \in Clients, Ends(c) PROVE edge'.windows = edge.windows
        BY <1>4, ReleasedType DEF Ends, GateType, EdgeType
    <1>5. ASSUME NEW c \in Clients, Issue(c) \/ Steps(c) PROVE edge'.windows = edge.windows
        BY <1>5 DEF Issue, Steps
    <1> QED
        BY <1>1, <1>2, <1>3, <1>4, <1>5, RequestForms, Zenon

\* The first look at the clock leaves every window under way.
LEMMA RolledHolds ==
    ASSUME NEW log, NEW kind, NEW began, NEW count, NEW length \in Nat \ {0}, NEW limit \in Nat,
           now \in Nat, BudgetHolds(log, kind, began, count, length, limit, now),
           NEW b, b = IF now - began >= length THEN now ELSE began,
           NEW n, n = IF now - began >= length THEN 0 ELSE count
    PROVE  BudgetHolds(log, kind, b, n, length, limit, now) /\ now - b < length
    <1>1. CASE now - began >= length
        <2>1. b = now /\ n = 0
            BY <1>1
        <2>2. BudgetHolds(log, kind, now, 0, length, limit, now)
            BY <1>1, BudgetRolls, Zenon
        <2> QED
            BY <2>1, <2>2
    <1>2. CASE ~(now - began >= length)
        <2>1. b = began /\ n = count
            BY <1>2
        <2>2. began \in Nat
            BY DEF BudgetHolds
        <2> QED
            BY <1>2, <2>1, <2>2
    <1> QED
        BY <1>1, <1>2

\* Rolling the windows keeps the budgets, and leaves every window younger than its length.
LEMMA RolledBudgets ==
    ASSUME GateType, Budgets(counted, edge.windows, now)
    PROVE  LET w == Rolled(edge.windows)
           IN  /\ Budgets(counted, w, now)
               /\ now - w.second_started < Second /\ now - w.minute_started < Minute
               /\ now - w.hour_started < Hour
    <1> DEFINE v == edge.windows
               w == Rolled(v)
               second == now - v.second_started >= Second
               minute == now - v.minute_started >= Minute
               hour == now - v.hour_started >= Hour
    <1>1. /\ w.second_started = (IF second THEN now ELSE v.second_started)
          /\ w.requests_this_second = (IF second THEN 0 ELSE v.requests_this_second)
          /\ w.minute_started = (IF minute THEN now ELSE v.minute_started)
          /\ w.writes_this_minute = (IF minute THEN 0 ELSE v.writes_this_minute)
          /\ w.hour_started = (IF hour THEN now ELSE v.hour_started)
          /\ w.volunteer_writes_this_hour = (IF hour THEN 0 ELSE v.volunteer_writes_this_hour)
        BY Zenon DEF Rolled
    <1>2. /\ now \in Nat /\ config.requests_per_second \in Nat /\ config.writes_per_minute \in Nat
          /\ config.volunteer_writes_per_hour \in Nat
          /\ Second \in Nat \ {0} /\ Minute \in Nat \ {0} /\ Hour \in Nat \ {0}
        BY Limits, DurationAssumption, Zenon DEF GateType
    <1> HIDE DEF w, v
    <1>3. /\ BudgetHolds(counted, DOMAIN counted, w.second_started, w.requests_this_second, Second,
                         config.requests_per_second, now)
          /\ now - w.second_started < Second
        <2>1. BudgetHolds(counted, DOMAIN counted, v.second_started, v.requests_this_second, Second,
                          config.requests_per_second, now)
            BY Zenon DEF Budgets, v
        <2> QED
            BY <1>1, <1>2, <2>1, RolledHolds, Zenon
    <1>4. /\ BudgetHolds(counted, Writes(counted), w.minute_started, w.writes_this_minute, Minute,
                         config.writes_per_minute, now)
          /\ now - w.minute_started < Minute
        <2>1. BudgetHolds(counted, Writes(counted), v.minute_started, v.writes_this_minute, Minute,
                          config.writes_per_minute, now)
            BY Zenon DEF Budgets, v
        <2> QED
            BY <1>1, <1>2, <2>1, RolledHolds, Zenon
    <1>5. /\ BudgetHolds(counted, Volunteered(counted), w.hour_started, w.volunteer_writes_this_hour,
                         Hour, config.volunteer_writes_per_hour, now)
          /\ now - w.hour_started < Hour
        <2>1. BudgetHolds(counted, Volunteered(counted), v.hour_started, v.volunteer_writes_this_hour,
                          Hour, config.volunteer_writes_per_hour, now)
            BY Zenon DEF Budgets, v
        <2> QED
            BY <1>1, <1>2, <2>1, RolledHolds, Zenon
    <1> QED
        BY <1>3, <1>4, <1>5, ZenonT(30) DEF Budgets, w, v

\* A budget with a request that may or may not be of its kind.
LEMMA BudgetTakes ==
    ASSUME NEW log \in Seq(Entry), NEW e \in Entry, NEW kind, kind \subseteq DOMAIN log,
           NEW began, NEW count \in Nat, NEW length \in Nat \ {0}, NEW limit \in Nat, NEW time \in Nat,
           BudgetHolds(log, kind, began, count, length, limit, time),
           time - began < length, e.at = time, NEW mine \in BOOLEAN, mine => count < limit,
           NEW after, after = IF mine THEN kind \cup {Len(log) + 1} ELSE kind,
           NEW n, n = count + (IF mine THEN 1 ELSE 0)
    PROVE  BudgetHolds(Append(log, e), after, began, n, length, limit, time)
    <1> DEFINE more == Append(log, e)
               x == Len(log) + 1
    <1>1. x \notin kind /\ more[x] = e /\ \A i \in kind : more[i] = log[i]
        BY SMTT(20)
    <1>2. more[x].at = time
        BY <1>1
    <1> HIDE DEF more, x
    <1>3. CASE mine
        <2>1. BudgetHolds(more, kind \cup {x}, began, count + 1, length, limit, time)
            BY <1>1, <1>2, <1>3, BudgetCounts, Zenon
        <2>2. after = kind \cup {x} /\ n = count + 1
            BY <1>3 DEF x
        <2> QED
            BY <2>1, <2>2, Zenon DEF more
    <1>4. CASE ~mine
        <2>1. BudgetHolds(more, kind, began, count, length, limit, time)
            BY <1>1, BudgetSkips, Zenon
        <2>2. after = kind /\ n = count
            BY <1>4
        <2> QED
            BY <2>1, <2>2 DEF more
    <1> QED
        BY <1>3, <1>4, SMTT(20)

\* Every step keeps the budgets: CheckRate counts before it lets a request on.
LEMMA RatesStep ==
    ASSUME GateType, RatesHold, [Next]_vars
    PROVE  RatesHold'
    <1>1. config' = config
        BY SameScenario DEF config
    <1>2. /\ now \in Nat /\ config.requests_per_second \in Nat /\ config.writes_per_minute \in Nat
          /\ config.volunteer_writes_per_hour \in Nat
          /\ Second \in Nat \ {0} /\ Minute \in Nat \ {0} /\ Hour \in Nat \ {0}
        BY Limits, DurationAssumption, Zenon DEF GateType
    <1>3. counted \in Seq(Entry) /\ Budgets(counted, edge.windows, now)
        BY DEF RatesHold
    <1>4. ASSUME counted' \in Seq(Entry), Budgets(counted', edge'.windows, now') PROVE RatesHold'
        <2>1. Budgets(counted', edge'.windows, now') => Budgets(counted, edge.windows, now)'
            BY <1>1, Zenon DEF Budgets
        <2> QED
            BY <1>4, <2>1, Zenon DEF RatesHold
    <1>5. ASSUME counted' = counted, now' = now, edge'.windows = edge.windows PROVE RatesHold'
        BY <1>3, <1>4, <1>5
    <1>6. ASSUME Tick PROVE RatesHold'
        <2>1. counted' = counted /\ now' = now + 1 /\ edge' = edge
            BY <1>6 DEF Tick
        <2>2. Budgets(counted, edge.windows, now + 1)
            BY <1>2, <1>3, BudgetLater, Zenon DEF Budgets
        <2> QED
            BY <1>3, <1>4, <2>1, <2>2
    <1>7. ASSUME Crash PROVE RatesHold'
        <2>1. counted' = <<>> /\ now' = now /\ edge' = PublicEdgePolicy(config, now)
            BY <1>7 DEF Crash
        <2>2. /\ edge'.windows.second_started = now /\ edge'.windows.requests_this_second = 0
              /\ edge'.windows.minute_started = now /\ edge'.windows.writes_this_minute = 0
              /\ edge'.windows.hour_started = now /\ edge'.windows.volunteer_writes_this_hour = 0
            BY <2>1 DEF PublicEdgePolicy
        <2>3. DOMAIN counted' = {} /\ Writes(counted') = {} /\ Volunteered(counted') = {}
            BY <2>1, SMTT(20) DEF Writes, Volunteered
        <2>4. Budgets(counted', edge'.windows, now')
            <3>1. /\ BudgetHolds(<<>>, {}, now, 0, Second, config.requests_per_second, now)
                  /\ BudgetHolds(<<>>, {}, now, 0, Minute, config.writes_per_minute, now)
                  /\ BudgetHolds(<<>>, {}, now, 0, Hour, config.volunteer_writes_per_hour, now)
                BY <1>2, BudgetStarts
            <3> QED
                BY <2>1, <2>2, <2>3, <3>1, Zenon DEF Budgets
        <2> QED
            BY <1>4, <2>1, <2>4
    <1>8. ASSUME NEW c \in Clients, CheckRate(c) PROVE RatesHold'
        <2> DEFINE w == Rolled(edge.windows)
                   r == request[c].r
                   One(counts) == IF counts THEN 1 ELSE 0
                   v == [w EXCEPT !.requests_this_second = @ + 1,
                                  !.writes_this_minute = @ + One(IsWrite(r)),
                                  !.volunteer_writes_this_hour = @ + One(IsVolunteerWrite(r))]
                   e == [at |-> now, write |-> IsWrite(r), volunteer |-> IsVolunteerWrite(r)]
                   more == Append(counted, e)
        <2>1. /\ Budgets(counted, w, now)
              /\ now - w.second_started < Second /\ now - w.minute_started < Minute
              /\ now - w.hour_started < Hour
            BY <1>3, RolledBudgets, Zenon
        <2>2. now' = now
            BY <1>8 DEF CheckRate
        <2>3. \/ RateAllows(w, r) /\ edge' = [edge EXCEPT !.windows = v] /\ counted' = more
              \/ edge' = [Released(edge, c) EXCEPT !.windows = w] /\ counted' = counted
            BY <1>8 DEF CheckRate
        <2>4. edge \in EdgeType /\ Released(edge, c) \in EdgeType
            BY ReleasedType DEF GateType, EdgeType
        <2>5. w \in RateWindows
            BY <1>2, <2>4, RolledType DEF EdgeType
        <2> HIDE DEF w
        <2>6. /\ v.second_started = w.second_started /\ v.minute_started = w.minute_started
              /\ v.hour_started = w.hour_started
              /\ v.requests_this_second = w.requests_this_second + 1
              /\ v.writes_this_minute = w.writes_this_minute + (IF IsWrite(r) THEN 1 ELSE 0)
              /\ v.volunteer_writes_this_hour =
                    w.volunteer_writes_this_hour + (IF IsVolunteerWrite(r) THEN 1 ELSE 0)
            BY <2>5 DEF RateWindows
        <2> HIDE DEF v
        <2>7. ASSUME edge' = [Released(edge, c) EXCEPT !.windows = w], counted' = counted PROVE RatesHold'
            <3>1. edge'.windows = w
                BY <2>4, <2>7 DEF EdgeType
            <3> QED
                BY <1>3, <1>4, <2>1, <2>2, <2>7, <3>1, SMTT(20)
        <2>8. ASSUME RateAllows(w, r), edge' = [edge EXCEPT !.windows = v], counted' = more
              PROVE  RatesHold'
            <3>1. edge'.windows = v
                BY <2>4, <2>8 DEF EdgeType
            <3>2. IsWrite(r) \in BOOLEAN /\ IsVolunteerWrite(r) \in BOOLEAN
                BY DEF IsWrite, IsVolunteerWrite
            <3>3. e \in Entry /\ e.at = now
                BY <1>2, <3>2, SMTT(20) DEF Entry
            <3>4. e.write = IsWrite(r) /\ e.volunteer = IsVolunteerWrite(r)
                OBVIOUS
            <3> HIDE DEF e
            <3>5. more \in Seq(Entry)
                BY <1>3, <3>3, SMTT(20)
            <3>6. /\ DOMAIN more = DOMAIN counted \cup {Len(counted) + 1}
                  /\ more[Len(counted) + 1] = e
                  /\ \A i \in DOMAIN counted : more[i] = counted[i]
                BY <1>3, <3>3
            <3>7. Len(counted) + 1 \notin DOMAIN counted
                BY <1>3
            <3> HIDE DEF more
            <3>8. Writes(more) = IF IsWrite(r) THEN Writes(counted) \cup {Len(counted) + 1}
                                 ELSE Writes(counted)
                <4>1. \A i \in DOMAIN more : more[i].write <=>
                            \/ i \in DOMAIN counted /\ counted[i].write
                            \/ i = Len(counted) + 1 /\ IsWrite(r)
                    BY <3>4, <3>6, <3>7, Zenon
                <4> QED
                    BY <3>6, <4>1, Zenon DEF Writes
            <3>9. Volunteered(more) = IF IsVolunteerWrite(r) THEN Volunteered(counted) \cup {Len(counted) + 1}
                                      ELSE Volunteered(counted)
                <4>1. \A i \in DOMAIN more : more[i].volunteer <=>
                            \/ i \in DOMAIN counted /\ counted[i].volunteer
                            \/ i = Len(counted) + 1 /\ IsVolunteerWrite(r)
                    BY <3>4, <3>6, <3>7, Zenon
                <4> QED
                    BY <3>6, <4>1, Zenon DEF Volunteered
            <3>10. /\ w.requests_this_second < config.requests_per_second
                   /\ IsWrite(r) => w.writes_this_minute < config.writes_per_minute
                   /\ IsVolunteerWrite(r) => w.volunteer_writes_this_hour < config.volunteer_writes_per_hour
                BY <2>8, Zenon DEF RateAllows
            <3>11. /\ w.requests_this_second \in Nat /\ w.writes_this_minute \in Nat
                   /\ w.volunteer_writes_this_hour \in Nat
                BY <2>5, SMTT(20) DEF RateWindows
            <3>12. BudgetHolds(more, DOMAIN more, v.second_started, v.requests_this_second, Second,
                               config.requests_per_second, now)
                <4>1. BudgetHolds(counted, DOMAIN counted, w.second_started, w.requests_this_second,
                                  Second, config.requests_per_second, now)
                    BY <2>1, Zenon DEF Budgets
                <4>2. DOMAIN more = IF TRUE THEN DOMAIN counted \cup {Len(counted) + 1} ELSE DOMAIN counted
                    BY <3>6
                <4>3. v.requests_this_second = w.requests_this_second + (IF TRUE THEN 1 ELSE 0)
                    BY <2>6
                <4>4. BudgetHolds(Append(counted, e), DOMAIN more, w.second_started,
                                  v.requests_this_second, Second, config.requests_per_second, now)
                    BY <1>2, <1>3, <2>1, <3>3, <3>10, <3>11, <4>1, <4>2, <4>3, BudgetTakes, Zenon
                <4> QED
                    BY <2>6, <4>4 DEF more
            <3>13. BudgetHolds(more, Writes(more), v.minute_started, v.writes_this_minute, Minute,
                               config.writes_per_minute, now)
                <4>1. BudgetHolds(counted, Writes(counted), w.minute_started, w.writes_this_minute,
                                  Minute, config.writes_per_minute, now)
                    BY <2>1, Zenon DEF Budgets
                <4>2. Writes(counted) \subseteq DOMAIN counted
                    BY DEF Writes
                <4>3. BudgetHolds(Append(counted, e), Writes(more), w.minute_started,
                                  v.writes_this_minute, Minute, config.writes_per_minute, now)
                    BY <1>2, <1>3, <2>1, <2>6, <3>2, <3>3, <3>8, <3>10, <3>11, <4>1, <4>2, BudgetTakes, Zenon
                <4> QED
                    BY <2>6, <4>3 DEF more
            <3>14. BudgetHolds(more, Volunteered(more), v.hour_started, v.volunteer_writes_this_hour,
                               Hour, config.volunteer_writes_per_hour, now)
                <4>1. BudgetHolds(counted, Volunteered(counted), w.hour_started,
                                  w.volunteer_writes_this_hour, Hour,
                                  config.volunteer_writes_per_hour, now)
                    BY <2>1, Zenon DEF Budgets
                <4>2. Volunteered(counted) \subseteq DOMAIN counted
                    BY DEF Volunteered
                <4>3. BudgetHolds(Append(counted, e), Volunteered(more), w.hour_started,
                                  v.volunteer_writes_this_hour, Hour,
                                  config.volunteer_writes_per_hour, now)
                    BY <1>2, <1>3, <2>1, <2>6, <3>2, <3>3, <3>9, <3>10, <3>11, <4>1, <4>2, BudgetTakes, Zenon
                <4> QED
                    BY <2>6, <4>3 DEF more
            <3>15. Budgets(more, v, now)
                BY <3>12, <3>13, <3>14, Zenon DEF Budgets
            <3> QED
                BY <1>4, <2>2, <2>8, <3>1, <3>5, <3>15, SMTT(20)
        <2> QED
            BY <2>3, <2>7, <2>8
    <1> QED
        BY <1>5, <1>6, <1>7, <1>8, RateForms, Zenon

-----------------------------------------------------------------------------
(* The invariant and the properties.                                       *)

\* A fresh node has promised nothing.
LEMMA GateInit ==
    ASSUME Init
    PROVE  GateInv
    <1>1. scenario \in Scenarios /\ now = 0 /\ edge = PublicEdgePolicy(config, 0)
        BY DEF Init, config
    <1>2. request = [c \in Clients |-> Idle] /\ receipts = {} /\ counted = <<>>
        BY SMTT(20) DEF Init
    <1>3. disk = [submissions |-> {}, open |-> scenario.work, origins |-> {}, artifacts |-> {},
                  temporaries |-> 0, receipt_files |-> {}, patches |-> {}]
        BY DEF Init
    <1>4. /\ disk.submissions = {} /\ disk.origins = {} /\ disk.artifacts = {}
          /\ disk.temporaries = 0 /\ disk.receipt_files = {} /\ disk.patches = {}
        BY <1>3
    <1>5. \A c \in Clients : request[c] = Idle /\ request[c].phase = "idle"
        BY <1>2 DEF Idle
    <1>6. IsFiniteSet({}) /\ Cardinality({}) = 0
        BY FS_EmptySet
    <1>7. GateType
        <2>1. request = [c \in Clients |-> request[c]] /\ \A c \in Clients : Shaped(request[c])
            BY <1>2, <1>5 DEF Shaped
        <2>2. edge \in [concurrency : Nat, federation_concurrency : Int, windows : RateWindows,
                        federation_admission : Seq(Clients), volunteer_admission : Seq(Clients)]
            BY <1>1, PolicyType, SMTT(20)
        <2>3. disk = [submissions |-> disk.submissions, open |-> disk.open, origins |-> disk.origins,
                      artifacts |-> disk.artifacts, temporaries |-> disk.temporaries,
                      receipt_files |-> disk.receipt_files, patches |-> disk.patches]
            BY <1>3
        <2> QED
            BY <1>1, <2>1, <2>2, <2>3, SMTT(20) DEF GateType
    <1>8. Guarded
        BY <1>5 DEF Guarded
    <1>9. Holders = {} /\ Uploads = {}
        BY <1>5, SMTT(20) DEF Holders, Uploads, Held
    <1>10. PermitsReturn
        BY <1>1, <1>6, <1>9, Limits, SMTT(20) DEF PermitsReturn, PublicEdgePolicy
    <1>11. StorageHolds
        BY <1>1, <1>4, <1>6, <1>9, Limits, SMTT(20) DEF StorageHolds, Stored
    <1>12. IntakeHolds
        <2>1. EdgeRows(disk.submissions) = {}
            BY <1>4, Zenon DEF EdgeRows
        <2> QED
            BY <1>1, <1>4, <1>5, <1>6, <2>1, Limits, SMTT(20) DEF IntakeHolds
    <1>13. OriginsHold
        <2>1. Origins = {} /\ Admitted = {}
            BY <1>4, Zenon DEF Origins, Admitted
        <2> QED
            BY <1>1, <1>4, <1>5, <1>6, <2>1, Limits, SMTT(20) DEF OriginsHold
    <1>14. ReceiptsHold
        BY <1>2, <1>4, <1>5 DEF ReceiptsHold, RowsUnique, FilesShaped
    <1>15. RatesHold
        <2>1. /\ edge.windows.second_started = 0 /\ edge.windows.requests_this_second = 0
              /\ edge.windows.minute_started = 0 /\ edge.windows.writes_this_minute = 0
              /\ edge.windows.hour_started = 0 /\ edge.windows.volunteer_writes_this_hour = 0
            BY <1>1 DEF PublicEdgePolicy
        <2>2. DOMAIN counted = {} /\ Writes(counted) = {} /\ Volunteered(counted) = {}
            BY <1>2, SMTT(20) DEF Writes, Volunteered
        <2>3. /\ BudgetHolds(<<>>, {}, 0, 0, Second, config.requests_per_second, 0)
              /\ BudgetHolds(<<>>, {}, 0, 0, Minute, config.writes_per_minute, 0)
              /\ BudgetHolds(<<>>, {}, 0, 0, Hour, config.volunteer_writes_per_hour, 0)
            BY <1>1, Limits, DurationAssumption, BudgetStarts, Zenon
        <2>4. Budgets(counted, edge.windows, now)
            BY <1>1, <1>2, <2>1, <2>2, <2>3, ZenonT(30) DEF Budgets
        <2> QED
            BY <1>2, <2>4, SMTT(20) DEF RatesHold
    <1> QED
        BY <1>7, <1>8, <1>10, <1>11, <1>12, <1>13, <1>14, <1>15, Zenon DEF GateInv

\* Every step keeps every part.
LEMMA GateStep ==
    ASSUME GateInv, [Next]_vars
    PROVE  GateInv'
    <1> USE DEF GateInv
    <1>1. GateType' /\ Guarded' /\ PermitsReturn'
        BY GateTypeStep, GuardedStep, PermitsStep
    <1>2. StorageHolds' /\ IntakeHolds' /\ OriginsHold'
        BY <1>1, StorageStep, IntakeStep, OriginsStep, Zenon
    <1>3. ReceiptsHold' /\ RatesHold'
        BY <1>2, ReceiptsStep, RatesStep
    <1> QED
        BY <1>1, <1>2, <1>3

\* The inductive invariant of the public edge: a handler that has checked a limit is at
\* the head of the mutex that protects it, so that nobody else of the edge takes the place
\* before it writes; permits and held requests add up; bytes on disk and uploads in flight
\* add up; each window has counted what came since it began.
THEOREM GateInvariant == Spec => []GateInv
    <1>1. Init => GateInv
        BY GateInit
    <1>2. GateInv /\ [Next]_vars => GateInv'
        BY GateStep
    <1> QED
        BY <1>1, <1>2, PTL DEF Spec

\* No interleaving takes the edge over a limit: accepted results, admitted origins, events
\* of an origin, permits, and storage up to one artifact per permit.
THEOREM LimitsAlwaysHold == Spec => []LimitsHold
    <1>1. ASSUME GateInv PROVE LimitsHold
        <2>1. GateType /\ PermitsReturn /\ StorageHolds /\ IntakeHolds /\ OriginsHold
            BY <1>1 DEF GateInv
        <2>2. {c \in InFlight : ~Phase(c, "arrived")} = Holders
            <3>1. \A c \in Clients : request[c].phase \in Held \cup {"arrived", "idle"}
                BY <2>1 DEF GateType, Shaped, Idle
            <3> QED
                BY <3>1, SMTT(20) DEF InFlight, Phase, Holders, Held
        <2>3. edge.concurrency =
                config.max_concurrency - Cardinality({c \in InFlight : ~Phase(c, "arrived")})
            BY <2>1, <2>2 DEF PermitsReturn
        <2>4. Stored <= config.max_storage + config.max_concurrency - 1
            <3>1. Cardinality(Uploads) \in Nat
                BY ClientSets DEF Uploads
            <3>2. Stored \in Int
                BY <2>1, FS_CardinalityType, SMTT(20) DEF StorageHolds, Stored
            <3>3. config.max_storage \in Nat /\ config.max_concurrency \in Nat
                BY <2>1, Limits, SMTT(20) DEF GateType
            <3>4. Stored + Cardinality(Uploads) <= config.max_storage + config.max_concurrency - 1
                BY <2>1 DEF StorageHolds
            <3> HIDE DEF Stored
            <3> QED
                BY <3>1, <3>2, <3>3, <3>4, SMTT(20)
        <2>5. Cardinality({s \in disk.submissions : s.via = "edge"}) <= config.max_volunteer_submissions
            BY <2>1 DEF IntakeHolds, EdgeRows
        <2>6. /\ Cardinality(Admitted) <= config.max_origins
              /\ \A p \in disk.origins : p.published <= config.max_origin_events
            BY <2>1, SMTT(20) DEF OriginsHold, OriginRow
        <2> QED
            BY <2>3, <2>4, <2>5, <2>6 DEF LimitsHold
    <1> QED
        BY <1>1, GateInvariant, PTL

\* Whatever span of a budget's length is taken, at most twice its limit was let through.
THEOREM RatesAlwaysBounded == Spec => []RatesAreBounded
    <1>1. ASSUME GateInv PROVE RatesAreBounded
        <2>1. Budgets(counted, edge.windows, now) /\ now \in Nat
            BY <1>1 DEF GateInv, RatesHold, GateType
        <2>2. SUFFICES ASSUME NEW t \in 0 .. now
              PROVE  /\ Within(t, Second, LAMBDA x : TRUE) <= 2 * config.requests_per_second
                     /\ Within(t, Minute, LAMBDA x : x.write) <= 2 * config.writes_per_minute
                     /\ Within(t, Hour, LAMBDA x : x.volunteer) <= 2 * config.volunteer_writes_per_hour
            BY DEF RatesAreBounded
        <2>3. t \in Nat
            BY <2>1
        <2>4. /\ Cardinality(During(counted, DOMAIN counted, t, t + Second)) <= 2 * config.requests_per_second
              /\ Cardinality(During(counted, Writes(counted), t, t + Minute)) <= 2 * config.writes_per_minute
              /\ Cardinality(During(counted, Volunteered(counted), t, t + Hour))
                    <= 2 * config.volunteer_writes_per_hour
            BY <2>1, <2>3, ZenonT(30) DEF Budgets, BudgetHolds
        <2>5. During(counted, DOMAIN counted, t, t + Second) =
                {i \in DOMAIN counted : /\ t <= counted[i].at /\ counted[i].at < t + Second /\ TRUE}
            BY DEF During
        <2>6. During(counted, Writes(counted), t, t + Minute) =
                {i \in DOMAIN counted : /\ t <= counted[i].at /\ counted[i].at < t + Minute
                                        /\ counted[i].write}
            BY Zenon DEF During, Writes
        <2>7. During(counted, Volunteered(counted), t, t + Hour) =
                {i \in DOMAIN counted : /\ t <= counted[i].at /\ counted[i].at < t + Hour
                                        /\ counted[i].volunteer}
            BY Zenon DEF During, Volunteered
        <2> QED
            BY <2>4, <2>5, <2>6, <2>7, Zenon DEF Within
    <1> QED
        BY <1>1, GateInvariant, PTL

\* What the node has signed for it keeps, over retries, racing requests and crashes.
THEOREM ReceiptsAlwaysKept == Spec => []ReceiptsAreKept
    <1>1. ASSUME GateInv PROVE ReceiptsAreKept
        <2>1. ReceiptsHold
            BY <1>1 DEF GateInv
        <2>2. ASSUME NEW a \in disk.patches PROVE \E f \in FilesOf(a) : f.whole /\ a \in disk.artifacts
            <3>1. PICK file : a \in disk.artifacts /\ file.artifact = a
                              /\ [file |-> file, whole |-> TRUE] \in disk.receipt_files
                BY <2>1, <2>2, Zenon DEF ReceiptsHold, PatchKept, HasFile
            <3>2. [file |-> file, whole |-> TRUE] \in FilesOf(a)
                BY <3>1, SMTT(20) DEF FilesOf
            <3> QED
                BY <3>1, <3>2
        <2>3. ASSUME NEW x \in receipts, x.of = "submission"
              PROVE  /\ \E s \in disk.submissions : VolunteerReceipt(s) = x
                     /\ \A y \in receipts : y.of = "submission" /\ y.nonce = x.nonce => y = x
            <3>1. \A y \in receipts : y.of = "submission" =>
                        \E s \in disk.submissions : VolunteerReceipt(s) = y
                BY <2>1 DEF ReceiptsHold, KeptOn
            <3>2. \A s : VolunteerReceipt(s).nonce = s.nonce
                BY Zenon DEF VolunteerReceipt
            <3>3. \A s, t \in disk.submissions : s.nonce = t.nonce => s = t
                BY <2>1 DEF ReceiptsHold, RowsUnique
            <3>4. ASSUME NEW y \in receipts, y.of = "submission", y.nonce = x.nonce PROVE y = x
                <4>1. PICK s \in disk.submissions : VolunteerReceipt(s) = x
                    BY <2>3, <3>1
                <4>2. PICK t \in disk.submissions : VolunteerReceipt(t) = y
                    BY <3>1, <3>4
                <4>3. s.nonce = x.nonce /\ t.nonce = y.nonce
                    BY <3>2, <4>1, <4>2, Zenon
                <4> QED
                    BY <3>3, <3>4, <4>1, <4>2, <4>3, Zenon
            <3> QED
                BY <2>3, <3>1, <3>4, Zenon
        <2>4. ASSUME NEW x \in receipts, x.of = "bundle"
              PROVE  \E p \in disk.origins : p.origin = x.origin /\ p.cursor >= x.cursor
            BY <2>1, <2>4, Zenon DEF ReceiptsHold, KeptOn
        <2>5. ASSUME NEW x \in receipts, x.of = "artifact"
              PROVE  /\ x.file.artifact \in disk.artifacts
                     /\ [file |-> x.file, whole |-> TRUE] \in disk.receipt_files
            BY <2>1, <2>5, Zenon DEF ReceiptsHold, KeptOn, HasFile
        <2>6. \A x \in receipts : x.of \in {"submission", "bundle", "artifact"}
            BY <2>1 DEF ReceiptsHold, KeptOn
        <2> QED
            BY <2>2, <2>3, <2>4, <2>5, <2>6, Zenon DEF ReceiptsAreKept
    <1> QED
        BY <1>1, GateInvariant, PTL

=============================================================================
