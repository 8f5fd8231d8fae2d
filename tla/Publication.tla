---------------------------- MODULE Publication ----------------------------
(***************************************************************************)
(* Outbound publication: one origin pushes pages of its log to endpoints   *)
(* its operator chose, and keeps the receipts the relays sign              *)
(* (src/publication.rs, the publication_targets table of src/db.rs,        *)
(* publish_federation_bundle in src/api.rs).                               *)
(*                                                                         *)
(* A page is built, imported by the relay and recorded by the origin in    *)
(* three steps that nothing holds together: the response may be lost, the  *)
(* process may die, and the publish loop and a command may publish to one  *)
(* endpoint at the same time.                                              *)
(*                                                                         *)
(* Abstractions.  Time is two flags per target: waiting, until             *)
(* next_attempt_at, and recent, for 24 hours after last_success_at.  The   *)
(* failure count only sets the length of the wait.  A receipt is the relay *)
(* that signed it and the checkpoint it names; the stored receipt always   *)
(* is the pinned relay with the acknowledged checkpoint.                   *)
(***************************************************************************)
EXTENDS Federation

CONSTANTS
    Origin,
    Endpoints,
    Publishers,     \* "loop", and commands that publish once
    NULL,           \* no relay is pinned yet
    BatchSize,
    MaxPages,
    MaxFaults,      \* bound on lost requests and responses, and on crashes
    MaxMoves,       \* bound on endpoints that come to answer as another relay
    DesiredChoices  \* values the operator may set desired_replicas to

ASSUME PublicationAssumption ==
    /\ IsFiniteSet(Nodes)
    /\ Origin \in Nodes
    /\ NULL \notin Nodes
    /\ Endpoints # {}
    /\ BatchSize \in 1 .. MAX_FEDERATION_EVENTS
    /\ MaxPages \in Nat \ {0}
    /\ MaxFaults \in Nat /\ MaxMoves \in Nat
    /\ DesiredChoices \subseteq 1 .. 16

Relays == Nodes \ {Origin}

VARIABLES
    publication_targets,
    desired_replicas,
    replication_work,   \* status of the replicate_origin work item
    due,                \* endpoints publish_loop still has to visit in this tick
    publisher,          \* per publisher: where its run of publish_origin stands
    backing,            \* the relay that answers at an endpoint
    faults,
    moves

pvars == <<publication_targets, desired_replicas, replication_work>>
evars == <<backing, faults, moves>>
rvars == <<due, publisher>>
vars == <<fvars, pvars, rvars, evars>>

Target == [configured : BOOLEAN, relay_node_id : Relays \cup {NULL}, acknowledged : Chain,
           waiting : BOOLEAN, recent : BOOLEAN]
NoTarget == [configured |-> FALSE, relay_node_id |-> NULL, acknowledged |-> <<>>,
             waiting |-> FALSE, recent |-> FALSE]

\* page is the acknowledged head while phase is "begun", then the checkpoint of
\* the page under way; relay is who answered for it.
Run == [phase : {"idle", "begun", "ready", "posted", "answered", "failed"},
        endpoint : Endpoints, cursor : Nat, snapshot_cursor : Nat, pages : 0 .. MaxPages - 1,
        page : Chain, relay : Relays \cup {NULL}]
IdleRun == [phase |-> "idle", endpoint |-> CHOOSE e \in Endpoints : TRUE, cursor |-> 0,
            snapshot_cursor |-> 0, pages |-> 0, page |-> <<>>, relay |-> NULL]

TypeOK ==
    /\ FedTypeOK
    /\ publication_targets \in [Endpoints -> Target]
    /\ desired_replicas \in 1 .. 16
    /\ replication_work \in {"none", "open", "complete"}
    /\ due \subseteq Endpoints
    /\ publisher \in [Publishers -> Run]
    /\ backing \in [Endpoints -> Relays]
    /\ faults \in 0 .. MaxFaults
    /\ moves \in 0 .. MaxMoves

Init ==
    /\ FedInit
    /\ publication_targets = [e \in Endpoints |-> NoTarget]
    /\ desired_replicas = 2
    /\ replication_work = "none"
    /\ due = {}
    /\ publisher = [p \in Publishers |-> IdleRun]
    /\ backing \in [Endpoints -> Relays]
    /\ faults = 0
    /\ moves = 0

-----------------------------------------------------------------------------
(* replication_health and the work item that follows from it.              *)

at_current_head(targets, e) ==
    targets[e].relay_node_id # NULL /\ targets[e].acknowledged = log[Origin]

\* Relays are counted by identity: two endpoints of one relay count once.
confirmed_current_replicas(targets) ==
    {targets[e].relay_node_id : e \in {f \in Endpoints : at_current_head(targets, f)}}

\* Faulty: endpoints are counted, not relays.
RecentEndpoints(targets) ==
    {e \in Endpoints : at_current_head(targets, e) /\ targets[e].recent}

recently_reconfirmed(targets) ==
    {targets[e].relay_node_id :
        e \in {f \in Endpoints : at_current_head(targets, f) /\ targets[f].recent}}

status ==
    LET recent == Cardinality(recently_reconfirmed(publication_targets))
    IN  CASE \A e \in Endpoints : ~ publication_targets[e].configured -> "unconfigured"
          [] recent >= desired_replicas -> "replicated"
          [] recent = 0 -> "unreplicated"
          [] OTHER -> "degraded"

refresh_replication_work(targets, desired) ==
    replication_work' =
        IF Cardinality(recently_reconfirmed(targets)) >= desired THEN "complete" ELSE "open"

\* Every write of a target refreshes the work item under the same lock.
SetTarget(e, target) ==
    LET targets == [publication_targets EXCEPT ![e] = target]
    IN  /\ publication_targets' = targets
        /\ refresh_replication_work(targets, desired_replicas)
        /\ UNCHANGED desired_replicas

\* INSERT OR IGNORE: a row that is there stays as it is.
configure_publication_target(e) ==
    SetTarget(e, [publication_targets[e] EXCEPT !.configured = TRUE])

\* Faulty: the copy at the origin is counted in.
SetDesiredBesidesOwn(n) ==
    /\ desired_replicas' = n - 1
    /\ refresh_replication_work(publication_targets, n - 1)
    /\ UNCHANGED <<fvars, publication_targets, rvars, evars>>

set_desired_replicas(n) ==
    /\ desired_replicas' = n
    /\ refresh_replication_work(publication_targets, n)
    /\ UNCHANGED <<fvars, publication_targets, rvars, evars>>

work_page ==
    /\ refresh_replication_work(publication_targets, desired_replicas)
    /\ UNCHANGED <<fvars, publication_targets, desired_replicas, rvars, evars>>

\* The operator names a target without publishing to it.
ConfigureOnly(e) ==
    /\ configure_publication_target(e)
    /\ UNCHANGED <<fvars, rvars, evars>>

-----------------------------------------------------------------------------
(* publish_origin.                                                         *)

SetRun(p, run) == publisher' = [publisher EXCEPT ![p] = run]

\* publish_loop takes the list of targets once per tick.  A command may record a
\* failure after that, and the loop then does not wait for it.
LoopTick ==
    /\ publisher["loop"].phase = "idle"
    /\ due = {}
    /\ due' = {e \in Endpoints :
                 publication_targets[e].configured /\ ~ publication_targets[e].waiting}
    /\ UNCHANGED <<fvars, pvars, publisher, evars>>

\* publish_origin configures its endpoint, then reads the target.
Begin(p, e) ==
    /\ publisher[p].phase = "idle"
    /\ p = "loop" => e \in due
    /\ due' = IF p = "loop" THEN due \ {e} ELSE due
    /\ configure_publication_target(e)
    /\ SetRun(p, [IdleRun EXCEPT !.phase = "begun",
                                 !.endpoint = e,
                                 !.cursor = Len(publication_targets[e].acknowledged),
                                 !.page = publication_targets[e].acknowledged])
    /\ UNCHANGED <<fvars, evars>>

\* The head is read under a lock of its own, and compared with the target.
CheckHead(p) ==
    LET run == publisher[p]
        head == Len(log[Origin])
    IN  /\ run.phase = "begun"
        /\ SetRun(p, [run EXCEPT
                        !.phase = IF run.cursor <= head /\ Prefix(log[Origin], run.cursor) = run.page
                                  THEN "ready" ELSE "failed",
                        !.snapshot_cursor = head])
        /\ UNCHANGED <<fvars, pvars, due, evars>>

\* Faulty: the last event of every page is cut off.
PageEndShort(cursor) ==
    IF cursor + BatchSize - 1 < Len(log[Origin])
    THEN cursor + BatchSize - 1 ELSE Len(log[Origin])

PageEnd(cursor) ==
    IF cursor + BatchSize < Len(log[Origin]) THEN cursor + BatchSize ELSE Len(log[Origin])

\* federation_bundle, and the request is on its way.
SendPage(p) ==
    /\ publisher[p].phase = "ready"
    /\ SetRun(p, [publisher[p] EXCEPT !.phase = "posted",
                                      !.page = Prefix(log[Origin], PageEnd(publisher[p].cursor))])
    /\ UNCHANGED <<fvars, pvars, due, evars>>

Posted(p) == Bundle(Origin, publisher[p].cursor, publisher[p].page)

\* Faulty: the relay signs before it has imported.
RelaySignsUnread(p) ==
    /\ publisher[p].phase = "posted"
    /\ SetRun(p, [publisher[p] EXCEPT !.phase = "answered",
                                      !.relay = backing[publisher[p].endpoint]])
    /\ UNCHANGED <<fvars, pvars, due, evars>>

\* The relay's publish_federation_bundle: it imports the page and signs a receipt
\* for the page's checkpoint, or answers with an error.
RelayImports(p) ==
    LET relay == backing[publisher[p].endpoint]
        b == Posted(p)
    IN  /\ publisher[p].phase = "posted"
        /\ \/ /\ verify_bundle(b)
              /\ import_federation_bundle(relay, b)
              /\ SetRun(p, [publisher[p] EXCEPT !.phase = "answered", !.relay = relay])
           \/ /\ verify_bundle(b)
              /\ record_equivocation(relay, b)
              /\ SetRun(p, [publisher[p] EXCEPT !.phase = "failed"])
           \/ /\ \/ ~ verify_bundle(b)
                 \/ ~ Contiguous(relay, b)
                 \/ ~ Conflicts(relay, b) /\ Refused(relay, b)
              /\ SetRun(p, [publisher[p] EXCEPT !.phase = "failed"])
              /\ UNCHANGED fvars
        /\ UNCHANGED <<pvars, due, evars>>

\* The request is lost, or refused by the relay's admission policy, before the
\* import, or the response after it.
LoseMessage(p) ==
    /\ publisher[p].phase \in {"posted", "answered"}
    /\ faults < MaxFaults
    /\ faults' = faults + 1
    /\ SetRun(p, [publisher[p] EXCEPT !.phase = "failed"])
    /\ UNCHANGED <<fvars, pvars, due, backing, moves>>

\* Faulty: a late receipt may take back a newer one.
ReceiptOfAnyAge(p) ==
    /\ publication_targets[publisher[p].endpoint].configured
    /\ publication_targets[publisher[p].endpoint].relay_node_id \in {NULL, publisher[p].relay}

\* record_publication_success: the receipt must name the own chain, the pinned
\* relay, and nothing before the acknowledged head.
ReceiptAdmissible(p) ==
    LET target == publication_targets[publisher[p].endpoint]
        page == publisher[p].page
    IN  /\ target.configured
        /\ Len(page) <= Len(log[Origin])
        /\ Prefix(log[Origin], Len(page)) = page
        /\ target.relay_node_id \in {NULL, publisher[p].relay}
        /\ Len(page) >= Len(target.acknowledged)
        /\ Len(page) = Len(target.acknowledged) => page = target.acknowledged

\* The run ends at the snapshot, after an empty page, or after its last page.
NextPage(p) ==
    LET run == publisher[p]
    IN  IF \/ Len(run.page) >= run.snapshot_cursor
           \/ Len(run.page) = run.cursor
           \/ run.pages + 1 >= MaxPages
        THEN IdleRun
        ELSE [run EXCEPT !.phase = "ready", !.cursor = Len(run.page), !.pages = @ + 1]

\* Faulty: the target is moved to the relay's current_cursor, not to the receipt's
\* checkpoint.
RecordCurrentCursor(p) ==
    LET e == publisher[p].endpoint
    IN  /\ publisher[p].phase = "answered"
        /\ \/ /\ ReceiptAdmissible(p)
              /\ SetTarget(e, [configured |-> TRUE,
                               relay_node_id |-> publisher[p].relay,
                               acknowledged |-> remote_events[publisher[p].relay][Origin],
                               waiting |-> FALSE, recent |-> TRUE])
              /\ SetRun(p, NextPage(p))
           \/ /\ ~ ReceiptAdmissible(p)
              /\ SetRun(p, [publisher[p] EXCEPT !.phase = "failed"])
              /\ UNCHANGED pvars
        /\ UNCHANGED <<fvars, due, evars>>

record_publication_success(p) ==
    LET e == publisher[p].endpoint
    IN  /\ publisher[p].phase = "answered"
        /\ \/ /\ ReceiptAdmissible(p)
              /\ SetTarget(e, [configured |-> TRUE,
                               relay_node_id |-> publisher[p].relay,
                               acknowledged |-> publisher[p].page,
                               waiting |-> FALSE, recent |-> TRUE])
              /\ SetRun(p, NextPage(p))
           \/ /\ ~ ReceiptAdmissible(p)
              /\ SetRun(p, [publisher[p] EXCEPT !.phase = "failed"])
              /\ UNCHANGED pvars
        /\ UNCHANGED <<fvars, due, evars>>

\* record_publication_failure changes the retry columns alone.
record_publication_failure(p) ==
    LET e == publisher[p].endpoint
    IN  /\ publisher[p].phase = "failed"
        /\ IF publication_targets[e].configured
           THEN SetTarget(e, [publication_targets[e] EXCEPT !.waiting = TRUE])
           ELSE UNCHANGED pvars
        /\ SetRun(p, IdleRun)
        /\ UNCHANGED <<fvars, due, evars>>

\* The process dies: what was committed stays, here and at the relay.
Crash ==
    /\ faults < MaxFaults
    /\ faults' = faults + 1
    /\ due' = {}
    /\ publisher' = [p \in Publishers |-> IdleRun]
    /\ UNCHANGED <<fvars, pvars, backing, moves>>

-----------------------------------------------------------------------------
(* The environment.                                                        *)

BackoffPasses(e) ==
    /\ publication_targets[e].waiting
    /\ publication_targets' = [publication_targets EXCEPT ![e].waiting = FALSE]
    /\ UNCHANGED <<fvars, desired_replicas, replication_work, rvars, evars>>

DayPasses ==
    /\ publication_targets' = [e \in Endpoints |-> [publication_targets[e] EXCEPT !.recent = FALSE]]
    /\ UNCHANGED <<fvars, desired_replicas, replication_work, rvars, evars>>

\* Another node comes to answer at an endpoint.
MoveEndpoint(e, relay) ==
    /\ moves < MaxMoves
    /\ moves' = moves + 1
    /\ backing' = [backing EXCEPT ![e] = relay]
    /\ UNCHANGED <<fvars, pvars, rvars, faults>>

\* The origin's tables go with its log; a relay's with its own.
Restart(n) ==
    /\ LoseDatabase(n)
    /\ IF n = Origin
       THEN /\ publication_targets' = [e \in Endpoints |-> NoTarget]
            /\ desired_replicas' = 2
            /\ replication_work' = "none"
            /\ due' = {}
            /\ publisher' = [p \in Publishers |-> IdleRun]
       ELSE UNCHANGED <<pvars, rvars>>
    /\ UNCHANGED evars

Next ==
    \/ \E e \in Endpoints : ConfigureOnly(e) \/ BackoffPasses(e)
    \/ LoopTick
    \/ \E n \in DesiredChoices : set_desired_replicas(n)
    \/ work_page
    \/ \E p \in Publishers :
          \/ \E e \in Endpoints : Begin(p, e)
          \/ CheckHead(p)
          \/ SendPage(p)
          \/ RelayImports(p)
          \/ LoseMessage(p)
          \/ record_publication_success(p)
          \/ record_publication_failure(p)
    \/ Crash
    \/ DayPasses
    \/ \E e \in Endpoints, relay \in Relays : MoveEndpoint(e, relay)
    \/ \E kind \in ContentKinds : Author(Origin, kind) /\ UNCHANGED <<pvars, rvars, evars>>
    \/ \E n \in Nodes : Restart(n)

\* publish_loop ticks for ever and visits what its list holds; each request ends,
\* and waits run out.
Fairness ==
    /\ WF_vars(LoopTick)
    /\ WF_vars(\E e \in Endpoints : Begin("loop", e))
    /\ \A e \in Endpoints : WF_vars(BackoffPasses(e))
    /\ \A p \in Publishers :
          /\ WF_vars(CheckHead(p))
          /\ WF_vars(SendPage(p))
          /\ WF_vars(RelayImports(p))
          /\ WF_vars(record_publication_success(p))
          /\ WF_vars(record_publication_failure(p))

Spec == Init /\ [][Next]_vars /\ Fairness

-----------------------------------------------------------------------------
(* Properties.                                                             *)

Holds(r, c) ==
    /\ Len(c) <= Len(remote_events[r][Origin])
    /\ Prefix(remote_events[r][Origin], Len(c)) = c

\* A receipt is true: the relay pinned at an endpoint holds the acknowledged
\* range, unless it has lost its database.  No lost response, crash, concurrent
\* publisher or change of relay makes the origin believe more.
AcknowledgedIsRetained ==
    \A e \in Endpoints :
        LET target == publication_targets[e]
        IN  target.relay_node_id # NULL /\ life[target.relay_node_id] = 0 =>
                /\ Holds(target.relay_node_id, target.acknowledged)
                /\ target.acknowledged \in remote_checkpoints[target.relay_node_id][Origin]

\* Publication state stays on the origin's own chain, so that the two conflict
\* checks at the start of a run never fire: also when an origin that lost its
\* database publishes to a relay that still holds more than it has.
AcknowledgedIsOwn ==
    \A e \in Endpoints :
        LET acknowledged == publication_targets[e].acknowledged
        IN  /\ Len(acknowledged) <= Len(log[Origin])
            /\ Prefix(log[Origin], Len(acknowledged)) = acknowledged

\* An acknowledged head never moves back and a pinned relay is never exchanged
\* while the origin keeps its database, whichever of two runs records last.
AcknowledgementOnlyAdvances ==
    [][ life'[Origin] = life[Origin] =>
          \A e \in Endpoints :
              LET old == publication_targets[e]
                  new == publication_targets'[e]
              IN  /\ Len(old.acknowledged) <= Len(new.acknowledged)
                  /\ Prefix(new.acknowledged, Len(old.acknowledged)) = old.acknowledged
                  /\ old.relay_node_id # NULL => new.relay_node_id = old.relay_node_id ]_vars

\* Replicated means copies: the replicas counted for the current head are
\* distinct nodes that hold the whole log, save those that lost a database.
ReplicatedMeansCopies ==
    status = "replicated" =>
        Cardinality({r \in Relays : life[r] > 0 \/ Holds(r, log[Origin])}) >= desired_replicas

Settled(e) ==
    \/ publication_targets[e].acknowledged = log[Origin]
    \/ ~ publication_targets[e].configured

\* Every target the publish loop serves catches up and stays: lost messages, crashes
\* and waits delay it, and leave it behind only when a database was lost, the
\* endpoint answers as another relay, or the relay refuses an event.
TargetsCatchUp ==
    \A e \in Endpoints :
        <>[]( \/ Settled(e)
              \/ moves > 0
              \/ \E n \in Nodes : life[n] > 0
              \/ \E i \in 1 .. Len(log[Origin]) : log[Origin][i].kind = "refused" )

=============================================================================
