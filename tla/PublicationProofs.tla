------------------------- MODULE PublicationProofs -------------------------
(***************************************************************************)
(* Proofs, for any relays, endpoints, publishers and bounds, that the      *)
(* publication state of an origin is true of its own log and of its        *)
(* relays, through lost responses, crashes, competing runs, endpoints that *)
(* change hands and lost databases.                                        *)
(*                                                                         *)
(* The invariant says of the receipts under way what the properties say of *)
(* the recorded ones: the page of every run lies on the origin's log, and  *)
(* a relay that has answered, and not lost its database since, holds it.   *)
(***************************************************************************)
EXTENDS Publication, FederationWindows, FiniteSetTheorems

\* The chain c lies on the origin's log own, and the relay r retains it.
Truth(own, lives, copies, kept, c, r) ==
    /\ Continues(own, c)
    /\ r # NULL /\ lives[r] = 0 => Continues(copies[r][Origin], c) /\ c \in kept[r][Origin]

\* Only a run whose page was answered speaks for a relay.
Answerer(run) == IF run.phase = "answered" THEN run.relay ELSE NULL

RunsTrue ==
    \A p \in Publishers :
        Truth(log[Origin], life, remote_events, remote_checkpoints,
              publisher[p].page, Answerer(publisher[p]))

TargetsTrue ==
    \A e \in Endpoints :
        Truth(log[Origin], life, remote_events, remote_checkpoints,
              publication_targets[e].acknowledged, publication_targets[e].relay_node_id)

PubInv == FedInv /\ TypeOK /\ RunsTrue /\ TargetsTrue

-----------------------------------------------------------------------------
(* Steps of the relays and of the origin's log.                            *)

\* A run's request delivers a bundle of the origin; all else is a federation step.
LEMMA PublicationSteps ==
    ASSUME TypeOK, [Next]_vars
    PROVE  [FedNext]_fvars
    <1> USE PublicationAssumption
    <1>1. ASSUME NEW p \in Publishers, RelayImports(p) PROVE [FedNext]_fvars
        <2> DEFINE relay == backing[publisher[p].endpoint]
                   page == publisher[p].page
                   from == publisher[p].cursor
        <2>1. relay \in Nodes /\ from \in Nat /\ page \in Chain
            BY DEF TypeOK, Run, Relays
        <2>2. ASSUME verify_bundle(Posted(p)) PROVE page \in Signed(Origin) /\ from \in 0 .. Len(page)
            BY <2>1, <2>2 DEF verify_bundle, Posted, Bundle, Chain
        <2>3. Posted(p) = Bundle(Origin, from, page)
            BY DEF Posted
        <2>4. ASSUME verify_bundle(Posted(p)),
                     record_equivocation(relay, Posted(p)) \/ import_federation_bundle(relay, Posted(p))
              PROVE  Deliver(relay, Origin)
            BY <2>2, <2>3, <2>4, Zenon DEF Deliver
        <2>5. Deliver(relay, Origin) \/ UNCHANGED fvars
            BY <1>1, <2>4, Zenon DEF RelayImports
        <2> QED
            BY <2>1, <2>5, Zenon DEF FedNext
    <1>2. ASSUME NEW n \in Nodes, Restart(n) PROVE [FedNext]_fvars
        BY <1>2, Zenon DEF Restart, FedNext
    <1>3. ASSUME NEW kind \in ContentKinds, Author(Origin, kind) PROVE [FedNext]_fvars
        BY <1>3, Zenon DEF FedNext
    <1>4. ASSUME UNCHANGED vars PROVE UNCHANGED fvars
        BY <1>4 DEF vars
    <1>5. ASSUME NEW e \in Endpoints, ConfigureOnly(e) \/ BackoffPasses(e) PROVE UNCHANGED fvars
        BY <1>5, Zenon DEF ConfigureOnly, BackoffPasses
    <1>6. ASSUME NEW p \in Publishers,
                 \/ \E e \in Endpoints : Begin(p, e)
                 \/ CheckHead(p) \/ SendPage(p) \/ LoseMessage(p)
                 \/ record_publication_success(p) \/ record_publication_failure(p)
          PROVE  UNCHANGED fvars
        BY <1>6, Zenon DEF Begin, CheckHead, SendPage, LoseMessage, record_publication_success,
           record_publication_failure
    <1>7. ASSUME \/ LoopTick \/ work_page \/ Crash \/ DayPasses
                 \/ \E n \in DesiredChoices : set_desired_replicas(n)
                 \/ \E e \in Endpoints, relay \in Relays : MoveEndpoint(e, relay)
          PROVE  UNCHANGED fvars
        BY <1>7, Zenon DEF LoopTick, work_page, Crash, DayPasses, set_desired_replicas, MoveEndpoint
    <1> QED
        BY <1>1, <1>2, <1>3, <1>4, <1>5, <1>6, <1>7, Zenon DEF Next

\* What is true stays true while the origin keeps its database.
LEMMA TruthStays ==
    ASSUME FedInv, [FedNext]_fvars, life'[Origin] = life[Origin],
           NEW c \in Chain, NEW r \in Relays \cup {NULL},
           Truth(log[Origin], life, remote_events, remote_checkpoints, c, r)
    PROVE  Truth(log'[Origin], life', remote_events', remote_checkpoints', c, r)
    <1> USE PublicationAssumption
    <1>1. FedInv'
        BY StepKeeps
    <1>2. c \in Seq(Event) /\ log[Origin] \in Seq(Event) /\ log'[Origin] \in Seq(Event)
        BY <1>1 DEF FedInv, FedTypeOK, Chain
    <1>3. Continues(log'[Origin], c)
        <2>1. Continues(log'[Origin], log[Origin])
            BY CopiesKept, Zenon DEF Kept
        <2>2. Continues(log[Origin], c)
            BY DEF Truth
        <2> QED
            BY <1>2, <2>1, <2>2, ContinuesOn, Zenon
    <1>4. ASSUME r # NULL, life'[r] = 0
          PROVE  Continues(remote_events'[r][Origin], c) /\ c \in remote_checkpoints'[r][Origin]
        <2>1. r \in Nodes
            BY <1>4 DEF Relays
        <2>2. life[r] = 0
            BY <1>4, <2>1, LivesGrow
        <2>3. Kept(r, Origin)
            BY <1>4, <2>1, <2>2, CopiesKept
        <2>4. Continues(remote_events[r][Origin], c) /\ c \in remote_checkpoints[r][Origin]
            BY <1>4, <2>2 DEF Truth
        <2>5. remote_events[r][Origin] \in Seq(Event) /\ remote_events'[r][Origin] \in Seq(Event)
            BY <1>1, <2>1 DEF FedInv, FedTypeOK, Chain
        <2>6. Continues(remote_events'[r][Origin], c)
            BY <1>2, <2>3, <2>4, <2>5, ContinuesOn, Zenon DEF Kept
        <2> QED
            BY <2>3, <2>4, <2>6, Zenon DEF Kept
    <1> QED
        BY <1>3, <1>4, Zenon DEF Truth

\* An accepted import makes its page's receipt true.
LEMMA ImportIsTrue ==
    ASSUME FedInv, NEW r \in Nodes, NEW c \in Signed(Origin), NEW from \in 0 .. Len(c), NEW b,
           b = Bundle(Origin, from, c), import_federation_bundle(r, b)
    PROVE  Continues(remote_events'[r][Origin], c) /\ c \in remote_checkpoints'[r][Origin]
    <1> USE PublicationAssumption
    <1>1. Imported(r, Origin, c)
        BY ImportStores, Zenon
    <1>2. c \in Seq(Event) /\ remote_events[r][Origin] \in Seq(Event)
        BY SignedType DEF FedInv, FedTypeOK, Chain
    <1>3. remote_events'[r][Origin] = IF Len(c) > Len(remote_events[r][Origin])
                                      THEN c ELSE remote_events[r][Origin]
        BY <1>1, SMTT(20) DEF Imported, FedInv, FedTypeOK
    <1>4. c \in remote_checkpoints'[r][Origin]
        BY <1>1, SMTT(20) DEF Imported, FedInv, FedTypeOK
    <1>5. CASE Len(c) > Len(remote_events[r][Origin])
        BY <1>2, <1>3, <1>4, <1>5, ContinuesItself, Zenon
    <1>6. CASE ~(Len(c) > Len(remote_events[r][Origin]))
        BY <1>1, <1>2, <1>3, <1>4, <1>6, SMTT(20) DEF Imported, Continues
    <1> QED
        BY <1>5, <1>6

-----------------------------------------------------------------------------
(* Writing a run or a target.                                              *)

\* The empty chain is true of everything.
LEMMA EmptyIsTrue ==
    ASSUME NEW own \in Chain, NEW lives, NEW copies, NEW kept
    PROVE  Truth(own, lives, copies, kept, <<>>, NULL)
    <1>1. Prefix(own, 0) = <<>>
        BY EmptyPrefix
    <1>2. Len(<<>>) <= Len(own)
        BY DEF Chain
    <1> QED
        BY <1>1, <1>2 DEF Truth, Continues

\* A run that speaks for no relay claims less.
LEMMA TruthWeakens ==
    ASSUME NEW own, NEW lives, NEW copies, NEW kept, NEW c, NEW r,
           Truth(own, lives, copies, kept, c, r)
    PROVE  Truth(own, lives, copies, kept, c, NULL)
    BY DEF Truth

\* A run that is not under way.
LEMMA IdleRunIs ==
    IdleRun \in Run /\ IdleRun.page = <<>> /\ Answerer(IdleRun) = NULL
    <1>1. <<>> \in Chain
        BY DEF Chain
    <1>2. \E e \in Endpoints : TRUE
        BY PublicationAssumption
    <1>3. (CHOOSE e \in Endpoints : TRUE) \in Endpoints
        BY <1>2, Zenon
    <1>4. 0 \in 0 .. MaxPages - 1
        BY PublicationAssumption
    <1> QED
        BY <1>1, <1>3, <1>4 DEF IdleRun, Run, Answerer

\* The state the next step of the federation leaves, as Truth reads it.
TrueNext(c, r) == Truth(log'[Origin], life', remote_events', remote_checkpoints', c, r)

\* A step that keeps the origin's database.
OriginLives == PubInv /\ [FedNext]_fvars /\ life'[Origin] = life[Origin]

\* What the runs and the targets say stays true.
LEMMA AllStay ==
    ASSUME OriginLives
    PROVE  /\ \A p \in Publishers : TrueNext(publisher[p].page, Answerer(publisher[p]))
           /\ \A e \in Endpoints : TrueNext(publication_targets[e].acknowledged,
                                            publication_targets[e].relay_node_id)
           /\ TrueNext(<<>>, NULL)
    <1>1. ASSUME NEW p \in Publishers
          PROVE  TrueNext(publisher[p].page, Answerer(publisher[p]))
        <2>1. publisher[p].page \in Chain /\ Answerer(publisher[p]) \in Relays \cup {NULL}
            BY DEF OriginLives, PubInv, TypeOK, Run, Answerer
        <2> QED
            BY <2>1, TruthStays, Zenon DEF OriginLives, PubInv, RunsTrue, TrueNext
    <1>2. ASSUME NEW e \in Endpoints
          PROVE  TrueNext(publication_targets[e].acknowledged, publication_targets[e].relay_node_id)
        <2>1. /\ publication_targets[e].acknowledged \in Chain
              /\ publication_targets[e].relay_node_id \in Relays \cup {NULL}
            BY DEF OriginLives, PubInv, TypeOK, Target
        <2> QED
            BY <2>1, TruthStays, Zenon DEF OriginLives, PubInv, TargetsTrue, TrueNext
    <1>3. FedInv'
        BY StepKeeps DEF OriginLives, PubInv
    <1>4. log'[Origin] \in Chain
        BY <1>3, PublicationAssumption DEF FedInv, FedTypeOK
    <1> QED
        BY <1>1, <1>2, <1>4, EmptyIsTrue, Zenon DEF TrueNext

RunsType == publisher \in [Publishers -> Run]
TargetsType == publication_targets \in [Endpoints -> Target]

\* One run changes, to one that is true.
LEMMA RunWritten ==
    ASSUME OriginLives, NEW p \in Publishers, NEW run \in Run,
           TrueNext(run.page, Answerer(run)), SetRun(p, run)
    PROVE  RunsType' /\ RunsTrue'
    <1>1. publisher \in [Publishers -> Run]
        BY DEF OriginLives, PubInv, TypeOK
    <1>2. publisher' \in [Publishers -> Run] /\ publisher'[p] = run
        BY <1>1 DEF SetRun
    <1>3. \A q \in Publishers \ {p} : publisher'[q] = publisher[q]
        BY <1>1 DEF SetRun
    <1>4. \A q \in Publishers : TrueNext(publisher'[q].page, Answerer(publisher'[q]))
        BY <1>2, <1>3, AllStay, Zenon
    <1> QED
        BY <1>2, <1>4, Zenon DEF RunsType, RunsTrue, TrueNext, Answerer

\* The runs stay.
LEMMA RunsStay ==
    ASSUME OriginLives, publisher' = publisher
    PROVE  RunsType' /\ RunsTrue'
    <1>1. publisher' \in [Publishers -> Run]
        BY DEF OriginLives, PubInv, TypeOK
    <1>2. \A q \in Publishers : TrueNext(publisher'[q].page, Answerer(publisher'[q]))
        BY AllStay, Zenon
    <1> QED
        BY <1>1, <1>2, Zenon DEF RunsType, RunsTrue, TrueNext, Answerer

\* Every run is given up.
LEMMA RunsEnd ==
    ASSUME FedInv', publisher' = [p \in Publishers |-> IdleRun]
    PROVE  RunsType' /\ RunsTrue'
    <1>1. publisher' \in [Publishers -> Run] /\ \A q \in Publishers : publisher'[q] = IdleRun
        BY IdleRunIs
    <1>2. log'[Origin] \in Chain
        BY PublicationAssumption DEF FedInv, FedTypeOK
    <1>3. TrueNext(<<>>, NULL)
        BY <1>2, EmptyIsTrue, Zenon DEF TrueNext
    <1>4. \A q \in Publishers : TrueNext(publisher'[q].page, Answerer(publisher'[q]))
        BY <1>1, <1>3, IdleRunIs, Zenon
    <1> QED
        BY <1>1, <1>4, Zenon DEF RunsType, RunsTrue, TrueNext, Answerer

\* One target changes, to one that is true.
LEMMA TargetWritten ==
    ASSUME OriginLives, NEW e \in Endpoints, NEW t \in Target,
           TrueNext(t.acknowledged, t.relay_node_id),
           publication_targets' = [publication_targets EXCEPT ![e] = t]
    PROVE  TargetsType' /\ TargetsTrue'
    <1>1. publication_targets \in [Endpoints -> Target]
        BY DEF OriginLives, PubInv, TypeOK
    <1>2. publication_targets' \in [Endpoints -> Target] /\ publication_targets'[e] = t
        BY <1>1
    <1>3. \A f \in Endpoints \ {e} : publication_targets'[f] = publication_targets[f]
        BY <1>1
    <1>4. \A f \in Endpoints : TrueNext(publication_targets'[f].acknowledged,
                                        publication_targets'[f].relay_node_id)
        BY <1>2, <1>3, AllStay, Zenon
    <1> QED
        BY <1>2, <1>4, Zenon DEF TargetsType, TargetsTrue, TrueNext

\* Whatever happens to the other columns, the receipts stay.
LEMMA TargetsStay ==
    ASSUME OriginLives, publication_targets' \in [Endpoints -> Target],
           \A f \in Endpoints :
               /\ publication_targets'[f].acknowledged = publication_targets[f].acknowledged
               /\ publication_targets'[f].relay_node_id = publication_targets[f].relay_node_id
    PROVE  TargetsType' /\ TargetsTrue'
    <1>1. \A f \in Endpoints : TrueNext(publication_targets'[f].acknowledged,
                                        publication_targets'[f].relay_node_id)
        BY AllStay, Zenon
    <1> QED
        BY <1>1, Zenon DEF TargetsType, TargetsTrue, TrueNext

\* A target's columns that are no receipt.
LEMMA TargetColumns ==
    ASSUME NEW t \in Target, NEW flag \in BOOLEAN
    PROVE  LET c == [t EXCEPT !.configured = flag]
               w == [t EXCEPT !.waiting = flag]
               d == [t EXCEPT !.recent = flag]
           IN  /\ c \in Target /\ c.acknowledged = t.acknowledged /\ c.relay_node_id = t.relay_node_id
               /\ w \in Target /\ w.acknowledged = t.acknowledged /\ w.relay_node_id = t.relay_node_id
               /\ d \in Target /\ d.acknowledged = t.acknowledged /\ d.relay_node_id = t.relay_node_id
    BY Zenon DEF Target

\* What a step may do to the remaining variables.
RestType ==
    /\ desired_replicas \in 1 .. 16
    /\ replication_work \in {"none", "open", "complete"}
    /\ due \subseteq Endpoints
    /\ backing \in [Endpoints -> Relays]
    /\ faults \in 0 .. MaxFaults
    /\ moves \in 0 .. MaxMoves

\* The conjuncts of the invariant beside the federation's own.
Own == RunsType /\ TargetsType /\ RestType /\ RunsTrue /\ TargetsTrue

\* The invariant is the federation's and the origin's own.
LEMMA PubInvIs == PubInv <=> FedInv /\ Own
    BY DEF PubInv, Own, TypeOK, RunsType, TargetsType, RestType, FedInv

-----------------------------------------------------------------------------
(* The steps.                                                              *)

\* A step that leaves the federation alone keeps the origin's database.
LEMMA QuietLives ==
    ASSUME PubInv, UNCHANGED fvars
    PROVE  OriginLives
    BY DEF OriginLives, fvars

\* A refreshed work item has a status.
LEMMA WorkRefreshed ==
    ASSUME NEW targets, NEW desired, refresh_replication_work(targets, desired)
    PROVE  replication_work' \in {"none", "open", "complete"}
    BY DEF refresh_replication_work

\* Configuring a target, or noting a failure, keeps its receipt.
LEMMA ColumnsWritten ==
    ASSUME OriginLives, NEW e \in Endpoints, NEW t \in Target,
           t.acknowledged = publication_targets[e].acknowledged,
           t.relay_node_id = publication_targets[e].relay_node_id,
           SetTarget(e, t)
    PROVE  /\ TargetsType' /\ TargetsTrue'
           /\ desired_replicas' \in 1 .. 16
           /\ replication_work' \in {"none", "open", "complete"}
    <1>1. publication_targets' = [publication_targets EXCEPT ![e] = t]
        BY DEF SetTarget
    <1>2. TrueNext(t.acknowledged, t.relay_node_id)
        BY AllStay
    <1>3. TargetsType' /\ TargetsTrue'
        BY <1>1, <1>2, TargetWritten, Zenon
    <1>4. desired_replicas' \in 1 .. 16
        BY DEF SetTarget, OriginLives, PubInv, TypeOK
    <1>5. replication_work' \in {"none", "open", "complete"}
        BY WorkRefreshed, Zenon DEF SetTarget
    <1> QED
        BY <1>3, <1>4, <1>5, SMTT(20)

\* INSERT OR IGNORE of a target.
LEMMA Configured ==
    ASSUME OriginLives, NEW e \in Endpoints, configure_publication_target(e)
    PROVE  /\ TargetsType' /\ TargetsTrue'
           /\ desired_replicas' \in 1 .. 16
           /\ replication_work' \in {"none", "open", "complete"}
    <1> DEFINE t == [publication_targets[e] EXCEPT !.configured = TRUE]
    <1>1. publication_targets[e] \in Target
        BY DEF OriginLives, PubInv, TypeOK
    <1>2. /\ t \in Target /\ t.acknowledged = publication_targets[e].acknowledged
          /\ t.relay_node_id = publication_targets[e].relay_node_id
        BY <1>1, TargetColumns, Zenon
    <1>3. SetTarget(e, t)
        BY DEF configure_publication_target
    <1> HIDE DEF t
    <1> QED
        BY <1>2, <1>3, ColumnsWritten, Zenon

\* The steps that write no run: they keep the invariant.
LEMMA OperatorKeeps ==
    ASSUME PubInv,
           \/ \E e \in Endpoints : ConfigureOnly(e) \/ BackoffPasses(e)
           \/ LoopTick
           \/ \E n \in DesiredChoices : set_desired_replicas(n)
           \/ work_page
           \/ DayPasses
           \/ \E e \in Endpoints, relay \in Relays : MoveEndpoint(e, relay)
    PROVE  Own'
    <1> USE PublicationAssumption
    <1>1. UNCHANGED fvars /\ publisher' = publisher
        BY Zenon DEF ConfigureOnly, BackoffPasses, LoopTick, set_desired_replicas, work_page,
                     DayPasses, MoveEndpoint, rvars
    <1>2. OriginLives
        BY <1>1, QuietLives, Zenon
    <1>3. RunsType' /\ RunsTrue'
        BY <1>1, <1>2, RunsStay, Zenon
    <1>4. publication_targets \in [Endpoints -> Target] /\ RestType
        BY DEF PubInv, TypeOK, RestType
    <1>5. ASSUME UNCHANGED publication_targets PROVE TargetsType' /\ TargetsTrue'
        BY <1>2, <1>4, <1>5, TargetsStay, Zenon
    <1>6. ASSUME NEW e \in Endpoints, ConfigureOnly(e) PROVE TargetsType' /\ TargetsTrue' /\ RestType'
        <2>1. configure_publication_target(e) /\ UNCHANGED <<rvars, evars>>
            BY <1>6 DEF ConfigureOnly
        <2>2. /\ TargetsType' /\ TargetsTrue'
              /\ desired_replicas' \in 1 .. 16
              /\ replication_work' \in {"none", "open", "complete"}
            BY <1>2, <2>1, Configured, Zenon
        <2> QED
            BY <1>4, <2>1, <2>2, Zenon DEF RestType, rvars, evars
    <1>7. ASSUME NEW e \in Endpoints, BackoffPasses(e) PROVE TargetsType' /\ TargetsTrue' /\ RestType'
        <2> DEFINE t == [publication_targets[e] EXCEPT !.waiting = FALSE]
        <2>1. publication_targets[e] \in Target
            BY <1>4
        <2>2. /\ t \in Target /\ t.acknowledged = publication_targets[e].acknowledged
              /\ t.relay_node_id = publication_targets[e].relay_node_id
            BY <2>1, TargetColumns, Zenon
        <2>3. publication_targets' = [publication_targets EXCEPT ![e] = t]
            BY <1>7 DEF BackoffPasses
        <2> HIDE DEF t
        <2>4. TrueNext(t.acknowledged, t.relay_node_id)
            BY <1>2, <2>2, AllStay
        <2>5. TargetsType' /\ TargetsTrue'
            BY <1>2, <2>2, <2>3, <2>4, TargetWritten, Zenon
        <2>6. RestType'
            BY <1>4, <1>7, Zenon DEF BackoffPasses, RestType, rvars, evars
        <2> QED
            BY <2>5, <2>6
    <1>8. ASSUME DayPasses PROVE TargetsType' /\ TargetsTrue' /\ RestType'
        <2>1. ASSUME NEW e \in Endpoints
              PROVE  /\ publication_targets'[e] \in Target
                     /\ publication_targets'[e].acknowledged = publication_targets[e].acknowledged
                     /\ publication_targets'[e].relay_node_id = publication_targets[e].relay_node_id
            <3>1. publication_targets'[e] = [publication_targets[e] EXCEPT !.recent = FALSE]
                BY <1>8 DEF DayPasses
            <3>2. publication_targets[e] \in Target
                BY <1>4
            <3> QED
                BY <3>1, <3>2, TargetColumns, Zenon
        <2>2. publication_targets' \in [Endpoints -> Target]
            BY <1>8, <2>1, SMTT(20) DEF DayPasses
        <2>3. TargetsType' /\ TargetsTrue'
            BY <1>2, <2>1, <2>2, TargetsStay, Zenon
        <2>4. RestType'
            BY <1>4, <1>8, Zenon DEF DayPasses, RestType, rvars, evars
        <2> QED
            BY <2>3, <2>4, SMTT(20)
    <1>9. ASSUME LoopTick PROVE UNCHANGED publication_targets /\ RestType'
        <2>1. UNCHANGED <<pvars, evars>> /\ due' \subseteq Endpoints
            BY <1>9, SMTT(20) DEF LoopTick
        <2> QED
            BY <1>4, <2>1, Zenon DEF RestType, pvars, evars
    <1>10. ASSUME NEW n \in DesiredChoices, set_desired_replicas(n)
           PROVE  UNCHANGED publication_targets /\ RestType'
        <2>1. desired_replicas' \in 1 .. 16
            BY <1>10, SMTT(20) DEF set_desired_replicas
        <2>2. replication_work' \in {"none", "open", "complete"}
            BY <1>10, WorkRefreshed, Zenon DEF set_desired_replicas
        <2> QED
            BY <1>4, <1>10, <2>1, <2>2, Zenon DEF set_desired_replicas, RestType, rvars, evars
    <1>11. ASSUME work_page PROVE UNCHANGED publication_targets /\ RestType'
        <2>1. replication_work' \in {"none", "open", "complete"}
            BY <1>11, WorkRefreshed, Zenon DEF work_page
        <2> QED
            BY <1>4, <1>11, <2>1, Zenon DEF work_page, RestType, rvars, evars
    <1>12. ASSUME NEW e \in Endpoints, NEW relay \in Relays, MoveEndpoint(e, relay)
           PROVE  UNCHANGED publication_targets /\ RestType'
        <2>1. backing' \in [Endpoints -> Relays] /\ moves' \in 0 .. MaxMoves
            BY <1>4, <1>12, SMTT(20) DEF MoveEndpoint, RestType
        <2> QED
            BY <1>4, <1>12, <2>1, Zenon DEF MoveEndpoint, RestType, rvars, pvars
    <1> QED
        BY <1>3, <1>5, <1>6, <1>7, <1>8, <1>9, <1>10, <1>11, <1>12, Zenon DEF Own

\* A run that reads its target, the head or a page keeps the invariant.
LEMMA ReadingKeeps ==
    ASSUME PubInv, NEW p \in Publishers,
           (\E e \in Endpoints : Begin(p, e)) \/ CheckHead(p) \/ SendPage(p) \/ LoseMessage(p)
    PROVE  Own'
    <1> USE PublicationAssumption
    <1>1. UNCHANGED fvars
        BY Zenon DEF Begin, CheckHead, SendPage, LoseMessage
    <1>2. OriginLives
        BY <1>1, QuietLives, Zenon
    <1>3. publication_targets \in [Endpoints -> Target] /\ RestType /\ publisher[p] \in Run
        BY DEF PubInv, TypeOK, RestType
    <1>4. ASSUME UNCHANGED publication_targets PROVE TargetsType' /\ TargetsTrue'
        BY <1>2, <1>3, <1>4, TargetsStay, Zenon
    <1>5. log[Origin] \in Seq(Event) /\ Len(log[Origin]) \in Nat /\ log' = log
        BY <1>1 DEF PubInv, FedInv, FedTypeOK, Chain, fvars
    <1>6. ASSUME NEW e \in Endpoints, Begin(p, e) PROVE Own'
        <2> DEFINE head == publication_targets[e].acknowledged
                   run == [IdleRun EXCEPT !.phase = "begun", !.endpoint = e,
                                          !.cursor = Len(head), !.page = head]
        <2>1. head \in Chain /\ Len(head) \in Nat
            BY <1>3 DEF Target, Chain
        <2>2. run \in Run /\ run.page = head /\ run.phase = "begun"
            BY <2>1, IdleRunIs, Zenon DEF Run
        <2>3. SetRun(p, run)
            BY <1>6, Zenon DEF Begin
        <2>4. TrueNext(head, publication_targets[e].relay_node_id)
            BY <1>2, AllStay, Zenon
        <2>5. TrueNext(head, NULL)
            BY <2>4, TruthWeakens, Zenon DEF TrueNext
        <2> HIDE DEF run
        <2>6. Answerer(run) = NULL
            BY <2>2 DEF Answerer
        <2>7. RunsType' /\ RunsTrue'
            BY <1>2, <2>2, <2>3, <2>5, <2>6, RunWritten, Zenon
        <2>8. configure_publication_target(e) /\ UNCHANGED evars
            BY <1>6, Zenon DEF Begin
        <2>9. /\ TargetsType' /\ TargetsTrue'
              /\ desired_replicas' \in 1 .. 16
              /\ replication_work' \in {"none", "open", "complete"}
            BY <1>2, <2>8, Configured, Zenon
        <2>10. due' \subseteq Endpoints
            BY <1>3, <1>6, Zenon DEF Begin, RestType
        <2>11. RestType'
            BY <1>3, <2>8, <2>9, <2>10, Zenon DEF RestType, evars
        <2> QED
            BY <2>7, <2>9, <2>11, Zenon DEF Own
    <1>7. ASSUME CheckHead(p) PROVE Own'
        <2> DEFINE head == Len(log[Origin])
                   run == publisher[p]
                   phase == IF run.cursor <= head /\ Prefix(log[Origin], run.cursor) = run.page
                            THEN "ready" ELSE "failed"
                   next == [run EXCEPT !.phase = phase, !.snapshot_cursor = head]
        <2>1. phase \in {"ready", "failed"} /\ head \in Nat
            BY <1>5
        <2>2. SetRun(p, next) /\ UNCHANGED <<pvars, due, evars>>
            BY <1>7 DEF CheckHead
        <2> HIDE DEF phase, head
        <2>3. next \in Run /\ next.page = run.page /\ next.phase = phase
            BY <1>3, <2>1, Zenon DEF Run
        <2> HIDE DEF next
        <2>4. Answerer(next) = NULL
            BY <2>1, <2>3, SMTT(20) DEF Answerer
        <2>5. TrueNext(run.page, NULL)
            BY <1>2, AllStay, TruthWeakens, Zenon DEF TrueNext
        <2>6. RunsType' /\ RunsTrue'
            BY <1>2, <2>2, <2>3, <2>4, <2>5, RunWritten, Zenon
        <2> QED
            BY <1>3, <1>4, <2>2, <2>6, Zenon DEF Own, RestType, pvars, evars
    <1>8. ASSUME SendPage(p) PROVE Own'
        <2> DEFINE end == PageEnd(publisher[p].cursor)
                   page == Prefix(log[Origin], end)
                   next == [publisher[p] EXCEPT !.phase = "posted", !.page = page]
        <2>1. publisher[p].cursor \in Nat
            BY <1>3, SMTT(20) DEF Run
        <2>2. end \in 0 .. Len(log[Origin])
            BY <1>5, <2>1, FederationAssumption, SMTT(20) DEF PageEnd
        <2>3. SetRun(p, next) /\ UNCHANGED <<pvars, due, evars>>
            BY <1>8, SMTT(20) DEF SendPage
        <2> HIDE DEF end
        <2>4. page \in Chain /\ Len(page) = end
            BY <1>5, <2>2, PrefixIn, SMTT(20) DEF Chain
        <2>5. Continues(log[Origin], page)
            BY <1>5, <2>2, <2>4, SMTT(20) DEF Continues
        <2>6. TrueNext(page, NULL)
            BY <1>5, <2>5 DEF TrueNext, Truth
        <2> HIDE DEF page
        <2>7. next \in Run /\ next.page = page /\ next.phase = "posted"
            BY <1>3, <2>4, Zenon DEF Run
        <2> HIDE DEF next
        <2>8. Answerer(next) = NULL
            BY <2>7 DEF Answerer
        <2>9. RunsType' /\ RunsTrue'
            BY <1>2, <2>3, <2>6, <2>7, <2>8, RunWritten, Zenon
        <2> QED
            BY <1>3, <1>4, <2>3, <2>9, Zenon DEF Own, RestType, pvars, evars
    <1>9. ASSUME LoseMessage(p) PROVE Own'
        <2> DEFINE next == [publisher[p] EXCEPT !.phase = "failed"]
        <2>1. SetRun(p, next) /\ UNCHANGED <<pvars, due, backing, moves>>
            BY <1>9, SMTT(20) DEF LoseMessage
        <2>2. next \in Run /\ next.page = publisher[p].page /\ next.phase = "failed"
            BY <1>3, Zenon DEF Run
        <2> HIDE DEF next
        <2>3. Answerer(next) = NULL
            BY <2>2, SMTT(20) DEF Answerer
        <2>4. TrueNext(publisher[p].page, NULL)
            BY <1>2, AllStay, TruthWeakens, Zenon DEF TrueNext
        <2>5. RunsType' /\ RunsTrue'
            BY <1>2, <2>1, <2>2, <2>3, <2>4, RunWritten, Zenon
        <2>6. faults' \in 0 .. MaxFaults
            BY <1>3, <1>9, SMTT(20) DEF LoseMessage, RestType
        <2> QED
            BY <1>3, <1>4, <2>1, <2>5, <2>6, Zenon DEF Own, RestType, pvars
    <1> QED
        BY <1>6, <1>7, <1>8, <1>9, Zenon

\* A relay's answer keeps the invariant: it signs only what it has imported.
LEMMA RelayKeeps ==
    ASSUME PubInv, [FedNext]_fvars, NEW p \in Publishers, RelayImports(p)
    PROVE  Own'
    <1> USE PublicationAssumption
    <1> DEFINE run == publisher[p]
               relay == backing[run.endpoint]
               failed == [run EXCEPT !.phase = "failed"]
               answered == [run EXCEPT !.phase = "answered", !.relay = relay]
    <1>1. /\ publication_targets \in [Endpoints -> Target] /\ RestType /\ run \in Run
          /\ relay \in Relays /\ relay \in Nodes /\ relay # NULL
          /\ run.page \in Chain /\ run.cursor \in Nat
        BY SMTT(20) DEF PubInv, TypeOK, RestType, Run, Relays
    <1>2. life' = life
        BY Zenon DEF RelayImports, record_equivocation, import_federation_bundle, fvars
    <1>3. OriginLives
        BY <1>2, SMTT(20) DEF OriginLives
    <1>4. UNCHANGED <<pvars, due, evars>>
        BY DEF RelayImports
    <1>5. TargetsType' /\ TargetsTrue' /\ RestType'
        <2>1. publication_targets' = publication_targets
            BY <1>4 DEF pvars
        <2>2. TargetsType' /\ TargetsTrue'
            BY <1>1, <1>3, <2>1, TargetsStay, Zenon
        <2> QED
            BY <1>1, <1>4, <2>2, Zenon DEF RestType, pvars, evars
    <1>6. failed \in Run /\ failed.page = run.page /\ failed.phase = "failed"
        BY <1>1, Zenon DEF Run
    <1>7. /\ answered \in Run /\ answered.page = run.page /\ answered.phase = "answered"
          /\ answered.relay = relay
        <2> HIDE DEF relay
        <2> QED
            BY <1>1, Zenon DEF Run
    <1>8. TrueNext(run.page, NULL)
        BY <1>3, AllStay, TruthWeakens, Zenon DEF TrueNext
    <1>9. ASSUME SetRun(p, failed) PROVE RunsType' /\ RunsTrue'
        <2> HIDE DEF failed
        <2>1. Answerer(failed) = NULL
            BY <1>6 DEF Answerer
        <2> QED
            BY <1>3, <1>6, <1>8, <1>9, <2>1, RunWritten, Zenon
    <1>10. ASSUME verify_bundle(Posted(p)), import_federation_bundle(relay, Posted(p)),
                  SetRun(p, answered)
           PROVE  RunsType' /\ RunsTrue'
        <2>1. Posted(p) = Bundle(Origin, run.cursor, run.page)
            BY DEF Posted
        <2>2. run.page \in Signed(Origin) /\ run.cursor \in 0 .. Len(run.page)
            BY <1>1, <1>10, <2>1, SMTT(20) DEF verify_bundle, Bundle, Chain
        <2> HIDE DEF run, relay
        <2>3. /\ Continues(remote_events'[relay][Origin], run.page)
              /\ run.page \in remote_checkpoints'[relay][Origin]
            BY <1>1, <1>10, <2>1, <2>2, ImportIsTrue, Zenon DEF PubInv
        <2>4. TrueNext(run.page, relay)
            BY <1>8, <2>3, Zenon DEF TrueNext, Truth
        <2> HIDE DEF answered
        <2>5. Answerer(answered) = relay
            BY <1>7 DEF Answerer
        <2> QED
            BY <1>3, <1>7, <1>10, <2>4, <2>5, RunWritten, Zenon
    <1> QED
        BY <1>5, <1>9, <1>10, Zenon DEF Own, RelayImports

\* A recorded receipt is the answer of a run that is true.
LEMMA SuccessKeeps ==
    ASSUME PubInv, NEW p \in Publishers, record_publication_success(p)
    PROVE  Own'
    <1> USE PublicationAssumption
    <1> DEFINE run == publisher[p]
               e == run.endpoint
               target == [configured |-> TRUE, relay_node_id |-> run.relay,
                          acknowledged |-> run.page, waiting |-> FALSE, recent |-> TRUE]
               failed == [run EXCEPT !.phase = "failed"]
    <1>1. UNCHANGED fvars /\ UNCHANGED <<due, evars>> /\ run.phase = "answered"
        BY DEF record_publication_success
    <1>2. OriginLives
        BY <1>1, QuietLives, Zenon
    <1>3. /\ publication_targets \in [Endpoints -> Target] /\ RestType /\ run \in Run
          /\ e \in Endpoints /\ run.page \in Chain /\ run.relay \in Relays \cup {NULL}
        BY DEF PubInv, TypeOK, RestType, Run
    <1>4. TrueNext(run.page, run.relay)
        <2>1. Answerer(run) = run.relay
            BY <1>1 DEF Answerer
        <2> QED
            BY <1>2, <2>1, AllStay, Zenon
    <1>5. TrueNext(run.page, NULL)
        BY <1>4, TruthWeakens, Zenon DEF TrueNext
    <1>6. ASSUME SetTarget(e, target), SetRun(p, NextPage(p)) PROVE Own'
        <2>1. /\ target \in Target /\ target.acknowledged = run.page
              /\ target.relay_node_id = run.relay
            BY <1>3, SMTT(20) DEF Target
        <2>2. publication_targets' = [publication_targets EXCEPT ![e] = target]
            BY <1>6 DEF SetTarget
        <2> HIDE DEF target
        <2>3. TargetsType' /\ TargetsTrue'
            BY <1>2, <1>3, <1>4, <2>1, <2>2, TargetWritten, Zenon
        <2>4. desired_replicas' \in 1 .. 16 /\ replication_work' \in {"none", "open", "complete"}
            BY <1>3, <1>6, WorkRefreshed, Zenon DEF SetTarget, RestType
        <2>5. RestType'
            BY <1>1, <1>3, <2>4, Zenon DEF RestType, evars
        <2>6. CASE NextPage(p) = IdleRun
            BY <1>2, <1>6, <2>3, <2>5, <2>6, AllStay, IdleRunIs, RunWritten, Zenon DEF Own
        <2>7. CASE NextPage(p) # IdleRun
            <3> DEFINE next == [run EXCEPT !.phase = "ready", !.cursor = Len(run.page),
                                           !.pages = run.pages + 1]
            <3>1. NextPage(p) = next /\ ~(run.pages + 1 >= MaxPages)
                BY <2>7 DEF NextPage
            <3>2. run.pages + 1 \in 0 .. MaxPages - 1 /\ Len(run.page) \in Nat
                <4>1. run.pages \in 0 .. MaxPages - 1 /\ run.page \in Seq(Event)
                    BY <1>3, Zenon DEF Run, Chain
                <4> HIDE DEF run
                <4>2. MaxPages \in Nat
                    BY PublicationAssumption, Zenon
                <4> QED
                    BY <3>1, <4>1, <4>2
            <3>3. next \in Run /\ next.page = run.page /\ next.phase = "ready"
                BY <1>3, <3>2, Zenon DEF Run
            <3> HIDE DEF next
            <3>4. Answerer(next) = NULL
                BY <3>3 DEF Answerer
            <3>5. RunsType' /\ RunsTrue'
                BY <1>2, <1>5, <1>6, <3>1, <3>3, <3>4, RunWritten, Zenon
            <3> QED
                BY <2>3, <2>5, <3>5, Zenon DEF Own
        <2> QED
            BY <2>6, <2>7, SMTT(20)
    <1>7. ASSUME SetRun(p, failed), UNCHANGED pvars PROVE Own'
        <2>1. failed \in Run /\ failed.page = run.page /\ failed.phase = "failed"
            BY <1>3, Zenon DEF Run
        <2> HIDE DEF failed
        <2>2. Answerer(failed) = NULL
            BY <2>1 DEF Answerer
        <2>3. RunsType' /\ RunsTrue'
            BY <1>2, <1>5, <1>7, <2>1, <2>2, RunWritten, Zenon
        <2>4. publication_targets' = publication_targets
            BY <1>7 DEF pvars
        <2>5. TargetsType' /\ TargetsTrue'
            BY <1>2, <1>3, <2>4, TargetsStay, Zenon
        <2> QED
            BY <1>1, <1>3, <1>7, <2>3, <2>5, Zenon DEF Own, RestType, pvars, evars
    <1> QED
        BY <1>6, <1>7, Zenon DEF record_publication_success

\* A recorded failure keeps the receipt and ends the run.
LEMMA FailureKeeps ==
    ASSUME PubInv, NEW p \in Publishers, record_publication_failure(p)
    PROVE  Own'
    <1> DEFINE e == publisher[p].endpoint
               t == [publication_targets[e] EXCEPT !.waiting = TRUE]
    <1>1. UNCHANGED fvars /\ UNCHANGED <<due, evars>> /\ SetRun(p, IdleRun)
        BY DEF record_publication_failure
    <1>2. OriginLives
        BY <1>1, QuietLives, Zenon
    <1>3. RunsType' /\ RunsTrue'
        BY <1>1, <1>2, AllStay, IdleRunIs, RunWritten, Zenon
    <1>4. /\ publication_targets \in [Endpoints -> Target] /\ RestType
          /\ e \in Endpoints /\ publication_targets[e] \in Target
        BY DEF PubInv, TypeOK, RestType, Run
    <1>5. /\ t \in Target /\ t.acknowledged = publication_targets[e].acknowledged
          /\ t.relay_node_id = publication_targets[e].relay_node_id
        BY <1>4, TargetColumns, Zenon
    <1>6. ASSUME SetTarget(e, t) PROVE Own'
        <2> HIDE DEF t
        <2>1. /\ TargetsType' /\ TargetsTrue'
              /\ desired_replicas' \in 1 .. 16
              /\ replication_work' \in {"none", "open", "complete"}
            BY <1>2, <1>4, <1>5, <1>6, ColumnsWritten, Zenon
        <2> QED
            BY <1>1, <1>3, <1>4, <2>1, Zenon DEF Own, RestType, evars
    <1>7. ASSUME UNCHANGED pvars PROVE Own'
        <2>1. publication_targets' = publication_targets
            BY <1>7, SMTT(20) DEF pvars
        <2>2. TargetsType' /\ TargetsTrue'
            BY <1>2, <1>4, <2>1, TargetsStay, Zenon
        <2> QED
            BY <1>1, <1>3, <1>4, <1>7, <2>2, Zenon DEF Own, RestType, pvars, evars
    <1> QED
        BY <1>6, <1>7, Zenon DEF record_publication_failure

\* A crash keeps what was committed, here and at the relays.
LEMMA CrashKeeps ==
    ASSUME PubInv, Crash
    PROVE  Own'
    <1>1. /\ UNCHANGED fvars /\ UNCHANGED <<pvars, backing, moves>> /\ due' = {}
          /\ publisher' = [p \in Publishers |-> IdleRun]
        BY DEF Crash
    <1>2. OriginLives
        BY <1>1, QuietLives, Zenon
    <1>3. FedInv'
        BY <1>2, StepKeeps, Zenon DEF OriginLives, PubInv
    <1>4. RunsType' /\ RunsTrue'
        BY <1>1, <1>3, RunsEnd, Zenon
    <1>5. publication_targets \in [Endpoints -> Target] /\ RestType
        BY DEF PubInv, TypeOK, RestType
    <1>6. TargetsType' /\ TargetsTrue'
        <2>1. publication_targets' = publication_targets
            BY <1>1, SMTT(20) DEF pvars
        <2> QED
            BY <1>2, <1>5, <2>1, TargetsStay, Zenon
    <1>7. faults' \in 0 .. MaxFaults /\ due' \subseteq Endpoints
        BY <1>1, <1>5, PublicationAssumption, SMTT(20) DEF Crash, RestType
    <1> QED
        BY <1>1, <1>4, <1>5, <1>6, <1>7, Zenon DEF Own, RestType, pvars

\* A target that was never configured.
LEMMA NoTargetIs ==
    NoTarget \in Target /\ NoTarget.acknowledged = <<>> /\ NoTarget.relay_node_id = NULL
    <1>1. <<>> \in Chain
        BY DEF Chain
    <1> QED
        BY <1>1 DEF NoTarget, Target

\* With no target configured nothing is claimed.
LEMMA TargetsEmptied ==
    ASSUME FedInv', publication_targets' = [e \in Endpoints |-> NoTarget]
    PROVE  TargetsType' /\ TargetsTrue'
    <1>1. /\ publication_targets' \in [Endpoints -> Target]
          /\ \A e \in Endpoints : publication_targets'[e] = NoTarget
        BY NoTargetIs
    <1>2. log'[Origin] \in Chain
        BY PublicationAssumption DEF FedInv, FedTypeOK
    <1>3. \A e \in Endpoints : TrueNext(publication_targets'[e].acknowledged,
                                        publication_targets'[e].relay_node_id)
        BY <1>1, <1>2, NoTargetIs, EmptyIsTrue, Zenon DEF TrueNext
    <1> QED
        BY <1>1, <1>3, Zenon DEF TargetsType, TargetsTrue, TrueNext

\* A lost database takes the origin's claims with it, or a relay's duties.
LEMMA RestartKeeps ==
    ASSUME PubInv, [FedNext]_fvars, NEW n \in Nodes, Restart(n)
    PROVE  Own'
    <1> USE PublicationAssumption
    <1>1. FedInv'
        BY StepKeeps DEF PubInv
    <1>2. publication_targets \in [Endpoints -> Target] /\ RestType
        BY DEF PubInv, TypeOK, RestType
    <1>3. CASE n = Origin
        <2>1. /\ publication_targets' = [e \in Endpoints |-> NoTarget]
              /\ desired_replicas' = 2 /\ replication_work' = "none" /\ due' = {}
              /\ publisher' = [p \in Publishers |-> IdleRun] /\ UNCHANGED evars
            BY <1>3 DEF Restart
        <2>2. RestType'
            BY <1>2, <2>1, SMTT(20) DEF RestType, evars
        <2> QED
            BY <1>1, <2>1, <2>2, RunsEnd, TargetsEmptied, Zenon DEF Own
    <1>4. CASE n # Origin
        <2>1. UNCHANGED <<pvars, rvars, evars>>
            BY <1>4, Zenon DEF Restart
        <2>2. life'[Origin] = life[Origin]
            BY <1>4, SMTT(20) DEF Restart, LoseDatabase, PubInv, FedInv, FedTypeOK
        <2>3. OriginLives
            BY <2>2 DEF OriginLives
        <2>4. publication_targets' = publication_targets /\ publisher' = publisher
            BY <2>1 DEF pvars, rvars
        <2>5. RunsType' /\ RunsTrue' /\ TargetsType' /\ TargetsTrue'
            BY <1>2, <2>3, <2>4, RunsStay, TargetsStay, Zenon
        <2> QED
            BY <1>2, <2>1, <2>5, Zenon DEF Own, RestType, pvars, rvars, evars
    <1> QED
        BY <1>3, <1>4, Zenon

\* A step of the federation alone that keeps the origin's database.
LEMMA FederationKeeps ==
    ASSUME OriginLives, UNCHANGED <<pvars, rvars, evars>>
    PROVE  Own'
    <1>1. publication_targets \in [Endpoints -> Target] /\ RestType
        BY DEF OriginLives, PubInv, TypeOK, RestType
    <1>2. publication_targets' = publication_targets /\ publisher' = publisher
        BY DEF pvars, rvars
    <1>3. RunsType' /\ RunsTrue' /\ TargetsType' /\ TargetsTrue'
        BY <1>1, <1>2, RunsStay, TargetsStay, Zenon
    <1> QED
        BY <1>1, <1>3, Zenon DEF Own, RestType, pvars, rvars, evars

\* Nothing is claimed at the start.
LEMMA PublicationInit == Init => PubInv
    <1>1. SUFFICES ASSUME Init PROVE FedInv /\ Own
        BY PubInvIs
    <1> USE PublicationAssumption
    <1>2. FedInv
        BY <1>1, InitHolds, Zenon DEF Init
    <1>3. log[Origin] \in Chain
        BY <1>2 DEF FedInv, FedTypeOK
    <1>4. /\ publication_targets = [e \in Endpoints |-> NoTarget]
          /\ publisher = [p \in Publishers |-> IdleRun]
        BY <1>1 DEF Init
    <1>5. RestType
        BY <1>1, SMTT(20) DEF Init, RestType
    <1>6. RunsType /\ RunsTrue
        BY <1>3, <1>4, IdleRunIs, EmptyIsTrue, Zenon DEF RunsType, RunsTrue
    <1>7. TargetsType /\ TargetsTrue
        BY <1>3, <1>4, NoTargetIs, EmptyIsTrue, Zenon DEF TargetsType, TargetsTrue
    <1> QED
        BY <1>2, <1>5, <1>6, <1>7, Zenon DEF Own

\* Every step keeps the invariant.
LEMMA PublicationStep == PubInv /\ [Next]_vars => PubInv'
    <1>1. SUFFICES ASSUME PubInv, [Next]_vars PROVE PubInv'
        OBVIOUS
    <1>2. [FedNext]_fvars
        BY <1>1, PublicationSteps, Zenon DEF PubInv
    <1>3. FedInv'
        BY <1>1, <1>2, StepKeeps, Zenon DEF PubInv
    <1>4. SUFFICES Own'
        <2>1. (FedInv /\ Own)' => PubInv'
            BY PubInvIs, PTL
        <2> QED
            BY <1>3, <1>4, <2>1, SMTT(20)
    <1>5. ASSUME NEW kind \in ContentKinds, Author(Origin, kind), UNCHANGED <<pvars, rvars, evars>>
          PROVE  Own'
        <2>1. OriginLives
            BY <1>1, <1>2, <1>5 DEF OriginLives, Author
        <2> QED
            BY <1>5, <2>1, FederationKeeps, Zenon
    <1>6. CASE UNCHANGED vars
        <2>1. UNCHANGED fvars /\ UNCHANGED <<pvars, rvars, evars>>
            BY <1>6 DEF vars
        <2> QED
            BY <1>1, <2>1, QuietLives, FederationKeeps, Zenon
    <1> QED
        BY <1>1, <1>2, <1>5, <1>6, OperatorKeeps, ReadingKeeps, RelayKeeps, SuccessKeeps,
           FailureKeeps, CrashKeeps, RestartKeeps, Zenon DEF Next

-----------------------------------------------------------------------------
(* What follows for the recorded receipts.                                 *)

\* However runs, crashes, losses and moves interleave, types hold, and what the targets
\* and the runs under way say is true of the origin's log and of the relays.
THEOREM PublicationInvariant == Spec => []PubInv
    BY PublicationInit, PublicationStep, PTL DEF Spec

\* The publication tables and runs stay well formed.
THEOREM PublicationTypes == Spec => []TypeOK
    <1>1. PubInv => TypeOK
        BY DEF PubInv
    <1> QED
        BY <1>1, PublicationInvariant, PTL

\* Publication state stays on the origin's own chain (record_publication_success), for
\* any endpoints, publishers, page size and number of faults.
THEOREM AcknowledgedAlwaysOwn == Spec => []AcknowledgedIsOwn
    <1>1. PubInv => AcknowledgedIsOwn
        BY Zenon DEF PubInv, TargetsTrue, Truth, Continues, AcknowledgedIsOwn
    <1> QED
        BY <1>1, PublicationInvariant, PTL

\* Every receipt is true: the pinned relay holds the acknowledged range and its
\* checkpoint, unless it lost its database, for any endpoints, publishers and faults.
THEOREM AcknowledgedAlwaysRetained == Spec => []AcknowledgedIsRetained
    <1>1. PubInv => AcknowledgedIsRetained
        BY DEF PubInv, TargetsTrue, Truth, Continues, AcknowledgedIsRetained, Holds
    <1> QED
        BY <1>1, PublicationInvariant, PTL

\* The replicas that replication_health counts hold the log or lost a database.
LEMMA CountedReplicasHold ==
    ASSUME PubInv
    PROVE  recently_reconfirmed(publication_targets) \subseteq
               {r \in Relays : life[r] > 0 \/ Holds(r, log[Origin])}
    <1>1. ASSUME NEW e \in Endpoints, at_current_head(publication_targets, e)
          PROVE  LET r == publication_targets[e].relay_node_id
                 IN  r \in Relays /\ (life[r] > 0 \/ Holds(r, log[Origin]))
        <2> DEFINE r == publication_targets[e].relay_node_id
        <2>1. r # NULL /\ publication_targets[e].acknowledged = log[Origin]
            BY <1>1 DEF at_current_head
        <2>2. r \in Relays /\ r \in Nodes
            BY <2>1, SMTT(20) DEF PubInv, TypeOK, Target, Relays
        <2>3. life[r] \in Nat
            BY <2>2, Zenon DEF PubInv, FedInv, FedTypeOK
        <2>4. life[r] = 0 => Holds(r, log[Origin])
            BY <2>1 DEF PubInv, TargetsTrue, Truth, Continues, Holds
        <2> QED
            BY <2>2, <2>3, <2>4, SMTT(20)
    <1> QED
        BY <1>1, SMTT(20) DEF recently_reconfirmed

\* "replicated" means that at least desired_replicas distinct relays hold the whole log,
\* save those that lost a database (replication_health), for any number of relays.
THEOREM ReplicatedAlwaysMeansCopies == Spec => []ReplicatedMeansCopies
    <1>1. ASSUME PubInv PROVE ReplicatedMeansCopies
        <2> DEFINE counted == recently_reconfirmed(publication_targets)
                   copies == {r \in Relays : life[r] > 0 \/ Holds(r, log[Origin])}
        <2>1. SUFFICES ASSUME status = "replicated" PROVE Cardinality(copies) >= desired_replicas
            BY DEF ReplicatedMeansCopies
        <2>2. Cardinality(counted) >= desired_replicas
            <3> HIDE DEF counted
            <3> QED
                BY <2>1 DEF status, counted
        <2>3. counted \subseteq copies
            BY <1>1, CountedReplicasHold, SMTT(20)
        <2>4. copies \subseteq Nodes /\ IsFiniteSet(Nodes)
            BY PublicationAssumption DEF Relays
        <2> HIDE DEF counted, copies
        <2>5. IsFiniteSet(copies)
            BY <2>4, FS_Subset, Zenon
        <2>6. IsFiniteSet(counted) /\ Cardinality(counted) <= Cardinality(copies)
            BY <2>3, <2>5, FS_Subset, Zenon
        <2>7. Cardinality(counted) \in Nat /\ Cardinality(copies) \in Nat
            BY <2>5, <2>6, FS_CardinalityType, Zenon
        <2>8. desired_replicas \in Nat
            BY <1>1 DEF PubInv, TypeOK
        <2> QED
            BY <2>2, <2>6, <2>7, <2>8, SMTT(20) DEF copies
    <1> QED
        BY <1>1, PublicationInvariant, PTL

\* A target's receipt moves ahead on one chain, at one relay.
Advanced(old, new) ==
    /\ Continues(new.acknowledged, old.acknowledged)
    /\ old.relay_node_id # NULL => new.relay_node_id = old.relay_node_id

\* record_publication_success moves the receipt of its endpoint ahead.
LEMMA SuccessAdvances ==
    ASSUME PubInv, NEW p \in Publishers, record_publication_success(p), NEW f \in Endpoints
    PROVE  \/ Advanced(publication_targets[f], publication_targets'[f])
           \/ publication_targets'[f] = publication_targets[f]
    <1> USE PublicationAssumption
    <1> DEFINE run == publisher[p]
               old == publication_targets[run.endpoint]
    <1>1. /\ publication_targets \in [Endpoints -> Target] /\ run \in Run /\ run.endpoint \in Endpoints
          /\ log[Origin] \in Seq(Event) /\ run.page \in Seq(Event) /\ old.acknowledged \in Seq(Event)
        BY Zenon DEF PubInv, TypeOK, Run, Target, FedTypeOK, Chain
    <1>2. ASSUME UNCHANGED pvars PROVE publication_targets'[f] = publication_targets[f]
        BY <1>2 DEF pvars
    <1>3. ASSUME ReceiptAdmissible(p),
                 SetTarget(run.endpoint, [configured |-> TRUE, relay_node_id |-> run.relay,
                                          acknowledged |-> run.page, waiting |-> FALSE, recent |-> TRUE])
          PROVE  \/ Advanced(publication_targets[f], publication_targets'[f])
                 \/ publication_targets'[f] = publication_targets[f]
        <2>1. publication_targets' = [publication_targets EXCEPT ![run.endpoint] =
                 [configured |-> TRUE, relay_node_id |-> run.relay,
                  acknowledged |-> run.page, waiting |-> FALSE, recent |-> TRUE]]
            BY <1>3, SMTT(20) DEF SetTarget
        <2>2. CASE f = run.endpoint
            <3>1. /\ publication_targets'[f].acknowledged = run.page
                  /\ publication_targets'[f].relay_node_id = run.relay
                BY <1>1, <2>1, <2>2, Zenon
            <3>2. Continues(log[Origin], run.page) /\ Continues(log[Origin], old.acknowledged)
                BY <1>1, SMTT(20) DEF PubInv, RunsTrue, TargetsTrue, Truth
            <3>3. /\ old.relay_node_id \in {NULL, run.relay}
                  /\ Len(old.acknowledged) <= Len(run.page)
                BY <1>1, <1>3, Zenon DEF ReceiptAdmissible
            <3>4. Continues(run.page, old.acknowledged)
                BY <1>1, <3>2, <3>3, BothContinued, Zenon
            <3> QED
                BY <2>2, <3>1, <3>3, <3>4, Zenon DEF Advanced
        <2>3. CASE f # run.endpoint
            BY <1>1, <2>1, <2>3, SMTT(20)
        <2> QED
            BY <2>2, <2>3, Zenon
    <1> QED
        BY <1>2, <1>3, Zenon DEF record_publication_success

\* Every other step keeps the receipts, or takes them away with the origin's database.
LEMMA ReceiptsAdvance ==
    ASSUME PubInv, [Next]_vars, life'[Origin] = life[Origin], NEW f \in Endpoints
    PROVE  Advanced(publication_targets[f], publication_targets'[f])
    <1> USE PublicationAssumption
    <1> DEFINE old == publication_targets[f]
               new == publication_targets'[f]
               Same == new.acknowledged = old.acknowledged /\ new.relay_node_id = old.relay_node_id
    <1>1. publication_targets \in [Endpoints -> Target] /\ old \in Target
        BY DEF PubInv, TypeOK
    <1>2. ASSUME Same PROVE Advanced(old, new)
        <2>1. old.acknowledged \in Seq(Event)
            BY <1>1 DEF Target, Chain
        <2> QED
            BY <1>2, <2>1, ContinuesItself, Zenon DEF Advanced
    <1>3. ASSUME publication_targets' = publication_targets PROVE Same
        BY <1>3, SMTT(20)
    <1>4. ASSUME NEW e \in Endpoints, NEW t \in Target,
                 t.acknowledged = publication_targets[e].acknowledged,
                 t.relay_node_id = publication_targets[e].relay_node_id,
                 publication_targets' = [publication_targets EXCEPT ![e] = t]
          PROVE  Same
        BY <1>1, <1>4
    <1>5. ASSUME NEW e \in Endpoints, configure_publication_target(e) PROVE Same
        <2> DEFINE t == [publication_targets[e] EXCEPT !.configured = TRUE]
        <2>1. /\ t \in Target /\ t.acknowledged = publication_targets[e].acknowledged
              /\ t.relay_node_id = publication_targets[e].relay_node_id
            BY <1>1, TargetColumns, Zenon
        <2>2. publication_targets' = [publication_targets EXCEPT ![e] = t]
            BY <1>5 DEF configure_publication_target, SetTarget
        <2> HIDE DEF t
        <2> QED
            BY <1>4, <2>1, <2>2, Zenon
    <1>6. ASSUME NEW e \in Endpoints, NEW flag \in BOOLEAN,
                 publication_targets' = [publication_targets EXCEPT ![e] =
                                            [publication_targets[e] EXCEPT !.waiting = flag]]
          PROVE  Same
        <2> DEFINE t == [publication_targets[e] EXCEPT !.waiting = flag]
        <2>1. /\ t \in Target /\ t.acknowledged = publication_targets[e].acknowledged
              /\ t.relay_node_id = publication_targets[e].relay_node_id
            BY <1>1, TargetColumns, Zenon
        <2>2. publication_targets' = [publication_targets EXCEPT ![e] = t]
            BY <1>6
        <2> HIDE DEF t
        <2> QED
            BY <1>4, <2>1, <2>2, Zenon
    <1>7. ASSUME NEW e \in Endpoints, ConfigureOnly(e) \/ BackoffPasses(e) PROVE Same
        <2>1. BackoffPasses(e) => publication_targets' =
                 [publication_targets EXCEPT ![e] = [publication_targets[e] EXCEPT !.waiting = FALSE]]
            BY DEF BackoffPasses
        <2> QED
            BY <1>5, <1>6, <1>7, <2>1, Zenon DEF ConfigureOnly
    <1>8. ASSUME NEW p \in Publishers, record_publication_failure(p) PROVE Same
        <2>1. publisher[p].endpoint \in Endpoints
            BY DEF PubInv, TypeOK, Run
        <2> QED
            BY <1>3, <1>6, <1>8, <2>1, Zenon DEF record_publication_failure, SetTarget, pvars
    <1>9. ASSUME DayPasses PROVE Same
        <2>1. new = [old EXCEPT !.recent = FALSE]
            BY <1>9, SMTT(20) DEF DayPasses
        <2> QED
            BY <1>1, <2>1, TargetColumns, SMTT(20)
    <1>10. ASSUME NEW p \in Publishers,
                  \/ CheckHead(p) \/ SendPage(p) \/ RelayImports(p) \/ LoseMessage(p)
           PROVE  Same
        BY <1>3, <1>10, Zenon DEF CheckHead, SendPage, RelayImports, LoseMessage, pvars
    <1>11. ASSUME NEW p \in Publishers, NEW e \in Endpoints, Begin(p, e) PROVE Same
        BY <1>5, <1>11, Zenon DEF Begin
    <1>12. ASSUME NEW n \in Nodes, Restart(n) PROVE Same
        <2>1. n # Origin
            BY <1>12, SMTT(20) DEF Restart, LoseDatabase, PubInv, FedInv, FedTypeOK
        <2> QED
            BY <1>3, <1>12, <2>1, Zenon DEF Restart, pvars
    <1>13. ASSUME \/ LoopTick \/ work_page \/ Crash \/ UNCHANGED vars
                  \/ \E n \in DesiredChoices : set_desired_replicas(n)
                  \/ \E e \in Endpoints, relay \in Relays : MoveEndpoint(e, relay)
                  \/ UNCHANGED <<pvars, rvars, evars>>
           PROVE  Same
        BY <1>3, <1>13, Zenon DEF LoopTick, work_page, Crash, set_desired_replicas, MoveEndpoint,
           vars, pvars
    <1>14. ASSUME NEW p \in Publishers, record_publication_success(p) PROVE Advanced(old, new)
        <2>1. Advanced(old, new) \/ new = old
            BY <1>14, SuccessAdvances, Zenon
        <2>2. new = old => Same
            OBVIOUS
        <2> QED
            BY <1>2, <2>1, <2>2, Zenon
    <1> HIDE DEF Same
    <1> QED
        BY <1>2, <1>7, <1>8, <1>9, <1>10, <1>11, <1>12, <1>13, <1>14, Zenon DEF Next

\* An acknowledged head never moves back and a pinned relay is never exchanged while the
\* origin keeps its database, whichever of any number of runs records last.
THEOREM AcknowledgementsAdvance == Spec => AcknowledgementOnlyAdvances
    <1>1. ASSUME PubInv, [Next]_vars
          PROVE  [ life'[Origin] = life[Origin] =>
                     \A e \in Endpoints :
                         LET old == publication_targets[e]
                             new == publication_targets'[e]
                         IN  /\ Len(old.acknowledged) <= Len(new.acknowledged)
                             /\ Prefix(new.acknowledged, Len(old.acknowledged)) = old.acknowledged
                             /\ old.relay_node_id # NULL => new.relay_node_id = old.relay_node_id ]_vars
        BY <1>1, ReceiptsAdvance, Zenon DEF Advanced, Continues
    <1> QED
        BY <1>1, PublicationInvariant, PTL DEF Spec, AcknowledgementOnlyAdvances

=============================================================================
