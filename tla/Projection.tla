----------------------------- MODULE Projection -----------------------------
(***************************************************************************)
(* Nodes that accept signed contributions, collect feeds and import each   *)
(* other's logs, with the projections each of them keeps: its own news     *)
(* tables, a copy of the news tables of every origin it imports, and one   *)
(* set of commons tables fed by all of them (src/db.rs, src/ingest.rs,     *)
(* orient in src/service.rs).                                              *)
(*                                                                         *)
(* Who may author is the subject of LineageAuthority, and how a bundle     *)
(* reaches its importer that of Federation: here every contribution is     *)
(* authorized and an import takes the next event of an origin's log.       *)
(* A contribution or an event that is refused leaves everything alone.     *)
(* A bundle carries one event, and the witness event an import appends to  *)
(* the importer's log, on which a reader's cursor there counts, is the     *)
(* place of that event in the origin's log.                                *)
(*                                                                         *)
(* A scenario bounds what can happen: a prologue of steps that leads to    *)
(* the initial state, the objects that may be submitted after it, what the *)
(* feeds contain, and who reads.                                           *)
(***************************************************************************)
EXTENDS Forge, Commons

CONSTANTS
    Nodes,
    Scenarios,
    CoverageAreas,  \* BOOTSTRAP_SOURCE_COVERAGE
    MAX_ORIENTATION_PAGE,
    MailPage        \* the limit a recipient asks for

VARIABLES
    scenario,
    db,             \* per node: its database
    collector,      \* per node: the ingest loop
    reader,         \* per reader: a lineage that polls orientation
    inbox           \* per node and recipient: a lineage that polls its mail

vars == <<scenario, db, collector, reader, inbox>>

seed_bootstrap_work ==
    [EmptyTables EXCEPT !.work_items =
        {[id |-> WorkId("discover_sources", a), required |-> 0, status |-> "open"] :
            a \in CoverageAreas}]

EmptyDatabase ==
    [log |-> <<>>, news |-> seed_bootstrap_work, com |-> EmptyCommons,
     held |-> [o \in Nodes |-> 0], fed |-> [o \in Nodes |-> EmptyTables]]

----------------------------------------------------------------------------
(* Accepting at home.                                                      *)

validate_projection(D, n, c) ==
    /\ ~Knows(D.log, c.id)
    /\ validate_contribution_content(c)
    /\ validate_local_reporting(D.log, c)
    /\ validate_news(D.log, D.news, c)
    /\ validate_commons(D.com, n, c)
    /\ validate_local_forge(D.log, c)
    /\ projection_accepts(D.com, n, c)

append_contribution(D, n, c) ==
    LET L == Append(D.log, c)
    IN  [D EXCEPT !.log = L,
                  !.news = apply_news(L, @, c, Len(L)),
                  !.com = project_commons_contribution(@, n, Len(L), c)]

\* An observation already stored is answered with its earlier event.
store_observation(D, o) ==
    IF append_observation_accepts(D.news, o)
    THEN [D EXCEPT !.log = Append(@, ObservationEvent(D.news, o)),
                   !.news = append_observation(@, o, Len(D.log) + 1)]
    ELSE D

(* Importing the next event of origin o.                                   *)

import_accepts(D, o, L, e) ==
    IF e.kind = "observation"
    THEN federated_observation_accepts(D.fed[o], e)
    ELSE /\ validate_contribution_content(e)
         /\ validate_remote_reporting(L, e)
         /\ federated_news_accepts(L, D.fed[o], e)
         /\ e.kind \in CommonsKinds =>
                /\ validate_commons_routing(e)
                /\ validate_federated_commons_state(D.com, o, e)
                /\ projection_accepts(D.com, o, e)
         /\ e.kind \in ForgeKinds =>
                validate_commons_routing(e) /\ validate_remote_forge_state(L, e)

import_event(D, o, L, e) ==
    LET sequence == Len(L) + 1
    IN  [D EXCEPT !.held[o] = sequence,
                  !.fed[o] = IF e.kind = "observation"
                             THEN project_federated_observation(@, e, sequence)
                             ELSE apply_federated_news(L, @, e, sequence),
                  !.com = IF e.kind \in CommonsKinds
                          THEN project_commons_contribution(@, o, sequence, e) ELSE @]

HeldLog(d, n, o) == SubSeq(d[o].log, 1, d[n].held[o])
NextEvent(d, n, o) == d[o].log[d[n].held[o] + 1]
Behind(d, n, o) == n # o /\ d[n].held[o] < Len(d[o].log)

----------------------------------------------------------------------------
(* Initial states: the prologue of the scenario.                           *)

\* "legacy" is a report that a build from before the trace rule accepted.
PrologueStep(d, s) ==
    CASE s.op \in {"accept", "legacy"} ->
            [d EXCEPT ![s.node] = append_contribution(@, s.node, s.object)]
      [] s.op = "observe" -> [d EXCEPT ![s.node] = store_observation(@, s.observation)]
      [] s.op = "fetch" ->
            [d EXCEPT ![s.node].news = mark_source_fetch(@, s.source, TRUE)]
      [] s.op = "import" ->
            [d EXCEPT ![s.node] = import_event(@, s.origin, HeldLog(d, s.node, s.origin),
                                               NextEvent(d, s.node, s.origin))]

StepAllowed(d, s) ==
    CASE s.op = "accept" -> validate_projection(d[s.node], s.node, s.object)
      [] s.op = "legacy" -> s.object.traces = {}
      [] s.op = "observe" -> append_observation_accepts(d[s.node].news, s.observation)
      [] s.op = "fetch" -> TRUE
      [] s.op = "import" ->
            /\ Behind(d, s.node, s.origin)
            /\ import_accepts(d[s.node], s.origin, HeldLog(d, s.node, s.origin),
                              NextEvent(d, s.node, s.origin))

Prologue(steps) == FoldLeft(PrologueStep, [n \in Nodes |-> EmptyDatabase], steps)

\* Every prologue is a run of the nodes.
ASSUME PrologueAssumption ==
    \A sc \in Scenarios : \A i \in DOMAIN sc.prologue :
        StepAllowed(Prologue(SubSeq(sc.prologue, 1, i - 1)), sc.prologue[i])

\* The stories of origin o as node n shows them: its own, or a federated copy.
TablesAt(n, o) == IF n = o THEN db[n].news ELSE db[n].fed[o]
ViewAt(n, o, story) ==
    IF n = o THEN story_view(db[n].log, db[n].news, story)
    ELSE federated_story_view(db[n].fed[o], story)
ShownAt(n, o, stories) == UNION {{<<s, i>> : i \in ViewAt(n, o, s)} : s \in stories}

\* The cursor up to which a reader at n can be told about the stories of o: n's
\* own head, or the import that brought the last event of o.
Horizon(n, o) == IF n = o THEN Len(db[n].log) ELSE db[n].held[o]

IdleCollector == [phase |-> "idle", queue |-> <<>>, entries |-> <<>>, passes |-> 0]

\* A reader has read up to the end of the prologue.
Init ==
    /\ scenario \in Scenarios
    /\ db = Prologue(scenario.prologue)
    /\ collector = [n \in Nodes |-> IdleCollector]
    /\ reader = [r \in scenario.readers |->
                    LET n == r[1]
                        o == r[2]
                    IN  [phase |-> "idle", cursor |-> Horizon(n, o), next |-> Horizon(n, o),
                         seen |-> ShownAt(n, o, StandingStories(TablesAt(n, o)))]]
    /\ inbox = [m \in Nodes \X scenario.recipients |-> [cursor |-> 0, received |-> <<>>]]

----------------------------------------------------------------------------
(* Contributions and imports.                                              *)

Contribute(n) ==
    \E c \in scenario.menu[n] :
        /\ Len(db[n].log) < scenario.limit
        /\ validate_projection(db[n], n, c)
        /\ db' = [db EXCEPT ![n] = append_contribution(@, n, c)]
        /\ UNCHANGED <<scenario, collector, reader, inbox>>

Import(n, o) ==
    /\ Behind(db, n, o)
    /\ import_accepts(db[n], o, HeldLog(db, n, o), NextEvent(db, n, o))
    /\ db' = [db EXCEPT ![n] = import_event(@, o, HeldLog(db, n, o), NextEvent(db, n, o))]
    /\ UNCHANGED <<scenario, collector, reader, inbox>>

----------------------------------------------------------------------------
(* The collector.  The sources of a pass are listed once, at its start; a  *)
(* feed is fetched and its entries are appended one transaction at a time. *)

\* ingest_due: the sources whose interval has passed, any of the ingestible ones.
StartPass(n) ==
    /\ collector[n].phase = "idle"
    /\ collector[n].passes < scenario.passes
    /\ \E due \in SUBSET ingestible_sources(db[n].log, db[n].news) :
        /\ due # {}
        /\ collector' = [collector EXCEPT ![n].phase = "fetching", ![n].queue = SetToSeq(due),
                                          ![n].passes = @ + 1]
    /\ UNCHANGED <<scenario, db, reader, inbox>>

FetchReturns(n) ==
    /\ collector[n].phase = "fetching"
    /\ \E entries \in scenario.feeds[Head(collector[n].queue)] :
        collector' = [collector EXCEPT ![n].phase = "appending", ![n].entries = entries]
    /\ UNCHANGED <<scenario, db, reader, inbox>>

AppendEntry(n) ==
    /\ collector[n].phase = "appending"
    /\ collector[n].entries # <<>>
    /\ Len(db[n].log) < scenario.limit
    /\ LET entry == Head(collector[n].entries)
       IN  db' = [db EXCEPT ![n] = store_observation(@, <<Head(collector[n].queue),
                                                          entry[1], entry[2]>>)]
    /\ collector' = [collector EXCEPT ![n].entries = Tail(@)]
    /\ UNCHANGED <<scenario, reader, inbox>>

\* The source is marked and the pass goes on with the next one.
Mark(n, success) ==
    /\ db' = [db EXCEPT ![n].news = mark_source_fetch(@, Head(collector[n].queue), success)]
    /\ collector' = [collector EXCEPT
            ![n].phase = IF Len(collector[n].queue) = 1 THEN "idle" ELSE "fetching",
            ![n].queue = Tail(@), ![n].entries = <<>>]
    /\ UNCHANGED <<scenario, reader, inbox>>

FinishSource(n) ==
    /\ collector[n].phase = "appending"
    /\ collector[n].entries = <<>>
    /\ Mark(n, TRUE)

\* The fetch or the parse fails, or the append of an entry; entries appended before
\* stay.
FailSource(n) ==
    /\ \/ collector[n].phase = "fetching"
       \/ collector[n].phase = "appending" /\ collector[n].entries # <<>>
    /\ Mark(n, FALSE)

\* The process dies during a pass: nothing is marked.
CrashCollector(n) ==
    /\ collector[n].phase # "idle"
    /\ collector' = [collector EXCEPT ![n] = [IdleCollector EXCEPT
                                                !.passes = collector[n].passes]]
    /\ UNCHANGED <<scenario, db, reader, inbox>>

----------------------------------------------------------------------------
(* Readers.  orient reads a page of events, and the stories it changed in  *)
(* another transaction.                                                    *)

Changed(n, o, after, through) ==
    IF n = o THEN changed_story_ids(db[n].log, db[n].news, after, through)
    ELSE federated_changed_story_ids(db[n].fed[o], after, through)

OrientPage(r) ==
    /\ reader[r].phase = "idle"
    /\ reader[r].cursor < Horizon(r[1], r[2])
    /\ reader' = [reader EXCEPT ![r].phase = "paged",
                       ![r].next = Min({reader[r].cursor + MAX_ORIENTATION_PAGE,
                                        Horizon(r[1], r[2])})]
    /\ UNCHANGED <<scenario, db, collector, inbox>>

\* Any story that is not found fails the orientation as a whole.
OrientationAnswers(r) ==
    \A s \in Changed(r[1], r[2], reader[r].cursor, reader[r].next) :
        Stands(TablesAt(r[1], r[2]), s)

OrientStories(r) ==
    /\ reader[r].phase = "paged"
    /\ LET changed == Changed(r[1], r[2], reader[r].cursor, reader[r].next)
       IN  reader' = [reader EXCEPT ![r] =
            IF OrientationAnswers(r)
            THEN [phase |-> "idle", cursor |-> @.next, next |-> @.next,
                  seen |-> {x \in @.seen : x[1] \notin changed}
                           \cup ShownAt(r[1], r[2], changed)]
            ELSE [@ EXCEPT !.phase = "idle", !.next = reader[r].cursor]]
    /\ UNCHANGED <<scenario, db, collector, inbox>>

\* next_cursor is the last message of the page.
ReadMail(m) ==
    LET page == direct_messages(db[m[1]].com, m[2], inbox[m].cursor, MailPage)
    IN  /\ page # {}
        /\ inbox' = [inbox EXCEPT ![m].cursor = Max({x.projection : x \in page}),
                                  ![m].received = @ \o SetToSeq({x.message : x \in page})]
        /\ UNCHANGED <<scenario, db, collector, reader>>

Next ==
    \/ \E n \in Nodes :
        \/ Contribute(n)
        \/ \E o \in Nodes : Import(n, o)
        \/ StartPass(n) \/ FetchReturns(n) \/ AppendEntry(n)
        \/ FinishSource(n) \/ FailSource(n) \/ CrashCollector(n)
    \/ \E m \in DOMAIN inbox : ReadMail(m)
    \/ \E r \in DOMAIN reader : OrientPage(r) \/ OrientStories(r)

Spec == Init /\ [][Next]_vars

----------------------------------------------------------------------------
(* Properties.                                                             *)

\* What an origin's news tables say to others: whether a source is active or
\* degraded is known at home only, and so is the work.
Public(T) ==
    [T EXCEPT !.sources = {[source |-> s.source, proposer |-> s.proposer,
                            proposed |-> s.status = "proposed"] : s \in @},
              !.work_items = {}, !.work_claims = {}, !.work_results = {},
              !.story_events = {}]

\* An importer that holds an origin's whole log has rebuilt the origin's sources,
\* reviews, observations, stories, links, verifications and assessments, although
\* apply_federated_contribution computes them with its own rules and one event
\* before its row can be joined.
ReplicaMirrorsOrigin ==
    \A n, o \in Nodes :
        n # o /\ ~Behind(db, n, o) => Public(db[n].fed[o]) = Public(db[o].news)

\* A link or an assessment whose story the importer has merged, which home accepts
\* because ensure_exists ignores merged_into; an observation whose title or summary
\* truncate left one character over the importer's limit.
NamesMergedStory(T, e) == e.kind \in {"story_link", "assessment"} /\ ~Stands(T, e.story)
TextOverLimit(e) ==
    e.kind = "observation" /\ (e.title > MAX_TITLE_CHARS \/ e.summary > MAX_SUMMARY_CHARS)

\* Whatever a node accepts, and in whatever order its peers learn the logs of other
\* origins, the next event imports: except for the two mismatches between the rules
\* of validate_projection or truncate and those of the importer.
EveryEventImports ==
    \A n, o \in Nodes :
        Behind(db, n, o) =>
            LET e == NextEvent(db, n, o)
            IN  \/ import_accepts(db[n], o, HeldLog(db, n, o), e)
                \/ NamesMergedStory(db[n].fed[o], e)
                \/ TextOverLimit(e)

\* merged_into leads from every federated story to one that stands, a story stands
\* exactly when it holds an observation, and every observation is in one story:
\* links in any order never lose or hide an observation.
NextStory(T, s) == (CHOOSE r \in T.stories : r.id = s).merged_into
RECURSIVE Leads(_, _, _)
Leads(T, s, steps) == Stands(T, s) \/ (steps > 0 /\ Leads(T, NextStory(T, s), steps - 1))

FederatedStoriesAreWhole ==
    \A n, o \in Nodes :
        LET T == db[n].fed[o]
        IN  /\ \A s \in T.stories :
                /\ (s.merged_into = NoStory) = (Holds(T, s.id) # {})
                /\ Leads(T, s.id, Cardinality(T.stories))
            /\ \A x \in T.observations :
                Cardinality({p \in T.story_observations : p.observation = x.id}) = 1

\* The lineages that ever approved a source with a traceable review.
Approvers(L, source) ==
    {L[i].lineage : i \in {i \in DOMAIN L : /\ L[i].kind = "source_review"
                                            /\ L[i].source = source
                                            /\ L[i].recommendation = "approve"
                                            /\ is_traceable(L[i])}}

\* A source leaves 'proposed', at home and at every importer, only after two lineages
\* other than its proposer approved it with traceable reviews; one lineage that
\* repeats or revises its review counts once.
PromotionIsEarned ==
    \A n, o \in Nodes :
        LET L == IF n = o THEN db[n].log ELSE HeldLog(db, n, o)
        IN  \A s \in TablesAt(n, o).sources :
                s.status # "proposed" =>
                    Cardinality(Approvers(L, s.source) \ {s.proposer}) >= 2

\* The lineages whose traceable reports in a log, of one kind, are about a subject.
Reporters(L, kind, About(_)) ==
    {L[i].lineage : i \in {i \in DOMAIN L : L[i].kind = kind /\ is_traceable(L[i])
                                                            /\ About(L[i])}}

\* Whether the reports a log ever held could have settled an item: two lineages that
\* agree on a source, two that verified or assessed, one link into the pair, or enough
\* results; nothing but results for other work.
Settled(L, w) ==
    LET kind == w.id[2]
        subject == w.id[3]
        Recommend(r) == Reporters(L, "source_review",
                                  LAMBDA c : c.source = subject /\ c.recommendation = r)
        results == Reporters(L, "work_result",
                        LAMBDA c : c.work = w.id /\ c.outcome \in {"completed", "no_match"})
    IN  \/ w.required > 0 /\ Cardinality(results) >= w.required
        \/ /\ kind = "review_source"
           /\ \E r \in {"approve", "reject"} : Cardinality(Recommend(r)) >= 2
        \/ /\ kind = "verify_observation"
           /\ Cardinality(Reporters(L, "observation_verification",
                                    LAMBDA c : c.observation = subject)) >= 2
        \/ /\ kind = "assess_story"
           /\ Cardinality(Reporters(L, "assessment", LAMBDA c : c.story = subject)) >= 2
        \/ /\ kind = "cluster_stories"
           /\ Reporters(L, "story_link", LAMBDA c : c.story \in subject) # {}

\* Communal work is done exactly when independent reports have done it: an item is
\* completed only by enough lineages, and an observation or a story that two lineages
\* have verified or assessed leaves no item open, whichever of a result, a report and a
\* link comes first and however often one lineage revises its own.
WorkFollowsReports ==
    \A n \in Nodes : \A w \in db[n].news.work_items :
        /\ w.status = "complete" => Settled(db[n].log, w)
        /\ w.status = "open" /\ w.id[2] \in {"verify_observation", "assess_story"} =>
                ~Settled(db[n].log, [w EXCEPT !.required = 0])

\* The events of origin o that node n has, as <<o, sequence>>.
EventsAt(n) ==
    UNION {{<<o, i>> : i \in 1 .. Horizon(n, o)} : o \in Nodes}
Object(x) == db[x[1]].log[x[2]]
OfKind(n, kind) == {x \in EventsAt(n) : Object(x).kind = kind}
Latest(xs, Same(_, _)) ==
    {x \in xs : \A y \in xs : y[1] = x[1] /\ Same(Object(x), Object(y)) => y[2] <= x[2]}

SameVote(c, d) == c.topic = d.topic /\ c.lineage = d.lineage
SameKey(c, d) == c.lineage = d.lineage /\ c.fingerprint = d.fingerprint

\* A node's topics, votes, posts, keys and mail are those of the events it has,
\* whatever the order in which local and imported events met in the shared tables:
\* of each origin the latest vote of a lineage and the latest announcement of a key,
\* and an object that two origins accepted once.
CommonsMatchHistory ==
    \A n \in Nodes :
        LET K == db[n].com
        IN  /\ {t.topic : t \in K.forum_topics} =
                    {Object(x).id : x \in OfKind(n, "topic_proposal")}
            /\ K.forum_topic_votes =
                    {[topic |-> Object(x).topic, lineage |-> Object(x).lineage, origin |-> x[1],
                      sequence |-> x[2], event |-> Object(x).id, choice |-> Object(x).choice] :
                        x \in Latest(OfKind(n, "topic_vote"), SameVote)}
            /\ {p.post : p \in K.forum_posts} =
                    {Object(x).id : x \in OfKind(n, "forum_post")}
            /\ K.openpgp_keys =
                    {[lineage |-> Object(x).lineage, fingerprint |-> Object(x).fingerprint,
                      origin |-> x[1], sequence |-> x[2], event |-> Object(x).id,
                      action |-> Object(x).action] :
                        x \in Latest(OfKind(n, "openpgp_key"), SameKey)}
            /\ \A x \in OfKind(n, "direct_message") :
                    Cardinality({m \in K.direct_messages : m.message = Object(x).id}) = 1

Keys(K) == {<<k.lineage, k.fingerprint>> : k \in K.openpgp_keys}

\* Once a node has seen a fingerprint revoked, through any origin, no later publish,
\* update or import makes it active there again.
RevocationIsFinal ==
    [][\A n \in Nodes : \A k \in Keys(db[n].com) :
        Announced(db[n].com, k[1], k[2], "revoke") =>
            ~openpgp_key_is_active(db'[n].com, k[1], k[2])]_vars

\* A recipient that polls a node with the cursor of its last page has received every
\* message up to that cursor, and each one once, although messages of several origins
\* arrive in any order and the same message may arrive through two of them.
MailboxMissesNothing ==
    \A m \in DOMAIN inbox :
        /\ IsInjective(inbox[m].received)
        /\ ToSet(inbox[m].received) =
                {x.message : x \in {x \in db[m[1]].com.direct_messages :
                    x.recipient = m[2] /\ x.projection <= inbox[m].cursor}}

\* What a link that does not name its story among its targets has brought into the
\* story: an observation and the reports on it.
MovedUnannounced(L, T) ==
    UNION {{<<p.story, ObservationId(p.observation)>>}
           \cup {<<p.story, <<"report", v.event>>>> :
                    v \in {v \in T.observation_verifications : v.observation = p.observation}} :
                p \in {p \in T.story_observations :
                    p.linked # NoEvent /\ StoryId(p.story) \notin L[p.linked].targets}}

\* A lineage that has polled up to the head has been shown every observation, report,
\* link and correction that a story now has, although stories merge and observations
\* move between the event and the poll.  At home changed_story_ids finds a link by its
\* targets only, so there one exception is exact: what an unannounced link has moved.
ReaderIsCurrent ==
    \A r \in DOMAIN reader :
        LET n == r[1]
            o == r[2]
        IN  /\ reader[r].phase = "idle"
            /\ reader[r].cursor = Horizon(n, o)
            => ShownAt(n, o, StandingStories(TablesAt(n, o))) \ reader[r].seen
                \subseteq IF n = o THEN MovedUnannounced(db[n].log, db[n].news) ELSE {}

\* Lineage orientation "remains the cursor-based change replay surface for new
\* observations, assessments, and corrections on existing stories"
\* (docs/protocol.md): orient answers for every window of events.
OrientationAlwaysAnswers ==
    \A r \in DOMAIN reader : reader[r].phase = "paged" => OrientationAnswers(r)

=============================================================================
