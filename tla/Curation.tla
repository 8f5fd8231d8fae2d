------------------------------ MODULE Curation ------------------------------
(***************************************************************************)
(* The news tables of src/db.rs: sources and their reviews, observations,  *)
(* stories, verifications, assessments and the communal work they open.    *)
(*                                                                         *)
(* A database keeps these tables twice: the local ones, written by         *)
(* append_contribution and append_observation, and for every foreign       *)
(* origin the federated_* ones, written while that origin's log is         *)
(* imported.  Both are a record T of sets of rows; L is the log the rows   *)
(* refer to: events, or remote_events up to the event being applied.  A    *)
(* row's event is the place of its event in L.                             *)
(*                                                                         *)
(* Abstractions.  An observation id is its source, URL and document, the   *)
(* three values the code hashes; a story id is the observation it was      *)
(* founded on.  An event_id hashes the signed object, so it is a name the  *)
(* object carries, the same at every node that accepts it; observations    *)
(* are signed by the node and no object names them.  Payload text, which   *)
(* both ends check with the same validate_contribution_content, is the     *)
(* flag well_formed.  A contribution is traceable when it cites traces.    *)
(***************************************************************************)
EXTENDS Integers, FiniteSets, SequencesExt

CONSTANTS
    MAX_TITLE_CHARS,
    MAX_SUMMARY_CHARS,
    TitleTerms,     \* the words title_terms keeps of a document's title
    TitleLength,    \* the length of the title as the feed gives it
    SummaryLength   \* and of the summary

\* merged_into of a story that stands, linked_event_id of an observation that
\* no link has moved.
NoStory == <<>>
NoEvent == 0

EmptyTables ==
    [sources |-> {}, source_reviews |-> {}, observations |-> {}, stories |-> {},
     story_observations |-> {}, observation_verifications |-> {}, assessments |-> {},
     work_items |-> {}, work_claims |-> {}, work_results |-> {}, story_events |-> {}]

\* Faulty: a revised report is a further row.
Upsert_repeated(rows, row, key) == rows \cup {row}

\* INSERT ... ON CONFLICT(key) DO UPDATE SET every other column.
Upsert(rows, row, key) == {r \in rows : \E k \in key : r[k] # row[k]} \cup {row}

\* The identifiers a trace or a target can name, apart by their prefix.
SourceId(s) == <<"cwsrc", s>>
ObservationId(o) == <<"cwobs", o>>
StoryId(s) == <<"cwstory", s>>
EventId(id) == <<"cwevt", id>>
WorkId(kind, subject) == <<"cwwork", kind, subject>>

Evidentiary ==
    {"source_review", "observation_verification", "story_link", "assessment", "correction",
     "work_result", "code_review", "build_attestation", "release_proposal", "release_review"}
ForgeKinds ==
    {"repository_patch", "code_review", "build_attestation", "release_proposal",
     "release_review"}
CommonsKinds == {"topic_proposal", "topic_vote", "forum_post", "openpgp_key", "direct_message"}

----------------------------------------------------------------------------
(* Content and traceable reporting.                                        *)

\* The fields of the payload, their number and size: one check, at home and at an
\* importer.
validate_contribution_content(c) == c.well_formed

is_traceable(c) == c.traces # {}

\* A row joined to its event: the event is there, and it is traceable.
Traced(L, event) == event \in DOMAIN L /\ is_traceable(L[event])
TracedCount(L, rows) == Cardinality({r \in rows : Traced(L, r.event)})

EventsNamed(L, id) == {i \in DOMAIN L : L[i].kind # "observation" /\ L[i].id = id}
Knows(L, id) == EventsNamed(L, id) # {}
trace_subject(L, t) ==
    {L[i].subject : i \in {i \in EventsNamed(L, t) : L[i].kind = "verification_trace"}}
IsTrace(L, t) == trace_subject(L, t) # {}

report_subject_ids(c) ==
    CASE c.kind = "source_review" -> {SourceId(c.source)}
      [] c.kind = "observation_verification" -> {ObservationId(c.observation)}
      [] c.kind = "story_link" ->
            {StoryId(c.story)} \cup {ObservationId(o) : o \in ToSet(c.observations)}
      [] c.kind = "assessment" -> {StoryId(c.story)}
      [] c.kind = "correction" -> {EventId(c.subject)}
      [] c.kind = "work_result" -> {c.work}
      [] OTHER -> c.targets

TracesConcern(L, c) ==
    \A t \in c.traces : trace_subject(L, t) \cap report_subject_ids(c) # {}

validate_local_reporting(L, c) ==
    IF c.kind = "verification_trace"
    THEN \A p \in c.parents : IsTrace(L, p)
    ELSE /\ c.kind \in Evidentiary => is_traceable(c)
         /\ TracesConcern(L, c)

\* Faulty: the rule for local reports, also for an origin's earlier ones.
validate_remote_reporting_strict(L, c) == validate_local_reporting(L, c)

\* A report from before the trace rule is imported, untraced; a forge record is not.
validate_remote_reporting(L, c) ==
    IF c.kind = "verification_trace"
    THEN \A p \in c.parents : IsTrace(L, p)
    ELSE /\ c.kind \in Evidentiary \cap ForgeKinds => is_traceable(c)
         /\ TracesConcern(L, c)

----------------------------------------------------------------------------
(* Communal work.                                                          *)

HasWork(W, kind, subject) == \E w \in W : w.id = WorkId(kind, subject)

\* INSERT OR IGNORE: a completed item is not opened again.
insert_work_item(W, kind, subject, required) ==
    IF HasWork(W, kind, subject)
    THEN W
    ELSE W \cup {[id |-> WorkId(kind, subject), required |-> required, status |-> "open"]}

CompleteItems(W, done) ==
    {IF w.status = "open" /\ w \in done THEN [w EXCEPT !.status = "complete"] ELSE w : w \in W}

complete_work(W, kind, subject) ==
    CompleteItems(W, {w \in W : w.id = WorkId(kind, subject)})

ensure_open_work(W, work) == \E w \in W : w.id = work /\ w.status = "open"

\* Candidates are the standing stories whose title shares enough words, of the
\* newest 50; the bounded instances have fewer.
title_similarity(first, second) ==
    LET x == TitleTerms[first]
        y == TitleTerms[second]
    IN  IF x = {} \/ y = {}
        THEN 0
        ELSE (100 * Cardinality(x \cap y)) \div Cardinality(x \cup y)

story_pair_id(first, second) == {first, second}

insert_cluster_candidates(T, story) ==
    LET similar == {s \in T.stories : /\ s.id # story
                                      /\ s.merged_into = NoStory
                                      /\ title_similarity(story[3], s.id[3]) >= 15}
    IN  FoldLeft(LAMBDA W, s : insert_work_item(W, "cluster_stories",
                                                story_pair_id(story, s.id), 1),
                 T.work_items, SetToSeq(similar))

----------------------------------------------------------------------------
(* Sources.                                                                *)

ReviewsOf(T, source) == {r \in T.source_reviews : r.source = source}
Approvals(L, T, source) ==
    TracedCount(L, {r \in ReviewsOf(T, source) : r.recommendation = "approve"})
Rejections(L, T, source) ==
    TracedCount(L, {r \in ReviewsOf(T, source) : r.recommendation = "reject"})

HasStatus(T, source, statuses) ==
    \E s \in T.sources : s.source = source /\ s.status \in statuses

Promote(T, source) ==
    [T EXCEPT !.sources = {IF s.source = source /\ s.status = "proposed"
                           THEN [s EXCEPT !.status = "probation"] ELSE s : s \in @}]

AfterFetch(s, success) ==
    IF success
    THEN [s EXCEPT !.successful_fetches = @ + 1, !.consecutive_failures = 0,
                   !.status = IF \/ @ = "degraded"
                                 \/ @ = "probation" /\ s.successful_fetches >= 9
                              THEN "active" ELSE @]
    ELSE [s EXCEPT !.consecutive_failures = @ + 1,
                   !.status = IF @ = "active" /\ s.consecutive_failures >= 2
                              THEN "degraded" ELSE @]

\* The outcome of one fetch.  It is no event: no other node hears of it.
mark_source_fetch(T, source, success) ==
    [T EXCEPT !.sources = {IF s.source = source THEN AfterFetch(s, success) ELSE s : s \in @}]

ingestible_sources(L, T) ==
    {s.source : s \in {s \in T.sources : /\ s.status \in {"probation", "active", "degraded"}
                                         /\ Approvals(L, T, s.source) >= 2}}

----------------------------------------------------------------------------
(* Observations and stories.                                               *)

\* What the collector stores of a title or a summary: its first maximum characters,
\* and an ellipsis when that cut it.
truncate(length, maximum) == IF length > maximum THEN maximum + 1 ELSE length

StoryOf(T, o) == (CHOOSE p \in T.story_observations : p.observation = o).story
Holds(T, story) == {p.observation : p \in {p \in T.story_observations : p.story = story}}
Known(T, o) == \E r \in T.observations : r.id = o
Exists(T, story) == \E s \in T.stories : s.id = story
Stands(T, story) == \E s \in T.stories : s.id = story /\ s.merged_into = NoStory

\* The story of the earliest observation of the same source and URL, or a new
\* story founded on this one.
ClusterOf(T, o) ==
    LET same == {r \in T.observations : r.id[1] = o[1] /\ r.id[2] = o[2]}
    IN  IF same = {}
        THEN o
        ELSE StoryOf(T, (CHOOSE r \in same : \A q \in same : r.event <= q.event).id)

PlaceObservation(T, o, story, event) ==
    [T EXCEPT !.stories = IF Exists(T, story) THEN @
                          ELSE @ \cup {[id |-> story, merged_into |-> NoStory,
                                        event |-> event]},
              !.observations = @ \cup {[id |-> o, event |-> event]},
              !.story_observations = @ \cup {[observation |-> o, story |-> story,
                                              linked |-> NoEvent]}]

ObservationEvent(T, o) ==
    [kind |-> "observation", observation |-> o, story |-> ClusterOf(T, o),
     title |-> truncate(TitleLength[o[3]], MAX_TITLE_CHARS),
     summary |-> truncate(SummaryLength[o[3]], MAX_SUMMARY_CHARS), traces |-> {}]

append_observation_accepts(T, o) ==
    ~Known(T, o) /\ HasStatus(T, o[1], {"probation", "active", "degraded"})

append_observation(T, o, event) ==
    LET story == ClusterOf(T, o)
        placed == PlaceObservation(T, o, story, event)
        work == insert_work_item(insert_work_item(T.work_items, "verify_observation", o, 2),
                                 "assess_story", story, 2)
        with_work == [placed EXCEPT !.work_items = work]
    IN  IF story = o
        THEN [with_work EXCEPT !.work_items = insert_cluster_candidates(with_work, story)]
        ELSE with_work

\* Faulty: the story is merged although it keeps other observations.
Move_merging(T, o, story, event) ==
    LET old == StoryOf(T, o)
    IN  IF old = story
        THEN T
        ELSE [T EXCEPT !.story_observations =
                            {IF p.observation = o
                             THEN [p EXCEPT !.story = story, !.linked = event] ELSE p : p \in @},
                       !.stories = {IF s.id = old THEN [s EXCEPT !.merged_into = story] ELSE s :
                                        s \in @},
                       !.work_items = complete_work(@, "cluster_stories",
                                                    story_pair_id(story, old))]

\* One observation of a link: a story that keeps no observation is merged.
Move(T, o, story, event) ==
    LET old == StoryOf(T, o)
        placed == {IF p.observation = o
                   THEN [p EXCEPT !.story = story, !.linked = event] ELSE p :
                        p \in T.story_observations}
    IN  IF old = story
        THEN T
        ELSE [T EXCEPT !.story_observations = placed,
                       !.stories = {IF s.id = old /\ ~\E p \in placed : p.story = old
                                    THEN [s EXCEPT !.merged_into = story] ELSE s : s \in @},
                       !.work_items = complete_work(@, "cluster_stories",
                                                    story_pair_id(story, old))]

MoveAll(T, c, event) ==
    FoldLeft(LAMBDA t, o : Move(t, o, c.story, event), T, c.observations)

----------------------------------------------------------------------------
(* Contributions accepted at home.                                         *)

\* The arms of validate_projection for the news kinds.  A link and an assessment
\* only need the story to exist; ensure_exists does not look at merged_into.
validate_news(L, T, c) ==
    CASE c.kind = "source_proposal" -> ~\E s \in T.sources : s.source = c.source
      [] c.kind = "source_review" ->
            \E s \in T.sources : s.source = c.source /\ s.proposer # c.lineage
      [] c.kind = "observation_verification" -> Known(T, c.observation)
      [] c.kind = "story_link" ->
            /\ Exists(T, c.story)
            /\ c.observations # <<>> /\ IsInjective(c.observations)
            /\ \A o \in ToSet(c.observations) : Known(T, o)
      [] c.kind = "assessment" -> Exists(T, c.story)
      [] c.kind = "correction" -> Knows(L, c.subject) /\ c.subject \in c.supersedes
      [] c.kind = "work_claim" ->
            ensure_open_work(T.work_items, c.work) /\ c.lease_minutes \in 1 .. 240
      [] c.kind = "work_result" -> ensure_open_work(T.work_items, c.work)
      [] OTHER -> TRUE

NewSource(c) ==
    [source |-> c.source, proposer |-> c.lineage, status |-> "proposed",
     successful_fetches |-> 0, consecutive_failures |-> 0]
Review(c, event) ==
    [source |-> c.source, lineage |-> c.lineage, recommendation |-> c.recommendation,
     event |-> event]
Verification(c, event) ==
    [observation |-> c.observation, lineage |-> c.lineage, outcome |-> c.outcome,
     event |-> event]
Assessment(c, event) == [story |-> c.story, lineage |-> c.lineage, event |-> event]
Claim(c, event) == [work |-> c.work, lineage |-> c.lineage, event |-> event]
Result(c, event) ==
    [work |-> c.work, lineage |-> c.lineage, outcome |-> c.outcome, event |-> event]

apply_source_proposal(T, c) ==
    [T EXCEPT !.sources = @ \cup {NewSource(c)},
              !.work_items = insert_work_item(@, "review_source", c.source, 2)]

\* L already holds the event: append_event comes before apply_projection.
apply_source_review(L, T, c, event) ==
    LET reviewed == [T EXCEPT !.source_reviews =
                        Upsert(@, Review(c, event), {"source", "lineage"})]
        approvals == Approvals(L, reviewed, c.source)
        decided == approvals >= 2 \/ Rejections(L, reviewed, c.source) >= 2
        promoted == IF approvals >= 2 THEN Promote(reviewed, c.source) ELSE reviewed
    IN  IF decided
        THEN [promoted EXCEPT !.work_items = complete_work(@, "review_source", c.source)]
        ELSE promoted

apply_verification(L, T, c, event) ==
    LET rows == Upsert(T.observation_verifications, Verification(c, event),
                       {"observation", "lineage"})
        enough == TracedCount(L, {v \in rows : v.observation = c.observation}) >= 2
    IN  [T EXCEPT !.observation_verifications = rows,
                  !.work_items = IF enough
                                 THEN complete_work(@, "verify_observation", c.observation)
                                 ELSE @]

apply_assessment(L, T, c, event) ==
    LET rows == Upsert(T.assessments, Assessment(c, event), {"story", "lineage"})
        enough == TracedCount(L, {a \in rows : a.story = c.story}) >= 2
    IN  [T EXCEPT !.assessments = rows,
                  !.work_items = IF enough THEN complete_work(@, "assess_story", c.story)
                                 ELSE @]

\* Faulty: any result completes an item that requires no number of them.
apply_work_result_eager(L, T, c, event) ==
    LET rows == Upsert(T.work_results, Result(c, event), {"work", "lineage"})
        received == TracedCount(L, {r \in rows : /\ r.work = c.work
                                                 /\ r.outcome \in {"completed", "no_match"}})
    IN  [T EXCEPT !.work_results = rows,
                  !.work_items = CompleteItems(@, {w \in @ : w.id = c.work /\ received >= w.required})]

\* An item that requires no number of results, like a coverage area to discover
\* sources for, stays open.
apply_work_result(L, T, c, event) ==
    LET rows == Upsert(T.work_results, Result(c, event), {"work", "lineage"})
        received == TracedCount(L, {r \in rows : /\ r.work = c.work
                                                 /\ r.outcome \in {"completed", "no_match"}})
    IN  [T EXCEPT !.work_results = rows,
                  !.work_items = CompleteItems(@, {w \in @ : /\ w.id = c.work
                                                              /\ w.required > 0
                                                              /\ received >= w.required})]

\* The arms of apply_projection for the news kinds.
apply_news(L, T, c, event) ==
    CASE c.kind = "source_proposal" -> apply_source_proposal(T, c)
      [] c.kind = "source_review" -> apply_source_review(L, T, c, event)
      [] c.kind = "observation_verification" -> apply_verification(L, T, c, event)
      [] c.kind = "story_link" -> MoveAll(T, c, event)
      [] c.kind = "assessment" -> apply_assessment(L, T, c, event)
      [] c.kind = "work_claim" ->
            [T EXCEPT !.work_claims = Upsert(@, Claim(c, event), {"work", "lineage"})]
      [] c.kind = "work_result" -> apply_work_result(L, T, c, event)
      [] OTHER -> T

----------------------------------------------------------------------------
(* Events imported from an origin.  L is remote_events before the event.   *)

link_federated_story_event(T, story, event) ==
    IF Stands(T, story)
    THEN [T EXCEPT !.story_events = @ \cup {[story |-> story, event |-> event]}]
    ELSE T

LinkTargets(T, c, event) ==
    [T EXCEPT !.story_events = @ \cup
        {[story |-> s.id, event |-> event] :
            s \in {s \in T.stories : s.merged_into = NoStory /\ StoryId(s.id) \in c.targets}}]

federated_observation_accepts(T, e) ==
    /\ ~Known(T, e.observation)
    /\ HasStatus(T, e.observation[1], {"probation", "active"})
    /\ e.title <= MAX_TITLE_CHARS /\ e.summary <= MAX_SUMMARY_CHARS
    /\ e.story = ClusterOf(T, e.observation)

project_federated_observation(T, e, event) ==
    link_federated_story_event(PlaceObservation(T, e.observation, e.story, event),
                               e.story, event)

\* The guards of apply_federated_contribution for the news kinds.  Here a link and
\* an assessment need a story that stands.
federated_news_accepts(L, T, c) ==
    CASE c.kind = "source_proposal" -> ~\E s \in T.sources : s.source = c.source
      [] c.kind = "source_review" ->
            \E s \in T.sources : s.source = c.source /\ s.proposer # c.lineage
      [] c.kind = "observation_verification" -> Known(T, c.observation)
      [] c.kind = "story_link" ->
            /\ Stands(T, c.story)
            /\ c.observations # <<>> /\ IsInjective(c.observations)
            /\ \A o \in ToSet(c.observations) : Known(T, o)
      [] c.kind = "assessment" -> Stands(T, c.story)
      [] c.kind = "correction" -> Knows(L, c.subject) /\ c.subject \in c.supersedes
      [] c.kind = "work_claim" -> c.lease_minutes \in 1 .. 240
      [] OTHER -> TRUE

\* Faulty: the review being imported counts as an approval whatever it says.
apply_federated_review_any(L, T, c, event) ==
    LET reviewed == [T EXCEPT !.source_reviews =
                        Upsert(@, Review(c, event), {"source", "lineage"})]
    IN  IF Approvals(L, reviewed, c.source) + 1 >= 2
        THEN Promote(reviewed, c.source)
        ELSE reviewed

\* The current review is not in remote_events yet, so its row joins nothing: it is
\* counted apart.
apply_federated_review(L, T, c, event) ==
    LET reviewed == [T EXCEPT !.source_reviews =
                        Upsert(@, Review(c, event), {"source", "lineage"})]
        current == IF is_traceable(c) /\ c.recommendation = "approve" THEN 1 ELSE 0
    IN  IF Approvals(L, reviewed, c.source) + current >= 2
        THEN Promote(reviewed, c.source)
        ELSE reviewed

apply_federated_verification(T, c, event) ==
    link_federated_story_event(
        [T EXCEPT !.observation_verifications =
            Upsert(@, Verification(c, event), {"observation", "lineage"})],
        StoryOf(T, c.observation), event)

apply_federated_link(T, c, event) ==
    link_federated_story_event(MoveAll(T, c, event), c.story, event)

apply_federated_assessment(T, c, event) ==
    link_federated_story_event(
        [T EXCEPT !.assessments = Upsert(@, Assessment(c, event), {"story", "lineage"})],
        c.story, event)

\* A claim or a result of work changes nothing here: work is local.
apply_federated_news(L, T, c, event) ==
    CASE c.kind = "source_proposal" -> [T EXCEPT !.sources = @ \cup {NewSource(c)}]
      [] c.kind = "source_review" -> apply_federated_review(L, T, c, event)
      [] c.kind = "observation_verification" -> apply_federated_verification(T, c, event)
      [] c.kind = "story_link" -> apply_federated_link(T, c, event)
      [] c.kind = "assessment" -> apply_federated_assessment(T, c, event)
      [] c.kind \in {"correction", "perspective_gap", "translation"} ->
            LinkTargets(T, c, event)
      [] OTHER -> T

----------------------------------------------------------------------------
(* Views.                                                                  *)

\* Faulty: the last event of a page belongs to the next one.
InWindow_open(event, after, through) == after < event /\ event < through

InWindow(event, after, through) == after < event /\ event <= through

RelatedKinds == {"story_link", "correction", "perspective_gap", "translation"}
related_story_events(L, story) ==
    {i \in DOMAIN L : L[i].kind \in RelatedKinds /\ StoryId(story) \in L[i].targets}

\* Only the first of the five branches leaves merged stories out.
changed_story_ids(L, T, after, through) ==
    {s.id : s \in {s \in T.stories : /\ s.merged_into = NoStory
                                     /\ InWindow(s.event, after, through)}}
    \cup {StoryOf(T, r.id) :
            r \in {r \in T.observations : InWindow(r.event, after, through)}}
    \cup {a.story : a \in {a \in T.assessments : InWindow(a.event, after, through)}}
    \cup {StoryOf(T, v.observation) :
            v \in {v \in T.observation_verifications : InWindow(v.event, after, through)}}
    \cup {s.id : s \in {s \in T.stories :
            \E i \in related_story_events(L, s.id) : InWindow(i, after, through)}}

federated_changed_story_ids(T, after, through) ==
    {e.story : e \in {e \in T.story_events : /\ InWindow(e.event, after, through)
                                             /\ Stands(T, e.story)}}

VerificationsOf(T, story) ==
    {v \in T.observation_verifications : v.observation \in Holds(T, story)}
AssessmentsOf(T, story) == {a \in T.assessments : a.story = story}

\* What a reader is shown of a story; its counts and its stage, left out,
\* come from the same rows.
story_view(L, T, story) ==
    {ObservationId(o) : o \in Holds(T, story)}
    \cup {<<"report", v.event>> : v \in VerificationsOf(T, story)}
    \cup {<<"report", a.event>> : a \in AssessmentsOf(T, story)}
    \cup {<<"related", i>> : i \in related_story_events(L, story)}

federated_story_view(T, story) ==
    {ObservationId(o) : o \in Holds(T, story)}
    \cup {<<"report", v.event>> : v \in VerificationsOf(T, story)}
    \cup {<<"report", a.event>> : a \in AssessmentsOf(T, story)}
    \cup {<<"related", e.event>> : e \in {e \in T.story_events : e.story = story}}

StandingStories(T) == {s.id : s \in {s \in T.stories : s.merged_into = NoStory}}

=============================================================================
