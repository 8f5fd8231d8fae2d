---------------------------- MODULE MCProjection ----------------------------
(***************************************************************************)
(* Scenarios for Projection: nodes A, which authors the news, and B, which *)
(* imports it; both author in the commons.                                 *)
(***************************************************************************)
EXTENDS Projection

CONSTANTS A, B, l1, l2, l3, s1, s2, u1, u2, d1, d2, d3, d4, d5

MCTitleTerms == d1 :> {"audit", "standard"} @@ d2 :> {"audit", "rules"} @@ d3 :> {"audit"}
                @@ d4 :> {"harvest"} @@ d5 :> {"harvest"}
\* d4 comes with a title over the limit of 3, d5 with a summary over the limit of 4.
MCTitleLength == d1 :> 2 @@ d2 :> 3 @@ d3 :> 2 @@ d4 :> 5 @@ d5 :> 2
MCSummaryLength == d1 :> 0 @@ d2 :> 4 @@ d3 :> 2 @@ d4 :> 3 @@ d5 :> 7

o1 == <<s1, u1, d1>>
o2 == <<s2, u2, d2>>

Signed(kind, id, lineage) ==
    [kind |-> kind, id |-> id, lineage |-> lineage, well_formed |-> TRUE,
     supersedes |-> {}, targets |-> {}, traces |-> {}]

Trace(id, subject) ==
    Signed("verification_trace", id, l3) @@ [subject |-> subject, parents |-> {}]
Propose(id, lineage, source) == Signed("source_proposal", id, lineage) @@ [source |-> source]
ReviewBy(id, lineage, source, recommendation, traces) ==
    [Signed("source_review", id, lineage) EXCEPT !.traces = traces]
        @@ [source |-> source, recommendation |-> recommendation]
Verify(id, lineage, observation, traces) ==
    [Signed("observation_verification", id, lineage) EXCEPT !.traces = traces]
        @@ [observation |-> observation, outcome |-> "corroborated"]
Link(id, story, observations, targets, traces) ==
    [Signed("story_link", id, l3) EXCEPT !.targets = targets, !.traces = traces]
        @@ [story |-> story, observations |-> observations]
Assess(id, lineage, story, traces) ==
    [Signed("assessment", id, lineage) EXCEPT !.traces = traces] @@ [story |-> story]
Correct(id, subject, targets, traces) ==
    [Signed("correction", id, l3) EXCEPT !.targets = targets, !.traces = traces,
                                         !.supersedes = {subject}]
        @@ [subject |-> subject]
Aside(kind, id, targets) == [Signed(kind, id, l2) EXCEPT !.targets = targets]
ClaimWork(id, lineage, work, minutes) ==
    Signed("work_claim", id, lineage) @@ [work |-> work, lease_minutes |-> minutes]
Report(id, lineage, work, outcome, traces) ==
    [Signed("work_result", id, lineage) EXCEPT !.traces = traces]
        @@ [work |-> work, outcome |-> outcome]

At(node, object) == [op |-> "accept", node |-> node, object |-> object]
Legacy(node, object) == [op |-> "legacy", node |-> node, object |-> object]
Observe(node, o) == [op |-> "observe", node |-> node, observation |-> o]
Fetched(node, source) == [op |-> "fetch", node |-> node, source |-> source]
Imported(node, origin, count) ==
    [i \in 1 .. count |-> [op |-> "import", node |-> node, origin |-> origin]]

NoFeeds == s1 :> {} @@ s2 :> {}

\* A source that a lineage approved before the trace rule is reviewed again.
Reviews ==
    [prologue |-> <<At(A, Propose("p1", l1, s1)),
                    Legacy(A, ReviewBy("r0", l2, s1, "approve", {})),
                    At(A, Trace("t1", SourceId(s1))), At(A, Trace("t2", SourceId(s2)))>>,
     menu |-> A :> {Propose("p2", l2, s1),
                    ReviewBy("r1", l1, s1, "approve", {"t1"}),
                    ReviewBy("r2", l2, s1, "approve", {"t1"}),
                    ReviewBy("r3", l2, s1, "reject", {"t1"}),
                    ReviewBy("r4", l2, s1, "approve", {"t1"}),
                    ReviewBy("r5", l3, s1, "approve", {"t1"}),
                    ReviewBy("r6", l3, s1, "approve", {"t2"}),
                    ReviewBy("r7", l3, s1, "approve", {}),
                    [ReviewBy("r8", l3, s1, "approve", {"t1"}) EXCEPT !.well_formed = FALSE]}
              @@ B :> {},
     feeds |-> s1 :> {<<<<u1, d1>>>>} @@ s2 :> {},
     passes |-> 1, limit |-> 9, readers |-> {}, recipients |-> {}]

Approved(source, lineage, p, t, r, q) ==
    <<At(A, Propose(p, lineage, source)), At(A, Trace(t, SourceId(source))),
      At(A, ReviewBy(r, l2, source, "approve", {t})),
      At(A, ReviewBy(q, l3, source, "approve", {t}))>>

\* A source close to its tenth fetch: a feed with a revised entry, one with a long
\* title and one with a long summary, fetches that fail, an approval withdrawn during a pass.
Collecting ==
    [prologue |-> Approved(s1, l1, "p1", "t1", "r1", "r2")
                  \o [i \in 1 .. 9 |-> Fetched(A, s1)],
     menu |-> A :> {ReviewBy("r3", l2, s1, "reject", {"t1"})} @@ B :> {},
     feeds |-> s1 :> {<<>>, <<<<u1, d1>>, <<u1, d3>>>>, <<<<u2, d2>>, <<u2, d4>>>>,
                      <<<<u2, d5>>>>} @@ s2 :> {},
     passes |-> 4, limit |-> 8, readers |-> {}, recipients |-> {}]

\* Two stories with similar titles at both nodes.
TwoStories ==
    Approved(s1, l1, "p1", "t1", "r1", "r2") \o Approved(s2, l1, "p2", "t2", "r3", "r4")
    \o <<Observe(A, o1), Observe(A, o2),
         At(A, Trace("tS", StoryId(o1))), At(A, Trace("tR", StoryId(o2))),
         At(A, Trace("to", ObservationId(o2))), At(A, Trace("ta", EventId("a1")))>>

StoryMenu ==
    {Link("k1", o1, <<o2>>, {StoryId(o1)}, {"tS"}),
     Link("k2", o2, <<o1>>, {StoryId(o2)}, {"tR"}),
     Link("k3", o1, <<o2>>, {StoryId(o1)}, {"tS"}),
     Assess("a1", l1, o2, {"tR"}), Assess("a2", l2, o1, {"tS"}),
     Verify("v1", l1, o2, {"to"}),
     Correct("c1", "a1", {StoryId(o2)}, {"ta"})}

Stories ==
    [prologue |-> TwoStories \o Imported(B, A, 14),
     menu |-> A :> StoryMenu @@ B :> {}, feeds |-> s1 :> {<<<<u1, d3>>>>} @@ s2 :> {},
     passes |-> 1, limit |-> 18, readers |-> {}, recipients |-> {}]

\* k4 does not name its story.
Reading(readers) ==
    [Stories EXCEPT !.readers = readers, !.passes = 0, !.limit = 17,
                    !.menu[A] = @ \cup {Link("k4", o1, <<o2>>, {}, {"tS"}),
                                        Assess("a3", l1, o1, {"tS"}),
                                        Aside("perspective_gap", "g1", {StoryId(o2)})}]

\* Work on the two stories: claims, results, and reports that settle an item by themselves.
Chores ==
    LET checking == WorkId("verify_observation", o2)
        discovery == WorkId("discover_sources", "africa")
        clustering == WorkId("cluster_stories", story_pair_id(o1, o2))
    IN  [prologue |-> TwoStories
                      \o <<At(A, Trace("tc", checking)), At(A, Trace("td", discovery)),
                           At(A, Trace("tk", clustering)),
                           At(A, ClaimWork("w0", l1, checking, 30))>>
                      \o Imported(B, A, 18),
         menu |-> A :> {ClaimWork("w1", l2, checking, 241), ClaimWork("w2", l2, discovery, 240),
                        Report("w3", l1, checking, "completed", {"tc"}),
                        Report("w4", l1, checking, "failed", {"tc"}),
                        Report("w5", l2, checking, "no_match", {"tc"}),
                        Report("w6", l1, discovery, "completed", {"td"}),
                        Report("w7", l2, clustering, "no_match", {"tk"}),
                        Verify("v1", l1, o2, {"to"}), Verify("v2", l2, o2, {"to"}),
                        Link("k1", o1, <<o2>>, {StoryId(o1)}, {"tS"}),
                        Assess("a2", l2, o1, {"tS"}), Assess("a3", l1, o1, {"tS"}),
                        Aside("translation", "g2", {StoryId(o1)})} @@ B :> {},
         feeds |-> NoFeeds, passes |-> 0, limit |-> 21, readers |-> {}, recipients |-> {}]

Vote(id, lineage, topic, choice, supersedes) ==
    [Signed("topic_vote", id, lineage) EXCEPT !.supersedes = supersedes]
        @@ [topic |-> topic, choice |-> choice]
Post(id, lineage, topic, parent) ==
    Signed("forum_post", id, lineage) @@ [topic |-> topic, parent |-> parent]
Topic(id, lineage, parent) == Signed("topic_proposal", id, lineage) @@ [parent |-> parent]
Key(id, lineage, action, supersedes) ==
    [Signed("openpgp_key", id, lineage) EXCEPT !.supersedes = supersedes]
        @@ [fingerprint |-> "F", action |-> action]
Mail(id, lineage, recipient) ==
    Signed("direct_message", id, lineage) @@ [recipient |-> recipient, fingerprint |-> "F"]

\* A topic both nodes know; votes, changed votes and posts at both, and two objects that
\* their author submits to both.
Topics ==
    [prologue |-> <<At(A, Topic("T", l1, NoParent))>> \o Imported(B, A, 1),
     menu |-> A :> {Vote("va", l2, "T", "approve", {}), Vote("vb", l2, "T", "reject", {"va"}),
                    Vote("vc", l3, "T", "approve", {}), Vote("vd", l1, "T", "approve", {}),
                    Post("f1", l1, "T", NoParent), Topic("U", l2, "T")}
              @@ B :> {Vote("va", l2, "T", "approve", {}), Vote("ve", l2, "T", "reject", {}),
                       Vote("vf", l3, "T", "approve", {}), Post("f1", l1, "T", NoParent),
                       Post("f2", l3, "T", "f1"), Topic("U", l2, "T")},
     feeds |-> NoFeeds, passes |-> 0, limit |-> 4, readers |-> {}, recipients |-> {}]

\* A key announced, updated and revoked at two nodes, and mail to it.
Mails ==
    [prologue |-> <<At(A, Key("k1", l1, "publish", {}))>>,
     menu |-> A :> {Key("k2", l1, "publish", {"k1"}), Key("k3", l1, "revoke", {"k1"}),
                    Key("k4", l1, "publish", {"k3"}), Mail("m1", l2, l1)}
              @@ B :> {Key("k5", l1, "publish", {}), Key("k6", l1, "revoke", {}),
                       Key("k7", l1, "publish", {"k6"}), Mail("m1", l2, l1), Mail("m3", l3, l1)},
     feeds |-> NoFeeds, passes |-> 0, limit |-> 3, readers |-> {}, recipients |-> {l1}]

Patch(id, lineage) ==
    Signed("repository_patch", id, lineage)
        @@ [repository |-> "core", revision |-> "r1", artifact |-> "x1"]
OnRecord(kind, id, lineage, proposal, revision, traces) ==
    [Signed(kind, id, lineage) EXCEPT !.traces = traces, !.targets = {EventId(proposal)}]
        @@ [proposal |-> proposal, repository |-> "core", revision |-> revision,
            artifact |-> "x1"]
Release(id, lineage, patches, traces) ==
    [Signed("release_proposal", id, lineage) EXCEPT !.traces = traces,
                                                    !.targets = {EventId(q) : q \in patches}]
        @@ [repository |-> "core", revision |-> "r1", artifact |-> "x1", patches |-> patches]

\* A patch, its reviews and builds, and a release.
Forging ==
    [prologue |-> <<At(A, Trace("tx", EventId("x"))), At(A, Trace("tz", EventId("z")))>>,
     menu |-> A :> {Patch("x", l1), OnRecord("code_review", "y1", l2, "x", "r1", {"tx"}),
                    OnRecord("code_review", "y2", l1, "x", "r1", {"tx"}),
                    OnRecord("code_review", "y3", l2, "x", "r2", {"tx"}),
                    OnRecord("build_attestation", "y4", l1, "x", "r1", {"tx"}),
                    OnRecord("build_attestation", "y5", l3, "x", "r1", {}),
                    Release("z", l1, {"x"}, {"tx"}), Release("z2", l2, {"y1"}, {"tx"}),
                    OnRecord("release_review", "y6", l3, "z", "r1", {"tz"}),
                    OnRecord("release_review", "y7", l1, "z", "r1", {"tz"})} @@ B :> {},
     feeds |-> NoFeeds, passes |-> 0, limit |-> 7, readers |-> {}, recipients |-> {}]

MCScenarios ==
    {Reviews, Collecting, Stories, Reading({<<A, A>>}), Reading({<<B, A>>}), Topics, Mails,
     Forging, Chores}

=============================================================================
