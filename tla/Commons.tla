------------------------------- MODULE Commons -------------------------------
(***************************************************************************)
(* The topic commons, OpenPGP announcements and sealed mail of one         *)
(* database (src/db.rs).  Unlike the news tables these are not kept apart  *)
(* by origin: local and imported events meet in the same tables, and a row *)
(* is kept apart by its origin_node_id column.                             *)
(*                                                                         *)
(* Abstractions.  The id of a topic, a post and a message hashes the       *)
(* event_id of the object that made it, and is that name.  The targets of  *)
(* these kinds must equal what the payload routes to, so they are that set *)
(* and no field.                                                           *)
(***************************************************************************)
EXTENDS Integers, FiniteSets, FiniteSetsExt

NoParent == ""

EmptyCommons ==
    [forum_topics |-> {}, forum_topic_votes |-> {}, forum_posts |-> {}, openpgp_keys |-> {},
     direct_messages |-> {}]

TopicKnown(K, topic) == \E t \in K.forum_topics : t.topic = topic
ProposerOf(K, topic) == (CHOOSE t \in K.forum_topics : t.topic = topic).proposer

\* The current vote of a lineage at one origin, and its announcement of one key.
VotesAt(K, topic, lineage, origin) ==
    {v \in K.forum_topic_votes : v.topic = topic /\ v.lineage = lineage /\ v.origin = origin}
KeysAt(K, lineage, fingerprint, origin) ==
    {k \in K.openpgp_keys :
        k.lineage = lineage /\ k.fingerprint = fingerprint /\ k.origin = origin}

require_previous_superseded(c, previous) == c.supersedes = {r.event : r \in previous}

----------------------------------------------------------------------------
(* Gates.                                                                  *)

\* A lineage that votes differently through two origins makes no choice.
Choosing(K, topic, choice) ==
    {l \in {v.lineage : v \in K.forum_topic_votes} \ {ProposerOf(K, topic)} :
        {v.choice : v \in {v \in K.forum_topic_votes : v.topic = topic /\ v.lineage = l}}
            = {choice}}

topic_vote_tally(K, topic) ==
    [approvals |-> Cardinality(Choosing(K, topic, "approve")),
     rejections |-> Cardinality(Choosing(K, topic, "reject"))]

topic_is_approved(K, topic) ==
    LET tally == topic_vote_tally(K, topic)
    IN  /\ TopicKnown(K, topic)
        /\ tally.approvals >= 2
        /\ tally.approvals > tally.rejections

Announced(K, lineage, fingerprint, action) ==
    \E k \in K.openpgp_keys :
        k.lineage = lineage /\ k.fingerprint = fingerprint /\ k.action = action

\* Faulty: a revocation through another origin does not count.
openpgp_key_is_active_anywhere(K, lineage, fingerprint) ==
    Announced(K, lineage, fingerprint, "publish")

openpgp_key_is_active(K, lineage, fingerprint) ==
    /\ Announced(K, lineage, fingerprint, "publish")
    /\ ~Announced(K, lineage, fingerprint, "revoke")

----------------------------------------------------------------------------
(* What a node accepts from its own lineages.                              *)

validate_commons(K, n, c) ==
    CASE c.kind = "topic_proposal" ->
            c.supersedes = {} /\ (c.parent # NoParent => TopicKnown(K, c.parent))
      [] c.kind = "topic_vote" ->
            /\ TopicKnown(K, c.topic)
            /\ ProposerOf(K, c.topic) # c.lineage
            /\ require_previous_superseded(c, VotesAt(K, c.topic, c.lineage, n))
      [] c.kind = "forum_post" ->
            /\ topic_is_approved(K, c.topic)
            /\ c.parent # NoParent =>
                    \E p \in K.forum_posts : p.post = c.parent /\ p.topic = c.topic
            /\ c.supersedes = {}
      [] c.kind = "openpgp_key" ->
            /\ \A k \in KeysAt(K, c.lineage, c.fingerprint, n) : k.event \in c.supersedes
            /\ IF c.action = "publish"
               THEN ~Announced(K, c.lineage, c.fingerprint, "revoke")
               ELSE Announced(K, c.lineage, c.fingerprint, "publish")
      [] c.kind = "direct_message" ->
            c.supersedes = {} /\ openpgp_key_is_active(K, c.recipient, c.fingerprint)
      [] OTHER -> TRUE

(* What it accepts from origin o.  The topic, its approval, a parent and    *)
(* the recipient's key may be unknown here.                                *)

validate_federated_commons_state(K, o, c) ==
    CASE c.kind = "topic_vote" ->
            /\ TopicKnown(K, c.topic) => ProposerOf(K, c.topic) # c.lineage
            /\ require_previous_superseded(c, VotesAt(K, c.topic, c.lineage, o))
      [] c.kind = "openpgp_key" ->
            \A k \in KeysAt(K, c.lineage, c.fingerprint, o) : k.event \in c.supersedes
      [] OTHER -> TRUE

\* validate_commons_routing: what may not supersede anything.
validate_commons_routing(c) ==
    c.kind \in {"topic_proposal", "forum_post", "direct_message", "repository_patch",
               "code_review", "build_attestation", "release_proposal", "release_review"}
        => c.supersedes = {}

----------------------------------------------------------------------------
(* Projection, the same for an accepted and an imported event.             *)

\* Faulty: ON CONFLICT DO NOTHING.
Newest_first(rows, previous, row) == IF previous # {} THEN rows ELSE rows \cup {row}

\* ON CONFLICT DO UPDATE ... WHERE the origin's sequence is larger.
Newest(rows, previous, row) ==
    IF \E r \in previous : r.sequence >= row.sequence
    THEN rows
    ELSE (rows \ previous) \cup {row}

\* A revoked fingerprint is not published again through the same origin.
projection_accepts(K, o, c) ==
    c.kind = "openpgp_key" /\ c.action = "publish" =>
        ~\E k \in KeysAt(K, c.lineage, c.fingerprint, o) : k.action = "revoke"

NextProjection(rows) == 1 + Max({0} \cup {r.projection : r \in rows})

project_commons_contribution(K, o, sequence, c) ==
    CASE c.kind = "topic_proposal" ->
            [K EXCEPT !.forum_topics =
                IF TopicKnown(K, c.id) THEN @
                ELSE @ \cup {[topic |-> c.id, origin |-> o, proposer |-> c.lineage]}]
      [] c.kind = "topic_vote" ->
            [K EXCEPT !.forum_topic_votes =
                Newest(@, VotesAt(K, c.topic, c.lineage, o),
                       [topic |-> c.topic, lineage |-> c.lineage, origin |-> o,
                        sequence |-> sequence, event |-> c.id, choice |-> c.choice])]
      [] c.kind = "forum_post" ->
            [K EXCEPT !.forum_posts =
                IF \E p \in @ : p.post = c.id THEN @
                ELSE @ \cup {[post |-> c.id, origin |-> o, topic |-> c.topic]}]
      [] c.kind = "openpgp_key" ->
            [K EXCEPT !.openpgp_keys =
                Newest(@, KeysAt(K, c.lineage, c.fingerprint, o),
                       [lineage |-> c.lineage, fingerprint |-> c.fingerprint, origin |-> o,
                        sequence |-> sequence, event |-> c.id, action |-> c.action])]
      [] c.kind = "direct_message" ->
            [K EXCEPT !.direct_messages =
                IF \E m \in @ : m.message = c.id THEN @
                ELSE @ \cup {[message |-> c.id, origin |-> o, recipient |-> c.recipient,
                              projection |-> NextProjection(@)]}]
      [] OTHER -> K

\* Faulty: the page begins with the message at the cursor.
direct_messages_inclusive(K, recipient, after, limit) ==
    LET waiting == {m \in K.direct_messages : m.recipient = recipient /\ m.projection >= after}
    IN  {m \in waiting :
            Cardinality({q \in waiting : q.projection < m.projection}) < limit}

\* One page of a recipient's mail, in the order this node learned of it.
direct_messages(K, recipient, after, limit) ==
    LET waiting == {m \in K.direct_messages : m.recipient = recipient /\ m.projection > after}
    IN  {m \in waiting :
            Cardinality({q \in waiting : q.projection < m.projection}) < limit}

=============================================================================
