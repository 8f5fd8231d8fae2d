---------------------------- MODULE Federation ----------------------------
(***************************************************************************)
(* Origin-preserving federation: every node keeps its own signed, hash-    *)
(* chained log and stores contiguous copies of other nodes' logs, which it *)
(* receives in bundles (src/federation.rs, import_federation_bundle and    *)
(* relayed_federation_bundle in src/db.rs).                                *)
(*                                                                         *)
(* A bundle may come from the origin or from any relay, by pull or by      *)
(* push, late, twice or out of order.  Since everything in it is signed,   *)
(* the bundles a node can meet are exactly the ranges of the chains the    *)
(* origin has ever signed: Bundles below is that set, so delay, loss,      *)
(* duplication and reordering need no channel of their own.                *)
(*                                                                         *)
(* Abstractions.  The hash of an event is the chain that ends in it, which *)
(* is what a collision-free hash chain commits to.  An event is its kind   *)
(* and the life of the database it was appended in: within one life a      *)
(* position of the log is written once, and time stamps keep two lives     *)
(* apart.  A node that loses its database but keeps its key file begins a  *)
(* new life: the only way a correct node comes to sign two chains.         *)
(***************************************************************************)
EXTENDS Integers, Sequences, FiniteSets

CONSTANTS
    Nodes,
    ContentKinds,           \* kinds of authored events: "accepted", "refused"
    MaxContent,             \* per node: bound on the authored events of its log
    MaxLives,               \* per node: bound on its database losses
    MAX_FEDERATION_EVENTS   \* events in one bundle

ASSUME FederationAssumption ==
    /\ ContentKinds \subseteq {"accepted", "refused"}
    /\ MaxContent \in [Nodes -> Nat]
    /\ MaxLives \in [Nodes -> Nat]
    /\ MAX_FEDERATION_EVENTS \in Nat \ {0}

Event == [kind : ContentKinds \cup {"checkpoint_witnessed"}, life : Nat]
Chain == Seq(Event)

Prefix(c, n) == SubSeq(c, 1, n)

-----------------------------------------------------------------------------
VARIABLES
    log,                    \* events: a node's own log
    life,                   \* how often the node has lost its database
    abandoned,              \* logs of earlier lives, still held by others
    federation_peers,       \* per origin: cursor, event_hash, checkpoint_json
    remote_events,          \* per origin: the stored chain
    remote_checkpoints,     \* per origin: chains whose signed checkpoint is kept
    checkpoint_witnesses,   \* checkpoints witnessed in the own log
    federation_imports,     \* import windows anchored in the own log
    equivocation_evidence

tables == <<federation_peers, remote_events, remote_checkpoints, checkpoint_witnesses,
            federation_imports, equivocation_evidence>>
fvars == <<log, life, abandoned, tables>>

NoPeer == [known |-> FALSE, cursor |-> 0, event_hash |-> <<>>, checkpoint |-> <<>>]

Peer == [known : BOOLEAN, cursor : Nat, event_hash : Chain, checkpoint : Chain]
Witness == [origin : Nodes, event_hash : Chain, sequence : Nat]
Window == [origin : Nodes, from : Nat, through : Nat, sequence : Nat]
Evidence == [origin : Nodes, kind : {"event_sequence", "chain_fork", "checkpoint"},
             cursor : Nat, existing : Chain, incoming : Chain]

FedTypeOK ==
    /\ log \in [Nodes -> Chain]
    /\ life \in [Nodes -> Nat]
    /\ abandoned \in [Nodes -> SUBSET Chain]
    /\ federation_peers \in [Nodes -> [Nodes -> Peer]]
    /\ remote_events \in [Nodes -> [Nodes -> Chain]]
    /\ remote_checkpoints \in [Nodes -> [Nodes -> SUBSET Chain]]
    /\ checkpoint_witnesses \in [Nodes -> SUBSET Witness]
    /\ federation_imports \in [Nodes -> SUBSET Window]
    /\ equivocation_evidence \in [Nodes -> SUBSET Evidence]

FedInit ==
    /\ log = [n \in Nodes |-> <<>>]
    /\ life = [n \in Nodes |-> 0]
    /\ abandoned = [n \in Nodes |-> {}]
    /\ federation_peers = [n \in Nodes |-> [o \in Nodes |-> NoPeer]]
    /\ remote_events = [n \in Nodes |-> [o \in Nodes |-> <<>>]]
    /\ remote_checkpoints = [n \in Nodes |-> [o \in Nodes |-> {}]]
    /\ checkpoint_witnesses = [n \in Nodes |-> {}]
    /\ federation_imports = [n \in Nodes |-> {}]
    /\ equivocation_evidence = [n \in Nodes |-> {}]

-----------------------------------------------------------------------------
(* The origin's side.                                                      *)

NewEvent(n, kind) == [kind |-> kind, life |-> life[n]]

IsContent(event) == event.kind # "checkpoint_witnessed"

ContentPositions(c) == {i \in 1 .. Len(c) : IsContent(c[i])}

\* append_event, for the events people and sources author.
Author(n, kind) ==
    /\ Cardinality(ContentPositions(log[n])) < MaxContent[n]
    /\ log' = [log EXCEPT ![n] = Append(@, NewEvent(n, kind))]
    /\ UNCHANGED <<life, abandoned, tables>>

\* CommonwakeNode::open with the key file but without the database file:
\* Database::open creates empty tables and bind_node binds them to the old key.
LoseDatabase(n) ==
    /\ life[n] < MaxLives[n]
    /\ log[n] # <<>>
    /\ life' = [life EXCEPT ![n] = @ + 1]
    /\ abandoned' = [abandoned EXCEPT ![n] = @ \cup {log[n]}]
    /\ log' = [log EXCEPT ![n] = <<>>]
    /\ federation_peers' = [federation_peers EXCEPT ![n] = [o \in Nodes |-> NoPeer]]
    /\ remote_events' = [remote_events EXCEPT ![n] = [o \in Nodes |-> <<>>]]
    /\ remote_checkpoints' = [remote_checkpoints EXCEPT ![n] = [o \in Nodes |-> {}]]
    /\ checkpoint_witnesses' = [checkpoint_witnesses EXCEPT ![n] = {}]
    /\ federation_imports' = [federation_imports EXCEPT ![n] = {}]
    /\ equivocation_evidence' = [equivocation_evidence EXCEPT ![n] = {}]

\* The chains a node has signed, in this life or an earlier one.
Signed(o) == UNION {{Prefix(c, i) : i \in 0 .. Len(c)} : c \in abandoned[o] \cup {log[o]}}

Bundle(o, from, chain) == [origin |-> o, from |-> from, chain |-> chain]

\* Sequence numbers, hashes, signatures and the checkpoint of a bundle agree
\* exactly when its events and its checkpoint lie on one signed chain.
verify_bundle(b) ==
    /\ b.from <= Len(b.chain)
    /\ Len(b.chain) - b.from <= MAX_FEDERATION_EVENTS
    /\ b.chain \in Signed(b.origin)

-----------------------------------------------------------------------------
(* import_federation_bundle.  Whatever fails with an error rolls back, and *)
(* is no step; only recorded equivocation is committed on the error path.  *)

known_cursor(n, b) == federation_peers[n][b.origin].cursor

\* First contact begins at zero, later bundles at or before the stored head.
Contiguous(n, b) ==
    /\ b.origin # n
    /\ ~ federation_peers[n][b.origin].known => b.from = 0
    /\ b.from <= known_cursor(n, b)

\* Numbers of re-sent events that differ from the stored ones ...
Overlap(n, b) ==
    {i \in b.from + 1 .. Len(b.chain) :
        /\ i <= known_cursor(n, b)
        /\ Prefix(remote_events[n][b.origin], i) # Prefix(b.chain, i)}

\* ... a first new event that does not extend the stored head ...
Forks(n, b) ==
    /\ Len(b.chain) > known_cursor(n, b)
    /\ Prefix(b.chain, known_cursor(n, b)) # federation_peers[n][b.origin].event_hash

\* Faulty: an old checkpoint is compared with the head.
CheckpointDiffersFromHead(n, b) ==
    /\ Len(b.chain) <= known_cursor(n, b)
    /\ federation_peers[n][b.origin].event_hash # b.chain

\* ... a checkpoint, of a bundle that adds nothing, that is not the stored hash.
CheckpointDiffers(n, b) ==
    /\ Len(b.chain) <= known_cursor(n, b)
    /\ Prefix(remote_events[n][b.origin], Len(b.chain)) # b.chain

\* validate_and_project_remote_event refuses one of the new events.
Refused(n, b) ==
    \E i \in known_cursor(n, b) + 1 .. Len(b.chain) : b.chain[i].kind = "refused"

Conflict(n, b) ==
    LET o == b.origin
        at == known_cursor(n, b)
    IN  CASE Overlap(n, b) # {} ->
               LET i == CHOOSE i \in Overlap(n, b) : \A j \in Overlap(n, b) : i <= j
               IN  [origin |-> o, kind |-> "event_sequence", cursor |-> i,
                    existing |-> Prefix(remote_events[n][o], i),
                    incoming |-> Prefix(b.chain, i)]
          [] Overlap(n, b) = {} /\ Forks(n, b) ->
               [origin |-> o, kind |-> "chain_fork", cursor |-> at + 1,
                existing |-> federation_peers[n][o].event_hash,
                incoming |-> Prefix(b.chain, at)]
          [] OTHER ->
               [origin |-> o, kind |-> "checkpoint", cursor |-> Len(b.chain),
                existing |-> Prefix(remote_events[n][o], Len(b.chain)),
                incoming |-> b.chain]

Conflicts(n, b) == Overlap(n, b) # {} \/ Forks(n, b) \/ CheckpointDiffers(n, b)

\* record_equivocation and commit: the evidence is kept, nothing is imported.
record_equivocation(n, b) ==
    /\ Contiguous(n, b)
    /\ Conflicts(n, b)
    /\ equivocation_evidence' = [equivocation_evidence EXCEPT ![n] = @ \cup {Conflict(n, b)}]
    /\ federation_peers' = [federation_peers EXCEPT ![n][b.origin].known = TRUE]
    /\ UNCHANGED <<log, life, abandoned, remote_events, remote_checkpoints,
                   checkpoint_witnesses, federation_imports>>

\* Faulty: witnesses are witnessed.
WitnessAnything(n, b) == Len(b.chain) > known_cursor(n, b)

\* Ranges that hold nothing but witnesses are not witnessed again.
should_witness(n, b) ==
    \E i \in b.from + 1 .. Len(b.chain) : i > known_cursor(n, b) /\ IsContent(b.chain[i])

already_witnessed(n, b) ==
    {w \in checkpoint_witnesses[n] : w.origin = b.origin /\ w.event_hash = b.chain}

\* Faulty: a bundle that adds nothing moves the cursor back.
UpdatedPeerRegressing(n, b) ==
    [known |-> TRUE, cursor |-> Len(b.chain), event_hash |-> b.chain, checkpoint |-> b.chain]

\* checkpoint_json = CASE WHEN ?5 >= cursor: the column still has its old value.
UpdatedPeer(n, b) ==
    LET peer == federation_peers[n][b.origin]
        extends == Len(b.chain) > peer.cursor
    IN  [known |-> TRUE,
         cursor |-> IF extends THEN Len(b.chain) ELSE peer.cursor,
         event_hash |-> IF extends THEN b.chain ELSE peer.event_hash,
         checkpoint |-> IF Len(b.chain) >= peer.cursor THEN b.chain ELSE peer.checkpoint]

\* Faulty: the window begins at the bundle, not at the stored head.
WindowFromBundle(n, b, sequence) ==
    [origin |-> b.origin, from |-> b.from,
     through |-> UpdatedPeer(n, b).cursor, sequence |-> sequence]

\* Faulty: the window begins one event early.
WindowTooWide(n, b, sequence) ==
    [origin |-> b.origin, from |-> known_cursor(n, b) - 1,
     through |-> UpdatedPeer(n, b).cursor, sequence |-> sequence]

ImportWindow(n, b, sequence) ==
    [origin |-> b.origin, from |-> known_cursor(n, b),
     through |-> UpdatedPeer(n, b).cursor, sequence |-> sequence]

\* A new witness event takes the next number of the own log.
WitnessImport(n, b) ==
    LET sequence == Len(log[n]) + 1
    IN  /\ should_witness(n, b)
        /\ already_witnessed(n, b) = {}
        /\ log' = [log EXCEPT ![n] = Append(@, NewEvent(n, "checkpoint_witnessed"))]
        /\ checkpoint_witnesses' = [checkpoint_witnesses EXCEPT ![n] = @ \cup
              {[origin |-> b.origin, event_hash |-> b.chain, sequence |-> sequence]}]
        /\ federation_imports' = [federation_imports EXCEPT ![n] = @ \cup
              {ImportWindow(n, b, sequence)}]

\* A witnessed checkpoint lends its event to the window; otherwise there is none.
ReuseWitness(n, b) ==
    /\ should_witness(n, b) => already_witnessed(n, b) # {}
    /\ federation_imports' = [federation_imports EXCEPT ![n] = @ \cup
          {ImportWindow(n, b, w.sequence) :
              w \in IF should_witness(n, b) THEN already_witnessed(n, b) ELSE {}}]
    /\ UNCHANGED <<log, checkpoint_witnesses>>

\* Faulty: the last bundle wins over what is stored.
ImportOverwriting(n, b) ==
    /\ Contiguous(n, b)
    /\ ~ Refused(n, b)
    /\ remote_events' = [remote_events EXCEPT ![n][b.origin] = b.chain]
    /\ remote_checkpoints' = [remote_checkpoints EXCEPT ![n][b.origin] = {b.chain}]
    /\ federation_peers' = [federation_peers EXCEPT ![n][b.origin] = UpdatedPeerRegressing(n, b)]
    /\ WitnessImport(n, b) \/ ReuseWitness(n, b)
    /\ UNCHANGED <<life, abandoned, equivocation_evidence>>

import_federation_bundle(n, b) ==
    /\ Contiguous(n, b)
    /\ ~ Conflicts(n, b)
    /\ ~ Refused(n, b)
    /\ remote_events' = [remote_events EXCEPT ![n][b.origin] =
          @ \o SubSeq(b.chain, known_cursor(n, b) + 1, Len(b.chain))]
    /\ remote_checkpoints' = [remote_checkpoints EXCEPT ![n][b.origin] = @ \cup {b.chain}]
    /\ federation_peers' = [federation_peers EXCEPT ![n][b.origin] = UpdatedPeer(n, b)]
    /\ WitnessImport(n, b) \/ ReuseWitness(n, b)
    /\ UNCHANGED <<life, abandoned, equivocation_evidence>>

Deliver(n, o) ==
    \E chain \in Signed(o) : \E from \in 0 .. Len(chain) :
        LET b == Bundle(o, from, chain)
        IN  /\ verify_bundle(b)
            /\ record_equivocation(n, b) \/ import_federation_bundle(n, b)

FedNext ==
    \/ \E n \in Nodes, kind \in ContentKinds : Author(n, kind)
    \/ \E n \in Nodes : LoseDatabase(n)
    \/ \E n, o \in Nodes : Deliver(n, o)

FedSpec == FedInit /\ [][FedNext]_fvars

-----------------------------------------------------------------------------
(* relayed_federation_bundle: a relay serves a stored log in pages that    *)
(* end at a checkpoint its origin signed.                                  *)

RelayCursors(r, o) == {Len(c) : c \in remote_checkpoints[r][o]}

requested_end(r, o, after, limit) ==
    IF after + limit < federation_peers[r][o].cursor
    THEN after + limit
    ELSE federation_peers[r][o].cursor

\* Faulty: no checkpoint within the range, no page.
ThroughCursorsWithin(r, o, after, limit) ==
    LET within == {c \in RelayCursors(r, o) : after < c /\ c <= requested_end(r, o, after, limit)}
    IN  IF after = federation_peers[r][o].cursor THEN {after}
        ELSE {c \in within : \A d \in within : d <= c}

\* The last checkpoint within the requested range, else the next one after it.
through_cursors(r, o, after, limit) ==
    LET within == {c \in RelayCursors(r, o) : after < c /\ c <= requested_end(r, o, after, limit)}
        beyond == {c \in RelayCursors(r, o) : after < c}
    IN  IF after = federation_peers[r][o].cursor THEN {after}
        ELSE IF within # {} THEN {c \in within : \A d \in within : d <= c}
        ELSE {c \in beyond : \A d \in beyond : c <= d}

\* The signed checkpoints a relay may put on the page after a cursor.
RelayCheckpoints(r, o, after, limit) ==
    {c \in remote_checkpoints[r][o] : Len(c) \in through_cursors(r, o, after, limit)}

-----------------------------------------------------------------------------
(* Properties.                                                             *)

\* Each stored log is one chain its origin signed, as long as the recorded
\* cursor and ending in the recorded hash: no splice of two histories, and no
\* events beyond the cursor, survives any order of imports and conflicts.
StoredChainIsSigned ==
    \A n, o \in Nodes :
        /\ remote_events[n][o] \in Signed(o)
        /\ federation_peers[n][o].cursor = Len(remote_events[n][o])
        /\ federation_peers[n][o].event_hash = remote_events[n][o]
        /\ federation_peers[n][o].checkpoint = remote_events[n][o]

\* Evidence convicts: both sides of a conflict are chains the origin signed, of
\* the same length and different.  An origin that kept its database is never
\* accused, whatever late, repeated or overlapping bundles arrive.
EvidenceIsSound ==
    \A n \in Nodes : \A e \in equivocation_evidence[n] :
        /\ {e.existing, e.incoming} \subseteq Signed(e.origin)
        /\ Len(e.existing) = Len(e.incoming)
        /\ e.existing # e.incoming
        /\ life[e.origin] > 0

\* What the tables of all nodes come to, for a reader of the replicas.
Replicas == INSTANCE OriginReplicas WITH
    signed <- [o \in Nodes |-> Signed(o)],
    copy <- remote_events,
    accused <- [n \in Nodes |-> {e.origin : e \in equivocation_evidence[n]}]

\* Importing bundles from anywhere, late, twice, overlapping or of a lost life of the
\* origin, implements replicas that only follow an origin along one history it signed
\* and accuse only an origin that signed two: a stored history is never rewritten or
\* cut, and evidence is never dropped, while the database is kept.
ImplementsReplicas == Replicas!Spec

Covers(w, o, i) == w.origin = o /\ w.from < i /\ i <= w.through

\* Every imported content event is announced once: it lies in exactly one
\* import window, from which readers learn of changed remote stories.
EachEventAnnouncedOnce ==
    \A n, o \in Nodes : \A i \in ContentPositions(remote_events[n][o]) :
        /\ \E w \in federation_imports[n] : Covers(w, o, i)
        /\ \A v, w \in federation_imports[n] : Covers(v, o, i) /\ Covers(w, o, i) => v = w

\* Witnessing ends: each witness event in a log anchors one import window of its
\* own, and that window holds content.  Nodes that import each other's witnesses
\* do not go on witnessing them.
WitnessesAreEarned ==
    \A n \in Nodes :
        /\ \A i \in 1 .. Len(log[n]) \ ContentPositions(log[n]) :
              \E w \in federation_imports[n] : w.sequence = i
        /\ \A w \in federation_imports[n] :
              /\ w.sequence \in 1 .. Len(log[n]) \ ContentPositions(log[n])
              /\ \E i \in ContentPositions(remote_events[n][w.origin]) : Covers(w, w.origin, i)
              /\ \A v \in federation_imports[n] : v.sequence = w.sequence => v = w

\* A relay can serve every request within its stored log: there is a checkpoint
\* to end the page at, the page is within the protocol limit however long the
\* pages were in which the log arrived, and it verifies.
RelayAlwaysServes ==
    \A r, o \in Nodes : federation_peers[r][o].known =>
        \A after \in 0 .. federation_peers[r][o].cursor, limit \in 1 .. MAX_FEDERATION_EVENTS :
            /\ RelayCheckpoints(r, o, after, limit) # {}
            /\ \A c \in RelayCheckpoints(r, o, after, limit) :
                  /\ Len(c) - after <= MAX_FEDERATION_EVENTS
                  /\ c = Prefix(remote_events[r][o], Len(c))

=============================================================================
