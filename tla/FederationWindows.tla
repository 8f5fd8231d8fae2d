------------------------- MODULE FederationWindows -------------------------
(***************************************************************************)
(* Proofs, for any set of nodes and any bounds, that a relay serves every  *)
(* request within what it stores, that every imported content event is     *)
(* announced once, and that witness events are earned.                     *)
(*                                                                         *)
(* The invariant adds two facts to FedInv.  CheckpointsServe: the kept     *)
(* checkpoints lie on the stored chain, no further apart than one bundle.  *)
(* WindowsFollow: import windows of one origin follow each other up to the *)
(* stored head, each with content and an own witness event, and every      *)
(* witnessed checkpoint is stored, so that no import that brings news      *)
(* finds its checkpoint witnessed already.                                 *)
(***************************************************************************)
EXTENDS FederationProofs

CheckpointsServe ==
    \A r, o \in Nodes :
        LET stored == remote_events[r][o]
            kept == remote_checkpoints[r][o]
        IN  /\ ~federation_peers[r][o].known => stored = <<>>
            /\ federation_peers[r][o].known => stored \in kept
            /\ \A c \in kept : Len(c) <= Len(stored) /\ c = Prefix(stored, Len(c))
            /\ \A after \in 0 .. Len(stored) - 1 :
                  \E c \in kept : after < Len(c) /\ Len(c) <= after + MAX_FEDERATION_EVENTS

\* The windows W and witnesses X of a node with stored chains R and log L.
NodeAnnounces(W, X, R, L) ==
    /\ \A x \in X : Len(x.event_hash) <= Len(R[x.origin])
    /\ \A w \in W : w.from < w.through /\ w.through <= Len(R[w.origin])
    /\ \A v, w \in W :
          v.origin = w.origin /\ v # w => v.through <= w.from \/ w.through <= v.from
    /\ \A o \in Nodes : \A i \in ContentPositions(R[o]) : \E w \in W : Covers(w, o, i)
    /\ \A w \in W : \E i \in ContentPositions(R[w.origin]) : Covers(w, w.origin, i)
    /\ \A i \in 1 .. Len(L) \ ContentPositions(L) : \E w \in W : w.sequence = i
    /\ \A w \in W : w.sequence \in 1 .. Len(L) \ ContentPositions(L)
    /\ \A v, w \in W : v.sequence = w.sequence => v = w

WindowsFollow ==
    \A n \in Nodes : NodeAnnounces(federation_imports[n], checkpoint_witnesses[n],
                                   remote_events[n], log[n])

WindowInv == FedInv /\ CheckpointsServe /\ WindowsFollow

\* A non-empty set of natural numbers below a bound has a greatest element.
LEMMA LargestNumber ==
    ASSUME NEW n \in Nat, NEW T \in SUBSET (0 .. n), T # {}
    PROVE  \E x \in T : \A y \in T : y <= x
    <1> DEFINE D == {n - x : x \in T}
    <1>0. PICK z \in T : TRUE
        BY Zenon
    <1>1. D \in SUBSET Nat /\ n - z \in D
        OBVIOUS
    <1>2. PICK d \in D : \A e \in D : d <= e
        BY <1>1, LeastNumber, Zenon
    <1>3. PICK x \in T : d = n - x
        BY <1>2
    <1>4. ASSUME NEW y \in T PROVE y <= x
        <2>1. n - y \in D
            OBVIOUS
        <2>2. d <= n - y
            BY <1>2, <2>1
        <2> QED
            BY <1>3, <2>2
    <1> QED
        BY <1>4

-----------------------------------------------------------------------------
(* relayed_federation_bundle.                                              *)

\* A page that a relay serves: one exists, it is within the limit and it verifies.
ServesAt(r, o, after, limit) ==
    /\ RelayCheckpoints(r, o, after, limit) # {}
    /\ \A c \in RelayCheckpoints(r, o, after, limit) :
          /\ Len(c) - after <= MAX_FEDERATION_EVENTS
          /\ c = Prefix(remote_events[r][o], Len(c))

\* At the stored head a relay answers with the head's own checkpoint.
LEMMA ServesHead ==
    ASSUME FedInv, CheckpointsServe, NEW r \in Nodes, NEW o \in Nodes,
           federation_peers[r][o].known, NEW limit \in 1 .. MAX_FEDERATION_EVENTS
    PROVE  ServesAt(r, o, federation_peers[r][o].cursor, limit)
    <1> DEFINE stored == remote_events[r][o]
               at == federation_peers[r][o].cursor
    <1>1. at = Len(stored) /\ at \in Nat
        BY StoredFacts DEF FedInv
    <1>2. /\ stored \in remote_checkpoints[r][o]
          /\ \A c \in remote_checkpoints[r][o] : c = Prefix(stored, Len(c))
        BY DEF CheckpointsServe
    <1>3. through_cursors(r, o, at, limit) = {at}
        BY DEF through_cursors
    <1>4. RelayCheckpoints(r, o, at, limit) = {c \in remote_checkpoints[r][o] : Len(c) = at}
        BY <1>3 DEF RelayCheckpoints
    <1>5. MAX_FEDERATION_EVENTS \in Nat
        BY FederationAssumption
    <1> HIDE DEF at, stored
    <1>6. stored \in RelayCheckpoints(r, o, at, limit)
        BY <1>1, <1>2, <1>4
    <1>7. ASSUME NEW c \in RelayCheckpoints(r, o, at, limit)
          PROVE  Len(c) - at <= MAX_FEDERATION_EVENTS /\ c = Prefix(stored, Len(c))
        BY <1>1, <1>2, <1>4, <1>5
    <1> QED
        BY <1>6, <1>7, Zenon DEF ServesAt, at, stored

\* Before the stored head a relay answers with the last checkpoint of the requested
\* range or the first one after it, and that is never more than one bundle away.
LEMMA ServesBefore ==
    ASSUME FedInv, CheckpointsServe, NEW r \in Nodes, NEW o \in Nodes,
           NEW after \in 0 .. federation_peers[r][o].cursor - 1,
           NEW limit \in 1 .. MAX_FEDERATION_EVENTS
    PROVE  ServesAt(r, o, after, limit)
    <1> DEFINE stored == remote_events[r][o]
               at == federation_peers[r][o].cursor
               kept == remote_checkpoints[r][o]
               cursors == RelayCursors(r, o)
               end == requested_end(r, o, after, limit)
               within == {c \in cursors : after < c /\ c <= end}
               beyond == {c \in cursors : after < c}
               through == through_cursors(r, o, after, limit)
    <1>1. at = Len(stored) /\ at \in Nat
        BY StoredFacts DEF FedInv
    <1>2. after \in Nat /\ after # at /\ after \in 0 .. Len(stored) - 1
        BY <1>1
    <1>3. MAX_FEDERATION_EVENTS \in Nat
        BY FederationAssumption
    <1>4. /\ \A c \in kept : Len(c) <= Len(stored) /\ c = Prefix(stored, Len(c))
          /\ \E c \in kept : after < Len(c) /\ Len(c) <= after + MAX_FEDERATION_EVENTS
        BY <1>2, Zenon DEF CheckpointsServe
    <1>5. \A c \in kept : Len(c) \in Nat
        BY DEF FedInv, FedTypeOK, Chain
    <1>6. cursors = {Len(c) : c \in kept}
        BY DEF RelayCursors
    <1>7. cursors \in SUBSET (0 .. at)
        BY <1>1, <1>4, <1>5, <1>6
    <1>8. through = IF within # {} THEN {c \in within : \A d \in within : d <= c}
                    ELSE {c \in beyond : \A d \in beyond : c <= d}
        BY <1>2, Zenon DEF through_cursors
    <1>9. RelayCheckpoints(r, o, after, limit) = {c \in kept : Len(c) \in through}
        BY DEF RelayCheckpoints
    <1>10. end \in Nat /\ end <= after + MAX_FEDERATION_EVENTS
        BY <1>1, <1>2, <1>3 DEF requested_end
    <1> HIDE DEF stored, at, kept, cursors, end, through
    <1>11. PICK near \in cursors : after < near /\ near <= after + MAX_FEDERATION_EVENTS
        BY <1>4, <1>6
    <1>12. CASE within # {}
        <2>1. \E x \in within : \A y \in within : y <= x
            BY <1>1, <1>7, <1>12, LargestNumber, Zenon
        <2>2. \E x \in cursors : x \in through
            BY <1>8, <1>12, <2>1
        <2>3. \A x \in through : x <= after + MAX_FEDERATION_EVENTS
            BY <1>2, <1>3, <1>7, <1>8, <1>10, <1>12
        <2> QED
            BY <1>2, <1>3, <1>4, <1>5, <1>6, <1>9, <2>2, <2>3 DEF ServesAt, stored
    <1>13. CASE within = {}
        <2>0. beyond \in SUBSET Nat
            <3>1. \A c \in cursors : c \in Nat
                BY <1>1, <1>7
            <3> QED
                BY <3>1, Zenon
        <2>1. near \in beyond
            BY <1>11
        <2>2. \E x \in beyond : \A y \in beyond : x <= y
            BY <2>0, <2>1, LeastNumber, Zenon
        <2>3. \E x \in cursors : x \in through
            BY <1>8, <1>13, <2>2
        <2>4. \A x \in through : x <= near
            BY <1>8, <1>11, <1>13
        <2>5. \A x \in through : x <= after + MAX_FEDERATION_EVENTS
            BY <1>2, <1>3, <1>7, <1>8, <1>11, <1>13, <2>4
        <2> QED
            BY <1>2, <1>3, <1>4, <1>5, <1>6, <1>9, <2>3, <2>5 DEF ServesAt, stored
    <1> QED
        BY <1>12, <1>13

\* Kept checkpoints that are never further apart than a bundle let a relay serve.
LEMMA CheckpointsSuffice ==
    ASSUME FedInv, CheckpointsServe
    PROVE  RelayAlwaysServes
    <1>1. SUFFICES ASSUME NEW r \in Nodes, NEW o \in Nodes, federation_peers[r][o].known,
                          NEW after \in 0 .. federation_peers[r][o].cursor,
                          NEW limit \in 1 .. MAX_FEDERATION_EVENTS
                   PROVE  ServesAt(r, o, after, limit)
        BY Zenon DEF RelayAlwaysServes, ServesAt
    <1>2. federation_peers[r][o].cursor \in Nat
        BY StoredFacts DEF FedInv
    <1>3. CASE after = federation_peers[r][o].cursor
        BY <1>1, <1>3, ServesHead, Zenon
    <1>4. CASE after # federation_peers[r][o].cursor
        <2>1. after \in 0 .. federation_peers[r][o].cursor - 1
            BY <1>2, <1>4
        <2> QED
            BY <1>1, <2>1, ServesBefore, Zenon
    <1> QED
        BY <1>3, <1>4

-----------------------------------------------------------------------------
(* What an import does to the tables.                                      *)

\* A bundle conflicts only with something stored: on first contact it cannot.
LEMMA FirstContactAgrees ==
    ASSUME FedInv, NEW n \in Nodes, NEW o \in Nodes, NEW chain \in Signed(o), NEW from, NEW b,
           b = Bundle(o, from, chain), remote_events[n][o] = <<>>, from \in Nat
    PROVE  ~Conflicts(n, b)
    <1>1. b.origin = o /\ b.from = from /\ b.chain = chain
        BY DEF Bundle
    <1>2. chain \in Seq(Event) /\ Len(chain) \in Nat
        BY SignedType DEF Chain, FedInv
    <1>3. /\ known_cursor(n, b) = 0 /\ federation_peers[n][o].event_hash = <<>>
        BY <1>1, StoredFacts DEF known_cursor, FedInv
    <1>4. Overlap(n, b) = {}
        BY <1>1, <1>2, <1>3 DEF Overlap
    <1>5. Prefix(chain, 0) = <<>> /\ Prefix(<<>>, 0) = <<>>
        BY EmptyPrefix
    <1>6. ~Forks(n, b)
        BY <1>1, <1>3, <1>5 DEF Forks
    <1>7. Len(chain) <= 0 => chain = <<>>
        BY <1>2
    <1>8. ~CheckpointDiffers(n, b)
        BY <1>1, <1>2, <1>3, <1>5, <1>7 DEF CheckpointDiffers
    <1> QED
        BY <1>4, <1>6, <1>8 DEF Conflicts

\* The tables of n for o after an import; those for other origins stay.
Imported(n, o, chain) ==
    /\ n # o
    /\ remote_events' = [remote_events EXCEPT ![n] = [remote_events[n] EXCEPT ![o] =
          IF Len(chain) > Len(remote_events[n][o]) THEN chain ELSE remote_events[n][o]]]
    /\ remote_checkpoints' = [remote_checkpoints EXCEPT ![n] =
          [remote_checkpoints[n] EXCEPT ![o] = remote_checkpoints[n][o] \cup {chain}]]
    /\ federation_peers'[n][o].known
    /\ \A m, p \in Nodes : ~(m = n /\ p = o) => federation_peers'[m][p] = federation_peers[m][p]
    /\ IF Len(chain) > Len(remote_events[n][o])
       THEN Prefix(chain, Len(remote_events[n][o])) = remote_events[n][o]
       ELSE Prefix(remote_events[n][o], Len(chain)) = chain

\* An import stores the longer of the stored chain and the bundle's, which agree.
LEMMA ImportStores ==
    ASSUME FedInv, NEW n \in Nodes, NEW o \in Nodes,
           NEW chain \in Signed(o), NEW from \in 0 .. Len(chain), NEW b,
           b = Bundle(o, from, chain), import_federation_bundle(n, b)
    PROVE  Imported(n, o, chain)
    <1> DEFINE stored == remote_events[n][o]
               at == Len(stored)
               longer == IF Len(chain) > at THEN chain ELSE stored
    <1> USE DEF FedInv
    <1>1. b.origin = o /\ b.from = from /\ b.chain = chain
        BY DEF Bundle
    <1>2. chain \in Seq(Event) /\ Len(chain) \in Nat
        BY SignedType DEF Chain
    <1>3. /\ stored \in Seq(Event) /\ at \in Nat /\ known_cursor(n, b) = at
          /\ federation_peers[n][o].event_hash = stored
        BY <1>1, StoredFacts DEF known_cursor
    <1>4. ~Forks(n, b) /\ ~CheckpointDiffers(n, b)
        BY DEF Conflicts, import_federation_bundle
    <1>5. Len(chain) > at => Prefix(chain, at) = stored
        BY <1>1, <1>3, <1>4, SMTT(20) DEF Forks
    <1>6. ~(Len(chain) > at) => Prefix(stored, Len(chain)) = chain
        BY <1>1, <1>2, <1>3, <1>4, SMTT(20) DEF CheckpointDiffers
    <1>7. Extended(n, b) = longer
        <2>1. Extended(n, b) = stored \o SubSeq(chain, at + 1, Len(chain))
            BY <1>1, <1>3 DEF Extended
        <2> HIDE DEF stored
        <2>2. CASE Len(chain) > at
            BY <1>2, <1>3, <1>5, <2>1, <2>2, CatchUp, SMTT(20)
        <2>3. CASE ~(Len(chain) > at)
            BY <1>2, <1>3, <2>1, <2>3, SMTT(20)
        <2> QED
            BY <2>2, <2>3
    <1>8. remote_events' = [remote_events EXCEPT ![n] = [remote_events[n] EXCEPT ![o] = Extended(n, b)]]
        BY <1>1 DEF import_federation_bundle, Extended, FedTypeOK
    <1>9. remote_checkpoints' = [remote_checkpoints EXCEPT ![n] =
             [remote_checkpoints[n] EXCEPT ![o] = remote_checkpoints[n][o] \cup {chain}]]
        BY <1>1 DEF import_federation_bundle, FedTypeOK
    <1>10. federation_peers' = [federation_peers EXCEPT ![n] =
             [federation_peers[n] EXCEPT ![o] = UpdatedPeer(n, b)]]
        BY <1>1 DEF import_federation_bundle, FedTypeOK
    <1>11. UpdatedPeer(n, b).known
        BY DEF UpdatedPeer
    <1>12. /\ federation_peers'[n][o].known
           /\ \A m, p \in Nodes : ~(m = n /\ p = o) => federation_peers'[m][p] = federation_peers[m][p]
        BY <1>10, <1>11, SMTT(20) DEF FedTypeOK
    <1>13. n # o
        BY <1>1 DEF import_federation_bundle, Contiguous
    <1> HIDE DEF FedInv
    <1> QED
        BY <1>5, <1>6, <1>7, <1>8, <1>9, <1>12, <1>13, Zenon DEF Imported

\* The next event of the own log.
NextSequence(n) == Len(log[n]) + 1

\* News of an import: the content events it adds to what is stored.
News(n, o, chain) == {i \in Len(remote_events[n][o]) + 1 .. Len(chain) : IsContent(chain[i])}

\* An import of news appends a witness and opens a window behind the stored head.
Announced(n, o, chain) ==
    /\ Len(chain) > Len(remote_events[n][o])
    /\ log' = [log EXCEPT ![n] = Append(log[n], NewEvent(n, "checkpoint_witnessed"))]
    /\ checkpoint_witnesses' = [checkpoint_witnesses EXCEPT ![n] = checkpoint_witnesses[n] \cup
          {[origin |-> o, event_hash |-> chain, sequence |-> NextSequence(n)]}]
    /\ federation_imports' = [federation_imports EXCEPT ![n] = federation_imports[n] \cup
          {[origin |-> o, from |-> Len(remote_events[n][o]), through |-> Len(chain),
            sequence |-> NextSequence(n)]}]

\* An import announces its news, and an import without news announces nothing.
LEMMA ImportAnnounces ==
    ASSUME FedInv, WindowsFollow, NEW n \in Nodes, NEW o \in Nodes,
           NEW chain \in Signed(o), NEW from \in 0 .. Len(chain), NEW b,
           b = Bundle(o, from, chain), import_federation_bundle(n, b)
    PROVE  \/ News(n, o, chain) # {} /\ Announced(n, o, chain)
           \/ News(n, o, chain) = {} /\ UNCHANGED <<log, checkpoint_witnesses, federation_imports>>
    <1> DEFINE at == Len(remote_events[n][o])
    <1>1. b.origin = o /\ b.from = from /\ b.chain = chain
        BY DEF Bundle
    <1>2. chain \in Seq(Event) /\ Len(chain) \in Nat
        BY SignedType DEF Chain, FedInv
    <1>3. at \in Nat /\ known_cursor(n, b) = at /\ federation_peers[n][o].cursor = at
        BY <1>1, StoredFacts DEF known_cursor, FedInv
    <1>4. from <= at /\ from \in Nat
        BY <1>1, <1>3 DEF import_federation_bundle, Contiguous
    <1> HIDE DEF at
    <1>5. should_witness(n, b) <=> News(n, o, chain) # {}
        BY <1>1, <1>2, <1>3, <1>4, SMTT(20) DEF should_witness, News, at
    <1>6. should_witness(n, b) => Len(chain) > at
        BY <1>1, <1>2, <1>3, SMTT(20) DEF should_witness
    <1>7. should_witness(n, b) => already_witnessed(n, b) = {}
        <2>1. ASSUME NEW w \in already_witnessed(n, b) PROVE Len(chain) <= at
            <3>1. w \in checkpoint_witnesses[n] /\ w.origin = o /\ w.event_hash = chain
                BY <1>1 DEF already_witnessed
            <3>2. Len(w.event_hash) <= Len(remote_events[n][w.origin])
                BY <3>1, Zenon DEF WindowsFollow, NodeAnnounces
            <3> QED
                BY <3>1, <3>2 DEF at
        <2> QED
            BY <1>2, <1>3, <1>6, <2>1
    <1>8. ASSUME WitnessImport(n, b) PROVE News(n, o, chain) # {} /\ Announced(n, o, chain)
        <2>1. should_witness(n, b)
            BY <1>8 DEF WitnessImport
        <2>2. UpdatedPeer(n, b).cursor = Len(chain)
            BY <1>1, <1>3, <1>6, <2>1 DEF UpdatedPeer
        <2>3. ImportWindow(n, b, NextSequence(n)) =
                [origin |-> o, from |-> at, through |-> Len(chain), sequence |-> NextSequence(n)]
            BY <1>1, <1>3, <2>2 DEF ImportWindow
        <2>4. /\ log' = [log EXCEPT ![n] = Append(log[n], NewEvent(n, "checkpoint_witnessed"))]
              /\ checkpoint_witnesses' = [checkpoint_witnesses EXCEPT ![n] = checkpoint_witnesses[n] \cup
                    {[origin |-> o, event_hash |-> chain, sequence |-> NextSequence(n)]}]
              /\ federation_imports' = [federation_imports EXCEPT ![n] = federation_imports[n] \cup
                    {ImportWindow(n, b, NextSequence(n))}]
            BY <1>1, <1>8, Zenon DEF WitnessImport, NextSequence
        <2> QED
            BY <1>5, <1>6, <2>1, <2>3, <2>4, Zenon DEF Announced, at
    <1>9. ASSUME ReuseWitness(n, b)
          PROVE  News(n, o, chain) = {} /\ UNCHANGED <<log, checkpoint_witnesses, federation_imports>>
        <2>1. ~should_witness(n, b)
            BY <1>7, <1>9 DEF ReuseWitness
        <2>2. federation_imports' = [federation_imports EXCEPT ![n] = federation_imports[n] \cup {}]
            BY <1>9, <2>1, Zenon DEF ReuseWitness
        <2>3. federation_imports' = federation_imports
            BY <2>2 DEF FedInv, FedTypeOK
        <2> QED
            BY <1>5, <1>9, <2>1, <2>3, Zenon DEF ReuseWitness
    <1> QED
        BY <1>8, <1>9, Zenon DEF import_federation_bundle

-----------------------------------------------------------------------------
(* Windows and witnesses of one node.                                      *)

\* The windows cover each content event once, and each witness is earned.
LEMMA WindowsSuffice ==
    ASSUME FedInv, WindowsFollow
    PROVE  EachEventAnnouncedOnce /\ WitnessesAreEarned
    <1>1. ASSUME NEW n \in Nodes, NEW o \in Nodes, NEW i \in ContentPositions(remote_events[n][o]),
                 NEW v \in federation_imports[n], NEW w \in federation_imports[n],
                 Covers(v, o, i), Covers(w, o, i)
          PROVE  v = w
        <2>1. v.origin = w.origin /\ v # w => v.through <= w.from \/ w.through <= v.from
            BY Zenon DEF WindowsFollow, NodeAnnounces
        <2>2. v \in Window /\ w \in Window /\ i \in Int
            BY DEF FedInv, FedTypeOK, ContentPositions
        <2> QED
            BY <1>1, <2>1, <2>2 DEF Covers, Window
    <1>2. EachEventAnnouncedOnce
        BY <1>1, Zenon DEF EachEventAnnouncedOnce, WindowsFollow, NodeAnnounces
    <1>3. WitnessesAreEarned
        BY Zenon DEF WitnessesAreEarned, WindowsFollow, NodeAnnounces
    <1> QED
        BY <1>2, <1>3

\* An authored event is no witness.
LEMMA AuthorAnnounces ==
    ASSUME NEW W, NEW X, NEW R, NEW L \in Seq(Event), NEW e \in Event, IsContent(e),
           NodeAnnounces(W, X, R, L)
    PROVE  NodeAnnounces(W, X, R, Append(L, e))
    <1>1. 1 .. Len(Append(L, e)) \ ContentPositions(Append(L, e)) = 1 .. Len(L) \ ContentPositions(L)
        BY DEF ContentPositions
    <1> QED
        BY <1>1, Zenon DEF NodeAnnounces

\* A stored chain that continues another one.
Continues(c, d) == Len(d) <= Len(c) /\ Prefix(c, Len(d)) = d

\* A longer history keeps its beginning's content and adds the news.
LEMMA ContinuedContent ==
    ASSUME NEW c \in Seq(Event), NEW d \in Seq(Event), Continues(c, d)
    PROVE  /\ ContentPositions(d) \subseteq ContentPositions(c)
           /\ \A i \in ContentPositions(c) : i \in ContentPositions(d) \/ i > Len(d)
    <1>1. Len(d) \in 0 .. Len(c)
        BY DEF Continues
    <1>2. \A i \in 1 .. Len(d) : d[i] = c[i]
        BY <1>1, PrefixIn DEF Continues
    <1> QED
        BY <1>1, <1>2 DEF ContentPositions

\* What an import without news leaves of the node's announcements.
LEMMA QuietImport ==
    ASSUME NEW W \in SUBSET Window, NEW X \in SUBSET Witness, NEW R \in [Nodes -> Chain], NEW L,
           NEW o \in Nodes, NEW c \in Chain, Continues(c, R[o]),
           \A i \in ContentPositions(c) : ~(i > Len(R[o])),
           NodeAnnounces(W, X, R, L)
    PROVE  NodeAnnounces(W, X, [R EXCEPT ![o] = c], L)
    <1> DEFINE S == [R EXCEPT ![o] = c]
    <1>1. S[o] = c /\ \A p \in Nodes \ {o} : S[p] = R[p]
        OBVIOUS
    <1>2. R[o] \in Seq(Event) /\ c \in Seq(Event)
        BY DEF Chain
    <1>3. ContentPositions(c) = ContentPositions(R[o])
        BY <1>2, ContinuedContent, ZenonT(60)
    <1>4. \A p \in Nodes : ContentPositions(S[p]) = ContentPositions(R[p])
        BY <1>1, <1>3, Zenon
    <1>5. \A p \in Nodes, k \in Nat : k <= Len(R[p]) => k <= Len(S[p])
        <2>1. Len(R[o]) \in Nat /\ Len(c) \in Nat /\ Len(R[o]) <= Len(c)
            BY <1>2 DEF Continues
        <2> QED
            BY <1>1, <2>1
    <1>6. \A x \in X : x.origin \in Nodes /\ Len(x.event_hash) \in Nat
        BY DEF Witness, Chain
    <1>7. \A w \in W : w.origin \in Nodes /\ w.through \in Nat
        BY DEF Window
    <1> HIDE DEF S
    <1> QED
        BY <1>4, <1>5, <1>6, <1>7, Zenon DEF NodeAnnounces, S

\* What an import of news makes of the node's announcements.
LEMMA NewsImport ==
    ASSUME NEW W \in SUBSET Window, NEW X \in SUBSET Witness, NEW R \in [Nodes -> Chain],
           NEW L \in Chain, NEW o \in Nodes, NEW c \in Chain, Continues(c, R[o]),
           NEW k \in ContentPositions(c), k > Len(R[o]),
           NEW e \in Event, ~IsContent(e),
           NodeAnnounces(W, X, R, L)
    PROVE  NodeAnnounces(
               W \cup {[origin |-> o, from |-> Len(R[o]), through |-> Len(c), sequence |-> Len(L) + 1]},
               X \cup {[origin |-> o, event_hash |-> c, sequence |-> Len(L) + 1]},
               [R EXCEPT ![o] = c], Append(L, e))
    <1> DEFINE S == [R EXCEPT ![o] = c]
               M == Append(L, e)
               new == [origin |-> o, from |-> Len(R[o]), through |-> Len(c), sequence |-> Len(L) + 1]
               witness == [origin |-> o, event_hash |-> c, sequence |-> Len(L) + 1]
               V == W \cup {new}
               Y == X \cup {witness}
    <1>1. S[o] = c /\ \A p \in Nodes \ {o} : S[p] = R[p]
        OBVIOUS
    <1>2. R[o] \in Seq(Event) /\ c \in Seq(Event) /\ L \in Seq(Event)
        BY DEF Chain
    <1>3. Len(R[o]) \in Nat /\ Len(c) \in Nat /\ Len(L) \in Nat /\ Len(R[o]) <= Len(c)
        BY <1>2 DEF Continues
    <1>4. /\ ContentPositions(R[o]) \subseteq ContentPositions(c)
          /\ \A i \in ContentPositions(c) : i \in ContentPositions(R[o]) \/ i > Len(R[o])
        BY <1>2, ContinuedContent, Zenon
    <1>5. \A i \in ContentPositions(c) : i \in Nat /\ i <= Len(c)
        BY <1>3 DEF ContentPositions
    <1>6. \A p \in Nodes, i \in Nat : i <= Len(R[p]) => i <= Len(S[p])
        BY <1>1, <1>3
    <1>7. \A x \in X : x.origin \in Nodes /\ Len(x.event_hash) \in Nat
        BY DEF Witness, Chain
    <1>8. \A w \in W : w.origin \in Nodes /\ w.from \in Nat /\ w.through \in Nat /\ w.sequence \in Nat
        BY DEF Window
    <1>9. 1 .. Len(M) \ ContentPositions(M) = (1 .. Len(L) \ ContentPositions(L)) \cup {Len(L) + 1}
        BY <1>2, <1>3 DEF ContentPositions
    <1>10. /\ new.origin = o /\ new.from = Len(R[o]) /\ new.through = Len(c) /\ new.sequence = Len(L) + 1
           /\ witness.origin = o /\ witness.event_hash = c
        OBVIOUS
    <1>11. \A i \in ContentPositions(c) : i > Len(R[o]) => Covers(new, o, i)
        BY <1>3, <1>5, <1>10 DEF Covers
    <1>12. \A p \in Nodes : ContentPositions(R[p]) \subseteq ContentPositions(S[p])
        BY <1>1, <1>4, Zenon
    <1> HIDE DEF S, M, new, witness
    <1>13. \A x \in Y : Len(x.event_hash) <= Len(S[x.origin])
        <2>1. \A x \in X : Len(x.event_hash) <= Len(S[x.origin])
            BY <1>6, <1>7, Zenon DEF NodeAnnounces
        <2> QED
            BY <1>1, <1>3, <1>10, <2>1
    <1>14. \A w \in V : w.from < w.through /\ w.through <= Len(S[w.origin])
        <2>1. \A w \in W : w.from < w.through /\ w.through <= Len(S[w.origin])
            BY <1>6, <1>8, Zenon DEF NodeAnnounces
        <2>2. Len(R[o]) < Len(c)
            BY <1>3, <1>5
        <2> QED
            BY <1>1, <1>3, <1>10, <2>1, <2>2
    <1>15. \A v, w \in V : v.origin = w.origin /\ v # w => v.through <= w.from \/ w.through <= v.from
        <2>1. \A w \in W : w.origin = o => w.through <= new.from
            <3>1. \A w \in W : w.through <= Len(R[w.origin])
                BY Zenon DEF NodeAnnounces
            <3> QED
                BY <1>10, <3>1
        <2>2. \A v, w \in W : v.origin = w.origin /\ v # w => v.through <= w.from \/ w.through <= v.from
            BY Zenon DEF NodeAnnounces
        <2> QED
            BY <1>10, <2>1, <2>2, Zenon
    <1>16. \A p \in Nodes : \A i \in ContentPositions(S[p]) : \E w \in V : Covers(w, p, i)
        <2>1. \A p \in Nodes : \A i \in ContentPositions(R[p]) : \E w \in W : Covers(w, p, i)
            BY Zenon DEF NodeAnnounces
        <2> QED
            BY <1>1, <1>4, <1>11, <2>1, Zenon
    <1>17. \A w \in V : \E i \in ContentPositions(S[w.origin]) : Covers(w, w.origin, i)
        <2>1. \A w \in W : \E i \in ContentPositions(R[w.origin]) : Covers(w, w.origin, i)
            BY Zenon DEF NodeAnnounces
        <2>2. \A w \in W : \E i \in ContentPositions(S[w.origin]) : Covers(w, w.origin, i)
            BY <1>8, <1>12, <2>1, Zenon
        <2>3. \E i \in ContentPositions(S[new.origin]) : Covers(new, new.origin, i)
            BY <1>1, <1>10, <1>11, Zenon
        <2> QED
            BY <2>2, <2>3, Zenon
    <1>18. \A i \in 1 .. Len(M) \ ContentPositions(M) : \E w \in V : w.sequence = i
        <2>1. \A i \in 1 .. Len(L) \ ContentPositions(L) : \E w \in W : w.sequence = i
            BY Zenon DEF NodeAnnounces
        <2> QED
            BY <1>9, <1>10, <2>1, Zenon
    <1>19. \A w \in W : w.sequence \in 1 .. Len(L) \ ContentPositions(L)
        BY Zenon DEF NodeAnnounces
    <1>20. \A w \in V : w.sequence \in 1 .. Len(M) \ ContentPositions(M)
        BY <1>9, <1>10, <1>19, Zenon
    <1>21. \A v, w \in V : v.sequence = w.sequence => v = w
        <2>1. \A v, w \in W : v.sequence = w.sequence => v = w
            BY Zenon DEF NodeAnnounces
        <2>2. \A w \in W : w.sequence # new.sequence
            BY <1>3, <1>10, <1>19
        <2> QED
            BY <2>1, <2>2, Zenon
    <1> HIDE DEF V, Y
    <1> QED
        BY <1>13, <1>14, <1>15, <1>16, <1>17, <1>18, <1>20, <1>21, Zenon
        DEF NodeAnnounces, V, Y, S, M, new, witness

-----------------------------------------------------------------------------
(* The invariant.                                                          *)

\* A node whose tables and log stay announces what it announced.
LEMMA OthersAnnounce ==
    ASSUME WindowsFollow, NEW m \in Nodes,
           federation_imports'[m] = federation_imports[m],
           checkpoint_witnesses'[m] = checkpoint_witnesses[m],
           remote_events'[m] = remote_events[m], log'[m] = log[m]
    PROVE  NodeAnnounces(federation_imports'[m], checkpoint_witnesses'[m],
                         remote_events'[m], log'[m])
    BY Zenon DEF WindowsFollow

\* Authoring keeps the windows in order.
LEMMA AuthorWindows ==
    ASSUME FedInv, WindowsFollow, NEW n \in Nodes, NEW kind \in ContentKinds, Author(n, kind)
    PROVE  WindowsFollow'
    <1> USE DEF FedInv
    <1>1. SUFFICES ASSUME NEW m \in Nodes
                   PROVE  NodeAnnounces(federation_imports'[m], checkpoint_witnesses'[m],
                                        remote_events'[m], log'[m])
        BY Zenon DEF WindowsFollow
    <1>2. /\ federation_imports' = federation_imports
          /\ checkpoint_witnesses' = checkpoint_witnesses /\ remote_events' = remote_events
        BY DEF Author, tables
    <1>3. CASE m = n
        <2>1. NewEvent(n, kind) \in Event /\ IsContent(NewEvent(n, kind))
            BY EventType, FederationAssumption DEF NewEvent, IsContent
        <2>2. log'[m] = Append(log[n], NewEvent(n, kind)) /\ log[n] \in Seq(Event)
            BY <1>3 DEF Author, FedTypeOK, Chain
        <2>3. NodeAnnounces(federation_imports[n], checkpoint_witnesses[n], remote_events[n], log[n])
            BY Zenon DEF WindowsFollow
        <2> QED
            BY <1>2, <1>3, <2>1, <2>2, <2>3, AuthorAnnounces, Zenon
    <1>4. CASE m # n
        <2>1. log'[m] = log[m]
            BY <1>4 DEF Author, FedTypeOK
        <2> QED
            BY <1>2, <2>1, OthersAnnounce, Zenon
    <1> QED
        BY <1>3, <1>4

\* A node without tables and log announces nothing.
LEMMA EmptyAnnounces ==
    ASSUME NEW R, \A o \in Nodes : R[o] = <<>>
    PROVE  NodeAnnounces({}, {}, R, <<>>)
    <1>1. ContentPositions(<<>>) = {} /\ 1 .. Len(<<>>) = {}
        BY DEF ContentPositions
    <1> QED
        BY <1>1 DEF NodeAnnounces

\* Losing the database keeps the windows in order.
LEMMA LoseWindows ==
    ASSUME FedInv, WindowsFollow, NEW n \in Nodes, LoseDatabase(n)
    PROVE  WindowsFollow'
    <1> USE DEF FedInv
    <1>1. SUFFICES ASSUME NEW m \in Nodes
                   PROVE  NodeAnnounces(federation_imports'[m], checkpoint_witnesses'[m],
                                        remote_events'[m], log'[m])
        BY Zenon DEF WindowsFollow
    <1>2. CASE m = n
        <2>1. /\ federation_imports'[m] = {} /\ checkpoint_witnesses'[m] = {} /\ log'[m] = <<>>
              /\ \A o \in Nodes : remote_events'[m][o] = <<>>
            BY <1>2 DEF LoseDatabase, FedTypeOK
        <2> QED
            BY <2>1, EmptyAnnounces, Zenon
    <1>3. CASE m # n
        <2>1. /\ federation_imports'[m] = federation_imports[m] /\ log'[m] = log[m]
              /\ checkpoint_witnesses'[m] = checkpoint_witnesses[m]
              /\ remote_events'[m] = remote_events[m]
            BY <1>3 DEF LoseDatabase, FedTypeOK
        <2> QED
            BY <2>1, OthersAnnounce, Zenon
    <1> QED
        BY <1>2, <1>3

\* An import keeps the windows in order.
LEMMA ImportWindows ==
    ASSUME FedInv, WindowsFollow, NEW n \in Nodes, NEW o \in Nodes,
           NEW chain \in Signed(o), NEW from \in 0 .. Len(chain), NEW b,
           b = Bundle(o, from, chain), import_federation_bundle(n, b)
    PROVE  WindowsFollow'
    <1> DEFINE stored == remote_events[n][o]
               longer == IF Len(chain) > Len(stored) THEN chain ELSE stored
    <1>1. Imported(n, o, chain)
        BY ImportStores, Zenon
    <1>2. chain \in Chain /\ stored \in Chain /\ chain \in Seq(Event) /\ stored \in Seq(Event)
        BY SignedType, StoredFacts DEF FedInv, Chain
    <1>3. /\ federation_imports[n] \in SUBSET Window /\ checkpoint_witnesses[n] \in SUBSET Witness
          /\ remote_events[n] \in [Nodes -> Chain] /\ log[n] \in Chain
        BY DEF FedInv, FedTypeOK
    <1>4. remote_events'[n] = [remote_events[n] EXCEPT ![o] = longer]
        BY <1>1 DEF Imported, FedInv, FedTypeOK
    <1>5. \A m \in Nodes \ {n} : remote_events'[m] = remote_events[m]
        BY <1>1 DEF Imported, FedInv, FedTypeOK
    <1>6. Len(chain) > Len(stored) => Continues(chain, stored)
        BY <1>1, <1>2 DEF Imported, Continues
    <1>7. Prefix(stored, Len(stored)) = stored
        BY <1>2, WholePrefix, Zenon
    <1>8. Continues(longer, stored) /\ longer \in Chain
        BY <1>2, <1>6, <1>7 DEF Continues
    <1>9. NodeAnnounces(federation_imports[n], checkpoint_witnesses[n], remote_events[n], log[n])
        BY Zenon DEF WindowsFollow
    <1>10. CASE News(n, o, chain) # {} /\ Announced(n, o, chain)
        <2> DEFINE e == NewEvent(n, "checkpoint_witnessed")
        <2>1. e \in Event /\ ~IsContent(e)
            BY EventType DEF FedInv, NewEvent, IsContent
        <2>2. longer = chain
            BY <1>10, SMTT(20) DEF Announced
        <2>3. /\ log'[n] = Append(log[n], e)
              /\ checkpoint_witnesses'[n] = checkpoint_witnesses[n] \cup
                    {[origin |-> o, event_hash |-> chain, sequence |-> Len(log[n]) + 1]}
              /\ federation_imports'[n] = federation_imports[n] \cup
                    {[origin |-> o, from |-> Len(stored), through |-> Len(chain),
                      sequence |-> Len(log[n]) + 1]}
            BY <1>10, SMTT(20) DEF Announced, NextSequence, FedInv, FedTypeOK
        <2>4. \A m \in Nodes \ {n} : /\ log'[m] = log[m]
                                     /\ checkpoint_witnesses'[m] = checkpoint_witnesses[m]
                                     /\ federation_imports'[m] = federation_imports[m]
            BY <1>10 DEF Announced, FedInv, FedTypeOK
        <2>5. PICK k \in ContentPositions(chain) : k > Len(stored)
            BY <1>2, <1>10 DEF News, ContentPositions
        <2>6. Continues(chain, stored) /\ remote_events'[n] = [remote_events[n] EXCEPT ![o] = chain]
            BY <1>4, <1>8, <2>2, Zenon
        <2> HIDE DEF e, longer
        <2>7. NodeAnnounces(
                  federation_imports[n] \cup {[origin |-> o, from |-> Len(stored),
                                               through |-> Len(chain), sequence |-> Len(log[n]) + 1]},
                  checkpoint_witnesses[n] \cup {[origin |-> o, event_hash |-> chain,
                                                 sequence |-> Len(log[n]) + 1]},
                  [remote_events[n] EXCEPT ![o] = chain], Append(log[n], e))
            BY <1>2, <1>3, <1>9, <2>1, <2>5, <2>6, NewsImport, Zenon
        <2>8. NodeAnnounces(federation_imports'[n], checkpoint_witnesses'[n], remote_events'[n], log'[n])
            BY <2>3, <2>6, <2>7, Zenon
        <2> QED
            BY <1>5, <2>4, <2>8, OthersAnnounce, Zenon DEF WindowsFollow
    <1>11. CASE News(n, o, chain) = {} /\ UNCHANGED <<log, checkpoint_witnesses, federation_imports>>
        <2>1. \A i \in ContentPositions(longer) : ~(i > Len(stored))
            BY <1>2, <1>11 DEF News, ContentPositions
        <2> HIDE DEF longer
        <2>2. NodeAnnounces(federation_imports[n], checkpoint_witnesses[n],
                            [remote_events[n] EXCEPT ![o] = longer], log[n])
            BY <1>3, <1>8, <1>9, <2>1, QuietImport, Zenon
        <2>3. NodeAnnounces(federation_imports[n], checkpoint_witnesses[n], remote_events'[n], log[n])
            BY <1>4, <2>2, Zenon
        <2> QED
            BY <1>5, <1>11, <2>3, OthersAnnounce, Zenon DEF WindowsFollow
    <1> QED
        BY <1>10, <1>11, ImportAnnounces, Zenon

\* One row: what is stored is kept in checkpoints at most one bundle apart.
RowServes(known, stored, kept) ==
    /\ ~known => stored = <<>>
    /\ known => stored \in kept
    /\ \A c \in kept : Len(c) <= Len(stored) /\ c = Prefix(stored, Len(c))
    /\ \A after \in 0 .. Len(stored) - 1 :
          \E c \in kept : after < Len(c) /\ Len(c) <= after + MAX_FEDERATION_EVENTS

\* CheckpointsServe says so of each row.
LEMMA RowsServe ==
    CheckpointsServe <=>
        \A r, o \in Nodes : RowServes(federation_peers[r][o].known, remote_events[r][o],
                                      remote_checkpoints[r][o])
    BY Zenon DEF CheckpointsServe, RowServes

\* A bundle that extends the stored chain by at most a page keeps the row.
LEMMA ImportedRow ==
    ASSUME NEW known, NEW stored \in Seq(Event), NEW kept \in SUBSET Seq(Event),
           RowServes(known, stored, kept), NEW chain \in Seq(Event), NEW from \in Nat,
           from <= Len(stored), Len(chain) - from <= MAX_FEDERATION_EVENTS,
           Len(chain) > Len(stored) => Prefix(chain, Len(stored)) = stored,
           ~(Len(chain) > Len(stored)) => Prefix(stored, Len(chain)) = chain,
           known \/ stored = <<>>
    PROVE  RowServes(TRUE, IF Len(chain) > Len(stored) THEN chain ELSE stored, kept \cup {chain})
    <1> USE FederationAssumption
    <1>0. Len(stored) \in Nat /\ Len(chain) \in Nat /\ \A c \in kept : Len(c) \in Nat
        OBVIOUS
    <1>1. CASE Len(chain) > Len(stored)
        <2>1. Prefix(chain, Len(chain)) = chain
            BY WholePrefix
        <2>2. ASSUME NEW c \in kept
              PROVE  Len(c) <= Len(chain) /\ c = Prefix(chain, Len(c))
            <3>1. Len(c) <= Len(stored) /\ c = Prefix(stored, Len(c)) /\ Len(c) \in Nat
                BY <1>0 DEF RowServes
            <3>2. Len(stored) \in 0 .. Len(chain) /\ Len(c) \in 0 .. Len(stored)
                BY <1>0, <1>1, <3>1
            <3>3. Prefix(Prefix(chain, Len(stored)), Len(c)) = Prefix(chain, Len(c))
                BY <3>2, PrefixOfPrefix, Zenon
            <3> QED
                BY <1>0, <1>1, <3>1, <3>3
        <2>3. ASSUME NEW after \in 0 .. Len(chain) - 1
              PROVE  \E c \in kept \cup {chain} :
                         after < Len(c) /\ Len(c) <= after + MAX_FEDERATION_EVENTS
            <3>1. CASE after < Len(stored)
                <4>1. after \in 0 .. Len(stored) - 1
                    BY <1>0, <3>1
                <4> QED
                    BY <4>1, Zenon DEF RowServes
            <3>2. CASE ~(after < Len(stored))
                <4>1. after < Len(chain) /\ Len(chain) <= after + MAX_FEDERATION_EVENTS
                    BY <1>0, <3>2
                <4> QED
                    BY <4>1
            <3> QED
                BY <3>1, <3>2
        <2> QED
            BY <1>0, <1>1, <2>1, <2>2, <2>3 DEF RowServes
    <1>2. CASE ~(Len(chain) > Len(stored))
        <2>1. stored \in kept \cup {chain}
            <3>1. CASE known
                BY <3>1 DEF RowServes
            <3>2. CASE stored = <<>>
                BY <1>0, <1>2, <3>2
            <3> QED
                BY <3>1, <3>2
        <2>2. \A c \in kept \cup {chain} : Len(c) <= Len(stored) /\ c = Prefix(stored, Len(c))
            BY <1>0, <1>2 DEF RowServes
        <2>3. \A after \in 0 .. Len(stored) - 1 : \E c \in kept \cup {chain} :
                  after < Len(c) /\ Len(c) <= after + MAX_FEDERATION_EVENTS
            BY Zenon DEF RowServes
        <2> QED
            BY <1>2, <2>1, <2>2, <2>3, Zenon DEF RowServes
    <1> QED
        BY <1>1, <1>2, Zenon

\* A verified import keeps a relay able to serve.
LEMMA ImportServes ==
    ASSUME FedInv, CheckpointsServe, NEW n \in Nodes, NEW o \in Nodes,
           NEW chain \in Signed(o), NEW from \in 0 .. Len(chain), NEW b,
           b = Bundle(o, from, chain), verify_bundle(b), import_federation_bundle(n, b)
    PROVE  CheckpointsServe'
    <1> DEFINE stored == remote_events[n][o]
               kept == remote_checkpoints[n][o]
               known == federation_peers[n][o].known
    <1>1. Imported(n, o, chain)
        BY ImportStores, ZenonT(60)
    <1>2. chain \in Seq(Event) /\ stored \in Seq(Event) /\ kept \in SUBSET Seq(Event)
        <2>1. FedTypeOK /\ StoredChainIsSigned
            BY Zenon DEF FedInv
        <2>2. chain \in Seq(Event)
            BY <2>1, SignedType, Zenon DEF Chain
        <2>3. stored \in Seq(Event)
            BY <2>1, StoredFacts, Zenon
        <2>4. kept \in SUBSET Seq(Event)
            BY <2>1 DEF FedTypeOK, Chain
        <2> QED
            BY <2>2, <2>3, <2>4, Zenon
    <1>3. b.origin = o /\ b.from = from /\ b.chain = chain
        BY DEF Bundle
    <1>4. from \in Nat /\ from <= Len(stored) /\ Len(chain) - from <= MAX_FEDERATION_EVENTS
        BY <1>3, StoredFacts DEF import_federation_bundle, Contiguous, verify_bundle, known_cursor, FedInv
    <1>5. RowServes(known, stored, kept)
        BY RowsServe, Zenon
    <1>6. known \/ stored = <<>>
        BY <1>5 DEF RowServes
    <1>7. RowServes(TRUE, IF Len(chain) > Len(stored) THEN chain ELSE stored, kept \cup {chain})
        BY <1>1, <1>2, <1>4, <1>5, <1>6, ImportedRow, Zenon DEF Imported
    <1>8. SUFFICES ASSUME NEW r \in Nodes, NEW p \in Nodes
                   PROVE  RowServes(federation_peers'[r][p].known, remote_events'[r][p],
                                    remote_checkpoints'[r][p])
        BY Zenon DEF CheckpointsServe, RowServes
    <1>9. CASE r = n /\ p = o
        <2>1. /\ remote_events'[r][p] = IF Len(chain) > Len(stored) THEN chain ELSE stored
              /\ remote_checkpoints'[r][p] = kept \cup {chain}
              /\ federation_peers'[r][p].known
            BY <1>1, <1>9 DEF Imported, FedInv, FedTypeOK
        <2>2. federation_peers'[r][p].known = TRUE
            <3>1. FedTypeOK'
                BY ImportKeepsTypes, Zenon
            <3>2. federation_peers'[r][p].known \in BOOLEAN
                BY <3>1 DEF FedTypeOK, Peer
            <3> QED
                BY <2>1, <3>2
        <2> QED
            BY <1>7, <2>1, <2>2, ZenonT(60)
    <1>10. CASE ~(r = n /\ p = o)
        <2>1. /\ remote_events'[r][p] = remote_events[r][p]
              /\ remote_checkpoints'[r][p] = remote_checkpoints[r][p]
              /\ federation_peers'[r][p] = federation_peers[r][p]
            BY <1>1, <1>10 DEF Imported, FedInv, FedTypeOK
        <2> QED
            BY <2>1, RowsServe, ZenonT(60)
    <1> QED
        BY <1>9, <1>10

\* Evidence changes nothing of what a relay serves: it is recorded only against a
\* stored chain, whose peer row is known already.
LEMMA EquivocationServes ==
    ASSUME FedInv, CheckpointsServe, NEW n \in Nodes, NEW o \in Nodes,
           NEW chain \in Signed(o), NEW from \in 0 .. Len(chain), NEW b,
           b = Bundle(o, from, chain), record_equivocation(n, b)
    PROVE  CheckpointsServe'
    <1>1. remote_events[n][o] # <<>>
        BY FirstContactAgrees DEF record_equivocation
    <1>2. \A r, p \in Nodes : RowServes(federation_peers[r][p].known, remote_events[r][p],
                                        remote_checkpoints[r][p])
        BY RowsServe, Zenon
    <1>3. federation_peers[n][o].known /\ federation_peers[n][o] \in Peer
        BY <1>1, <1>2 DEF RowServes, FedInv, FedTypeOK
    <1>4. federation_peers' = [federation_peers EXCEPT ![n][o].known = TRUE]
        BY DEF record_equivocation, Bundle
    <1>5. \A r, p \in Nodes : federation_peers'[r][p].known = federation_peers[r][p].known
        BY <1>3, <1>4, Zenon DEF FedInv, FedTypeOK, Peer
    <1>6. remote_events' = remote_events /\ remote_checkpoints' = remote_checkpoints
        BY DEF record_equivocation
    <1> QED
        BY <1>5, <1>6, ZenonT(60) DEF CheckpointsServe

\* Losing the database leaves rows that have nothing to serve.
LEMMA LoseServes ==
    ASSUME FedInv, CheckpointsServe, NEW n \in Nodes, LoseDatabase(n)
    PROVE  CheckpointsServe'
    <1>1. SUFFICES ASSUME NEW r \in Nodes, NEW p \in Nodes
                   PROVE  RowServes(federation_peers'[r][p].known, remote_events'[r][p],
                                    remote_checkpoints'[r][p])
        BY ZenonT(60) DEF CheckpointsServe, RowServes
    <1>2. CASE r = n
        <2>1. /\ federation_peers'[r][p] = NoPeer /\ remote_events'[r][p] = <<>>
              /\ remote_checkpoints'[r][p] = {}
            BY <1>2, SMTT(20) DEF LoseDatabase, FedInv, FedTypeOK
        <2> QED
            BY <2>1, SMTT(20) DEF NoPeer, RowServes
    <1>3. CASE r # n
        <2>1. /\ federation_peers'[r][p] = federation_peers[r][p]
              /\ remote_events'[r][p] = remote_events[r][p]
              /\ remote_checkpoints'[r][p] = remote_checkpoints[r][p]
            BY <1>3 DEF LoseDatabase, FedInv, FedTypeOK
        <2> QED
            BY <2>1, RowsServe, ZenonT(60)
    <1> QED
        BY <1>2, <1>3

\* Tables that stay keep serving.
LEMMA SameServes ==
    ASSUME CheckpointsServe, UNCHANGED tables
    PROVE  CheckpointsServe'
    BY Zenon DEF CheckpointsServe, tables

\* Empty databases satisfy the invariant.
LEMMA WindowInit == FedInit => WindowInv
    <1>1. SUFFICES ASSUME FedInit PROVE WindowInv
        OBVIOUS
    <1>2. FedInv
        BY <1>1, InitHolds, SMTT(20)
    <1>3. CheckpointsServe
        <2>1. \A r, o \in Nodes : /\ federation_peers[r][o] = NoPeer /\ remote_events[r][o] = <<>>
                                  /\ remote_checkpoints[r][o] = {}
            BY <1>1 DEF FedInit
        <2> QED
            BY <2>1 DEF CheckpointsServe, NoPeer
    <1>4. WindowsFollow
        <2>1. ASSUME NEW n \in Nodes
              PROVE  NodeAnnounces(federation_imports[n], checkpoint_witnesses[n],
                                   remote_events[n], log[n])
            <3>1. /\ federation_imports[n] = {} /\ checkpoint_witnesses[n] = {} /\ log[n] = <<>>
                  /\ \A o \in Nodes : remote_events[n][o] = <<>>
                BY <1>1 DEF FedInit
            <3> QED
                BY <3>1, EmptyAnnounces, Zenon
        <2> QED
            BY <2>1, Zenon DEF WindowsFollow
    <1> QED
        BY <1>2, <1>3, <1>4 DEF WindowInv

\* Every step of the federation keeps the invariant.
LEMMA WindowStep == WindowInv /\ [FedNext]_fvars => WindowInv'
    <1>1. SUFFICES ASSUME WindowInv, [FedNext]_fvars PROVE CheckpointsServe' /\ WindowsFollow'
        BY StepKeeps DEF WindowInv
    <1> USE <1>1 DEF WindowInv
    <1>2. ASSUME NEW n \in Nodes, NEW kind \in ContentKinds, Author(n, kind)
          PROVE  CheckpointsServe' /\ WindowsFollow'
        <2>1. UNCHANGED tables
            BY <1>2 DEF Author
        <2> QED
            BY <1>2, <2>1, SameServes, AuthorWindows, Zenon
    <1>3. ASSUME NEW n \in Nodes, LoseDatabase(n) PROVE CheckpointsServe' /\ WindowsFollow'
        BY <1>3, LoseServes, LoseWindows, Zenon
    <1>4. ASSUME NEW n \in Nodes, NEW o \in Nodes, Deliver(n, o)
          PROVE  CheckpointsServe' /\ WindowsFollow'
        <2>1. PICK chain \in Signed(o) : \E from \in 0 .. Len(chain) :
                  /\ verify_bundle(Bundle(o, from, chain))
                  /\ \/ record_equivocation(n, Bundle(o, from, chain))
                     \/ import_federation_bundle(n, Bundle(o, from, chain))
            BY <1>4, Zenon DEF Deliver
        <2>2. PICK from \in 0 .. Len(chain) :
                  /\ verify_bundle(Bundle(o, from, chain))
                  /\ \/ record_equivocation(n, Bundle(o, from, chain))
                     \/ import_federation_bundle(n, Bundle(o, from, chain))
            BY <2>1, Zenon
        <2>3. CASE record_equivocation(n, Bundle(o, from, chain))
            <3>1. CheckpointsServe'
                BY <2>3, EquivocationServes, Zenon
            <3>2. /\ log' = log /\ remote_events' = remote_events
                  /\ checkpoint_witnesses' = checkpoint_witnesses
                  /\ federation_imports' = federation_imports
                BY <2>3 DEF record_equivocation
            <3>3. WindowsFollow'
                BY <3>2, Zenon DEF WindowsFollow
            <3> QED
                BY <3>1, <3>3, SMTT(20)
        <2>4. CASE import_federation_bundle(n, Bundle(o, from, chain))
            BY <2>2, <2>4, ImportServes, ImportWindows, Zenon
        <2> QED
            BY <2>2, <2>3, <2>4, Zenon
    <1>5. CASE UNCHANGED fvars
        <2>1. UNCHANGED tables /\ log' = log
            BY <1>5 DEF fvars
        <2>2. WindowsFollow'
            BY <2>1, Zenon DEF WindowsFollow, tables
        <2> QED
            BY <2>1, <2>2, SameServes, Zenon
    <1> QED
        BY <1>2, <1>3, <1>4, <1>5, Zenon DEF FedNext

\* However bundles and database losses interleave, kept checkpoints stay within one
\* bundle of each other and import windows follow each other (import_federation_bundle).
THEOREM WindowInvariant == FedSpec => []WindowInv
    BY WindowInit, WindowStep, PTL DEF FedSpec

\* The tables hold well-formed rows whatever is delivered, lost or recorded.
THEOREM FederationTypes == FedSpec => []FedTypeOK
    <1>1. WindowInv => FedTypeOK
        BY DEF WindowInv, FedInv
    <1> QED
        BY <1>1, WindowInvariant, PTL

\* relayed_federation_bundle can serve every request within what a relay stores, for
\* any page limit, however long the pages were in which the log arrived.
THEOREM RelaysAlwaysServe == FedSpec => []RelayAlwaysServes
    <1>1. WindowInv => RelayAlwaysServes
        BY CheckpointsSuffice DEF WindowInv
    <1> QED
        BY <1>1, WindowInvariant, PTL

\* Every imported content event lies in exactly one window of federation_imports.
THEOREM EventsAnnouncedOnce == FedSpec => []EachEventAnnouncedOnce
    <1>1. WindowInv => EachEventAnnouncedOnce
        BY WindowsSuffice DEF WindowInv
    <1> QED
        BY <1>1, WindowInvariant, PTL

\* Each witness event anchors one import window with content, and no two share one.
THEOREM WitnessesAlwaysEarned == FedSpec => []WitnessesAreEarned
    <1>1. WindowInv => WitnessesAreEarned
        BY WindowsSuffice, SMTT(20) DEF WindowInv
    <1> QED
        BY <1>1, WindowInvariant, PTL

-----------------------------------------------------------------------------
(* What a node keeps while it keeps its database.                          *)

\* Continuing is transitive.
LEMMA ContinuesOn ==
    ASSUME NEW c \in Seq(Event), NEW d \in Seq(Event), NEW e \in Seq(Event),
           Continues(c, d), Continues(d, e)
    PROVE  Continues(c, e)
    <1>1. Len(d) \in 0 .. Len(c) /\ Len(e) \in 0 .. Len(d) /\ Len(e) <= Len(c)
        BY DEF Continues
    <1>2. Prefix(Prefix(c, Len(d)), Len(e)) = Prefix(c, Len(e))
        BY <1>1, PrefixOfPrefix, Zenon
    <1> QED
        BY <1>1, <1>2, Zenon DEF Continues

\* Every chain continues itself.
LEMMA ContinuesItself ==
    ASSUME NEW c \in Seq(Event)
    PROVE  Continues(c, c)
    BY WholePrefix DEF Continues

\* Two beginnings of one chain: the longer continues the shorter.
LEMMA BothContinued ==
    ASSUME NEW c \in Seq(Event), NEW d \in Seq(Event), NEW e \in Seq(Event),
           Continues(c, d), Continues(c, e), Len(e) <= Len(d)
    PROVE  Continues(d, e)
    <1>1. Len(d) \in 0 .. Len(c) /\ Len(e) \in 0 .. Len(d)
        BY DEF Continues
    <1>2. Prefix(Prefix(c, Len(d)), Len(e)) = Prefix(c, Len(e))
        BY <1>1, PrefixOfPrefix, Zenon
    <1> QED
        BY <1>1, <1>2 DEF Continues

\* A step keeps a node's lives, or adds one.
LEMMA LivesGrow ==
    ASSUME FedInv, [FedNext]_fvars, NEW r \in Nodes
    PROVE  life'[r] \in Nat /\ life[r] \in Nat /\ life[r] <= life'[r]
    <1>1. life[r] \in Nat
        BY DEF FedInv, FedTypeOK
    <1>2. ASSUME NEW n \in Nodes, LoseDatabase(n) PROVE life'[r] \in Nat /\ life[r] <= life'[r]
        BY <1>2 DEF FedInv, FedTypeOK, LoseDatabase
    <1>3. ASSUME NEW n \in Nodes, NEW kind \in ContentKinds, Author(n, kind) PROVE life' = life
        BY <1>3, SMTT(20) DEF Author
    <1>4. ASSUME NEW n \in Nodes, NEW o \in Nodes, Deliver(n, o) PROVE life' = life
        BY <1>4, Zenon DEF Deliver, record_equivocation, import_federation_bundle
    <1>5. ASSUME UNCHANGED fvars PROVE life' = life
        BY <1>5 DEF fvars
    <1> QED
        BY <1>1, <1>2, <1>3, <1>4, <1>5, SMTT(20) DEF FedNext

\* What a node has stored and kept, and its own log, only grow in one life.
Kept(r, o) ==
    /\ Continues(log'[r], log[r])
    /\ Continues(remote_events'[r][o], remote_events[r][o])
    /\ remote_checkpoints[r][o] \subseteq remote_checkpoints'[r][o]

\* Only a lost database takes stored chains, checkpoints and own events away.
LEMMA CopiesKept ==
    ASSUME FedInv, [FedNext]_fvars, NEW r \in Nodes, NEW o \in Nodes, life'[r] = life[r]
    PROVE  Kept(r, o)
    <1> USE DEF FedInv
    <1>0. log[r] \in Seq(Event) /\ remote_events[r][o] \in Seq(Event)
        BY DEF FedTypeOK, Chain
    <1>1. Continues(log[r], log[r]) /\ Continues(remote_events[r][o], remote_events[r][o])
        BY <1>0, ContinuesItself, Zenon
    <1>2. ASSUME NEW e \in Event, log'[r] = Append(log[r], e) PROVE Continues(log'[r], log[r])
        <2>1. Len(log[r]) \in 0 .. Len(log[r])
            BY <1>0
        <2>2. Prefix(Append(log[r], e), Len(log[r])) = Prefix(log[r], Len(log[r]))
            BY <1>0, <2>1, PrefixOfAppend, Zenon
        <2>3. Len(log[r]) <= Len(Append(log[r], e))
            BY <1>0
        <2> QED
            BY <1>1, <1>2, <2>2, <2>3, SMTT(20) DEF Continues
    <1>3. ASSUME NEW n \in Nodes, NEW kind \in ContentKinds, Author(n, kind) PROVE Kept(r, o)
        <2>1. remote_events' = remote_events /\ remote_checkpoints' = remote_checkpoints
            BY <1>3 DEF Author, tables
        <2>2. NewEvent(n, kind) \in Event
            BY EventType
        <2>3. log'[r] = log[r] \/ log'[r] = Append(log[r], NewEvent(n, kind))
            BY <1>3 DEF Author, FedTypeOK
        <2> QED
            BY <1>1, <1>2, <2>1, <2>2, <2>3, Zenon DEF Kept
    <1>4. ASSUME NEW n \in Nodes, LoseDatabase(n) PROVE Kept(r, o)
        <2>1. r # n
            BY <1>4 DEF LoseDatabase, FedTypeOK
        <2>2. /\ log'[r] = log[r] /\ remote_events'[r] = remote_events[r]
              /\ remote_checkpoints'[r] = remote_checkpoints[r]
            BY <1>4, <2>1 DEF LoseDatabase, FedTypeOK
        <2> QED
            BY <1>1, <2>2, Zenon DEF Kept
    <1>5. ASSUME NEW n \in Nodes, NEW p \in Nodes, NEW chain \in Signed(p),
                 NEW from \in 0 .. Len(chain), import_federation_bundle(n, Bundle(p, from, chain))
          PROVE  Kept(r, o)
        <2>1. Imported(n, p, chain)
            BY <1>5, ImportStores, Zenon
        <2>2. remote_checkpoints[r][o] \subseteq remote_checkpoints'[r][o]
            BY <2>1, SMTT(20) DEF Imported, FedTypeOK
        <2>3. chain \in Seq(Event)
            BY SignedType, SMTT(20) DEF Chain
        <2>4. ASSUME r = n, o = p PROVE Continues(remote_events'[r][o], remote_events[r][o])
            <3>1. remote_events'[r][o] = IF Len(chain) > Len(remote_events[r][o])
                                         THEN chain ELSE remote_events[r][o]
                BY <2>1, <2>4, SMTT(20) DEF Imported, FedTypeOK
            <3>2. Len(chain) > Len(remote_events[r][o]) => Continues(chain, remote_events[r][o])
                BY <1>0, <2>1, <2>3, <2>4 DEF Imported, Continues
            <3> QED
                BY <1>1, <3>1, <3>2, Zenon
        <2>5. ASSUME ~(r = n /\ o = p) PROVE Continues(remote_events'[r][o], remote_events[r][o])
            <3>1. remote_events'[r][o] = remote_events[r][o]
                BY <2>1, <2>5, SMTT(20) DEF Imported, FedTypeOK
            <3> QED
                BY <1>1, <3>1, Zenon
        <2>6. Continues(remote_events'[r][o], remote_events[r][o])
            BY <2>4, <2>5
        <2>7. NewEvent(n, "checkpoint_witnessed") \in Event
            BY EventType, Zenon
        <2>8. log'[r] = log[r] \/ log'[r] = Append(log[r], NewEvent(n, "checkpoint_witnessed"))
            BY <1>5, SMTT(20) DEF import_federation_bundle, WitnessImport, ReuseWitness, FedTypeOK
        <2> QED
            BY <1>1, <1>2, <2>2, <2>6, <2>7, <2>8, Zenon DEF Kept
    <1>6. ASSUME NEW n \in Nodes, NEW p \in Nodes, Deliver(n, p) PROVE Kept(r, o)
        <2>1. PICK chain \in Signed(p) : \E from \in 0 .. Len(chain) :
                  \/ record_equivocation(n, Bundle(p, from, chain))
                  \/ import_federation_bundle(n, Bundle(p, from, chain))
            BY <1>6, Zenon DEF Deliver
        <2>2. PICK from \in 0 .. Len(chain) :
                  \/ record_equivocation(n, Bundle(p, from, chain))
                  \/ import_federation_bundle(n, Bundle(p, from, chain))
            BY <2>1, Zenon
        <2>3. CASE record_equivocation(n, Bundle(p, from, chain))
            <3>1. /\ log' = log /\ remote_events' = remote_events
                  /\ remote_checkpoints' = remote_checkpoints
                BY <2>3 DEF record_equivocation
            <3> QED
                BY <1>1, <3>1, Zenon DEF Kept
        <2> QED
            BY <1>5, <2>2, <2>3, Zenon
    <1>7. ASSUME UNCHANGED fvars PROVE Kept(r, o)
        <2>1. /\ log' = log /\ remote_events' = remote_events
              /\ remote_checkpoints' = remote_checkpoints
            BY <1>7 DEF fvars, tables
        <2> QED
            BY <1>1, <2>1, Zenon DEF Kept
    <1> QED
        BY <1>3, <1>4, <1>6, <1>7, Zenon DEF FedNext

=============================================================================
