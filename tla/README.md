# Commonwake: TLA+ models and proofs

Commonwake is a sovereign peer: one Rust binary that keeps a signed, hash-chained event log in SQLite, lets
lineages delegate bounded sessions, collects news, and exchanges logs with other peers. This directory models it
in TLA+, checks small instances with TLC, and proves with TLAPS the safety properties of the authority
lifecycle, of federation, pulls and publication, and of the public edge. Paths below are relative to the
repository root.

## 1. Inventory

| Part | State | Operations that change it | What makes it hard |
|---|---|---|---|
| Authority (`src/service.rs`, `src/db.rs`) | `lineages`, `lineage_keys`, `delegations`, `acknowledgements`, `events` | register, delegate, revoke, rotate, contribute, acknowledge | checks and transaction run under separate locks; requests interleave; a crash loses what lies between |
| Remote projection (`src/db.rs`) | `federated_lineages`, `federated_lineage_keys`, `federated_delegations` | one arm per event kind | a second implementation of the authority rules, driven by the log alone |
| Federation (`src/federation.rs`, `src/db.rs`) | `federation_peers`, `remote_events`, `remote_checkpoints`, `checkpoint_witnesses`, `federation_imports`, `equivocation_evidence` | import, record evidence, witness, serve pages | bundles late, twice, out of order; an origin that lost its database signs two chains |
| Pull synchronization (`src/main.rs`) | a run of `synchronize_peer` | probe, fetch, import | the cursor is stale by the time the page is imported |
| Publication (`src/publication.rs`, `src/db.rs`, `src/api.rs`) | `publication_targets`, `desired_replicas`, the `replicate_origin` work item | configure, publish, record success or failure | lost answers, competing publishers, endpoints that change hands, lost databases |
| News (`src/db.rs`, `src/ingest.rs`) | `sources`, `source_reviews`, `observations`, `stories`, `story_observations`, `observation_verifications`, `assessments`, `work_*`, and the `federated_*` copies | contribution kinds, a collector's passes, imports | the same rules written twice, for home and for imports; links that merge stories and move observations; a collector that works from a list it read earlier |
| Commons (`src/db.rs`) | `forum_topics`, `forum_topic_votes`, `forum_posts`, `openpgp_keys`, `direct_messages` | propose, vote, post, publish or revoke a key, send | local and imported rows share tables, and imports come in any order |
| Forge (`src/forge.rs`, `src/db.rs`) | artifact and receipt files, forge records in the log | upload, patch, review, attest, release | files and rows are written apart; crashes in between |
| Edge and volunteers (`src/edge.rs`, `src/volunteer.rs`, `src/api.rs`) | permits, rate windows, admission mutexes, `volunteer_submissions` | every request of the public listener | quotas checked before they are used, clients that vanish or retry, a second listener without limits |
| Orientation (`src/service.rs`, `src/db.rs`) | none | none; a reader's cursor | two reads in two transactions, over stories that merge meanwhile |

The parts interact through the log. Every accepted object is an event; publication and pull move ranges of one
node's log to another; the importer validates each event and projects it into its own tables.

## 2. Modules

| Module | Models |
|---|---|
| `LineageAuthority` | one node's authority tables and log. A request is two steps: `PassServiceChecks` (the service layer, which then drops the lock and leaves the document in `pending`) and one transaction per kind (`register_lineage`, ..., `append_acknowledgement`), or `RollBack`. `Crash` empties `pending`. |
| `AuthorityReplay` | extends it with an importer that rebuilds the tables from the log: `ImportEvent` is one arm of `validate_and_project_remote_event`. |
| `Federation` | several nodes with logs and federation tables: `Author`, `LoseDatabase`, `Deliver` (which is `import_federation_bundle` or `record_equivocation`), and the pages a relay serves as operators. |
| `PeerSync` | extends `Federation` with pulls: `StartPull`, `FetchPage`, `ImportPage`, `Fail`, and `Push`. |
| `Publication` | extends `Federation` with one publishing origin: `LoopTick`, `Begin`, `CheckHead`, `SendPage`, `RelayImports`, `record_publication_success`, `record_publication_failure`. |
| `OriginReplicas` | the abstract specification `Federation` implements: origins sign histories, replicas follow one of them, and accuse only an origin that forked. |
| `Curation`, `Commons`, `Forge` | operators on tables and logs, no state: what one contribution or observation is checked against and changes, at home and at an importer, and what a view shows. |
| `Projection` | composes the three: nodes with logs and tables. `Contribute`, `Import`, the collector (`StartPass`, `FetchReturns`, `AppendEntry`, `FinishSource`, `FailSource`, `CrashCollector`), a reader of orientation (`OrientPage`, `OrientStories`) and a mailbox (`ReadMail`). |
| `Gateway` | the public edge from `Enter` through `CheckRate`, `Admit`, `ReceiveBody` and the handlers to `Answer`, with `Disconnect`, `Crash`, the administration listener (`LocalSubmission`) and the synchronization loop (`SyncImport`). |
| `AuthorityTables` | lemmas: the origin's transactions keep its tables typed and explained by its log. |
| `AuthorityProofs` | the steps of the importer, and the theorems on types, tables, replay, key eras, rotations, acknowledgements and on authority only advancing. |
| `AuthoritySerial` | the theorems on a node that handles one request at a time. |
| `FederationProofs` | lemmas on histories, the inductive invariant of `Federation`, and the refinement of `OriginReplicas`. |
| `FederationWindows` | import windows, witnesses, announcements and the pages of relays. |
| `PeerSyncProofs`, `PublicationProofs`, `GatewayProofs` | the inductive invariants of the three modules and the theorems on their safety properties. |
| `MC*` | constants for TLC. |

Definitions keep the names of the functions, variables and columns they model. A definition marked `Faulty`
is a plausible bug: replacing the definition after it by the faulty one breaks a property, which shows that
the property depends on that line of code.

Abstractions, each stated in the header of its module: a signature is the key that made it; the hash of an
event is the chain that ends in it; an event of the federation level is its kind and the life of the database
that wrote it; sequence number 0 is SQL NULL; two scopes stand for seven, since a scope is only tested for
membership; time is a bounded clock in the authority modules and two flags per target in `Publication`. A
target whose wait runs out in the middle of a tick of `publish_loop` is visited at the next tick.
In the news modules an identifier is what it is a hash of, a text is its length or its set of words, and the
content check of a payload, one function for home and importers, is a flag of the contribution. An import of
`Projection` is one event, and its witness, which carries the window of the import, is left to `Federation`.
Authorization is left to `AuthorityReplay`: contributions of `Projection` are authorized. In `Gateway` an
artifact has size one, time is a bounded clock, and a contribution is its effect on work or on the forge.

## 3. Runs

| Run | Question | Distinct states |
|---|---|---|
| `authority_concurrent` | Two threads, three keys, one delegation, crashes, an importer. `TablesExplained`: tables follow from the log. `ReplayAgrees`: the importer's tables are the origin's as of the cursor. `KeyErasPartition`: one key in force at every sequence number. `RotationsChain`: a rotation retires the key in force just before it. `AckConsumesOnlyItself`. `AuthorityOnlyAdvances`. | 416,457 |
| `authority_serial` | One thread and a clock. `RevokedSessionsStaySilent`, `CurrentKeySigns`, `NextEventReplays`: what the origin accepts, the importer accepts. | 987,588 |
| `authority_revocation_race`, `authority_rotation_race` | Two threads break the first two of these; see section 6. | violation |
| `federation_safety` | Two nodes, one of which loses its database. `StoredChainIsSigned`, `EvidenceIsSound`, `ImplementsReplicas`, `EachEventAnnouncedOnce`, `WitnessesAreEarned`, `RelayAlwaysServes`. | 47,432 |
| `peer_sync` | Two nodes that pull from each other, one also pushed to. `HeldPageStaysImportable`, `ReplicasConverge`. | 103,424 |
| `peer_relay` | Origin, relay, reader; the origin starts over. `RelayPreservesOrigin`. | 209,522 |
| `publication_safety` | Loop and command on one endpoint, one fault, one move, every node may lose its database once. `AcknowledgedIsRetained`, `AcknowledgedIsOwn`, `AcknowledgementOnlyAdvances`. | 890,882 |
| `publication_catch_up` | The loop alone, two endpoints over two relays, one fault. `ReplicatedMeansCopies`, `TargetsCatchUp`. | 316,540 |
| `projection` | Nine scenarios of two nodes: reviews, collection, stories, reading at home and abroad, work, topics, mail, forge. `ReplicaMirrorsOrigin`: both projections agree. `EveryEventImports`: what home accepts, importers accept, save two named mismatches. `FederatedStoriesAreWhole`: links lose no observation. `PromotionIsEarned`, `WorkFollowsReports`: sources and work follow independent traced reports. `CommonsMatchHistory`, `RevocationIsFinal`, `MailboxMissesNothing`: shared tables whatever the order of imports. `ReaderIsCurrent`: a reader at the head has been shown what stories hold, save what a link that does not name its story moved (section 6). | 214,418 |
| `projection_orientation` | Orientation fails in the same scenarios; see section 6. | violation |
| `gateway` | Two clients at limits of one or two. `LimitsHold`, `RatesAreBounded`, `ReceiptsAreKept`, `EveryRequestEnds`. | 97,232 |

Bounds. Four events are enough to register, delegate, revoke or rotate, and act afterwards; three keys allow two
rotations in a row; two threads are the least that race, and each transaction is atomic. In `Federation` three
authored events and pages of at most two make overlaps, gaps and checkpoints inside a page possible, and one
lost database is enough for two chains. In `Publication` two pages of one event need a second page, and one
fault hits each step of a run. `Projection` starts each scenario from a prologue, a run of the nodes that `PrologueAssumption`
checks step by step, and offers a menu from which contributions are taken in any order; two nodes are enough
for home and importer, two stories for a merge and back, three lineages for a proposer and two reviewers,
titles of three and summaries of four characters for one over each limit, pages of two events or one message for a second page. The
scenarios are chosen so that every arm of the code is taken, most of them with refused inputs as well. In `Gateway` two
clients are the least that race for a last place; windows of two to four ticks meet within the clock's bound.
Deadlock is not checked where the bounds let every actor stop.

Symmetry is used only in `authority_concurrent`, over threads and over keys that no grant mentions.

## 4. Fairness

`ReplicasConverge` assumes weak fairness of the steps of direct pulls: `sync_loop` visits each configured peer at
every tick and each request ends. Relayed origins are pulled on command, so nothing is assumed of them.
`TargetsCatchUp` assumes weak fairness of `LoopTick`, of the loop's next visit, of each step of a run and of the
end of a wait: `publish_loop` ticks for ever and goes through its list. Faults are bounded; authoring stops
because the bound is reached, which stands for a pause long enough to catch up. `EveryRequestEnds` assumes weak
fairness of the middleware and of the handler of each request, which the runtime polls; the mutexes are first
come, first served. Nothing is assumed of a client: a body that never comes keeps its permit, since no time-out
bounds it, and only requests whose body has arrived are promised an end.

## 5. What is proved

Every theorem holds for all values of the constants that satisfy the named assumptions. Those say that bounds
are naturals, that the fields of a scenario, grant or route have their types, that `NULL` is no key, lineage,
document or node, and, where something is counted, that nodes or clients are finite in number.

**Authority, any number of threads.** `Spec` implies `TypeOK`, `TablesExplained`, `ReplayAgrees`,
`KeyErasPartition`, `RotationsChain`, `AckConsumesOnlyItself` and `AuthorityOnlyAdvances`. Only the first two
together are inductive. The tables say nothing of where their numbers come from, so a step could date a row to an
event that is not there. `TablesExplained` adds that: each row names the event that wrote it
(`KeyRowsExplained`, `DelegationRowsExplained`), each event left its row (`KeyEventsApplied`,
`DelegationEventsApplied`), and the current key's era is open (`CurrentKeyIsOpen`). From it the importer's next
step can be matched with the origin's tables as of the next number, which gives `ReplayAgrees`. `RotationsChain`
follows because a rotation commits only from the current key, and whether a key is in force at a number within
the log never changes afterwards.

**Authority, one thread.** `RevokedSessionsStaySilent`, `CurrentKeySigns` and `NextEventReplays` are false for
two threads (section 6). For one (`OneThread`) they are proved. `SerialInv` says two things: what the service
checked of the document in hand still holds (`PendingStands`), which is where one thread is needed, since no
other transaction commits in between; and each document in the log was good at its own number
(`EventStands`), which later events cannot change. An importer at cursor *n* has the origin's tables as of *n*,
so it finds the same.

**Federation.** `FedSpec` implies `FedTypeOK`, `StoredChainIsSigned` and `EvidenceIsSound`. Two chains of one
length that differ only convict an origin if an origin that kept its database has signed a single chain.
`SingleLife` says so, and with it `FedInv` is inductive. The work is in what an origin has signed: it is the set
of prefixes of its logs, closed under prefixes, and of one log any two of them are one history at two lengths.
The refinement shows that every step of `Federation` is a step of `OriginReplicas` or leaves its variables
alone: authoring and witnessing are `Sign`, an import is `Learn` because the bundle it verified continues the
stored chain, a conflict is `Accuse` because two different chains of one length fork, and a lost database is
`Forget`. That a conflict is such a pair takes the least position where bundle and stored log differ.

`FederationWindows` proves `EachEventAnnouncedOnce`, `WitnessesAreEarned` and `RelayAlwaysServes`. `WindowInv`
adds to `FedInv` that stored checkpoints lie on the stored chain, that consecutive ones are at most a bundle
apart and the last is at the cursor (`CheckpointsServe`), and that windows do not overlap, cover the content
imported, and correspond to the witness events of the node's own log (`WindowsFollow`).

**Pulls.** `PeerSyncProofs` proves `TypeOK`, `HeldPageStaysImportable` and `RelayPreservesOrigin`. `SyncInv` adds
to `WindowInv` that a pull's cursor is behind what its puller stores and that the page it holds is signed
(`RowsTrue`), and that a reader with one relay for its only source has a beginning of what the relay has
(`RelayedCopies`).

**Publication.** `PublicationProofs` proves `TypeOK`, `AcknowledgedIsOwn`, `AcknowledgedIsRetained`,
`ReplicatedMeansCopies` and `AcknowledgementOnlyAdvances`. The targets alone are not inductive: what a target
records was on its way in a run before. `PubInv` says of the page of every run that was answered (`RunsTrue`)
what it says of every target (`TargetsTrue`): the range lies on the origin's chain, and the relay that signed
for it holds it with its checkpoint, or has lost its database. `ReplicatedMeansCopies` then counts: the
endpoints that `replication_health` counts have distinct relays.

**Public edge.** `GatewayProofs` proves `LimitsHold`, `RatesAreBounded` and `ReceiptsAreKept`, for any clients,
scenarios, limits, durations and number of crashes. The quota checks are read under one step and used in
another; `Guarded` says that a handler between the two is at the head of its mutex, so that of the public
requests only one is there. Around it `GateInv` collects one ledger per limit: permits taken are requests in
flight (`PermitsReturn`), stored artifacts and uploads that passed the storage check add up (`StorageHolds`),
a submission that passed its check still has a place (`IntakeHolds`), and so has a bundle (`OriginsHold`); a
nonce has one row, and a receipt handed out is on disk (`ReceiptsHold`). For the rates it says that a window's
count is the number of requests since it began, that a window is within its limit, and that what came in the
length of a window before it began was within the limit too (`RatesHold`): any span then meets at most two
windows.

Only model-checked:

- liveness (`ReplicasConverge`, `TargetsCatchUp`, `EveryRequestEnds`), which is beyond the prover, as are
  `ENABLED` and induction over data;
- the properties of `projection`. `Projection` starts from the state a prologue of any length leads to, and
  computes views by recursion over the log; both need induction over sequences.

Each inductive invariant has also been model-checked on an instance before it was proved.

## 6. Disagreements with the documents

- A contribution authorized before a revocation commits can be appended after it: `append_contribution` does
  not look at the revocation again (`authority_revocation_race`; `docs/protocol.md:139`).
- A delegation or revocation checked against the current key can be appended after a rotation retired that key
  (`authority_rotation_race`; `docs/protocol.md:137`, `docs/adr/0002-explicit-authority-lifecycle.md:16`).

In both cases `RemoteAdmits` is false for the late event, so every importer stops before it.
`NextEventReplays` leaves out one similar case: an event stamped after its grant ran out, because the check and
the stamp read the clock separately.

- `changed_story_ids` names stories merged within the window, and `story_view` does not find them: orientation
  fails as a whole for every reader whose cursor lies before such a merge (`projection_orientation`;
  `docs/protocol.md:688`, `docs/news-curation.md:20`).
- `changed_story_ids` finds a link only by its targets, and a link need not name its story there: the story then
  gains an observation of which a reader at home is never told, although `docs/protocol.md:688` calls orientation
  the "change replay surface for new observations" on existing stories. `ReaderIsCurrent` in `projection` states
  the gap exactly: a reader at the head misses nothing but what such links moved (`MovedUnannounced`), and an
  importer's readers miss nothing at all. The scenarios contain such a link; without the exception TLC finds the
  reader behind after that link and one poll.

No document speaks of the following; a property names each, or is stated so that it holds beside it:

- A link or an assessment on a merged story is accepted at home and refused by every importer, which then stays
  before that event (`NamesMergedStory` in `EveryEventImports`).
- `truncate` leaves 501 of 500 characters of a title and 2001 of 2000 of a summary, one more than importers take;
  they stay before such an observation (`TextOverLimit` in `EveryEventImports`).
- A source promoted by untraced reviews before the trace rule, and collected since, is not promoted at
  importers, which refuse its observations. The scenarios have untraced reviews but no such promotion.
- Open work about a merged story stays open.
- A crash while a receipt file is written leaves a partial file, after which its artifact's receipts cannot be
  listed (`ReceiptsAreKept` shows that nothing promised before is lost).
- Free storage is checked before an upload is written: uploads together exceed the limit by less than one
  artifact per permit (`LimitsHold`). The administration listener and the synchronization loop know no quotas.
- A volunteer whose answer was lost and who retries is told of a conflict, not given the receipt.

## 7. Not modelled

- Routing, encoding, TLS and ACME, feed parsing and fetching, OpenPGP encryption: input and output, or
  libraries.
- The embedded source capsule: constant data and pure verification.
- Read-only listings: feed pages, coverage report, topic and key listings, submissions, `verify_log` and
  exports. They change nothing; the views behind orientation, and the mailbox, are modelled.
- First initialization of a data directory (`src/node.rs`): writing key files, and two processes that start at
  once, depend on the file system's guarantees.
- The fetch cadence: which sources are due is left open, so that any subset may be fetched.
