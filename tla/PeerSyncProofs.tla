--------------------------- MODULE PeerSyncProofs ---------------------------
(***************************************************************************)
(* Proofs, for any nodes, routes, page sizes and bounds, that a page which *)
(* is overtaken while synchronize_peer holds it stays importable, and that *)
(* a relay passes an origin on as it received it.                          *)
(*                                                                         *)
(* The invariant says of each pull that its cursor is not beyond what the  *)
(* puller stores by now, that the page it holds verifies, and that a page  *)
(* from a relay is a beginning of what the relay stores.                   *)
(***************************************************************************)
EXTENDS PeerSync, FederationWindows

Row == [phase : {"idle", "asking", "holding"}, cursor : Nat,
        pages : 0 .. MaxPages - 1, chain : Chain]

\* A pull over the route r, where mine is the puller's copy, signed what the origin
\* signed, and lives and theirs the server's lives and its copy.
RowTrue(r, row, mine, signed, lives, theirs) ==
    /\ row.cursor <= Len(mine)
    /\ row.phase = "holding" =>
          /\ row.chain \in signed
          /\ row.cursor <= Len(row.chain)
          /\ Len(row.chain) - row.cursor <= MAX_FEDERATION_EVENTS
    /\ row.phase = "holding" /\ r.server # r.origin /\ lives = 0 => Continues(theirs, row.chain)

RowsTrue ==
    \A r \in Routes :
        RowTrue(r, pull[r], remote_events[r.puller][r.origin], Signed(r.origin),
                life[r.server], remote_events[r.server][r.origin])

RelayedCopies ==
    \A r \in Routes :
        r.server # r.origin /\ OnlySource(r) /\ life[r.server] = 0 =>
            Continues(remote_events[r.server][r.origin], remote_events[r.puller][r.origin])

SyncInv == WindowInv /\ TypeOK /\ RowsTrue /\ RelayedCopies

-----------------------------------------------------------------------------
(* Steps of the federation.                                                *)

\* A route's ends are nodes, and the puller is neither of the others.
LEMMA RouteEnds ==
    ASSUME NEW r \in Routes
    PROVE  /\ r.puller \in Nodes /\ r.server \in Nodes /\ r.origin \in Nodes
           /\ r.puller # r.server /\ r.puller # r.origin
    BY RoutesAssumption

\* Nothing signed is unsigned.
LEMMA SigningGrows ==
    ASSUME FedInv, [FedNext]_fvars, NEW o \in Nodes
    PROVE  Signed(o) \subseteq Signed(o)'
    <1> USE DEF FedInv
    <1>1. ASSUME NEW n \in Nodes, NEW kind \in ContentKinds, Author(n, kind)
          PROVE  Signed(o) \subseteq Signed(o)'
        <2>1. NewEvent(n, kind) \in Event
            BY EventType
        <2>2. log' = [log EXCEPT ![n] = Append(@, NewEvent(n, kind))] /\ abandoned' = abandoned
            BY <1>1 DEF Author
        <2> QED
            BY <2>1, <2>2, SignedGrows, Zenon
    <1>2. ASSUME NEW n \in Nodes, LoseDatabase(n) PROVE Signed(o) \subseteq Signed(o)'
        BY <1>2, SignedStays, Zenon
    <1>3. ASSUME NEW n \in Nodes, NEW p \in Nodes, Deliver(n, p) PROVE Signed(o) \subseteq Signed(o)'
        <2>1. PICK b : record_equivocation(n, b) \/ import_federation_bundle(n, b)
            BY <1>3, Zenon DEF Deliver
        <2>2. CASE record_equivocation(n, b)
            <3>1. log' = log /\ abandoned' = abandoned
                BY <2>2 DEF record_equivocation
            <3> QED
                BY <3>1, Zenon DEF Signed
        <2>3. CASE import_federation_bundle(n, b)
            BY <2>3, WitnessingSigns, Zenon DEF import_federation_bundle
        <2> QED
            BY <2>1, <2>2, <2>3
    <1>4. ASSUME UNCHANGED fvars PROVE Signed(o) \subseteq Signed(o)'
        <2>1. log' = log /\ abandoned' = abandoned
            BY <1>4 DEF fvars
        <2> QED
            BY <2>1, Zenon DEF Signed
    <1> QED
        BY <1>1, <1>2, <1>3, <1>4, Zenon DEF FedNext

\* Importing a held page delivers a bundle; all else is a federation step.
LEMMA SyncSteps ==
    ASSUME TypeOK, [Next]_vars
    PROVE  [FedNext]_fvars
    <1>1. ASSUME NEW r \in Routes, ImportPage(r) PROVE [FedNext]_fvars
        <2> DEFINE chain == pull[r].chain
                   from == pull[r].cursor
        <2>1. from \in Nat /\ chain \in Chain
            BY DEF TypeOK
        <2>2. ASSUME verify_bundle(Held(r)) PROVE chain \in Signed(r.origin) /\ from \in 0 .. Len(chain)
            BY <2>1, <2>2 DEF verify_bundle, Held, Bundle, Chain
        <2>3. Held(r) = Bundle(r.origin, from, chain)
            BY DEF Held
        <2>4. ASSUME verify_bundle(Held(r)),
                     record_equivocation(r.puller, Held(r)) \/ import_federation_bundle(r.puller, Held(r))
              PROVE  Deliver(r.puller, r.origin)
            BY <2>2, <2>3, <2>4, Zenon DEF Deliver
        <2>5. Deliver(r.puller, r.origin) \/ UNCHANGED fvars
            BY <1>1, <2>4, Zenon DEF ImportPage
        <2> QED
            BY <2>5, RouteEnds, Zenon DEF FedNext
    <1>2. ASSUME NEW r \in Routes, StartPull(r) \/ FetchPage(r) \/ Fail(r) PROVE UNCHANGED fvars
        BY <1>2, Zenon DEF StartPull, FetchPage, Fail
    <1>3. ASSUME NEW p \in Pushes, Push(p) PROVE [FedNext]_fvars
        <2>1. p.to \in Nodes /\ p.origin \in Nodes
            BY RoutesAssumption
        <2> QED
            BY <1>3, <2>1, Zenon DEF Push, FedNext
    <1>4. ASSUME NEW n \in Nodes, Restart(n) PROVE [FedNext]_fvars
        BY <1>4, Zenon DEF Restart, FedNext
    <1>5. ASSUME NEW n \in Nodes, NEW kind \in ContentKinds, Author(n, kind) PROVE [FedNext]_fvars
        BY <1>5, Zenon DEF FedNext
    <1>6. ASSUME UNCHANGED vars PROVE UNCHANGED fvars
        BY <1>6 DEF vars
    <1> QED
        BY <1>1, <1>2, <1>3, <1>4, <1>5, <1>6, Zenon DEF Next

\* RowTrue of the state after a step.
RowTrueNext(r, row) ==
    RowTrue(r, row, remote_events'[r.puller][r.origin], Signed(r.origin)',
            life'[r.server], remote_events'[r.server][r.origin])

\* Whatever others commit, a pull stays true while its puller keeps the database.
LEMMA RowStays ==
    ASSUME FedInv, [FedNext]_fvars, NEW r \in Routes, life'[r.puller] = life[r.puller],
           NEW row \in Row,
           RowTrue(r, row, remote_events[r.puller][r.origin], Signed(r.origin),
                   life[r.server], remote_events[r.server][r.origin])
    PROVE  RowTrueNext(r, row)
    <1>1. r.puller \in Nodes /\ r.server \in Nodes /\ r.origin \in Nodes
        BY RouteEnds
    <1>2. FedInv'
        BY StepKeeps
    <1>3. row.chain \in Seq(Event) /\ row.cursor \in Nat
        BY DEF Row, Chain
    <1>4. /\ remote_events[r.puller][r.origin] \in Seq(Event)
          /\ remote_events'[r.puller][r.origin] \in Seq(Event)
          /\ remote_events[r.server][r.origin] \in Seq(Event)
          /\ remote_events'[r.server][r.origin] \in Seq(Event)
        BY <1>1, <1>2, ZenonT(30) DEF FedInv, FedTypeOK, Chain
    <1>5. row.cursor <= Len(remote_events'[r.puller][r.origin])
        <2>1. Continues(remote_events'[r.puller][r.origin], remote_events[r.puller][r.origin])
            BY <1>1, CopiesKept, Zenon DEF Kept
        <2> QED
            BY <1>3, <1>4, <2>1, SMTT(20) DEF Continues, RowTrue
    <1>6. row.chain \in Signed(r.origin) => row.chain \in Signed(r.origin)'
        BY <1>1, SigningGrows, Zenon
    <1>7. ASSUME row.phase = "holding", r.server # r.origin, life'[r.server] = 0
          PROVE  Continues(remote_events'[r.server][r.origin], row.chain)
        <2>1. life[r.server] = 0
            BY <1>1, <1>7, LivesGrow
        <2>2. Continues(remote_events'[r.server][r.origin], remote_events[r.server][r.origin])
            BY <1>1, <1>7, <2>1, CopiesKept, Zenon DEF Kept
        <2>3. Continues(remote_events[r.server][r.origin], row.chain)
            BY <1>7, <2>1 DEF RowTrue
        <2> QED
            BY <1>3, <1>4, <2>2, <2>3, ContinuesOn, Zenon
    <1> QED
        BY <1>5, <1>6, <1>7, Zenon DEF RowTrueNext, RowTrue

\* A pull that is not under way.
LEMMA IdleIsTrue ==
    ASSUME NEW r, NEW mine \in Seq(Event), NEW signed, NEW lives, NEW theirs
    PROVE  Idle \in Row /\ RowTrue(r, Idle, mine, signed, lives, theirs)
    <1>1. <<>> \in Chain /\ 0 \in 0 .. MaxPages - 1
        BY RoutesAssumption DEF Chain
    <1>2. 0 <= Len(mine)
        OBVIOUS
    <1> QED
        BY <1>1, <1>2 DEF Idle, Row, RowTrue

-----------------------------------------------------------------------------
(* What a server answers.                                                  *)

\* A page ends at or after the cursor it was asked for.
LEMMA PagesGoOn ==
    ASSUME NEW r, NEW o, NEW after \in Nat, NEW limit, NEW x \in through_cursors(r, o, after, limit)
    PROVE  x = after \/ after < x
    <1>1. CASE after = federation_peers[r][o].cursor
        BY <1>1 DEF through_cursors
    <1>2. CASE after # federation_peers[r][o].cursor
        BY <1>2 DEF through_cursors
    <1> QED
        BY <1>1, <1>2

\* What a page must be for the puller's check to pass.
PageFrom(r, after, chain) ==
    /\ chain \in Chain
    /\ chain \in Signed(r.origin)
    /\ after <= Len(chain)
    /\ Len(chain) - after <= MAX_FEDERATION_EVENTS
    /\ r.server # r.origin => Continues(remote_events[r.server][r.origin], chain)

\* federation_bundle answers with a page of the server's own log.
LEMMA OwnPageIs ==
    ASSUME FedInv, NEW r \in Routes, r.server = r.origin, NEW after \in Nat,
           NEW chain \in OwnPages(r, after)
    PROVE  PageFrom(r, after, chain)
    <1> DEFINE own == log[r.origin]
               end == IF after + BatchSize < Len(own) THEN after + BatchSize ELSE Len(own)
    <1>1. r.origin \in Nodes
        BY RouteEnds
    <1>2. own \in Seq(Event) /\ own \in Logs(r.origin) /\ Len(own) \in Nat
        BY <1>1 DEF FedInv, FedTypeOK, Chain, Logs
    <1>3. BatchSize \in Nat /\ BatchSize <= MAX_FEDERATION_EVENTS /\ MAX_FEDERATION_EVENTS \in Nat
        BY RoutesAssumption, FederationAssumption
    <1>4. ~(after > Len(own)) /\ chain = Prefix(own, end)
        BY DEF OwnPages
    <1>5. end \in 0 .. Len(own) /\ after <= end /\ end - after <= MAX_FEDERATION_EVENTS
        BY <1>2, <1>3, <1>4
    <1> HIDE DEF end, own
    <1>6. chain \in Seq(Event) /\ Len(chain) = end
        BY <1>2, <1>4, <1>5, PrefixIn
    <1>7. own \in Signed(r.origin)
        <2>1. Logs(r.origin) \in SUBSET Seq(Event)
            BY <1>1, SignedType DEF FedInv
        <2> QED
            BY <1>2, <2>1, SignedIs, HistoriesHold, Zenon
    <1>8. chain \in Signed(r.origin)
        BY <1>1, <1>4, <1>5, <1>7, SignedClosed, Zenon DEF FedInv
    <1> QED
        BY <1>5, <1>6, <1>8 DEF PageFrom, Chain

\* relayed_federation_bundle answers with a beginning of the stored chain.
LEMMA RelayPageIs ==
    ASSUME WindowInv, NEW r \in Routes, NEW after \in Nat, NEW chain \in RelayPages(r, after)
    PROVE  PageFrom(r, after, chain)
    <1> DEFINE stored == remote_events[r.server][r.origin]
    <1>1. r.server \in Nodes /\ r.origin \in Nodes
        BY RouteEnds
    <1>2. /\ federation_peers[r.server][r.origin].known
          /\ after <= federation_peers[r.server][r.origin].cursor
          /\ chain \in RelayCheckpoints(r.server, r.origin, after, BatchSize)
        BY DEF RelayPages
    <1>3. federation_peers[r.server][r.origin].cursor \in Nat /\ BatchSize \in 1 .. MAX_FEDERATION_EVENTS
        BY <1>1, StoredFacts, RoutesAssumption DEF WindowInv, FedInv
    <1>4. after \in 0 .. federation_peers[r.server][r.origin].cursor
        BY <1>2, <1>3
    <1>5. RelayAlwaysServes
        BY CheckpointsSuffice DEF WindowInv
    <1>6. Len(chain) - after <= MAX_FEDERATION_EVENTS /\ chain = Prefix(stored, Len(chain))
        BY <1>1, <1>2, <1>3, <1>4, <1>5, Zenon DEF RelayAlwaysServes
    <1>7. chain \in remote_checkpoints[r.server][r.origin]
        BY <1>2 DEF RelayCheckpoints
    <1>8. chain \in Chain /\ Len(chain) \in Nat
        BY <1>1, <1>7 DEF WindowInv, FedInv, FedTypeOK, Chain
    <1>9. Len(chain) <= Len(stored)
        BY <1>1, <1>7, Zenon DEF WindowInv, CheckpointsServe
    <1>10. stored \in Signed(r.origin) /\ Len(stored) \in Nat
        BY <1>1, StoredFacts DEF WindowInv, FedInv
    <1> HIDE DEF stored
    <1>11. Len(chain) \in 0 .. Len(stored)
        BY <1>8, <1>9, <1>10
    <1>12. chain \in Signed(r.origin)
        BY <1>1, <1>6, <1>10, <1>11, SignedClosed, Zenon DEF WindowInv, FedInv
    <1>13. after <= Len(chain)
        <2>1. Len(chain) \in through_cursors(r.server, r.origin, after, BatchSize)
            BY <1>2 DEF RelayCheckpoints
        <2>2. Len(chain) = after \/ after < Len(chain)
            BY <2>1, PagesGoOn, Zenon
        <2> QED
            BY <1>8, <2>2
    <1> QED
        BY <1>6, <1>8, <1>9, <1>12, <1>13 DEF PageFrom, Continues, stored

\* Whoever serves it, a page continues the puller's cursor and verifies.
LEMMA ServedPageIs ==
    ASSUME WindowInv, NEW r \in Routes, NEW after \in Nat, NEW chain \in ServedPages(r, after)
    PROVE  PageFrom(r, after, chain)
    BY OwnPageIs, RelayPageIs, Zenon DEF ServedPages, WindowInv

-----------------------------------------------------------------------------
(* The steps of a pull.                                                    *)

\* Every pull stays true in a step of the federation, or is idle.
LEMMA RowsStay ==
    ASSUME SyncInv, [FedNext]_fvars, NEW r \in Routes
    PROVE  /\ Idle \in Row /\ RowTrueNext(r, Idle)
           /\ life'[r.puller] = life[r.puller] => pull[r] \in Row /\ RowTrueNext(r, pull[r])
    <1>1. FedInv'
        BY StepKeeps DEF SyncInv, WindowInv
    <1>2. remote_events'[r.puller][r.origin] \in Seq(Event)
        BY <1>1, RouteEnds DEF FedInv, FedTypeOK, Chain
    <1>3. pull[r] \in Row
        BY DEF SyncInv, TypeOK, Row
    <1>4. Idle \in Row /\ RowTrueNext(r, Idle)
        BY <1>2, IdleIsTrue, Zenon DEF RowTrueNext
    <1>5. ASSUME life'[r.puller] = life[r.puller] PROVE RowTrueNext(r, pull[r])
        BY <1>3, <1>5, RowStays, Zenon DEF SyncInv, WindowInv, RowsTrue
    <1> QED
        BY <1>3, <1>4, <1>5

PullType == pull \in [Routes -> Row]

\* One pull moves on, to one that is true.
LEMMA RowWritten ==
    ASSUME SyncInv, [FedNext]_fvars, life' = life, NEW r \in Routes, NEW row \in Row,
           RowTrueNext(r, row), pull' = [pull EXCEPT ![r] = row]
    PROVE  PullType' /\ RowsTrue'
    <1>1. pull \in [Routes -> Row]
        BY DEF SyncInv, TypeOK, Row
    <1>2. pull' \in [Routes -> Row] /\ pull'[r] = row
        BY <1>1
    <1>3. \A q \in Routes \ {r} : pull'[q] = pull[q]
        BY <1>1
    <1>4. \A q \in Routes : RowTrueNext(q, pull'[q])
        BY <1>2, <1>3, RowsStay, Zenon
    <1> QED
        BY <1>2, <1>4, Zenon DEF PullType, RowsTrue, RowTrueNext

\* No pull moves on.
LEMMA RowsKept ==
    ASSUME SyncInv, [FedNext]_fvars, life' = life, pull' = pull
    PROVE  PullType' /\ RowsTrue'
    <1>1. pull' \in [Routes -> Row]
        BY DEF SyncInv, TypeOK, Row
    <1>2. \A q \in Routes : RowTrueNext(q, pull'[q])
        BY RowsStay, Zenon
    <1> QED
        BY <1>1, <1>2, Zenon DEF PullType, RowsTrue, RowTrueNext

\* A pull that starts, asks or fails stays true.
LEMMA AskingKeeps ==
    ASSUME SyncInv, NEW r \in Routes, StartPull(r) \/ FetchPage(r) \/ Fail(r)
    PROVE  PullType' /\ RowsTrue'
    <1> DEFINE mine == remote_events[r.puller][r.origin]
    <1>1. UNCHANGED fvars
        BY Zenon DEF StartPull, FetchPage, Fail
    <1>2. [FedNext]_fvars /\ life' = life /\ remote_events' = remote_events
          /\ log' = log /\ abandoned' = abandoned
        BY <1>1 DEF fvars, tables
    <1>3. Signed(r.origin)' = Signed(r.origin)
        BY <1>2, Zenon DEF Signed
    <1>4. /\ Len(mine) \in Nat /\ federation_peers[r.puller][r.origin].cursor = Len(mine)
        BY StoredFacts, RouteEnds DEF SyncInv, WindowInv, FedInv
    <1>5. pull \in [Routes -> Row] /\ pull[r] \in Row /\ pull[r].cursor \in Nat
        BY DEF SyncInv, TypeOK, Row
    <1>6. ASSUME pull' = [pull EXCEPT ![r] = Idle] PROVE PullType' /\ RowsTrue'
        BY <1>2, <1>6, RowsStay, RowWritten, Zenon
    <1>7. ASSUME StartPull(r) PROVE PullType' /\ RowsTrue'
        <2> DEFINE row == [Idle EXCEPT !.phase = "asking", !.cursor = Len(mine)]
        <2>1. pull' = [pull EXCEPT ![r] = row]
            BY <1>4, <1>7 DEF StartPull
        <2>2. row \in Row /\ row.phase = "asking" /\ row.cursor = Len(mine)
            BY <1>2, <1>4, RowsStay, Zenon DEF Row, Idle
        <2> HIDE DEF row
        <2>3. RowTrueNext(r, row)
            BY <1>2, <1>4, <2>2 DEF RowTrueNext, RowTrue
        <2> QED
            BY <1>2, <2>1, <2>2, <2>3, RowWritten, Zenon
    <1>8. ASSUME NEW chain \in ServedPages(r, pull[r].cursor),
                 pull' = [pull EXCEPT ![r].phase = "holding", ![r].chain = chain]
          PROVE  PullType' /\ RowsTrue'
        <2> DEFINE row == [pull[r] EXCEPT !.phase = "holding", !.chain = chain]
        <2>1. PageFrom(r, pull[r].cursor, chain)
            BY <1>5, ServedPageIs, Zenon DEF SyncInv
        <2>2. /\ row \in Row /\ row.phase = "holding" /\ row.chain = chain
              /\ row.cursor = pull[r].cursor
            BY <1>5, <2>1, Zenon DEF Row, PageFrom
        <2>3. pull' = [pull EXCEPT ![r] = row]
            BY <1>5, <1>8, Zenon
        <2>4. pull[r].cursor <= Len(mine)
            BY Zenon DEF SyncInv, RowsTrue, RowTrue
        <2> HIDE DEF row
        <2>5. RowTrueNext(r, row)
            BY <1>2, <1>3, <2>1, <2>2, <2>4, Zenon DEF RowTrueNext, RowTrue, PageFrom
        <2> QED
            BY <1>2, <2>2, <2>3, <2>5, RowWritten, Zenon
    <1> QED
        BY <1>6, <1>7, <1>8, Zenon DEF FetchPage, Fail

\* An imported, refused or convicting page leaves the pull true.
LEMMA ImportingKeeps ==
    ASSUME SyncInv, [FedNext]_fvars, NEW r \in Routes, ImportPage(r)
    PROVE  PullType' /\ RowsTrue'
    <1> DEFINE mine == remote_events'[r.puller][r.origin]
    <1>1. life' = life
        BY DEF ImportPage, record_equivocation, import_federation_bundle, fvars
    <1>2. ASSUME pull' = [pull EXCEPT ![r] = Idle] PROVE PullType' /\ RowsTrue'
        BY <1>1, <1>2, RowsStay, RowWritten, Zenon
    <1>3. ASSUME pull' = [pull EXCEPT ![r] = AfterPage(r)] PROVE PullType' /\ RowsTrue'
        <2>1. FedInv'
            BY StepKeeps DEF SyncInv, WindowInv
        <2>2. mine \in Seq(Event) /\ Len(mine) \in Nat /\ federation_peers'[r.puller][r.origin].cursor = Len(mine)
            BY <2>1, RouteEnds DEF FedInv, FedTypeOK, StoredChainIsSigned, Chain
        <2>3. pull[r].pages \in 0 .. MaxPages - 1
            BY DEF SyncInv, TypeOK
        <2> DEFINE row == [phase |-> "asking", cursor |-> Len(mine),
                           pages |-> pull[r].pages + 1, chain |-> <<>>]
        <2>4. CASE AfterPage(r) = Idle
            BY <1>2, <1>3, <2>4, Zenon
        <2>5. CASE AfterPage(r) # Idle
            <3>1. AfterPage(r) = row /\ ~(pull[r].pages + 1 >= MaxPages)
                BY <2>2, <2>5 DEF AfterPage
            <3>2. <<>> \in Chain /\ pull[r].pages + 1 \in 0 .. MaxPages - 1
                BY <2>3, <3>1, RoutesAssumption, SMTT(20) DEF Chain
            <3>3. row \in Row /\ row.phase = "asking" /\ row.cursor = Len(mine)
                BY <2>2, <3>2 DEF Row
            <3> HIDE DEF row
            <3>4. RowTrueNext(r, row)
                BY <2>2, <3>3 DEF RowTrueNext, RowTrue
            <3> QED
                BY <1>1, <1>3, <3>1, <3>3, <3>4, RowWritten, Zenon
        <2> QED
            BY <2>4, <2>5
    <1> QED
        BY <1>2, <1>3, Zenon DEF ImportPage

\* A lost database ends the pulls of its node and leaves the others true.
LEMMA RestartKeepsRows ==
    ASSUME SyncInv, [FedNext]_fvars, NEW n \in Nodes, Restart(n)
    PROVE  PullType' /\ RowsTrue'
    <1>1. pull' = [r \in Routes |-> IF r.puller = n THEN Idle ELSE pull[r]]
        BY DEF Restart
    <1>2. ASSUME NEW r \in Routes PROVE pull'[r] \in Row /\ RowTrueNext(r, pull'[r])
        <2>1. CASE r.puller = n
            <3>1. pull'[r] = Idle
                BY <1>1, <2>1
            <3> QED
                BY <3>1, RowsStay, Zenon
        <2>2. CASE r.puller # n
            <3>1. pull'[r] = pull[r]
                BY <1>1, <2>2, SMTT(20)
            <3>2. life'[r.puller] = life[r.puller]
                BY <2>2, RouteEnds DEF Restart, LoseDatabase, SyncInv, WindowInv, FedInv, FedTypeOK
            <3> QED
                BY <3>1, <3>2, RowsStay, Zenon
        <2> QED
            BY <2>1, <2>2
    <1>3. pull' \in [Routes -> Row]
        BY <1>1, <1>2, SMTT(20)
    <1> QED
        BY <1>2, <1>3, Zenon DEF PullType, RowsTrue, RowTrueNext

-----------------------------------------------------------------------------
(* What a relay passes on.                                                 *)

\* A bundle changes the copy of its origin at the node that receives it alone.
LEMMA OtherCopiesStay ==
    ASSUME FedInv, NEW n \in Nodes, NEW p \in Nodes, Deliver(n, p),
           NEW m \in Nodes, NEW o \in Nodes, ~(m = n /\ o = p)
    PROVE  remote_events'[m][o] = remote_events[m][o]
    <1>1. PICK chain \in Signed(p) : \E from \in 0 .. Len(chain) :
              \/ record_equivocation(n, Bundle(p, from, chain))
              \/ import_federation_bundle(n, Bundle(p, from, chain))
        BY Zenon DEF Deliver
    <1>2. PICK from \in 0 .. Len(chain) :
              \/ record_equivocation(n, Bundle(p, from, chain))
              \/ import_federation_bundle(n, Bundle(p, from, chain))
        BY <1>1, Zenon
    <1>3. CASE record_equivocation(n, Bundle(p, from, chain))
        BY <1>3, SMTT(20) DEF record_equivocation
    <1>4. CASE import_federation_bundle(n, Bundle(p, from, chain))
        <2>1. Imported(n, p, chain)
            BY <1>4, ImportStores, Zenon
        <2> QED
            BY <2>1, SMTT(20) DEF Imported, FedInv, FedTypeOK
    <1> QED
        BY <1>2, <1>3, <1>4

\* An import leaves the held page or the stored chain.
LEMMA ImportLeaves ==
    ASSUME SyncInv, NEW r \in Routes, ImportPage(r)
    PROVE  \/ remote_events'[r.puller][r.origin] = remote_events[r.puller][r.origin]
           \/ remote_events'[r.puller][r.origin] = pull[r].chain /\ pull[r].phase = "holding"
    <1> DEFINE chain == pull[r].chain
               from == pull[r].cursor
    <1>1. from \in Nat /\ chain \in Chain /\ r.puller \in Nodes /\ r.origin \in Nodes
        BY RouteEnds DEF SyncInv, TypeOK
    <1>2. Held(r) = Bundle(r.origin, from, chain)
        BY SMTT(20) DEF Held
    <1>3. ASSUME verify_bundle(Held(r)), import_federation_bundle(r.puller, Held(r))
          PROVE  \/ remote_events'[r.puller][r.origin] = remote_events[r.puller][r.origin]
                 \/ remote_events'[r.puller][r.origin] = chain
        <2>1. chain \in Signed(r.origin) /\ from \in 0 .. Len(chain)
            BY <1>1, <1>3 DEF verify_bundle, Held, Bundle, Chain
        <2>2. Imported(r.puller, r.origin, chain)
            BY <1>1, <1>2, <1>3, <2>1, ImportStores, Zenon DEF SyncInv, WindowInv
        <2> QED
            BY <1>1, <2>2, SMTT(20) DEF Imported, SyncInv, WindowInv, FedInv, FedTypeOK
    <1>4. ASSUME record_equivocation(r.puller, Held(r)) \/ UNCHANGED fvars
          PROVE  remote_events' = remote_events
        BY <1>4 DEF record_equivocation, fvars, tables
    <1> QED
        BY <1>3, <1>4, Zenon DEF ImportPage

\* A step leaves a copy that has one source alone, empties it, or imports a page.
LEMMA OneSource ==
    ASSUME SyncInv, [Next]_vars, NEW r \in Routes, OnlySource(r)
    PROVE  \/ remote_events'[r.puller][r.origin] = remote_events[r.puller][r.origin]
           \/ remote_events'[r.puller][r.origin] = <<>>
           \/ remote_events'[r.puller][r.origin] = pull[r].chain /\ pull[r].phase = "holding"
    <1> DEFINE Goal == \/ remote_events'[r.puller][r.origin] = remote_events[r.puller][r.origin]
                       \/ remote_events'[r.puller][r.origin] = <<>>
                       \/ remote_events'[r.puller][r.origin] = pull[r].chain /\ pull[r].phase = "holding"
    <1>1. r.puller \in Nodes /\ r.origin \in Nodes /\ FedInv
        BY RouteEnds DEF SyncInv, WindowInv
    <1>2. ASSUME UNCHANGED fvars PROVE Goal
        BY <1>2 DEF fvars, tables
    <1>3. ASSUME NEW q \in Routes, ImportPage(q) PROVE Goal
        <2>1. CASE q = r
            BY <1>3, <2>1, ImportLeaves, Zenon
        <2>2. CASE q # r
            <3>1. ~(r.puller = q.puller /\ r.origin = q.origin)
                BY <2>2 DEF OnlySource
            <3>2. [FedNext]_fvars
                BY SyncSteps DEF SyncInv
            <3>3. q.puller \in Nodes /\ q.origin \in Nodes /\ pull[q].cursor \in Nat
                  /\ pull[q].chain \in Chain
                BY RouteEnds DEF SyncInv, TypeOK
            <3>4. verify_bundle(Held(q)) => /\ pull[q].chain \in Signed(q.origin)
                                            /\ pull[q].cursor \in 0 .. Len(pull[q].chain)
                BY <3>3 DEF verify_bundle, Held, Bundle, Chain
            <3>5. Deliver(q.puller, q.origin) \/ UNCHANGED fvars
                BY <1>3, <3>4, Zenon DEF ImportPage, Deliver, Held
            <3>6. Deliver(q.puller, q.origin) =>
                      remote_events'[r.puller][r.origin] = remote_events[r.puller][r.origin]
                BY <1>1, <3>1, <3>3, OtherCopiesStay, SMTT(20)
            <3> QED
                BY <1>2, <3>5, <3>6
        <2> QED
            BY <2>1, <2>2
    <1>4. ASSUME NEW q \in Routes, StartPull(q) \/ FetchPage(q) \/ Fail(q) PROVE Goal
        BY <1>2, <1>4, Zenon DEF StartPull, FetchPage, Fail
    <1>5. ASSUME NEW p \in Pushes, Push(p) PROVE Goal
        <2>1. p \in [to : Nodes, origin : Nodes]
            BY RoutesAssumption
        <2>2. p.to \in Nodes /\ p.origin \in Nodes /\ p = [to |-> p.to, origin |-> p.origin]
            BY <2>1
        <2>3. ~(r.puller = p.to /\ r.origin = p.origin)
            BY <2>2 DEF OnlySource
        <2>4. Deliver(p.to, p.origin)
            BY <1>5 DEF Push
        <2> QED
            BY <1>1, <2>2, <2>3, <2>4, OtherCopiesStay, SMTT(20)
    <1>6. ASSUME NEW n \in Nodes, NEW kind \in ContentKinds, Author(n, kind) PROVE Goal
        BY <1>6, Zenon DEF Author, tables
    <1>7. ASSUME NEW n \in Nodes, Restart(n) PROVE Goal
        BY <1>1, <1>7, Zenon DEF Restart, LoseDatabase, FedInv, FedTypeOK
    <1>8. ASSUME UNCHANGED vars PROVE Goal
        BY <1>2, <1>8 DEF vars
    <1> QED
        BY <1>3, <1>4, <1>5, <1>6, <1>7, <1>8, Zenon DEF Next

\* A step keeps what a reader holds within what its only relay holds.
LEMMA RelayedStep ==
    ASSUME SyncInv, [Next]_vars
    PROVE  RelayedCopies'
    <1>1. SUFFICES ASSUME NEW r \in Routes, r.server # r.origin, OnlySource(r), life'[r.server] = 0
                   PROVE  Continues(remote_events'[r.server][r.origin],
                                    remote_events'[r.puller][r.origin])
        BY Zenon DEF RelayedCopies, OnlySource
    <1> DEFINE theirs == remote_events[r.server][r.origin]
               after == remote_events'[r.server][r.origin]
               mine == remote_events[r.puller][r.origin]
    <1>2. r.puller \in Nodes /\ r.server \in Nodes /\ r.origin \in Nodes /\ FedInv
        BY RouteEnds DEF SyncInv, WindowInv
    <1>3. [FedNext]_fvars
        BY SyncSteps DEF SyncInv
    <1>4. FedInv'
        BY <1>2, <1>3, StepKeeps, SMTT(20)
    <1>5. theirs \in Seq(Event) /\ after \in Seq(Event) /\ mine \in Seq(Event) /\ pull[r].chain \in Seq(Event)
        <2>1. theirs \in Seq(Event) /\ mine \in Seq(Event)
            BY <1>2, Zenon DEF FedInv, FedTypeOK, Chain
        <2>2. after \in Seq(Event)
            BY <1>2, <1>4 DEF FedInv, FedTypeOK, Chain
        <2>3. pull[r].chain \in Seq(Event)
            BY <1>1 DEF SyncInv, TypeOK, Chain
        <2> QED
            BY <2>1, <2>2, <2>3, SMTT(20)
    <1>6. life[r.server] = 0
        BY <1>1, <1>2, <1>3, LivesGrow, SMTT(20)
    <1>7. Continues(after, theirs)
        BY <1>1, <1>2, <1>3, <1>6, CopiesKept, Zenon DEF Kept
    <1>8. Continues(theirs, mine)
        BY <1>1, <1>6, Zenon DEF SyncInv, RelayedCopies
    <1>9. pull[r].phase = "holding" => Continues(theirs, pull[r].chain)
        BY <1>1, <1>6, Zenon DEF SyncInv, RowsTrue, RowTrue
    <1>10. Continues(after, <<>>)
        <2>1. Prefix(after, 0) = <<>>
            BY EmptyPrefix
        <2> QED
            BY <1>5, <2>1 DEF Continues
    <1> HIDE DEF theirs, after, mine
    <1>11. Continues(after, mine) /\ (pull[r].phase = "holding" => Continues(after, pull[r].chain))
        BY <1>5, <1>7, <1>8, <1>9, ContinuesOn, Zenon
    <1> QED
        BY <1>1, <1>10, <1>11, OneSource, Zenon DEF theirs, after, mine

\* No pull is under way at the start, and nothing is held.
LEMMA SyncInit == Init => SyncInv
    <1>1. SUFFICES ASSUME Init PROVE SyncInv
        OBVIOUS
    <1>2. WindowInv
        BY <1>1, WindowInit, Zenon DEF Init
    <1>3. ASSUME NEW r \in Routes
          PROVE  /\ remote_events[r.puller][r.origin] = <<>> /\ remote_events[r.server][r.origin] = <<>>
                 /\ pull[r] = Idle
        BY <1>1, RouteEnds DEF Init, FedInit
    <1>4. <<>> \in Seq(Event)
        OBVIOUS
    <1>5. ASSUME NEW r \in Routes
          PROVE  RowTrue(r, pull[r], remote_events[r.puller][r.origin], Signed(r.origin),
                         life[r.server], remote_events[r.server][r.origin])
        BY <1>3, <1>4, IdleIsTrue, Zenon
    <1>6. RelayedCopies
        BY <1>3, <1>4, ContinuesItself, Zenon DEF RelayedCopies
    <1>7. TypeOK
        <2>1. Idle \in Row
            BY <1>4, IdleIsTrue, Zenon
        <2>2. pull \in [Routes -> Row]
            BY <1>1, <2>1 DEF Init
        <2>3. failures \in 0 .. MaxFailures
            BY <1>1, RoutesAssumption DEF Init
        <2> QED
            BY <1>2, <2>2, <2>3 DEF WindowInv, FedInv, TypeOK, Row
    <1> QED
        BY <1>2, <1>5, <1>6, <1>7, Zenon DEF SyncInv, RowsTrue

\* Every step keeps the invariant.
LEMMA SyncStep == SyncInv /\ [Next]_vars => SyncInv'
    <1>1. SUFFICES ASSUME SyncInv, [Next]_vars PROVE SyncInv'
        OBVIOUS
    <1>2. [FedNext]_fvars
        BY <1>1, SyncSteps, Zenon DEF SyncInv
    <1>3. WindowInv'
        BY <1>1, <1>2, WindowStep, Zenon DEF SyncInv
    <1>4. PullType' /\ RowsTrue'
        <2>1. ASSUME NEW n \in Nodes, NEW kind \in ContentKinds, Author(n, kind),
                     UNCHANGED <<pull, failures>>
              PROVE  PullType' /\ RowsTrue'
            <3>1. life' = life /\ pull' = pull
                BY <2>1 DEF Author
            <3> QED
                BY <1>1, <1>2, <3>1, RowsKept, Zenon
        <2>2. ASSUME NEW p \in Pushes, Push(p) PROVE PullType' /\ RowsTrue'
            <3>1. life' = life /\ pull' = pull
                BY <2>2, Zenon DEF Push, Deliver, record_equivocation, import_federation_bundle
            <3> QED
                BY <1>1, <1>2, <3>1, RowsKept, ZenonT(30)
        <2>3. ASSUME UNCHANGED vars PROVE PullType' /\ RowsTrue'
            <3>1. life' = life /\ pull' = pull
                BY <2>3 DEF vars, fvars
            <3> QED
                BY <1>1, <1>2, <3>1, RowsKept, Zenon
        <2> QED
            BY <1>1, <1>2, <2>1, <2>2, <2>3, AskingKeeps, ImportingKeeps, RestartKeepsRows, Zenon DEF Next
    <1>5. failures' \in 0 .. MaxFailures
        <2>1. failures \in 0 .. MaxFailures
            BY <1>1 DEF SyncInv, TypeOK
        <2>2. ASSUME NEW r \in Routes, Fail(r) PROVE failures' \in 0 .. MaxFailures
            BY <2>1, <2>2, RoutesAssumption DEF Fail
        <2>3. (\E r \in Routes : Fail(r)) \/ failures' = failures
            BY <1>1, Zenon DEF Next, StartPull, FetchPage, ImportPage, Push, Restart, vars
        <2> QED
            BY <2>1, <2>2, <2>3
    <1>6. TypeOK'
        BY <1>3, <1>4, <1>5, Zenon DEF WindowInv, FedInv, TypeOK, PullType, Row
    <1>7. RelayedCopies'
        BY <1>1, RelayedStep, Zenon
    <1> QED
        BY <1>3, <1>4, <1>6, <1>7, Zenon DEF SyncInv

\* However pulls, pushes, failures and lost databases interleave, cursors stay behind
\* what the puller stores and held pages verify.
THEOREM SyncInvariant == Spec => []SyncInv
    BY SyncInit, SyncStep, PTL DEF Spec

\* The pulls stay well formed, within their page limit.
THEOREM SyncTypes == Spec => []TypeOK
    <1>1. SyncInv => TypeOK
        BY DEF SyncInv
    <1> QED
        BY <1>1, SyncInvariant, PTL

\* A page that is overtaken while synchronize_peer holds it meets no gap and blames no
\* origin that kept its database, for any number of routes, pushes and failures.
THEOREM HeldPagesStayImportable == Spec => []HeldPageStaysImportable
    <1>1. ASSUME SyncInv PROVE HeldPageStaysImportable
        <2>1. SUFFICES ASSUME NEW r \in Routes, pull[r].phase = "holding", life[r.origin] = 0
                       PROVE  /\ verify_bundle(Held(r))
                              /\ Contiguous(r.puller, Held(r))
                              /\ ~Conflicts(r.puller, Held(r))
            BY Zenon DEF HeldPageStaysImportable
        <2> DEFINE chain == pull[r].chain
                   from == pull[r].cursor
                   mine == remote_events[r.puller][r.origin]
        <2>2. FedInv /\ CheckpointsServe
            BY <1>1 DEF SyncInv, WindowInv
        <2>3. /\ r.puller \in Nodes /\ r.origin \in Nodes /\ r.puller # r.origin
              /\ from \in Nat /\ chain \in Chain
            BY <1>1, RouteEnds DEF SyncInv, TypeOK
        <2>4. /\ chain \in Signed(r.origin) /\ from <= Len(chain) /\ from <= Len(mine)
              /\ Len(chain) - from <= MAX_FEDERATION_EVENTS
            BY <1>1, <2>1, Zenon DEF SyncInv, RowsTrue, RowTrue
        <2>5. /\ Held(r).origin = r.origin /\ Held(r).from = from /\ Held(r).chain = chain
              /\ Held(r) = Bundle(r.origin, from, chain)
            BY DEF Held, Bundle
        <2>6. verify_bundle(Held(r))
            BY <2>4, <2>5, SMTT(20) DEF verify_bundle
        <2>7. Len(mine) \in Nat /\ federation_peers[r.puller][r.origin].cursor = Len(mine)
            BY <2>2, <2>3, StoredFacts, SMTT(20) DEF FedInv
        <2>8. ~federation_peers[r.puller][r.origin].known => from = 0
            <3>1. ~federation_peers[r.puller][r.origin].known => mine = <<>>
                BY <2>2, <2>3, Zenon DEF CheckpointsServe
            <3> QED
                BY <2>3, <2>4, <3>1
        <2>9. Contiguous(r.puller, Held(r))
            BY <2>3, <2>4, <2>5, <2>7, <2>8, SMTT(20) DEF Contiguous, known_cursor
        <2>10. ASSUME Conflicts(r.puller, Held(r)) PROVE FALSE
            <3>1. from \in 0 .. Len(chain)
                BY <2>3, <2>4 DEF Chain
            <3>2. Convicts(Conflict(r.puller, Held(r)), r.origin)
                BY <2>2, <2>3, <2>4, <2>5, <2>10, <3>1, ConflictConvicts, Zenon DEF FedInv
            <3>3. life[r.origin] > 0
                BY <2>2, <2>3, <3>2, TwoChainsTwoLives, Zenon DEF FedInv, Convicts
            <3> QED
                BY <2>1, <3>3
        <2> QED
            BY <2>6, <2>9, <2>10
    <1> QED
        BY <1>1, SyncInvariant, PTL

\* A reader that knows an origin only through one relay holds a beginning of what the
\* relay holds (relayed_federation_bundle), while the relay keeps its database and
\* whatever the origin signs.
THEOREM RelaysPreserveOrigins == Spec => []RelayPreservesOrigin
    <1>1. ASSUME SyncInv PROVE RelayPreservesOrigin
        <2>1. SUFFICES ASSUME NEW r \in Routes, r.server # r.origin, OnlySource(r), life[r.server] = 0
                       PROVE  \E n \in 0 .. Len(remote_events[r.server][r.origin]) :
                                  remote_events[r.puller][r.origin] =
                                      Prefix(remote_events[r.server][r.origin], n)
            BY Zenon DEF RelayPreservesOrigin
        <2> DEFINE mine == remote_events[r.puller][r.origin]
                   theirs == remote_events[r.server][r.origin]
        <2>2. Continues(theirs, mine)
            BY <1>1, <2>1, Zenon DEF SyncInv, RelayedCopies
        <2>3. mine \in Seq(Event) /\ theirs \in Seq(Event)
            BY <1>1, RouteEnds DEF SyncInv, WindowInv, FedInv, FedTypeOK, Chain
        <2>4. Len(mine) \in 0 .. Len(theirs) /\ mine = Prefix(theirs, Len(mine))
            BY <2>2, <2>3 DEF Continues
        <2> QED
            BY <2>4
    <1> QED
        BY <1>1, SyncInvariant, PTL

=============================================================================
