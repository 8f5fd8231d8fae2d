----------------------------- MODULE PeerSync -----------------------------
(***************************************************************************)
(* Pull synchronization over Federation: synchronize_peer and sync_loop in *)
(* src/main.rs.  A puller reads its cursor, then asks a server for pages   *)
(* and imports them one by one.  Between the answer and the import other   *)
(* pulls, pushed bundles and the puller's own witnesses move the state the *)
(* page was asked for.                                                     *)
(*                                                                         *)
(* The probe that opens a pull only learns the server's identity, which    *)
(* does not change here; a probe that fails is Fail.                       *)
(***************************************************************************)
EXTENDS Federation

CONSTANTS
    Routes,         \* [puller, server, origin]; server # origin is a relay
    Pushes,         \* [to, origin]: bundles may also arrive unasked
    BatchSize,      \* events asked for per page
    MaxPages,       \* pages per pull
    MaxFailures     \* bound on failed pulls

ASSUME RoutesAssumption ==
    /\ Routes \subseteq [puller : Nodes, server : Nodes, origin : Nodes]
    /\ \A r \in Routes : r.puller # r.server /\ r.puller # r.origin
    /\ Pushes \subseteq [to : Nodes, origin : Nodes]
    /\ BatchSize \in 1 .. MAX_FEDERATION_EVENTS
    /\ MaxPages \in Nat \ {0}
    /\ MaxFailures \in Nat

VARIABLES
    pull,           \* per route: phase, cursor, pages so far, the page received
    failures

vars == <<fvars, pull, failures>>

Idle == [phase |-> "idle", cursor |-> 0, pages |-> 0, chain |-> <<>>]

TypeOK ==
    /\ FedTypeOK
    /\ pull \in [Routes -> [phase : {"idle", "asking", "holding"}, cursor : Nat,
                            pages : 0 .. MaxPages - 1, chain : Chain]]
    /\ failures \in 0 .. MaxFailures

Init ==
    /\ FedInit
    /\ pull = [r \in Routes |-> Idle]
    /\ failures = 0

-----------------------------------------------------------------------------
\* Faulty: the last event of every page is cut off.
OwnPagesShort(r, after) ==
    LET head == Len(log[r.server])
    IN  IF after > head THEN {}
        ELSE {Prefix(log[r.server],
                     IF after + BatchSize - 1 < head THEN after + BatchSize - 1 ELSE head)}

\* federation_bundle: a page of the server's own log.
OwnPages(r, after) ==
    LET head == Len(log[r.server])
    IN  IF after > head THEN {}
        ELSE {Prefix(log[r.server], IF after + BatchSize < head THEN after + BatchSize ELSE head)}

\* relayed_federation_bundle: a page of a stored log, up to a kept checkpoint.
RelayPages(r, after) ==
    IF /\ federation_peers[r.server][r.origin].known
       /\ after <= federation_peers[r.server][r.origin].cursor
    THEN RelayCheckpoints(r.server, r.origin, after, BatchSize)
    ELSE {}

ServedPages(r, after) ==
    IF r.server = r.origin THEN OwnPages(r, after) ELSE RelayPages(r, after)

StartPull(r) ==
    /\ pull[r].phase = "idle"
    /\ ServedPages(r, 0) # {}
    /\ pull' = [pull EXCEPT ![r] =
          [Idle EXCEPT !.phase = "asking", !.cursor = federation_peers[r.puller][r.origin].cursor]]
    /\ UNCHANGED <<fvars, failures>>

\* fetch_sync_bundle: the server answers, or refuses a cursor beyond its head.
FetchPage(r) ==
    /\ pull[r].phase = "asking"
    /\ \/ \E chain \in ServedPages(r, pull[r].cursor) :
             pull' = [pull EXCEPT ![r].phase = "holding", ![r].chain = chain]
       \/ /\ ServedPages(r, pull[r].cursor) = {}
          /\ pull' = [pull EXCEPT ![r] = Idle]
    /\ UNCHANGED <<fvars, failures>>

\* Faulty: one page too many.
AfterPageUnbounded(r) ==
    IF \/ Len(pull[r].chain) = pull[r].cursor
       \/ pull[r].pages + 1 > MaxPages
    THEN Idle
    ELSE [phase |-> "asking", cursor |-> federation_peers'[r.puller][r.origin].cursor,
          pages |-> pull[r].pages + 1, chain |-> <<>>]

\* A page without events ends the pull, and so does the last page allowed.
AfterPage(r) ==
    IF \/ Len(pull[r].chain) = pull[r].cursor
       \/ pull[r].pages + 1 >= MaxPages
    THEN Idle
    ELSE [phase |-> "asking", cursor |-> federation_peers'[r.puller][r.origin].cursor,
          pages |-> pull[r].pages + 1, chain |-> <<>>]

Held(r) == Bundle(r.origin, pull[r].cursor, pull[r].chain)

\* import_federation_bundle returns an error and rolls back.
Rejected(n, b) ==
    \/ ~ verify_bundle(b)
    \/ ~ Contiguous(n, b)
    \/ ~ Conflicts(n, b) /\ Refused(n, b)

\* Every error, recorded equivocation included, gives the pull up.
ImportPage(r) ==
    /\ pull[r].phase = "holding"
    /\ \/ /\ verify_bundle(Held(r))
          /\ import_federation_bundle(r.puller, Held(r))
          /\ pull' = [pull EXCEPT ![r] = AfterPage(r)]
       \/ /\ verify_bundle(Held(r))
          /\ record_equivocation(r.puller, Held(r))
          /\ pull' = [pull EXCEPT ![r] = Idle]
       \/ /\ Rejected(r.puller, Held(r))
          /\ pull' = [pull EXCEPT ![r] = Idle]
          /\ UNCHANGED fvars
    /\ UNCHANGED failures

\* A connection or a process fails: the pull is given up, nothing is rolled back.
Fail(r) ==
    /\ pull[r].phase # "idle"
    /\ failures < MaxFailures
    /\ failures' = failures + 1
    /\ pull' = [pull EXCEPT ![r] = Idle]
    /\ UNCHANGED fvars

Push(p) ==
    /\ Deliver(p.to, p.origin)
    /\ UNCHANGED <<pull, failures>>

\* The pulls of a node end with the process that lost its database.
Restart(n) ==
    /\ LoseDatabase(n)
    /\ pull' = [r \in Routes |-> IF r.puller = n THEN Idle ELSE pull[r]]
    /\ UNCHANGED failures

Next ==
    \/ \E r \in Routes : StartPull(r) \/ FetchPage(r) \/ ImportPage(r) \/ Fail(r)
    \/ \E p \in Pushes : Push(p)
    \/ \E n \in Nodes, kind \in ContentKinds : Author(n, kind) /\ UNCHANGED <<pull, failures>>
    \/ \E n \in Nodes : Restart(n)

\* sync_loop visits each configured peer at every tick, and every request ends
\* with an answer or an error.  Only direct routes are configured; a relayed
\* origin is pulled on command.
Fairness ==
    \A r \in Routes : r.server = r.origin =>
        WF_vars(StartPull(r)) /\ WF_vars(FetchPage(r)) /\ WF_vars(ImportPage(r))

Spec == Init /\ [][Next]_vars /\ Fairness

-----------------------------------------------------------------------------
Unreplayable(o) == \E i \in 1 .. Len(log[o]) : log[o][i].kind = "refused"

\* Replicas catch up and stay: once authoring stops, each directly configured
\* peer holds the origin's whole log, witnesses of the replicas themselves
\* included, unless the log holds an event that importers refuse.
ReplicasConverge ==
    \A r \in Routes : r.server = r.origin =>
        <>[]( \/ remote_events[r.puller][r.origin] = log[r.origin]
              \/ Unreplayable(r.origin)
              \/ life[r.origin] > 0 )

\* A page that is overtaken while it is held stays importable: whatever other
\* pulls and pushes commit after synchronize_peer read its cursor, the import
\* meets no gap and blames no origin that kept its database.
HeldPageStaysImportable ==
    \A r \in Routes :
        pull[r].phase = "holding" /\ life[r.origin] = 0 =>
            /\ verify_bundle(Held(r))
            /\ Contiguous(r.puller, Held(r))
            /\ ~ Conflicts(r.puller, Held(r))

OnlySource(r) ==
    /\ \A q \in Routes : q.puller = r.puller /\ q.origin = r.origin => q = r
    /\ [to |-> r.puller, origin |-> r.origin] \notin Pushes

\* A relay passes an origin on as it received it: a reader that knows an origin
\* only through one relay holds a prefix of what the relay holds, even while the
\* origin itself starts over and the relay collects evidence against it.
RelayPreservesOrigin ==
    \A r \in Routes :
        r.server # r.origin /\ OnlySource(r) /\ life[r.server] = 0 =>
            LET theirs == remote_events[r.server][r.origin]
            IN  \E n \in 0 .. Len(theirs) : remote_events[r.puller][r.origin] = Prefix(theirs, n)

=============================================================================
