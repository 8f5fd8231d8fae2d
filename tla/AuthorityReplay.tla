-------------------------- MODULE AuthorityReplay --------------------------
(***************************************************************************)
(* One origin node (LineageAuthority) and one importer that rebuilds the   *)
(* origin's authority state from the origin's event log alone              *)
(* (validate_and_project_remote_event in src/db.rs).                       *)
(*                                                                         *)
(* The importer has its own tables and its own code for every event kind.  *)
(* It never sees the origin's tables.  An import is one transaction over a *)
(* page of events; a page of one event is the smallest the protocol allows,*)
(* and a larger page commits exactly when each of its events would.        *)
(***************************************************************************)
EXTENDS LineageAuthority

VARIABLES
    cursor,                 \* federation_peers.cursor for the origin
    federated_lineages,     \* current_public_key
    federated_lineage_keys,
    federated_delegations

fedtables == <<federated_lineages, federated_lineage_keys, federated_delegations>>
fedvars == <<cursor, fedtables>>
vars == <<originvars, fedvars>>

TypeOK ==
    /\ OriginTypeOK
    /\ cursor \in 0 .. current_head
    /\ federated_lineages \in [Lineages -> Keys \cup {NULL}]
    /\ federated_lineage_keys \in [Keys -> KeyRow]
    /\ federated_delegations \in [Delegations -> DelegationRow]

Init ==
    /\ OriginInit
    /\ cursor = 0
    /\ federated_lineages = [l \in Lineages |-> NULL]
    /\ federated_lineage_keys = [k \in Keys |-> NoKeyRow]
    /\ federated_delegations = [d \in Delegations |-> NoDelegationRow]

-----------------------------------------------------------------------------
(* What the importer requires of an event, and how it projects it.         *)

LineageAdmitted(doc) ==
    /\ federated_lineage_keys[doc.key].from = 0
    /\ federated_lineages[lineage_id(doc.key)] = NULL

ProjectLineage(doc, sequence) ==
    /\ federated_lineages' = [federated_lineages EXCEPT ![lineage_id(doc.key)] = doc.key]
    /\ federated_lineage_keys' = [federated_lineage_keys EXCEPT ![doc.key] =
          [lineage |-> lineage_id(doc.key), from |-> sequence, to |-> 0]]
    /\ UNCHANGED federated_delegations

DelegationAdmitted(doc, received_at) ==
    /\ validate_delegation_at(doc.delegation, received_at)
    /\ federated_lineages[Grant[doc.delegation].lineage] = doc.signer
    /\ federated_delegations[doc.delegation].registered = 0

ProjectDelegation(doc, sequence) ==
    /\ federated_delegations' = [federated_delegations EXCEPT ![doc.delegation] =
          [registered |-> sequence, revoked |-> 0]]
    /\ UNCHANGED <<federated_lineages, federated_lineage_keys>>

RevocationAdmitted(doc) ==
    /\ federated_lineages[doc.lineage] = doc.signer
    /\ federated_delegations[doc.delegation].registered # 0
    /\ Grant[doc.delegation].lineage = doc.lineage
    /\ federated_delegations[doc.delegation].revoked = 0

ProjectRevocation(doc, sequence) ==
    /\ federated_delegations' =
          [federated_delegations EXCEPT ![doc.delegation].revoked = sequence]
    /\ UNCHANGED <<federated_lineages, federated_lineage_keys>>

RotationAdmitted(doc) ==
    /\ federated_lineages[doc.lineage] = doc.previous
    /\ doc.previous # doc.new
    /\ federated_lineage_keys[doc.new].from = 0

\* Faulty: the importer leaves the previous key's era open.
ProjectRotationKeepingEra(doc, sequence) ==
    /\ federated_lineage_keys' = [federated_lineage_keys EXCEPT ![doc.new] =
          [lineage |-> doc.lineage, from |-> sequence, to |-> 0]]
    /\ federated_lineages' = [federated_lineages EXCEPT ![doc.lineage] = doc.new]
    /\ UNCHANGED federated_delegations

ProjectRotation(doc, sequence) ==
    /\ federated_lineage_keys' = [k \in Keys |->
          IF k = doc.new
          THEN [lineage |-> doc.lineage, from |-> sequence, to |-> 0]
          ELSE IF /\ federated_lineage_keys[k].lineage = doc.lineage
                  /\ federated_lineage_keys[k].to = 0
          THEN [federated_lineage_keys[k] EXCEPT !.to = sequence]
          ELSE federated_lineage_keys[k]]
    /\ federated_lineages' = [federated_lineages EXCEPT ![doc.lineage] = doc.new]
    /\ federated_delegations' = [d \in Delegations |->
          IF /\ doc.revoke_existing
             /\ federated_delegations[d].registered # 0
             /\ Grant[d].lineage = doc.lineage
             /\ federated_delegations[d].revoked = 0
          THEN [federated_delegations[d] EXCEPT !.revoked = sequence]
          ELSE federated_delegations[d]]

\* The expiry is compared with the origin's time of receipt.
WithinGrant(doc, received_at) ==
    /\ Grant[doc.delegation].not_before <= doc.created_at
    /\ doc.created_at <= Grant[doc.delegation].expires_at
    /\ received_at <= Grant[doc.delegation].expires_at + Skew

authorize_remote_delegation(doc, received_at) ==
    /\ federated_delegations[doc.delegation].registered # 0
    /\ federated_delegations[doc.delegation].revoked = 0
    /\ WithinGrant(doc, received_at)
    /\ required_scope(doc) \in Grant[doc.delegation].scopes

\* remote_events is the imported prefix of the log.
ImportedAcks(l) ==
    {n \in 1 .. cursor : /\ events[n].doc \in AcknowledgementDocs
                         /\ Grant[events[n].doc.delegation].lineage = l}

IsLatest(n, S) == n \in S /\ \A m \in S : m <= n

previous_effective(n) ==
    IF events[n].doc.cursor = n - 1 THEN n ELSE events[n].doc.cursor

validate_remote_ack_cursor(doc, sequence) ==
    /\ doc.cursor <= sequence - 1
    /\ \A n \in ImportedAcks(Grant[doc.delegation].lineage) :
          IsLatest(n, ImportedAcks(Grant[doc.delegation].lineage)) =>
              doc.cursor >= previous_effective(n)

RemoteNonceUnused(doc) ==
    \A n \in 1 .. cursor :
        events[n].doc \in ContributionDocs \cup AcknowledgementDocs =>
            ~ ( /\ events[n].doc.delegation = doc.delegation
                /\ events[n].doc.nonce = doc.nonce )

ContributionAdmitted(doc, received_at) ==
    /\ validate_authored_time_at(doc.created_at, received_at)
    /\ authorize_remote_delegation(doc, received_at)
    /\ RemoteNonceUnused(doc)

\* validate_and_project_remote_event: the checks of each arm of the match ...
RemoteAdmits(event, sequence) ==
    \/ event.doc \in RegistrationDocs /\ LineageAdmitted(event.doc)
    \/ event.doc \in DelegationDocs /\ DelegationAdmitted(event.doc, event.received)
    \/ event.doc \in RevocationDocs /\ RevocationAdmitted(event.doc)
    \/ event.doc \in RotationDocs /\ RotationAdmitted(event.doc)
    \/ event.doc \in ContributionDocs /\ ContributionAdmitted(event.doc, event.received)
    \/ /\ event.doc \in AcknowledgementDocs
       /\ ContributionAdmitted(event.doc, event.received)
       /\ validate_remote_ack_cursor(event.doc, sequence)
    \/ event.doc \in NodeDocs

\* ... and its projections.
ProjectRemote(doc, sequence) ==
    \/ doc \in RegistrationDocs /\ ProjectLineage(doc, sequence)
    \/ doc \in DelegationDocs /\ ProjectDelegation(doc, sequence)
    \/ doc \in RevocationDocs /\ ProjectRevocation(doc, sequence)
    \/ doc \in RotationDocs /\ ProjectRotation(doc, sequence)
    \/ /\ doc \in ContributionDocs \cup AcknowledgementDocs \cup NodeDocs
       /\ UNCHANGED fedtables

ImportEvent ==
    /\ cursor < current_head
    /\ RemoteAdmits(events[cursor + 1], cursor + 1)
    /\ ProjectRemote(events[cursor + 1].doc, cursor + 1)
    /\ cursor' = cursor + 1
    /\ UNCHANGED originvars

Next ==
    \/ OriginNext /\ UNCHANGED fedvars
    \/ ImportEvent

Spec == Init /\ [][Next]_vars

-----------------------------------------------------------------------------
(* The origin's authority as of a sequence number, read off its tables.    *)

InForceAt(k, l, n) ==
    /\ lineage_keys[k].lineage = l
    /\ lineage_keys[k].from # 0
    /\ lineage_keys[k].from <= n
    /\ lineage_keys[k].to = 0 \/ n < lineage_keys[k].to

AsOf(sequence, n) == IF sequence <= n THEN sequence ELSE 0

KeyRowAsOf(k, n) ==
    IF lineage_keys[k].from <= n
    THEN [lineage_keys[k] EXCEPT !.to = AsOf(@, n)]
    ELSE NoKeyRow

DelegationRowAsOf(d, n) ==
    [registered |-> AsOf(delegations[d].registered, n),
     revoked |-> AsOf(delegations[d].revoked, n)]

\* The importer's reconstruction is exact: whatever interleaving of requests
\* produced the log, the importer's key history, current keys and delegation
\* states at its cursor are the origin's own tables as of that sequence.
ReplayAgrees ==
    /\ \A k \in Keys : federated_lineage_keys[k] = KeyRowAsOf(k, cursor)
    /\ \A l \in Lineages, k \in Keys :
          federated_lineages[l] = k <=> InForceAt(k, l, cursor)
    /\ \A d \in Delegations : federated_delegations[d] = DelegationRowAsOf(d, cursor)

\* A lineage has one key in force from its registration on: the recorded key
\* is the open row, and key eras neither overlap nor leave a gap, however
\* registrations and rotations of the same lineage race.
KeyErasPartition ==
    \A l \in Lineages :
        /\ \A k \in Keys : lineages[l] = k <=> InForceAt(k, l, current_head)
        /\ \A n \in 1 .. current_head :
              \/ \E k \in Keys :
                    /\ InForceAt(k, l, n)
                    /\ \A j \in Keys : InForceAt(j, l, n) => j = k
              \/ \A k \in Keys : lineage_keys[k].lineage = l => n < lineage_keys[k].from

\* Rotations form a chain: the key a logged rotation retires was the one in
\* force just before it, however many rotations passed the service checks
\* against the same key (rotate_lineage_key compares it again under the lock).
RotationsChain ==
    \A n \in 1 .. current_head :
        events[n].doc \in RotationDocs =>
            InForceAt(events[n].doc.previous, events[n].doc.lineage, n - 1)

\* The acknowledged cursor covers what the session declared and at most its
\* own acknowledgement event: no other lineage's event is ever marked read by
\* the step the head takes when the acknowledgement is appended.
AckConsumesOnlyItself ==
    \A l \in Lineages :
        acknowledgements[l] # 0 =>
            \E n \in 1 .. current_head :
                /\ events[n].doc \in AcknowledgementDocs
                /\ Grant[events[n].doc.delegation].lineage = l
                /\ acknowledgements[l] = previous_effective(n)
                /\ \A m \in n + 1 .. current_head :
                      events[m].doc \in AcknowledgementDocs =>
                          Grant[events[m].doc.delegation].lineage # l

\* Authority only moves forward: a revocation is never undone or re-dated, a
\* closed key era is never reopened, an acknowledged cursor never regresses
\* and a logged event is never rewritten.
AuthorityOnlyAdvances ==
    [][ /\ \A d \in Delegations : delegations[d].revoked # 0 =>
              delegations'[d] = delegations[d]
        /\ \A k \in Keys : lineage_keys[k].to # 0 => lineage_keys'[k] = lineage_keys[k]
        /\ \A l \in Lineages : acknowledgements'[l] >= acknowledgements[l]
        /\ SubSeq(events', 1, Len(events)) = events ]_vars

\* A session acts only while its delegation stands: no contribution or
\* acknowledgement follows the event that revoked the delegation.
RevokedSessionsStaySilent ==
    \A n \in 1 .. current_head :
        events[n].doc \in ContributionDocs \cup AcknowledgementDocs =>
            LET row == delegations[events[n].doc.delegation]
            IN  row.revoked = 0 \/ n < row.revoked

\* Delegations and revocations in the log are signed by the key in force at
\* their sequence number, which is the key an importer verifies them against.
CurrentKeySigns ==
    \A n \in 1 .. current_head :
        /\ events[n].doc \in DelegationDocs =>
              InForceAt(events[n].doc.signer, Grant[events[n].doc.delegation].lineage, n)
        /\ events[n].doc \in RevocationDocs =>
              InForceAt(events[n].doc.signer, events[n].doc.lineage, n)

\* The acceptance check compared the expiry with a clock reading taken before
\* the one append_event stores as the time of receipt.
ReceivedAfterExpiry(event) ==
    /\ event.doc \in ContributionDocs \cup AcknowledgementDocs
    /\ ~ WithinGrant(event.doc, event.received)

\* What the origin accepted, an importer accepts: the next event of the log is
\* never refused, except an event received in the instant its grant ran out.
NextEventReplays ==
    cursor < current_head =>
        \/ RemoteAdmits(events[cursor + 1], cursor + 1)
        \/ ReceivedAfterExpiry(events[cursor + 1])

-----------------------------------------------------------------------------
(* The inductive invariant: every table entry is explained by the event    *)
(* that wrote it, and every event has left its mark in the tables.         *)

\* The row of a key carries the numbers of the events that opened and closed
\* its era.
KeyRowExplained(k) ==
    LET row == lineage_keys[k]
    IN  /\ row.from <= current_head /\ row.to <= current_head
        /\ row.from = 0 => row = NoKeyRow
        /\ row.from # 0 =>
              /\ row.lineage \in Lineages
              /\ \/ /\ events[row.from].doc \in RegistrationDocs
                    /\ events[row.from].doc.key = k
                    /\ row.lineage = lineage_id(k)
                 \/ /\ events[row.from].doc \in RotationDocs
                    /\ events[row.from].doc.new = k
                    /\ row.lineage = events[row.from].doc.lineage
        /\ row.to # 0 =>
              /\ row.from < row.to
              /\ events[row.to].doc \in RotationDocs
              /\ row.lineage = events[row.to].doc.lineage

KeyRowsExplained == \A k \in Keys : KeyRowExplained(k)

\* A registration or rotation opened the era of its key, and a rotation closed
\* every earlier era of its lineage.
KeyEventApplied(n) ==
    LET doc == events[n].doc
    IN  /\ doc \in RegistrationDocs =>
              /\ lineage_keys[doc.key].from = n
              /\ lineage_keys[doc.key].lineage = lineage_id(doc.key)
        /\ doc \in RotationDocs =>
              /\ lineage_keys[doc.new].from = n
              /\ lineage_keys[doc.new].lineage = doc.lineage
              /\ \A k \in Keys :
                    lineage_keys[k].lineage = doc.lineage /\ lineage_keys[k].from < n =>
                        lineage_keys[k].to # 0 /\ lineage_keys[k].to <= n

KeyEventsApplied == \A n \in 1 .. current_head : KeyEventApplied(n)

\* The current key is the lineage's one open row.
CurrentKeyIsOpen ==
    \A l \in Lineages :
        /\ \A k \in Keys :
              lineages[l] = k <=> lineage_keys[k].lineage = l /\ lineage_keys[k].to = 0
        /\ lineages[l] = NULL => \A k \in Keys : lineage_keys[k].lineage # l

DelegationRowExplained(d) ==
    LET row == delegations[d]
    IN  /\ row.registered <= current_head /\ row.revoked <= current_head
        /\ row.registered # 0 =>
              /\ events[row.registered].doc \in DelegationDocs
              /\ events[row.registered].doc.delegation = d
        /\ row.revoked # 0 =>
              /\ row.registered # 0
              /\ row.registered < row.revoked
              /\ \/ /\ events[row.revoked].doc \in RevocationDocs
                    /\ events[row.revoked].doc.delegation = d
                 \/ /\ events[row.revoked].doc \in RotationDocs
                    /\ events[row.revoked].doc.revoke_existing
                    /\ events[row.revoked].doc.lineage = Grant[d].lineage

DelegationRowsExplained == \A d \in Delegations : DelegationRowExplained(d)

\* A rotation that revokes has left no earlier session of its lineage standing.
DelegationEventApplied(n) ==
    LET doc == events[n].doc
    IN  /\ doc \in DelegationDocs => delegations[doc.delegation].registered = n
        /\ doc \in RevocationDocs => delegations[doc.delegation].revoked = n
        /\ doc \in RotationDocs /\ doc.revoke_existing =>
              \A d \in Delegations :
                  /\ Grant[d].lineage = doc.lineage
                  /\ delegations[d].registered # 0
                  /\ delegations[d].registered < n
                  => delegations[d].revoked # 0 /\ delegations[d].revoked <= n

DelegationEventsApplied == \A n \in 1 .. current_head : DelegationEventApplied(n)

TablesExplained ==
    /\ KeyRowsExplained
    /\ KeyEventsApplied
    /\ CurrentKeyIsOpen
    /\ DelegationRowsExplained
    /\ DelegationEventsApplied

=============================================================================
