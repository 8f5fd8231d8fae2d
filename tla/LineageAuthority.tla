------------------------- MODULE LineageAuthority -------------------------
(***************************************************************************)
(* The authority lifecycle of one Commonwake node: lineages, their control *)
(* keys, delegated sessions, and the append-only event log in which every  *)
(* change of authority is recorded (src/service.rs, src/db.rs).            *)
(*                                                                         *)
(* A request is handled in two separately locked phases.  The service      *)
(* layer reads the database, verifies signatures and drops the lock; the   *)
(* database method then takes the lock again and runs one transaction.     *)
(* Request handlers run on several threads, so other requests commit       *)
(* between the two phases.  A document that has passed the first phase is  *)
(* held in pending[t].                                                     *)
(*                                                                         *)
(* Abstractions.  A signature is the name of the key that made it.  The    *)
(* authored time of a lineage registration, revocation or rotation is left *)
(* out: it is only bounded from above by the clock, and the clock advances.*)
(* A contribution is its required scope; its payload is another module's   *)
(* subject.  Sequence number 0 stands for SQL NULL.                        *)
(***************************************************************************)
EXTENDS Integers, Sequences, FiniteSets

CONSTANTS
    Keys,           \* Ed25519 lineage keys
    Delegations,    \* delegation ids
    Grant,          \* the signed content of each delegation
    Nonces,         \* nonces a session may use
    Threads,        \* request-handling threads
    NULL,           \* no row, no request
    MaxLog,         \* bound on the length of the log
    MaxTime,        \* bound on the clock
    Skew,           \* MAX_CLOCK_SKEW_MINUTES
    MaxLifetime     \* MAX_DELEGATION_DAYS

lineage_id(key) == <<"cwlin", key>>

Lineages == {lineage_id(k) : k \in Keys}

Scopes == {"contribute", "ack"}

ASSUME BoundsAssumption ==
    /\ MaxLog \in Nat
    /\ MaxTime \in Nat
    /\ Skew \in Nat
    /\ MaxLifetime \in Nat

ASSUME GrantAssumption ==
    Grant \in [Delegations ->
                 [lineage : Lineages, scopes : SUBSET Scopes,
                  not_before : Nat, expires_at : Nat]]

Time == 0 .. MaxTime

-----------------------------------------------------------------------------
(* The signed documents a client may submit.                               *)

RegistrationDocs == [kind : {"lineage_registered"}, key : Keys]

DelegationDocs ==
    [kind : {"delegation_registered"}, delegation : Delegations, signer : Keys]

RevocationDocs ==
    [kind : {"delegation_revoked"}, lineage : Lineages,
     delegation : Delegations, signer : Keys]

RotationDocs ==
    [kind : {"lineage_key_rotated"}, lineage : Lineages, previous : Keys,
     new : Keys, revoke_existing : BOOLEAN]

ContributionDocs ==
    [kind : {"contribution"}, delegation : Delegations, nonce : Nonces,
     created_at : Time]

AcknowledgementDocs ==
    [kind : {"acknowledgement"}, delegation : Delegations, nonce : Nonces,
     created_at : Time, cursor : Nat]

\* Observations and checkpoint witnesses: authored by the node itself.
NodeDocs == [kind : {"node_event"}]

ClientDocs ==
    RegistrationDocs \cup DelegationDocs \cup RevocationDocs \cup RotationDocs
        \cup ContributionDocs \cup AcknowledgementDocs

Documents == ClientDocs \cup NodeDocs

ASSUME NullAssumption ==
    /\ NULL \notin Keys
    /\ NULL \notin Lineages
    /\ NULL \notin ClientDocs

required_scope(doc) == IF doc.kind = "acknowledgement" THEN "ack" ELSE "contribute"

-----------------------------------------------------------------------------
VARIABLES
    now,              \* wall clock
    events,           \* the event log: documents with the time of receipt
    lineages,         \* lineages.public_key, the current key of a lineage
    lineage_keys,     \* key history, one row per key (public_key is UNIQUE)
    delegations,      \* registered_sequence and revoked_sequence
    acknowledgements, \* acknowledged cursor of a lineage
    pending           \* per thread: the document past the service checks

dbvars == <<events, lineages, lineage_keys, delegations, acknowledgements>>
originvars == <<now, dbvars, pending>>

current_head == Len(events)

KeyRow == [lineage : Lineages \cup {NULL}, from : Nat, to : Nat]
NoKeyRow == [lineage |-> NULL, from |-> 0, to |-> 0]

DelegationRow == [registered : Nat, revoked : Nat]
NoDelegationRow == [registered |-> 0, revoked |-> 0]

OriginTypeOK ==
    /\ now \in Time
    /\ events \in Seq([doc : Documents, received : Time])
    /\ lineages \in [Lineages -> Keys \cup {NULL}]
    /\ lineage_keys \in [Keys -> KeyRow]
    /\ delegations \in [Delegations -> DelegationRow]
    /\ acknowledgements \in [Lineages -> Nat]
    /\ pending \in [Threads -> ClientDocs \cup {NULL}]

OriginInit ==
    /\ now = 0
    /\ events = <<>>
    /\ lineages = [l \in Lineages |-> NULL]
    /\ lineage_keys = [k \in Keys |-> NoKeyRow]
    /\ delegations = [d \in Delegations |-> NoDelegationRow]
    /\ acknowledgements = [l \in Lineages |-> 0]
    /\ pending = [t \in Threads |-> NULL]

-----------------------------------------------------------------------------
(* First phase: the service layer, each on what it reads before unlocking. *)

validate_authored_time_at(created_at, accepted_at) == created_at <= accepted_at + Skew

validate_delegation_at(d, accepted_at) ==
    /\ Grant[d].scopes # {}
    /\ Grant[d].not_before < Grant[d].expires_at
    /\ Grant[d].expires_at - Grant[d].not_before <= MaxLifetime
    /\ Grant[d].not_before <= accepted_at + Skew

\* Faulty: a revoked session still passes.
AuthorizeIgnoringRevocation(doc) ==
    /\ delegations[doc.delegation].registered # 0
    /\ Grant[doc.delegation].not_before <= doc.created_at
    /\ doc.created_at <= Grant[doc.delegation].expires_at
    /\ now <= Grant[doc.delegation].expires_at + Skew
    /\ validate_authored_time_at(doc.created_at, now)
    /\ required_scope(doc) \in Grant[doc.delegation].scopes

\* Faulty: any session may do anything.
AuthorizeIgnoringScope(doc) ==
    /\ delegations[doc.delegation].registered # 0
    /\ delegations[doc.delegation].revoked = 0
    /\ Grant[doc.delegation].not_before <= doc.created_at
    /\ doc.created_at <= Grant[doc.delegation].expires_at
    /\ now <= Grant[doc.delegation].expires_at + Skew
    /\ validate_authored_time_at(doc.created_at, now)

authorize_delegation(doc) ==
    LET d == doc.delegation
    IN  /\ delegations[d].registered # 0
        /\ delegations[d].revoked = 0
        /\ Grant[d].not_before <= doc.created_at
        /\ doc.created_at <= Grant[d].expires_at
        /\ now <= Grant[d].expires_at + Skew
        /\ validate_authored_time_at(doc.created_at, now)
        /\ required_scope(doc) \in Grant[d].scopes

\* Faulty: a retired key of the lineage may still delegate.
CheckDelegationAgainstHistory(doc) ==
    /\ validate_delegation_at(doc.delegation, now)
    /\ lineage_keys[doc.signer].lineage = Grant[doc.delegation].lineage

CheckDelegation(doc) ==
    /\ validate_delegation_at(doc.delegation, now)
    /\ lineages[Grant[doc.delegation].lineage] = doc.signer

CheckRevocation(doc) == lineages[doc.lineage] = doc.signer

CheckRotation(doc) ==
    /\ doc.previous # doc.new
    /\ lineages[doc.lineage] = doc.previous

ServiceAccepts(doc) ==
    \/ doc \in RegistrationDocs
    \/ doc \in DelegationDocs /\ CheckDelegation(doc)
    \/ doc \in RevocationDocs /\ CheckRevocation(doc)
    \/ doc \in RotationDocs /\ CheckRotation(doc)
    \/ doc \in ContributionDocs \cup AcknowledgementDocs /\ authorize_delegation(doc)

\* The documents worth submitting: an acknowledgement cursor is at most one
\* beyond the head, which is enough to be refused as beyond it.
Submittable ==
    RegistrationDocs \cup DelegationDocs \cup RevocationDocs \cup RotationDocs
        \cup ContributionDocs
        \cup [kind : {"acknowledgement"}, delegation : Delegations,
              nonce : Nonces, created_at : Time, cursor : 0 .. current_head + 1]

PassServiceChecks(t, doc) ==
    /\ pending[t] = NULL
    /\ ServiceAccepts(doc)
    /\ pending' = [pending EXCEPT ![t] = doc]
    /\ UNCHANGED <<now, dbvars>>

-----------------------------------------------------------------------------
(* Second phase: one transaction under the database lock.                  *)

append_event(doc) == events' = Append(events, [doc |-> doc, received |-> now])

\* Faulty: the number of the row before the one before.
AcceptedSequenceTooLow == current_head - 1

\* The row number append_event returns.
AcceptedSequence == current_head + 1

NonceUnused(doc) ==
    \A n \in 1 .. current_head :
        events[n].doc \in ContributionDocs \cup AcknowledgementDocs =>
            ~ ( /\ events[n].doc.delegation = doc.delegation
                /\ events[n].doc.nonce = doc.nonce )

LineageUnregistered(doc) ==
    /\ lineages[lineage_id(doc.key)] = NULL
    /\ lineage_keys[doc.key].from = 0

register_lineage(t) ==
    /\ pending[t] \in RegistrationDocs
    /\ LET doc == pending[t]
       IN  /\ LineageUnregistered(doc)
           /\ append_event(doc)
           /\ lineages' = [lineages EXCEPT ![lineage_id(doc.key)] = doc.key]
           /\ lineage_keys' = [lineage_keys EXCEPT ![doc.key] =
                 [lineage |-> lineage_id(doc.key), from |-> AcceptedSequence, to |-> 0]]
    /\ UNCHANGED <<now, delegations, acknowledgements>>

DelegationUnregistered(doc) ==
    /\ delegations[doc.delegation].registered = 0
    /\ lineages[Grant[doc.delegation].lineage] # NULL

register_delegation(t) ==
    /\ pending[t] \in DelegationDocs
    /\ LET doc == pending[t]
       IN  /\ DelegationUnregistered(doc)
           /\ append_event(doc)
           /\ delegations' = [delegations EXCEPT ![doc.delegation] =
                 [registered |-> AcceptedSequence, revoked |-> 0]]
    /\ UNCHANGED <<now, lineages, lineage_keys, acknowledgements>>

DelegationRevocable(doc) ==
    /\ delegations[doc.delegation].registered # 0
    /\ Grant[doc.delegation].lineage = doc.lineage
    /\ delegations[doc.delegation].revoked = 0

revoke_delegation(t) ==
    /\ pending[t] \in RevocationDocs
    /\ LET doc == pending[t]
       IN  /\ DelegationRevocable(doc)
           /\ append_event(doc)
           /\ delegations' =
                [delegations EXCEPT ![doc.delegation].revoked = AcceptedSequence]
    /\ UNCHANGED <<now, lineages, lineage_keys, acknowledgements>>

\* Faulty: the previous key is not compared again under the lock.
RotationFromStaleKey(doc) == lineage_keys[doc.new].from = 0

RotationAdvances(doc) ==
    /\ lineages[doc.lineage] = doc.previous
    /\ lineage_keys[doc.new].from = 0

\* UPDATE delegations SET revoked_sequence WHERE lineage_id = l AND
\* revoked_sequence IS NULL.
RevokeAll(l, sequence) ==
    [d \in Delegations |->
        IF /\ delegations[d].registered # 0
           /\ Grant[d].lineage = l
           /\ delegations[d].revoked = 0
        THEN [delegations[d] EXCEPT !.revoked = sequence]
        ELSE delegations[d]]

\* Faulty: the update also touches eras that are closed.
RotatedKeysReclosing(l, new, sequence) ==
    [k \in Keys |->
        IF k = new
        THEN [lineage |-> l, from |-> sequence, to |-> 0]
        ELSE IF lineage_keys[k].lineage = l
        THEN [lineage_keys[k] EXCEPT !.to = sequence]
        ELSE lineage_keys[k]]

\* Faulty: the retired key is still in force at the rotation itself.
RotatedKeysOverlapping(l, new, sequence) ==
    [k \in Keys |->
        IF k = new
        THEN [lineage |-> l, from |-> sequence, to |-> 0]
        ELSE IF lineage_keys[k].lineage = l /\ lineage_keys[k].to = 0
        THEN [lineage_keys[k] EXCEPT !.to = sequence + 1]
        ELSE lineage_keys[k]]

\* UPDATE lineage_keys SET valid_to_sequence WHERE lineage_id = l AND
\* valid_to_sequence IS NULL, then INSERT of the new key.
RotatedKeys(l, new, sequence) ==
    [k \in Keys |->
        IF k = new
        THEN [lineage |-> l, from |-> sequence, to |-> 0]
        ELSE IF lineage_keys[k].lineage = l /\ lineage_keys[k].to = 0
        THEN [lineage_keys[k] EXCEPT !.to = sequence]
        ELSE lineage_keys[k]]

rotate_lineage_key(t) ==
    /\ pending[t] \in RotationDocs
    /\ LET doc == pending[t]
       IN  /\ RotationAdvances(doc)
           /\ append_event(doc)
           /\ lineage_keys' = RotatedKeys(doc.lineage, doc.new, AcceptedSequence)
           /\ lineages' = [lineages EXCEPT ![doc.lineage] = doc.new]
           /\ delegations' = IF doc.revoke_existing
                             THEN RevokeAll(doc.lineage, AcceptedSequence)
                             ELSE delegations
    /\ UNCHANGED <<now, acknowledgements>>

append_contribution(t) ==
    /\ pending[t] \in ContributionDocs
    /\ NonceUnused(pending[t])
    /\ append_event(pending[t])
    /\ UNCHANGED <<now, lineages, lineage_keys, delegations, acknowledgements>>

CursorAdmissible(doc) ==
    /\ doc.cursor <= current_head
    /\ doc.cursor >= acknowledgements[Grant[doc.delegation].lineage]

\* Faulty: every acknowledgement consumes all that came before it.
EffectiveCursorAlwaysHead(doc) == AcceptedSequence

\* Acknowledging the head also consumes the acknowledgement event itself.
effective_cursor(doc) == IF doc.cursor = current_head THEN AcceptedSequence ELSE doc.cursor

append_acknowledgement(t) ==
    /\ pending[t] \in AcknowledgementDocs
    /\ LET doc == pending[t]
       IN  /\ CursorAdmissible(doc)
           /\ NonceUnused(doc)
           /\ append_event(doc)
           /\ acknowledgements' = [acknowledgements EXCEPT
                 ![Grant[doc.delegation].lineage] = effective_cursor(doc)]
    /\ UNCHANGED <<now, lineages, lineage_keys, delegations>>

Committing(t) ==
    /\ current_head < MaxLog
    /\ \/ register_lineage(t)
       \/ register_delegation(t)
       \/ revoke_delegation(t)
       \/ rotate_lineage_key(t)
       \/ append_contribution(t)
       \/ append_acknowledgement(t)
    /\ pending' = [pending EXCEPT ![t] = NULL]

TransactionAccepts(doc) ==
    \/ doc \in RegistrationDocs /\ LineageUnregistered(doc)
    \/ doc \in DelegationDocs /\ DelegationUnregistered(doc)
    \/ doc \in RevocationDocs /\ DelegationRevocable(doc)
    \/ doc \in RotationDocs /\ RotationAdvances(doc)
    \/ doc \in ContributionDocs /\ NonceUnused(doc)
    \/ doc \in AcknowledgementDocs /\ CursorAdmissible(doc) /\ NonceUnused(doc)

\* The transaction meets an early return or a UNIQUE constraint and rolls back.
RollBack(t) ==
    /\ pending[t] # NULL
    /\ ~ TransactionAccepts(pending[t])
    /\ pending' = [pending EXCEPT ![t] = NULL]
    /\ UNCHANGED <<now, dbvars>>

\* append_observation and the witness of an import: events without authority.
AppendNodeEvent ==
    /\ current_head < MaxLog
    /\ append_event([kind |-> "node_event"])
    /\ UNCHANGED <<now, lineages, lineage_keys, delegations, acknowledgements, pending>>

\* The process stops: requests between their two phases are lost, committed
\* transactions are not.
Crash ==
    /\ \E t \in Threads : pending[t] # NULL
    /\ pending' = [t \in Threads |-> NULL]
    /\ UNCHANGED <<now, dbvars>>

Tick ==
    /\ now < MaxTime
    /\ now' = now + 1
    /\ UNCHANGED <<dbvars, pending>>

OriginNext ==
    \/ \E t \in Threads, doc \in Submittable : PassServiceChecks(t, doc)
    \/ \E t \in Threads : Committing(t)
    \/ \E t \in Threads : RollBack(t)
    \/ AppendNodeEvent
    \/ Crash
    \/ Tick

=============================================================================
