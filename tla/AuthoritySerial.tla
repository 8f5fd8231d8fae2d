-------------------------- MODULE AuthoritySerial ---------------------------
(***************************************************************************)
(* What a node promises that handles one request at a time: a document is  *)
(* still good when it is committed, so the log replays.                    *)
(***************************************************************************)
EXTENDS AuthorityProofs

OneThread == \A t, u \in Threads : t = u

SessionDocs == ContributionDocs \cup AcknowledgementDocs

\* A document between its two phases: what the service checked is still so.
PendingStands(doc) ==
    /\ doc \in DelegationDocs => CheckDelegation(doc)
    /\ doc \in RevocationDocs => CheckRevocation(doc)
    /\ doc \in RotationDocs => CheckRotation(doc)
    /\ doc \in SessionDocs =>
          /\ delegations[doc.delegation].registered # 0
          /\ delegations[doc.delegation].revoked = 0
          /\ validate_authored_time_at(doc.created_at, now)
          /\ required_scope(doc) \in Grant[doc.delegation].scopes

\* A document in the log: what made it acceptable can be read off the tables.
RegistrationOpens(doc, n) ==
    \A k \in Keys : lineage_keys[k].lineage = lineage_id(doc.key) => n <= lineage_keys[k].from

DelegationStands(doc, received, n) ==
    /\ validate_delegation_at(doc.delegation, received)
    /\ InForceAt(doc.signer, Grant[doc.delegation].lineage, n)

RevocationStands(doc, n) ==
    /\ Grant[doc.delegation].lineage = doc.lineage
    /\ InForceAt(doc.signer, doc.lineage, n)

SessionStands(doc, received, n) ==
    /\ validate_authored_time_at(doc.created_at, received)
    /\ required_scope(doc) \in Grant[doc.delegation].scopes
    /\ delegations[doc.delegation].registered # 0
    /\ delegations[doc.delegation].registered < n
    /\ delegations[doc.delegation].revoked = 0 \/ n < delegations[doc.delegation].revoked

NonceFresh(doc, n) ==
    \A m \in 1 .. n - 1 : events[m].doc \in SessionDocs =>
        ~ (events[m].doc.delegation = doc.delegation /\ events[m].doc.nonce = doc.nonce)

AckStands(doc, n) ==
    LET l == Grant[doc.delegation].lineage
    IN  /\ doc.cursor <= n - 1
        /\ previous_effective(n) <= acknowledgements[l]
        /\ \A m \in 1 .. n - 1 :
              events[m].doc \in AcknowledgementDocs /\ Grant[events[m].doc.delegation].lineage = l =>
                  previous_effective(m) <= doc.cursor

EventStands(n) ==
    LET doc == events[n].doc
        received == events[n].received
    IN  /\ doc \in RegistrationDocs => RegistrationOpens(doc, n)
        /\ doc \in DelegationDocs => DelegationStands(doc, received, n)
        /\ doc \in RevocationDocs => RevocationStands(doc, n)
        /\ doc \in RotationDocs => doc.previous # doc.new
        /\ doc \in SessionDocs => SessionStands(doc, received, n) /\ NonceFresh(doc, n)
        /\ doc \in AcknowledgementDocs => AckStands(doc, n)

SerialInv ==
    /\ ChainInv
    /\ \A t \in Threads : pending[t] # NULL => PendingStands(pending[t])
    /\ \A n \in 1 .. current_head : EventStands(n)

-----------------------------------------------------------------------------
(* What stands in the log keeps standing.                                  *)

\* The kinds of documents exclude each other.
LEMMA OneKind ==
    ASSUME NEW doc
    PROVE  /\ doc \in RegistrationDocs =>
                doc \notin DelegationDocs \cup RevocationDocs \cup RotationDocs \cup SessionDocs
           /\ doc \in DelegationDocs => doc \notin RevocationDocs \cup RotationDocs \cup SessionDocs
           /\ doc \in RevocationDocs => doc \notin RotationDocs \cup SessionDocs
           /\ doc \in RotationDocs => doc \notin SessionDocs
           /\ doc \in ContributionDocs => doc \notin AcknowledgementDocs
           /\ doc \in NodeDocs =>
                doc \notin RegistrationDocs \cup DelegationDocs \cup RevocationDocs \cup RotationDocs
                            \cup SessionDocs
BY DEF RegistrationDocs, DelegationDocs, RevocationDocs, RotationDocs, SessionDocs,
       ContributionDocs, AcknowledgementDocs, NodeDocs

\* The cursor an acknowledgement in the log stands for.
LEMMA EffectiveType ==
    ASSUME OriginTypeOK, NEW n \in 1 .. current_head, events[n].doc \in AcknowledgementDocs
    PROVE  previous_effective(n) \in Nat
<1>1. events[n].doc.cursor \in Nat /\ n \in Nat
  BY SMTT(20) DEF AcknowledgementDocs, current_head, OriginTypeOK
<1>. QED
  BY <1>1 DEF previous_effective

\* Rows that advance leave the log's documents as good as they were.
LEMMA EventStays ==
    ASSUME OriginTypeOK, OriginTypeOK', RowsAdvance, current_head \in Nat,
           \A m \in 1 .. current_head : events'[m] = events[m],
           \A l \in Lineages : acknowledgements'[l] >= acknowledgements[l],
           NEW n \in 1 .. current_head, EventStands(n)
    PROVE  EventStands(n)'
<1> DEFINE doc == events[n].doc
           received == events[n].received
<1>1. events'[n] = events[n] /\ doc \in Documents /\ n \in 0 .. current_head /\ n \in Nat
  BY LogEntries, SMTT(20)
<1>2. ASSUME doc \in RegistrationDocs PROVE RegistrationOpens(doc, n)'
  <2> SUFFICES ASSUME NEW k \in Keys, lineage_keys'[k].lineage = lineage_id(doc.key)
               PROVE  n <= lineage_keys'[k].from
    BY <1>1 DEF RegistrationOpens
  <2>1. KeyRowAdvances(k)
    BY DEF RowsAdvance
  <2>2. RegistrationOpens(doc, n)
    BY <1>2, SMTT(20) DEF EventStands
  <2>. QED
    BY <1>1, <2>1, <2>2 DEF KeyRowAdvances, RegistrationOpens
<1>3. ASSUME doc \in DelegationDocs PROVE DelegationStands(doc, received, n)'
  <2>1. /\ validate_delegation_at(doc.delegation, received)
        /\ InForceAt(doc.signer, Grant[doc.delegation].lineage, n)
    BY <1>3, Zenon DEF EventStands, DelegationStands
  <2>2. PICK i \in Keys, j \in Lineages : i = doc.signer /\ j = Grant[doc.delegation].lineage
    BY <1>3, DocFields, GrantAssumption, Zenon
  <2>3. InForceAt(i, j, n)
    BY <2>1, <2>2
  <2>4. InForceAt(i, j, n)'
    BY <1>1, <2>3, InForceStays, Zenon
  <2>. QED
    BY <1>1, <2>1, <2>2, <2>4, Zenon DEF DelegationStands, validate_delegation_at, InForceAt
<1>4. ASSUME doc \in RevocationDocs PROVE RevocationStands(doc, n)'
  <2>1. Grant[doc.delegation].lineage = doc.lineage /\ InForceAt(doc.signer, doc.lineage, n)
    BY <1>4, SMTT(20) DEF EventStands, RevocationStands
  <2>2. PICK i \in Keys, j \in Lineages : i = doc.signer /\ j = doc.lineage
    BY <1>4, DocFields
  <2>3. InForceAt(i, j, n)
    BY <2>1, <2>2
  <2>4. InForceAt(i, j, n)'
    BY <1>1, <2>3, InForceStays, Zenon
  <2>. QED
    BY <1>1, <2>1, <2>2, <2>4, SMTT(20) DEF RevocationStands, InForceAt
<1>5. ASSUME doc \in SessionDocs PROVE SessionStands(doc, received, n)' /\ NonceFresh(doc, n)'
  <2>1. SessionStands(doc, received, n) /\ NonceFresh(doc, n)
    BY <1>5 DEF EventStands
  <2>2. doc.delegation \in Delegations
    BY <1>5 DEF SessionDocs, ContributionDocs, AcknowledgementDocs
  <2>3. DelegationRowAdvances(doc.delegation)
    BY <2>2, SMTT(20) DEF RowsAdvance
  <2>4. SessionStands(doc, received, n)'
    BY <1>1, <2>1, <2>3, SMTT(30) DEF SessionStands, DelegationRowAdvances, validate_authored_time_at, required_scope
  <2>5. \A m \in 1 .. n - 1 : m \in 1 .. current_head
    BY <1>1
  <2>6. NonceFresh(doc, n)'
    BY <1>1, <2>1, <2>5 DEF NonceFresh
  <2>. QED
    BY <2>4, <2>6
<1>6. ASSUME doc \in AcknowledgementDocs PROVE AckStands(doc, n)'
  <2>1. AckStands(doc, n)
    BY <1>6 DEF EventStands
  <2>2. \A m \in 1 .. n : events'[m] = events[m] /\ previous_effective(m)' = previous_effective(m)
    BY <1>1 DEF previous_effective
  <2>3. Grant[doc.delegation].lineage \in Lineages
    BY <1>6, GrantAssumption DEF AcknowledgementDocs
  <2>4. previous_effective(n) \in Nat
    BY <1>6, EffectiveType, SMTT(20)
  <2>5. previous_effective(n) <= acknowledgements'[Grant[doc.delegation].lineage]
    BY <2>1, <2>3, <2>4, SMTT(20) DEF AckStands, OriginTypeOK
  <2>6. previous_effective(n)' = previous_effective(n) /\ \A m \in 1 .. n - 1 : m \in 1 .. n
    BY <1>1, <2>2
  <2>. QED
    BY <1>1, <2>1, <2>2, <2>5, <2>6 DEF AckStands
<1>7. doc \in RotationDocs => doc.previous # doc.new
  BY DEF EventStands
<1>8. events'[n].doc = doc
  BY <1>1
<1>. QED
  BY <1>2, <1>3, <1>4, <1>5, <1>6, <1>7, <1>8, Zenon DEF EventStands

-----------------------------------------------------------------------------
(* What is committed stands.                                               *)

\* The row of a lineage's current key.
LEMMA OpenRow ==
    ASSUME OriginTypeOK, TablesExplained, NEW l \in Lineages, NEW k \in Keys, lineages[l] = k
    PROVE  /\ lineage_keys[k].lineage = l /\ lineage_keys[k].to = 0
           /\ lineage_keys[k].from # 0 /\ lineage_keys[k].from <= current_head
<1>1. lineage_keys[k].lineage = l /\ lineage_keys[k].to = 0
  BY DEF TablesExplained, CurrentKeyIsOpen
<1>2. InForceAt(k, l, current_head)
  BY CurrentKeyInForce
<1>. QED
  BY <1>1, <1>2 DEF InForceAt

\* A document whose service checks still hold is good when its transaction commits.
LEMMA CommitStands ==
    ASSUME OriginTypeOK, TablesExplained, NEW t \in Threads, Committing(t),
           \A n \in 1 .. current_head : EventStands(n),
           pending[t] # NULL => PendingStands(pending[t]),
           NEW n \in Nat, n = current_head + 1
    PROVE  EventStands(n)'
<1> DEFINE doc == pending[t]
           h == current_head
<1>1. doc \in ClientDocs /\ doc \in Documents /\ append_event(doc)
  BY DEF Committing, register_lineage, register_delegation, revoke_delegation,
         rotate_lineage_key, append_contribution, append_acknowledgement, ClientDocs, Documents
<1>2. PendingStands(doc)
  BY <1>1, NullAssumption
<1>3. /\ h \in Nat /\ now \in Time
      /\ \A m \in 1 .. h : events'[m] = events[m]
      /\ events'[h + 1] = [doc |-> doc, received |-> now]
      /\ events'[h + 1].doc = doc /\ events'[h + 1].received = now
  <2>1. h \in Nat /\ now \in Time
    BY DEF OriginTypeOK, current_head
  <2>2. /\ \A m \in 1 .. h : events'[m] = events[m]
        /\ events'[h + 1] = [doc |-> doc, received |-> now]
    BY <1>1, AppendFacts, Zenon
  <2>. QED
    BY <2>1, <2>2
<1>4. n = h + 1
  OBVIOUS
<1>n. /\ events'[n].doc = doc /\ events'[n].received = now
      /\ \A m \in 1 .. n - 1 : m \in 1 .. h /\ events'[m] = events[m]
  BY <1>3, <1>4, SMTT(20)
<1> HIDE DEF h
<1>5. ASSUME doc \in RegistrationDocs PROVE EventStands(n)'
  <2>1. register_lineage(t)
    BY <1>5, OneKind, SMTT(20) DEF Committing, register_delegation, revoke_delegation, rotate_lineage_key,
                         append_contribution, append_acknowledgement, SessionDocs
  <2>2. /\ lineages[lineage_id(doc.key)] = NULL
        /\ lineage_keys' = [lineage_keys EXCEPT ![doc.key] =
              [lineage |-> lineage_id(doc.key), from |-> n, to |-> 0]]
    BY <1>4, <2>1, SMTT(20) DEF register_lineage, LineageUnregistered, AcceptedSequence, h
  <2>3. \A k \in Keys : lineage_keys[k].lineage # lineage_id(doc.key)
    BY <1>5, <2>2, LineageIdType, DocFields, Zenon DEF TablesExplained, CurrentKeyIsOpen
  <2>4. \A k \in Keys : lineage_keys'[k].lineage = lineage_id(doc.key) => n <= lineage_keys'[k].from
    BY <1>5, <2>2, <2>3, DocFields, SMTT(20) DEF OriginTypeOK
  <2>. QED
    BY <1>5, <1>n, <2>4, OneKind DEF EventStands, RegistrationOpens, SessionDocs
<1>6. ASSUME doc \in DelegationDocs PROVE EventStands(n)'
  <2>1. register_delegation(t)
    BY <1>6, OneKind, SMTT(20) DEF Committing, register_lineage, revoke_delegation, rotate_lineage_key,
                         append_contribution, append_acknowledgement, SessionDocs
  <2>2. PICK k \in Keys, l \in Lineages : k = doc.signer /\ l = Grant[doc.delegation].lineage
    BY <1>6, DocFields, GrantAssumption, Zenon
  <2>3. lineages[l] = k /\ validate_delegation_at(doc.delegation, now)
    BY <1>2, <1>6, <2>2, Zenon DEF PendingStands, CheckDelegation
  <2>4. /\ lineage_keys[k].lineage = l /\ lineage_keys[k].to = 0
        /\ lineage_keys[k].from # 0 /\ lineage_keys[k].from <= h
    BY <2>3, OpenRow, Zenon DEF h
  <2>5. lineage_keys' = lineage_keys /\ lineage_keys[k].from \in Nat
    BY <2>1, SMTT(20) DEF register_delegation, OriginTypeOK, KeyRow
  <2>6. /\ lineage_keys'[doc.signer].lineage = Grant[doc.delegation].lineage
        /\ lineage_keys'[doc.signer].from # 0 /\ lineage_keys'[doc.signer].from <= n
        /\ lineage_keys'[doc.signer].to = 0
    BY <1>3, <1>4, <2>2, <2>4, <2>5, SMTT(30)
  <2>7. DelegationStands(events[n].doc, events[n].received, n)'
    BY <1>n, <2>3, <2>6, Zenon DEF DelegationStands, InForceAt, validate_delegation_at
  <2>. QED
    BY <1>6, <1>n, <2>7, OneKind, Zenon DEF EventStands, SessionDocs
<1>7. ASSUME doc \in RevocationDocs PROVE EventStands(n)'
  <2>1. revoke_delegation(t)
    BY <1>7, OneKind, Zenon DEF Committing, register_lineage, register_delegation, rotate_lineage_key,
                         append_contribution, append_acknowledgement, SessionDocs
  <2>2. PICK k \in Keys, l \in Lineages : k = doc.signer /\ l = doc.lineage
    BY <1>7, DocFields, Zenon
  <2>3. lineages[l] = k /\ Grant[doc.delegation].lineage = doc.lineage
    BY <1>2, <1>7, <2>1, <2>2
       DEF PendingStands, CheckRevocation, revoke_delegation, DelegationRevocable
  <2>4. /\ lineage_keys[k].lineage = l /\ lineage_keys[k].to = 0
        /\ lineage_keys[k].from # 0 /\ lineage_keys[k].from <= h
    BY <2>3, OpenRow, Zenon DEF h
  <2>5. lineage_keys' = lineage_keys /\ lineage_keys[k].from \in Nat
    BY <2>1, SMTT(20) DEF revoke_delegation, OriginTypeOK, KeyRow
  <2>6. /\ lineage_keys'[doc.signer].lineage = doc.lineage
        /\ lineage_keys'[doc.signer].from # 0 /\ lineage_keys'[doc.signer].from <= n
        /\ lineage_keys'[doc.signer].to = 0
    BY <1>3, <1>4, <2>2, <2>4, <2>5, SMTT(20)
  <2>7. RevocationStands(events[n].doc, n)'
    BY <1>n, <2>3, <2>6, SMTT(20) DEF RevocationStands, InForceAt
  <2>. QED
    BY <1>7, <1>n, <2>7, OneKind, SMTT(20) DEF EventStands, SessionDocs
<1>8. ASSUME doc \in RotationDocs PROVE EventStands(n)'
  <2>1. doc.previous # doc.new
    BY <1>2, <1>8, Zenon DEF PendingStands, CheckRotation
  <2>. QED
    BY <1>8, <1>n, <2>1, OneKind, Zenon DEF EventStands, SessionDocs
<1>9. ASSUME doc \in SessionDocs
      PROVE  SessionStands(events[n].doc, events[n].received, n)' /\ NonceFresh(events[n].doc, n)'
  <2>1. append_contribution(t) \/ append_acknowledgement(t)
    BY <1>9, OneKind DEF Committing, register_lineage, register_delegation, revoke_delegation,
                         rotate_lineage_key, SessionDocs
  <2>2. delegations' = delegations /\ NonceUnused(doc)
    BY <2>1 DEF append_contribution, append_acknowledgement
  <2>3. doc.delegation \in Delegations
    BY <1>9, DocFields, SMTT(20) DEF SessionDocs
  <2>4. /\ delegations[doc.delegation].registered \in Nat
        /\ delegations[doc.delegation].registered <= h
    BY <2>3, Zenon DEF OriginTypeOK, DelegationRow, TablesExplained, DelegationRowsExplained,
                DelegationRowExplained, h
  <2>5. SessionStands(events[n].doc, events[n].received, n)'
    BY <1>2, <1>3, <1>4, <1>9, <1>n, <2>2, <2>4, SMTT(30)
       DEF SessionStands, PendingStands, validate_authored_time_at, required_scope
  <2>6. NonceFresh(events[n].doc, n)'
    BY <1>n, <2>2 DEF NonceFresh, NonceUnused, SessionDocs, h
  <2>. QED
    BY <2>5, <2>6
<1>10. ASSUME doc \in ContributionDocs PROVE EventStands(n)'
  BY <1>9, <1>10, <1>n, OneKind DEF EventStands, SessionDocs
<1>11. ASSUME doc \in AcknowledgementDocs PROVE EventStands(n)'
  <2>1. append_acknowledgement(t)
    BY <1>11, OneKind, SMTT(20) DEF Committing, register_lineage, register_delegation, revoke_delegation,
                          rotate_lineage_key, append_contribution, SessionDocs
  <2>2. PICK l \in Lineages : l = Grant[doc.delegation].lineage
    BY <1>11, DocFields, GrantAssumption, Zenon
  <2>3. /\ doc.cursor <= h /\ acknowledgements[l] <= doc.cursor /\ doc.cursor \in Nat
        /\ acknowledgements'[l] = IF doc.cursor = h THEN n ELSE doc.cursor
    BY <1>4, <1>11, <2>1, <2>2, DocFields, Zenon
       DEF append_acknowledgement, CursorAdmissible, effective_cursor, AcceptedSequence, OriginTypeOK, h
  <2>4. previous_effective(n)' = IF doc.cursor = h THEN n ELSE doc.cursor
    BY <1>3, <1>4, <1>n, SMTT(30) DEF previous_effective
  <2>5. ASSUME NEW m \in 1 .. n - 1, events[m].doc \in AcknowledgementDocs,
               Grant[events[m].doc.delegation].lineage = l
        PROVE  previous_effective(m)' <= doc.cursor
    <3>1. m \in 1 .. current_head /\ events'[m] = events[m]
      BY <1>n, SMTT(20) DEF h
    <3>2. previous_effective(m) <= acknowledgements[l]
      BY <2>5, <3>1, SMTT(20) DEF EventStands, AckStands
    <3>3. previous_effective(m) \in Nat /\ acknowledgements[l] \in Nat
      BY <2>5, <3>1, EffectiveType, SMTT(20) DEF OriginTypeOK
    <3>4. previous_effective(m)' = previous_effective(m)
      BY <3>1, SMTT(20) DEF previous_effective
    <3>. QED
      BY <2>3, <3>2, <3>3, <3>4
  <2>6. AckStands(events[n].doc, n)'
    <3>1. doc.cursor <= n - 1
      BY <1>3, <1>4, <2>3
    <3>2. previous_effective(n)' = acknowledgements'[l] /\ acknowledgements'[l] \in Nat
      BY <2>3, <2>4
    <3>. QED
      BY <1>n, <2>2, <2>5, <3>1, <3>2, SMTT(20) DEF AckStands
  <2>. QED
    BY <1>9, <1>11, <1>n, <2>6, OneKind, Zenon DEF EventStands, SessionDocs
<1>. QED
  BY <1>1, <1>5, <1>6, <1>7, <1>8, <1>10, <1>11, SMTT(20) DEF ClientDocs

-----------------------------------------------------------------------------
(* No other transaction comes between the two phases.                      *)

\* While the tables stay, and the clock advances, a pending document stays good.
LEMMA PendingStays ==
    ASSUME NEW doc \in ClientDocs, PendingStands(doc), UNCHANGED <<lineages, delegations>>,
           now \in Nat, now' \in Nat, now <= now'
    PROVE  PendingStands(doc)'
<1>1. lineages' = lineages /\ delegations' = delegations
  OBVIOUS
<1>2. \A at \in Nat : at <= now + Skew => at <= now' + Skew
  <2>1. \A at, i, j, k \in Nat : i <= j /\ at <= i + k => at <= j + k
    OBVIOUS
  <2>. QED
    BY <2>1, BoundsAssumption, Zenon
<1>3. ASSUME doc \in DelegationDocs PROVE CheckDelegation(doc)'
  <2>1. Grant[doc.delegation].not_before \in Nat
    BY <1>3, DocFields, GrantAssumption
  <2>2. CheckDelegation(doc)
    BY <1>3 DEF PendingStands
  <2>. QED
    BY <1>1, <1>2, <2>1, <2>2, SMTT(20) DEF CheckDelegation, validate_delegation_at
<1>4. doc \in RevocationDocs => CheckRevocation(doc)'
  BY <1>1 DEF PendingStands, CheckRevocation
<1>5. doc \in RotationDocs => CheckRotation(doc)'
  BY <1>1 DEF PendingStands, CheckRotation
<1>6. ASSUME doc \in SessionDocs PROVE validate_authored_time_at(doc.created_at, now)'
  <2>1. doc.created_at \in Nat
    BY <1>6, DocFields, BoundsAssumption DEF SessionDocs, Time
  <2>2. validate_authored_time_at(doc.created_at, now)
    BY <1>6 DEF PendingStands
  <2>. QED
    BY <1>2, <2>1, <2>2 DEF validate_authored_time_at
<1>. QED
  BY <1>1, <1>3, <1>4, <1>5, <1>6 DEF PendingStands, required_scope

\* A document that has just passed the service checks is good.
LEMMA ServiceStands ==
    ASSUME NEW doc \in ClientDocs, ServiceAccepts(doc)
    PROVE  PendingStands(doc)
<1>1. doc \in DelegationDocs => CheckDelegation(doc)
  BY OneKind DEF ServiceAccepts, SessionDocs
<1>2. doc \in RevocationDocs => CheckRevocation(doc)
  BY OneKind DEF ServiceAccepts, SessionDocs
<1>3. doc \in RotationDocs => CheckRotation(doc)
  BY OneKind DEF ServiceAccepts, SessionDocs
<1>4. doc \in SessionDocs => authorize_delegation(doc)
  BY OneKind DEF ServiceAccepts, SessionDocs
<1>. QED
  BY <1>1, <1>2, <1>3, <1>4 DEF PendingStands, authorize_delegation

\* With one thread no other transaction commits between the two phases.
LEMMA PendingStep ==
    ASSUME OneThread, OriginTypeOK, OriginTypeOK', OriginNext,
           \A t \in Threads : pending[t] # NULL => PendingStands(pending[t])
    PROVE  (\A t \in Threads : pending[t] # NULL => PendingStands(pending[t]))'
<1> SUFFICES ASSUME NEW t \in Threads, pending'[t] # NULL PROVE PendingStands(pending[t])'
  OBVIOUS
<1>1. /\ now \in Nat /\ now' \in Nat /\ pending[t] \in ClientDocs \cup {NULL}
      /\ pending \in [Threads -> ClientDocs \cup {NULL}]
  BY BoundsAssumption, SMTT(20) DEF OriginTypeOK, Time
<1>2. ASSUME pending'[t] = pending[t], UNCHANGED <<lineages, delegations>>, now <= now'
      PROVE  PendingStands(pending[t])'
  <2>1. PICK doc \in ClientDocs : doc = pending[t] /\ PendingStands(doc)
    BY <1>1, <1>2
  <2>2. PendingStands(doc)'
    BY <1>1, <1>2, <2>1, PendingStays
  <2>3. pending'[t] = doc
    BY <1>2, <2>1, Zenon
  <2>. QED
    BY <2>2, <2>3, Zenon DEF PendingStands, CheckDelegation, CheckRevocation, CheckRotation,
                      required_scope, validate_authored_time_at, validate_delegation_at
<1>3. ASSUME NEW u \in Threads, NEW doc \in Submittable, PassServiceChecks(u, doc)
      PROVE  PendingStands(pending[t])'
  <2>1. u = t /\ pending'[t] = doc
    BY <1>1, <1>3 DEF OneThread, PassServiceChecks
  <2>2. doc \in ClientDocs
    BY <1>1, <2>1 DEF OriginTypeOK
  <2>3. PendingStands(doc)
    BY <1>3, <2>2, ServiceStands DEF PassServiceChecks
  <2>4. UNCHANGED <<lineages, delegations>> /\ now <= now'
    BY <1>1, <1>3 DEF PassServiceChecks, dbvars
  <2>5. PendingStands(doc)'
    BY <1>1, <2>2, <2>3, <2>4, PendingStays
  <2>. QED
    BY <2>1, <2>5 DEF PendingStands, CheckDelegation, CheckRevocation, CheckRotation,
                      required_scope, validate_authored_time_at, validate_delegation_at
<1>4. ASSUME NEW u \in Threads, Committing(u) \/ RollBack(u) PROVE FALSE
  <2>1. u = t /\ pending'[t] = NULL
    BY <1>1, <1>4 DEF OneThread, Committing, RollBack
  <2>. QED
    BY <2>1
<1>5. ~ Crash
  BY DEF Crash
<1>6. AppendNodeEvent \/ Tick => PendingStands(pending[t])'
  <2>1. ASSUME AppendNodeEvent \/ Tick
        PROVE  pending'[t] = pending[t] /\ UNCHANGED <<lineages, delegations>> /\ now <= now'
    BY <1>1, <2>1 DEF AppendNodeEvent, Tick, dbvars
  <2>. QED
    BY <1>2, <2>1, SMTT(20)
<1>. QED
  BY <1>3, <1>4, <1>5, <1>6 DEF OriginNext

\* Every step keeps the pending document and the log good.
LEMMA SerialStep ==
    ASSUME OneThread, SerialInv, [Next]_vars
    PROVE  SerialInv'
<1>1. /\ ChainInv /\ ChainInv' /\ OriginTypeOK /\ OriginTypeOK' /\ TablesExplained
      /\ current_head \in Nat
  BY NextChain, SMTT(20) DEF SerialInv, ChainInv, ReplayInv, TypeOK, OriginTypeOK, current_head
<1>2. CASE OriginNext
  <2>1. /\ RowsAdvance /\ current_head' \in {current_head, current_head + 1}
        /\ \A m \in 1 .. current_head : events'[m] = events[m]
    BY <1>1, <1>2, OriginStep
  <2>2. \A l \in Lineages : acknowledgements'[l] >= acknowledgements[l]
    BY <1>1, <1>2, AcksAdvance
  <2>3. \A n \in 1 .. current_head : EventStands(n)'
    BY <1>1, <2>1, <2>2, EventStays, Zenon DEF SerialInv
  <2>4. (\A t \in Threads : pending[t] # NULL => PendingStands(pending[t]))'
    BY <1>1, <1>2, PendingStep DEF SerialInv
  <2>5. ASSUME NEW n \in Nat, n = current_head + 1, current_head' = current_head + 1
        PROVE  EventStands(n)'
    <3>1. ASSUME NEW t \in Threads, Committing(t) PROVE EventStands(n)'
      BY <1>1, <2>5, <3>1, CommitStands, Zenon DEF SerialInv
    <3>2. ASSUME AppendNodeEvent PROVE EventStands(n)'
      <4>1. events'[n].doc \in NodeDocs
        BY <1>1, <2>5, <3>2 DEF AppendNodeEvent, append_event, NodeDocs, OriginTypeOK, current_head
      <4>. QED
        BY <4>1, OneKind DEF EventStands, SessionDocs
    <3>3. ASSUME UNCHANGED events PROVE FALSE
      BY <1>1, <2>5, <3>3 DEF current_head
    <3>4. \/ \E t \in Threads : Committing(t)
          \/ AppendNodeEvent
          \/ UNCHANGED events
      BY <1>2 DEF OriginNext, PassServiceChecks, RollBack, Crash, Tick, dbvars
    <3>. QED
      BY <3>1, <3>2, <3>3, <3>4
  <2>6. \A n \in 1 .. current_head' : EventStands(n)'
    <3> SUFFICES ASSUME NEW n \in 1 .. current_head' PROVE EventStands(n)'
      OBVIOUS
    <3>1. n \in 1 .. current_head \/ (n \in Nat /\ n = current_head + 1 /\ current_head' = current_head + 1)
      BY <1>1, <2>1
    <3>. QED
      BY <2>3, <2>5, <3>1
  <2>. QED
    BY <1>1, <2>4, <2>6, Zenon DEF SerialInv
<1>3. CASE ImportEvent \/ UNCHANGED vars
  <2>1. UNCHANGED <<now, events, lineages, lineage_keys, delegations, acknowledgements, pending>>
    BY <1>3 DEF ImportEvent, vars, originvars, dbvars
  <2>2. current_head' = current_head
    BY <2>1, Zenon DEF current_head
  <2>3. \A n \in 1 .. current_head : EventStands(n)'
    <3>1. \A doc, n : /\ RegistrationOpens(doc, n) => RegistrationOpens(doc, n)'
                      /\ RevocationStands(doc, n) => RevocationStands(doc, n)'
                      /\ NonceFresh(doc, n) => NonceFresh(doc, n)'
      BY <2>1, Zenon DEF RegistrationOpens, RevocationStands, NonceFresh, InForceAt
    <3>2. \A doc, at, n : /\ DelegationStands(doc, at, n) => DelegationStands(doc, at, n)'
                          /\ SessionStands(doc, at, n) => SessionStands(doc, at, n)'
      BY <2>1, ZenonT(30) DEF DelegationStands, SessionStands, InForceAt
    <3>3. \A doc, n : AckStands(doc, n) => AckStands(doc, n)'
      BY <2>1, Zenon DEF AckStands, previous_effective
    <3>4. ASSUME NEW n \in 1 .. current_head PROVE EventStands(n)'
      <4>1. EventStands(n) /\ events' = events
        BY <2>1, Zenon DEF SerialInv
      <4>. QED
        BY <3>1, <3>2, <3>3, <4>1, Zenon DEF EventStands
    <3>. QED
      BY <3>4, Zenon
  <2>4. \A t \in Threads : pending'[t] # NULL => PendingStands(pending[t])'
    BY <2>1, Zenon DEF SerialInv, PendingStands, CheckDelegation, CheckRevocation, CheckRotation
  <2>. QED
    BY <1>1, <2>2, <2>3, <2>4 DEF SerialInv
<1>. QED
  BY <1>2, <1>3, SMTT(20) DEF Next

-----------------------------------------------------------------------------
(* The log replays.                                                        *)

\* The importer reads the origin's rows as of its cursor.
LEMMA ReplayedRows ==
    ASSUME TypeOK, ReplayAgrees
    PROVE  /\ \A k \in Keys : cursor < lineage_keys[k].from => federated_lineage_keys[k].from = 0
           /\ \A d \in Delegations :
                 /\ cursor < delegations[d].registered => federated_delegations[d].registered = 0
                 /\ delegations[d].registered # 0 /\ delegations[d].registered <= cursor =>
                        federated_delegations[d].registered # 0
                 /\ delegations[d].revoked = 0 \/ cursor < delegations[d].revoked =>
                        federated_delegations[d].revoked = 0
<1>1. /\ cursor \in Nat
      /\ \A k \in Keys : lineage_keys[k].from \in Nat
      /\ \A d \in Delegations : delegations[d].registered \in Nat /\ delegations[d].revoked \in Nat
  BY DEF TypeOK, OriginTypeOK, KeyRow, DelegationRow
<1>2. ASSUME NEW k \in Keys, cursor < lineage_keys[k].from PROVE federated_lineage_keys[k].from = 0
  <2>1. federated_lineage_keys[k] = KeyRowAsOf(k, cursor)
    BY Zenon DEF ReplayAgrees
  <2>2. ~ (lineage_keys[k].from <= cursor)
    BY <1>1, <1>2
  <2>. QED
    BY <2>1, <2>2 DEF KeyRowAsOf, NoKeyRow
<1>3. ASSUME NEW d \in Delegations
      PROVE  /\ federated_delegations[d].registered = AsOf(delegations[d].registered, cursor)
             /\ federated_delegations[d].revoked = AsOf(delegations[d].revoked, cursor)
  <2>1. federated_delegations[d] = DelegationRowAsOf(d, cursor)
    BY Zenon DEF ReplayAgrees
  <2>. QED
    BY <2>1 DEF DelegationRowAsOf
<1>. QED
  BY <1>1, <1>2, <1>3 DEF AsOf

\* The key in force at an event that opens no era is the importer's current key.
LEMMA ReplayedKey ==
    ASSUME TypeOK, TablesExplained, ReplayAgrees, cursor < current_head,
           NEW k \in Keys, NEW l \in Lineages, InForceAt(k, l, cursor + 1),
           events[cursor + 1].doc \notin RegistrationDocs \cup RotationDocs
    PROVE  federated_lineages[l] = k
<1>1. /\ cursor \in Nat /\ lineage_keys[k].from \in Nat /\ lineage_keys[k].to \in Nat
  BY DEF TypeOK, OriginTypeOK, KeyRow
<1>2. lineage_keys[k].from # cursor + 1
  <2>1. events[lineage_keys[k].from].doc \in RegistrationDocs \cup RotationDocs
    BY DEF InForceAt, TablesExplained, KeyRowsExplained, KeyRowExplained
  <2>. QED
    BY <2>1, SMTT(20)
<1>3. InForceAt(k, l, cursor)
  BY <1>1, <1>2 DEF InForceAt
<1>. QED
  BY <1>3, Zenon DEF ReplayAgrees

\* What stands in the log, the importer admits.
LEMMA NextReplays ==
    ASSUME SerialInv, cursor < current_head
    PROVE  \/ RemoteAdmits(events[cursor + 1], cursor + 1)
           \/ ReceivedAfterExpiry(events[cursor + 1])
<1> DEFINE n == cursor + 1
           doc == events[n].doc
           received == events[n].received
<1>1. TypeOK /\ OriginTypeOK /\ TablesExplained /\ ReplayAgrees /\ RotationsChain
  BY DEF SerialInv, ChainInv, ReplayInv, TypeOK
<1>2. /\ cursor \in Nat /\ n \in Nat /\ n \in 1 .. current_head /\ n - 1 = cursor /\ cursor < n
      /\ current_head \in Nat
  BY <1>1 DEF TypeOK, OriginTypeOK, current_head
<1>3. EventStands(n) /\ KeyEventApplied(n) /\ DelegationEventApplied(n)
  BY <1>1, <1>2 DEF SerialInv, TablesExplained, KeyEventsApplied, DelegationEventsApplied
<1>4. doc \in Documents
  BY <1>1, <1>2, LogEntries
<1> HIDE DEF n
<1>5. ASSUME doc \in RegistrationDocs PROVE LineageAdmitted(doc)
  <2>1. PICK l \in Lineages : l = lineage_id(doc.key)
    BY <1>5, DocFields, LineageIdType, SMTT(20)
  <2>2. federated_lineage_keys[doc.key].from = 0
    BY <1>1, <1>2, <1>3, <1>5, DocFields, ReplayedRows, SMTT(20) DEF KeyEventApplied
  <2>3. \A k \in Keys : lineage_keys[k].lineage = l => n <= lineage_keys[k].from
    BY <1>3, <1>5, <2>1, Zenon DEF EventStands, RegistrationOpens
  <2>4. \A k \in Keys : ~ InForceAt(k, l, cursor)
    BY <1>1, <1>2, <2>3 DEF InForceAt, OriginTypeOK, KeyRow
  <2>5. federated_lineages[l] \in Keys \cup {NULL}
    BY <1>1 DEF TypeOK
  <2>6. federated_lineages[l] = NULL
    BY <1>1, <2>4, <2>5, Zenon DEF ReplayAgrees
  <2>. QED
    BY <2>1, <2>2, <2>6 DEF LineageAdmitted
<1>6. ASSUME doc \in DelegationDocs PROVE DelegationAdmitted(doc, received)
  <2>1. PICK k \in Keys, l \in Lineages : k = doc.signer /\ l = Grant[doc.delegation].lineage
    BY <1>6, DocFields, GrantAssumption, SMTT(20)
  <2>2. validate_delegation_at(doc.delegation, received) /\ InForceAt(k, l, n)
    BY <1>3, <1>6, <2>1, Zenon DEF EventStands, DelegationStands
  <2>3. doc \notin RegistrationDocs \cup RotationDocs
    BY <1>6, OneKind
  <2>4. federated_lineages[l] = k
    BY <1>1, <2>2, <2>3, ReplayedKey, SMTT(20) DEF n
  <2>5. federated_delegations[doc.delegation].registered = 0
    BY <1>1, <1>2, <1>3, <1>6, DocFields, ReplayedRows, SMTT(20) DEF DelegationEventApplied
  <2>. QED
    BY <2>1, <2>2, <2>4, <2>5, SMTT(20) DEF DelegationAdmitted
<1>7. ASSUME doc \in RevocationDocs PROVE RevocationAdmitted(doc)
  <2>1. PICK k \in Keys, l \in Lineages, d \in Delegations :
            k = doc.signer /\ l = doc.lineage /\ d = doc.delegation
    BY <1>7, DocFields, Zenon
  <2>2. Grant[d].lineage = l /\ InForceAt(k, l, n)
    BY <1>3, <1>7, <2>1 DEF EventStands, RevocationStands
  <2>3. doc \notin RegistrationDocs \cup RotationDocs
    BY <1>7, OneKind
  <2>4. federated_lineages[l] = k
    BY <1>1, <2>2, <2>3, ReplayedKey DEF n
  <2>5. delegations[d].revoked = n
    BY <1>3, <1>7, <2>1, SMTT(20) DEF DelegationEventApplied
  <2>6. delegations[d].registered # 0 /\ delegations[d].registered < n
    BY <1>1, <1>2, <2>5 DEF TablesExplained, DelegationRowsExplained, DelegationRowExplained
  <2>7. delegations[d].registered <= cursor
    BY <1>1, <1>2, <2>6 DEF OriginTypeOK, DelegationRow, n
  <2>8. federated_delegations[d].registered # 0 /\ federated_delegations[d].revoked = 0
    BY <1>1, <1>2, <2>5, <2>6, <2>7, ReplayedRows, SMTT(20)
  <2>. QED
    BY <2>1, <2>2, <2>4, <2>8, SMTT(20) DEF RevocationAdmitted
<1>8. ASSUME doc \in RotationDocs PROVE RotationAdmitted(doc)
  <2>1. PICK k \in Keys, l \in Lineages : k = doc.previous /\ l = doc.lineage
    BY <1>8, DocFields
  <2>2. InForceAt(k, l, cursor)
    BY <1>1, <1>2, <1>8, <2>1 DEF RotationsChain
  <2>3. federated_lineages[l] = k
    BY <1>1, <2>2, Zenon DEF ReplayAgrees
  <2>4. federated_lineage_keys[doc.new].from = 0
    BY <1>1, <1>2, <1>3, <1>8, DocFields, ReplayedRows, Zenon DEF KeyEventApplied
  <2>5. doc.previous # doc.new
    BY <1>3, <1>8, SMTT(20) DEF EventStands
  <2>. QED
    BY <2>1, <2>3, <2>4, <2>5 DEF RotationAdmitted
<1>9. ASSUME doc \in SessionDocs, WithinGrant(doc, received) PROVE ContributionAdmitted(doc, received)
  <2>1. PICK d \in Delegations : d = doc.delegation
    BY <1>9, DocFields, Zenon DEF SessionDocs
  <2>2. SessionStands(doc, received, n) /\ NonceFresh(doc, n)
    BY <1>3, <1>9, SMTT(20) DEF EventStands
  <2>3. /\ delegations[d].registered # 0 /\ delegations[d].registered <= cursor
        /\ delegations[d].revoked = 0 \/ cursor < delegations[d].revoked
    <3>1. /\ delegations[d].registered # 0 /\ delegations[d].registered < cursor + 1
          /\ delegations[d].revoked = 0 \/ cursor + 1 < delegations[d].revoked
      BY <2>1, <2>2, Zenon DEF SessionStands, n
    <3>2. delegations[d].registered \in Nat /\ delegations[d].revoked \in Nat /\ cursor \in Nat
      BY <1>1, <1>2 DEF OriginTypeOK, DelegationRow
    <3>3. \A a, b, c \in Nat : (a < c + 1 => a <= c) /\ (c + 1 < b => c < b)
      OBVIOUS
    <3>. QED
      BY <3>1, <3>2, <3>3, Zenon
  <2>4. federated_delegations[d].registered # 0 /\ federated_delegations[d].revoked = 0
    BY <1>1, <2>3, ReplayedRows, SMTT(20)
  <2>5. authorize_remote_delegation(doc, received)
    BY <1>9, <2>1, <2>2, <2>4, Zenon DEF authorize_remote_delegation, SessionStands
  <2>6. RemoteNonceUnused(doc)
    BY <1>2, <2>2, SMTT(20) DEF RemoteNonceUnused, NonceFresh, SessionDocs
  <2>. QED
    BY <2>2, <2>5, <2>6, Zenon DEF ContributionAdmitted, SessionStands
<1>10. ASSUME doc \in AcknowledgementDocs PROVE validate_remote_ack_cursor(doc, n)
  <2>1. AckStands(doc, n)
    BY <1>3, <1>10, Zenon DEF EventStands
  <2>2. ASSUME NEW m \in ImportedAcks(Grant[doc.delegation].lineage)
        PROVE  doc.cursor >= previous_effective(m)
    <3>1. /\ m \in 1 .. n - 1 /\ m \in 1 .. current_head /\ events[m].doc \in AcknowledgementDocs
          /\ Grant[events[m].doc.delegation].lineage = Grant[doc.delegation].lineage
      BY <1>2, SMTT(20) DEF ImportedAcks
    <3>2. previous_effective(m) <= doc.cursor
      BY <2>1, <3>1 DEF AckStands
    <3>3. previous_effective(m) \in Nat
      BY <1>1, <3>1, EffectiveType, Zenon
    <3>4. doc.cursor \in Nat
      BY <1>10, DocFields
    <3>. QED
      BY <3>2, <3>3, <3>4, Zenon
  <2>. QED
    BY <2>1, <2>2, Zenon DEF AckStands, validate_remote_ack_cursor
<1>11. ASSUME doc \in SessionDocs, ~ WithinGrant(doc, received) PROVE ReceivedAfterExpiry(events[n])
  BY <1>11 DEF ReceivedAfterExpiry, SessionDocs
<1>12. RemoteAdmits(events[n], n) \/ ReceivedAfterExpiry(events[n])
  BY <1>4, <1>5, <1>6, <1>7, <1>8, <1>9, <1>10, <1>11
     DEF RemoteAdmits, Documents, ClientDocs, SessionDocs
<1>. QED
  BY <1>12 DEF n

-----------------------------------------------------------------------------
(* The properties of a node that handles one request at a time.            *)

\* The inductive invariant: what the service checked about the document in hand still
\* holds, and every document in the log was good when its transaction committed.
THEOREM SerialInvariant == ASSUME OneThread PROVE Spec => []SerialInv
<1>1. Init => SerialInv
  <2> SUFFICES ASSUME Init PROVE SerialInv
    OBVIOUS
  <2>1. current_head = 0 /\ \A t \in Threads : pending[t] = NULL
    BY DEF Init, OriginInit, current_head
  <2>. QED
    BY <2>1, InitReplay DEF SerialInv, ChainInv, RotationsChain
<1>2. SerialInv /\ [Next]_vars => SerialInv'
  BY SerialStep
<1>. QED
  BY <1>1, <1>2, PTL DEF Spec

\* With one request at a time a session acts only while its delegation stands.
THEOREM SerialSessionsStaySilent == ASSUME OneThread PROVE Spec => []RevokedSessionsStaySilent
<1>1. ASSUME SerialInv PROVE RevokedSessionsStaySilent
  <2>1. \A n \in 1 .. current_head : EventStands(n)
    BY <1>1, SMTT(20) DEF SerialInv
  <2>. QED
    BY <2>1, Zenon DEF RevokedSessionsStaySilent, EventStands, SessionStands, SessionDocs
<1>. QED
  BY <1>1, SerialInvariant, PTL

\* With one request at a time the key in force signs delegations and revocations.
THEOREM SerialCurrentKeySigns == ASSUME OneThread PROVE Spec => []CurrentKeySigns
<1>1. ASSUME SerialInv PROVE CurrentKeySigns
  <2>1. \A n \in 1 .. current_head : EventStands(n)
    BY <1>1 DEF SerialInv
  <2>. QED
    BY <2>1, Zenon DEF CurrentKeySigns, EventStands, DelegationStands, RevocationStands
<1>. QED
  BY <1>1, SerialInvariant, PTL

\* With one request at a time validate_and_project_remote_event refuses no event of the
\* log, except one received in the instant its grant ran out.
THEOREM SerialLogReplays == ASSUME OneThread PROVE Spec => []NextEventReplays
<1>1. ASSUME SerialInv PROVE NextEventReplays
  BY <1>1, NextReplays DEF NextEventReplays
<1>. QED
  BY <1>1, SerialInvariant, PTL

=============================================================================
