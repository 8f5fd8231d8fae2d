-------------------------- MODULE AuthorityProofs ---------------------------
(***************************************************************************)
(* The importer's steps: types, the inductive invariant and the exactness  *)
(* of the replay.  And what the invariant implies about the history: key   *)
(* eras partition the log, authority only advances, and an acknowledgement *)
(* consumes only itself.                                                   *)
(***************************************************************************)
EXTENDS AuthorityTables

-----------------------------------------------------------------------------
(* The importer.                                                           *)

\* Rows as of a sequence number, field by field.
LEMMA AsOfFacts ==
    ASSUME OriginTypeOK, NEW n \in Nat
    PROVE  /\ \A k \in Keys :
                 /\ KeyRowAsOf(k, n) \in KeyRow
                 /\ lineage_keys[k].from \in Nat /\ lineage_keys[k].to \in Nat
                 /\ lineage_keys[k].from <= n =>
                      /\ KeyRowAsOf(k, n).lineage = lineage_keys[k].lineage
                      /\ KeyRowAsOf(k, n).from = lineage_keys[k].from
                      /\ KeyRowAsOf(k, n).to =
                            IF lineage_keys[k].to <= n THEN lineage_keys[k].to ELSE 0
                 /\ ~ (lineage_keys[k].from <= n) =>
                      /\ KeyRowAsOf(k, n).lineage = NULL
                      /\ KeyRowAsOf(k, n).from = 0
                      /\ KeyRowAsOf(k, n).to = 0
           /\ \A d \in Delegations :
                 /\ DelegationRowAsOf(d, n) \in DelegationRow
                 /\ delegations[d].registered \in Nat /\ delegations[d].revoked \in Nat
                 /\ DelegationRowAsOf(d, n).registered =
                       IF delegations[d].registered <= n THEN delegations[d].registered ELSE 0
                 /\ DelegationRowAsOf(d, n).revoked =
                       IF delegations[d].revoked <= n THEN delegations[d].revoked ELSE 0
<1>1. ASSUME NEW k \in Keys
      PROVE  /\ KeyRowAsOf(k, n) \in KeyRow
             /\ lineage_keys[k].from \in Nat /\ lineage_keys[k].to \in Nat
             /\ lineage_keys[k].from <= n =>
                  /\ KeyRowAsOf(k, n).lineage = lineage_keys[k].lineage
                  /\ KeyRowAsOf(k, n).from = lineage_keys[k].from
                  /\ KeyRowAsOf(k, n).to =
                        IF lineage_keys[k].to <= n THEN lineage_keys[k].to ELSE 0
             /\ ~ (lineage_keys[k].from <= n) =>
                  /\ KeyRowAsOf(k, n).lineage = NULL
                  /\ KeyRowAsOf(k, n).from = 0
                  /\ KeyRowAsOf(k, n).to = 0
  <2>1. lineage_keys[k] \in KeyRow
    BY DEF OriginTypeOK
  <2>2. lineage_keys[k].from \in Nat /\ lineage_keys[k].to \in Nat
    BY <2>1 DEF KeyRow
  <2>3. AsOf(lineage_keys[k].to, n) \in Nat
    BY <2>2 DEF AsOf
  <2>4. CASE lineage_keys[k].from <= n
    <3>1. KeyRowAsOf(k, n) = [lineage_keys[k] EXCEPT !.to = AsOf(lineage_keys[k].to, n)]
      BY <2>4 DEF KeyRowAsOf
    <3>2. /\ KeyRowAsOf(k, n) \in KeyRow
          /\ KeyRowAsOf(k, n).lineage = lineage_keys[k].lineage
          /\ KeyRowAsOf(k, n).from = lineage_keys[k].from
          /\ KeyRowAsOf(k, n).to = AsOf(lineage_keys[k].to, n)
      BY <3>1, <2>1, <2>3, RowUpdates
    <3>. QED
      BY <3>2, <2>2, <2>4 DEF AsOf
  <2>5. CASE ~ (lineage_keys[k].from <= n)
    BY <2>2, <2>5, RowUpdates DEF KeyRowAsOf, NoKeyRow
  <2>. QED
    BY <2>4, <2>5
<1>2. ASSUME NEW d \in Delegations
      PROVE  /\ DelegationRowAsOf(d, n) \in DelegationRow
             /\ delegations[d].registered \in Nat /\ delegations[d].revoked \in Nat
             /\ DelegationRowAsOf(d, n).registered =
                   IF delegations[d].registered <= n THEN delegations[d].registered ELSE 0
             /\ DelegationRowAsOf(d, n).revoked =
                   IF delegations[d].revoked <= n THEN delegations[d].revoked ELSE 0
  BY DEF OriginTypeOK, DelegationRow, DelegationRowAsOf, AsOf
<1>. QED
  BY <1>1, <1>2, SMTT(20)

\* Rows with equal fields are equal.
LEMMA RowsEqual ==
    /\ \A r, q \in KeyRow :
          r.lineage = q.lineage /\ r.from = q.from /\ r.to = q.to => r = q
    /\ \A r, q \in DelegationRow :
          r.registered = q.registered /\ r.revoked = q.revoked => r = q
BY DEF KeyRow, DelegationRow

\* Importing one event leaves every table well typed.
LEMMA ImportType ==
    ASSUME TypeOK, ImportEvent
    PROVE  TypeOK' /\ events[cursor + 1].doc \in Documents
<1> DEFINE n == cursor + 1
<1> DEFINE doc == events[n].doc
<1>1. /\ n \in Nat /\ n \in 1 .. current_head /\ cursor' = n
      /\ current_head \in Nat
  BY DEF TypeOK, OriginTypeOK, ImportEvent, current_head
<1>2. doc \in Documents
  BY <1>1, LogEntries DEF TypeOK
<1>3. OriginTypeOK' /\ current_head' = current_head
  BY DEF ImportEvent, originvars, dbvars, TypeOK, OriginTypeOK, current_head
<1>4. /\ federated_lineages' \in [Lineages -> Keys \cup {NULL}]
      /\ federated_lineage_keys' \in [Keys -> KeyRow]
      /\ federated_delegations' \in [Delegations -> DelegationRow]
  <2>0. ProjectRemote(doc, n)
    BY SMTT(20) DEF ImportEvent
  <2>1. CASE doc \in RegistrationDocs /\ ProjectLineage(doc, n)
    BY <2>1, <1>1, DocFields, LineageIdType, SMTT(20) DEF ProjectLineage, TypeOK, KeyRow
  <2>2. CASE doc \in DelegationDocs /\ ProjectDelegation(doc, n)
    BY <2>2, <1>1, DocFields, Zenon DEF ProjectDelegation, TypeOK, DelegationRow
  <2>3. CASE doc \in RevocationDocs /\ ProjectRevocation(doc, n)
    <3>1. doc.delegation \in Delegations
      BY <2>3, DocFields, Zenon
    <3>2. federated_delegations' = [federated_delegations EXCEPT ![doc.delegation] =
              [federated_delegations[doc.delegation] EXCEPT !.revoked = n]]
      BY <2>3, <3>1 DEF ProjectRevocation, TypeOK
    <3>3. [federated_delegations[doc.delegation] EXCEPT !.revoked = n] \in DelegationRow
      BY <3>1, <1>1, RowUpdates DEF TypeOK
    <3>. QED
      BY <2>3, <3>1, <3>2, <3>3, SMTT(20) DEF ProjectRevocation, TypeOK
  <2>4. CASE doc \in RotationDocs /\ ProjectRotation(doc, n)
    <3>1. doc.lineage \in Lineages /\ doc.new \in Keys
      BY <2>4, DocFields
    <3>2. [lineage |-> doc.lineage, from |-> n, to |-> 0] \in KeyRow
      BY <3>1, <1>1 DEF KeyRow
    <3>3. \A k \in Keys : /\ federated_lineage_keys[k] \in KeyRow
                          /\ [federated_lineage_keys[k] EXCEPT !.to = n] \in KeyRow
      BY <1>1, RowUpdates DEF TypeOK
    <3>4. \A d \in Delegations :
             /\ federated_delegations[d] \in DelegationRow
             /\ [federated_delegations[d] EXCEPT !.revoked = n] \in DelegationRow
      BY <1>1, RowUpdates DEF TypeOK
    <3>5. federated_lineage_keys' \in [Keys -> KeyRow]
      BY <2>4, <3>2, <3>3 DEF ProjectRotation
    <3>6. federated_delegations' \in [Delegations -> DelegationRow]
      BY <2>4, <3>4 DEF ProjectRotation
    <3>. QED
      BY <2>4, <3>1, <3>5, <3>6 DEF ProjectRotation, TypeOK
  <2>5. CASE UNCHANGED fedtables
    BY <2>5 DEF fedtables, TypeOK
  <2>. QED
    BY <2>0, <2>1, <2>2, <2>3, <2>4, <2>5 DEF ProjectRemote
<1>. QED
  BY <1>1, <1>2, <1>3, <1>4 DEF TypeOK

\* Between imports the origin's tables as of the cursor do not change, since
\* rows advance only beyond the head.
LEMMA OriginKeepsReplay ==
    ASSUME TypeOK, TypeOK', TablesExplained, ReplayAgrees, RowsAdvance, UNCHANGED fedvars
    PROVE  ReplayAgrees'
<1>1. /\ cursor \in Nat /\ current_head \in Nat /\ cursor <= current_head
      /\ cursor' = cursor
      /\ federated_lineages' = federated_lineages
      /\ federated_lineage_keys' = federated_lineage_keys
      /\ federated_delegations' = federated_delegations
  BY DEF TypeOK, OriginTypeOK, current_head, fedvars, fedtables
<1>2. OriginTypeOK /\ OriginTypeOK'
  BY DEF TypeOK
<1>3. \A k \in Keys : lineage_keys[k].from \in Nat /\ lineage_keys[k].to \in Nat
  BY <1>2, SMTT(20) DEF OriginTypeOK, KeyRow
<1>4. ASSUME NEW k \in Keys
      PROVE  KeyRowAsOf(k, cursor)' = KeyRowAsOf(k, cursor)
  <2>1. CASE lineage_keys'[k] = lineage_keys[k]
    BY <2>1, <1>1 DEF KeyRowAsOf
  <2>2. CASE /\ lineage_keys[k] = NoKeyRow
             /\ lineage_keys'[k].from = current_head + 1
    BY <2>2, <1>1 DEF KeyRowAsOf, NoKeyRow, AsOf
  <2>3. CASE /\ lineage_keys'[k].lineage = lineage_keys[k].lineage
             /\ lineage_keys'[k].from = lineage_keys[k].from
             /\ lineage_keys[k].to = 0
             /\ lineage_keys'[k].to = current_head + 1
    <3>1. KeyRowAsOf(k, cursor) \in KeyRow
      BY <1>1, <1>2, AsOfFacts, SMTT(20)
    <3>2. CASE lineage_keys[k].from <= cursor
      <4>1. /\ KeyRowAsOf(k, cursor).lineage = lineage_keys[k].lineage
            /\ KeyRowAsOf(k, cursor).from = lineage_keys[k].from
            /\ KeyRowAsOf(k, cursor).to = 0
        BY <3>2, <2>3, <1>1, <1>2, AsOfFacts, Zenon
      <4>2. /\ KeyRowAsOf(k, cursor)' \in KeyRow
            /\ (KeyRowAsOf(k, cursor)').lineage = lineage_keys[k].lineage
            /\ (KeyRowAsOf(k, cursor)').from = lineage_keys[k].from
            /\ (KeyRowAsOf(k, cursor)').to = 0
        <5>1. lineage_keys'[k] \in KeyRow
          BY <1>2 DEF OriginTypeOK
        <5>2. KeyRowAsOf(k, cursor)' = [lineage_keys'[k] EXCEPT !.to = 0]
          BY <3>2, <2>3, <1>1 DEF KeyRowAsOf, AsOf
        <5>. QED
          BY <5>1, <5>2, <2>3, RowUpdates
      <4>. QED
        BY <3>1, <4>1, <4>2, RowsEqual
    <3>3. CASE ~ (lineage_keys[k].from <= cursor)
      BY <3>3, <2>3, <1>1, SMTT(20) DEF KeyRowAsOf
    <3>. QED
      BY <3>2, <3>3, SMTT(20)
  <2>. QED
    BY <2>1, <2>2, <2>3 DEF RowsAdvance, KeyRowAdvances
<1>5. ASSUME NEW k \in Keys, NEW l \in Lineages
      PROVE  InForceAt(k, l, cursor)' <=> InForceAt(k, l, cursor)
  BY <1>1, <1>3, NullAssumption, SMTT(20) DEF RowsAdvance, KeyRowAdvances, InForceAt, NoKeyRow
<1>6. ASSUME NEW d \in Delegations
      PROVE  DelegationRowAsOf(d, cursor)' = DelegationRowAsOf(d, cursor)
  BY <1>1, SMTT(20) DEF RowsAdvance, DelegationRowAdvances, DelegationRowAsOf, AsOf
<1>. QED
  BY <1>1, <1>4, <1>5, <1>6 DEF ReplayAgrees

\* Importing the next event brings the importer to the origin's tables as of
\* the next sequence number: the rows that carry that number are exactly the
\* ones the event wrote.
LEMMA ImportKeepsReplay ==
    ASSUME TypeOK, TypeOK', TablesExplained, ReplayAgrees, ImportEvent
    PROVE  ReplayAgrees'
<1> DEFINE n == cursor + 1
<1> DEFINE doc == events[n].doc
<1>1. /\ cursor \in Nat /\ n \in Nat /\ n \in 1 .. current_head /\ cursor' = n
      /\ OriginTypeOK /\ OriginTypeOK'
      /\ lineage_keys' = lineage_keys /\ delegations' = delegations
  BY DEF TypeOK, OriginTypeOK, ImportEvent, current_head, originvars, dbvars
<1>2. doc \in Documents
  BY <1>1, LogEntries
<1>3. /\ \A k \in Keys : KeyRowAsOf(k, cursor)' = KeyRowAsOf(k, n)
      /\ \A k \in Keys, l \in Lineages : InForceAt(k, l, cursor)' <=> InForceAt(k, l, n)
      /\ \A d \in Delegations : DelegationRowAsOf(d, cursor)' = DelegationRowAsOf(d, n)
  BY <1>1 DEF KeyRowAsOf, InForceAt, DelegationRowAsOf
<1>4. RemoteAdmits(events[n], n) /\ ProjectRemote(doc, n)
  BY SMTT(20) DEF ImportEvent
<1>5. \A k \in Keys : /\ lineage_keys[k].from \in Nat /\ lineage_keys[k].to \in Nat
                      /\ lineage_keys[k] \in KeyRow
                      /\ federated_lineage_keys[k] = KeyRowAsOf(k, cursor)
  BY <1>1, SMTT(20) DEF OriginTypeOK, KeyRow, ReplayAgrees
<1>6. \A d \in Delegations :
         /\ delegations[d].registered \in Nat /\ delegations[d].revoked \in Nat
         /\ federated_delegations[d] = DelegationRowAsOf(d, cursor)
  BY <1>1, SMTT(20) DEF OriginTypeOK, DelegationRow, ReplayAgrees
<1>7. ASSUME NEW k \in Keys
      PROVE  /\ lineage_keys[k].from = n =>
                  \/ doc \in RegistrationDocs /\ doc.key = k
                  \/ doc \in RotationDocs /\ doc.new = k
             /\ lineage_keys[k].to = n =>
                  /\ doc \in RotationDocs /\ lineage_keys[k].lineage = doc.lineage
                  /\ lineage_keys[k].from < n
  BY <1>1 DEF TablesExplained, KeyRowsExplained, KeyRowExplained
<1>8. ASSUME NEW k \in Keys, lineage_keys[k].from # n, lineage_keys[k].to # n
      PROVE  /\ KeyRowAsOf(k, n) = KeyRowAsOf(k, cursor)
             /\ \A l \in Lineages : InForceAt(k, l, n) <=> InForceAt(k, l, cursor)
  <2>1. /\ lineage_keys[k].from <= n <=> lineage_keys[k].from <= cursor
        /\ lineage_keys[k].to <= n <=> lineage_keys[k].to <= cursor
        /\ n < lineage_keys[k].to <=> cursor < lineage_keys[k].to
    BY <1>1, <1>5, <1>8, SMTT(20)
  <2>. QED
    BY <2>1, SMTT(20) DEF KeyRowAsOf, InForceAt, AsOf
<1>9. ASSUME NEW k \in Keys, NEW l \in Lineages
      PROVE  federated_lineages[l] = k <=> InForceAt(k, l, cursor)
  BY DEF ReplayAgrees
<1>10. ASSUME NEW k \in Keys, lineage_keys[k].from = n
       PROVE  /\ lineage_keys[k].to = 0 \/ n < lineage_keys[k].to
              /\ ~ (lineage_keys[k].from <= cursor)
              /\ \A l \in Lineages : ~ InForceAt(k, l, cursor)
              /\ \A l \in Lineages : InForceAt(k, l, n) <=> lineage_keys[k].lineage = l
              /\ KeyRowAsOf(k, n) =
                    [lineage |-> lineage_keys[k].lineage, from |-> n, to |-> 0]
  <2>1. lineage_keys[k].to = 0 \/ n < lineage_keys[k].to
    BY <1>1, <1>5, <1>10, SMTT(20) DEF TablesExplained, KeyRowsExplained, KeyRowExplained
  <2>2. /\ ~ (lineage_keys[k].from <= cursor)
        /\ \A l \in Lineages : ~ InForceAt(k, l, cursor)
        /\ \A l \in Lineages : InForceAt(k, l, n) <=> lineage_keys[k].lineage = l
    BY <2>1, <1>1, <1>5, <1>10, SMTT(20) DEF InForceAt
  <2>3. /\ KeyRowAsOf(k, n) \in KeyRow
        /\ KeyRowAsOf(k, n).lineage = lineage_keys[k].lineage
        /\ KeyRowAsOf(k, n).from = n
        /\ KeyRowAsOf(k, n).to = 0
    BY <2>1, <1>1, <1>5, <1>10, AsOfFacts, SMTT(20)
  <2>. QED
    BY <2>1, <2>2, <2>3, SMTT(20) DEF KeyRow
<1> HIDE DEF n, doc
<1>11. /\ \A k \in Keys : federated_lineage_keys'[k] = KeyRowAsOf(k, n)
       /\ \A l \in Lineages, k \in Keys : federated_lineages'[l] = k <=> InForceAt(k, l, n)
  <2>1. CASE doc \in RegistrationDocs
    <3>1. /\ ProjectLineage(doc, n) /\ LineageAdmitted(doc)
          /\ doc.key \in Keys /\ lineage_id(doc.key) \in Lineages
          /\ doc \notin RotationDocs
      BY <2>1, <1>4, DocFields, LineageIdType, Zenon DEF ProjectRemote, RemoteAdmits, doc
    <3>2. /\ lineage_keys[doc.key].from = n
          /\ lineage_keys[doc.key].lineage = lineage_id(doc.key)
      BY <2>1, <1>1, Zenon DEF TablesExplained, KeyEventsApplied, KeyEventApplied, doc
    <3>3. \A k \in Keys : k # doc.key => lineage_keys[k].from # n /\ lineage_keys[k].to # n
      BY <3>1, <1>7
    <3>4. lineage_keys[doc.key].to # n
      BY <3>1, <1>7, SMTT(20)
    <3>5. \A k \in Keys : federated_lineage_keys'[k] = KeyRowAsOf(k, n)
      BY <3>1, <3>2, <3>3, <1>5, <1>8, <1>10, ZenonT(30) DEF ProjectLineage, TypeOK
    <3>6. ASSUME NEW l \in Lineages, NEW k \in Keys
          PROVE  federated_lineages'[l] = k <=> InForceAt(k, l, n)
      <4>1. federated_lineages[lineage_id(doc.key)] = NULL
        BY <3>1 DEF LineageAdmitted
      <4>2. federated_lineages'[l] =
               IF l = lineage_id(doc.key) THEN doc.key ELSE federated_lineages[l]
        BY <3>1 DEF ProjectLineage, TypeOK
      <4>3. CASE k = doc.key
        BY <4>2, <4>3, <3>2, <1>9, <1>10, Zenon
      <4>4. CASE k # doc.key
        BY <4>1, <4>2, <4>4, <3>1, <3>3, <1>8, <1>9, NullAssumption, SMTT(20)
      <4>. QED
        BY <4>3, <4>4
    <3>. QED
      BY <3>5, <3>6, SMTT(20)
  <2>2. CASE doc \in RotationDocs
    <3>1. /\ ProjectRotation(doc, n)
          /\ doc.new \in Keys /\ doc.lineage \in Lineages
          /\ doc \notin RegistrationDocs
      BY <2>2, <1>4, DocFields, SMTT(20) DEF ProjectRemote
    <3>2. /\ lineage_keys[doc.new].from = n
          /\ lineage_keys[doc.new].lineage = doc.lineage
      BY <2>2, <1>1 DEF TablesExplained, KeyEventsApplied, KeyEventApplied, doc
    <3>3. \A k \in Keys : k # doc.new => lineage_keys[k].from # n
      BY <3>1, <1>7, SMTT(20)
    <3>4. ASSUME NEW k \in Keys, lineage_keys[k].lineage = doc.lineage,
                 lineage_keys[k].from < n
          PROVE  lineage_keys[k].to # 0 /\ lineage_keys[k].to <= n
      BY <3>4, <2>2, <1>1 DEF TablesExplained, KeyEventsApplied, KeyEventApplied, doc
    <3>5. ASSUME NEW k \in Keys
          PROVE  federated_lineage_keys'[k] = KeyRowAsOf(k, n)
      <4>1. federated_lineage_keys'[k] =
               IF k = doc.new
               THEN [lineage |-> doc.lineage, from |-> n, to |-> 0]
               ELSE IF /\ federated_lineage_keys[k].lineage = doc.lineage
                       /\ federated_lineage_keys[k].to = 0
               THEN [federated_lineage_keys[k] EXCEPT !.to = n]
               ELSE federated_lineage_keys[k]
        BY <3>1 DEF ProjectRotation
      <4>2. CASE k = doc.new
        BY <4>1, <4>2, <3>2, <1>10
      <4>3. CASE k # doc.new /\ lineage_keys[k].to = n
        <5>1. lineage_keys[k].lineage = doc.lineage /\ lineage_keys[k].from <= cursor
          BY <4>3, <1>1, <1>5, <1>7, SMTT(20) DEF n
        <5>2. /\ federated_lineage_keys[k] \in KeyRow
              /\ federated_lineage_keys[k].lineage = doc.lineage
              /\ federated_lineage_keys[k].from = lineage_keys[k].from
              /\ federated_lineage_keys[k].to = 0
          BY <5>1, <4>3, <1>1, <1>5, AsOfFacts DEF n
        <5>3. /\ federated_lineage_keys'[k] \in KeyRow
              /\ federated_lineage_keys'[k].lineage = lineage_keys[k].lineage
              /\ federated_lineage_keys'[k].from = lineage_keys[k].from
              /\ federated_lineage_keys'[k].to = n
          BY <5>1, <5>2, <4>1, <4>3, <1>1, RowUpdates, SMTT(20)
        <5>4. /\ KeyRowAsOf(k, n) \in KeyRow
              /\ KeyRowAsOf(k, n).lineage = lineage_keys[k].lineage
              /\ KeyRowAsOf(k, n).from = lineage_keys[k].from
              /\ KeyRowAsOf(k, n).to = n
          BY <5>1, <4>3, <1>1, <1>5, AsOfFacts DEF n
        <5>. QED
          BY <5>3, <5>4, RowsEqual, SMTT(20)
      <4>4. CASE k # doc.new /\ lineage_keys[k].to # n
        <5>1. KeyRowAsOf(k, n) = federated_lineage_keys[k]
          BY <4>4, <3>3, <1>5, <1>8
        <5>2. ~ ( /\ federated_lineage_keys[k].lineage = doc.lineage
                  /\ federated_lineage_keys[k].to = 0 )
          <6>1. CASE lineage_keys[k].from <= cursor
            <7>1. lineage_keys[k].from < n
              BY <6>1, <1>1, <1>5, SMTT(20) DEF n
            <7>2. /\ federated_lineage_keys[k].lineage = lineage_keys[k].lineage
                  /\ federated_lineage_keys[k].to =
                        IF lineage_keys[k].to <= cursor THEN lineage_keys[k].to ELSE 0
              BY <6>1, <1>1, <1>5, AsOfFacts, SMTT(20)
            <7>. QED
              BY <7>1, <7>2, <4>4, <3>4, <1>1, <1>5 DEF n
          <6>2. CASE ~ (lineage_keys[k].from <= cursor)
            BY <6>2, <3>1, <1>1, <1>5, AsOfFacts, NullAssumption, SMTT(20)
          <6>. QED
            BY <6>1, <6>2, SMTT(20)
        <5>. QED
          BY <5>1, <5>2, <4>1, <4>4, SMTT(20)
      <4>. QED
        BY <4>2, <4>3, <4>4
    <3>6. ASSUME NEW l \in Lineages, NEW k \in Keys
          PROVE  federated_lineages'[l] = k <=> InForceAt(k, l, n)
      <4>1. federated_lineages'[l] =
               IF l = doc.lineage THEN doc.new ELSE federated_lineages[l]
        BY <3>1, SMTT(20) DEF ProjectRotation, TypeOK
      <4>2. CASE k = doc.new
        BY <4>1, <4>2, <3>2, <1>9, <1>10, SMTT(20)
      <4>3. CASE k # doc.new /\ l = doc.lineage
        BY <4>1, <4>3, <3>3, <3>4, <1>1, <1>5 DEF InForceAt
      <4>4. CASE k # doc.new /\ l # doc.lineage
        <5>1. CASE lineage_keys[k].to = n
          BY <5>1, <4>1, <4>4, <1>7, <1>9, SMTT(20) DEF InForceAt
        <5>2. CASE lineage_keys[k].to # n
          BY <5>2, <4>1, <4>4, <3>3, <1>8, <1>9, SMTT(20)
        <5>. QED
          BY <5>1, <5>2, SMTT(20)
      <4>. QED
        BY <4>2, <4>3, <4>4
    <3>. QED
      BY <3>5, <3>6, SMTT(20)
  <2>3. CASE doc \notin RegistrationDocs /\ doc \notin RotationDocs
    <3>1. /\ federated_lineages' = federated_lineages
          /\ federated_lineage_keys' = federated_lineage_keys
      BY <2>3, <1>4 DEF ProjectRemote, ProjectDelegation, ProjectRevocation, fedtables
    <3>2. \A k \in Keys : lineage_keys[k].from # n /\ lineage_keys[k].to # n
      BY <2>3, <1>7
    <3>. QED
      BY <3>1, <3>2, <1>5, <1>8, <1>9
  <2>. QED
    BY <2>1, <2>2, <2>3, SMTT(20)
<1>12. \A d \in Delegations : federated_delegations'[d] = DelegationRowAsOf(d, n)
  <2> SUFFICES ASSUME NEW d \in Delegations
               PROVE  federated_delegations'[d] = DelegationRowAsOf(d, n)
    BY SMTT(20)
  <2>1. /\ delegations[d].registered = n => doc \in DelegationDocs /\ doc.delegation = d
        /\ delegations[d].revoked = n =>
              /\ delegations[d].registered # 0
              /\ delegations[d].registered < n
              /\ \/ doc \in RevocationDocs /\ doc.delegation = d
                 \/ /\ doc \in RotationDocs
                    /\ doc.revoke_existing /\ doc.lineage = Grant[d].lineage
        /\ delegations[d].revoked # 0 =>
              delegations[d].registered # 0 /\ delegations[d].registered < delegations[d].revoked
    BY <1>1 DEF TablesExplained, DelegationRowsExplained, DelegationRowExplained, doc
  <2>2. ASSUME delegations[d].registered # n, delegations[d].revoked # n
        PROVE  DelegationRowAsOf(d, n) = federated_delegations[d]
    <3>1. /\ delegations[d].registered <= n <=> delegations[d].registered <= cursor
          /\ delegations[d].revoked <= n <=> delegations[d].revoked <= cursor
      BY <2>2, <1>1, <1>6, SMTT(20) DEF n
    <3>. QED
      BY <3>1, <1>6 DEF DelegationRowAsOf, AsOf
  <2>3. ASSUME delegations[d].registered = n
        PROVE  DelegationRowAsOf(d, n) = [registered |-> n, revoked |-> 0]
    <3>1. /\ delegations[d].registered <= n
          /\ delegations[d].revoked = 0 \/ ~ (delegations[d].revoked <= n)
      BY <2>1, <2>3, <1>1, <1>6
    <3>2. AsOf(delegations[d].registered, n) = n /\ AsOf(delegations[d].revoked, n) = 0
      BY <3>1, <2>3, <1>1 DEF AsOf
    <3>. QED
      BY <3>2 DEF DelegationRowAsOf
  <2>4. ASSUME delegations[d].revoked = n
        PROVE  /\ DelegationRowAsOf(d, n) = [federated_delegations[d] EXCEPT !.revoked = n]
               /\ federated_delegations[d].registered # 0
               /\ federated_delegations[d].revoked = 0
    <3>1. /\ federated_delegations[d] \in DelegationRow
          /\ federated_delegations[d].registered = delegations[d].registered
          /\ federated_delegations[d].revoked = 0
      BY <2>1, <2>4, <1>1, <1>6, AsOfFacts, SMTT(20) DEF n
    <3>2. /\ DelegationRowAsOf(d, n) \in DelegationRow
          /\ DelegationRowAsOf(d, n).registered = delegations[d].registered
          /\ DelegationRowAsOf(d, n).revoked = n
      BY <2>1, <2>4, <1>1, <1>6, AsOfFacts
    <3>3. LET row == [federated_delegations[d] EXCEPT !.revoked = n]
          IN  /\ row \in DelegationRow
              /\ row.registered = delegations[d].registered
              /\ row.revoked = n
      BY <3>1, <1>1, RowUpdates
    <3>4. DelegationRowAsOf(d, n) = [federated_delegations[d] EXCEPT !.revoked = n]
      BY <3>2, <3>3, RowsEqual, Zenon
    <3>. QED
      BY <3>1, <3>4, <2>1, <2>4, SMTT(20)
  <2>5. CASE doc \in DelegationDocs
    <3>1. /\ ProjectDelegation(doc, n) /\ doc.delegation \in Delegations
          /\ doc \notin RevocationDocs /\ doc \notin RotationDocs
      BY <2>5, <1>4, DocFields, Zenon DEF ProjectRemote
    <3>2. delegations[doc.delegation].registered = n
      BY <2>5, <1>1, Zenon DEF TablesExplained, DelegationEventsApplied, DelegationEventApplied, doc
    <3>. QED
      BY <3>1, <3>2, <2>1, <2>2, <2>3, Zenon DEF ProjectDelegation, TypeOK
  <2>6. CASE doc \in RevocationDocs
    <3>1. /\ ProjectRevocation(doc, n) /\ doc.delegation \in Delegations
          /\ doc \notin DelegationDocs /\ doc \notin RotationDocs
      BY <2>6, <1>4, DocFields, SMTT(20) DEF ProjectRemote
    <3>2. delegations[doc.delegation].revoked = n
      BY <2>6, <1>1 DEF TablesExplained, DelegationEventsApplied, DelegationEventApplied, doc
    <3>3. federated_delegations' = [federated_delegations EXCEPT ![doc.delegation] =
              [federated_delegations[doc.delegation] EXCEPT !.revoked = n]]
      BY <3>1 DEF ProjectRevocation, TypeOK
    <3>. QED
      BY <3>1, <3>2, <3>3, <2>1, <2>2, <2>4, SMTT(20) DEF TypeOK
  <2>7. CASE doc \in RotationDocs
    <3>1. /\ ProjectRotation(doc, n)
          /\ doc \notin DelegationDocs /\ doc \notin RevocationDocs
      BY <2>7, <1>4, DocFields DEF ProjectRemote
    <3>2. federated_delegations'[d] =
             IF /\ doc.revoke_existing
                /\ federated_delegations[d].registered # 0
                /\ Grant[d].lineage = doc.lineage
                /\ federated_delegations[d].revoked = 0
             THEN [federated_delegations[d] EXCEPT !.revoked = n]
             ELSE federated_delegations[d]
      BY <3>1 DEF ProjectRotation
    <3>3. CASE delegations[d].revoked = n
      BY <3>1, <3>2, <3>3, <2>1, <2>4
    <3>4. CASE delegations[d].revoked # n
      <4>1. DelegationRowAsOf(d, n) = federated_delegations[d]
        BY <3>1, <3>4, <2>1, <2>2, SMTT(20)
      <4>2. ~ ( /\ doc.revoke_existing
                /\ federated_delegations[d].registered # 0
                /\ Grant[d].lineage = doc.lineage
                /\ federated_delegations[d].revoked = 0 )
        <5>1. /\ federated_delegations[d].registered # 0 =>
                    delegations[d].registered # 0 /\ delegations[d].registered < n
              /\ federated_delegations[d].revoked = 0 =>
                    delegations[d].revoked = 0 \/ ~ (delegations[d].revoked <= cursor)
          BY <1>1, <1>6, AsOfFacts, SMTT(20) DEF n
        <5>2. ASSUME doc.revoke_existing, Grant[d].lineage = doc.lineage,
                     delegations[d].registered # 0, delegations[d].registered < n
              PROVE  delegations[d].revoked # 0 /\ delegations[d].revoked <= n
          BY <5>2, <2>7, <1>1, SMTT(20)
             DEF TablesExplained, DelegationEventsApplied, DelegationEventApplied, doc
        <5>. QED
          BY <5>1, <5>2, <3>4, <1>1, <1>6, SMTT(20) DEF n
      <4>. QED
        BY <4>1, <4>2, <3>2, SMTT(20)
    <3>. QED
      BY <3>3, <3>4, SMTT(20)
  <2>8. CASE doc \notin DelegationDocs /\ doc \notin RevocationDocs /\ doc \notin RotationDocs
    <3>1. federated_delegations' = federated_delegations
      BY <2>8, <1>4 DEF ProjectRemote, ProjectLineage, fedtables
    <3>. QED
      BY <3>1, <2>1, <2>2, <2>8
  <2>. QED
    BY <2>5, <2>6, <2>7, <2>8
<1>. QED
  BY <1>1, <1>3, <1>11, <1>12, Zenon DEF ReplayAgrees

-----------------------------------------------------------------------------
(* The invariants.                                                         *)

ReplayInv == TypeOK /\ TablesExplained /\ ReplayAgrees

\* The empty tables agree with the empty replay.
LEMMA InitReplay == Init => ReplayInv
<1> SUFFICES ASSUME Init PROVE ReplayInv
  OBVIOUS
<1>1. TypeOK /\ TablesExplained
  BY InitType, InitExplained
<1>2. ReplayAgrees
  BY NullAssumption DEF Init, OriginInit, ReplayAgrees, KeyRowAsOf, DelegationRowAsOf, AsOf,
                        InForceAt, NoKeyRow, NoDelegationRow
<1>. QED
  BY <1>1, <1>2 DEF ReplayInv

\* Every step of the origin and of the importer keeps the invariant.
LEMMA NextReplay == ReplayInv /\ [Next]_vars => ReplayInv'
<1> SUFFICES ASSUME ReplayInv, [Next]_vars PROVE ReplayInv'
  OBVIOUS
<1>0. TypeOK /\ OriginTypeOK /\ TablesExplained /\ ReplayAgrees
  BY DEF ReplayInv, TypeOK
<1>1. CASE OriginNext /\ UNCHANGED fedvars
  <2>1. /\ OriginTypeOK' /\ TablesExplained' /\ RowsAdvance
        /\ current_head \in Nat
        /\ current_head' = current_head \/ current_head' = current_head + 1
    BY <1>0, <1>1, OriginStep
  <2>2. TypeOK'
    <3>1. cursor' \in 0 .. current_head'
      BY <1>0, <1>1, <2>1 DEF TypeOK, fedvars
    <3>. QED
      BY <1>0, <1>1, <2>1, <3>1 DEF TypeOK, fedvars, fedtables
  <2>3. ReplayAgrees'
    BY <1>0, <1>1, <2>1, <2>2, OriginKeepsReplay
  <2>. QED
    BY <2>1, <2>2, <2>3 DEF ReplayInv
<1>2. CASE ImportEvent
  <2>1. TypeOK'
    BY <1>0, <1>2, ImportType
  <2>2. TablesExplained'
    <3>1. UNCHANGED dbvars
      BY <1>2 DEF ImportEvent, originvars, dbvars
    <3>. QED
      BY <1>0, <3>1, UnchangedExplained
  <2>3. ReplayAgrees'
    BY <1>0, <1>2, <2>1, ImportKeepsReplay
  <2>. QED
    BY <2>1, <2>2, <2>3 DEF ReplayInv
<1>3. CASE UNCHANGED vars
  <2>1. UNCHANGED <<now, events, lineages, lineage_keys, delegations, acknowledgements, pending,
                    cursor, federated_lineages, federated_lineage_keys, federated_delegations>>
    BY <1>3 DEF vars, originvars, dbvars, fedvars, fedtables
  <2>2. TypeOK'
    BY <1>0, <2>1 DEF TypeOK, OriginTypeOK, current_head
  <2>3. TablesExplained'
    <3>1. UNCHANGED dbvars
      BY <2>1 DEF dbvars
    <3>. QED
      BY <1>0, <3>1, UnchangedExplained
  <2>4. ReplayAgrees'
    BY <1>0, <2>1 DEF ReplayAgrees, KeyRowAsOf, DelegationRowAsOf, InForceAt
  <2>. QED
    BY <2>2, <2>3, <2>4 DEF ReplayInv
<1>. QED
  BY <1>1, <1>2, <1>3 DEF Next

\* The invariant holds in every reachable state.
LEMMA ReplayInvariant == Spec => []ReplayInv
BY InitReplay, NextReplay, PTL DEF Spec

\* Every reachable state of the origin and the importer is well typed: in
\* particular the importer's cursor never passes the origin's head.
THEOREM TypeCorrect == Spec => []TypeOK
BY ReplayInvariant, PTL DEF ReplayInv

\* Every row of the key and delegation tables carries the number of the event
\* that wrote it, and every authority event in the log has left its mark.
THEOREM TablesExplainedAlways == Spec => []TablesExplained
BY ReplayInvariant, PTL DEF ReplayInv

\* validate_and_project_remote_event rebuilds the origin's key history and
\* delegation states exactly, from the log alone.
THEOREM ReplayIsExact == Spec => []ReplayAgrees
BY ReplayInvariant, PTL DEF ReplayInv

-----------------------------------------------------------------------------
(* Key eras.                                                               *)

\* The lineage's current key is the one in force at the head.
LEMMA CurrentKeyInForce ==
    ASSUME OriginTypeOK, TablesExplained, NEW l \in Lineages, NEW k \in Keys
    PROVE  lineages[l] = k <=> InForceAt(k, l, current_head)
<1>1. /\ lineage_keys[k].from \in Nat /\ lineage_keys[k].to \in Nat
      /\ current_head \in Nat
  BY DEF OriginTypeOK, KeyRow, current_head
<1>2. lineage_keys[k].lineage = l => lineage_keys[k].from # 0
  BY NullAssumption DEF TablesExplained, KeyRowsExplained, KeyRowExplained, NoKeyRow
<1>. QED
  BY <1>1, <1>2 DEF TablesExplained, KeyRowsExplained, KeyRowExplained, CurrentKeyIsOpen, InForceAt

ErasInv == ReplayInv /\ KeyErasPartition

\* No number is taken in the empty log.
LEMMA InitEras == Init => ErasInv
<1> SUFFICES ASSUME Init PROVE ErasInv
  OBVIOUS
<1>1. ReplayInv
  BY InitReplay
<1>2. current_head = 0
  BY DEF Init, OriginInit, current_head
<1>3. KeyErasPartition
  BY <1>1, <1>2, CurrentKeyInForce DEF ReplayInv, TypeOK, KeyErasPartition
<1>. QED
  BY <1>1, <1>3 DEF ErasInv

\* One step on key eras: earlier numbers keep their eras, and a new number at
\* the head is governed by the current key.
LEMMA StepEras ==
    ASSUME ErasInv, ReplayInv', RowsAdvance,
           current_head' = current_head \/ current_head' = current_head + 1
    PROVE  KeyErasPartition'
<1>1. /\ current_head \in Nat
      /\ OriginTypeOK /\ OriginTypeOK' /\ TablesExplained /\ TablesExplained'
      /\ \A k \in Keys : /\ lineage_keys[k].from \in Nat /\ lineage_keys[k].to \in Nat
                         /\ lineage_keys'[k].from \in Nat /\ lineage_keys'[k].to \in Nat
  BY SMTT(20) DEF ErasInv, ReplayInv, TypeOK, OriginTypeOK, KeyRow, current_head
<1> SUFFICES ASSUME NEW l \in Lineages PROVE KeyErasPartition!(l)'
  BY DEF KeyErasPartition
<1>2. \A k \in Keys :
         lineages'[l] = k <=> /\ lineage_keys'[k].lineage = l
                              /\ lineage_keys'[k].to = 0
  BY <1>1, Zenon DEF TablesExplained, CurrentKeyIsOpen
<1>3. \A k \in Keys : /\ lineage_keys'[k].from <= current_head'
                      /\ lineage_keys'[k].to <= current_head'
                      /\ lineage_keys'[k].lineage = l => lineage_keys'[k].from # 0
  BY <1>1, NullAssumption DEF TablesExplained, KeyRowsExplained, KeyRowExplained, NoKeyRow
<1>4. \A k \in Keys : lineages'[l] = k <=> InForceAt(k, l, current_head)'
  BY <1>1, <1>2, <1>3 DEF InForceAt
<1>5. ASSUME NEW n \in 1 .. current_head'
      PROVE  \/ \E k \in Keys :
                   /\ InForceAt(k, l, n)'
                   /\ \A j \in Keys : InForceAt(j, l, n)' => j = k
             \/ \A k \in Keys : lineage_keys'[k].lineage = l => n < lineage_keys'[k].from
  <2>1. CASE n \in 1 .. current_head
    <3>1. \A k \in Keys : InForceAt(k, l, n)' <=> InForceAt(k, l, n)
      BY <2>1, <1>1, NullAssumption DEF RowsAdvance, KeyRowAdvances, InForceAt, NoKeyRow
    <3>2. \A k \in Keys : (lineage_keys[k].lineage = l => n < lineage_keys[k].from) =>
                          (lineage_keys'[k].lineage = l => n < lineage_keys'[k].from)
      BY <2>1, <1>1 DEF RowsAdvance, KeyRowAdvances
    <3>. QED
      BY <2>1, <3>1, <3>2 DEF ErasInv, KeyErasPartition
  <2>2. CASE n = current_head'
    <3>1. CASE lineages'[l] \in Keys
      BY <2>2, <3>1, <1>4 DEF InForceAt
    <3>2. CASE lineages'[l] = NULL
      BY <3>2, <1>1 DEF TablesExplained, CurrentKeyIsOpen
    <3>. QED
      BY <3>1, <3>2, <1>1 DEF OriginTypeOK
  <2>. QED
    BY <2>1, <2>2, <1>1
<1>. QED
  BY <1>4, <1>5

\* Key eras stay a partition whatever step is taken.
LEMMA NextEras == ErasInv /\ [Next]_vars => ErasInv'
<1> SUFFICES ASSUME ErasInv, [Next]_vars PROVE ErasInv'
  OBVIOUS
<1>0. ReplayInv /\ OriginTypeOK /\ TablesExplained
  BY DEF ErasInv, ReplayInv, TypeOK
<1>1. ReplayInv'
  BY <1>0, NextReplay
<1>2. CASE OriginNext
  BY <1>0, <1>1, <1>2, OriginStep, StepEras DEF ErasInv
<1>3. CASE ImportEvent \/ UNCHANGED vars
  <2>1. UNCHANGED <<events, lineages, lineage_keys, delegations>>
    BY <1>3 DEF ImportEvent, vars, originvars, dbvars
  <2>2. RowsAdvance /\ current_head' = current_head
    BY <2>1 DEF RowsAdvance, KeyRowAdvances, DelegationRowAdvances, current_head
  <2>. QED
    BY <1>1, <2>2, StepEras DEF ErasInv
<1>. QED
  BY <1>2, <1>3 DEF Next

\* Key eras of a lineage partition the log from its registration on, whatever
\* registrations and rotations race (register_lineage, rotate_lineage_key).
THEOREM KeyErasAlwaysPartition == Spec => []KeyErasPartition
<1>1. ErasInv => KeyErasPartition
  BY DEF ErasInv
<1>. QED
  BY InitEras, NextEras, <1>1, PTL DEF Spec

-----------------------------------------------------------------------------
(* Authority only advances.                                                *)

\* What a transaction does to the acknowledged cursors.
LEMMA CommittingAcks ==
    ASSUME OriginTypeOK, NEW t \in Threads, Committing(t)
    PROVE  \/ /\ acknowledgements' = acknowledgements
              /\ pending[t] \in ClientDocs \ AcknowledgementDocs
           \/ append_acknowledgement(t)
BY DocFields, SMTT(20) DEF Committing, register_lineage, register_delegation, revoke_delegation,
                 rotate_lineage_key, append_contribution, ClientDocs

\* The log after a step: unchanged, or one event longer.  A rotation that is
\* appended names the current key.
LEMMA OriginLog ==
    ASSUME OriginTypeOK, OriginNext
    PROVE  \/ events' = events
           \/ \E doc \in Documents :
                 /\ append_event(doc)
                 /\ doc \in RotationDocs => lineages[doc.lineage] = doc.previous
<1>1. ASSUME NEW t \in Threads, Committing(t)
      PROVE  append_event(pending[t]) /\ pending[t] \in Documents
  BY <1>1 DEF Committing, register_lineage, register_delegation, revoke_delegation,
              rotate_lineage_key, append_contribution, append_acknowledgement, ClientDocs, Documents
<1>r. ASSUME NEW t \in Threads, Committing(t), pending[t] \in RotationDocs
      PROVE  lineages[pending[t].lineage] = pending[t].previous
  <2>1. rotate_lineage_key(t)
    BY <1>r, DocFields DEF Committing, register_lineage, register_delegation, revoke_delegation,
                           append_contribution, append_acknowledgement
  <2>. QED
    BY <2>1 DEF rotate_lineage_key, RotationAdvances
<1>2. AppendNodeEvent => \E doc \in NodeDocs : append_event(doc) /\ doc \notin RotationDocs
  BY DocFields DEF AppendNodeEvent, NodeDocs
<1>3. ASSUME NEW t \in Threads, NEW doc \in Submittable, PassServiceChecks(t, doc)
      PROVE  events' = events
  BY <1>3 DEF PassServiceChecks, dbvars
<1>4. ASSUME NEW t \in Threads, RollBack(t)
      PROVE  events' = events
  BY <1>4 DEF RollBack, dbvars
<1>5. Crash \/ Tick => events' = events
  BY DEF Crash, Tick, dbvars
<1>. QED
  BY <1>1, <1>r, <1>2, <1>3, <1>4, <1>5 DEF OriginNext, Documents

\* Appending leaves what was in the log where it was.
LEMMA AppendKeepsPrefix ==
    ASSUME OriginTypeOK, NEW doc \in Documents, append_event(doc)
    PROVE  SubSeq(events', 1, Len(events)) = events
<1> DEFINE entry == [doc |-> doc, received |-> now]
<1>1. events \in Seq([doc : Documents, received : Time])
      /\ entry \in [doc : Documents, received : Time]
  BY DEF OriginTypeOK
<1>2. ASSUME NEW S, NEW s \in Seq(S), NEW x \in S
      PROVE  SubSeq(Append(s, x), 1, Len(s)) = s
  OBVIOUS
<1>. QED
  BY <1>1, <1>2 DEF append_event

\* No transaction moves an acknowledged cursor back.
LEMMA AcksAdvance ==
    ASSUME OriginTypeOK, OriginNext
    PROVE  \A l \in Lineages : acknowledgements'[l] >= acknowledgements[l]
<1>h. /\ current_head \in Nat
      /\ \A l \in Lineages : acknowledgements[l] \in Nat
  BY SMTT(20) DEF OriginTypeOK, current_head
<1>1. ASSUME NEW t \in Threads, append_acknowledgement(t), NEW l \in Lineages
      PROVE  acknowledgements'[l] >= acknowledgements[l]
  <2>1. /\ pending[t].cursor \in Nat
        /\ Grant[pending[t].delegation].lineage \in Lineages
    BY <1>1, DocFields, GrantAssumption DEF append_acknowledgement
  <2>2. effective_cursor(pending[t]) >= acknowledgements[Grant[pending[t].delegation].lineage]
    BY <1>1, <1>h, <2>1
       DEF append_acknowledgement, CursorAdmissible, effective_cursor, AcceptedSequence
  <2>. QED
    BY <1>1, <1>h, <2>1, <2>2 DEF append_acknowledgement, OriginTypeOK
<1>2. ASSUME acknowledgements' = acknowledgements
      PROVE  \A l \in Lineages : acknowledgements'[l] >= acknowledgements[l]
  BY <1>2, <1>h
<1>3. ASSUME NEW t \in Threads, NEW doc \in Submittable, PassServiceChecks(t, doc)
      PROVE  acknowledgements' = acknowledgements
  BY <1>3 DEF PassServiceChecks, dbvars
<1>4. ASSUME NEW t \in Threads, RollBack(t)
      PROVE  acknowledgements' = acknowledgements
  BY <1>4 DEF RollBack, dbvars
<1>5. AppendNodeEvent \/ Crash \/ Tick => acknowledgements' = acknowledgements
  BY DEF AppendNodeEvent, Crash, Tick, dbvars
<1>. QED
  BY <1>1, <1>2, <1>3, <1>4, <1>5, CommittingAcks DEF OriginNext

\* A revocation is never undone or re-dated, a closed key era never reopened, an
\* acknowledged cursor never moved back and a logged event never rewritten.
THEOREM AuthorityAlwaysAdvances == Spec => AuthorityOnlyAdvances
<1> DEFINE Advance ==
      /\ \A d \in Delegations : delegations[d].revoked # 0 => delegations'[d] = delegations[d]
      /\ \A k \in Keys : lineage_keys[k].to # 0 => lineage_keys'[k] = lineage_keys[k]
      /\ \A l \in Lineages : acknowledgements'[l] >= acknowledgements[l]
      /\ SubSeq(events', 1, Len(events)) = events
<1>1. ReplayInv /\ [Next]_vars => [Advance]_vars
  <2> SUFFICES ASSUME ReplayInv, Next PROVE Advance
    OBVIOUS
  <2>0. OriginTypeOK /\ TablesExplained
    BY DEF ReplayInv, TypeOK
  <2>s. events' = events => SubSeq(events', 1, Len(events)) = events
    <3>1. ASSUME NEW S, NEW s \in Seq(S) PROVE SubSeq(s, 1, Len(s)) = s
      OBVIOUS
    <3>. QED
      BY <2>0, <3>1 DEF OriginTypeOK
  <2>1. CASE OriginNext
    <3>1. RowsAdvance
      BY <2>0, <2>1, OriginStep
    <3>2. \A d \in Delegations : delegations[d].revoked # 0 => delegations'[d] = delegations[d]
      BY <3>1 DEF RowsAdvance, DelegationRowAdvances
    <3>3. \A k \in Keys : lineage_keys[k].to # 0 => lineage_keys'[k] = lineage_keys[k]
      BY <3>1 DEF RowsAdvance, KeyRowAdvances, NoKeyRow
    <3>4. \A l \in Lineages : acknowledgements'[l] >= acknowledgements[l]
      BY <2>0, <2>1, AcksAdvance
    <3>5. SubSeq(events', 1, Len(events)) = events
      BY <2>0, <2>1, <2>s, OriginLog, AppendKeepsPrefix
    <3>. QED
      BY <3>2, <3>3, <3>4, <3>5
  <2>2. CASE ImportEvent
    <3>1. UNCHANGED <<events, delegations, lineage_keys, acknowledgements>>
      BY <2>2 DEF ImportEvent, originvars, dbvars
    <3>. QED
      BY <3>1, <2>0, <2>s DEF OriginTypeOK
  <2>. QED
    BY <2>1, <2>2 DEF Next
<1>. QED
  BY ReplayInvariant, <1>1, PTL DEF Spec, AuthorityOnlyAdvances

-----------------------------------------------------------------------------
(* Rotations form a chain.                                                 *)

\* A key's being in force at a number within the log is settled for good.
LEMMA InForceStays ==
    ASSUME OriginTypeOK, OriginTypeOK', RowsAdvance, current_head \in Nat,
           NEW l \in Lineages, NEW k \in Keys, NEW n \in 0 .. current_head, InForceAt(k, l, n)
    PROVE  InForceAt(k, l, n)'
<1>1. /\ lineage_keys[k].from \in Nat /\ lineage_keys[k].to \in Nat
      /\ lineage_keys'[k].from \in Nat /\ lineage_keys'[k].to \in Nat
  BY DEF OriginTypeOK, KeyRow
<1>2. KeyRowAdvances(k)
  BY DEF RowsAdvance
<1>3. lineage_keys[k] # NoKeyRow
  BY DEF InForceAt, NoKeyRow
<1>. QED
  BY <1>1, <1>2, <1>3 DEF KeyRowAdvances, InForceAt

ChainInv == ReplayInv /\ RotationsChain

\* A rotation that commits retires the key in force at the head.
LEMMA NextChain == ChainInv /\ [Next]_vars => ChainInv'
<1> SUFFICES ASSUME ChainInv, [Next]_vars PROVE ChainInv'
  OBVIOUS
<1>0. /\ ReplayInv /\ ReplayInv' /\ OriginTypeOK /\ OriginTypeOK' /\ TablesExplained
      /\ RotationsChain /\ current_head \in Nat
  BY NextReplay DEF ChainInv, ReplayInv, TypeOK, OriginTypeOK, current_head
<1>1. CASE OriginNext
  <2>1. RowsAdvance
    BY <1>0, <1>1, OriginStep
  <2>2. ASSUME NEW n \in 1 .. current_head, events[n].doc \in RotationDocs
        PROVE  InForceAt(events[n].doc.previous, events[n].doc.lineage, n - 1)'
    <3>1. PICK l \in Lineages, k \in Keys : l = events[n].doc.lineage /\ k = events[n].doc.previous
      BY <2>2, DocFields
    <3>2. InForceAt(k, l, n - 1) /\ n - 1 \in 0 .. current_head
      BY <1>0, <2>2, <3>1 DEF RotationsChain
    <3>3. InForceAt(k, l, n - 1)'
      BY <1>0, <2>1, <3>2, InForceStays
    <3>4. events'[n] = events[n]
      BY <1>0, <1>1, OriginStep
    <3>. QED
      BY <3>1, <3>3, <3>4
  <2>3. CASE events' = events
    <3>1. current_head' = current_head
      BY <2>3 DEF current_head
    <3>. QED
      BY <1>0, <2>2, <2>3, <3>1 DEF ChainInv, RotationsChain
  <2>4. ASSUME NEW doc \in Documents, append_event(doc),
               doc \in RotationDocs => lineages[doc.lineage] = doc.previous
        PROVE  RotationsChain'
    <3>1. /\ current_head' = current_head + 1
          /\ \A n \in 1 .. current_head : events'[n] = events[n]
          /\ events'[current_head + 1].doc = doc
      BY <1>0, <2>4, AppendFacts, Zenon
    <3>h. PICK h \in Nat : h = current_head
      BY <1>0
    <3>2. ASSUME doc \in RotationDocs
          PROVE  InForceAt(doc.previous, doc.lineage, h)'
      <4>0. doc.previous \in Keys /\ doc.lineage \in Lineages /\ h \in 0 .. current_head
        BY <3>2, <3>h, DocFields
      <4>1. InForceAt(doc.previous, doc.lineage, h)
        BY <1>0, <2>4, <3>2, <3>h, <4>0, CurrentKeyInForce
      <4>. QED
        BY <1>0, <2>1, <4>0, <4>1, InForceStays
    <3> SUFFICES ASSUME NEW n \in 1 .. current_head', events'[n].doc \in RotationDocs
                 PROVE  InForceAt(events[n].doc.previous, events[n].doc.lineage, n - 1)'
      BY DEF RotationsChain
    <3>3. CASE n \in 1 .. current_head
      BY <2>2, <3>1, <3>3
    <3>4. CASE n = current_head + 1
      <4>1. n - 1 = h /\ events'[n].doc = doc
        BY <3>1, <3>4, <3>h, SMTT(20)
      <4>. QED
        BY <3>2, <4>1
    <3>. QED
      BY <1>0, <3>1, <3>3, <3>4
  <2>. QED
    BY <1>0, <1>1, <2>3, <2>4, OriginLog DEF ChainInv
<1>2. CASE ImportEvent \/ UNCHANGED vars
  <2>1. UNCHANGED <<events, lineage_keys>>
    BY <1>2 DEF ImportEvent, vars, originvars, dbvars
  <2>2. current_head' = current_head
    BY <2>1 DEF current_head
  <2>. QED
    BY <1>0, <2>1, <2>2 DEF ChainInv, RotationsChain, InForceAt
<1>. QED
  BY <1>1, <1>2 DEF Next

\* The key a logged rotation retires was in force just before it, though several
\* rotations may have passed the service checks against the same key: the
\* transaction of rotate_lineage_key compares it again.
THEOREM RotationsAlwaysChain == Spec => []RotationsChain
<1>1. Init => ChainInv
  <2>1. Init => current_head = 0
    BY DEF Init, OriginInit, current_head
  <2>. QED
    BY <2>1, InitReplay DEF ChainInv, RotationsChain
<1>2. ChainInv => RotationsChain
  BY DEF ChainInv
<1>. QED
  BY <1>1, <1>2, NextChain, PTL DEF Spec

-----------------------------------------------------------------------------
(* Acknowledged cursors.                                                   *)

AckInv == ReplayInv /\ AckConsumesOnlyItself

\* Acknowledged cursors stay explained by the last acknowledgement.
LEMMA NextAck == AckInv /\ [Next]_vars => AckInv'
<1> SUFFICES ASSUME AckInv, [Next]_vars PROVE AckInv'
  OBVIOUS
<1>0. /\ ReplayInv /\ ReplayInv' /\ TypeOK /\ OriginTypeOK /\ AckConsumesOnlyItself
      /\ current_head \in Nat
  BY NextReplay DEF AckInv, ReplayInv, TypeOK, OriginTypeOK, current_head
<1>1. ASSUME UNCHANGED <<events, acknowledgements>>
      PROVE  AckConsumesOnlyItself'
  <2>1. current_head' = current_head
    BY <1>1 DEF current_head
  <2>2. \A n \in 1 .. current_head : previous_effective(n)' = previous_effective(n)
    BY <1>1 DEF previous_effective
  <2>. QED
    BY <1>0, <1>1, <2>1, <2>2, SMTT(30) DEF AckConsumesOnlyItself
<1>2. ASSUME NEW doc \in Documents \ AcknowledgementDocs, append_event(doc),
             acknowledgements' = acknowledgements
      PROVE  AckConsumesOnlyItself'
  <2>1. /\ current_head' = current_head + 1
        /\ \A n \in 1 .. current_head : events'[n] = events[n]
        /\ events'[current_head + 1].doc = doc
    BY <1>0, <1>2, AppendFacts, Zenon
  <2> SUFFICES ASSUME NEW l \in Lineages, acknowledgements[l] # 0
               PROVE  AckConsumesOnlyItself!(l)'
    BY <1>2 DEF AckConsumesOnlyItself
  <2>2. PICK n \in 1 .. current_head :
               /\ events[n].doc \in AcknowledgementDocs
               /\ Grant[events[n].doc.delegation].lineage = l
               /\ acknowledgements[l] = previous_effective(n)
               /\ \A m \in n + 1 .. current_head :
                     events[m].doc \in AcknowledgementDocs =>
                         Grant[events[m].doc.delegation].lineage # l
    BY <1>0 DEF AckConsumesOnlyItself
  <2>3. previous_effective(n)' = previous_effective(n)
    BY <2>1, Zenon DEF previous_effective
  <2>4. ASSUME NEW m \in n + 1 .. current_head', events'[m].doc \in AcknowledgementDocs
        PROVE  Grant[events'[m].doc.delegation].lineage # l
    BY <2>1, <2>2, <2>4, <1>0, <1>2, SMTT(20)
  <2>5. n \in 1 .. current_head'
    BY <2>1, <1>0, SMTT(20)
  <2>. QED
    BY <2>1, <2>2, <2>3, <2>4, <2>5, <1>2
<1>3. ASSUME NEW t \in Threads, append_acknowledgement(t)
      PROVE  AckConsumesOnlyItself'
  <2> DEFINE doc == pending[t]
  <2> DEFINE own == Grant[doc.delegation].lineage
  <2>0. /\ doc \in AcknowledgementDocs /\ doc \in Documents
        /\ doc.cursor \in Nat /\ own \in Lineages
    BY <1>3, DocFields, GrantAssumption DEF append_acknowledgement, Documents, ClientDocs
  <2>1. /\ current_head' = current_head + 1
        /\ \A n \in 1 .. current_head : events'[n] = events[n]
        /\ events'[current_head + 1].doc = doc
    BY <1>0, <1>3, <2>0, AppendFacts, ZenonT(30) DEF append_acknowledgement
  <2>2. /\ acknowledgements'[own] = effective_cursor(doc)
        /\ \A l \in Lineages : l # own => acknowledgements'[l] = acknowledgements[l]
    BY <1>0, <1>3, <2>0 DEF append_acknowledgement, OriginTypeOK
  <2> HIDE DEF doc
  <2> SUFFICES ASSUME NEW l \in Lineages, acknowledgements'[l] # 0
               PROVE  AckConsumesOnlyItself!(l)'
    BY DEF AckConsumesOnlyItself
  <2>3. CASE l = own
    <3>1. PICK n \in Nat : n = current_head + 1
      BY <1>0
    <3>2. events'[n].doc = doc
      BY <2>1, <3>1
    <3>3. previous_effective(n)' = effective_cursor(doc)
      BY <1>0, <2>0, <3>1, <3>2 DEF previous_effective, effective_cursor, AcceptedSequence
    <3>4. n \in 1 .. current_head' /\ n + 1 .. current_head' = {}
      BY <1>0, <2>1, <3>1, SMTT(20)
    <3>. QED
      BY <2>0, <2>2, <2>3, <3>2, <3>3, <3>4
  <2>4. CASE l # own
    <3>1. PICK n \in 1 .. current_head :
               /\ events[n].doc \in AcknowledgementDocs
               /\ Grant[events[n].doc.delegation].lineage = l
               /\ acknowledgements[l] = previous_effective(n)
               /\ \A m \in n + 1 .. current_head :
                     events[m].doc \in AcknowledgementDocs =>
                         Grant[events[m].doc.delegation].lineage # l
      BY <1>0, <2>2, <2>4 DEF AckConsumesOnlyItself
    <3>2. previous_effective(n)' = previous_effective(n)
      BY <2>1 DEF previous_effective
    <3>3. ASSUME NEW m \in n + 1 .. current_head', events'[m].doc \in AcknowledgementDocs
          PROVE  Grant[events'[m].doc.delegation].lineage # l
      BY <2>1, <2>4, <3>1, <3>3, <1>0
    <3>4. n \in 1 .. current_head'
      BY <2>1, <1>0
    <3>. QED
      BY <2>1, <2>2, <2>4, <3>1, <3>2, <3>3, <3>4, Zenon
  <2>. QED
    BY <2>3, <2>4, Zenon
<1>4. ASSUME NEW t \in Threads, Committing(t)
      PROVE  AckConsumesOnlyItself'
  <2>1. append_event(pending[t])
    BY <1>4 DEF Committing, register_lineage, register_delegation, revoke_delegation,
                rotate_lineage_key, append_contribution, append_acknowledgement
  <2>. QED
    BY <2>1, <1>0, <1>2, <1>3, <1>4, CommittingAcks DEF Documents
<1>5. ASSUME AppendNodeEvent
      PROVE  AckConsumesOnlyItself'
  <2>1. [kind |-> "node_event"] \in NodeDocs
    BY DEF NodeDocs
  <2>2. [kind |-> "node_event"] \in Documents \ AcknowledgementDocs
    BY <2>1, DocFields DEF Documents
  <2>. QED
    BY <2>2, <1>2, <1>5 DEF AppendNodeEvent
<1>6. ASSUME NEW t \in Threads, NEW doc \in Submittable, PassServiceChecks(t, doc)
      PROVE  UNCHANGED <<events, acknowledgements>>
  BY <1>6 DEF PassServiceChecks, dbvars
<1>7. ASSUME NEW t \in Threads, RollBack(t)
      PROVE  UNCHANGED <<events, acknowledgements>>
  BY <1>7 DEF RollBack, dbvars
<1>8. Crash \/ Tick \/ ImportEvent \/ UNCHANGED vars => UNCHANGED <<events, acknowledgements>>
  BY DEF Crash, Tick, ImportEvent, vars, originvars, dbvars
<1>9. AckConsumesOnlyItself'
  BY <1>1, <1>4, <1>5, <1>6, <1>7, <1>8 DEF Next, OriginNext
<1>. QED
  BY <1>0, <1>9, SMTT(20) DEF AckInv

\* A lineage's acknowledged cursor is what its latest acknowledgement event
\* declares, plus at most that event itself (append_acknowledgement).
THEOREM AckAlwaysConsumesOnlyItself == Spec => []AckConsumesOnlyItself
<1>1. Init => AckInv
  <2>1. Init => AckConsumesOnlyItself
    BY DEF Init, OriginInit, AckConsumesOnlyItself
  <2>. QED
    BY <2>1, InitReplay DEF AckInv
<1>2. AckInv => AckConsumesOnlyItself
  BY DEF AckInv
<1>. QED
  BY NextAck, <1>1, <1>2, PTL DEF Spec

=============================================================================
