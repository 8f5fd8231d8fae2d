-------------------------- MODULE AuthorityTables ---------------------------
(***************************************************************************)
(* Proofs about LineageAuthority and the inductive invariant of            *)
(* AuthorityReplay, for every set of keys, delegations and threads and     *)
(* every bound: the origin's steps keep its tables typed and explained by  *)
(* its log, and change a row only by numbers beyond the head.              *)
(***************************************************************************)
EXTENDS AuthorityReplay, TLAPS

\* A lineage id is one of the lineage ids.
LEMMA LineageIdType == \A k \in Keys : lineage_id(k) \in Lineages
BY DEF Lineages

\* The fields of a document of each kind.
LEMMA DocFields ==
    /\ \A doc \in RegistrationDocs :
          doc.kind = "lineage_registered" /\ doc.key \in Keys
    /\ \A doc \in DelegationDocs :
          doc.kind = "delegation_registered" /\ doc.delegation \in Delegations /\ doc.signer \in Keys
    /\ \A doc \in RevocationDocs :
          /\ doc.kind = "delegation_revoked" /\ doc.lineage \in Lineages
          /\ doc.delegation \in Delegations /\ doc.signer \in Keys
    /\ \A doc \in RotationDocs :
          /\ doc.kind = "lineage_key_rotated" /\ doc.lineage \in Lineages
          /\ doc.previous \in Keys /\ doc.new \in Keys /\ doc.revoke_existing \in BOOLEAN
    /\ \A doc \in ContributionDocs :
          /\ doc.kind = "contribution" /\ doc.delegation \in Delegations
          /\ doc.created_at \in Time
    /\ \A doc \in AcknowledgementDocs :
          /\ doc.kind = "acknowledgement" /\ doc.delegation \in Delegations
          /\ doc.created_at \in Time /\ doc.cursor \in Nat
    /\ \A doc \in NodeDocs : doc.kind = "node_event"
BY DEF RegistrationDocs, DelegationDocs, RevocationDocs, RotationDocs,
       ContributionDocs, AcknowledgementDocs, NodeDocs

\* What append_event does to the log.
LEMMA AppendFacts ==
    ASSUME OriginTypeOK, NEW doc \in Documents, append_event(doc)
    PROVE  /\ events' \in Seq([doc : Documents, received : Time])
           /\ current_head \in Nat
           /\ current_head' = current_head + 1
           /\ \A n \in 1 .. current_head : events'[n] = events[n]
           /\ events'[current_head + 1] = [doc |-> doc, received |-> now]
           /\ events'[current_head + 1].doc = doc
BY DEF OriginTypeOK, append_event, current_head

\* An element of a sequence over a set is in the set.
LEMMA ElementInSet ==
    ASSUME NEW S, NEW s \in Seq(S), NEW n \in 1 .. Len(s)
    PROVE  s[n] \in S
OBVIOUS

\* What is in the log.
LEMMA LogEntries ==
    ASSUME OriginTypeOK, NEW n \in 1 .. current_head
    PROVE  events[n].doc \in Documents /\ events[n].received \in Time
<1>1. events[n] \in [doc : Documents, received : Time]
  BY ElementInSet, Zenon DEF OriginTypeOK, current_head
<1>. QED
  BY <1>1

\* Setting one column of a row.
LEMMA RowUpdates ==
    /\ \A row \in DelegationRow, n \in Nat :
          /\ [row EXCEPT !.revoked = n] \in DelegationRow
          /\ [row EXCEPT !.revoked = n].registered = row.registered
          /\ [row EXCEPT !.revoked = n].revoked = n
    /\ \A row \in KeyRow, n \in Nat :
          /\ [row EXCEPT !.to = n] \in KeyRow
          /\ [row EXCEPT !.to = n].lineage = row.lineage
          /\ [row EXCEPT !.to = n].from = row.from
          /\ [row EXCEPT !.to = n].to = n
    /\ NoKeyRow \in KeyRow
    /\ NoDelegationRow \in DelegationRow
BY DEF DelegationRow, KeyRow, NoKeyRow, NoDelegationRow

\* The initial state is well typed.
LEMMA InitType == Init => TypeOK
BY BoundsAssumption
   DEF Init, TypeOK, OriginInit, OriginTypeOK, NoKeyRow, KeyRow, NoDelegationRow,
       DelegationRow, Time, current_head

\* Each transaction leaves the origin's tables well typed and appends one event.
LEMMA CommittingType ==
    ASSUME OriginTypeOK, NEW t \in Threads, Committing(t)
    PROVE  OriginTypeOK' /\ current_head \in Nat /\ current_head' = current_head + 1
<1> USE BoundsAssumption
<1> DEFINE doc == pending[t]
<1>0. /\ now' = now
      /\ pending' = [pending EXCEPT ![t] = NULL]
      /\ current_head \in Nat
  BY DEF Committing, register_lineage, register_delegation, revoke_delegation,
         rotate_lineage_key, append_contribution, append_acknowledgement,
         OriginTypeOK, current_head
<1>h. current_head + 1 \in Nat
  BY <1>0
<1>1. pending' \in [Threads -> ClientDocs \cup {NULL}] /\ now' \in Time
  BY <1>0 DEF OriginTypeOK
<1>2. CASE register_lineage(t)
  <2>1. doc \in RegistrationDocs /\ doc \in Documents /\ doc.key \in Keys
    BY <1>2, DocFields DEF register_lineage, Documents, ClientDocs
  <2>2. append_event(doc)
    BY <1>2 DEF register_lineage
  <2>3. lineages' \in [Lineages -> Keys \cup {NULL}]
    BY <1>2, <2>1, LineageIdType DEF register_lineage, OriginTypeOK
  <2>4. lineage_keys' \in [Keys -> KeyRow]
    BY <1>2, <2>1, <1>0, LineageIdType
       DEF register_lineage, OriginTypeOK, KeyRow, AcceptedSequence
  <2>. QED
    BY <1>0, <1>1, <1>2, <2>1, <2>2, <2>3, <2>4, AppendFacts, Zenon
       DEF OriginTypeOK, register_lineage
<1>3. CASE register_delegation(t)
  <2>1. doc \in DelegationDocs /\ doc \in Documents /\ doc.delegation \in Delegations
    BY <1>3, DocFields DEF register_delegation, Documents, ClientDocs
  <2>2. append_event(doc)
    BY <1>3 DEF register_delegation
  <2>3. delegations' \in [Delegations -> DelegationRow]
    BY <1>3, <2>1, <1>0
       DEF register_delegation, OriginTypeOK, DelegationRow, AcceptedSequence
  <2>. QED
    BY <1>0, <1>1, <1>3, <2>1, <2>2, <2>3, AppendFacts, Zenon
       DEF OriginTypeOK, register_delegation
<1>4. CASE revoke_delegation(t)
  <2>1. doc \in RevocationDocs /\ doc \in Documents /\ doc.delegation \in Delegations
    BY <1>4, DocFields DEF revoke_delegation, Documents, ClientDocs
  <2>2. append_event(doc)
    BY <1>4 DEF revoke_delegation
  <2>3. delegations' \in [Delegations -> DelegationRow]
    <3>1. delegations' = [delegations EXCEPT ![doc.delegation] =
                            [delegations[doc.delegation] EXCEPT !.revoked = current_head + 1]]
      BY <1>4, <2>1 DEF revoke_delegation, AcceptedSequence, OriginTypeOK
    <3>2. [delegations[doc.delegation] EXCEPT !.revoked = current_head + 1] \in DelegationRow
      BY <1>h, <2>1, RowUpdates DEF OriginTypeOK
    <3>. QED
      BY <3>1, <3>2, <2>1 DEF OriginTypeOK
  <2>. QED
    BY <1>0, <1>1, <1>4, <2>1, <2>2, <2>3, AppendFacts, Zenon
       DEF OriginTypeOK, revoke_delegation
<1>5. CASE rotate_lineage_key(t)
  <2>1. /\ doc \in RotationDocs /\ doc \in Documents
        /\ doc.lineage \in Lineages /\ doc.new \in Keys
    BY <1>5, DocFields DEF rotate_lineage_key, Documents, ClientDocs
  <2>2. append_event(doc)
    BY <1>5 DEF rotate_lineage_key
  <2>3. lineages' \in [Lineages -> Keys \cup {NULL}]
    BY <1>5, <2>1 DEF rotate_lineage_key, OriginTypeOK
  <2>4. lineage_keys' \in [Keys -> KeyRow]
    <3>1. /\ current_head + 1 \in Nat
          /\ [lineage |-> doc.lineage, from |-> current_head + 1, to |-> 0] \in KeyRow
      BY <1>0, <2>1 DEF KeyRow
    <3>2. \A k \in Keys : /\ lineage_keys[k] \in KeyRow
                          /\ [lineage_keys[k] EXCEPT !.to = current_head + 1] \in KeyRow
      BY <3>1, RowUpdates DEF OriginTypeOK
    <3>. QED
      BY <1>5, <3>1, <3>2 DEF rotate_lineage_key, RotatedKeys, AcceptedSequence
  <2>5. delegations' \in [Delegations -> DelegationRow]
    <3>1. \A d \in Delegations :
             /\ delegations[d] \in DelegationRow
             /\ [delegations[d] EXCEPT !.revoked = current_head + 1] \in DelegationRow
      BY <1>h, RowUpdates DEF OriginTypeOK
    <3>. QED
      BY <1>5, <3>1 DEF rotate_lineage_key, RevokeAll, AcceptedSequence, OriginTypeOK
  <2>. QED
    BY <1>0, <1>1, <1>5, <2>1, <2>2, <2>3, <2>4, <2>5, AppendFacts, Zenon
       DEF OriginTypeOK, rotate_lineage_key
<1>6. CASE append_contribution(t)
  <2>1. doc \in Documents
    BY <1>6 DEF append_contribution, Documents, ClientDocs
  <2>. QED
    BY <1>0, <1>1, <1>6, <2>1, AppendFacts, Zenon DEF OriginTypeOK, append_contribution
<1>7. CASE append_acknowledgement(t)
  <2>1. /\ doc \in Documents /\ doc.delegation \in Delegations
        /\ doc.cursor \in Nat
    BY <1>7, DocFields DEF append_acknowledgement, Documents, ClientDocs
  <2>2. append_event(doc)
    BY <1>7 DEF append_acknowledgement
  <2>3. acknowledgements' \in [Lineages -> Nat]
    BY <1>7, <2>1, <1>0, GrantAssumption
       DEF append_acknowledgement, OriginTypeOK, effective_cursor, AcceptedSequence
  <2>. QED
    BY <1>0, <1>1, <1>7, <2>1, <2>2, <2>3, AppendFacts, Zenon
       DEF OriginTypeOK, append_acknowledgement
<1>. QED
  BY <1>2, <1>3, <1>4, <1>5, <1>6, <1>7 DEF Committing

-----------------------------------------------------------------------------
(* The tables stay explained by the log.                                   *)

\* The empty tables are explained by the empty log.
LEMMA InitExplained == Init => TablesExplained
<1> SUFFICES ASSUME Init PROVE TablesExplained
  OBVIOUS
<1>1. /\ \A k \in Keys : lineage_keys[k] = NoKeyRow
      /\ \A l \in Lineages : lineages[l] = NULL
      /\ \A d \in Delegations : delegations[d] = NoDelegationRow
  BY DEF Init, OriginInit
<1>2. current_head = 0
  BY DEF Init, OriginInit, current_head
<1>3. KeyRowsExplained
  BY <1>1, <1>2 DEF KeyRowsExplained, KeyRowExplained, NoKeyRow
<1>4. KeyEventsApplied /\ DelegationEventsApplied
  BY <1>2 DEF KeyEventsApplied, DelegationEventsApplied
<1>5. CurrentKeyIsOpen
  BY <1>1, NullAssumption DEF CurrentKeyIsOpen, NoKeyRow
<1>6. DelegationRowsExplained
  BY <1>1, <1>2 DEF DelegationRowsExplained, DelegationRowExplained, NoDelegationRow
<1>. QED
  BY <1>3, <1>4, <1>5, <1>6 DEF TablesExplained

\* A row that no transaction touches stays explained while the log grows.
LEMMA KeyRowStays ==
    ASSUME NEW k \in Keys, KeyRowExplained(k), current_head \in Nat,
           lineage_keys[k].from \in Nat, lineage_keys[k].to \in Nat,
           current_head' = current_head + 1,
           \A n \in 1 .. current_head : events'[n] = events[n],
           lineage_keys'[k] = lineage_keys[k]
    PROVE  KeyRowExplained(k)'
<1>1. /\ lineage_keys[k].from # 0 => events'[lineage_keys[k].from] = events[lineage_keys[k].from]
      /\ lineage_keys[k].to # 0 => events'[lineage_keys[k].to] = events[lineage_keys[k].to]
  BY DEF KeyRowExplained
<1>2. lineage_keys[k].from <= current_head' /\ lineage_keys[k].to <= current_head'
  BY DEF KeyRowExplained
<1>. QED
  BY <1>1, <1>2 DEF KeyRowExplained

\* The same of a delegation's row.
LEMMA DelegationRowStays ==
    ASSUME NEW d \in Delegations, DelegationRowExplained(d), current_head \in Nat,
           delegations[d].registered \in Nat, delegations[d].revoked \in Nat,
           current_head' = current_head + 1,
           \A n \in 1 .. current_head : events'[n] = events[n],
           delegations'[d] = delegations[d]
    PROVE  DelegationRowExplained(d)'
<1>1. /\ delegations[d].registered # 0 =>
            events'[delegations[d].registered] = events[delegations[d].registered]
      /\ delegations[d].revoked # 0 =>
            events'[delegations[d].revoked] = events[delegations[d].revoked]
  BY DEF DelegationRowExplained
<1>2. delegations[d].registered <= current_head' /\ delegations[d].revoked <= current_head'
  BY DEF DelegationRowExplained
<1>. QED
  BY <1>1, <1>2 DEF DelegationRowExplained

\* The explanations speak of the origin's tables only.
LEMMA UnchangedExplained ==
    ASSUME TablesExplained, UNCHANGED dbvars
    PROVE  TablesExplained' /\ current_head' = current_head /\ events' = events
<1>1. /\ events' = events /\ lineages' = lineages /\ lineage_keys' = lineage_keys
      /\ delegations' = delegations
  BY DEF dbvars
<1>2. current_head' = current_head
  BY <1>1 DEF current_head
<1>3. KeyRowsExplained'
  BY <1>1, <1>2 DEF TablesExplained, KeyRowsExplained, KeyRowExplained
<1>4. KeyEventsApplied'
  BY <1>1, <1>2 DEF TablesExplained, KeyEventsApplied, KeyEventApplied
<1>5. CurrentKeyIsOpen'
  BY <1>1 DEF TablesExplained, CurrentKeyIsOpen
<1>6. DelegationRowsExplained'
  BY <1>1, <1>2 DEF TablesExplained, DelegationRowsExplained, DelegationRowExplained
<1>7. DelegationEventsApplied'
  BY <1>1, <1>2 DEF TablesExplained, DelegationEventsApplied, DelegationEventApplied
<1>. QED
  BY <1>1, <1>2, <1>3, <1>4, <1>5, <1>6, <1>7 DEF TablesExplained

\* Events without authority leave every explanation as it was.
LEMMA NeutralExplained ==
    ASSUME OriginTypeOK, TablesExplained,
           NEW doc \in ContributionDocs \cup AcknowledgementDocs \cup NodeDocs,
           append_event(doc), UNCHANGED <<lineages, lineage_keys, delegations>>
    PROVE  TablesExplained'
<1>1. doc \in Documents
  BY DEF Documents, ClientDocs
<1>2. /\ current_head \in Nat
      /\ current_head' = current_head + 1
      /\ \A n \in 1 .. current_head : events'[n] = events[n]
      /\ events'[current_head + 1].doc = doc
  BY <1>1, AppendFacts, Zenon
<1>3. /\ doc \notin RegistrationDocs /\ doc \notin RotationDocs
      /\ doc \notin DelegationDocs /\ doc \notin RevocationDocs
  BY DocFields
<1>4. /\ \A k \in Keys : lineage_keys[k].from \in Nat /\ lineage_keys[k].to \in Nat
      /\ \A d \in Delegations : delegations[d].registered \in Nat /\ delegations[d].revoked \in Nat
  BY DEF OriginTypeOK, KeyRow, DelegationRow
<1>5. KeyRowsExplained'
  BY <1>2, <1>4, KeyRowStays DEF TablesExplained, KeyRowsExplained
<1>6. KeyEventsApplied'
  BY <1>2, <1>3 DEF TablesExplained, KeyEventsApplied, KeyEventApplied
<1>7. CurrentKeyIsOpen'
  BY DEF TablesExplained, CurrentKeyIsOpen
<1>8. DelegationRowsExplained'
  BY <1>2, <1>4, DelegationRowStays DEF TablesExplained, DelegationRowsExplained
<1>9. DelegationEventsApplied'
  BY <1>2, <1>3 DEF TablesExplained, DelegationEventsApplied, DelegationEventApplied
<1>. QED
  BY <1>5, <1>6, <1>7, <1>8, <1>9 DEF TablesExplained

\* register_lineage opens the new lineage's first era and explains it.
LEMMA RegisterLineageExplained ==
    ASSUME OriginTypeOK, TablesExplained, NEW t \in Threads, register_lineage(t)
    PROVE  TablesExplained'
<1> DEFINE doc == pending[t]
<1> DEFINE id == lineage_id(doc.key)
<1> DEFINE row == [lineage |-> id, from |-> current_head + 1, to |-> 0]
<1>1. /\ doc \in RegistrationDocs /\ doc \in Documents /\ doc.key \in Keys
      /\ id \in Lineages
      /\ doc \notin RotationDocs /\ doc \notin DelegationDocs /\ doc \notin RevocationDocs
  BY DocFields, LineageIdType DEF register_lineage, Documents, ClientDocs
<1>2. /\ current_head \in Nat
      /\ current_head' = current_head + 1
      /\ \A n \in 1 .. current_head : events'[n] = events[n]
      /\ events'[current_head + 1].doc = doc
  BY <1>1, AppendFacts, Zenon DEF register_lineage
<1>3. /\ \A k \in Keys : lineage_keys[k].from \in Nat /\ lineage_keys[k].to \in Nat
      /\ \A d \in Delegations : delegations[d].registered \in Nat /\ delegations[d].revoked \in Nat
  BY DEF OriginTypeOK, KeyRow, DelegationRow
<1>4. /\ lineage_keys'[doc.key] = row
      /\ \A k \in Keys : k # doc.key => lineage_keys'[k] = lineage_keys[k]
      /\ lineages'[id] = doc.key
      /\ \A l \in Lineages : l # id => lineages'[l] = lineages[l]
      /\ delegations' = delegations
  BY <1>1 DEF register_lineage, OriginTypeOK, AcceptedSequence
<1>5. lineages[id] = NULL /\ lineage_keys[doc.key].from = 0
  BY DEF register_lineage, LineageUnregistered
<1>6. lineage_keys[doc.key] = NoKeyRow
  BY <1>1, <1>5 DEF TablesExplained, KeyRowsExplained, KeyRowExplained
<1> HIDE DEF doc
<1>7. KeyRowsExplained'
  <2> SUFFICES ASSUME NEW k \in Keys
               PROVE  KeyRowExplained(k)'
    BY DEF KeyRowsExplained
  <2>1. CASE k = doc.key
    BY <2>1, <1>1, <1>2, <1>4 DEF KeyRowsExplained, KeyRowExplained
  <2>2. CASE k # doc.key
    BY <2>2, <1>2, <1>3, <1>4, KeyRowStays DEF TablesExplained, KeyRowsExplained
  <2>. QED
    BY <2>1, <2>2
<1>8. KeyEventsApplied'
  <2> SUFFICES ASSUME NEW n \in 1 .. current_head'
               PROVE  KeyEventApplied(n)'
    BY DEF KeyEventsApplied
  <2>1. CASE n = current_head + 1
    BY <2>1, <1>1, <1>2, <1>4 DEF KeyEventApplied
  <2>2. CASE n \in 1 .. current_head
    <3>1. events'[n].doc = events[n].doc
      BY <2>2, <1>2
    <3>2. ASSUME events[n].doc \in RegistrationDocs
          PROVE  /\ lineage_keys'[events[n].doc.key].from = n
                 /\ lineage_keys'[events[n].doc.key].lineage = lineage_id(events[n].doc.key)
      BY <3>2, <2>2, <1>4, <1>5, DocFields DEF TablesExplained, KeyEventsApplied, KeyEventApplied
    <3>3. ASSUME events[n].doc \in RotationDocs
          PROVE  /\ lineage_keys'[events[n].doc.new].from = n
                 /\ lineage_keys'[events[n].doc.new].lineage = events[n].doc.lineage
      BY <3>3, <2>2, <1>4, <1>5, DocFields DEF TablesExplained, KeyEventsApplied, KeyEventApplied
    <3>4. ASSUME events[n].doc \in RotationDocs, NEW k \in Keys,
                 lineage_keys'[k].lineage = events[n].doc.lineage,
                 lineage_keys'[k].from < n
          PROVE  lineage_keys'[k].to # 0 /\ lineage_keys'[k].to <= n
      BY <3>4, <2>2, <1>2, <1>4 DEF TablesExplained, KeyEventsApplied, KeyEventApplied
    <3>. QED
      BY <3>1, <3>2, <3>3, <3>4 DEF KeyEventApplied
  <2>. QED
    BY <2>1, <2>2, <1>2
<1>9. CurrentKeyIsOpen'
  <2> SUFFICES ASSUME NEW l \in Lineages
               PROVE  CurrentKeyIsOpen!(l)'
    BY DEF CurrentKeyIsOpen
  <2>1. CASE l = id
    BY <2>1, <1>1, <1>4, <1>5, NullAssumption DEF TablesExplained, CurrentKeyIsOpen
  <2>2. CASE l # id
    BY <2>2, <1>1, <1>4, <1>6, NullAssumption
       DEF TablesExplained, CurrentKeyIsOpen, NoKeyRow
  <2>. QED
    BY <2>1, <2>2
<1>10. DelegationRowsExplained'
  BY <1>2, <1>3, <1>4, DelegationRowStays DEF TablesExplained, DelegationRowsExplained
<1>11. DelegationEventsApplied'
  BY <1>1, <1>2, <1>4 DEF TablesExplained, DelegationEventsApplied, DelegationEventApplied
<1>. QED
  BY <1>7, <1>8, <1>9, <1>10, <1>11 DEF TablesExplained

\* register_delegation writes the number of its event into the row.
LEMMA RegisterDelegationExplained ==
    ASSUME OriginTypeOK, TablesExplained, NEW t \in Threads, register_delegation(t)
    PROVE  TablesExplained'
<1> DEFINE doc == pending[t]
<1> DEFINE row == [registered |-> current_head + 1, revoked |-> 0]
<1>1. /\ doc \in DelegationDocs /\ doc \in Documents /\ doc.delegation \in Delegations
      /\ doc \notin RegistrationDocs /\ doc \notin RotationDocs /\ doc \notin RevocationDocs
  BY DocFields DEF register_delegation, Documents, ClientDocs
<1>2. /\ current_head \in Nat
      /\ current_head' = current_head + 1
      /\ \A n \in 1 .. current_head : events'[n] = events[n]
      /\ events'[current_head + 1].doc = doc
  BY <1>1, AppendFacts, Zenon DEF register_delegation
<1>3. /\ \A k \in Keys : lineage_keys[k].from \in Nat /\ lineage_keys[k].to \in Nat
      /\ \A d \in Delegations : delegations[d].registered \in Nat /\ delegations[d].revoked \in Nat
  BY DEF OriginTypeOK, KeyRow, DelegationRow
<1>4. /\ delegations'[doc.delegation] = row
      /\ \A d \in Delegations : d # doc.delegation => delegations'[d] = delegations[d]
      /\ lineage_keys' = lineage_keys
      /\ lineages' = lineages
  BY <1>1, SMTT(20) DEF register_delegation, OriginTypeOK, AcceptedSequence
<1>5. delegations[doc.delegation].registered = 0 /\ delegations[doc.delegation].revoked = 0
  BY <1>1
     DEF register_delegation, DelegationUnregistered, TablesExplained, DelegationRowsExplained, DelegationRowExplained
<1> HIDE DEF doc
<1>6. KeyRowsExplained'
  BY <1>2, <1>3, <1>4, KeyRowStays, SMTT(20) DEF TablesExplained, KeyRowsExplained
<1>7. KeyEventsApplied'
  BY <1>1, <1>2, <1>4 DEF TablesExplained, KeyEventsApplied, KeyEventApplied
<1>8. CurrentKeyIsOpen'
  BY <1>4 DEF TablesExplained, CurrentKeyIsOpen
<1>9. DelegationRowsExplained'
  <2> SUFFICES ASSUME NEW d \in Delegations
               PROVE  DelegationRowExplained(d)'
    BY DEF DelegationRowsExplained
  <2>1. CASE d = doc.delegation
    BY <2>1, <1>1, <1>2, <1>4 DEF DelegationRowExplained
  <2>2. CASE d # doc.delegation
    BY <2>2, <1>2, <1>3, <1>4, DelegationRowStays DEF TablesExplained, DelegationRowsExplained
  <2>. QED
    BY <2>1, <2>2
<1>10. DelegationEventsApplied'
  <2> SUFFICES ASSUME NEW n \in 1 .. current_head'
               PROVE  DelegationEventApplied(n)'
    BY DEF DelegationEventsApplied
  <2>1. CASE n = current_head + 1
    BY <2>1, <1>1, <1>2, <1>4 DEF DelegationEventApplied
  <2>2. CASE n \in 1 .. current_head
    <3>1. events'[n].doc = events[n].doc
      BY <2>2, <1>2
    <3>2. ASSUME events[n].doc \in DelegationDocs
          PROVE  delegations'[events[n].doc.delegation].registered = n
      BY <3>2, <2>2, <1>4, <1>5, DocFields
         DEF TablesExplained, DelegationEventsApplied, DelegationEventApplied
    <3>3. ASSUME events[n].doc \in RevocationDocs
          PROVE  delegations'[events[n].doc.delegation].revoked = n
      BY <3>3, <2>2, <1>4, <1>5, DocFields
         DEF TablesExplained, DelegationEventsApplied, DelegationEventApplied
    <3>4. ASSUME events[n].doc \in RotationDocs, events[n].doc.revoke_existing,
                 NEW d \in Delegations, Grant[d].lineage = events[n].doc.lineage,
                 delegations'[d].registered # 0, delegations'[d].registered < n
          PROVE  delegations'[d].revoked # 0 /\ delegations'[d].revoked <= n
      BY <3>4, <2>2, <1>2, <1>4 DEF TablesExplained, DelegationEventsApplied, DelegationEventApplied
    <3>. QED
      BY <3>1, <3>2, <3>3, <3>4 DEF DelegationEventApplied
  <2>. QED
    BY <2>1, <2>2, <1>2
<1>. QED
  BY <1>6, <1>7, <1>8, <1>9, <1>10 DEF TablesExplained

-----------------------------------------------------------------------------
(* Revocations and rotations keep the tables explained by the log.         *)

\* revoke_delegation dates the revocation by its own event.
LEMMA RevokeDelegationExplained ==
    ASSUME OriginTypeOK, TablesExplained, NEW t \in Threads, revoke_delegation(t)
    PROVE  TablesExplained'
<1> DEFINE doc == pending[t]
<1>1. /\ doc \in RevocationDocs /\ doc \in Documents /\ doc.delegation \in Delegations
      /\ doc \notin RegistrationDocs /\ doc \notin RotationDocs /\ doc \notin DelegationDocs
  BY DocFields DEF revoke_delegation, Documents, ClientDocs
<1>2. /\ current_head \in Nat
      /\ current_head' = current_head + 1
      /\ \A n \in 1 .. current_head : events'[n] = events[n]
      /\ events'[current_head + 1].doc = doc
  BY <1>1, AppendFacts, Zenon DEF revoke_delegation
<1>h. current_head + 1 \in Nat
  BY <1>2
<1>3. /\ \A k \in Keys : lineage_keys[k].from \in Nat /\ lineage_keys[k].to \in Nat
      /\ \A d \in Delegations : delegations[d].registered \in Nat /\ delegations[d].revoked \in Nat
  BY DEF OriginTypeOK, KeyRow, DelegationRow
<1>4. /\ delegations'[doc.delegation].registered = delegations[doc.delegation].registered
      /\ delegations'[doc.delegation].revoked = current_head + 1
      /\ \A d \in Delegations : d # doc.delegation => delegations'[d] = delegations[d]
      /\ lineage_keys' = lineage_keys
      /\ lineages' = lineages
  <2>1. delegations' = [delegations EXCEPT ![doc.delegation] =
                            [delegations[doc.delegation] EXCEPT !.revoked = current_head + 1]]
    BY <1>1 DEF revoke_delegation, AcceptedSequence, OriginTypeOK
  <2>2. delegations'[doc.delegation] =
            [delegations[doc.delegation] EXCEPT !.revoked = current_head + 1]
    BY <2>1, <1>1 DEF OriginTypeOK
  <2>3. delegations[doc.delegation] \in DelegationRow
    BY <1>1 DEF OriginTypeOK
  <2>4. /\ delegations'[doc.delegation].registered = delegations[doc.delegation].registered
        /\ delegations'[doc.delegation].revoked = current_head + 1
    BY <2>2, <2>3, <1>h, RowUpdates
  <2>5. \A d \in Delegations : d # doc.delegation => delegations'[d] = delegations[d]
    BY <2>1 DEF OriginTypeOK
  <2>. QED
    BY <2>4, <2>5 DEF revoke_delegation
<1>5. delegations[doc.delegation].registered # 0 /\ delegations[doc.delegation].revoked = 0
  BY DEF revoke_delegation, DelegationRevocable
<1> HIDE DEF doc
<1>6. KeyRowsExplained'
  BY <1>2, <1>3, <1>4, KeyRowStays, SMTT(20) DEF TablesExplained, KeyRowsExplained
<1>7. KeyEventsApplied'
  BY <1>1, <1>2, <1>4 DEF TablesExplained, KeyEventsApplied, KeyEventApplied
<1>8. CurrentKeyIsOpen'
  BY <1>4 DEF TablesExplained, CurrentKeyIsOpen
<1>9. DelegationRowsExplained'
  <2> SUFFICES ASSUME NEW d \in Delegations
               PROVE  DelegationRowExplained(d)'
    BY DEF DelegationRowsExplained
  <2>1. CASE d = doc.delegation
    <3>1. /\ delegations[d].registered <= current_head
          /\ delegations[d].registered \in 1 .. current_head
          /\ events[delegations[d].registered].doc \in DelegationDocs
          /\ events[delegations[d].registered].doc.delegation = d
      BY <2>1, <1>1, <1>2, <1>3, <1>5
         DEF TablesExplained, DelegationRowsExplained, DelegationRowExplained
    <3>2. /\ delegations'[d].registered = delegations[d].registered
          /\ delegations'[d].revoked = current_head + 1
      BY <2>1, <1>4
    <3>. QED
      BY <3>1, <3>2, <2>1, <1>1, <1>2, SMTT(20) DEF DelegationRowExplained
  <2>2. CASE d # doc.delegation
    BY <2>2, <1>2, <1>3, <1>4, DelegationRowStays, SMTT(20) DEF TablesExplained, DelegationRowsExplained
  <2>. QED
    BY <2>1, <2>2
<1>10. DelegationEventsApplied'
  <2> SUFFICES ASSUME NEW n \in 1 .. current_head'
               PROVE  DelegationEventApplied(n)'
    BY DEF DelegationEventsApplied
  <2>1. CASE n = current_head + 1
    BY <2>1, <1>1, <1>2, <1>4, Zenon DEF DelegationEventApplied
  <2>2. CASE n \in 1 .. current_head
    <3>1. events'[n].doc = events[n].doc
      BY <2>2, <1>2
    <3>2. ASSUME events[n].doc \in DelegationDocs
          PROVE  delegations'[events[n].doc.delegation].registered = n
      BY <3>2, <2>2, <1>4, DocFields
         DEF TablesExplained, DelegationEventsApplied, DelegationEventApplied
    <3>3. ASSUME events[n].doc \in RevocationDocs
          PROVE  delegations'[events[n].doc.delegation].revoked = n
      BY <3>3, <2>2, <1>4, <1>5, DocFields
         DEF TablesExplained, DelegationEventsApplied, DelegationEventApplied
    <3>4. ASSUME events[n].doc \in RotationDocs, events[n].doc.revoke_existing,
                 NEW d \in Delegations, Grant[d].lineage = events[n].doc.lineage,
                 delegations'[d].registered # 0, delegations'[d].registered < n
          PROVE  delegations'[d].revoked # 0 /\ delegations'[d].revoked <= n
      BY <3>4, <2>2, <1>4, <1>5, SMTT(20) DEF TablesExplained, DelegationEventsApplied, DelegationEventApplied
    <3>. QED
      BY <3>1, <3>2, <3>3, <3>4 DEF DelegationEventApplied
  <2>. QED
    BY <2>1, <2>2, <1>2
<1>. QED
  BY <1>6, <1>7, <1>8, <1>9, <1>10 DEF TablesExplained

\* rotate_lineage_key closes the open era, opens the next one at its own event,
\* and dates the revocations it makes by that event.
LEMMA RotateLineageKeyExplained ==
    ASSUME OriginTypeOK, TablesExplained, NEW t \in Threads, rotate_lineage_key(t)
    PROVE  TablesExplained'
<1> DEFINE doc == pending[t]
<1> DEFINE Closes(k) == lineage_keys[k].lineage = doc.lineage /\ lineage_keys[k].to = 0
<1> DEFINE Revokes(d) == /\ doc.revoke_existing
                         /\ delegations[d].registered # 0
                         /\ Grant[d].lineage = doc.lineage
                         /\ delegations[d].revoked = 0
<1>1. /\ doc \in RotationDocs /\ doc \in Documents
      /\ doc.lineage \in Lineages /\ doc.previous \in Keys /\ doc.new \in Keys
      /\ doc.revoke_existing \in BOOLEAN
      /\ doc \notin RegistrationDocs /\ doc \notin DelegationDocs /\ doc \notin RevocationDocs
  BY DocFields DEF rotate_lineage_key, Documents, ClientDocs
<1>2. /\ current_head \in Nat
      /\ current_head' = current_head + 1
      /\ \A n \in 1 .. current_head : events'[n] = events[n]
      /\ events'[current_head + 1].doc = doc
  BY <1>1, AppendFacts, Zenon DEF rotate_lineage_key
<1>h. current_head + 1 \in Nat
  BY <1>2
<1>3. /\ \A k \in Keys : /\ lineage_keys[k] \in KeyRow
                         /\ lineage_keys[k].from \in Nat /\ lineage_keys[k].to \in Nat
      /\ \A d \in Delegations : /\ delegations[d] \in DelegationRow
                                /\ delegations[d].registered \in Nat
                                /\ delegations[d].revoked \in Nat
  BY DEF OriginTypeOK, KeyRow, DelegationRow
<1>4. lineages[doc.lineage] = doc.previous /\ lineage_keys[doc.new].from = 0
  BY DEF rotate_lineage_key, RotationAdvances
<1>5. lineage_keys[doc.new] = NoKeyRow
  BY <1>1, <1>4 DEF TablesExplained, KeyRowsExplained, KeyRowExplained
<1>6. /\ lineage_keys'[doc.new] = [lineage |-> doc.lineage, from |-> current_head + 1, to |-> 0]
      /\ \A k \in Keys : k # doc.new /\ ~ Closes(k) => lineage_keys'[k] = lineage_keys[k]
  BY <1>1 DEF rotate_lineage_key, RotatedKeys, AcceptedSequence
<1>7. ASSUME NEW k \in Keys, k # doc.new, Closes(k)
      PROVE  /\ lineage_keys'[k].lineage = doc.lineage
             /\ lineage_keys'[k].from = lineage_keys[k].from
             /\ lineage_keys'[k].to = current_head + 1
  <2>1. lineage_keys'[k] = [lineage_keys[k] EXCEPT !.to = current_head + 1]
    BY <1>7 DEF rotate_lineage_key, RotatedKeys, AcceptedSequence
  <2>. QED
    BY <2>1, <1>3, <1>7, <1>h, RowUpdates
<1>8. /\ lineages'[doc.lineage] = doc.new
      /\ \A l \in Lineages : l # doc.lineage => lineages'[l] = lineages[l]
  BY <1>1 DEF rotate_lineage_key, OriginTypeOK
<1>9. \A d \in Delegations : ~ Revokes(d) => delegations'[d] = delegations[d]
  BY DEF rotate_lineage_key, RevokeAll
<1>10. ASSUME NEW d \in Delegations, Revokes(d)
       PROVE  /\ delegations'[d].registered = delegations[d].registered
              /\ delegations'[d].revoked = current_head + 1
  <2>1. delegations'[d] = [delegations[d] EXCEPT !.revoked = current_head + 1]
    BY <1>10 DEF rotate_lineage_key, RevokeAll, AcceptedSequence
  <2>. QED
    BY <2>1, <1>3, <1>h, RowUpdates
<1> HIDE DEF doc
<1>11. KeyRowsExplained'
  <2> SUFFICES ASSUME NEW k \in Keys
               PROVE  KeyRowExplained(k)'
    BY DEF KeyRowsExplained
  <2>1. CASE k = doc.new
    <3>1. /\ lineage_keys'[k].lineage = doc.lineage
          /\ lineage_keys'[k].from = current_head + 1
          /\ lineage_keys'[k].to = 0
      BY <2>1, <1>6
    <3>2. /\ current_head + 1 <= current_head'
          /\ current_head + 1 # 0
          /\ 0 <= current_head'
      BY <1>2
    <3>. QED
      BY <3>1, <3>2, <2>1, <1>1, <1>2, SMTT(20) DEF KeyRowExplained
  <2>2. CASE k # doc.new /\ ~ Closes(k)
    BY <2>2, <1>2, <1>3, <1>6, KeyRowStays, Zenon DEF TablesExplained, KeyRowsExplained
  <2>3. CASE k # doc.new /\ Closes(k)
    <3>0. KeyRowExplained(k)
      BY SMTT(20) DEF TablesExplained, KeyRowsExplained
    <3>1. lineage_keys[k].from \in 1 .. current_head
      BY <3>0, <2>3, <1>1, <1>2, <1>3, NullAssumption DEF KeyRowExplained, NoKeyRow
    <3>2. events'[lineage_keys[k].from] = events[lineage_keys[k].from]
      BY <3>1, <1>2, SMTT(20)
    <3>3. /\ lineage_keys'[k].lineage = doc.lineage /\ lineage_keys[k].lineage = doc.lineage
          /\ lineage_keys'[k].from = lineage_keys[k].from
          /\ lineage_keys'[k].to = current_head'
      BY <2>3, <1>2, <1>7
    <3>4. /\ lineage_keys'[k].from # 0 /\ lineage_keys'[k].to # 0
          /\ lineage_keys'[k].from < lineage_keys'[k].to
          /\ lineage_keys'[k].from <= current_head' /\ lineage_keys'[k].to <= current_head'
      BY <3>1, <3>3, <1>2
    <3>5. events'[lineage_keys'[k].to].doc = doc
      BY <3>3, <1>2
    <3>. QED
      BY <3>0, <3>1, <3>2, <3>3, <3>4, <3>5, <1>1 DEF KeyRowExplained
  <2>. QED
    BY <2>1, <2>2, <2>3
<1>12. KeyEventsApplied'
  <2> SUFFICES ASSUME NEW n \in 1 .. current_head'
               PROVE  KeyEventApplied(n)'
    BY DEF KeyEventsApplied
  <2>1. CASE n = current_head + 1
    <3>1. ASSUME NEW k \in Keys, lineage_keys'[k].lineage = doc.lineage,
                 lineage_keys'[k].from < n
          PROVE  lineage_keys'[k].to # 0 /\ lineage_keys'[k].to <= n
      <4>1. k # doc.new
        BY <2>1, <3>1, <1>2, <1>6
      <4>2. CASE Closes(k)
        BY <4>1, <4>2, <2>1, <1>2, <1>7, SMTT(20)
      <4>3. CASE ~ Closes(k)
        BY <4>1, <4>3, <3>1, <2>1, <1>2, <1>3, <1>6, SMTT(20)
           DEF TablesExplained, KeyRowsExplained, KeyRowExplained
      <4>. QED
        BY <4>2, <4>3
    <3>. QED
      BY <3>1, <2>1, <1>1, <1>2, <1>6 DEF KeyEventApplied
  <2>2. CASE n \in 1 .. current_head
    <3>1. events'[n].doc = events[n].doc
      BY <2>2, <1>2
    <3>2. \A k \in Keys :
             /\ k # doc.new => /\ lineage_keys'[k].from = lineage_keys[k].from
                               /\ lineage_keys'[k].lineage = lineage_keys[k].lineage
             /\ lineage_keys[k].from = n => k # doc.new
      BY <2>2, <1>4, <1>6, <1>7
    <3>3. ASSUME events[n].doc \in RegistrationDocs
          PROVE  /\ lineage_keys'[events[n].doc.key].from = n
                 /\ lineage_keys'[events[n].doc.key].lineage = lineage_id(events[n].doc.key)
      BY <3>2, <3>3, <2>2, DocFields, SMTT(20) DEF TablesExplained, KeyEventsApplied, KeyEventApplied
    <3>4. ASSUME events[n].doc \in RotationDocs
          PROVE  /\ lineage_keys'[events[n].doc.new].from = n
                 /\ lineage_keys'[events[n].doc.new].lineage = events[n].doc.lineage
      BY <3>2, <3>4, <2>2, DocFields, SMTT(20) DEF TablesExplained, KeyEventsApplied, KeyEventApplied
    <3>5. ASSUME events[n].doc \in RotationDocs, NEW k \in Keys,
                 lineage_keys'[k].lineage = events[n].doc.lineage,
                 lineage_keys'[k].from < n
          PROVE  lineage_keys'[k].to # 0 /\ lineage_keys'[k].to <= n
      <4>1. k # doc.new
        BY <3>5, <2>2, <1>2, <1>6
      <4>2. lineage_keys[k].to # 0 /\ lineage_keys[k].to <= n
        BY <4>1, <3>2, <3>5, <2>2 DEF TablesExplained, KeyEventsApplied, KeyEventApplied
      <4>. QED
        BY <4>1, <4>2, <1>6
    <3>. QED
      BY <3>1, <3>3, <3>4, <3>5 DEF KeyEventApplied
  <2>. QED
    BY <2>1, <2>2, <1>2
<1>13. CurrentKeyIsOpen'
  <2> SUFFICES ASSUME NEW l \in Lineages
               PROVE  CurrentKeyIsOpen!(l)'
    BY DEF CurrentKeyIsOpen
  <2>1. CASE l = doc.lineage
    <3>1. ASSUME NEW k \in Keys
          PROVE  lineages'[l] = k <=> lineage_keys'[k].lineage = l /\ lineage_keys'[k].to = 0
      <4>1. CASE k = doc.new
        BY <4>1, <2>1, <1>6, <1>8
      <4>2. CASE k # doc.new /\ Closes(k)
        BY <4>2, <2>1, <1>2, <1>7, <1>8
      <4>3. CASE k # doc.new /\ ~ Closes(k)
        BY <4>3, <2>1, <1>6, <1>8
      <4>. QED
        BY <4>1, <4>2, <4>3
    <3>2. lineages'[l] # NULL
      BY <2>1, <1>1, <1>8, NullAssumption
    <3>. QED
      BY <3>1, <3>2
  <2>2. CASE l # doc.lineage
    <3>1. \A k \in Keys : /\ lineage_keys'[k].lineage = l => k # doc.new /\ ~ Closes(k)
                          /\ lineage_keys[k].lineage = l => k # doc.new /\ ~ Closes(k)
      BY <2>2, <1>5, <1>6, <1>7, NullAssumption DEF NoKeyRow
    <3>2. \A k \in Keys : \/ lineage_keys'[k] = lineage_keys[k]
                          \/ lineage_keys'[k].lineage # l /\ lineage_keys[k].lineage # l
      BY <3>1, <1>6
    <3>. QED
      BY <3>2, <2>2, <1>8, SMTT(20) DEF TablesExplained, CurrentKeyIsOpen
  <2>. QED
    BY <2>1, <2>2
<1>14. DelegationRowsExplained'
  <2> SUFFICES ASSUME NEW d \in Delegations
               PROVE  DelegationRowExplained(d)'
    BY DEF DelegationRowsExplained
  <2>1. CASE Revokes(d)
    <3>0. DelegationRowExplained(d)
      BY Zenon DEF TablesExplained, DelegationRowsExplained
    <3>1. delegations[d].registered \in 1 .. current_head
      BY <3>0, <2>1, <1>2, <1>3 DEF DelegationRowExplained
    <3>2. events'[delegations[d].registered] = events[delegations[d].registered]
      BY <3>1, <1>2
    <3>3. /\ delegations'[d].registered = delegations[d].registered
          /\ delegations'[d].revoked = current_head'
      BY <2>1, <1>2, <1>10
    <3>4. /\ delegations'[d].registered < delegations'[d].revoked
          /\ delegations'[d].registered # 0 /\ delegations'[d].revoked # 0
          /\ delegations'[d].registered <= current_head'
          /\ delegations'[d].revoked <= current_head'
      BY <3>1, <3>3, <1>2
    <3>5. /\ events'[delegations'[d].revoked].doc = doc
          /\ doc.revoke_existing /\ doc.lineage = Grant[d].lineage
      BY <3>3, <2>1, <1>2, SMTT(20)
    <3>. QED
      BY <3>0, <3>1, <3>2, <3>3, <3>4, <3>5, <1>1 DEF DelegationRowExplained
  <2>2. CASE ~ Revokes(d)
    BY <2>2, <1>2, <1>3, <1>9, DelegationRowStays, SMTT(20) DEF TablesExplained, DelegationRowsExplained
  <2>. QED
    BY <2>1, <2>2, Zenon
<1>15. DelegationEventsApplied'
  <2> SUFFICES ASSUME NEW n \in 1 .. current_head'
               PROVE  DelegationEventApplied(n)'
    BY DEF DelegationEventsApplied
  <2>1. CASE n = current_head + 1
    <3>1. ASSUME doc.revoke_existing, NEW d \in Delegations, Grant[d].lineage = doc.lineage,
                 delegations'[d].registered # 0
          PROVE  delegations'[d].revoked # 0 /\ delegations'[d].revoked <= n
      <4>1. CASE Revokes(d)
        BY <4>1, <2>1, <1>2, <1>10, SMTT(20)
      <4>2. CASE ~ Revokes(d)
        BY <4>2, <3>1, <2>1, <1>2, <1>3, <1>9
           DEF TablesExplained, DelegationRowsExplained, DelegationRowExplained
      <4>. QED
        BY <4>1, <4>2
    <3>. QED
      BY <3>1, <2>1, <1>1, <1>2 DEF DelegationEventApplied
  <2>2. CASE n \in 1 .. current_head
    <3>1. events'[n].doc = events[n].doc
      BY <2>2, <1>2
    <3>2. \A d \in Delegations :
             /\ delegations'[d].registered = delegations[d].registered
             /\ delegations[d].revoked # 0 => delegations'[d].revoked = delegations[d].revoked
      BY <1>9, <1>10, SMTT(20)
    <3>3. ASSUME events[n].doc \in DelegationDocs
          PROVE  delegations'[events[n].doc.delegation].registered = n
      BY <3>2, <3>3, <2>2, DocFields
         DEF TablesExplained, DelegationEventsApplied, DelegationEventApplied
    <3>4. ASSUME events[n].doc \in RevocationDocs
          PROVE  delegations'[events[n].doc.delegation].revoked = n
      BY <3>2, <3>4, <2>2, DocFields
         DEF TablesExplained, DelegationEventsApplied, DelegationEventApplied
    <3>5. ASSUME events[n].doc \in RotationDocs, events[n].doc.revoke_existing,
                 NEW d \in Delegations, Grant[d].lineage = events[n].doc.lineage,
                 delegations'[d].registered # 0, delegations'[d].registered < n
          PROVE  delegations'[d].revoked # 0 /\ delegations'[d].revoked <= n
      BY <3>2, <3>5, <2>2 DEF TablesExplained, DelegationEventsApplied, DelegationEventApplied
    <3>. QED
      BY <3>1, <3>3, <3>4, <3>5 DEF DelegationEventApplied
  <2>. QED
    BY <2>1, <2>2, <1>2
<1>. QED
  BY <1>11, <1>12, <1>13, <1>14, <1>15 DEF TablesExplained

-----------------------------------------------------------------------------
(* Whatever the origin does, a row changes only by numbers beyond the head.*)

KeyRowAdvances(k) ==
    \/ lineage_keys'[k] = lineage_keys[k]
    \/ /\ lineage_keys[k] = NoKeyRow
       /\ lineage_keys'[k].from = current_head + 1
       /\ lineage_keys'[k].to = 0
    \/ /\ lineage_keys'[k].lineage = lineage_keys[k].lineage
       /\ lineage_keys'[k].from = lineage_keys[k].from
       /\ lineage_keys[k].to = 0
       /\ lineage_keys'[k].to = current_head + 1

DelegationRowAdvances(d) ==
    \/ delegations'[d] = delegations[d]
    \/ /\ delegations[d].registered = 0 /\ delegations[d].revoked = 0
       /\ delegations'[d].registered = current_head + 1
       /\ delegations'[d].revoked = 0
    \/ /\ delegations'[d].registered = delegations[d].registered
       /\ delegations[d].revoked = 0
       /\ delegations'[d].revoked = current_head + 1

RowsAdvance ==
    /\ \A k \in Keys : KeyRowAdvances(k)
    /\ \A d \in Delegations : DelegationRowAdvances(d)

\* Every transaction changes rows only by the number of the event it appends.
LEMMA CommittingRows ==
    ASSUME OriginTypeOK, TablesExplained, NEW t \in Threads, Committing(t)
    PROVE  RowsAdvance
<1> DEFINE doc == pending[t]
<1>h. current_head + 1 \in Nat
  BY DEF OriginTypeOK, current_head
<1>t. /\ \A k \in Keys : lineage_keys[k] \in KeyRow
      /\ \A d \in Delegations : delegations[d] \in DelegationRow
  BY DEF OriginTypeOK
<1>1. CASE register_lineage(t)
  <2>1. doc.key \in Keys
    BY <1>1, DocFields, Zenon DEF register_lineage
  <2>2. lineage_keys[doc.key] = NoKeyRow
    BY <1>1, <2>1
       DEF register_lineage, LineageUnregistered, TablesExplained, KeyRowsExplained, KeyRowExplained
  <2>3. lineage_keys' = [lineage_keys EXCEPT ![doc.key] =
            [lineage |-> lineage_id(doc.key), from |-> current_head + 1, to |-> 0]]
    BY <1>1 DEF register_lineage, AcceptedSequence
  <2>4. ASSUME NEW k \in Keys PROVE KeyRowAdvances(k)
    BY <2>1, <2>2, <2>3 DEF KeyRowAdvances, OriginTypeOK
  <2>. QED
    BY <1>1, <2>4 DEF RowsAdvance, DelegationRowAdvances, register_lineage
<1>2. CASE register_delegation(t)
  <2>1. doc.delegation \in Delegations
    BY <1>2, DocFields, SMTT(20) DEF register_delegation
  <2>2. delegations[doc.delegation].registered = 0 /\ delegations[doc.delegation].revoked = 0
    BY <1>2, <2>1 DEF register_delegation, DelegationUnregistered, TablesExplained,
                      DelegationRowsExplained, DelegationRowExplained
  <2>3. delegations' = [delegations EXCEPT ![doc.delegation] =
            [registered |-> current_head + 1, revoked |-> 0]]
    BY <1>2 DEF register_delegation, AcceptedSequence
  <2>4. ASSUME NEW d \in Delegations PROVE DelegationRowAdvances(d)
    BY <2>1, <2>2, <2>3 DEF DelegationRowAdvances, OriginTypeOK
  <2>. QED
    BY <1>2, <2>4 DEF RowsAdvance, KeyRowAdvances, register_delegation
<1>3. CASE revoke_delegation(t)
  <2>1. doc.delegation \in Delegations
    BY <1>3, DocFields DEF revoke_delegation
  <2>2. delegations[doc.delegation].revoked = 0
    BY <1>3 DEF revoke_delegation, DelegationRevocable
  <2>3. delegations' = [delegations EXCEPT ![doc.delegation] =
            [delegations[doc.delegation] EXCEPT !.revoked = current_head + 1]]
    BY <1>3, <2>1 DEF revoke_delegation, AcceptedSequence, OriginTypeOK
  <2>4. ASSUME NEW d \in Delegations PROVE DelegationRowAdvances(d)
    <3>1. CASE d = doc.delegation
      <4>1. delegations'[d] = [delegations[d] EXCEPT !.revoked = current_head + 1]
        BY <3>1, <2>1, <2>3, Zenon DEF OriginTypeOK
      <4>2. /\ delegations'[d].registered = delegations[d].registered
            /\ delegations'[d].revoked = current_head + 1
        BY <4>1, <1>h, <1>t, RowUpdates
      <4>. QED
        BY <3>1, <4>2, <2>2 DEF DelegationRowAdvances
    <3>2. CASE d # doc.delegation
      BY <3>2, <2>3 DEF DelegationRowAdvances, OriginTypeOK
    <3>. QED
      BY <3>1, <3>2, SMTT(20)
  <2>. QED
    BY <1>3, <2>4 DEF RowsAdvance, KeyRowAdvances, revoke_delegation
<1>4. CASE rotate_lineage_key(t)
  <2>1. doc.new \in Keys /\ doc.lineage \in Lineages
    BY <1>4, DocFields, SMTT(20) DEF rotate_lineage_key
  <2>2. lineage_keys[doc.new] = NoKeyRow
    BY <1>4, <2>1, Zenon
       DEF rotate_lineage_key, RotationAdvances, TablesExplained, KeyRowsExplained, KeyRowExplained
  <2>3. ASSUME NEW k \in Keys PROVE KeyRowAdvances(k)
    <3>1. lineage_keys'[k] =
             IF k = doc.new
             THEN [lineage |-> doc.lineage, from |-> current_head + 1, to |-> 0]
             ELSE IF lineage_keys[k].lineage = doc.lineage /\ lineage_keys[k].to = 0
             THEN [lineage_keys[k] EXCEPT !.to = current_head + 1]
             ELSE lineage_keys[k]
      BY <1>4 DEF rotate_lineage_key, RotatedKeys, AcceptedSequence
    <3>2. LET row == [lineage_keys[k] EXCEPT !.to = current_head + 1]
          IN  /\ row.lineage = lineage_keys[k].lineage
              /\ row.from = lineage_keys[k].from
              /\ row.to = current_head + 1
      BY <1>h, <1>t, RowUpdates
    <3>. QED
      BY <3>1, <3>2, <2>2 DEF KeyRowAdvances
  <2>4. ASSUME NEW d \in Delegations PROVE DelegationRowAdvances(d)
    <3>1. \/ delegations'[d] = delegations[d]
          \/ /\ delegations[d].revoked = 0
             /\ delegations'[d] = [delegations[d] EXCEPT !.revoked = current_head + 1]
      BY <1>4 DEF rotate_lineage_key, RevokeAll, AcceptedSequence
    <3>2. LET row == [delegations[d] EXCEPT !.revoked = current_head + 1]
          IN  row.registered = delegations[d].registered /\ row.revoked = current_head + 1
      BY <1>h, <1>t, RowUpdates, SMTT(20)
    <3>. QED
      BY <3>1, <3>2, Zenon DEF DelegationRowAdvances
  <2>. QED
    BY <2>3, <2>4, SMTT(20) DEF RowsAdvance
<1>5. CASE append_contribution(t) \/ append_acknowledgement(t)
  BY <1>5, ZenonT(30) DEF append_contribution, append_acknowledgement, RowsAdvance, KeyRowAdvances,
              DelegationRowAdvances
<1>. QED
  BY <1>1, <1>2, <1>3, <1>4, <1>5 DEF Committing

\* One step of the origin: the tables stay typed and explained, the log grows by
\* at most one event, and rows advance.
LEMMA OriginStep ==
    ASSUME OriginTypeOK, TablesExplained, OriginNext
    PROVE  /\ OriginTypeOK' /\ TablesExplained' /\ RowsAdvance
           /\ current_head \in Nat
           /\ current_head' = current_head \/ current_head' = current_head + 1
           /\ \A n \in 1 .. current_head : events'[n] = events[n]
<1>h. current_head \in Nat
  BY DEF OriginTypeOK, current_head
<1>q. ASSUME UNCHANGED dbvars
      PROVE  /\ TablesExplained' /\ RowsAdvance
             /\ current_head' = current_head
             /\ \A n \in 1 .. current_head : events'[n] = events[n]
  <2>1. TablesExplained' /\ current_head' = current_head /\ events' = events
    BY <1>q, UnchangedExplained
  <2>2. RowsAdvance
    BY <1>q DEF dbvars, RowsAdvance, KeyRowAdvances, DelegationRowAdvances
  <2>. QED
    BY <2>1, <2>2
<1>1. ASSUME NEW t \in Threads, NEW doc \in Submittable, PassServiceChecks(t, doc)
      PROVE  OriginTypeOK' /\ UNCHANGED dbvars
  <2>1. doc \in ClientDocs
    BY <1>1, <1>h, SMTT(20) DEF Submittable, ClientDocs, AcknowledgementDocs
  <2>. QED
    BY <1>1, <2>1 DEF PassServiceChecks, OriginTypeOK, dbvars
<1>2. ASSUME NEW t \in Threads, Committing(t)
      PROVE  /\ OriginTypeOK' /\ TablesExplained' /\ RowsAdvance
             /\ current_head' = current_head + 1
             /\ \A n \in 1 .. current_head : events'[n] = events[n]
  <2>1. OriginTypeOK' /\ current_head' = current_head + 1
    BY <1>2, CommittingType
  <2>2. RowsAdvance
    BY <1>2, CommittingRows
  <2>3. append_event(pending[t]) /\ pending[t] \in ClientDocs
    BY <1>2 DEF Committing, register_lineage, register_delegation, revoke_delegation,
                rotate_lineage_key, append_contribution, append_acknowledgement, ClientDocs
  <2>4. \A n \in 1 .. current_head : events'[n] = events[n]
    BY <2>3, AppendFacts, Zenon DEF Documents
  <2>5. TablesExplained'
    <3>1. CASE register_lineage(t)
      BY <3>1, RegisterLineageExplained
    <3>2. CASE register_delegation(t)
      BY <3>2, RegisterDelegationExplained
    <3>3. CASE revoke_delegation(t)
      BY <3>3, RevokeDelegationExplained
    <3>4. CASE rotate_lineage_key(t)
      BY <3>4, RotateLineageKeyExplained
    <3>5. CASE append_contribution(t) \/ append_acknowledgement(t)
      BY <3>5, <2>3, NeutralExplained DEF append_contribution, append_acknowledgement
    <3>. QED
      BY <1>2, <3>1, <3>2, <3>3, <3>4, <3>5 DEF Committing
  <2>. QED
    BY <2>1, <2>2, <2>4, <2>5
<1>3. ASSUME NEW t \in Threads, RollBack(t)
      PROVE  OriginTypeOK' /\ UNCHANGED dbvars
  BY <1>3 DEF RollBack, OriginTypeOK, dbvars
<1>4. ASSUME AppendNodeEvent
      PROVE  /\ OriginTypeOK' /\ TablesExplained' /\ RowsAdvance
             /\ current_head' = current_head + 1
             /\ \A n \in 1 .. current_head : events'[n] = events[n]
  <2>1. [kind |-> "node_event"] \in NodeDocs /\ [kind |-> "node_event"] \in Documents
    BY DEF NodeDocs, Documents
  <2>2. append_event([kind |-> "node_event"])
    BY <1>4 DEF AppendNodeEvent
  <2>3. TablesExplained'
    BY <1>4, <2>1, <2>2, NeutralExplained DEF AppendNodeEvent
  <2>4. OriginTypeOK' /\ current_head' = current_head + 1
        /\ \A n \in 1 .. current_head : events'[n] = events[n]
    BY <1>4, <2>1, <2>2, AppendFacts, Zenon DEF AppendNodeEvent, OriginTypeOK
  <2>5. RowsAdvance
    BY <1>4 DEF AppendNodeEvent, RowsAdvance, KeyRowAdvances, DelegationRowAdvances
  <2>. QED
    BY <2>3, <2>4, <2>5
<1>5. ASSUME Crash
      PROVE  OriginTypeOK' /\ UNCHANGED dbvars
  BY <1>5 DEF Crash, OriginTypeOK, dbvars
<1>6. ASSUME Tick
      PROVE  OriginTypeOK' /\ UNCHANGED dbvars
  BY <1>6, BoundsAssumption, SMTT(20) DEF Tick, OriginTypeOK, dbvars, Time
<1>. QED
  BY <1>h, <1>q, <1>1, <1>2, <1>3, <1>4, <1>5, <1>6, Zenon DEF OriginNext

=============================================================================
