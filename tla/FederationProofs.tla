-------------------------- MODULE FederationProofs --------------------------
(***************************************************************************)
(* Proofs, for any set of nodes and any bounds, that every stored log is a *)
(* chain its origin signed, that evidence convicts, and that Federation    *)
(* implements OriginReplicas.                                              *)
(*                                                                         *)
(* The inductive invariant joins the types, StoredChainIsSigned,           *)
(* EvidenceIsSound and SingleLife: an origin that never lost its database  *)
(* has signed one chain, so that two different chains of one length prove  *)
(* a loss. It rests on facts about prefixes and the histories an origin    *)
(* has signed.                                                             *)
(***************************************************************************)
EXTENDS Federation, TLAPS, WellFoundedInduction

\* A prefix is a sequence over the same values, of the given length.
LEMMA PrefixIn ==
    ASSUME NEW S, NEW c \in Seq(S), NEW n \in 0 .. Len(c)
    PROVE  /\ Prefix(c, n) \in Seq(S)
           /\ Len(Prefix(c, n)) = n
           /\ \A i \in 1 .. n : Prefix(c, n)[i] = c[i]
    BY DEF Prefix

\* Sequences of one length that agree everywhere are equal.
LEMMA SequencesEqual ==
    ASSUME NEW S, NEW c \in Seq(S), NEW d \in Seq(S), Len(c) = Len(d),
           \A i \in 1 .. Len(c) : c[i] = d[i]
    PROVE  c = d
    OBVIOUS

\* The beginning of a beginning is a beginning.
LEMMA PrefixOfPrefix ==
    ASSUME NEW S, NEW c \in Seq(S), NEW n \in 0 .. Len(c), NEW m \in 0 .. n
    PROVE  Prefix(Prefix(c, n), m) = Prefix(c, m)
    <1>1. Prefix(c, n) \in Seq(S) /\ Len(Prefix(c, n)) = n
        BY PrefixIn
    <1>2. Prefix(Prefix(c, n), m) \in Seq(S) /\ Len(Prefix(Prefix(c, n), m)) = m
        BY <1>1, PrefixIn
    <1>3. Prefix(c, m) \in Seq(S) /\ Len(Prefix(c, m)) = m
        BY PrefixIn
    <1>4. \A i \in 1 .. m : Prefix(Prefix(c, n), m)[i] = Prefix(c, n)[i]
        BY <1>1, PrefixIn
    <1>5. \A i \in 1 .. n : Prefix(c, n)[i] = c[i]
        BY PrefixIn, Zenon
    <1>6. \A i \in 1 .. m : Prefix(c, m)[i] = c[i]
        <2>1. m \in 0 .. Len(c)
            OBVIOUS
        <2> QED
            BY <2>1, PrefixIn
    <1>7. \A i \in 1 .. m : Prefix(Prefix(c, n), m)[i] = Prefix(c, m)[i]
        BY <1>4, <1>5, <1>6
    <1> QED
        BY <1>2, <1>3, <1>7, SequencesEqual

\* A chain is its own longest beginning.
LEMMA WholePrefix ==
    ASSUME NEW S, NEW c \in Seq(S)
    PROVE  Prefix(c, Len(c)) = c
    <1>1. Len(c) \in 0 .. Len(c)
        OBVIOUS
    <1> QED
        BY <1>1, PrefixIn, SequencesEqual

\* The shortest beginning is the empty chain.
LEMMA EmptyPrefix ==
    ASSUME NEW c
    PROVE  Prefix(c, 0) = <<>>
    BY DEF Prefix

\* A history followed by the rest of one that continues it is the latter.
LEMMA CatchUp ==
    ASSUME NEW S, NEW c \in Seq(S), NEW d \in Seq(S), Len(c) <= Len(d),
           Prefix(d, Len(c)) = c
    PROVE  c \o SubSeq(d, Len(c) + 1, Len(d)) = d
    <1>1. SubSeq(d, Len(c) + 1, Len(d)) \in Seq(S)
        OBVIOUS
    <1>2. Len(c \o SubSeq(d, Len(c) + 1, Len(d))) = Len(d)
        OBVIOUS
    <1>3. \A i \in 1 .. Len(c) : d[i] = c[i]
        BY PrefixIn
    <1>4. \A i \in 1 .. Len(d) : (c \o SubSeq(d, Len(c) + 1, Len(d)))[i] = d[i]
        BY <1>3
    <1> QED
        BY <1>1, <1>2, <1>4, SequencesEqual, SMTT(20)

\* Appending an event changes no beginning of the chain.
LEMMA PrefixOfAppend ==
    ASSUME NEW S, NEW c \in Seq(S), NEW e \in S, NEW n \in 0 .. Len(c)
    PROVE  Prefix(Append(c, e), n) = Prefix(c, n)
    <1>1. Append(c, e) \in Seq(S) /\ n \in 0 .. Len(Append(c, e))
        OBVIOUS
    <1>2. \A i \in 1 .. n : Append(c, e)[i] = c[i]
        OBVIOUS
    <1>3. Prefix(Append(c, e), n) \in Seq(S) /\ Len(Prefix(Append(c, e), n)) = n
        BY <1>1, PrefixIn, Zenon
    <1>4. \A i \in 1 .. n : Prefix(Append(c, e), n)[i] = Append(c, e)[i]
        BY <1>1, PrefixIn, Zenon
    <1>5. Prefix(c, n) \in Seq(S) /\ Len(Prefix(c, n)) = n
        BY PrefixIn
    <1>6. \A i \in 1 .. n : Prefix(c, n)[i] = c[i]
        BY PrefixIn
    <1>7. \A i \in 1 .. n : Prefix(Append(c, e), n)[i] = Prefix(c, n)[i]
        BY <1>2, <1>4, <1>6
    <1> QED
        BY <1>3, <1>5, <1>7, SequencesEqual, SMTT(20)

-----------------------------------------------------------------------------
\* The chains of a set of logs and everything they continue.
Histories(A) == UNION {{Prefix(c, i) : i \in 0 .. Len(c)} : c \in A}

\* Membership in Histories, as the quantifier a proof can instantiate.
LEMMA HistoriesAre ==
    ASSUME NEW A, NEW c
    PROVE  c \in Histories(A) <=> \E d \in A : \E i \in 0 .. Len(d) : c = Prefix(d, i)
    BY DEF Histories

\* Histories of chains of events are chains of events.
LEMMA HistoriesType ==
    ASSUME NEW S, NEW A \in SUBSET Seq(S)
    PROVE  Histories(A) \in SUBSET Seq(S)
    BY HistoriesAre, PrefixIn

\* What precedes a signed history is signed.
LEMMA HistoriesClosed ==
    ASSUME NEW S, NEW A \in SUBSET Seq(S), NEW c \in Histories(A), NEW n \in 0 .. Len(c)
    PROVE  Prefix(c, n) \in Histories(A)
    <1>1. PICK d \in A : \E i \in 0 .. Len(d) : c = Prefix(d, i)
        BY HistoriesAre
    <1>2. PICK i \in 0 .. Len(d) : c = Prefix(d, i)
        BY <1>1
    <1>3. d \in Seq(S)
        OBVIOUS
    <1>4. Len(c) = i
        BY <1>2, <1>3, PrefixIn
    <1>5. Prefix(c, n) = Prefix(d, n)
        BY <1>2, <1>3, <1>4, PrefixOfPrefix, SMTT(20)
    <1>6. n \in 0 .. Len(d)
        BY <1>3, <1>4
    <1> QED
        BY <1>5, <1>6, HistoriesAre

\* A log and the empty chain are among its histories.
LEMMA HistoriesHold ==
    ASSUME NEW S, NEW A \in SUBSET Seq(S), NEW c \in A
    PROVE  c \in Histories(A) /\ <<>> \in Histories(A)
    <1>1. c = Prefix(c, Len(c)) /\ <<>> = Prefix(c, 0)
        BY WholePrefix, EmptyPrefix
    <1>2. Len(c) \in 0 .. Len(c) /\ 0 \in 0 .. Len(c)
        OBVIOUS
    <1> QED
        BY <1>1, <1>2, HistoriesAre

\* Beside the logs of A, replacing the log l by m adds one history, m.
SignsOnly(A, l, m) == Histories(A \cup {m}) = Histories(A \cup {l}) \cup {m}

\* Appending to a log signs exactly the longer log.
LEMMA HistoriesAppend ==
    ASSUME NEW S, NEW A \in SUBSET Seq(S), NEW l \in Seq(S), NEW e \in S,
           NEW m, m = Append(l, e)
    PROVE  SignsOnly(A, l, m)
    <1>1. m \in Seq(S) /\ Len(m) = Len(l) + 1
        OBVIOUS
    <1>2. ASSUME NEW c \in Histories(A \cup {m})
          PROVE  c \in Histories(A \cup {l}) \cup {m}
        <2>1. PICK d \in A \cup {m} : \E i \in 0 .. Len(d) : c = Prefix(d, i)
            BY <1>2, HistoriesAre
        <2>2. PICK i \in 0 .. Len(d) : c = Prefix(d, i)
            BY <2>1
        <2>3. CASE d \in A
            BY <2>2, <2>3, HistoriesAre, SMTT(20)
        <2>4. CASE d = m /\ i = Len(m)
            BY <2>2, <2>4, <1>1, WholePrefix, Zenon
        <2>5. CASE d = m /\ i # Len(m)
            <3>1. i \in 0 .. Len(l)
                BY <2>5, <1>1
            <3>2. c = Prefix(l, i)
                BY <2>2, <2>5, <3>1, PrefixOfAppend, SMTT(20)
            <3> QED
                BY <3>1, <3>2, HistoriesAre, SMTT(20)
        <2> QED
            BY <2>3, <2>4, <2>5
    <1>3. ASSUME NEW c \in Histories(A \cup {l})
          PROVE  c \in Histories(A \cup {m})
        <2>1. PICK d \in A \cup {l} : \E i \in 0 .. Len(d) : c = Prefix(d, i)
            BY <1>3, HistoriesAre
        <2>2. PICK i \in 0 .. Len(d) : c = Prefix(d, i)
            BY <2>1
        <2>3. CASE d \in A
            BY <2>2, <2>3, HistoriesAre, SMTT(20)
        <2>4. CASE d = l
            <3>1. i \in 0 .. Len(m)
                BY <2>4, <1>1
            <3>2. c = Prefix(m, i)
                BY <2>2, <2>4, PrefixOfAppend, SMTT(20)
            <3> QED
                BY <3>1, <3>2, HistoriesAre, Zenon
        <2> QED
            BY <2>3, <2>4
    <1>4. m \in Histories(A \cup {m})
        BY <1>1, HistoriesHold, Zenon
    <1> QED
        BY <1>2, <1>3, <1>4, Zenon DEF SignsOnly

\* Putting a log aside for an empty one signs and unsigns nothing.
LEMMA HistoriesLose ==
    ASSUME NEW S, NEW A \in SUBSET Seq(S), NEW l \in Seq(S)
    PROVE  Histories((A \cup {l}) \cup {<<>>}) = Histories(A \cup {l})
    <1>1. ASSUME NEW c \in Histories((A \cup {l}) \cup {<<>>})
          PROVE  c \in Histories(A \cup {l})
        <2>1. PICK d \in (A \cup {l}) \cup {<<>>} : \E i \in 0 .. Len(d) : c = Prefix(d, i)
            BY <1>1, HistoriesAre
        <2>2. PICK i \in 0 .. Len(d) : c = Prefix(d, i)
            BY <2>1
        <2>3. CASE d \in A \cup {l}
            BY <2>2, <2>3, HistoriesAre
        <2>4. CASE d = <<>>
            <3>1. i = 0
                BY <2>4
            <3>2. c = <<>>
                BY <2>2, <3>1, EmptyPrefix
            <3> QED
                BY <3>2, HistoriesHold, Zenon
        <2> QED
            BY <2>3, <2>4
    <1>2. ASSUME NEW c \in Histories(A \cup {l})
          PROVE  c \in Histories((A \cup {l}) \cup {<<>>})
        BY <1>2, HistoriesAre
    <1> QED
        BY <1>1, <1>2, Zenon

\* One log has one history of each length.
LEMMA OneHistory ==
    ASSUME NEW S, NEW l \in Seq(S), NEW c \in Histories({l}), NEW d \in Histories({l}),
           Len(c) = Len(d)
    PROVE  c = d
    <1>1. PICK i \in 0 .. Len(l) : c = Prefix(l, i)
        BY HistoriesAre
    <1>2. PICK j \in 0 .. Len(l) : d = Prefix(l, j)
        BY HistoriesAre
    <1>3. Len(c) = i /\ Len(d) = j
        BY <1>1, <1>2, PrefixIn
    <1> QED
        BY <1>1, <1>2, <1>3

-----------------------------------------------------------------------------
\* A non-empty set of natural numbers has a least element: import_federation_bundle
\* meets the re-sent events in order and reports the first that differs.
LEMMA LeastNumber ==
    ASSUME NEW T \in SUBSET Nat, T # {}
    PROVE  \E x \in T : \A y \in T : x <= y
    <1> DEFINE R == OpToRel(<, Nat)
    <1>1. IsWellFoundedOn(R, Nat)
        BY NatLessThanWellFounded, Zenon
    <1>2. \A x, y \in Nat : x < y => <<x, y>> \in R
        BY SMT DEF OpToRel
    <1> HIDE DEF R
    <1>3. \E x \in T : \A y \in T : ~ (<<y, x>> \in R)
        BY <1>1, WFMin, Zenon
    <1>4. PICK x \in T : \A y \in T : ~ (<<y, x>> \in R)
        BY <1>3
    <1>5. \A y \in T : ~ (y < x)
        BY <1>2, <1>4, Zenon
    <1> QED
        BY <1>5

-----------------------------------------------------------------------------
(* The invariant.                                                          *)

SingleLife == \A o \in Nodes : life[o] = 0 => abandoned[o] = {}

FedInv == FedTypeOK /\ StoredChainIsSigned /\ EvidenceIsSound /\ SingleLife

Logs(o) == abandoned[o] \cup {log[o]}

-----------------------------------------------------------------------------
(* What an origin has signed, and how steps change it.                     *)

\* What an origin signed is the histories of the logs it has had.
LEMMA SignedIs ==
    ASSUME NEW o
    PROVE  Signed(o) = Histories(Logs(o))
    BY DEF Signed, Histories, Logs

\* Signed histories are chains, the empty one among them.
LEMMA SignedType ==
    ASSUME FedTypeOK, NEW o \in Nodes
    PROVE  /\ Logs(o) \in SUBSET Seq(Event)
           /\ Signed(o) \in SUBSET Chain
           /\ <<>> \in Signed(o)
    <1>1. Logs(o) \in SUBSET Seq(Event) /\ log[o] \in Logs(o)
        BY DEF FedTypeOK, Chain, Logs
    <1>2. Histories(Logs(o)) \in SUBSET Seq(Event)
        BY <1>1, HistoriesType, Zenon
    <1>3. <<>> \in Histories(Logs(o))
        BY <1>1, HistoriesHold, Zenon
    <1> QED
        BY <1>1, <1>2, <1>3, SignedIs DEF Chain

\* Every beginning of a signed history was signed.
LEMMA SignedClosed ==
    ASSUME FedTypeOK, NEW o \in Nodes, NEW c \in Signed(o), NEW i \in 0 .. Len(c)
    PROVE  Prefix(c, i) \in Signed(o)
    <1>1. c \in Histories(Logs(o)) /\ Logs(o) \in SUBSET Seq(Event)
        BY SignedIs, SignedType, Zenon
    <1>2. Prefix(c, i) \in Histories(Logs(o))
        BY <1>1, HistoriesClosed, Zenon
    <1> QED
        BY <1>2, SignedIs, Zenon

\* append_event makes an event.
LEMMA EventType ==
    ASSUME FedTypeOK, NEW n \in Nodes, NEW kind \in ContentKinds \cup {"checkpoint_witnessed"}
    PROVE  NewEvent(n, kind) \in Event
    BY DEF FedTypeOK, NewEvent, Event

\* append_event signs the longer log and nothing else.
LEMMA SignedGrows ==
    ASSUME FedTypeOK, NEW n \in Nodes, NEW e \in Event,
           log' = [log EXCEPT ![n] = Append(@, e)], abandoned' = abandoned
    PROVE  /\ Signed(n)' = Signed(n) \cup {Append(log[n], e)}
           /\ \A o \in Nodes \ {n} : Signed(o)' = Signed(o)
    <1>1. log'[n] = Append(log[n], e)
        BY DEF FedTypeOK
    <1>2. Signed(n)' = Histories(abandoned[n] \cup {log'[n]})
        BY DEF Signed, Histories
    <1>3. Signed(n) = Histories(abandoned[n] \cup {log[n]})
        BY DEF Signed, Histories
    <1>4. abandoned[n] \in SUBSET Seq(Event) /\ log[n] \in Seq(Event)
        BY DEF FedTypeOK, Chain
    <1>5. SignsOnly(abandoned[n], log[n], log'[n])
        BY <1>1, <1>4, HistoriesAppend, Zenon
    <1>6. \A o \in Nodes \ {n} : log'[o] = log[o]
        BY DEF FedTypeOK
    <1>7. \A o \in Nodes \ {n} : Signed(o)' = Signed(o)
        BY <1>6, Zenon DEF Signed
    <1> QED
        BY <1>1, <1>2, <1>3, <1>5, <1>7, Zenon DEF SignsOnly

\* A lost database unsigns nothing.
LEMMA SignedStays ==
    ASSUME FedTypeOK, NEW n \in Nodes, LoseDatabase(n)
    PROVE  \A o \in Nodes : Signed(o)' = Signed(o)
    <1>1. log'[n] = <<>> /\ abandoned'[n] = abandoned[n] \cup {log[n]}
        BY DEF FedTypeOK, LoseDatabase
    <1>2. Signed(n)' = Histories((abandoned[n] \cup {log[n]}) \cup {<<>>})
        BY <1>1 DEF Signed, Histories
    <1>3. Signed(n) = Histories(abandoned[n] \cup {log[n]})
        BY DEF Signed, Histories
    <1>4. abandoned[n] \in SUBSET Seq(Event) /\ log[n] \in Seq(Event)
        BY DEF FedTypeOK, Chain
    <1>5. Signed(n)' = Signed(n)
        <2>1. \A A \in SUBSET Seq(Event), l \in Seq(Event) :
                  Histories((A \cup {l}) \cup {<<>>}) = Histories(A \cup {l})
            BY HistoriesLose, Zenon
        <2> QED
            BY <1>2, <1>3, <1>4, <2>1, Zenon
    <1>6. \A o \in Nodes \ {n} : log'[o] = log[o] /\ abandoned'[o] = abandoned[o]
        BY DEF FedTypeOK, LoseDatabase
    <1>7. \A o \in Nodes \ {n} : Signed(o)' = Signed(o)
        BY <1>6, Zenon DEF Signed
    <1> QED
        BY <1>5, <1>7, Zenon

\* Two chains of one length prove that the origin lost its database.
LEMMA TwoChainsTwoLives ==
    ASSUME FedTypeOK, SingleLife, NEW o \in Nodes,
           NEW c \in Signed(o), NEW d \in Signed(o), Len(c) = Len(d), c # d
    PROVE  life[o] > 0
    <1>1. SUFFICES ASSUME life[o] = 0 PROVE FALSE
        BY DEF FedTypeOK
    <1>2. Logs(o) = {log[o]}
        BY <1>1 DEF SingleLife, Logs
    <1>3. c \in Histories({log[o]}) /\ d \in Histories({log[o]})
        BY <1>2, SignedIs, Zenon
    <1>4. log[o] \in Seq(Event)
        BY DEF FedTypeOK, Chain
    <1> QED
        BY <1>3, <1>4, OneHistory, Zenon

-----------------------------------------------------------------------------
(* What import_federation_bundle finds in a verified bundle.               *)

\* The peer row of an origin describes the chain stored for it.
LEMMA StoredFacts ==
    ASSUME FedTypeOK, StoredChainIsSigned, NEW n \in Nodes, NEW o \in Nodes
    PROVE  /\ remote_events[n][o] \in Signed(o) /\ remote_events[n][o] \in Seq(Event)
           /\ Len(remote_events[n][o]) \in Nat
           /\ federation_peers[n][o].cursor = Len(remote_events[n][o])
           /\ federation_peers[n][o].event_hash = remote_events[n][o]
           /\ federation_peers[n][o].checkpoint = remote_events[n][o]
    <1>1. remote_events[n][o] \in Seq(Event)
        BY DEF FedTypeOK, Chain
    <1>2. Len(remote_events[n][o]) \in Nat
        BY <1>1
    <1> QED
        BY <1>1, <1>2 DEF StoredChainIsSigned

\* The record that record_equivocation keeps convicts the origin.
Convicts(e, o) ==
    /\ e \in Evidence
    /\ e.origin = o
    /\ e.existing \in Signed(o) /\ e.incoming \in Signed(o)
    /\ Len(e.existing) = Len(e.incoming)
    /\ e.existing # e.incoming

\* Two signed chains of one length that differ convict their origin.
LEMMA PairConvicts ==
    ASSUME FedTypeOK, NEW o \in Nodes, NEW c \in Signed(o), NEW d \in Signed(o),
           Len(c) = Len(d), c # d, NEW at \in Nat,
           NEW kind \in {"event_sequence", "chain_fork", "checkpoint"}
    PROVE  Convicts([origin |-> o, kind |-> kind, cursor |-> at,
                     existing |-> c, incoming |-> d], o)
    <1>1. c \in Chain /\ d \in Chain
        BY SignedType
    <1> QED
        BY <1>1 DEF Convicts, Evidence

\* Whichever check of import_federation_bundle fails, the evidence it records
\* is two signed chains of one length that differ.
LEMMA ConflictConvicts ==
    ASSUME FedTypeOK, StoredChainIsSigned, NEW n \in Nodes, NEW o \in Nodes,
           NEW chain \in Signed(o), NEW from \in 0 .. Len(chain), NEW b,
           b = Bundle(o, from, chain), Conflicts(n, b)
    PROVE  Convicts(Conflict(n, b), o)
    <1> DEFINE stored == remote_events[n][o]
               at == Len(stored)
    <1>1. b.origin = o /\ b.from = from /\ b.chain = chain
        BY DEF Bundle
    <1>2. chain \in Seq(Event) /\ Len(chain) \in Nat
        BY SignedType DEF Chain
    <1>3. /\ stored \in Signed(o) /\ stored \in Seq(Event) /\ at \in Nat
          /\ known_cursor(n, b) = at
          /\ federation_peers[n][o].event_hash = stored
        BY <1>1, StoredFacts DEF known_cursor
    <1> HIDE DEF stored
    <1>4. ASSUME NEW i \in 0 .. Len(chain), i <= at
          PROVE  /\ Prefix(stored, i) \in Signed(o) /\ Prefix(chain, i) \in Signed(o)
                 /\ Len(Prefix(stored, i)) = i /\ Len(Prefix(chain, i)) = i
        <2>1. i \in 0 .. Len(stored)
            BY <1>3, <1>4
        <2>2. Prefix(stored, i) \in Signed(o) /\ Prefix(chain, i) \in Signed(o)
            BY <1>3, <2>1, SignedClosed, Zenon
        <2>3. Len(Prefix(stored, i)) = i
            BY <1>3, <2>1, PrefixIn, Zenon
        <2>4. Len(Prefix(chain, i)) = i
            BY <1>2, PrefixIn, Zenon
        <2> QED
            BY <2>2, <2>3, <2>4, SMTT(20)
    <1>5. CASE Overlap(n, b) # {}
        <2> DEFINE i == CHOOSE i \in Overlap(n, b) : \A j \in Overlap(n, b) : i <= j
        <2>1. Overlap(n, b) \in SUBSET Nat
            BY <1>1, <1>2, SMT DEF Overlap
        <2>2. \E k \in Overlap(n, b) : \A j \in Overlap(n, b) : k <= j
            BY <1>5, <2>1, LeastNumber, Zenon
        <2>3. i \in Overlap(n, b)
            BY <2>2, Zenon
        <2> HIDE DEF i
        <2>4. i \in 0 .. Len(chain) /\ i <= at /\ Prefix(stored, i) # Prefix(chain, i)
            BY <1>1, <1>2, <1>3, <2>3, SMTT(20) DEF Overlap, stored
        <2>5. i \in Nat
            BY <2>4, <1>2
        <2>6. Conflict(n, b) = [origin |-> o, kind |-> "event_sequence", cursor |-> i,
                                existing |-> Prefix(stored, i), incoming |-> Prefix(chain, i)]
            BY <1>1, <1>5 DEF Conflict, i, stored
        <2>7. /\ Prefix(stored, i) \in Signed(o) /\ Prefix(chain, i) \in Signed(o)
              /\ Len(Prefix(stored, i)) = Len(Prefix(chain, i))
            BY <1>4, <2>4
        <2> QED
            BY <2>4, <2>5, <2>6, <2>7, PairConvicts, Zenon
    <1>6. CASE Overlap(n, b) = {} /\ Forks(n, b)
        <2>1. Len(chain) > at /\ Prefix(chain, at) # stored
            BY <1>1, <1>3, <1>6 DEF Forks
        <2>2. at \in 0 .. Len(chain) /\ at <= at
            BY <1>2, <1>3, <2>1
        <2>3. Prefix(chain, at) \in Signed(o) /\ Len(Prefix(chain, at)) = at
            BY <1>4, <2>2, Zenon
        <2>4. Conflict(n, b) = [origin |-> o, kind |-> "chain_fork", cursor |-> at + 1,
                                existing |-> stored, incoming |-> Prefix(chain, at)]
            BY <1>1, <1>3, <1>6, SMTT(20) DEF Conflict
        <2>5. at + 1 \in Nat
            BY <1>3
        <2> QED
            BY <1>3, <2>1, <2>3, <2>4, <2>5, PairConvicts, Zenon
    <1>7. CASE Overlap(n, b) = {} /\ ~Forks(n, b)
        <2>1. Len(chain) <= at /\ Prefix(stored, Len(chain)) # chain
            BY <1>1, <1>3, <1>7 DEF Conflicts, CheckpointDiffers, stored
        <2>2. Len(chain) \in 0 .. Len(chain)
            BY <1>2
        <2>3. Prefix(stored, Len(chain)) \in Signed(o) /\ Len(Prefix(stored, Len(chain))) = Len(chain)
            BY <1>4, <2>1, <2>2, Zenon
        <2>4. Conflict(n, b) = [origin |-> o, kind |-> "checkpoint", cursor |-> Len(chain),
                                existing |-> Prefix(stored, Len(chain)), incoming |-> chain]
            BY <1>1, <1>7, SMTT(20) DEF Conflict, stored
        <2> QED
            BY <1>2, <2>1, <2>3, <2>4, PairConvicts, Zenon
    <1> QED
        BY <1>5, <1>6, <1>7, Zenon

\* The stored chain after an import that met no conflict.
Extended(n, b) ==
    remote_events[n][b.origin] \o SubSeq(b.chain, known_cursor(n, b) + 1, Len(b.chain))

\* An import that finds no conflict leaves a signed chain that continues the
\* stored one, and a peer row that describes it.
LEMMA ImportExtends ==
    ASSUME FedTypeOK, StoredChainIsSigned, NEW n \in Nodes, NEW o \in Nodes,
           NEW chain \in Signed(o), NEW from \in 0 .. Len(chain), NEW b,
           b = Bundle(o, from, chain), ~Conflicts(n, b)
    PROVE  /\ Extended(n, b) \in Signed(o)
           /\ Len(remote_events[n][o]) <= Len(Extended(n, b))
           /\ Prefix(Extended(n, b), Len(remote_events[n][o])) = remote_events[n][o]
           /\ UpdatedPeer(n, b) = [known |-> TRUE, cursor |-> Len(Extended(n, b)),
                                   event_hash |-> Extended(n, b),
                                   checkpoint |-> Extended(n, b)]
    <1> DEFINE stored == remote_events[n][o]
               at == Len(stored)
    <1>1. b.origin = o /\ b.from = from /\ b.chain = chain
        BY DEF Bundle
    <1>2. chain \in Seq(Event) /\ Len(chain) \in Nat
        BY SignedType DEF Chain
    <1>3. /\ stored \in Signed(o) /\ stored \in Seq(Event) /\ at \in Nat
          /\ known_cursor(n, b) = at
          /\ federation_peers[n][o].cursor = at
          /\ federation_peers[n][o].event_hash = stored
          /\ federation_peers[n][o].checkpoint = stored
        BY <1>1, StoredFacts, SMTT(20) DEF known_cursor
    <1>4. Extended(n, b) = stored \o SubSeq(chain, at + 1, Len(chain))
        BY <1>1, <1>3 DEF Extended
    <1>5. ~Forks(n, b) /\ ~CheckpointDiffers(n, b)
        BY DEF Conflicts
    <1>6. Len(chain) > at => Prefix(chain, at) = stored
        BY <1>1, <1>3, <1>5, SMTT(20) DEF Forks
    <1>7. Len(chain) <= at => Prefix(stored, Len(chain)) = chain
        BY <1>1, <1>3, <1>5, SMTT(20) DEF CheckpointDiffers
    <1>8. UpdatedPeer(n, b) =
            [known |-> TRUE,
             cursor |-> IF Len(chain) > at THEN Len(chain) ELSE at,
             event_hash |-> IF Len(chain) > at THEN chain ELSE stored,
             checkpoint |-> IF Len(chain) >= at THEN chain ELSE stored]
        BY <1>1, <1>3, SMTT(20) DEF UpdatedPeer
    <1> HIDE DEF stored
    <1>9. CASE Len(chain) > at
        <2>1. Extended(n, b) = chain
            BY <1>2, <1>3, <1>4, <1>6, <1>9, CatchUp, SMTT(20)
        <2>2. Len(chain) >= at
            BY <1>2, <1>3, <1>9, SMTT(20)
        <2> QED
            BY <2>1, <2>2, <1>6, <1>8, <1>9, Zenon DEF stored
    <1>10. CASE ~(Len(chain) > at)
        <2>1. Len(chain) <= at
            BY <1>2, <1>3, <1>10, SMTT(20)
        <2>2. Extended(n, b) = stored
            BY <1>2, <1>3, <1>4, <2>1, SMTT(20)
        <2>3. Prefix(stored, at) = stored
            BY <1>3, WholePrefix
        <2>4. Len(chain) >= at => chain = stored
            BY <1>2, <1>3, <1>7, <2>1, <2>3, SMTT(20)
        <2>5. UpdatedPeer(n, b) = [known |-> TRUE, cursor |-> at, event_hash |-> stored,
                                   checkpoint |-> stored]
            BY <1>8, <1>10, <2>4, Zenon
        <2> QED
            BY <1>3, <2>2, <2>3, <2>5, SMTT(20) DEF stored
    <1> QED
        BY <1>9, <1>10

-----------------------------------------------------------------------------
(* The invariant.                                                          *)

\* Evidence keeps convicting while origins sign more.
LEMMA EvidenceKept ==
    ASSUME FedTypeOK, EvidenceIsSound, life' = life,
           equivocation_evidence' = equivocation_evidence,
           \A o \in Nodes : Signed(o) \subseteq Signed(o)'
    PROVE  EvidenceIsSound'
    <1>1. SUFFICES ASSUME NEW n \in Nodes, NEW e \in equivocation_evidence[n]
                   PROVE  /\ {e.existing, e.incoming} \subseteq Signed(e.origin)'
                          /\ Len(e.existing) = Len(e.incoming)
                          /\ e.existing # e.incoming
                          /\ life[e.origin] > 0
        BY Zenon DEF EvidenceIsSound
    <1>2. e.origin \in Nodes
        BY DEF FedTypeOK, Evidence
    <1>3. /\ {e.existing, e.incoming} \subseteq Signed(e.origin)
          /\ Len(e.existing) = Len(e.incoming)
          /\ e.existing # e.incoming
          /\ life[e.origin] > 0
        BY Zenon DEF EvidenceIsSound
    <1> QED
        BY <1>2, <1>3, Zenon

\* So does a stored chain.
LEMMA StoredKept ==
    ASSUME StoredChainIsSigned, remote_events' = remote_events,
           \A n, o \in Nodes :
               /\ federation_peers'[n][o].cursor = federation_peers[n][o].cursor
               /\ federation_peers'[n][o].event_hash = federation_peers[n][o].event_hash
               /\ federation_peers'[n][o].checkpoint = federation_peers[n][o].checkpoint,
           \A o \in Nodes : Signed(o) \subseteq Signed(o)'
    PROVE  StoredChainIsSigned'
    <1>1. SUFFICES ASSUME NEW n \in Nodes, NEW o \in Nodes
                   PROVE  /\ remote_events[n][o] \in Signed(o)'
                          /\ federation_peers'[n][o].cursor = Len(remote_events[n][o])
                          /\ federation_peers'[n][o].event_hash = remote_events[n][o]
                          /\ federation_peers'[n][o].checkpoint = remote_events[n][o]
        BY Zenon DEF StoredChainIsSigned
    <1>2. /\ remote_events[n][o] \in Signed(o)
          /\ federation_peers[n][o].cursor = Len(remote_events[n][o])
          /\ federation_peers[n][o].event_hash = remote_events[n][o]
          /\ federation_peers[n][o].checkpoint = remote_events[n][o]
        BY Zenon DEF StoredChainIsSigned
    <1> QED
        BY <1>2

\* Authoring an event keeps the invariant.
LEMMA AuthorKeeps ==
    ASSUME FedInv, NEW n \in Nodes, NEW kind \in ContentKinds, Author(n, kind)
    PROVE  FedInv'
    <1> USE DEF FedInv
    <1>1. NewEvent(n, kind) \in Event
        BY EventType
    <1>2. /\ log' = [log EXCEPT ![n] = Append(@, NewEvent(n, kind))]
          /\ life' = life /\ abandoned' = abandoned
          /\ UNCHANGED tables
        BY DEF Author
    <1>3. /\ federation_peers' = federation_peers /\ remote_events' = remote_events
          /\ remote_checkpoints' = remote_checkpoints
          /\ checkpoint_witnesses' = checkpoint_witnesses
          /\ federation_imports' = federation_imports
          /\ equivocation_evidence' = equivocation_evidence
        BY <1>2 DEF tables
    <1>4. FedTypeOK'
        BY <1>1, <1>2, <1>3 DEF FedTypeOK, Chain
    <1>5. \A o \in Nodes : Signed(o) \subseteq Signed(o)'
        BY <1>1, <1>2, SignedGrows, Zenon
    <1>6. StoredChainIsSigned'
        BY <1>3, <1>5, StoredKept, Zenon
    <1>7. EvidenceIsSound'
        BY <1>2, <1>3, <1>5, EvidenceKept, Zenon
    <1>8. SingleLife'
        BY <1>2, Zenon DEF SingleLife
    <1> QED
        BY <1>4, <1>6, <1>7, <1>8, SMTT(20)

\* A lost database keeps the invariant: the log it held is among the abandoned.
LEMMA LoseDatabaseKeeps ==
    ASSUME FedInv, NEW n \in Nodes, LoseDatabase(n)
    PROVE  FedInv'
    <1> USE DEF FedInv
    <1>1. \A o \in Nodes : Signed(o)' = Signed(o)
        BY SignedStays
    <1>2. FedTypeOK'
        <2>1. <<>> \in Chain
            BY DEF Chain
        <2>2. NoPeer \in Peer
            BY <2>1 DEF NoPeer, Peer
        <2> QED
            BY <2>1, <2>2 DEF FedTypeOK, LoseDatabase
    <1>3. StoredChainIsSigned'
        <2>1. SUFFICES ASSUME NEW m \in Nodes, NEW o \in Nodes
                       PROVE  /\ remote_events'[m][o] \in Signed(o)
                              /\ federation_peers'[m][o].cursor = Len(remote_events'[m][o])
                              /\ federation_peers'[m][o].event_hash = remote_events'[m][o]
                              /\ federation_peers'[m][o].checkpoint = remote_events'[m][o]
            BY <1>1, Zenon DEF StoredChainIsSigned
        <2>2. CASE m = n
            <3>1. remote_events'[m][o] = <<>> /\ federation_peers'[m][o] = NoPeer
                BY <2>2 DEF FedTypeOK, LoseDatabase
            <3>2. <<>> \in Signed(o)
                BY SignedType
            <3> QED
                BY <3>1, <3>2 DEF NoPeer
        <2>3. CASE m # n
            <3>1. /\ remote_events'[m] = remote_events[m]
                  /\ federation_peers'[m] = federation_peers[m]
                BY <2>3 DEF FedTypeOK, LoseDatabase
            <3> QED
                BY <3>1, StoredFacts
        <2> QED
            BY <2>2, <2>3
    <1>4. EvidenceIsSound'
        <2>1. SUFFICES ASSUME NEW m \in Nodes, NEW e \in equivocation_evidence'[m]
                       PROVE  /\ {e.existing, e.incoming} \subseteq Signed(e.origin)'
                              /\ Len(e.existing) = Len(e.incoming)
                              /\ e.existing # e.incoming
                              /\ life'[e.origin] > 0
            BY Zenon DEF EvidenceIsSound
        <2>2. e \in equivocation_evidence[m]
            BY DEF FedTypeOK, LoseDatabase
        <2>3. e.origin \in Nodes
            BY <2>2 DEF FedTypeOK, Evidence
        <2>4. /\ {e.existing, e.incoming} \subseteq Signed(e.origin)
              /\ Len(e.existing) = Len(e.incoming)
              /\ e.existing # e.incoming
              /\ life[e.origin] > 0
            BY <2>2, Zenon DEF EvidenceIsSound
        <2>5. life'[e.origin] > 0
            BY <2>3, <2>4 DEF FedTypeOK, LoseDatabase
        <2> QED
            BY <1>1, <2>3, <2>4, <2>5, Zenon
    <1>5. SingleLife'
        BY DEF SingleLife, FedTypeOK, LoseDatabase
    <1> QED
        BY <1>2, <1>3, <1>4, <1>5, SMTT(20)

\* Recording equivocation evidence keeps the invariant.
LEMMA EquivocationKeeps ==
    ASSUME FedInv, NEW n \in Nodes, NEW o \in Nodes,
           NEW chain \in Signed(o), NEW from \in 0 .. Len(chain), NEW b,
           b = Bundle(o, from, chain), record_equivocation(n, b)
    PROVE  FedInv'
    <1> USE DEF FedInv
    <1>1. b.origin = o
        BY DEF Bundle
    <1>2. Convicts(Conflict(n, b), o)
        BY ConflictConvicts DEF record_equivocation
    <1>3. equivocation_evidence' = [equivocation_evidence EXCEPT ![n] = @ \cup {Conflict(n, b)}]
        BY DEF record_equivocation
    <1>4. /\ log' = log /\ life' = life /\ abandoned' = abandoned
          /\ remote_events' = remote_events /\ remote_checkpoints' = remote_checkpoints
          /\ checkpoint_witnesses' = checkpoint_witnesses
          /\ federation_imports' = federation_imports
        BY DEF record_equivocation
    <1>5. federation_peers' = [federation_peers EXCEPT ![n][o].known = TRUE]
        BY <1>1 DEF record_equivocation
    <1> DEFINE peer == [federation_peers[n][o] EXCEPT !.known = TRUE]
    <1>5a. /\ peer \in Peer
          /\ peer.cursor = federation_peers[n][o].cursor
          /\ peer.event_hash = federation_peers[n][o].event_hash
          /\ peer.checkpoint = federation_peers[n][o].checkpoint
        <2>1. federation_peers[n][o] \in Peer
            BY DEF FedTypeOK
        <2> QED
            BY <2>1, Zenon DEF Peer
    <1>5b. federation_peers' = [federation_peers EXCEPT ![n] = [federation_peers[n] EXCEPT ![o] = peer]]
        BY <1>5 DEF FedTypeOK
    <1> HIDE DEF peer
    <1>6. federation_peers' \in [Nodes -> [Nodes -> Peer]]
        BY <1>5a, <1>5b DEF FedTypeOK
    <1>7. FedTypeOK'
        BY <1>2, <1>3, <1>4, <1>6, Zenon DEF FedTypeOK, Convicts
    <1>8. \A p \in Nodes : Signed(p)' = Signed(p)
        BY <1>4, Zenon DEF Signed
    <1>9. StoredChainIsSigned'
        <2>1. \A m, p \in Nodes :
                /\ federation_peers'[m][p].cursor = federation_peers[m][p].cursor
                /\ federation_peers'[m][p].event_hash = federation_peers[m][p].event_hash
                /\ federation_peers'[m][p].checkpoint = federation_peers[m][p].checkpoint
            BY <1>5a, <1>5b DEF FedTypeOK
        <2>2. \A p \in Nodes : Signed(p) \subseteq Signed(p)'
            BY <1>8, Zenon
        <2> QED
            BY <1>4, <2>1, <2>2, StoredKept, Zenon
    <1>10. EvidenceIsSound'
        <2>1. SUFFICES ASSUME NEW m \in Nodes, NEW e \in equivocation_evidence'[m]
                       PROVE  /\ {e.existing, e.incoming} \subseteq Signed(e.origin)'
                              /\ Len(e.existing) = Len(e.incoming)
                              /\ e.existing # e.incoming
                              /\ life[e.origin] > 0
            BY <1>4, Zenon DEF EvidenceIsSound
        <2>2. e \in equivocation_evidence[m] \/ e = Conflict(n, b)
            BY <1>3 DEF FedTypeOK
        <2>3. CASE e \in equivocation_evidence[m]
            <3>1. e.origin \in Nodes
                BY <2>3 DEF FedTypeOK, Evidence
            <3>2. /\ {e.existing, e.incoming} \subseteq Signed(e.origin)
                  /\ Len(e.existing) = Len(e.incoming)
                  /\ e.existing # e.incoming
                  /\ life[e.origin] > 0
                BY <2>3, Zenon DEF EvidenceIsSound
            <3> QED
                BY <1>8, <3>1, <3>2, Zenon
        <2>4. CASE e = Conflict(n, b)
            <3>1. /\ e.origin = o
                  /\ e.existing \in Signed(o) /\ e.incoming \in Signed(o)
                  /\ Len(e.existing) = Len(e.incoming)
                  /\ e.existing # e.incoming
                BY <1>2, <2>4 DEF Convicts
            <3>2. life[o] > 0
                BY <3>1, TwoChainsTwoLives, Zenon
            <3> QED
                BY <1>8, <3>1, <3>2, Zenon
        <2> QED
            BY <2>2, <2>3, <2>4
    <1>11. SingleLife'
        BY <1>4, Zenon DEF SingleLife
    <1> QED
        BY <1>7, <1>9, <1>10, <1>11, SMTT(20)

\* An import signs at most a witness.
LEMMA WitnessingSigns ==
    ASSUME FedTypeOK, NEW n \in Nodes, NEW b,
           WitnessImport(n, b) \/ ReuseWitness(n, b), abandoned' = abandoned
    PROVE  /\ \A o \in Nodes : Signed(o) \subseteq Signed(o)'
           /\ \/ \A o \in Nodes : Signed(o)' = Signed(o)
              \/ \E e \in Event :
                    /\ Signed(n)' = Signed(n) \cup {Append(log[n], e)}
                    /\ \A o \in Nodes \ {n} : Signed(o)' = Signed(o)
    <1>1. CASE WitnessImport(n, b)
        <2> DEFINE e == NewEvent(n, "checkpoint_witnessed")
        <2>1. e \in Event
            BY EventType
        <2>2. log' = [log EXCEPT ![n] = Append(@, e)]
            BY <1>1 DEF WitnessImport
        <2> HIDE DEF e
        <2>3. /\ Signed(n)' = Signed(n) \cup {Append(log[n], e)}
              /\ \A o \in Nodes \ {n} : Signed(o)' = Signed(o)
            BY <2>1, <2>2, SignedGrows, Zenon
        <2> QED
            BY <2>1, <2>3, Zenon
    <1>2. CASE ReuseWitness(n, b)
        <2>1. log' = log
            BY <1>2 DEF ReuseWitness
        <2>2. \A o \in Nodes : Signed(o)' = Signed(o)
            BY <2>1, Zenon DEF Signed
        <2> QED
            BY <2>2, Zenon
    <1> QED
        BY <1>1, <1>2

\* An accepted import writes rows of the right types.
LEMMA ImportKeepsTypes ==
    ASSUME FedInv, NEW n \in Nodes, NEW o \in Nodes,
           NEW chain \in Signed(o), NEW from \in 0 .. Len(chain), NEW b,
           b = Bundle(o, from, chain), import_federation_bundle(n, b)
    PROVE  FedTypeOK'
    <1> USE DEF FedInv
    <1>1. b.origin = o /\ b.chain = chain
        BY SMTT(20) DEF Bundle
    <1>2. chain \in Chain /\ Extended(n, b) \in Chain
        BY ImportExtends, SignedType DEF import_federation_bundle
    <1>3. known_cursor(n, b) \in Nat /\ Len(Extended(n, b)) \in Nat /\ Len(log[n]) + 1 \in Nat
        <2>1. known_cursor(n, b) \in Nat
            BY <1>1, StoredFacts DEF known_cursor
        <2>2. log[n] \in Seq(Event) /\ Extended(n, b) \in Seq(Event)
            BY <1>2, SMTT(20) DEF FedTypeOK, Chain
        <2> QED
            BY <2>1, <2>2, SMTT(20)
    <1>4. UpdatedPeer(n, b) = [known |-> TRUE, cursor |-> Len(Extended(n, b)),
                               event_hash |-> Extended(n, b), checkpoint |-> Extended(n, b)]
        BY ImportExtends DEF import_federation_bundle
    <1>5. UpdatedPeer(n, b) \in Peer /\ UpdatedPeer(n, b).cursor \in Nat
        BY <1>2, <1>3, <1>4, SMTT(20) DEF Peer
    <1>6. \A sequence \in Nat : ImportWindow(n, b, sequence) \in Window
        BY <1>1, <1>3, <1>5, SMTT(20) DEF ImportWindow, Window
    <1>7. remote_events' \in [Nodes -> [Nodes -> Chain]]
        <2>1. remote_events' = [remote_events EXCEPT ![n] = [remote_events[n] EXCEPT ![o] = Extended(n, b)]]
            BY <1>1 DEF import_federation_bundle, Extended, FedTypeOK
        <2> QED
            BY <1>2, <2>1, SMTT(20) DEF FedTypeOK
    <1>8. remote_checkpoints' \in [Nodes -> [Nodes -> SUBSET Chain]]
        <2>1. remote_checkpoints' = [remote_checkpoints EXCEPT ![n][o] = @ \cup {chain}]
            BY <1>1 DEF import_federation_bundle
        <2> QED
            BY <1>2, <2>1 DEF FedTypeOK
    <1>9. federation_peers' \in [Nodes -> [Nodes -> Peer]]
        <2>1. federation_peers' = [federation_peers EXCEPT ![n][o] = UpdatedPeer(n, b)]
            BY <1>1, SMTT(20) DEF import_federation_bundle
        <2> QED
            BY <1>5, <2>1, SMTT(20) DEF FedTypeOK
    <1>10. /\ log' \in [Nodes -> Chain]
           /\ checkpoint_witnesses' \in [Nodes -> SUBSET Witness]
           /\ federation_imports' \in [Nodes -> SUBSET Window]
        <2>1. CASE WitnessImport(n, b)
            <3>1. NewEvent(n, "checkpoint_witnessed") \in Event
                BY EventType
            <3>2. log' \in [Nodes -> Chain]
                BY <2>1, <3>1, SMTT(20) DEF WitnessImport, FedTypeOK, Chain
            <3>3. [origin |-> o, event_hash |-> chain, sequence |-> Len(log[n]) + 1] \in Witness
                BY <1>2, <1>3, SMTT(20) DEF Witness
            <3>4. checkpoint_witnesses' \in [Nodes -> SUBSET Witness]
                BY <1>1, <2>1, <3>3, SMTT(20) DEF WitnessImport, FedTypeOK
            <3>5. federation_imports' \in [Nodes -> SUBSET Window]
                BY <1>3, <1>6, <2>1, SMTT(20) DEF WitnessImport, FedTypeOK
            <3> QED
                BY <3>2, <3>4, <3>5, SMTT(20)
        <2>2. CASE ReuseWitness(n, b)
            <3> DEFINE W == {ImportWindow(n, b, w.sequence) :
                                w \in IF should_witness(n, b) THEN already_witnessed(n, b) ELSE {}}
            <3>1. \A w \in already_witnessed(n, b) : w.sequence \in Nat
                BY DEF already_witnessed, FedTypeOK, Witness
            <3>2. W \in SUBSET Window
                BY <1>6, <3>1, SMTT(20)
            <3>3. federation_imports' = [federation_imports EXCEPT ![n] = @ \cup W]
                BY <2>2 DEF ReuseWitness
            <3> HIDE DEF W
            <3>4. federation_imports' \in [Nodes -> SUBSET Window]
                BY <3>2, <3>3, SMTT(20) DEF FedTypeOK
            <3>5. log' = log /\ checkpoint_witnesses' = checkpoint_witnesses
                BY <2>2, SMTT(20) DEF ReuseWitness
            <3> QED
                BY <3>4, <3>5, SMTT(20) DEF FedTypeOK
        <2> QED
            BY <2>1, <2>2 DEF import_federation_bundle
    <1>11. life' = life /\ abandoned' = abandoned /\ equivocation_evidence' = equivocation_evidence
        BY SMTT(20) DEF import_federation_bundle
    <1> QED
        BY <1>7, <1>8, <1>9, <1>10, <1>11, SMTT(20) DEF FedTypeOK

\* An accepted import keeps the invariant.
LEMMA ImportKeeps ==
    ASSUME FedInv, NEW n \in Nodes, NEW o \in Nodes,
           NEW chain \in Signed(o), NEW from \in 0 .. Len(chain), NEW b,
           b = Bundle(o, from, chain), import_federation_bundle(n, b)
    PROVE  FedInv'
    <1> USE DEF FedInv
    <1>1. b.origin = o
        BY DEF Bundle
    <1>2. FedTypeOK'
        BY ImportKeepsTypes
    <1>3. life' = life /\ abandoned' = abandoned /\ equivocation_evidence' = equivocation_evidence
        BY DEF import_federation_bundle
    <1>4. \A p \in Nodes : Signed(p) \subseteq Signed(p)'
        BY <1>3, WitnessingSigns, Zenon DEF import_federation_bundle
    <1>5. StoredChainIsSigned'
        <2>1. SUFFICES ASSUME NEW m \in Nodes, NEW p \in Nodes
                       PROVE  /\ remote_events'[m][p] \in Signed(p)'
                              /\ federation_peers'[m][p].cursor = Len(remote_events'[m][p])
                              /\ federation_peers'[m][p].event_hash = remote_events'[m][p]
                              /\ federation_peers'[m][p].checkpoint = remote_events'[m][p]
            BY Zenon DEF StoredChainIsSigned
        <2>2. CASE m = n /\ p = o
            <3>1. remote_events'[m][p] = Extended(n, b) /\ federation_peers'[m][p] = UpdatedPeer(n, b)
                BY <1>1, <2>2, Zenon DEF import_federation_bundle, Extended, FedTypeOK
            <3>2. /\ Extended(n, b) \in Signed(o)
                  /\ UpdatedPeer(n, b) = [known |-> TRUE, cursor |-> Len(Extended(n, b)),
                                          event_hash |-> Extended(n, b),
                                          checkpoint |-> Extended(n, b)]
                BY ImportExtends DEF import_federation_bundle
            <3> QED
                BY <1>4, <2>2, <3>1, <3>2, SMTT(20)
        <2>3. CASE ~(m = n /\ p = o)
            <3>1. remote_events'[m][p] = remote_events[m][p] /\ federation_peers'[m][p] = federation_peers[m][p]
                BY <1>1, <2>3, SMTT(20) DEF import_federation_bundle, FedTypeOK
            <3> QED
                BY <1>4, <3>1, StoredFacts, SMTT(20)
        <2> QED
            BY <2>2, <2>3
    <1>6. EvidenceIsSound'
        BY <1>3, <1>4, EvidenceKept, Zenon
    <1>7. SingleLife'
        BY <1>3, Zenon DEF SingleLife
    <1> QED
        BY <1>2, <1>5, <1>6, <1>7

\* Empty databases satisfy the invariant.
LEMMA InitHolds == FedInit => FedInv
    <1>1. SUFFICES ASSUME FedInit PROVE FedInv
        OBVIOUS
    <1>2. <<>> \in Chain
        BY DEF Chain
    <1>3. NoPeer \in Peer
        BY <1>2 DEF NoPeer, Peer
    <1>4. FedTypeOK
        BY <1>1, <1>2, <1>3, SMTT(20) DEF FedInit, FedTypeOK
    <1>5. StoredChainIsSigned
        <2>1. SUFFICES ASSUME NEW n \in Nodes, NEW o \in Nodes
                       PROVE  /\ remote_events[n][o] \in Signed(o)
                              /\ federation_peers[n][o].cursor = Len(remote_events[n][o])
                              /\ federation_peers[n][o].event_hash = remote_events[n][o]
                              /\ federation_peers[n][o].checkpoint = remote_events[n][o]
            BY Zenon DEF StoredChainIsSigned
        <2>2. remote_events[n][o] = <<>> /\ federation_peers[n][o] = NoPeer
            BY <1>1 DEF FedInit
        <2>3. <<>> \in Signed(o)
            BY <1>4, SignedType, SMTT(20)
        <2> QED
            BY <2>2, <2>3 DEF NoPeer
    <1>6. EvidenceIsSound
        BY <1>1 DEF FedInit, EvidenceIsSound
    <1>7. SingleLife
        BY <1>1 DEF FedInit, SingleLife
    <1> QED
        BY <1>4, <1>5, <1>6, <1>7, SMTT(20) DEF FedInv

\* A step that changes nothing keeps the invariant.
LEMMA StutterKeeps ==
    ASSUME FedInv, UNCHANGED fvars
    PROVE  FedInv'
    <1>1. /\ log' = log /\ life' = life /\ abandoned' = abandoned
          /\ federation_peers' = federation_peers /\ remote_events' = remote_events
          /\ remote_checkpoints' = remote_checkpoints
          /\ checkpoint_witnesses' = checkpoint_witnesses
          /\ federation_imports' = federation_imports
          /\ equivocation_evidence' = equivocation_evidence
        BY DEF fvars, tables
    <1>2. \A o : Signed(o)' = Signed(o)
        BY <1>1, Zenon DEF Signed
    <1>3. FedTypeOK'
        BY <1>1, Zenon DEF FedInv, FedTypeOK
    <1>4. StoredChainIsSigned'
        BY <1>1, <1>2, Zenon DEF FedInv, StoredChainIsSigned
    <1>5. EvidenceIsSound'
        BY <1>1, <1>2, Zenon DEF FedInv, EvidenceIsSound
    <1>6. SingleLife'
        BY <1>1, Zenon DEF FedInv, SingleLife
    <1> QED
        BY <1>3, <1>4, <1>5, <1>6, SMTT(20) DEF FedInv

\* Every step of the federation keeps the invariant.
LEMMA StepKeeps == FedInv /\ [FedNext]_fvars => FedInv'
    <1>1. SUFFICES ASSUME FedInv, [FedNext]_fvars PROVE FedInv'
        OBVIOUS
    <1>2. ASSUME NEW n \in Nodes, NEW kind \in ContentKinds, Author(n, kind) PROVE FedInv'
        BY <1>1, <1>2, AuthorKeeps, SMTT(20)
    <1>3. ASSUME NEW n \in Nodes, LoseDatabase(n) PROVE FedInv'
        BY <1>1, <1>3, LoseDatabaseKeeps, SMTT(20)
    <1>4. ASSUME NEW n \in Nodes, NEW o \in Nodes, Deliver(n, o) PROVE FedInv'
        <2>0. PICK chain \in Signed(o) : \E from \in 0 .. Len(chain) :
                  \/ record_equivocation(n, Bundle(o, from, chain))
                  \/ import_federation_bundle(n, Bundle(o, from, chain))
            BY <1>4, Zenon DEF Deliver
        <2>1. PICK from \in 0 .. Len(chain) :
                  \/ record_equivocation(n, Bundle(o, from, chain))
                  \/ import_federation_bundle(n, Bundle(o, from, chain))
            BY <2>0, Zenon
        <2>2. CASE record_equivocation(n, Bundle(o, from, chain))
            BY <1>1, <2>2, EquivocationKeeps, Zenon
        <2>3. CASE import_federation_bundle(n, Bundle(o, from, chain))
            BY <1>1, <2>3, ImportKeeps, Zenon
        <2> QED
            BY <2>1, <2>2, <2>3, SMTT(20)
    <1>5. CASE UNCHANGED fvars
        BY <1>1, <1>5, StutterKeeps, SMTT(20)
    <1> QED
        BY <1>1, <1>2, <1>3, <1>4, <1>5, Zenon DEF FedNext

\* However many nodes exchange bundles, in any order and from any relay, and however
\* often databases are lost: types, signed stored chains and sound evidence persist.
THEOREM FederationInvariant == FedSpec => []FedInv
    BY InitHolds, StepKeeps, PTL DEF FedSpec

\* Every stored log is one chain its origin signed, as long as its cursor
\* (import_federation_bundle), for any nodes, histories and bundle limit.
THEOREM StoredChainsAlwaysSigned == FedSpec => []StoredChainIsSigned
    <1>1. FedInv => StoredChainIsSigned
        BY SMTT(20) DEF FedInv
    <1> QED
        BY <1>1, FederationInvariant, PTL

\* Every record of record_equivocation convicts an origin that lost its database, and
\* no other, for any nodes, histories and bundle limit.
THEOREM EvidenceAlwaysConvicts == FedSpec => []EvidenceIsSound
    <1>1. FedInv => EvidenceIsSound
        BY DEF FedInv
    <1> QED
        BY <1>1, FederationInvariant, PTL

-----------------------------------------------------------------------------
(* The refinement: every step signs, learns, accuses, forgets or stutters. *)

signedMap == [o \in Nodes |-> Signed(o)]
accusedMap == [n \in Nodes |-> {e.origin : e \in equivocation_evidence[n]}]

\* Signing one event more is the abstract step of the origin.
LEMMA SignMaps ==
    ASSUME FedTypeOK, NEW n \in Nodes, NEW e \in Event,
           Signed(n)' = Signed(n) \cup {Append(log[n], e)},
           \A o \in Nodes \ {n} : Signed(o)' = Signed(o)
    PROVE  Replicas!Sign(n)
    <1> DEFINE d == Append(log[n], e)
    <1>1. log[n] \in Seq(Event)
        BY DEF FedTypeOK, Chain
    <1>2. d # <<>> /\ Len(d) - 1 = Len(log[n])
        BY <1>1
    <1>3. SubSeq(d, 1, Len(d) - 1) = log[n]
        <2>1. Prefix(d, Len(log[n])) = Prefix(log[n], Len(log[n]))
            <3>1. Len(log[n]) \in 0 .. Len(log[n])
                BY <1>1
            <3> QED
                BY <1>1, <3>1, PrefixOfAppend
        <2>2. Prefix(log[n], Len(log[n])) = log[n]
            BY <1>1, WholePrefix
        <2> QED
            BY <1>2, <2>1, <2>2, Zenon DEF Prefix
    <1>4. log[n] \in Signed(n)
        <2>1. log[n] \in Logs(n) /\ Logs(n) \in SUBSET Seq(Event)
            BY SignedType DEF Logs
        <2>2. log[n] \in Histories(Logs(n))
            BY <2>1, HistoriesHold, Zenon
        <2> QED
            BY <2>2, SignedIs, Zenon
    <1> HIDE DEF d
    <1>5. Signed(n)' = Signed(n) \cup {d}
        BY DEF d
    <1>6. signedMap'[n] = Signed(n)' /\ signedMap[n] = Signed(n)
        BY Zenon DEF signedMap
    <1>7. signedMap' = [signedMap EXCEPT ![n] = @ \cup {d}]
        BY <1>5, Zenon DEF signedMap
    <1>8. d \in signedMap'[n]
        BY <1>5, <1>6, Zenon
    <1>9. SubSeq(d, 1, Len(d) - 1) \in signedMap[n]
        BY <1>3, <1>4, <1>6, Zenon DEF d
    <1> QED
        BY <1>2, <1>7, <1>8, <1>9, Zenon DEF Replicas!Sign, signedMap, d

\* When no origin signs anything, the abstract histories stay.
LEMMA SignedMapSame ==
    ASSUME \A o \in Nodes : Signed(o)' = Signed(o)
    PROVE  signedMap' = signedMap
    BY DEF signedMap

\* Authoring an event is the abstract Author.
LEMMA AuthorMaps ==
    ASSUME FedInv, NEW n \in Nodes, NEW kind \in ContentKinds, Author(n, kind)
    PROVE  Replicas!Author(n)
    <1>1. FedTypeOK /\ NewEvent(n, kind) \in Event
        BY EventType DEF FedInv
    <1>2. /\ Signed(n)' = Signed(n) \cup {Append(log[n], NewEvent(n, kind))}
          /\ \A o \in Nodes \ {n} : Signed(o)' = Signed(o)
        BY <1>1, SignedGrows, Zenon DEF Author
    <1>3. Replicas!Sign(n)
        BY <1>1, <1>2, SignMaps, Zenon
    <1>4. remote_events' = remote_events /\ equivocation_evidence' = equivocation_evidence
        BY DEF Author, tables
    <1>5. accusedMap' = accusedMap
        BY <1>4, Zenon DEF accusedMap
    <1> QED
        BY <1>3, <1>4, <1>5, Zenon DEF Replicas!Author, accusedMap

\* A lost database is the abstract Forget.
LEMMA LoseDatabaseMaps ==
    ASSUME FedInv, NEW n \in Nodes, LoseDatabase(n)
    PROVE  Replicas!Forget(n)
    <1>1. FedTypeOK
        BY DEF FedInv
    <1>2. signedMap' = signedMap
        BY <1>1, SignedStays, SignedMapSame
    <1>3. remote_events' = [remote_events EXCEPT ![n] = [o \in Nodes |-> <<>>]]
        BY DEF LoseDatabase
    <1>4. accusedMap' = [accusedMap EXCEPT ![n] = {}]
        <2>1. equivocation_evidence'[n] = {}
            BY <1>1 DEF LoseDatabase, FedTypeOK
        <2>2. \A m \in Nodes \ {n} : equivocation_evidence'[m] = equivocation_evidence[m]
            BY <1>1 DEF LoseDatabase, FedTypeOK
        <2> QED
            BY <2>1, <2>2, Zenon DEF accusedMap
    <1> QED
        BY <1>2, <1>3, <1>4, Zenon DEF Replicas!Forget, signedMap, accusedMap

\* Two chains of one length fork: neither continues the other.
LEMMA ConvictedIsForked ==
    ASSUME FedTypeOK, NEW o \in Nodes, NEW c \in Signed(o), NEW d \in Signed(o),
           Len(c) = Len(d), c # d
    PROVE  Replicas!Forked(o)
    <1>1. c \in Seq(Event) /\ d \in Seq(Event)
        BY SignedType DEF Chain
    <1>2. SubSeq(c, 1, Len(d)) = c /\ SubSeq(d, 1, Len(c)) = d
        BY <1>1, WholePrefix, Zenon DEF Prefix
    <1>3. ~Replicas!Continues(c, d) /\ ~Replicas!Continues(d, c)
        BY <1>2, Zenon DEF Replicas!Continues
    <1>4. c \in signedMap[o] /\ d \in signedMap[o]
        BY Zenon DEF signedMap
    <1> QED
        BY <1>3, <1>4, Zenon DEF Replicas!Forked, signedMap

\* Recording equivocation evidence is the abstract Accuse.
LEMMA EquivocationMaps ==
    ASSUME FedInv, NEW n \in Nodes, NEW o \in Nodes,
           NEW chain \in Signed(o), NEW from \in 0 .. Len(chain), NEW b,
           b = Bundle(o, from, chain), record_equivocation(n, b)
    PROVE  Replicas!Accuse(n, o)
    <1> USE DEF FedInv
    <1>1. Convicts(Conflict(n, b), o)
        BY ConflictConvicts DEF record_equivocation
    <1>2. Replicas!Forked(o)
        BY <1>1, ConvictedIsForked, Zenon DEF Convicts
    <1>3. equivocation_evidence' = [equivocation_evidence EXCEPT ![n] = @ \cup {Conflict(n, b)}]
        BY DEF record_equivocation
    <1>4. log' = log /\ abandoned' = abandoned /\ remote_events' = remote_events
        BY DEF record_equivocation
    <1>5. signedMap' = signedMap
        BY <1>4, Zenon DEF signedMap, Signed
    <1>6. accusedMap' = [accusedMap EXCEPT ![n] = @ \cup {o}]
        <2>1. equivocation_evidence'[n] = equivocation_evidence[n] \cup {Conflict(n, b)}
            BY <1>3 DEF FedTypeOK
        <2>2. \A m \in Nodes \ {n} : equivocation_evidence'[m] = equivocation_evidence[m]
            BY <1>3 DEF FedTypeOK
        <2>3. Conflict(n, b).origin = o
            BY <1>1 DEF Convicts
        <2>4. {e.origin : e \in equivocation_evidence'[n]}
                = {e.origin : e \in equivocation_evidence[n]} \cup {o}
            BY <2>1, <2>3, Zenon
        <2> QED
            BY <2>2, <2>4, Zenon DEF accusedMap
    <1> QED
        BY <1>2, <1>4, <1>5, <1>6, Zenon DEF Replicas!Accuse, signedMap, accusedMap

\* An accepted import is the abstract Learn.
LEMMA ImportMaps ==
    ASSUME FedInv, NEW n \in Nodes, NEW o \in Nodes,
           NEW chain \in Signed(o), NEW from \in 0 .. Len(chain), NEW b,
           b = Bundle(o, from, chain), import_federation_bundle(n, b)
    PROVE  Replicas!Learn(n, o)
    <1> USE DEF FedInv
    <1>1. b.origin = o
        BY SMTT(20) DEF Bundle
    <1>2. /\ Extended(n, b) \in Signed(o)
          /\ Len(remote_events[n][o]) <= Len(Extended(n, b))
          /\ Prefix(Extended(n, b), Len(remote_events[n][o])) = remote_events[n][o]
        BY ImportExtends DEF import_federation_bundle
    <1>3. Replicas!Continues(Extended(n, b), remote_events[n][o])
        BY <1>2, Zenon DEF Replicas!Continues, Prefix
    <1>4. remote_events' = [remote_events EXCEPT ![n][o] = Extended(n, b)]
        BY <1>1, SMTT(20) DEF import_federation_bundle, Extended
    <1>5. abandoned' = abandoned /\ equivocation_evidence' = equivocation_evidence
        BY DEF import_federation_bundle
    <1>6. Replicas!Sign(n) \/ signedMap' = signedMap
        <2>1. \/ \A p \in Nodes : Signed(p)' = Signed(p)
              \/ \E e \in Event :
                    /\ Signed(n)' = Signed(n) \cup {Append(log[n], e)}
                    /\ \A p \in Nodes \ {n} : Signed(p)' = Signed(p)
            BY <1>5, WitnessingSigns, Zenon DEF import_federation_bundle
        <2> QED
            BY <2>1, SignMaps, SignedMapSame, Zenon
    <1>7. accusedMap' = accusedMap
        BY <1>5, Zenon DEF accusedMap
    <1>8. Extended(n, b) \in signedMap[o]
        BY <1>2, Zenon DEF signedMap
    <1> QED
        BY <1>3, <1>4, <1>6, <1>7, <1>8, Zenon DEF Replicas!Learn, signedMap, accusedMap

\* Empty databases are the abstract initial state.
LEMMA InitMaps == FedInit => Replicas!Init
    <1>1. SUFFICES ASSUME FedInit PROVE Replicas!Init
        OBVIOUS
    <1>2. \A o \in Nodes : Signed(o) = {<<>>}
        <2>1. SUFFICES ASSUME NEW o \in Nodes PROVE Signed(o) = {<<>>}
            OBVIOUS
        <2>2. Logs(o) = {<<>>}
            BY <1>1 DEF FedInit, Logs
        <2>3. FedTypeOK
            BY <1>1, InitHolds DEF FedInv
        <2>4. <<>> \in Signed(o)
            BY <2>3, SignedType
        <2>5. ASSUME NEW c \in Signed(o) PROVE c = <<>>
            <3>0. c \in Histories({<<>>})
                BY <2>2, <2>5, SignedIs, Zenon
            <3>1. \E i \in 0 .. Len(<<>>) : c = Prefix(<<>>, i)
                BY <3>0, SMTT(20) DEF Histories
            <3>2. 0 .. Len(<<>>) = {0}
                OBVIOUS
            <3>3. c = Prefix(<<>>, 0)
                BY <3>1, <3>2, Zenon
            <3> QED
                BY <3>3, EmptyPrefix, Zenon
        <2> QED
            BY <2>4, <2>5, Zenon
    <1>3. signedMap = [o \in Nodes |-> {<<>>}]
        BY <1>2 DEF signedMap
    <1>4. accusedMap = [n \in Nodes |-> {}]
        BY <1>1 DEF FedInit, accusedMap
    <1> QED
        BY <1>1, <1>3, <1>4, Zenon DEF Replicas!Init, FedInit, signedMap, accusedMap

\* Every step of the federation is an abstract step or a stutter.
LEMMA StepMaps == FedInv /\ [FedNext]_fvars => [Replicas!Next]_(Replicas!rvars)
    <1>1. SUFFICES ASSUME FedInv, [FedNext]_fvars
                   PROVE  Replicas!Next \/ UNCHANGED Replicas!rvars
        OBVIOUS
    <1>2. ASSUME NEW n \in Nodes, NEW kind \in ContentKinds, Author(n, kind)
          PROVE  Replicas!Next
        BY <1>1, <1>2, AuthorMaps, Zenon DEF Replicas!Next
    <1>3. ASSUME NEW n \in Nodes, LoseDatabase(n)
          PROVE  Replicas!Next
        BY <1>1, <1>3, LoseDatabaseMaps, Zenon DEF Replicas!Next
    <1>4. ASSUME NEW n \in Nodes, NEW o \in Nodes, Deliver(n, o)
          PROVE  Replicas!Next
        <2>1. PICK chain \in Signed(o) : \E from \in 0 .. Len(chain) :
                  \/ record_equivocation(n, Bundle(o, from, chain))
                  \/ import_federation_bundle(n, Bundle(o, from, chain))
            BY <1>4, Zenon DEF Deliver
        <2>2. PICK from \in 0 .. Len(chain) :
                  \/ record_equivocation(n, Bundle(o, from, chain))
                  \/ import_federation_bundle(n, Bundle(o, from, chain))
            BY <2>1, Zenon
        <2>3. CASE record_equivocation(n, Bundle(o, from, chain))
            BY <1>1, <2>3, EquivocationMaps, Zenon DEF Replicas!Next
        <2>4. CASE import_federation_bundle(n, Bundle(o, from, chain))
            BY <1>1, <2>4, ImportMaps, Zenon DEF Replicas!Next
        <2> QED
            BY <2>2, <2>3, <2>4, SMTT(20)
    <1>5. CASE UNCHANGED fvars
        <2>1. /\ log' = log /\ abandoned' = abandoned /\ remote_events' = remote_events
              /\ equivocation_evidence' = equivocation_evidence
            BY <1>5 DEF fvars, tables
        <2>2. signedMap' = signedMap /\ accusedMap' = accusedMap
            BY <2>1, Zenon DEF signedMap, accusedMap, Signed
        <2> QED
            BY <2>1, <2>2, Zenon DEF Replicas!rvars, signedMap, accusedMap
    <1> QED
        BY <1>1, <1>2, <1>3, <1>4, <1>5, Zenon DEF FedNext

\* For any nodes, histories and bundle limit, importing bundles implements replicas
\* that follow each origin along one signed history and accuse only forked origins.
THEOREM FederationImplementsReplicas == FedSpec => ImplementsReplicas
    BY InitMaps, StepMaps, FederationInvariant, PTL
       DEF FedSpec, ImplementsReplicas, Replicas!Spec

=============================================================================
