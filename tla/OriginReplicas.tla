--------------------------- MODULE OriginReplicas ---------------------------
(***************************************************************************)
(* What federation promises, without bundles, cursors, checkpoints or      *)
(* witnesses: every origin signs a growing set of histories; a replica's   *)
(* copy of an origin is one of them and only ever grows into a longer one; *)
(* an origin is accused only when it has signed two histories of which     *)
(* neither continues the other.  Federation implements this.               *)
(***************************************************************************)
EXTENDS Integers, Sequences

CONSTANT Nodes

VARIABLES
    signed,     \* per origin: the histories it has signed
    copy,       \* per replica and origin: the history the replica holds
    accused     \* per replica: the origins it holds evidence against

rvars == <<signed, copy, accused>>

Continues(d, c) == Len(c) <= Len(d) /\ SubSeq(d, 1, Len(c)) = c

Forked(o) == \E c, d \in signed[o] : ~Continues(c, d) /\ ~Continues(d, c)

Init ==
    /\ signed = [o \in Nodes |-> {<<>>}]
    /\ copy = [n \in Nodes |-> [o \in Nodes |-> <<>>]]
    /\ accused = [n \in Nodes |-> {}]

\* The origin signs one event more after a history of its own.
Sign(o) ==
    \E d \in signed'[o] :
        /\ d # <<>>
        /\ SubSeq(d, 1, Len(d) - 1) \in signed[o]
        /\ signed' = [signed EXCEPT ![o] = @ \cup {d}]

Author(o) == Sign(o) /\ UNCHANGED <<copy, accused>>

\* The replica catches up, and may sign a witness of it.
Learn(n, o) ==
    /\ \E d \in signed[o] :
        Continues(d, copy[n][o]) /\ copy' = [copy EXCEPT ![n][o] = d]
    /\ Sign(n) \/ UNCHANGED signed
    /\ UNCHANGED accused

Accuse(n, o) ==
    /\ Forked(o)
    /\ accused' = [accused EXCEPT ![n] = @ \cup {o}]
    /\ UNCHANGED <<signed, copy>>

\* The replica loses its database.
Forget(n) ==
    /\ copy' = [copy EXCEPT ![n] = [o \in Nodes |-> <<>>]]
    /\ accused' = [accused EXCEPT ![n] = {}]
    /\ UNCHANGED signed

Next ==
    \/ \E n \in Nodes : Author(n) \/ Forget(n)
    \/ \E n, o \in Nodes : Learn(n, o) \/ Accuse(n, o)

Spec == Init /\ [][Next]_rvars

=============================================================================
