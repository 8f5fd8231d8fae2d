---------------------------- MODULE MCAuthority ----------------------------
(* Model-checking instances of AuthorityReplay.                            *)
EXTENDS AuthorityReplay, TLC

CONSTANTS k1, k2, k3, d1, d2, t1, t2

\* d1 is short-lived; d2 may only acknowledge.
MCGrant ==
    [d \in Delegations |->
        [lineage |-> lineage_id(k1), not_before |-> 0,
         scopes |-> IF d = d1 THEN {"contribute", "ack"} ELSE {"ack"},
         expires_at |-> IF d = d1 THEN 1 ELSE 2]]

\* Threads are interchangeable, and so are the keys no grant mentions.
MCSymmetry == Permutations({t1, t2}) \cup Permutations({k2, k3})

=============================================================================
