-------------------------------- MODULE Forge --------------------------------
(***************************************************************************)
(* The forge records of one origin's log (src/db.rs): patches, reviews,    *)
(* build attestations and releases.  They have no table of their own; a    *)
(* record is checked against the earlier records of the same origin, at    *)
(* home against events and at an importer against remote_events.           *)
(*                                                                         *)
(* A patch names a repository, the revision it proposes and an artifact; a *)
(* release names a repository, a candidate revision, a source artifact and *)
(* the patches it includes.                                                *)
(***************************************************************************)
EXTENDS Curation

\* The records of a kind that an event id names in a log.
forge_canonical(L, id, kind) ==
    {L[i] : i \in {i \in EventsNamed(L, id) : L[i].kind = kind}}

\* validate_code_review_subject and its siblings.
SameSubject(record, c) ==
    /\ record.repository = c.repository
    /\ record.revision = c.revision
    /\ record.artifact = c.artifact

ReviewedRecord(L, c, kind) ==
    {record \in forge_canonical(L, c.proposal, kind) : SameSubject(record, c)}

IndependentReview(L, c, kind) ==
    \E record \in ReviewedRecord(L, c, kind) : record.lineage # c.lineage

validate_forge_state(L, c) ==
    CASE c.kind = "code_review" -> IndependentReview(L, c, "repository_patch")
      [] c.kind = "build_attestation" -> ReviewedRecord(L, c, "repository_patch") # {}
      [] c.kind = "release_proposal" ->
            \A id \in c.patches :
                \E patch \in forge_canonical(L, id, "repository_patch") :
                    patch.repository = c.repository
      [] c.kind = "release_review" -> IndependentReview(L, c, "release_proposal")
      [] OTHER -> TRUE

validate_local_forge(L, c) == c.kind \in ForgeKinds => c.supersedes = {} /\ validate_forge_state(L, c)

validate_remote_forge_state(L, c) == c.kind \in ForgeKinds => validate_forge_state(L, c)

=============================================================================
