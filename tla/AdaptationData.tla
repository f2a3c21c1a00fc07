--------------------------- MODULE AdaptationData ---------------------------
(* The identities the adaptation controllers share. *)
EXTENDS Integers

CONSTANTS
    Sessions,       \* runtime session ids
    Candidates,     \* candidate ids: physical designs a session can run
    NoCandidate,    \* Python's None where a candidate id is optional
    Artifacts,      \* artifact_sha256 digests
    NoArtifact,
    Manifests,      \* verification_manifest_sha256 digests
    NoManifest

ASSUME NoCandidateAssumption == NoCandidate \notin Candidates
ASSUME NoArtifactAssumption == NoArtifact \notin Artifacts
ASSUME NoManifestAssumption == NoManifest \notin Manifests

OptCandidates == Candidates \cup {NoCandidate}

=============================================================================
