-------------------------- MODULE MCMetadataStore --------------------------
(* Instances of MetadataStore for TLC.                                     *)
EXTENDS MetadataStore, TLC

CONSTANTS s1, s2, v1, v2

MCSessions == {s1, s2}
MCVMs == {v1, v2}

Symmetry == Permutations({s1, s2}) \cup Permutations({v1, v2})

(* One VM status: the store's own statements never branch on it.           *)
OneStatus == {"running"}
=============================================================================
