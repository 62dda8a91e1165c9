--------------------------- MODULE MCCapabilityApi ---------------------------
(* Small instances of CapabilityApi. *)
EXTENDS CapabilityApi, TLC

Interchangeable == Permutations(Creators) \cup Permutations(Shells)
                   \cup Permutations(RequestTokens) \cup Permutations(Ids)
                   \cup Permutations(Sessions)
=============================================================================
