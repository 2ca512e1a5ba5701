-------------------------- MODULE MCPatcherReclaim --------------------------
(***************************************************************************)
(* Instances of the patcher's reclamation.  The allocator does not care    *)
(* which address it hands out, so addresses are interchangeable.           *)
(***************************************************************************)
EXTENDS PatcherReclaim, TLC

AnyAddress == Permutations(Objects) \union Permutations(Graphs)

=============================================================================
