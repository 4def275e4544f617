--------------------------- MODULE MC_InstanceSync --------------------------
(* Small instances of InstanceSync for TLC. *)
EXTENDS InstanceSync, TLC
CONSTANTS s1, s2

SpokeSymmetry == Permutations({s1, s2})

Everyone == [d \in Dataset |-> Inst]
SpokesOnly == [d \in Dataset |-> Spoke]
=============================================================================
