---------------------------- MODULE IblockCacheMC ----------------------------
(***************************************************************************)
(* IblockCache for TLC: a program of the kernel's page, which loops, and   *)
(* of two pages of the user, which branch to each other and whose code can *)
(* be one of two; and the symmetry of the structures.                      *)
(***************************************************************************)
EXTENDS IblockCache, TLC

Plain == [op |-> "plain"]
Jump(to) == [op |-> "jump", target |-> to]
BranchTo(to) == [op |-> "branch", target |-> to]
Indirect(to) == [op |-> "jalr", targets |-> to]

TheCode == [at \in {"A", "B"} \X (0 .. 5) |->
  CASE at[2] = 0 -> Jump(0)
    [] at[2] = 1 -> Plain
    [] at[2] = 2 -> BranchTo(4)
    [] at[2] = 3 -> IF at[1] = "A" THEN Jump(2) ELSE Plain
    [] at[2] = 4 -> IF at[1] = "A" THEN Plain ELSE Jump(3)
    [] at[2] = 5 -> Indirect({0, 3})]

Symmetry == {p @@ q : p \in Permutations(Blocks), q \in Permutations(Ptables)}
=============================================================================
