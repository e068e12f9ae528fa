---------------------------- MODULE MCProcesses ----------------------------
(* Instance of Processes for TLC: two extrinsic keys, two tokens, and four *)
(* modules that between them take every path of execute.                  *)
EXTENDS Processes

CONSTANTS k1, k2, t1, t2

\* main() calls the i32-returning import k1.
ModCallsK1 == [imports |-> {<<k1, "i32">>}, memory |-> "memory", main |-> "func"]
\* main() calls k1 and the void import k2.
ModCallsBoth == [imports |-> {<<k1, "i32">>, <<k2, "none">>}, memory |-> "absent", main |-> "func"]
\* No main export: the process starts with no thread.
ModNoMain == [imports |-> {<<k2, "none">>}, memory |-> "memory", main |-> "absent"]
\* A "memory" export that is not a memory: NewErr::MemoryIsntMemory.
ModBadMemory == [imports |-> {}, memory |-> "other", main |-> "func"]

MCModules == {ModCallsK1, ModCallsBoth, ModNoMain, ModBadMemory}
MCKeys == {k1, k2}
MCTokens == {t1, t2}

\* Tokens are only stored and compared, so any permutation of them is a symmetry.
TokenSymmetry == Permutations(MCTokens)
=============================================================================
