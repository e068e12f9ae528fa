-------------------------------- MODULE MCVM --------------------------------
(* Instance of VM for TLC: pages of 2 bytes, up to 2 pages, a 3-bit usize, *)
(* so that ranges reach usize::MAX, and modules taking every path of new.  *)
(* Hashes are 2 bytes of 2 bits and base58 is scaled to base 3, so that    *)
(* every name of up to 4 characters is parsed, overflow included.          *)
EXTENDS VM

\* The ids the symbols closure knows: the hash 0x0001 and a name outside
\* base58.
MCRegistered == {HashId(<<0, 1>>), BytesId(<<NotBase58>>)}

\* main() calls an i32 import and a void import; one page of memory.
ModCalls == [importNames |-> {<<1>>}, imports |-> {"none", "i32"}, memory |-> "memory",
             pages |-> 1, main |-> "func"]
\* No memory export.
ModNoMemory == [importNames |-> {<<NotBase58>>}, imports |-> {"i32"}, memory |-> "absent",
                pages |-> 0, main |-> "func"]
\* No main: the machine starts stopped.
ModNoMain == [importNames |-> {}, imports |-> {}, memory |-> "memory",
              pages |-> 0, main |-> "absent"]
\* An import the closure refuses.
ModUnresolved == [importNames |-> {<<2>>}, imports |-> {"i32"}, memory |-> "memory",
                  pages |-> 1, main |-> "func"]
\* "main" is not a function; its import "12" is the registered hash 0x0001.
ModMainNotFunc == [importNames |-> {<<0, 1>>}, imports |-> {}, memory |-> "absent",
                   pages |-> 0, main |-> "other"]

\* Imports under every name of at most 4 characters; most do not resolve.
ModAllNames == [importNames |-> BoundedSeq(Chars, 4), imports |-> {"i32"},
                memory |-> "memory", pages |-> 1, main |-> "func"]

MCModules == {ModAllNames, ModCalls, ModNoMemory, ModNoMain, ModUnresolved, ModMainNotFunc}
=============================================================================
