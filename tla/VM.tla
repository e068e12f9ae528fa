-------------------------------- MODULE VM --------------------------------
(***************************************************************************)
(* ProcessStateMachine of src/core/src/scheduler/vm.rs: one wasmi module   *)
(* instance with at most one resumable invocation, the interrupted flag    *)
(* that chooses start_execution or resume_execution, the poisoned flag,    *)
(* and direct access to the exported linear memory.                        *)
(*                                                                         *)
(* Import names are resolved as in the code; the engine is otherwise a     *)
(* nondeterministic choice: an invocation returns, calls an import (a host *)
(* trap) or traps, and it may grow the memory. A memory page holds PageSize bytes instead of 65536,   *)
(* and usize has UsizeBits bits, so that the bounds arithmetic of dma,     *)
(* its overflow checks included, is checked exhaustively.                  *)
(***************************************************************************)
EXTENDS Integers, FiniteSets, Sequences, SequencesExt

CONSTANTS
    PageSize,      \* bytes per page (65536 in wasmi)
    MaxPages,      \* bound on the memory size, in pages
    UsizeBits,     \* width of usize
    Modules,       \* the modules new() may be given
    HashLen,       \* bytes of an interface hash (32 in the code)
    Radix,         \* digits of the base58 alphabet (58 in the code)
    ByteBase,      \* values of a byte (256 in the code)
    Registered     \* the InterfaceIds the symbols closure resolves

UsizeMax == 2^UsizeBits - 1
Usize == 0..UsizeMax

\* None, or Some(I32(_)): the result type of an import and a value passed back.
ValueTypes == {"none", "i32"}

\* A module name: a sequence of base58 digits 0..Radix-1 (digit 0 is the
\* character '1') and NotBase58, any character outside the alphabet.
NotBase58 == -1
Chars == {NotBase58} \cup 0..(Radix - 1)

\* A module: the module names of its imports and their result types, its
\* "memory" and "main" exports, and the initial size of its memory.
ModuleShape == [importNames : SUBSET Seq(Chars), imports : SUBSET ValueTypes,
                memory : {"memory", "absent", "other"}, pages : 0..MaxPages,
                main : {"func", "absent", "other"}]

ASSUME Modules \subseteq ModuleShape
ASSUME PageSize \in Nat \ {0} /\ MaxPages \in Nat /\ UsizeBits \in Nat \ {0}
ASSUME HashLen \in Nat \ {0} /\ Radix \in Nat \ {0, 1} /\ ByteBase \in Nat \ {0, 1}

NoMemory == -1

VARIABLES
    phase,        \* "new" before ProcessStateMachine::new returns, then "ok" or "err"
    module,       \* the module instantiated
    memory,       \* NoMemory, or the memory's current size in pages
    execution,    \* FALSE when `execution` is None
    expect,       \* resumable_value_type() of the paused invocation
    interrupted,  \* the `interrupted` field
    isPoisoned,   \* the `is_poisoned` field
    invocation,   \* the wasmi FuncInvocation's own state: "fresh" or "paused"
    panic,        \* "none", or the call that panicked
    lastResult,   \* what the last call returned
    importIds     \* the InterfaceId resolve_func built for each import's module name

vars == <<phase, module, memory, execution, expect, interrupted, isPoisoned,
          invocation, panic, lastResult, importIds>>

Results == {"none", "newOk", "newErr", "finished", "interrupted", "errored",
            "badValue", "readOk", "readErr", "writeOk", "writeErr"}

TypeOK ==
    /\ phase \in {"new", "ok", "err"}
    /\ module \in Modules
    /\ memory \in {NoMemory} \cup 0..MaxPages
    /\ execution \in BOOLEAN /\ interrupted \in BOOLEAN /\ isPoisoned \in BOOLEAN
    /\ expect \in ValueTypes
    /\ invocation \in {"fresh", "paused"}
    /\ panic \in {"none", "start", "resume", "memory"}
    /\ lastResult \in Results
    /\ \A n \in DOMAIN importIds :
          importIds[n] \in [kind : {"hash", "bytes"}, val : Seq(Chars \cup 0..ByteBase)]

-----------------------------------------------------------------------------
(* Ranges passed to read_memory: a start and an end Bound.                  *)

Bounds == [kind : {"inc", "exc"}, at : Usize] \cup [kind : {"unb"}, at : {0}]

\* The outcome of dma: an [ok, start, end] record.
DmaErr == [ok |-> FALSE, start |-> 0, end |-> 0]

\* Mutant: the bounds are incremented with wrapping arithmetic.
DmaWrapping(lo, hi, memSz) ==
    LET start == CASE lo.kind = "inc" -> lo.at
                   [] lo.kind = "exc" -> (lo.at + 1) % (UsizeMax + 1)
                   [] lo.kind = "unb" -> 0
        end == CASE hi.kind = "inc" -> (hi.at + 1) % (UsizeMax + 1)
                 [] hi.kind = "exc" -> hi.at
                 [] hi.kind = "unb" -> memSz
    IN IF start > end \/ end > memSz
       THEN DmaErr
       ELSE [ok |-> TRUE, start |-> start, end |-> end]

\* dma(range, f): the overflow-checked start and end, then the bounds check
\* against the memory size in bytes.
Dma(lo, hi, memSz) ==
    LET start == CASE lo.kind = "inc" -> lo.at
                   [] lo.kind = "exc" -> IF lo.at = UsizeMax THEN -1 ELSE lo.at + 1
                   [] lo.kind = "unb" -> 0
        end == CASE hi.kind = "inc" -> IF hi.at = UsizeMax THEN -1 ELSE hi.at + 1
                 [] hi.kind = "exc" -> hi.at
                 [] hi.kind = "unb" -> memSz
    IN IF start = -1 \/ end = -1 \/ start > end \/ end > memSz
       THEN DmaErr
       ELSE [ok |-> TRUE, start |-> start, end |-> end]

\* Reference: the range denotes the integers from its first to one past its
\* last address, computed without any bound on the integers.
MemoryRange(lo, hi, memSz) ==
    LET first == CASE lo.kind = "inc" -> lo.at [] lo.kind = "exc" -> lo.at + 1
                   [] lo.kind = "unb" -> 0
        past == CASE hi.kind = "inc" -> hi.at + 1 [] hi.kind = "exc" -> hi.at
                  [] hi.kind = "unb" -> memSz
    IN IF first <= past /\ past <= memSz
       THEN [ok |-> TRUE, start |-> first, end |-> past]
       ELSE DmaErr

-----------------------------------------------------------------------------
(* Import resolution: resolve_func parses an import's module name as the   *)
(* base58 form of an interface hash, right aligned into HashLen bytes, and *)
(* falls back to the name itself.                                          *)

\* An InterfaceId: Hash (HashLen bytes, most significant first) or Bytes.
HashId(bytes) == [kind |-> "hash", val |-> bytes]
BytesId(name) == [kind |-> "bytes", val |-> name]

Zeros(n) == [i \in 1..n |-> 0]

\* The leading zeros of a sequence: the '1's of a name, the zero bytes of a hash.
LeadingZeros(name) == Cardinality({i \in 1..Len(name) : \A j \in 1..i : name[j] = 0})

RECURSIVE Carry(_, _, _, _)
\* The inner loop of bs58's decode for one input digit: the output digits
\* so far, least significant first, times mul plus the carry in base base,
\* then the carry pushed into new digits while it is not 0.
Carry(ds, carry, mul, base) ==
    IF ds = <<>>
    THEN IF carry = 0 THEN <<>>
         ELSE <<carry % base>> \o Carry(<<>>, carry \div base, mul, base)
    ELSE LET x == Head(ds) * mul + carry
         IN <<x % base>> \o Carry(Tail(ds), x \div base, mul, base)

\* Decoding: one base58 digit into bytes.
MulAdd(bytes, carry) == Carry(bytes, carry, Radix, ByteBase)

\* One character of bs58::decode(name).into(&mut buf_interm): an invalid
\* character, or a byte past the HashLen-byte buffer, is an error.
DecodeStep(st, c) ==
    IF ~st.ok \/ c = NotBase58 THEN [ok |-> FALSE, out |-> <<>>]
    ELSE LET next == MulAdd(st.out, c)
         IN [ok |-> Len(next) <= HashLen, out |-> next]

\* bs58::decode(name).into(&mut buf_interm): each leading '1' adds a zero
\* byte, which must fit too; Ok(n) leaves the n bytes in order.
Bs58Decode(name) ==
    LET st == FoldLeft(DecodeStep, [ok |-> TRUE, out |-> <<>>], name)
        n == Len(st.out) + LeadingZeros(name)
    IN IF st.ok /\ n <= HashLen
       THEN [ok |-> TRUE, out |-> Zeros(LeadingZeros(name)) \o Reverse(st.out)]
       ELSE [ok |-> FALSE, out |-> <<>>]

\* Mutant: the decoded bytes are copied to the front of buf_out.
ResolveIdLeftAligned(name) ==
    LET d == Bs58Decode(name)
    IN IF d.ok THEN HashId(d.out \o Zeros(HashLen - Len(d.out))) ELSE BytesId(name)

\* resolve_func's interface_hash: Ok(n) copies the n bytes to
\* buf_out[32 - n..]; an Err makes the name an InterfaceId::Bytes.
ResolveId(name) ==
    LET d == Bs58Decode(name)
    IN IF d.ok THEN HashId(Zeros(HashLen - Len(d.out)) \o d.out) ELSE BytesId(name)

\* Reference: a name of base58 digits denotes a number; it names the hash
\* holding that number in HashLen bytes, when that number's bytes and one
\* zero byte per leading '1' fit (spec 3: shorter decodings are zero
\* prefixed); any other name stays a name.
NameValue(name) == FoldLeft(LAMBDA a, c : a * Radix + c, 0, name)
MinBytes(v) == CHOOSE k \in 0..v : v < ByteBase^k /\ \A j \in 0..(k - 1) : v >= ByteBase^j
ReferenceId(name) ==
    LET v == NameValue(name)
    IN IF /\ \A i \in 1..Len(name) : name[i] # NotBase58
          /\ LeadingZeros(name) + MinBytes(v) <= HashLen
       THEN HashId([i \in 1..HashLen |-> (v \div ByteBase^(HashLen - i)) % ByteBase])
       ELSE BytesId(name)

-----------------------------------------------------------------------------

\* start_inner(symbol): refused on a poisoned or busy machine; otherwise the
\* export named symbol must be a function, whose fresh invocation is stored
\* with interrupted unset.  main is the kind of the "main" export.
StartInner(main, poisoned, executing) ==
    CASE poisoned         -> "Poisoned"
      [] executing        -> "AlreadyRunning"
      [] main = "func"    -> "Ok"
      [] main = "absent"  -> "SymbolNotFound"
      [] main = "other"   -> "NotAFunction"

\* ProcessStateMachine::new: instantiation, where resolve_func turns each
\* import's module name into an InterfaceId and the symbols closure must
\* resolve it; the start function ignored; the "memory" export; then
\* start_inner("main") on the new machine (not poisoned, not executing),
\* where only NotAFunction is an error.
New(m) ==
    LET started == StartInner(m.main, FALSE, FALSE) IN
    /\ phase = "new"
    /\ module' = m
    /\ importIds' = [n \in m.importNames |-> ResolveId(n)]
    /\ IF /\ \A n \in m.importNames : ResolveId(n) \in Registered
          /\ m.memory # "other" /\ started # "NotAFunction"
       THEN /\ phase' = "ok"
            /\ memory' = IF m.memory = "memory" THEN m.pages ELSE NoMemory
            /\ execution' = (started = "Ok")
            /\ interrupted' = FALSE
            /\ invocation' = "fresh"
            /\ lastResult' = "newOk"
       ELSE /\ phase' = "err"
            /\ lastResult' = "newErr"
            /\ UNCHANGED <<memory, execution, interrupted, invocation>>
    /\ UNCHANGED <<expect, isPoisoned, panic>>

\* ProcessStateMachine::start is unimplemented!().
Start ==
    /\ phase = "ok" /\ panic = "none"
    /\ panic' = "start"
    /\ UNCHANGED <<phase, module, importIds, memory, execution, expect, interrupted,
                   isPoisoned, invocation, lastResult>>

\* The memory after a run of WebAssembly code, which may execute memory.grow.
Grown == IF memory = NoMemory THEN {NoMemory} ELSE memory..MaxPages

\* The type resume() demands of the value passed back: the invocation's
\* resumable_value_type() once interrupted, None before the first run.
ExpectedValue == IF interrupted THEN expect ELSE "none"

\* Mutant: interrupted is not set before start_execution.
ResumeKeepsInterrupted(v) ==
    /\ phase = "ok" /\ panic = "none"
    /\ IF ~execution
       THEN /\ panic' = "resume"
            /\ UNCHANGED <<memory, execution, expect, interrupted, isPoisoned,
                           invocation, lastResult>>
       ELSE IF v # ExpectedValue
       THEN /\ execution' = FALSE
            /\ lastResult' = "badValue"
            /\ UNCHANGED <<memory, expect, interrupted, isPoisoned, invocation, panic>>
       ELSE /\ UNCHANGED interrupted
            /\ memory' \in Grown
            /\ \/ /\ execution' = FALSE /\ lastResult' = "finished"
                  /\ UNCHANGED <<expect, isPoisoned, invocation>>
               \/ \E ty \in module.imports :
                  /\ execution' = TRUE /\ expect' = ty /\ lastResult' = "interrupted"
                  /\ invocation' = "paused"
                  /\ UNCHANGED isPoisoned
               \/ /\ execution' = FALSE /\ isPoisoned' = TRUE /\ lastResult' = "errored"
                  /\ UNCHANGED <<expect, invocation>>
            /\ UNCHANGED panic
    /\ UNCHANGED <<phase, module, importIds>>

\* ProcessStateMachine::resume(value). execution.take().unwrap() comes first:
\* it panics when nothing executes, and a BadValueTy error returns without
\* putting the invocation back. Otherwise interrupted is set, and the
\* invocation returns, stops at a host call (the Interrupt host trap, after
\* which the invocation is put back) or traps (the machine is poisoned).
Resume(v) ==
    /\ phase = "ok" /\ panic = "none"
    /\ IF ~execution
       THEN /\ panic' = "resume"
            /\ UNCHANGED <<memory, execution, expect, interrupted, isPoisoned,
                           invocation, lastResult>>
       ELSE IF v # ExpectedValue
       THEN /\ execution' = FALSE
            /\ lastResult' = "badValue"
            /\ UNCHANGED <<memory, expect, interrupted, isPoisoned, invocation, panic>>
       ELSE /\ interrupted' = TRUE
            /\ memory' \in Grown
            /\ \/ /\ execution' = FALSE /\ lastResult' = "finished"
                  /\ UNCHANGED <<expect, isPoisoned, invocation>>
               \/ \E ty \in module.imports :
                  /\ execution' = TRUE /\ expect' = ty /\ lastResult' = "interrupted"
                  /\ invocation' = "paused"
                  /\ UNCHANGED isPoisoned
               \/ /\ execution' = FALSE /\ isPoisoned' = TRUE /\ lastResult' = "errored"
                  /\ UNCHANGED <<expect, invocation>>
            /\ UNCHANGED panic
    /\ UNCHANGED <<phase, module, importIds>>

\* ProcessStateMachine::read_memory: dma over the memory; unwrap() panics when
\* the module exports no memory.
ReadMemory(lo, hi) ==
    /\ phase = "ok" /\ panic = "none"
    /\ IF memory = NoMemory
       THEN /\ panic' = "memory" /\ UNCHANGED lastResult
       ELSE /\ lastResult' = IF Dma(lo, hi, memory * PageSize).ok THEN "readOk" ELSE "readErr"
            /\ UNCHANGED panic
    /\ UNCHANGED <<phase, module, importIds, memory, execution, expect, interrupted, isPoisoned, invocation>>

\* ProcessStateMachine::write_memory: MemoryRef::set checks offset + length
\* against the memory; unwrap() panics when the module exports no memory.
WriteMemory(offset, len) ==
    /\ phase = "ok" /\ panic = "none"
    /\ IF memory = NoMemory
       THEN /\ panic' = "memory" /\ UNCHANGED lastResult
       ELSE /\ lastResult' = IF offset + len <= memory * PageSize THEN "writeOk" ELSE "writeErr"
            /\ UNCHANGED panic
    /\ UNCHANGED <<phase, module, importIds, memory, execution, expect, interrupted, isPoisoned, invocation>>

Init ==
    /\ phase = "new"
    /\ module = CHOOSE m \in Modules : TRUE
    /\ memory = NoMemory
    /\ execution = FALSE /\ expect = "none"
    /\ interrupted = FALSE /\ isPoisoned = FALSE
    /\ invocation = "fresh"
    /\ panic = "none"
    /\ lastResult = "none"
    /\ importIds = <<>>

\* A failed new() and a panic end the machine.
Stopped == (phase = "err" \/ panic # "none") /\ UNCHANGED vars

Next ==
    \/ \E m \in Modules : New(m)
    \/ Start
    \/ \E v \in ValueTypes : Resume(v)
    \/ \E lo, hi \in Bounds : ReadMemory(lo, hi)
    \/ \E offset, len \in 0..MaxPages * PageSize + 1 : WriteMemory(offset, len)
    \/ Stopped

Spec == Init /\ [][Next]_vars

-----------------------------------------------------------------------------
(* Properties                                                               *)

\* Start versus resume (resume, lines 290-309): resume calls start_execution
\* on an invocation that has never run and resume_execution on one paused at
\* a host call, never the other way round, which would hit the unreachable!()
\* for AlreadyStarted or NotResumable.
InterruptedMatchesInvocation ==
    execution => (interrupted <=> invocation = "paused")

\* Bounds of read_memory (dma): the overflow-checked bounds agree with the
\* range computed over unbounded integers, for every range, at the size the
\* memory has in the current state.
DmaMatchesReference ==
    memory # NoMemory =>
        \A lo, hi \in Bounds :
            Dma(lo, hi, memory * PageSize) = MemoryRange(lo, hi, memory * PageSize)

\* Interface parsing (resolve_func, lines 92-103): the InterfaceId built for
\* each import of the instantiated module is the hash holding the number its
\* module name denotes in base58, zero prefixed, whenever that number and
\* the name's leading '1's fit in the hash, and the name itself otherwise.
ImportIdsMatchReference ==
    \A n \in DOMAIN importIds : importIds[n] = ReferenceId(n)

\* Rejected value (resume's BadValueTy): a resume refused because the value
\* has the wrong type leaves the invocation in place, so that the caller can
\* resume it again with the right value.
BadValueKeepsInvocation == [][lastResult' = "badValue" => execution']_vars

=============================================================================
