# TLA+ models of the redshirt core scheduler

This directory holds TLA+ models of the redshirt sources under `src/`, the TLC
configurations that check them, and `PROJECT.json`, which lists every
component, run, mutant, source mapping, finding and hazard. Check a run with
`tlc -workers 2 -config <cfg> <MC module>`.

## 1. Inventory

### Components and their state

| Component | Source | State | Operations |
|---|---|---|---|
| ProcessesCollectionBuilder | `core/src/scheduler/processes.rs` 61-70, 405-479 | pid pool, token table `extrinsics` (index -> token), `extrinsics_id_assign` ((interface, name) -> (index, signature)) | `reserve_pid`, `with_extrinsic` (panics on a duplicate key), `build` |
| ProcessesCollection | processes.rs 38-59, 176-403 | pid and tid pools, `processes` (pid -> state machine + user data), the two extrinsic tables (frozen) | `execute`, `run`, `pids`, `process_by_id`, `thread_by_id` |
| Per-thread record | processes.rs 81-92 | tid, user data, `value_back` (Some = ready, None = waiting for `resume`) | (changed by `run` and `resume`) |
| Handles | processes.rs 94-110, 498-694 | a borrow of one process (and a thread index) | `start_thread`, `abort`, `main_thread`, `resume`, `next_thread`, memory access |
| ProcessStateMachine | `core/src/scheduler/vm.rs` | module instance, optional memory, optional resumable invocation, `interrupted`, `is_poisoned` | `new`, `start` (unimplemented), `resume`, `read_memory`, `write_memory` |
| InterfaceId / InterfaceHash | `core/src/interface.rs`, vm.rs 92-103 | a 32-byte hash or a name | base58 parsing, right aligned into 32 bytes; `InterfaceBuilder::build` hashes the name |
| Syscalls reactor | `interfaces/syscalls/src/lib.rs` | `REACTOR.new_elems` (spin mutex), per-future sink (spin mutex), the background thread's `message_ids` and `wakers` | `message_response` (a future), `background_thread`, `next_message`, `emit_message`, `emit_answer`, `spawn_thread` |
| TCP interface | `kernel/src/tcp_interface.rs` | `next_socket_id`, sockets (Connecting, Socket with pending read and write, Poisoned) | `handle_message` (Open, Close, Read, Write), `next_event` |

The repository's `vm.rs` is the single-invocation machine. `processes.rs`
drives a newer, multi-threaded machine (`thread(i).run`,
`start_thread_by_id`, `into_user_datas`) whose source is not in this
repository. Module `VM` models `vm.rs` as written. Module `Processes` models
the per-thread behaviour of that newer machine from spec section 4.4. It
reuses the value check of `vm.rs`'s `resume`.

### How the components interact

The embedder builds a collection (`with_extrinsic`, `reserve_pid`, `build`).
It then calls `execute(module)`, which instantiates a VM. Each import is
resolved through a closure over `extrinsics_id_assign`. The embedder loops on
`run()`. Each call runs one ready thread until it returns, traps or calls an
import. A call to an import reaches the embedder as `Interrupted` with the
registered token. The embedder performs the call and feeds the result back
with `resume(value)`. That makes the thread ready again.

Inside a sandboxed program, the syscalls crate emits messages to the kernel.
Its `message_response` future hands its message id to a background thread.
The background thread blocks in `next_message` on all outstanding ids plus a
futex wait, and wakes the future whose answer arrived. The TCP interface is
one such kernel-side handler. It turns Open, Read, Write and Close messages
into socket operations and answers them from `next_event`.

### What is hard

- Interleaving of the embedder's calls: `run`, `resume`, `start_thread` and
  `abort` in any order, over several processes and threads.
- Partial failure: ids are taken before fallible VM calls. A `BadValueTy`
  return drops the invocation it took out. A trap tears down a whole process.
- Scheduling order: `run()` takes the first ready thread in the hash map's
  order.
- Numeric edges: the handle index after an append, the extrinsic index, and
  `checked_add` at `usize::MAX` in `dma`.
- In the reactor, two threads and two mutexes. A lock is held across a
  blocking call, and the two threads take the locks in opposite orders.
  Message ids and wakers live in two parallel vectors that are offset by one.
- In TCP, futures that must be woken, a connection that fails, and a u32
  socket counter.

### What makes each component correct

- Collection: every thread is accounted for exactly once, alive or reported
  dead. Pids and tids are never reused, and a reserved pid never names a
  process. An interrupt hands over the token registered for the import that
  was called. A handle designates the thread it claims. No ready thread
  starves. A caller's wrong value is an error, not a crash.
- VM: `start_execution` is called only on a fresh invocation and
  `resume_execution` only on a paused one. A rejected resume keeps the
  invocation. Memory access returns `Err` outside the memory and never
  panics. The bounds arithmetic is exact at `usize::MAX`.
- Reactor: no deadlock between a future and the background thread. Every
  answer reaches the future that asked for it. `message_ids` and `wakers`
  stay parallel.
- TCP: every request is answered at most once, with its own kind. A write is
  answered only when all its bytes are accepted. A failed connect does not
  crash the kernel. Socket ids are unique among live sockets.

## 2. Plan

1. `Processes` (done): builder and collection, with the embedder as the
   environment. Instantiated by `MCProcesses`.
2. `VM` (done): `vm.rs` as written, plus the `dma` bounds checked against a
   reference. Instantiated by `MCVM`.
3. `Reactor` (done): `message_response` and `background_thread` as two
   processes, with the two spin mutexes and the kernel's `next_message`.
4. `Tcp` (done): `TcpState`, with the network as a nondeterministic
   environment.
5. `Collection` (done): the abstract collection. `Processes` is shown to
   refine it through `INSTANCE ... WITH`.
6. InterfaceId parsing (done, in `VM`): base58 decoding right aligned into
   the hash, as a RECURSIVE operator checked against a reference.
7. Composition: a `Processes` instance whose per-process VM is the `VM`
   module, once a multi-threaded `vm.rs` exists to model. Until then the
   per-thread VM stays spec-modelled.

## 3. Modules

### Processes (`Processes.tla`, `MCProcesses.tla`)

| Variable | Code |
|---|---|
| `built` | builder versus collection |
| `pidPool`, `tidPool` | `pid_pool`, `tid_pool` (IdPool, monotonic from 1, spec 4.1) |
| `extrinsics` | `extrinsics`: index -> token |
| `idAssign` | `extrinsics_id_assign`: key -> [index, sig] |
| `procs` | `processes`: pid -> [module, threads]. A thread is [tid, valueBack, started, expect]. `valueBack` is a value type (Some) or `"waiting"` (None). |
| `panicked` | a `panic!()` or `unreachable!()` was hit |
| `registry`, `pidsGiven`, `tidsGiven`, `deadLog`, `ended`, `lastEvent` | history for the properties: what was registered, handed out, reported dead, and what the last call returned |

Thread indices are 1-based in the model. Code index k is model index k + 1,
so the main thread is index 1.

Actions:
- Builder: `ReservePid`, `WithExtrinsic`, `Build`.
- `Execute`, which consumes a tid even when it fails.
- `run()`, split by outcome into `RunIdle`, `RunBadValue`, `RunFinished`
  (main or other thread), `RunInterrupted` and `RunErrored`.
- `Resume`, `StartThread`, `Abort`. The embedder names the thread by tid,
  found by `ThreadById` (`thread_by_id`'s scan), or the process by pid,
  found by `ProcessById`. A stale id finds nothing.
- `MainThreadUse`: the embedder uses `main_thread()` on a process with no
  thread, and `inner()` hits `unreachable!()`. Only the unchecked embedder
  does this.
- `Halted`: after a panic nothing changes.

`ChosenPid` is the least pid with a ready thread. That is the iteration order
of the `processes` map for small pids under the identity hasher. `ReadyIndex`
is the lowest ready thread index, as in `ready_to_run_thread_index`. The
engine's outcome for a run is nondeterministic: return, call one of the
module's imports, or trap. A module is a record of its imports (key and
result type) and its `memory` and `main` exports.

### VM (`VM.tla`, `MCVM.tla`)

Variables: `phase` (before and after `new`), `memory` (pages or none),
`execution`, `expect` (`resumable_value_type`), `interrupted`, `isPoisoned`,
`invocation` (wasmi's own view: fresh or paused), `panic` (which call
panicked), and `lastResult`.

Actions: `New`, `Start` (`unimplemented!()`), `Resume`, `ReadMemory`,
`WriteMemory`, and `Stopped`, after a failed `new` or a panic. A page is
`PageSize` bytes and usize is `UsizeBits` wide. This lets TLC enumerate every
range, including bounds at `usize::MAX`.

`New` resolves each import's module name as `resolve_func` does.
- `ResolveId` runs `Bs58Decode` and right aligns the bytes into a
  `HashLen`-byte hash. When decoding fails, the name becomes a Bytes id.
- `Bs58Decode` is bs58's decode into a fixed buffer:
  - the RECURSIVE `MulAdd` multiplies the bytes by the radix and
    propagates the carry;
  - `DecodeStep` does this per character;
  - each leading '1' adds a zero byte;
  - overflowing the buffer is an error.
- The import resolves when its id is among the `Registered` ids of the
  symbols closure.
- `importIds` records the ids built.
- `New` then calls `StartInner` for `main` on the fresh machine.
  `StartInner` is `start_inner`'s outcome: Poisoned, AlreadyRunning, Ok,
  SymbolNotFound or NotAFunction. Only NotAFunction fails `new`, and only
  Ok leaves an execution.

### Collection (`Collection.tla`)

This is the abstract specification: what the collection promises its
embedder (spec sections 4.5, 5 and 8).

Variables:
- `live`: each live pid mapped to the tids of its live threads.
- `dead`: the tids reported dead.
- `gone`: the pids reported ended.
- `pidsUsed`, `tidsUsed`: the ids handed out so far.

Actions:
- `Reserve`: hand out a pid with no process.
- `Burn`: consume tids without a thread.
- `Spawn`: a fresh pid with threads on fresh tids.
- `Grow`: a fresh thread in a live process.
- `EndThread`: one thread reported dead.
- `End`: the whole process ends, with all its threads reported dead.

`Processes` defines `Abs == INSTANCE Collection WITH ...`. The mapping is:
- `live` is the tids of each entry of `procs`;
- `dead` is the range of `deadLog`;
- `gone` is `ended`;
- `pidsUsed` is the range of `pidsGiven`;
- `tidsUsed` is `1..tidPool-1`.

`CollectionRefinement == Abs!Spec` is checked as a property. Scheduling,
resumes, bad values and builder steps map to stuttering steps.

### Reactor (`Reactor.tla`, `MCReactor.tla`)

This models `interfaces/syscalls/src/lib.rs`. There are two kinds of actors:
- each `message_response` future, which the executor polls;
- the background thread.

Variables:
- The future side: `futPc` (its position in `poll`), `woken` (the executor
  owes it a poll), `sinkHeld` and `sink` (the `message_sink` spin mutex and
  its content), and `result`.
- The background thread: `bgPc`, `newHeld` and `newElems`
  (`REACTOR.new_elems`), `msgIds` and `wakers` (its two vectors), and
  `cur`/`curData` (the entry being delivered).
- The kernel: `futexWaiting`, `futexWoken`, `answered` and `received`.
- `running`: the thread of the program that is executing, the executor
  (`"exec"`) or the background thread (`"bg"`).

Threads are cooperative (spec.md §5): a thread of a program stops running
only in a host call. `Schedule(t)` switches to `t` when the running thread
is `Suspended` and `t` `CanRun`:
- the executor is suspended in `emit_message` after `ReturnPending`'s
  FutexWake, or when no future is woken;
- the background thread is suspended in its blocking `next_message`
  (`drain`, `next`).
A spin on `message_sink` or `new_elems` makes no host call, so a thread that
spins keeps running and the whole program is stuck.

Future actions follow `poll` line by line:
- `Poll`: the executor starts a poll of one future, only when no other
  poll is in progress. With `SpuriousPolls` the poll may come without a
  wake, at most `MaxSpurious` times per future.
- `LockSink`: take the sink. If it is full, return Ready.
- `SpawnReactor`: the lazy `spawn_thread`.
- `PushNew`: lock `new_elems` and push the id.
- `EmitFutexWake`.
- `ReturnPending`.

Background actions:
- `BgLock`: lock `new_elems`.
- `BgFutexWait`: a fresh wait message.
- `BgDrain`: `RegisterElem` folded over `new_elems`.
- `BgAnswer`: the `next_message` result is an answer.

The `break` on the FutexWake answer (lib.rs:203-213) has no action. A future
pushes into `new_elems` only while the background thread does not hold it,
and between its unlock and the next `next_message` the background thread
makes no host call (lib.rs:122-127). Its FutexWake therefore never finds a
registered wait: under cooperative scheduling the wake is always lost.
- `BgDeliver`: write the sink and wake.

`KernelAnswer` is the kernel answering a message. A future is named by its
message id, so a sink holding another id is a misrouted answer.

### Tcp (`Tcp.tla`, `MCTcp.tla`)

This models `kernel/src/tcp_interface.rs`.

Variables:
- `nextSocketId`: `SocketIdBits` wide.
- `sockets`: each a `TcpConnec`, connecting, socket or poisoned, with its
  pending read and write.
- `requests` and `answers`: the message log, by event id.
- `written`: the bytes accepted per write.
- `clientOpen`: the program's view of its sockets.
- `panicked`.

Request actions are `Open`, `Close`, `Read` and `Write`, each with every
`unwrap`, `assert!` and `panic!` of `handle_message` as a path to `Panic`.

`next_event` is split by which connection future completes:
- `PollConnect`: the connect resolves, Ok or Err.
- `PollPoisoned`.
- `WriteDone`, `WritePartial`: `poll_write` accepts part of the data.
- `ReadOnly`: the read is answered.
- `IoError`: an io error is unwrapped.

`PeerSends` and `PeerOpensWindow` are the network.

## 4. Runs

| Run | Result | What it shows |
|---|---|---|
| `processes_safety` (`MCProcesses.cfg`) | pass | The embedder here may resume any thread with any value, so the panic paths are explored too. Three properties hold. `ThreadAccounting`: every tid given to a thread is exactly once either alive in one process or in the dead-thread reports. `CollectionRefinement`: the collection implements `Collection`, so pids and tids are fresh and processes end as a whole. `ExtrinsicRouting`: an interrupt hands over the token registered under an import of that process, with the same signature. |
| `processes_start_handle` | violation | `StartedHandleValid`: the handle returned by `start_thread` points one past the new thread (processes.rs:535). |
| `processes_starvation` | violation | `NoStarvation`, under weak fairness of `run()`. If the embedder answers process 1's host calls before each `run()`, process 2's ready main thread never runs (processes.rs:248). |
| `vm_safety` (`MCVM.cfg`) | pass | `InterruptedMatchesInvocation`: the `interrupted` flag always agrees with the invocation's real state. `DmaMatchesReference`: `dma` agrees with the range over unbounded integers. `ImportIdsMatchReference`: every import name becomes the hash holding the number it denotes in base58, zero prefixed, when it fits, and stays a name otherwise. This is checked over all 341 names of up to 4 characters. |
| `vm_bad_value` | violation | `BadValueKeepsInvocation`: `resume` drops the paused invocation when it returns `BadValueTy` (vm.rs:289). |
| `reactor_routing` (`MCReactor.cfg`) | pass | `AnswerRouting`, under cooperative scheduling: when futures are polled only when woken, every answer lands in the sink of the future that asked for it. This holds despite the one-entry offset between `message_ids` and `wakers`. |
| `reactor_reregister` | violation | `AnswerRouting`: with spurious polls, future m1 is polled again before a drain. Its second registration finds its id and overwrites `wakers[pos]` (lib.rs:193), which with the offset of one is the waker of the next entry, m2. Both entries then wake m1, and m2's answer is written into m1's sink: the future registered twice receives the other future's answer. |
| `reactor_deadlock` | violation | `NewElemsFree`: the background thread holds `new_elems` across the blocking `next_message` (lib.rs:171-221). The executor then polls a future that spins on that lock (lib.rs:122). The spin makes no host call, so the process never reaches the background thread again. |
| `reactor_lock_order` | violation | `LockOrder`: a future holds `message_sink` while it locks `new_elems` (lib.rs:120-123), and the background thread holds `new_elems` while it locks a `message_sink` (lib.rs:219). In the trace the future is suspended in its FutexWake `emit_message` (lib.rs:127) while its sink guard is still alive. The background thread then answers that future and spins on its sink while holding `new_elems`. |
| `tcp_safety` (`MCTcp.cfg`) | pass | This run has failing connects, io errors and a program that follows the protocol. `AnswerOnce`: each request is answered at most once, with its own kind. `WriteComplete`: a write is answered only with all its bytes accepted. `OpenAnswered`: every Open is answered unless the kernel panicked. |
| `tcp_poisoned` | violation | `NoKernelPanic`: a failed connect leaves a `Poisoned` entry, and the next `next_event` panics (tcp_interface.rs:155, 212). The run uses a 3-bit id counter, so no wrap or overflow of `next_socket_id` can be the panic found. |
| `tcp_read_starved` | violation | `ReadAnswered`: a write the peer does not accept returns Pending through `ready!` before the read is polled. A read whose data has arrived is never answered (tcp_interface.rs:168). |

Every property of a passing run has a mutant in `PROJECT.json`: a plausible
bug in the mapped code that TLC catches. The mutants are:
- a duplicate extrinsic that is not refused;
- the extrinsic index read after the insert;
- `build` starting a fresh pid pool (caught by the refinement);
- the main thread left out of `dead_threads`;
- unbounded `memory.grow`;
- `interrupted` not set before `start_execution`;
- wrapping instead of checked additions in `dma`;
- the decoded hash bytes copied to the front of the buffer;
- `wakers[i]` instead of `wakers[i - 1]`;
- a read answered while its pending field is kept;
- a partial write answered;
- a failed connect dropped without an answer.

### Bounds

- `MCProcesses`:
  - Two keys and two tokens (tokens are a symmetry set).
  - Four modules: one calls an i32 import; one calls an i32 and a void
    import; one has no `main`; one has a bad `memory` export.
  - `MaxPid = 3` and `MaxTid = 3`. That allows a reserved pid plus two
    processes, or two processes plus a started thread. This is enough for
    starvation, a non-main thread finishing, a reserved pid colliding with
    a fresh pool, signature mismatches and failed executes.
- `MCVM`:
  - 2-byte pages and up to 2 pages.
  - A 3-bit usize, so bounds reach `usize::MAX` = 7.
  - Six modules covering every path of `new`. One imports every name of up
    to 4 characters.
  - The hash is scaled to 2 bytes of 2 bits, and base58 to base 3. A
    4-character name then reaches both sides of the buffer overflow, with and
    without leading '1's.
- `MCReactor`:
  - Three futures in `reactor_routing`, a symmetry set (it checks only an
    invariant). The violation runs use two futures, the least that can
    misroute or block each other, which keeps their traces short.
  - At most one spurious poll per future in `reactor_reregister`, which is
    enough for a re-registration. The other runs poll only woken futures.
- `MCTcp`:
  - 2-bit socket ids and four requests, so the counter wraps within the
    run.
  - Writes of at most 2 bytes, so a write can be accepted in two parts.
  - The read-starvation run uses 3-bit ids, so that no wrap panic cuts the
    lasso short.

### Fairness

- Processes: only the starvation run uses fairness, `WF_vars(Run)`. The
  embedder's driver loops on `run()`. No fairness is assumed of the
  embedder's other calls.
- Reactor: no fairness and no liveness run. The program's threads are
  cooperative (spec.md §5), so which thread runs is modelled explicitly by
  `running` and `Schedule`. Weak fairness of each thread would wrongly let
  the background thread run while the executor spins on a lock. The
  deadlock of lib.rs:171-221 is shown as a reachable stuck state instead.
- Tcp: weak fairness of each connection's completion steps, because the
  kernel keeps polling `next_event` and `select_all` polls every future. A
  connect resolves at the latest by the OS timeout. The peer and the
  program have no fairness.

## 5. Not modelled

- Memory contents: bytes are data that no property tells apart. Only sizes
  and bounds are modelled.
- The SHA-256 interface hash and the SCALE encoding of messages.
- The `Debug`, `Display` and `FromStr` of `InterfaceHash`, which are
  formatting and parsing that no property relies on.
- `VM.TypeOK` is kept as documentation of the variables' types but is not
  checked by a run.
- The FFI wrappers, except as the kernel environment of `Reactor`.
- wasmi itself.
- `pids` and `next_thread` only read state. `process_by_id` and `thread_by_id`
  appear only as the lookups (`ProcessById`, `ThreadById`) that pick the
  handle an action works on.
- The handles' `read_memory` and `write_memory` forward to the process's VM
  (`self.process.vm`). Their bounds are checked in `VM` (`Dma`). In
  `Processes`, a property about which memory a handle reaches would hold by
  construction.
- No abstract specification of the TCP bridge. spec.md names it only as an
  external collaborator and gives it no contract to refine against.
- The socket id wrap and the bad-request `assert!`s of `tcp_interface.rs`
  are modelled as `Panic` paths, but no run checks them on their own. They
  are listed as hazards.
