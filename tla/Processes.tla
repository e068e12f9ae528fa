----------------------------- MODULE Processes -----------------------------
(***************************************************************************)
(* ProcessesCollection (src/core/src/scheduler/processes.rs): the builder  *)
(* that registers extrinsics and reserves pids, and the collection that    *)
(* executes modules, runs one ready thread per call to run(), and hands    *)
(* the outcome to the embedder, which resumes interrupted threads, starts  *)
(* threads and aborts processes.                                           *)
(*                                                                         *)
(* The multi-threaded VM that processes.rs drives (thread(i).run,          *)
(* start_thread_by_id, into_user_datas) is not the vm.rs of this           *)
(* repository; its per-thread behaviour is taken from spec section 4.4.    *)
(* The WebAssembly engine is a nondeterministic choice of outcome.         *)
(***************************************************************************)
EXTENDS Integers, Sequences, SequencesExt, FiniteSets, FiniteSetsExt, TLC

CONSTANTS
    Keys,          \* (interface, function name) pairs an extrinsic is registered under
    Tokens,        \* the embedder's opaque TExtr values
    Modules,       \* the modules the embedder may execute
    MaxPid,        \* bound on the pid pool
    MaxTid,        \* bound on the tid pool
    ResumeOnlyWaiting,  \* the embedder resumes only threads whose value_back is None,
                        \* and uses main_thread() only on a process that has threads
    ResumeTypeChecked,  \* ... and only with a value of the type the host call returns
    NoValue

\* The result type of an imported function, and the value handed back by resume:
\* "none" is None, "i32" is Some(I32(_)).
ValueTypes == {"none", "i32"}

\* A module as seen by the collection: its imports with their signatures, and
\* what its "memory" and "main" exports are.
ModuleShape == [imports : SUBSET (Keys \X ValueTypes),
                memory  : {"memory", "absent", "other"},
                main    : {"func", "absent", "other"}]

ASSUME Modules \subseteq ModuleShape
ASSUME MaxPid \in Nat /\ MaxTid \in Nat
ASSUME ResumeOnlyWaiting \in BOOLEAN /\ ResumeTypeChecked \in BOOLEAN

\* Thread.value_back: a value type means Some(value): ready; "waiting" is None.
Waiting == "waiting"

VARIABLES
    built,        \* ProcessesCollectionBuilder::build has been called
    pidPool,      \* next id IdPool::assign returns for pids
    tidPool,      \* next id IdPool::assign returns for tids
    extrinsics,   \* index -> token (ProcessesCollection::extrinsics)
    idAssign,     \* key -> [index, sig] (ProcessesCollection::extrinsics_id_assign)
    procs,        \* pid -> [module, threads] (ProcessesCollection::processes)
    panicked,     \* a panic!() or unreachable!() has been hit
    \* history, for the properties only
    registry,     \* the <<key, sig, token>> triples the embedder registered
    pidsGiven,    \* every pid returned by reserve_pid or execute, in order
    tidsGiven,    \* every tid given to a thread that came into existence, in order
    deadLog,      \* every tid reported dead to the embedder, in order
    ended,        \* pids reported finished or aborted
    lastEvent     \* what the last call returned

vars == <<built, pidPool, tidPool, extrinsics, idAssign, procs, panicked,
          registry, pidsGiven, tidsGiven, deadLog, ended, lastEvent>>

Thread == [tid : Nat, valueBack : ValueTypes \cup {Waiting},
           started : BOOLEAN, expect : ValueTypes]

Event == [kind : {"none", "executed", "execErr", "idle", "processFinished",
                  "threadFinished", "interrupted", "threadStarted",
                  "startErr", "aborted"},
          pid : Nat, tid : Nat, token : Tokens \cup {NoValue}, index : Nat]

NoEvent == [kind |-> "none", pid |-> 0, tid |-> 0, token |-> NoValue, index |-> 0]

TypeOK ==
    /\ built \in BOOLEAN
    /\ pidPool \in 1..MaxPid + 1 /\ tidPool \in 1..MaxTid + 1
    /\ \E n \in 0..Cardinality(Keys) : extrinsics \in [0..n - 1 -> Tokens]
    /\ \E K \in SUBSET Keys : idAssign \in [K -> [index : Nat, sig : ValueTypes]]
    /\ DOMAIN procs \subseteq 1..MaxPid
    /\ \A p \in DOMAIN procs : procs[p].module \in Modules
                              /\ procs[p].threads \in Seq(Thread)
    /\ panicked \in BOOLEAN
    /\ lastEvent \in Event

-----------------------------------------------------------------------------
(* IdPool::assign: the next id of a monotonic pool starting at 1.          *)
Assign(pool) == pool

\* The tids of a process's threads, in thread-index order.
TidsOf(p) == [i \in DOMAIN procs[p].threads |-> procs[p].threads[i].tid]

\* Closure passed to ProcessStateMachine::new: an import resolves to its index
\* when its key is registered with the same signature.
Resolves(imp) ==
    /\ imp[1] \in DOMAIN idAssign
    /\ idAssign[imp[1]].sig = imp[2]

\* Process::ready_to_run_thread_index: the first thread whose value_back is Some.
ReadyIndex(p) ==
    Min({i \in DOMAIN procs[p].threads : procs[p].threads[i].valueBack # Waiting})

HasReady(p) == \E i \in DOMAIN procs[p].threads : procs[p].threads[i].valueBack # Waiting

\* run() takes the first process of the hash map's iteration order that has a
\* ready thread; with the identity hasher and small pids that is the least pid.
ChosenPid == Min({p \in DOMAIN procs : HasReady(p)})

\* Removes process p from the map and reports all its threads dead, in order.
RemoveProcess(p, kind) ==
    /\ procs' = [q \in DOMAIN procs \ {p} |-> procs[q]]
    /\ deadLog' = deadLog \o TidsOf(p)
    /\ ended' = ended \cup {p}
    /\ lastEvent' = [NoEvent EXCEPT !.kind = kind, !.pid = p]

-----------------------------------------------------------------------------
(* Builder                                                                  *)

\* ProcessesCollectionBuilder::reserve_pid
ReservePid ==
    /\ ~built /\ pidPool <= MaxPid
    /\ pidPool' = pidPool + 1
    /\ pidsGiven' = Append(pidsGiven, Assign(pidPool))
    /\ UNCHANGED <<built, tidPool, extrinsics, idAssign, procs, panicked,
                   registry, tidsGiven, deadLog, ended, lastEvent>>

\* Mutant: a duplicate registration is not refused.
WithExtrinsicNoDuplicateCheck(key, sig, token) ==
    /\ ~built
    /\ LET index == Cardinality(DOMAIN extrinsics) IN
       /\ idAssign' = (key :> [index |-> index, sig |-> sig]) @@ idAssign
       /\ extrinsics' = (index :> token) @@ extrinsics
    /\ registry' = registry \cup {<<key, sig, token>>}
    /\ UNCHANGED <<built, pidPool, tidPool, procs, panicked, pidsGiven,
                   tidsGiven, deadLog, ended, lastEvent>>

\* Mutant: the index is read from the token table after the token is inserted.
WithExtrinsicLateIndex(key, sig, token) ==
    /\ ~built /\ key \notin DOMAIN idAssign
    /\ LET index == Cardinality(DOMAIN extrinsics) IN
       /\ extrinsics' = (index :> token) @@ extrinsics
       /\ idAssign' = (key :> [index |-> index + 1, sig |-> sig]) @@ idAssign
    /\ registry' = registry \cup {<<key, sig, token>>}
    /\ UNCHANGED <<built, pidPool, tidPool, procs, panicked, pidsGiven,
                   tidsGiven, deadLog, ended, lastEvent>>

\* ProcessesCollectionBuilder::with_extrinsic; a duplicate key panics, which
\* the embedder avoids (documented precondition).
WithExtrinsic(key, sig, token) ==
    /\ ~built /\ key \notin DOMAIN idAssign
    /\ LET index == Cardinality(DOMAIN extrinsics) IN
       /\ idAssign' = (key :> [index |-> index, sig |-> sig]) @@ idAssign
       /\ extrinsics' = (index :> token) @@ extrinsics
    /\ registry' = registry \cup {<<key, sig, token>>}
    /\ UNCHANGED <<built, pidPool, tidPool, procs, panicked, pidsGiven,
                   tidsGiven, deadLog, ended, lastEvent>>

\* Mutant: build starts a fresh pid pool, as it does for tids.
BuildFreshPidPool ==
    /\ ~built
    /\ built' = TRUE
    /\ pidPool' = 1 /\ tidPool' = 1
    /\ procs' = <<>>
    /\ UNCHANGED <<extrinsics, idAssign, panicked, registry,
                   pidsGiven, tidsGiven, deadLog, ended, lastEvent>>

\* ProcessesCollectionBuilder::build: the pid pool is carried over, the tid
\* pool starts afresh, the process map is empty.
Build ==
    /\ ~built
    /\ built' = TRUE
    /\ tidPool' = 1
    /\ procs' = <<>>
    /\ UNCHANGED <<pidPool, extrinsics, idAssign, panicked, registry,
                   pidsGiven, tidsGiven, deadLog, ended, lastEvent>>

-----------------------------------------------------------------------------
(* Collection                                                               *)

\* ProcessesCollection::execute. The main thread's tid is assigned before the
\* VM is built, and is consumed even when building fails.
Execute(m) ==
    /\ built /\ ~panicked
    /\ pidPool <= MaxPid /\ tidPool <= MaxTid
    /\ tidPool' = tidPool + 1
    /\ IF /\ \A imp \in m.imports : Resolves(imp)
          /\ m.memory # "other"
          /\ m.main # "other"
       THEN LET pid == Assign(pidPool)
                main == [tid |-> Assign(tidPool), valueBack |-> "none",
                         started |-> FALSE, expect |-> "none"]
                threads == IF m.main = "func" THEN <<main>> ELSE <<>>
            IN /\ pidPool' = pidPool + 1
               /\ procs' = (pid :> [module |-> m, threads |-> threads]) @@ procs
               /\ pidsGiven' = Append(pidsGiven, pid)
               /\ tidsGiven' = tidsGiven \o [i \in DOMAIN threads |-> threads[i].tid]
               /\ lastEvent' = [NoEvent EXCEPT !.kind = "executed", !.pid = pid]
       ELSE /\ lastEvent' = [NoEvent EXCEPT !.kind = "execErr"]
            /\ UNCHANGED <<pidPool, procs, pidsGiven, tidsGiven>>
    /\ UNCHANGED <<built, extrinsics, idAssign, panicked, registry, deadLog, ended>>

\* ProcessesCollection::run when no thread is ready.
RunIdle ==
    /\ built /\ ~panicked
    /\ ~\E p \in DOMAIN procs : HasReady(p)
    /\ lastEvent' = [NoEvent EXCEPT !.kind = "idle"]
    /\ UNCHANGED <<built, pidPool, tidPool, extrinsics, idAssign, procs,
                   panicked, registry, pidsGiven, tidsGiven, deadLog, ended>>

\* The thread run() picks, and whether the VM accepts its value_back: a thread
\* not yet started takes None, a paused one the type its host call returns.
RunPick(P(_, _, _)) ==
    /\ built /\ ~panicked
    /\ \E p \in DOMAIN procs : HasReady(p)
    /\ LET p == ChosenPid
           i == ReadyIndex(p)
           t == procs[p].threads[i]
       IN P(p, i, t)

ValueAccepted(t) == t.valueBack = IF t.started THEN t.expect ELSE "none"

\* run(): the VM returns BadValueTy and run() panics (processes.rs:282).
RunBadValue ==
    RunPick(LAMBDA p, i, t :
        /\ ~ValueAccepted(t)
        /\ panicked' = TRUE
        /\ UNCHANGED <<built, pidPool, tidPool, extrinsics, idAssign, procs,
                       registry, pidsGiven, tidsGiven, deadLog, ended, lastEvent>>)

\* Mutant: when the main thread returns, its own user data is left out of
\* dead_threads and only the other threads are reported.
RunFinishedDropsMain ==
    RunPick(LAMBDA p, i, t :
        /\ ValueAccepted(t)
        /\ IF i = 1
           THEN /\ procs' = [q \in DOMAIN procs \ {p} |-> procs[q]]
                /\ deadLog' = deadLog \o Tail(TidsOf(p))
                /\ ended' = ended \cup {p}
                /\ lastEvent' = [NoEvent EXCEPT !.kind = "processFinished", !.pid = p]
           ELSE /\ procs' = [procs EXCEPT ![p].threads = RemoveAt(@, i)]
                /\ deadLog' = Append(deadLog, t.tid)
                /\ lastEvent' = [NoEvent EXCEPT !.kind = "threadFinished",
                                                !.pid = p, !.tid = t.tid]
                /\ UNCHANGED ended
        /\ UNCHANGED <<built, pidPool, tidPool, extrinsics, idAssign, panicked,
                       registry, pidsGiven, tidsGiven>>)

\* run(): the thread returns. Thread index 0 ends the process, with the main
\* thread's user data first; any other thread is removed on its own.
RunFinished ==
    RunPick(LAMBDA p, i, t :
        /\ ValueAccepted(t)
        /\ IF i = 1
           THEN RemoveProcess(p, "processFinished")
           ELSE /\ procs' = [procs EXCEPT ![p].threads = RemoveAt(@, i)]
                /\ deadLog' = Append(deadLog, t.tid)
                /\ lastEvent' = [NoEvent EXCEPT !.kind = "threadFinished",
                                                !.pid = p, !.tid = t.tid]
                /\ UNCHANGED ended
        /\ UNCHANGED <<built, pidPool, tidPool, extrinsics, idAssign, panicked,
                       registry, pidsGiven, tidsGiven>>)

\* run(): the thread calls an import; the VM pauses it and run() hands the
\* embedder the token stored at the import's index (value_back stays None).
RunInterrupted ==
    RunPick(LAMBDA p, i, t :
        /\ ValueAccepted(t)
        /\ \E imp \in procs[p].module.imports :
              LET id == idAssign[imp[1]].index IN
              /\ procs' = [procs EXCEPT ![p].threads[i] =
                              [t EXCEPT !.valueBack = Waiting, !.started = TRUE,
                                        !.expect = imp[2]]]
              /\ IF id \in DOMAIN extrinsics
                 THEN /\ lastEvent' = [NoEvent EXCEPT !.kind = "interrupted", !.pid = p,
                                          !.tid = t.tid, !.token = extrinsics[id]]
                      /\ UNCHANGED panicked
                 ELSE /\ panicked' = TRUE
                      /\ UNCHANGED lastEvent
        /\ UNCHANGED <<built, pidPool, tidPool, extrinsics, idAssign, registry,
                       pidsGiven, tidsGiven, deadLog, ended>>)

\* run(): the thread traps; the VM is poisoned and the whole process removed.
RunErrored ==
    RunPick(LAMBDA p, i, t :
        /\ ValueAccepted(t)
        /\ RemoveProcess(p, "processFinished")
        /\ UNCHANGED <<built, pidPool, tidPool, extrinsics, idAssign, panicked,
                       registry, pidsGiven, tidsGiven>>)

\* ProcessesCollectionThread::resume: panics when value_back is already Some.
Resume(p, i, v) ==
    /\ built /\ ~panicked
    /\ IF procs[p].threads[i].valueBack # Waiting
       THEN /\ panicked' = TRUE
            /\ UNCHANGED procs
       ELSE /\ procs' = [procs EXCEPT ![p].threads[i].valueBack = v]
            /\ UNCHANGED panicked
    /\ UNCHANGED <<built, pidPool, tidPool, extrinsics, idAssign, registry,
                   pidsGiven, tidsGiven, deadLog, ended, lastEvent>>

\* ProcessesCollectionProc::start_thread. The tid is assigned first; when the
\* function index is valid the VM appends the thread, and the returned handle
\* carries thread_index = num_threads() taken after the append.
StartThread(p, fnValid) ==
    /\ built /\ ~panicked /\ tidPool <= MaxTid
    /\ tidPool' = tidPool + 1
    /\ IF fnValid
       THEN LET th == [tid |-> Assign(tidPool), valueBack |-> "none",
                       started |-> FALSE, expect |-> "none"]
                threads == Append(procs[p].threads, th)
            IN /\ procs' = [procs EXCEPT ![p].threads = threads]
               /\ tidsGiven' = Append(tidsGiven, th.tid)
               /\ lastEvent' = [NoEvent EXCEPT !.kind = "threadStarted", !.pid = p,
                                               !.tid = th.tid, !.index = Len(threads) + 1]
       ELSE /\ lastEvent' = [NoEvent EXCEPT !.kind = "startErr", !.pid = p]
            /\ UNCHANGED <<procs, tidsGiven>>
    /\ UNCHANGED <<built, pidPool, extrinsics, idAssign, panicked, registry,
                   pidsGiven, deadLog, ended>>

\* ProcessesCollectionProc::abort: removes the process, returns every thread.
Abort(p) ==
    /\ built /\ ~panicked
    /\ RemoveProcess(p, "aborted")
    /\ UNCHANGED <<built, pidPool, tidPool, extrinsics, idAssign, panicked,
                   registry, pidsGiven, tidsGiven>>

\* process.main_thread() and a use of the handle (tid, user_data, resume):
\* the handle always designates thread index 0, and inner() hits
\* unreachable!() when the process has no thread, as after executing a module
\* without a main export. With a thread there, the call changes nothing.
MainThreadUse(p) ==
    /\ built /\ ~panicked
    /\ procs[p].threads = <<>>
    /\ panicked' = TRUE
    /\ UNCHANGED <<built, pidPool, tidPool, extrinsics, idAssign, procs, registry,
                   pidsGiven, tidsGiven, deadLog, ended, lastEvent>>

-----------------------------------------------------------------------------
(* How the embedder reaches a process or a thread from an id it was given. *)

\* process_by_id: the process under pid, if it is in the map.
ProcessById(pid) == {pid} \cap DOMAIN procs

\* thread_by_id: every process is scanned in the map's order (ascending pids)
\* and, in each, the thread indices until one holds the tid; a later process
\* that matches overrides an earlier one.
ThreadById(t) ==
    LET holds(p) == {i \in DOMAIN procs[p].threads : procs[p].threads[i].tid = t}
        hits == {p \in DOMAIN procs : holds(p) # {}}
    IN IF hits = {} THEN {} ELSE {<<Max(hits), Min(holds(Max(hits)))>>}

\* The values the embedder hands back to resume thread i of process p.
ResumeChoices(p, i) ==
    IF ResumeOnlyWaiting /\ procs[p].threads[i].valueBack # Waiting THEN {}
    ELSE IF ResumeTypeChecked THEN {procs[p].threads[i].expect}
    ELSE ValueTypes

Init ==
    /\ built = FALSE
    /\ pidPool = 1 /\ tidPool = 1
    /\ extrinsics = <<>> /\ idAssign = <<>>
    /\ procs = <<>>
    /\ panicked = FALSE
    /\ registry = {}
    /\ pidsGiven = <<>> /\ tidsGiven = <<>> /\ deadLog = <<>>
    /\ ended = {}
    /\ lastEvent = NoEvent

\* Once a panic has happened the program is gone and nothing changes.
Halted == panicked /\ UNCHANGED vars

Next ==
    \/ ReservePid
    \/ \E k \in Keys, s \in ValueTypes, tok \in Tokens : WithExtrinsic(k, s, tok)
    \/ Build
    \/ \E m \in Modules : Execute(m)
    \/ RunIdle \/ RunBadValue \/ RunFinished \/ RunInterrupted \/ RunErrored
    \/ \E t \in 1..MaxTid : \E h \in ThreadById(t) :
          \E v \in ResumeChoices(h[1], h[2]) : Resume(h[1], h[2], v)
    \/ \E pid \in 1..MaxPid : \E p \in ProcessById(pid), ok \in BOOLEAN : StartThread(p, ok)
    \/ \E pid \in 1..MaxPid : \E p \in ProcessById(pid) : Abort(p)
    \/ ~ResumeOnlyWaiting /\ \E pid \in 1..MaxPid : \E p \in ProcessById(pid) : MainThreadUse(p)
    \/ Halted

\* The embedder's driver loop calls run() again and again.
Run == RunIdle \/ RunBadValue \/ RunFinished \/ RunInterrupted \/ RunErrored

Spec == Init /\ [][Next]_vars
FairSpec == Spec /\ WF_vars(Run)
-----------------------------------------------------------------------------
(* Properties                                                               *)

\* The (process, thread index) slots of the live threads.
LiveSlots == UNION {{<<p, i>> : i \in DOMAIN procs[p].threads} : p \in DOMAIN procs}

\* Thread accounting (execute, start_thread, run's ThreadFinished and
\* ProcessFinished, abort): every tid given to a thread is, exactly once,
\* either the tid of one live thread of one live process or reported dead to
\* the embedder in one dead_threads list; it is never lost, never reported
\* twice and never both alive and dead.
ThreadAccounting ==
    /\ IsInjective(tidsGiven)
    /\ {procs[s[1]].threads[s[2]].tid : s \in LiveSlots} \cup Range(deadLog)
          \subseteq Range(tidsGiven)
    /\ \A t \in Range(tidsGiven) :
          Quantify(LiveSlots, LAMBDA s : procs[s[1]].threads[s[2]].tid = t)
          + Quantify(DOMAIN deadLog, LAMBDA j : deadLog[j] = t) = 1

\* The collection seen through what it promises (module Collection): the
\* live threads of each live process, the tids reported dead, the pids
\* reported ended, and the pids and tids handed out so far.
Abs == INSTANCE Collection WITH
    Pids <- 1..MaxPid,
    Tids <- 1..MaxTid,
    live <- [p \in DOMAIN procs |-> Range(TidsOf(p))],
    dead <- Range(deadLog),
    gone <- ended,
    pidsUsed <- Range(pidsGiven),
    tidsUsed <- 1..(tidPool - 1)

\* Refinement (reserve_pid, build, execute, start_thread, run, abort): every
\* step of the collection is a step of Collection or leaves its view
\* unchanged; pids and tids are fresh when handed out, a process ends as a
\* whole with all its threads reported dead, and a thread leaves a live
\* process only by being reported dead.
CollectionRefinement == Abs!Spec

\* Extrinsic routing (with_extrinsic's index, the resolve closure of execute,
\* run's lookup of the interrupt id): the token handed to the embedder on
\* Interrupted is the one it registered under a key, with the same
\* signature, that the interrupted process's module imports.
ExtrinsicRouting ==
    lastEvent.kind = "interrupted" =>
        \E imp \in procs[lastEvent.pid].module.imports :
            <<imp[1], imp[2], lastEvent.token>> \in registry

\* Handle of a started thread (start_thread): the ProcessesCollectionThread
\* returned designates the thread just started, so that tid(), resume() and
\* user_data() on it reach that thread.
StartedHandleValid ==
    lastEvent.kind = "threadStarted" =>
        LET ths == procs[lastEvent.pid].threads IN
        /\ lastEvent.index \in DOMAIN ths
        /\ ths[lastEvent.index].tid = lastEvent.tid

Ready(t) == \E s \in LiveSlots : /\ procs[s[1]].threads[s[2]].tid = t
                                 /\ procs[s[1]].threads[s[2]].valueBack # Waiting

\* No starvation (run's choice of thread, spec 4.5): a thread does not stay
\* ready forever while run() keeps being called.
NoStarvation == \A t \in 1..MaxTid : []<>~Ready(t)
=============================================================================
