------------------------------ MODULE Reactor ------------------------------
(***************************************************************************)
(* The reactor of the syscalls crate (src/interfaces/syscalls/src/lib.rs): *)
(* the future returned by message_response, polled by the program's        *)
(* executor, and the background thread that waits on every outstanding     *)
(* message id and wakes the future whose answer arrived.  Both sides meet  *)
(* through two spin mutexes: each future's sink and REACTOR.new_elems.     *)
(* The kernel side of next_message and of the futex calls is the           *)
(* environment.                                                            *)
(*                                                                         *)
(* A future is named by the message id it waits for; its sink and its      *)
(* waker are named by the same value.  A sink holds Empty or the id of the *)
(* message whose answer was written into it.                               *)
(***************************************************************************)
EXTENDS Integers, Sequences, SequencesExt, FiniteSets

CONSTANTS
    Futures,        \* message ids a message_response future waits for
    WaitId,         \* the id of the background thread's FutexWait message
    Empty,          \* an empty sink
    SpuriousPolls,  \* whether the executor may poll a future it was not woken for
    MaxSpurious     \* bound on the spurious polls of one future

ASSUME WaitId \notin Futures /\ Empty \notin Futures
ASSUME SpuriousPolls \in BOOLEAN /\ MaxSpurious \in Nat

VARIABLES
    futPc,        \* where each future's poll is
    woken,        \* the future's waker was woken and the executor owes it a poll
    spurious,     \* spurious polls made so far, per future
    sinkHeld,     \* the future holds message_sink_lock
    sink,         \* content of message_sink
    result,       \* what the future returned as Poll::Ready
    bgPc,         \* where the background thread is
    newHeld,      \* the background thread holds REACTOR.new_elems
    newElems,     \* REACTOR.new_elems: the ids pushed by futures
    msgIds,       \* background_thread's message_ids; msgIds[1] is the wait id
    wakers,       \* background_thread's wakers: the (sink, waker) of each entry
    cur,          \* the (sink, waker) removed for the answer being delivered
    curData,      \* the answer being delivered (the id of its message)
    futexWaiting, \* the FutexWait is registered in the kernel and not yet woken
    futexWoken,   \* the FutexWait has been answered and not yet received
    answered,     \* answers the kernel holds for next_message
    received,     \* answers next_message has already returned
    running       \* the thread of the process that runs: "exec" or "bg"

vars == <<futPc, woken, spurious, sinkHeld, sink, result, bgPc, newHeld,
          newElems, msgIds, wakers, cur, curData, futexWaiting, futexWoken,
          answered, received, running>>

futVars == <<futPc, woken, spurious, sinkHeld, sink, result>>
bgVars == <<bgPc, newHeld, newElems, msgIds, wakers, cur, curData>>
kernelVars == <<futexWaiting, futexWoken, answered, received, running>>

FutPcs == {"idle", "lockSink", "pushNew", "wake", "pending", "done"}
BgPcs == {"unspawned", "top", "wait", "drain", "next", "deliver", "panicked"}

TypeOK ==
    /\ futPc \in [Futures -> FutPcs]
    /\ woken \in [Futures -> BOOLEAN]
    /\ spurious \in [Futures -> 0..MaxSpurious]
    /\ sinkHeld \in [Futures -> BOOLEAN]
    /\ sink \in [Futures -> Futures \cup {Empty}]
    /\ result \in [Futures -> Futures \cup {Empty}]
    /\ bgPc \in BgPcs
    /\ newHeld \in BOOLEAN
    /\ newElems \in Seq(Futures)
    /\ msgIds \in Seq(Futures \cup {WaitId})
    /\ wakers \in Seq(Futures)
    /\ cur \in Futures \cup {Empty}
    /\ curData \in Futures \cup {Empty}
    /\ futexWaiting \in BOOLEAN /\ futexWoken \in BOOLEAN
    /\ answered \subseteq Futures /\ received \subseteq Futures
    /\ running \in {"exec", "bg"}

Init ==
    /\ futPc = [f \in Futures |-> "idle"]
    /\ woken = [f \in Futures |-> TRUE]      \* a new future is polled once
    /\ spurious = [f \in Futures |-> 0]
    /\ sinkHeld = [f \in Futures |-> FALSE]
    /\ sink = [f \in Futures |-> Empty]
    /\ result = [f \in Futures |-> Empty]
    /\ bgPc = "unspawned"
    /\ newHeld = FALSE
    /\ newElems = <<>>
    /\ msgIds = <<WaitId>>
    /\ wakers = <<>>
    /\ cur = Empty /\ curData = Empty
    /\ futexWaiting = FALSE /\ futexWoken = FALSE
    /\ answered = {} /\ received = {}
    /\ running = "exec"

-----------------------------------------------------------------------------
(* The executor and message_response's poll_fn.                            *)

\* The executor polls a pending future: one whose waker was woken (or a new
\* future), or, where SpuriousPolls, one it was not woken for, as join and
\* select combinators do.  The executor's thread runs one poll at a time.
Poll(f) ==
    /\ running = "exec"
    /\ futPc[f] = "idle"
    /\ \A g \in Futures : futPc[g] \in {"idle", "done"}
    /\ woken[f] \/ (SpuriousPolls /\ spurious[f] < MaxSpurious)
    /\ futPc' = [futPc EXCEPT ![f] = "lockSink"]
    /\ woken' = [woken EXCEPT ![f] = FALSE]
    /\ spurious' = IF woken[f] THEN spurious ELSE [spurious EXCEPT ![f] = @ + 1]
    /\ UNCHANGED <<sinkHeld, sink, result, bgVars, kernelVars>>

\* message_sink.lock(); a non-empty sink is taken and returned as Ready.
LockSink(f) ==
    /\ running = "exec"
    /\ futPc[f] = "lockSink" /\ ~sinkHeld[f]
    /\ IF sink[f] = Empty
         THEN /\ futPc' = [futPc EXCEPT ![f] = "pushNew"]
              /\ sinkHeld' = [sinkHeld EXCEPT ![f] = TRUE]
              /\ UNCHANGED <<sink, result>>
         ELSE /\ futPc' = [futPc EXCEPT ![f] = "done"]
              /\ result' = [result EXCEPT ![f] = sink[f]]
              /\ sink' = [sink EXCEPT ![f] = Empty]
              /\ UNCHANGED sinkHeld
    /\ UNCHANGED <<woken, spurious, bgVars, kernelVars>>

\* The first use of REACTOR runs its lazy initialiser, which spawns the
\* background thread.
SpawnReactor(f) ==
    /\ running = "exec"
    /\ futPc[f] = "pushNew" /\ bgPc = "unspawned"
    /\ bgPc' = "top"
    /\ UNCHANGED <<futVars, newHeld, newElems, msgIds, wakers, cur, curData,
                   kernelVars>>

\* REACTOR.new_elems.lock().push((msg_id, sink, waker)); the guard is a
\* temporary, dropped at the end of the statement.
PushNew(f) ==
    /\ running = "exec"
    /\ futPc[f] = "pushNew" /\ bgPc # "unspawned" /\ ~newHeld
    /\ newElems' = Append(newElems, f)
    /\ futPc' = [futPc EXCEPT ![f] = "wake"]
    /\ UNCHANGED <<woken, spurious, sinkHeld, sink, result, bgPc, newHeld,
                   msgIds, wakers, cur, curData, kernelVars>>

\* emit_message(FutexWake { nwake: 1 }): wakes the background thread's
\* FutexWait if one is registered; otherwise the wake is lost.
EmitFutexWake(f) ==
    /\ running = "exec"
    /\ futPc[f] = "wake"
    /\ futPc' = [futPc EXCEPT ![f] = "pending"]
    /\ futexWaiting' = FALSE
    /\ futexWoken' = (futexWoken \/ futexWaiting)
    /\ UNCHANGED <<woken, spurious, sinkHeld, sink, result, bgVars,
                   answered, received, running>>

\* return Poll::Pending, dropping message_sink_lock.
ReturnPending(f) ==
    /\ running = "exec"
    /\ futPc[f] = "pending"
    /\ futPc' = [futPc EXCEPT ![f] = "idle"]
    /\ sinkHeld' = [sinkHeld EXCEPT ![f] = FALSE]
    /\ UNCHANGED <<woken, spurious, sink, result, bgVars, kernelVars>>

-----------------------------------------------------------------------------
(* background_thread.                                                      *)

\* let mut new_elems = REACTOR.new_elems.lock(); held until the end of the
\* outer loop's body, across the blocking inner loop.
BgLock ==
    /\ running = "bg"
    /\ bgPc = "top" /\ ~newHeld
    /\ newHeld' = TRUE
    /\ bgPc' = "wait"
    /\ UNCHANGED <<futVars, newElems, msgIds, wakers, cur, curData, kernelVars>>

\* emit_message(FutexWait { val_cmp: 0 }); message_ids[0] = wait_notify.
\* The futex word is never written, so the wait is always registered.
BgFutexWait ==
    /\ running = "bg"
    /\ bgPc = "wait"
    /\ futexWaiting' = TRUE
    /\ msgIds' = [msgIds EXCEPT ![1] = WaitId]
    /\ bgPc' = "drain"
    /\ UNCHANGED <<futVars, newHeld, newElems, wakers, cur, curData,
                   futexWoken, answered, received, running>>

\* One element of new_elems.drain(..): an id already in message_ids has its
\* entry of wakers replaced, at wakers[existing_pos] where existing_pos is
\* its position in message_ids; a new id is pushed on both vectors.  An
\* index past the end of wakers panics.
RegisterElem(st, f) ==
    LET pos == SelectInSeq(st.ids, LAMBDA m : m = f)
    IN  IF pos = 0
          THEN [st EXCEPT !.ids = Append(@, f), !.wakers = Append(@, f)]
        ELSE IF pos <= Len(st.wakers)
          THEN [st EXCEPT !.wakers[pos] = f]
        ELSE [st EXCEPT !.panic = TRUE]

Drained == FoldLeft(RegisterElem,
                    [ids |-> msgIds, wakers |-> wakers, panic |-> FALSE],
                    newElems)

BgDrain ==
    /\ running = "bg"
    /\ bgPc = "drain"
    /\ msgIds' = Drained.ids
    /\ wakers' = Drained.wakers
    /\ newElems' = <<>>
    /\ bgPc' = IF Drained.panic THEN "panicked" ELSE "next"
    /\ UNCHANGED <<futVars, newHeld, cur, curData, kernelVars>>

\* The break when next_message returns the futex wait's answer (lines
\* 203-213) is not an action: a future pushes to new_elems only while the
\* background thread does not hold it, so before the FutexWait of that
\* iteration, and it emits its FutexWake with no host call in between
\* (lines 122-127).  The wake never finds the wait registered, and the
\* background thread never leaves its inner loop.

\* Mutant: the waker is taken at index_in_list, not index_in_list - 1.
BgAnswerNoOffset ==
    /\ running = "bg"
    /\ bgPc = "next"
    /\ \E i \in 2..Len(msgIds) :
         /\ msgIds[i] \in answered
         /\ answered' = answered \ {msgIds[i]}
         /\ received' = received \cup {msgIds[i]}
         /\ msgIds' = RemoveAt(msgIds, i)
         /\ curData' = msgIds[i]
         /\ IF i <= Len(wakers)
              THEN /\ cur' = wakers[i]
                   /\ wakers' = RemoveAt(wakers, i)
                   /\ bgPc' = "deliver"
              ELSE /\ bgPc' = "panicked"
                   /\ UNCHANGED <<cur, wakers>>
    /\ UNCHANGED <<futVars, newHeld, newElems, futexWaiting, futexWoken, running>>

\* next_message returns the answer at index_in_list = i - 1 (0-based):
\* message_ids.remove(index_in_list), wakers.remove(index_in_list - 1).
BgAnswer ==
    /\ running = "bg"
    /\ bgPc = "next"
    /\ \E i \in 2..Len(msgIds) :
         /\ msgIds[i] \in answered
         /\ answered' = answered \ {msgIds[i]}
         /\ received' = received \cup {msgIds[i]}
         /\ msgIds' = RemoveAt(msgIds, i)
         /\ curData' = msgIds[i]
         /\ IF i - 1 <= Len(wakers)
              THEN /\ cur' = wakers[i - 1]
                   /\ wakers' = RemoveAt(wakers, i - 1)
                   /\ bgPc' = "deliver"
              ELSE /\ bgPc' = "panicked"
                   /\ UNCHANGED <<cur, wakers>>
    /\ UNCHANGED <<futVars, newHeld, newElems, futexWaiting, futexWoken, running>>

\* *sink.lock() = msg.actual_data; waker.wake().
BgDeliver ==
    /\ running = "bg"
    /\ bgPc = "deliver" /\ ~sinkHeld[cur]
    /\ sink' = [sink EXCEPT ![cur] = curData]
    /\ woken' = [woken EXCEPT ![cur] = TRUE]
    /\ bgPc' = "next"
    /\ cur' = Empty /\ curData' = Empty
    /\ UNCHANGED <<futPc, spurious, sinkHeld, result, newHeld, newElems,
                   msgIds, wakers, kernelVars>>

-----------------------------------------------------------------------------
(* The kernel answers a message the program emitted earlier.               *)

KernelAnswer(m) ==
    /\ m \notin answered \cup received
    /\ answered' = answered \cup {m}
    /\ UNCHANGED <<futVars, bgVars, futexWaiting, futexWoken, received, running>>

-----------------------------------------------------------------------------
(* The kernel's choice of thread.  The threads of a process are cooperative *)
(* (spec 5): a thread runs until it is suspended in a host call, and the    *)
(* kernel may then resume any thread whose call can return.  A spin::Mutex  *)
(* wait makes no host call, so a spinning thread keeps the process.         *)

\* Where a thread is suspended in a host call: the executor just after
\* emit_message(FutexWake) in a poll, or waiting with no future to poll;
\* the background thread just after emit_message(FutexWait), or in
\* next_message.
Suspended(t) ==
    IF t = "exec"
    THEN \/ \E f \in Futures : futPc[f] = "pending"
         \/ \A f \in Futures : futPc[f] \in {"idle", "done"} /\ ~woken[f]
    ELSE bgPc \in {"drain", "next"}

\* Whether a thread's host call can return: the executor has a future to
\* poll or a poll to finish; next_message has a message to return.
CanRun(t) ==
    IF t = "exec"
    THEN \E f \in Futures : futPc[f] \notin {"idle", "done"} \/ woken[f]
    ELSE \/ bgPc \in {"top", "wait", "drain", "deliver"}
         \/ bgPc = "next" /\ (futexWoken \/ \E i \in 2..Len(msgIds) : msgIds[i] \in answered)

Schedule(t) ==
    /\ t # running /\ Suspended(running) /\ CanRun(t)
    /\ running' = t
    /\ UNCHANGED <<futVars, bgVars, futexWaiting, futexWoken, answered, received>>

-----------------------------------------------------------------------------
FutureStep(f) ==
    \/ Poll(f) \/ LockSink(f) \/ SpawnReactor(f)
    \/ PushNew(f) \/ EmitFutexWake(f) \/ ReturnPending(f)

Background ==
    BgLock \/ BgFutexWait \/ BgDrain \/ BgAnswer \/ BgDeliver

Next ==
    \/ \E f \in Futures : FutureStep(f) \/ KernelAnswer(f)
    \/ Background
    \/ \E t \in {"exec", "bg"} : Schedule(t)

Spec == Init /\ [][Next]_vars

-----------------------------------------------------------------------------
(* Properties.                                                             *)

\* Answer routing (background_thread's parallel message_ids and wakers,
\* lines 188-218): the answer written into a future's sink, and so the value
\* its poll returns as Ready, is the answer to that future's own message.
AnswerRouting ==
    \A f \in Futures : sink[f] \in {Empty, f} /\ result[f] \in {Empty, f}

\* new_elems (line 122 against lines 171-221): the executor never spins on
\* REACTOR.new_elems while the background thread holds it; the background
\* thread keeps the guard across its host calls, and a suspended thread
\* cannot release it while the executor spins.
NewElemsFree ==
    ~(running = "exec" /\ newHeld /\ \E f \in Futures : futPc[f] = "pushNew")

\* Lock order (message_sink_lock, line 120, held across emit_message at
\* line 123; the background thread's sink.lock() at line 219): the
\* background thread never spins on the sink of a future whose poll holds
\* it, since that poll, suspended in its host call, cannot run again while
\* the background thread spins.
LockOrder ==
    ~(running = "bg" /\ bgPc = "deliver" /\ sinkHeld[cur])

=============================================================================
