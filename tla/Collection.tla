----------------------------- MODULE Collection -----------------------------
(***************************************************************************)
(* What a process collection promises its embedder (spec 4.5, 5 and 8),    *)
(* with scheduling and host calls abstracted away: processes come into     *)
(* existence under pids never used before, with threads whose ids were     *)
(* never used before; a thread leaves its process only by being reported   *)
(* dead; a process leaves the collection only as a whole, with all its     *)
(* live threads reported dead, and its pid is never live again.  Ids may   *)
(* be consumed without naming anything (a reserved pid, a tid taken by a   *)
(* call that then failed).                                                 *)
(***************************************************************************)
CONSTANTS Pids, Tids

VARIABLES
    live,      \* live pid -> the tids of its live threads
    dead,      \* tids reported dead
    gone,      \* pids reported finished or aborted
    pidsUsed,  \* pids handed out
    tidsUsed   \* tids consumed

vars == <<live, dead, gone, pidsUsed, tidsUsed>>

TypeOK ==
    /\ DOMAIN live \subseteq Pids
    /\ \A p \in DOMAIN live : live[p] \subseteq Tids
    /\ dead \subseteq Tids /\ gone \subseteq Pids
    /\ pidsUsed \subseteq Pids /\ tidsUsed \subseteq Tids

Init ==
    /\ live = <<>>
    /\ dead = {} /\ gone = {}
    /\ pidsUsed = {} /\ tidsUsed = {}

\* A pid is handed out without a process (reserve_pid).
Reserve(p) ==
    /\ p \in Pids \ pidsUsed
    /\ pidsUsed' = pidsUsed \cup {p}
    /\ UNCHANGED <<live, dead, gone, tidsUsed>>

\* Fresh tids U are consumed, without a thread (a failed call).
Burn(U) ==
    /\ U # {} /\ U \subseteq Tids \ tidsUsed
    /\ tidsUsed' = tidsUsed \cup U
    /\ UNCHANGED <<live, dead, gone, pidsUsed>>

\* A process appears under a fresh pid with threads T among fresh tids U.
Spawn(p, T, U) ==
    /\ p \in Pids \ pidsUsed
    /\ U \subseteq Tids \ tidsUsed /\ T \subseteq U
    /\ live' = [q \in DOMAIN live \cup {p} |-> IF q = p THEN T ELSE live[q]]
    /\ pidsUsed' = pidsUsed \cup {p}
    /\ tidsUsed' = tidsUsed \cup U
    /\ UNCHANGED <<dead, gone>>

\* A live process gains a thread with a fresh tid.
Grow(p, t) ==
    /\ p \in DOMAIN live /\ t \in Tids \ tidsUsed
    /\ live' = [live EXCEPT ![p] = @ \cup {t}]
    /\ tidsUsed' = tidsUsed \cup {t}
    /\ UNCHANGED <<dead, gone, pidsUsed>>

\* One thread of a live process is reported dead; the process stays.
EndThread(p, t) ==
    /\ p \in DOMAIN live /\ t \in live[p]
    /\ live' = [live EXCEPT ![p] = @ \ {t}]
    /\ dead' = dead \cup {t}
    /\ UNCHANGED <<gone, pidsUsed, tidsUsed>>

\* A live process ends; all its live threads are reported dead.
End(p) ==
    /\ p \in DOMAIN live
    /\ live' = [q \in DOMAIN live \ {p} |-> live[q]]
    /\ dead' = dead \cup live[p]
    /\ gone' = gone \cup {p}
    /\ UNCHANGED <<pidsUsed, tidsUsed>>

Next ==
    \/ \E p \in Pids : Reserve(p) \/ End(p)
    \/ \E U \in SUBSET Tids : Burn(U) \/ \E p \in Pids, T \in SUBSET U : Spawn(p, T, U)
    \/ \E p \in Pids, t \in Tids : Grow(p, t) \/ EndThread(p, t)

Spec == Init /\ [][Next]_vars

=============================================================================
