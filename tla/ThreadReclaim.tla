--------------------------- MODULE ThreadReclaim ---------------------------
(***************************************************************************)
(* What the Cleaner promises (spec 4.4), stated without lists, semaphores   *)
(* or deferral: a thread is alive until it is terminated, and a terminated *)
(* thread is eventually reclaimed, once, and never while it is the thread  *)
(* the CPU is running.                                                      *)
(***************************************************************************)
CONSTANTS Threads, NoThread

VARIABLES life,     \* [Threads -> {"alive", "dead", "reclaimed"}]
          running   \* the thread on the CPU, or NoThread

vars == <<life, running>>

Init == /\ life = [t \in Threads |-> "alive"]
        /\ running \in Threads \cup {NoThread}

\* Any thread may be switched to or away from while it is alive; a dead
\* thread may only be switched away from.
Switch(t) == /\ life[t] = "alive"
             /\ running' = t
             /\ UNCHANGED life

Idle == /\ running' = NoThread
        /\ UNCHANGED life

Terminate(t) == /\ life[t] = "alive"
                /\ life' = [life EXCEPT ![t] = "dead"]
                /\ UNCHANGED running

Reclaim(t) == /\ life[t] = "dead"
              /\ running # t
              /\ life' = [life EXCEPT ![t] = "reclaimed"]
              /\ UNCHANGED running

Next == \/ Idle
        \/ \E t \in Threads : Switch(t) \/ Terminate(t) \/ Reclaim(t)

Spec == Init /\ [][Next]_vars /\ \A t \in Threads : WF_vars(Reclaim(t))

=============================================================================
