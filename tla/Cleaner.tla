------------------------------ MODULE Cleaner ------------------------------
(***************************************************************************)
(* The Cleaner of kernel/thread/cleaner.c: deferred destruction of         *)
(* terminated threads on a single CPU.                                      *)
(*                                                                          *)
(* A thread that terminates itself, under the scheduler lock, appends      *)
(* itself to terminated_list, blocks as TERMINATED and defers a            *)
(* NotifyCleaner until the IRQL drops to STANDARD; the CleanerThread loop  *)
(* acquires cleaner_semaphore, pops the head of the list and frees the     *)
(* thread.  A thread terminated by a peer only gets a death_sentence; the  *)
(* scheduler turns its next dispatch into a self-termination.              *)
(*                                                                          *)
(* The scheduler (Dispatch, Idle) and the deferral of NotifyCleaner are   *)
(* not under src/ and are modelled from spec 4.3, 4.4 and 5.              *)
(***************************************************************************)
EXTENDS Naturals, Sequences, SequencesExt

CONSTANTS Workers,      \* ordinary kernel threads
          CleanerThr,   \* the thread created by InitCleaner
          NoThread      \* no thread: the CPU idles

Threads == Workers \cup {CleanerThr}

VARIABLES sched,           \* scheduler state of each thread
          current,         \* thread on the CPU, or NoThread
          terminated_list, \* the Cleaner's FIFO
          sem,             \* permits available on cleaner_semaphore
          deferred,        \* NotifyCleaner calls deferred to IRQL_STANDARD
          death_sentence,
          cpc,             \* where CleanerThread is in its loop
          cthr,            \* CleanerThread's local thr
          freed,           \* thread descriptors and stacks given back
          crashed          \* assert(thr != NULL) failed

vars == <<sched, current, terminated_list, sem, deferred, death_sentence,
          cpc, cthr, freed, crashed>>

SchedStates == {"Ready", "Running", "Blocked", "Terminated"}

\* InitCleaner: an empty list, a semaphore created with initial = max, so
\* no permits are available, and the cleaner thread ready to run.
Init == /\ sched = [t \in Threads |-> "Ready"]
        /\ current = NoThread
        /\ terminated_list = << >>
        /\ sem = 0
        /\ deferred = 0
        /\ death_sentence = [t \in Threads |-> FALSE]
        /\ cpc = "Acquire"
        /\ cthr = NoThread
        /\ freed = {}
        /\ crashed = FALSE

Runs(t) == current = t /\ sched[t] = "Running"

-----------------------------------------------------------------------------
(* TerminateThread(thr) with thr == GetThread(): lines 87-91 run with the  *)
(* scheduler lock held, so they are one step; the switch away that          *)
(* BlockThread asks for happens at UnlockScheduler, i.e. in Dispatch or    *)
(* Idle below, and NotifyCleaner runs whenever the IRQL next reaches       *)
(* STANDARD.                                                                *)
TerminateSelfNoBlock(t) ==
    /\ Runs(t) /\ t \in Workers
    /\ terminated_list' = Append(terminated_list, t)
    /\ deferred' = deferred + 1
    /\ UNCHANGED <<sched, current, sem, death_sentence, cpc, cthr, freed, crashed>>

TerminateSelfNoDefer(t) ==
    /\ Runs(t) /\ t \in Workers
    /\ terminated_list' = Append(terminated_list, t)
    /\ sched' = [sched EXCEPT ![t] = "Terminated"]
    /\ UNCHANGED <<current, sem, deferred, death_sentence, cpc, cthr, freed, crashed>>

TerminateSelf(t) ==
    /\ Runs(t) /\ t \in Workers
    /\ terminated_list' = Append(terminated_list, t)
    /\ sched' = [sched EXCEPT ![t] = "Terminated"]
    /\ deferred' = deferred + 1
    /\ UNCHANGED <<current, sem, death_sentence, cpc, cthr, freed, crashed>>

\* TerminateThread(thr) on another thread: only the flag, under the lock.
TerminatePeerNotify(t, u) ==
    /\ Runs(t) /\ ~death_sentence[t]
    /\ death_sentence' = [death_sentence EXCEPT ![u] = TRUE]
    /\ deferred' = deferred + 1
    /\ UNCHANGED <<sched, current, terminated_list, sem, cpc, cthr, freed, crashed>>

TerminatePeer(t, u) ==
    /\ Runs(t) /\ ~death_sentence[t]
    /\ death_sentence' = [death_sentence EXCEPT ![u] = TRUE]
    /\ UNCHANGED <<sched, current, terminated_list, sem, deferred, cpc, cthr,
                   freed, crashed>>

\* NotifyCleaner, run by the deferred-work list: ReleaseSemaphore adds a
\* permit and readies the cleaner if it was blocked on the semaphore.
NotifyCleaner ==
    /\ deferred > 0
    /\ deferred' = deferred - 1
    /\ sem' = sem + 1
    /\ sched' = IF sched[CleanerThr] = "Blocked"
                THEN [sched EXCEPT ![CleanerThr] = "Ready"] ELSE sched
    /\ UNCHANGED <<current, terminated_list, death_sentence, cpc, cthr, freed, crashed>>

-----------------------------------------------------------------------------
(* CleanerThread: AcquireSemaphore(cleaner_semaphore, -1) either takes a   *)
(* permit or blocks the cleaner until NotifyCleaner readies it again.      *)
CleanerAcquireNoWait ==
    /\ Runs(CleanerThr) /\ cpc = "Acquire"
    /\ sem' = sem - 1
    /\ cpc' = "Pop"
    /\ UNCHANGED <<sched, current, terminated_list, deferred, death_sentence, cthr, freed, crashed>>

CleanerAcquire ==
    /\ Runs(CleanerThr) /\ cpc = "Acquire"
    /\ IF sem > 0
       THEN /\ sem' = sem - 1
            /\ cpc' = "Pop"
            /\ UNCHANGED sched
       ELSE /\ sched' = [sched EXCEPT ![CleanerThr] = "Blocked"]
            /\ UNCHANGED <<sem, cpc>>
    /\ UNCHANGED <<current, terminated_list, deferred, death_sentence, cthr, freed, crashed>>

\* Lines 51-55, under the scheduler lock: take the head, assert it exists,
\* delete it from the list.
CleanerPop ==
    /\ Runs(CleanerThr) /\ cpc = "Pop"
    /\ IF terminated_list = << >>
       THEN /\ crashed' = TRUE
            /\ UNCHANGED <<terminated_list, cpc, cthr>>
       ELSE /\ cthr' = Head(terminated_list)
            /\ terminated_list' = Tail(terminated_list)
            /\ cpc' = "Destroy"
            /\ UNCHANGED crashed
    /\ UNCHANGED <<sched, current, sem, deferred, death_sentence, freed>>

\* CleanerDestroyThread: unmap the kernel stack, free the name and the
\* descriptor; then back to the top of the loop.
CleanerDestroy ==
    /\ Runs(CleanerThr) /\ cpc = "Destroy"
    /\ freed' = freed \cup {cthr}
    /\ cpc' = "Acquire"
    /\ cthr' = NoThread
    /\ UNCHANGED <<sched, current, terminated_list, sem, deferred, death_sentence, crashed>>

-----------------------------------------------------------------------------
(* The scheduler (spec 5).  A switch may happen whenever the CPU is not    *)
(* inside a scheduler-locked region, i.e. between any two steps above.      *)
(* Dispatching a thread with a death sentence makes it terminate itself   *)
(* on its own context: its only step is then TerminateSelf.                 *)
Dispatch(t) ==
    /\ sched[t] = "Ready"
    /\ sched' = [u \in Threads |->
                    IF u = t THEN "Running"
                    ELSE IF u = current /\ sched[u] = "Running" THEN "Ready"
                    ELSE sched[u]]
    /\ current' = t
    /\ UNCHANGED <<terminated_list, sem, deferred, death_sentence, cpc, cthr, freed, crashed>>

Idle ==
    /\ current # NoThread
    /\ sched[current] \in {"Blocked", "Terminated"}
    /\ \A t \in Threads : sched[t] # "Ready"
    /\ current' = NoThread
    /\ UNCHANGED <<sched, terminated_list, sem, deferred, death_sentence, cpc, cthr,
                   freed, crashed>>

WorkerStep(t) ==
    \/ TerminateSelf(t)
    \/ \E u \in Workers \ ({t} \cup freed) : TerminatePeer(t, u)

CleanerStep == CleanerAcquire \/ CleanerPop \/ CleanerDestroy

Next == /\ ~crashed
        /\ \/ \E t \in Workers : WorkerStep(t)
           \/ CleanerStep
           \/ NotifyCleaner
           \/ \E t \in Threads : Dispatch(t)
           \/ Idle

\* The timer preempts round-robin, so a ready thread is eventually
\* dispatched, and a thread dispatched again and again gets a time slice
\* in which to take its next step (hence strong fairness for the cleaner,
\* which a preemption can disable).  The deferred-work list is drained
\* whenever the IRQL drops.  Workers are not obliged to terminate anyone.
Fairness == /\ \A t \in Threads : WF_vars(Dispatch(t))
            /\ SF_vars(CleanerStep)
            /\ WF_vars(NotifyCleaner)
            /\ WF_vars(Idle)

Spec == Init /\ [][Next]_vars /\ Fairness

-----------------------------------------------------------------------------
(* Properties                                                               *)

TypeOK == /\ sched \in [Threads -> SchedStates]
          /\ current \in Threads \cup {NoThread}
          /\ terminated_list \in Seq(Workers)
          /\ sem \in Nat /\ deferred \in Nat
          /\ death_sentence \in [Threads -> BOOLEAN]
          /\ cpc \in {"Acquire", "Pop", "Destroy"}
          /\ cthr \in Workers \cup {NoThread}
          /\ freed \subseteq Workers
          /\ crashed \in BOOLEAN

\* CleanerDestroyThread frees a thread's stack and descriptor only once the
\* thread can never run again: it is TERMINATED, not on the CPU, and no
\* longer queued for the cleaner (else it would be freed twice).  This is
\* what lets TerminateThread hand its own stack to another thread.
FreedNotSchedulable ==
    \A t \in freed : /\ sched[t] = "Terminated"
                    /\ current # t
                    /\ t \notin ToSet(terminated_list)

\* The permits on cleaner_semaphore, plus the NotifyCleaner calls still
\* deferred, plus the permit the cleaner holds between its acquire and its
\* pop, always equal the length of terminated_list; so the cleaner never
\* pops an empty list (assert(thr != NULL) in CleanerThread) and never
\* sleeps on a non-empty one.
CleanerQueueAccounting ==
    sem + deferred + (IF cpc = "Pop" THEN 1 ELSE 0) = Len(terminated_list)

\* The code implements the abstract ThreadReclaim: a thread's life as the
\* cleaner sees it is alive, then dead once TerminateThread has blocked it,
\* then reclaimed once CleanerDestroyThread has freed it.
Life == [t \in Threads |-> IF t \in freed THEN "reclaimed"
                          ELSE IF sched[t] = "Terminated" THEN "dead"
                          ELSE "alive"]

Reclaim == INSTANCE ThreadReclaim WITH life <- Life, running <- current

ReclaimSpec == Reclaim!Spec

=============================================================================
