------------------------------ MODULE Process ------------------------------
(***************************************************************************)
(* Process table and process lifecycle of the Merlon kernel               *)
(* (src/kernel/thread/process.c).                                          *)
(*                                                                         *)
(* Every process has exactly one thread, identified with its PID.  The     *)
(* threads run preemptively on one CPU at IRQL_STANDARD, so the steps of   *)
(* CreateProcessWithEntryPoint, WaitProcess and KillProcess of different   *)
(* processes interleave.  An action is one atomic step of a thread: a step *)
(* that holds a mutex for its whole length is atomic with respect to every *)
(* other holder of that mutex, and the process table mutex and PID         *)
(* spinlock are leaf locks, so each table operation is one step.           *)
(*                                                                         *)
(* Freed memory.  ReapProcess frees the process structure, but pointers to *)
(* it may survive (see NoDanglingChild).  The model keeps the fields of a  *)
(* freed process as they were (the heap block not yet reused), so reads    *)
(* and writes through a stale pointer see and change the stale values.     *)
(* Reaping a structure a second time, and dereferencing the NULL that      *)
(* GetProcessFromPid returns for a PID no longer in the table, halt the    *)
(* kernel: panicked becomes TRUE and no thread takes another step.         *)
(***************************************************************************)
EXTENDS Integers, FiniteSets

CONSTANTS
    MaxProcs,     \* bound on the number of processes ever created (PIDs 1..MaxProcs)
    ExitValues    \* exit values KillProcess may be given

ASSUME MaxProcs \in Nat \ {0}
ASSUME ExitValues \subseteq Int

LOCAL G == INSTANCE Graphs

Pids     == 1 .. MaxProcs
NoPid    == 0             \* "no process": parent of init, free mutex, no result
WaitAny  == -1            \* WaitProcess(-1, ...)
InitPid  == 1

VARIABLES
    next_pid,     \* static pid_t next_pid
    table,        \* PIDs present in process_table
    parent,       \* prcss->parent
    children,     \* prcss->children (the AVL tree, as a set of PIDs)
    terminated,   \* prcss->terminated
    retv,         \* prcss->retv
    sem,          \* permits of prcss->killed_children_semaphore (max - count)
    lock,         \* holder of the prcss->lock mutex, or NoPid
    pc,           \* program counter of the thread of each process
    target,       \* WaitProcess: pid argument
    result,       \* WaitProcess: result
    status,       \* WaitProcess: *status
    failed,       \* WaitProcess: failed_reaps
    todo,         \* children still to visit (TryReapProcessAux / OrphanChildProcesses)
    cur,          \* TryReapProcessAux: child being visited
    exitArg,      \* KillProcess: retv argument
    parentRead,   \* KillProcess: value of prcss->parent read before GetProcessFromPid
    panicked      \* the kernel has halted

vars == <<next_pid, table, parent, children, terminated, retv, sem, lock, pc,
          target, result, status, failed, todo, cur, exitArg, parentRead, panicked>>
waitLocals == <<target, result, status, failed, todo, cur>>
killLocals == <<exitArg, parentRead>>

PCs == {"Unborn", "Running",
        "WaitAcquire", "WaitLockSelf", "WaitPick", "WaitVisit", "WaitEnd",
        "KillRetv", "KillOrphan", "KillNotify", "KillRelease", "Exited"}
WaitPCs == {"WaitAcquire", "WaitLockSelf", "WaitPick", "WaitVisit", "WaitEnd"}

----------------------------------------------------------------------------
(* Boot: CreateProcessWithEntryPoint(0, ...) makes init, PID 1.            *)
Init ==
    /\ next_pid   = 2
    /\ table      = {InitPid}
    /\ parent     = [p \in Pids |-> NoPid]
    /\ children   = [p \in Pids |-> {}]
    /\ terminated = [p \in Pids |-> FALSE]
    /\ retv       = [p \in Pids |-> 0]
    /\ sem        = [p \in Pids |-> 0]
    /\ lock       = [p \in Pids |-> NoPid]
    /\ pc         = [p \in Pids |-> IF p = InitPid THEN "Running" ELSE "Unborn"]
    /\ target     = [p \in Pids |-> WaitAny]
    /\ result     = [p \in Pids |-> NoPid]
    /\ status     = [p \in Pids |-> 0]
    /\ failed     = [p \in Pids |-> 0]
    /\ todo       = [p \in Pids |-> {}]
    /\ cur        = [p \in Pids |-> NoPid]
    /\ exitArg    = [p \in Pids |-> 0]
    /\ parentRead = [p \in Pids |-> NoPid]
    /\ panicked   = FALSE

Goto(p, from, to) ==
    /\ pc[p] = from
    /\ pc' = [pc EXCEPT ![p] = to]

(* The mutex prcss->lock is free (LockProcess would not block).          *)
Free(m) == lock[m] = NoPid

(* InsertIntoProcessTable: next_pid++ under pid_lock, then insert the node *)
(* under process_table_mutex.                                              *)
InsertIntoProcessTable(c) ==
    /\ next_pid' = next_pid + 1
    /\ table'    = table \cup {c}

(* GetProcessFromPid finds a node only for a PID still in the table.      *)
InTable(q) == q \in table

(* RemoveFromProcessTable: delete the node under process_table_mutex.     *)
RemoveFromProcessTable(c) == table' = table \ {c}

(* ReapProcess: RemoveFromProcessTable(prcss->pid), then FreeHeap.  The   *)
(* structure itself keeps its last field values (see the header).          *)
ReapProcess(c) == RemoveFromProcessTable(c)

----------------------------------------------------------------------------
(* CreateProcess(p): a fresh structure whose PID InsertIntoProcessTable   *)
(* allocates under pid_lock, then LockProcess(parent) and insert the child *)
(* into parent->children.                                                  *)
CreateProcess(p, c) ==
    /\ InsertIntoProcessTable(c)
    /\ parent'     = [parent EXCEPT ![c] = p]
    /\ children'   = [children EXCEPT ![c] = {}, ![p] = @ \cup {c}]
    /\ terminated' = [terminated EXCEPT ![c] = FALSE]
    /\ retv'       = [retv EXCEPT ![c] = 0]
    /\ sem'        = [sem EXCEPT ![c] = 0]

(* CreateThread and AddThreadToProcess: the child's one thread is ready.  *)
AddThreadToProcess(c) == pc' = [pc EXCEPT ![c] = "Running"]

(* CreateProcessWithEntryPoint(p, ...) run by the thread of p.  The child  *)
(* is invisible to every other thread until the call returns, so the call *)
(* is one step; it waits only for the parent's own mutex.                  *)
CreateProcessWithEntryPoint(p) ==
    LET c == next_pid IN
    /\ pc[p] = "Running"
    /\ next_pid <= MaxProcs
    /\ Free(p)
    /\ CreateProcess(p, c)
    /\ AddThreadToProcess(c)
    /\ UNCHANGED <<lock, waitLocals, killLocals, panicked>>

----------------------------------------------------------------------------
(* WaitProcess(t, &status, 0) called by the thread of p.                   *)
WaitProcess(p, t) ==
    /\ Goto(p, "Running", "WaitAcquire")
    /\ target' = [target EXCEPT ![p] = t]
    /\ result' = [result EXCEPT ![p] = NoPid]
    /\ failed' = [failed EXCEPT ![p] = 0]
    /\ UNCHANGED <<next_pid, table, parent, children, terminated, retv, sem, lock,
                   status, todo, cur, killLocals, panicked>>

(* AcquireSemaphore(prcss->killed_children_semaphore, -1): blocks until a  *)
(* permit is available.                                                    *)
WaitAcquireNoBlock(p) ==
    /\ Goto(p, "WaitAcquire", "WaitLockSelf")
    /\ sem' = [sem EXCEPT ![p] = @ - 1]
    /\ UNCHANGED <<next_pid, table, parent, children, terminated, retv, lock,
                   waitLocals, killLocals, panicked>>

WaitAcquire(p) ==
    /\ Goto(p, "WaitAcquire", "WaitLockSelf")
    /\ sem[p] > 0
    /\ sem' = [sem EXCEPT ![p] = @ - 1]
    /\ UNCHANGED <<next_pid, table, parent, children, terminated, retv, lock,
                   waitLocals, killLocals, panicked>>

(* LockProcess(prcss); TryReapProcess starts at the root of children.      *)
WaitLockSelf(p) ==
    /\ Goto(p, "WaitLockSelf", "WaitPick")
    /\ Free(p)
    /\ lock' = [lock EXCEPT ![p] = p]
    /\ todo' = [todo EXCEPT ![p] = children[p]]
    /\ UNCHANGED <<next_pid, table, parent, children, terminated, retv, sem,
                   target, result, status, failed, cur, killLocals, panicked>>

(* TryReapProcessAux moves to the next node of the tree.  The order of     *)
(* the AVL tree follows the addresses of the process structures, which    *)
(* the model does not fix: any unvisited child may come next.             *)
WaitPick(p) ==
    /\ pc[p] = "WaitPick"
    /\ IF todo[p] = {}
       THEN /\ pc'  = [pc EXCEPT ![p] = "WaitEnd"]
            /\ cur' = [cur EXCEPT ![p] = NoPid]
            /\ UNCHANGED todo
       ELSE \E c \in todo[p] :
            /\ pc'   = [pc EXCEPT ![p] = "WaitVisit"]
            /\ cur'  = [cur EXCEPT ![p] = c]
            /\ todo' = [todo EXCEPT ![p] = @ \ {c}]
    /\ UNCHANGED <<next_pid, table, parent, children, terminated, retv, sem, lock,
                   target, result, status, failed, killLocals, panicked>>

(* LockProcess(child); if it is terminated and matches the target, copy    *)
(* retv into *status, UnlockProcess(child) and ReapProcess(child): remove  *)
(* it from the process table and free it.  The child stays in             *)
(* parent->children.  Reaping a structure whose PID is no longer in the   *)
(* table (a second reap through a stale pointer) halts the kernel.        *)
Matches(p, c) == terminated[c] /\ (c = target[p] \/ target[p] = WaitAny)

WaitVisit(p) ==
    LET c == cur[p] IN
    /\ pc[p] = "WaitVisit"
    /\ Free(c)
    /\ IF ~Matches(p, c)
       THEN /\ pc' = [pc EXCEPT ![p] = "WaitPick"]
            /\ UNCHANGED <<table, result, status, panicked>>
       ELSE IF InTable(c)
       THEN /\ pc'     = [pc EXCEPT ![p] = "WaitEnd"]
            /\ status' = [status EXCEPT ![p] = retv[c]]
            /\ result' = [result EXCEPT ![p] = c]
            /\ ReapProcess(c)
            /\ UNCHANGED panicked
       ELSE /\ panicked' = TRUE
            /\ UNCHANGED <<pc, table, result, status>>
    /\ UNCHANGED <<next_pid, parent, children, terminated, retv, sem, lock,
                   target, failed, todo, cur, killLocals>>

(* Variant of WaitEnd that returns without re-releasing the failed reaps. *)
WaitEndNoRerelease(p) ==
    /\ pc[p] = "WaitEnd"
    /\ lock' = [lock EXCEPT ![p] = NoPid]
    /\ cur'  = [cur EXCEPT ![p] = NoPid]
    /\ IF result[p] = NoPid
       THEN /\ pc'     = [pc EXCEPT ![p] = "WaitAcquire"]
            /\ failed' = [failed EXCEPT ![p] = IF target[p] # WaitAny THEN @ + 1 ELSE @]
       ELSE /\ pc'     = [pc EXCEPT ![p] = "Running"]
            /\ UNCHANGED failed
    /\ UNCHANGED <<next_pid, table, parent, children, terminated, retv, sem,
                   target, result, status, todo, killLocals, panicked>>

(* UnlockProcess(prcss); count a failed reap of a specific PID and retry,  *)
(* or release the failed reaps back to the semaphore and return.           *)
WaitEnd(p) ==
    /\ pc[p] = "WaitEnd"
    /\ lock' = [lock EXCEPT ![p] = NoPid]
    /\ cur'  = [cur EXCEPT ![p] = NoPid]
    /\ IF result[p] = NoPid
       THEN /\ pc'     = [pc EXCEPT ![p] = "WaitAcquire"]
            /\ failed' = [failed EXCEPT ![p] = IF target[p] # WaitAny THEN @ + 1 ELSE @]
            /\ UNCHANGED sem
       ELSE /\ pc'     = [pc EXCEPT ![p] = "Running"]
            /\ sem'    = [sem EXCEPT ![p] = @ + failed[p]]
            /\ UNCHANGED failed
    /\ UNCHANGED <<next_pid, table, parent, children, terminated, retv,
                   target, result, status, todo, killLocals, panicked>>

----------------------------------------------------------------------------
(* Variant of KillProcess that also takes the process's own mutex, as a   *)
(* fix for the unlocked writes to terminated and retv might.               *)
KillProcessLocked(p, r) ==
    /\ p # InitPid
    /\ Goto(p, "Running", "KillRetv")
    /\ Free(p)
    /\ lock'       = [lock EXCEPT ![p] = p]
    /\ terminated' = [terminated EXCEPT ![p] = TRUE]
    /\ exitArg'    = [exitArg EXCEPT ![p] = r]
    /\ UNCHANGED <<next_pid, table, parent, children, retv, sem,
                   waitLocals, parentRead, panicked>>

(* KillProcess(r) called by the thread of p (init never exits).  The first *)
(* step sets prcss->terminated, with no lock held.                        *)
KillProcess(p, r) ==
    /\ p # InitPid
    /\ Goto(p, "Running", "KillRetv")
    /\ terminated' = [terminated EXCEPT ![p] = TRUE]
    /\ exitArg'    = [exitArg EXCEPT ![p] = r]
    /\ UNCHANGED <<next_pid, table, parent, children, retv, sem, lock,
                   waitLocals, parentRead, panicked>>

(* Variant of KillRetv that destroys the children tree before walking it. *)
KillRetvDestroyFirst(p) ==
    /\ Goto(p, "KillRetv", "KillOrphan")
    /\ retv'     = [retv EXCEPT ![p] = exitArg[p]]
    /\ children' = [children EXCEPT ![p] = {}]
    /\ todo'     = [todo EXCEPT ![p] = {}]
    /\ UNCHANGED <<next_pid, table, parent, terminated, sem, lock,
                   target, result, status, failed, cur, killLocals, panicked>>

(* prcss->retv = retv; OrphanChildProcesses starts at the root of children. *)
KillRetv(p) ==
    /\ Goto(p, "KillRetv", "KillOrphan")
    /\ retv' = [retv EXCEPT ![p] = exitArg[p]]
    /\ todo' = [todo EXCEPT ![p] = children[p]]
    /\ UNCHANGED <<next_pid, table, parent, children, terminated, sem, lock,
                   target, result, status, failed, cur, killLocals, panicked>>

(* Variant of KillOrphan that never leaves the walk once todo is empty.  *)
KillOrphanNoExit(p) ==
    /\ pc[p] = "KillOrphan"
    /\ IF todo[p] = {}
       THEN /\ children' = [children EXCEPT ![p] = {}]
            /\ UNCHANGED <<parent, sem, todo>>
       ELSE \E c \in todo[p] :
            /\ Free(InitPid)
            /\ parent'   = [parent EXCEPT ![c] = InitPid]
            /\ children' = [children EXCEPT ![InitPid] = @ \cup {c}]
            /\ sem'      = [sem EXCEPT ![InitPid] = @ + 1]
            /\ todo'     = [todo EXCEPT ![p] = @ \ {c}]
    /\ UNCHANGED <<pc, next_pid, table, terminated, retv, lock,
                   target, result, status, failed, cur, killLocals, panicked>>

(* AdoptOrphan(GetProcessFromPid(1), c) for each child in turn: lock init, *)
(* set c->parent = 1, insert c into init's children, release one permit   *)
(* of init's semaphore, unlock.  After the walk, AvlTreeDestroy(children). *)
KillOrphan(p) ==
    /\ pc[p] = "KillOrphan"
    /\ IF todo[p] = {}
       THEN /\ pc'       = [pc EXCEPT ![p] = "KillNotify"]
            /\ children' = [children EXCEPT ![p] = {}]
            /\ UNCHANGED <<parent, sem, todo>>
       ELSE \E c \in todo[p] :
            /\ Free(InitPid)
            /\ parent'   = [parent EXCEPT ![c] = InitPid]
            /\ children' = [children EXCEPT ![InitPid] = @ \cup {c}]
            /\ sem'      = [sem EXCEPT ![InitPid] = @ + 1]
            /\ todo'     = [todo EXCEPT ![p] = @ \ {c}]
            /\ UNCHANGED pc
    /\ UNCHANGED <<next_pid, table, terminated, retv, lock,
                   target, result, status, failed, cur, killLocals, panicked>>

(* if (prcss->parent == 0) ReapProcess(prcss); otherwise read the parent   *)
(* PID for GetProcessFromPid.                                              *)
KillNotify(p) ==
    /\ pc[p] = "KillNotify"
    /\ IF parent[p] = NoPid
       THEN /\ pc' = [pc EXCEPT ![p] = "Exited"]
            /\ ReapProcess(p)
            /\ UNCHANGED parentRead
       ELSE /\ pc' = [pc EXCEPT ![p] = "KillRelease"]
            /\ parentRead' = [parentRead EXCEPT ![p] = parent[p]]
            /\ UNCHANGED table
    /\ UNCHANGED <<next_pid, parent, children, terminated, retv, sem, lock,
                   waitLocals, exitArg, panicked>>

(* GetProcessFromPid(parent) then ReleaseSemaphore on its semaphore; the   *)
(* thread then terminates.  A PID no longer in the table yields a NULL     *)
(* node, dereferenced: the kernel halts.                                   *)
KillRelease(p) ==
    LET q == parentRead[p] IN
    /\ pc[p] = "KillRelease"
    /\ IF InTable(q)
       THEN /\ pc'  = [pc EXCEPT ![p] = "Exited"]
            /\ sem' = [sem EXCEPT ![q] = @ + 1]
            /\ UNCHANGED panicked
       ELSE /\ panicked' = TRUE
            /\ UNCHANGED <<pc, sem>>
    /\ UNCHANGED <<next_pid, table, parent, children, terminated, retv, lock,
                   waitLocals, killLocals>>

----------------------------------------------------------------------------
(* Steps the program of a process may choose to take (system calls).      *)
UserStep(p) ==
    \/ CreateProcessWithEntryPoint(p)
    \/ \E t \in {WaitAny} \cup children[p] : WaitProcess(p, t)
    \/ \E r \in ExitValues : KillProcess(p, r)

(* Steps inside the kernel, which the scheduler keeps running.            *)
KernelStep(p) ==
    \/ WaitAcquire(p)
    \/ WaitLockSelf(p)
    \/ WaitPick(p)
    \/ WaitVisit(p)
    \/ WaitEnd(p)
    \/ KillRetv(p)
    \/ KillOrphan(p)
    \/ KillNotify(p)
    \/ KillRelease(p)

Next ==
    /\ ~panicked
    /\ \E p \in Pids : UserStep(p) \/ KernelStep(p)

(* The scheduler is preemptive round-robin: a thread that can run is       *)
(* eventually run.  Nothing forces a program to make a system call.        *)
Fairness == \A p \in Pids : WF_vars(KernelStep(p))

Spec == Init /\ [][Next]_vars /\ Fairness

----------------------------------------------------------------------------
TypeOK ==
    /\ next_pid \in 2 .. MaxProcs + 1
    /\ table \subseteq Pids
    /\ parent \in [Pids -> {NoPid} \cup Pids]
    /\ children \in [Pids -> SUBSET Pids]
    /\ terminated \in [Pids -> BOOLEAN]
    /\ retv \in [Pids -> ExitValues \cup {0}]
    /\ sem \in [Pids -> Nat]
    /\ lock \in [Pids -> {NoPid} \cup Pids]
    /\ pc \in [Pids -> PCs]
    /\ target \in [Pids -> {WaitAny} \cup Pids]
    /\ result \in [Pids -> {NoPid} \cup Pids]
    /\ failed \in [Pids -> Nat]
    /\ todo \in [Pids -> SUBSET Pids]
    /\ cur \in [Pids -> {NoPid} \cup Pids]
    /\ parentRead \in [Pids -> {NoPid} \cup Pids]
    /\ panicked \in BOOLEAN

----------------------------------------------------------------------------
----------------------------------------------------------------------------
(* The thread of p is blocked on the mutex of process m, if any.          *)
WaitsOnLock(p) ==
    CASE pc[p] = "WaitLockSelf"                 -> p
      [] pc[p] = "WaitVisit"                    -> cur[p]
      [] pc[p] = "KillOrphan" /\ todo[p] # {}   -> InitPid
      [] OTHER                                  -> NoPid

WaitsFor == [node |-> Pids,
             edge |-> {<<p, lock[WaitsOnLock(p)]>> :
                          p \in {q \in Pids : WaitsOnLock(q) # NoPid
                                             /\ lock[WaitsOnLock(q)] # NoPid}}]

(* Process mutexes never deadlock: WaitProcess holds its own lock while    *)
(* it locks each child (TryReapProcessAux), CreateProcess locks the       *)
(* parent, and AdoptOrphan locks init from a dying process; no chain of   *)
(* threads each waiting for a mutex held by the next closes into a cycle. *)
NoLockCycle == ~G!HasCycle(WaitsFor)

(* Every process in the table other than init is in the children set of   *)
(* the process its parent field names: CreateProcess links both ways,     *)
(* and KillProcess hands every child to init (AdoptOrphan) before it      *)
(* destroys its own children tree.                                         *)
ParentChildConsistent ==
    \A c \in table \ {InitPid} : c \in children[parent[c]]

(* A WaitProcess whose target is a child that has completed KillProcess   *)
(* (and is not yet reaped) eventually returns, or the kernel halts: the    *)
(* permit its exit released, or the failed reaps WaitProcess re-releases,  *)
(* are never lost.                                                         *)
ZombieFor(p) ==
    \E c \in children[p] \cap table :
        /\ pc[c] = "Exited"
        /\ (c = target[p] \/ target[p] = WaitAny)

WaitReturns ==
    \A p \in Pids : (pc[p] \in WaitPCs /\ ZombieFor(p)) ~> (pc[p] = "Running" \/ panicked)

(* A process that has begun KillProcess finishes it: AdoptOrphan locks    *)
(* init once per child (line 237), so the dying thread must not wait for  *)
(* init's mutex, or walk its children, forever, and it ends by releasing  *)
(* its parent's semaphore or by reaping itself (lines 288-294).            *)
KillCompletes ==
    \A p \in Pids : pc[p] = "KillRetv" ~> (pc[p] = "Exited" \/ panicked)

(* WaitProcess unlinks the child it reaps: every child in the children set *)
(* of a live process is still in the process table (spec 4.5, step 2).     *)
NoDanglingChild ==
    \A p \in table : pc[p] # "Exited" => children[p] \subseteq table

(* The status WaitProcess reports for a reaped child is the value that     *)
(* child passed to KillProcess (spec 8, property 4).                       *)
ExitStatusDelivered ==
    \A p \in Pids : result[p] # NoPid => status[p] = exitArg[result[p]]

(* The parent a dying process notifies is still in the process table when *)
(* KillProcess looks it up (GetProcessFromPid(prcss->parent)).              *)
ParentResolvable ==
    \A p \in Pids : pc[p] = "KillRelease" => parentRead[p] \in table

=============================================================================
