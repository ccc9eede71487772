# TLA+ models of the Merlon kernel

This directory holds TLA+ models of the runtime core of Merlon, a small
preemptive x86 kernel. The models are checked with TLC. Every definition
is written from the C source under `src/`. `PROJECT.json` maps each
definition to the lines it models. It also lists every run, the mutants
that show each property can fail, the findings, and the hazards.

## 1. Inventory of the system

| Component | Source | State it keeps | Operations |
|---|---|---|---|
| Process table and lifecycle | `kernel/thread/process.c` | `next_pid` and its spinlock; the process table (AVL tree and mutex); per process: `parent`, `children` tree, thread tree, mutex `lock`, `killed_children_semaphore`, `retv`, `terminated` | `CreateProcess`, `CreateProcessWithEntryPoint`, `AddThreadToProcess`, `WaitProcess` (with `TryReapProcess`), `KillProcess` (with `OrphanChildProcesses`/`AdoptOrphan`), `ReapProcess`, `GetProcessFromPid`, `ForkProcess` (a stub) |
| Cleaner (deferred thread destruction) | `kernel/thread/cleaner.c` | `terminated_list` and `cleaner_semaphore` (capacity 2^30); `death_sentence` on each thread | `TerminateThread` (for itself or for a peer), the `CleanerThread` loop, the deferred `NotifyCleaner`, `CleanerDestroyThread` |
| Alternative cleaner sketch | `sysroot_static/test1.c` | a message box | the same operations, using message passing |
| Pseudo-terminal | `kernel/dev/pty.c` | three mailboxes: display (256), keyboard (256), flushed (500); termios flags; a line buffer of up to 300 bytes with per-byte widths | `MasterRead`, `MasterWrite`, `SubordinateRead`, `SubordinateWrite`, the `LineProcessor` thread, `CreatePseudoTerminal` |
| Transfer layer | `kernel/vfs/transfer.c` | a transfer cursor: address, remaining length, offset, direction, type | `ValidateCopy`, `PerformTransfer`, the string and word wrappers, the constructors |
| ELF loader | `kernel/arch/x86/elf/elf.c` | the mapped image, `relocation_point`, the kernel symbol registry (external) | image sizing, segment copy, `ElfGetSymbolValue`, `ElfPerformRelocation(s)`, `ElfLoad`, `ArchLoadDriver` (page locking), `ArchLoadSymbols` |
| Syscall dispatch | `kernel/sys/syscalls.c` | a constant table of 11 handlers | `HandleSystemCall` |
| Interrupt dispatch and IRQL | `kernel/arch/x86/cpu/interrupt.c` | `ready_for_irqs` | `x86HandleInterrupt`, `GetRequiredIrql`, `ArchSetIrql`, `x86MakeReadyForIrqs` |
| Priority queue | `kernel/util/priorityqueue.c` | a binary heap in an int array | `Insert`, `Peek`, `Pop`, `Heapify` |
| FAT disk I/O | `kernel/fs/fat/diskio.c` | the cluster buffers; the disk access is a stub | `Read/WriteFatCluster`, `Read/WriteFatEntry` (FAT12/16/32 packing), `LoadFatData` |
| Serial log | `kernel/util/log.c` | none (port I/O) | `IntToStr`, `LogWriteSerial` format interpretation |
| Panic codes, headers | `kernel/include/*.h`, `libc/.../stdlib.h` | none | declarations only |
| init shell | `applications/init/main.c` | line buffers | a read-eval loop over the terminal |

### How the components interact

* A user program enters the kernel through `HandleSystemCall`. The handlers
  copy pointer arguments through the transfer layer.
* Terminal I/O goes through the PTY. `MasterWrite` feeds the keyboard
  mailbox. A dedicated `LineProcessor` thread echoes each byte into the
  display mailbox and edits the line buffer. It flushes complete lines
  into the flushed mailbox, which `SubordinateRead` drains. Every mailbox
  operation blocks when the mailbox is full or empty, so the three parties
  (the terminal, the line processor, the program) are coupled by
  back-pressure.
* Process termination (`KillProcess`) runs on the dying process's own
  thread. It adopts the children to init, and each adoption releases a
  permit on init's semaphore. It then releases a permit on the parent's
  semaphore. The parent's `WaitProcess` acquires a permit, then walks
  its children under its own mutex and each child's mutex. The permits
  are the only notification; `terminated` and `retv` are written without
  a lock.
* Thread termination hands the thread to the cleaner through a list and a
  semaphore. The release of the semaphore is deferred until the IRQL drops
  back to STANDARD.
* The ELF loader maps a driver image, relocates it against the kernel
  symbol registry, and locks the pages of its locked sections.

### What is hard

* **Concurrency on one CPU.** Threads at IRQL_STANDARD are preempted
  anywhere. The process code mixes three lock levels: the PID spinlock,
  the table mutex, and per-process mutexes. It also writes shared fields
  with no lock at all. The cleaner relies on deferral to IRQL_STANDARD.
  The PTY relies on blocking mailboxes.
* **Reclamation.** A process structure is freed while pointers to it
  survive. A thread's stack is freed by another thread.
* **Numeric edges.** The transfer layer does 32-bit address arithmetic and
  page rounding. ELF relocation works modulo 2^32. FAT12 packs entries
  into nibbles. The priority queue uses array indices.

### What makes each component correct

* Process: the PIDs in the table are unique. Parent fields and children
  sets agree, and orphans end up under init. A reaped child is unlinked
  and reported with its own exit value. A wait whose child has exited
  returns. The mutexes never deadlock.
* Cleaner: every terminated thread is destroyed exactly once, and only
  after it has stopped running. The semaphore never runs ahead of the
  list.
* PTY: the bytes of the flushed mailbox are the canonical editing of the
  keyboard input, in order. The echo matches the spec (property 8).
  Back-pressure never deadlocks a well-behaved terminal.
* Transfer: a copy succeeds iff every page it touches has the required
  permissions. A failed copy changes nothing. String helpers always
  terminate within the buffer.
* ELF: relocated words equal the formulas of spec §4.7. Weak undefined
  symbols resolve to 0. Every page of a locked section is locked.
* Priority queue: Pop returns an extreme element and keeps the heap.

## 2. Plan

The modules in order of importance. Later sittings continue down the
list.

1. **Process** (done): process lifecycle. Composes the per-process mutexes
   and semaphores, the process table and the PID counter.
2. **Cleaner** (done): `TerminateThread`, the cleaner thread and the
   deferred notify, with a spec-modelled scheduler that consumes
   `death_sentence` (the scheduler is not under `src/`). The abstract spec
   `ThreadReclaim` (alive, dead, reclaimed) is checked by refinement.
3. **Pty** (done): the three mailboxes as bounded sequences, with the
   terminal, the line processor thread and one program as actors. The
   pure operator `LineDiscipline!Discipline` is the sequential reference
   the pipeline is checked against.
4. **Transfer** (done): `ValidateCopy` and `PerformTransfer` over a
   scaled address space, over several calls on one cursor; the string and
   word wrappers in `TransferString`, built on the same operator.
5. **Elf** (done): relocation arithmetic modulo 2^AddrBits, symbol
   resolution with weak bindings, image sizing, page locking, all over
   bounded headers.
6. **PriorityQueue** (not modelled, see section 4): no run slot is left.
7. **FatEntry** (not modelled, see section 4): the disk access is a stub,
   and no run slot is left.
8. **Syscall / Interrupt / IntToStr** (not modelled, see section 4).

The alternative cleaner in `sysroot_static/test1.c` is a sketch that
does not build against the kernel's headers. The init shell and the
serial log's port I/O are I/O with no state worth checking. Those are
not modelled.

## 3. Modules and runs

### Process (`Process.tla`, `MCProcess.tla`)

**Correspondence.** Each process has one thread, identified with its
PID. `pc[p]` is that thread's place in the code. The variables `next_pid`,
`table`, `parent`, `children`, `terminated`, `retv`, `sem` (permits of
`killed_children_semaphore`) and `lock` (holder of `prcss->lock`) are the C
state. `target`, `result`, `status`, `failed`, `todo`, `cur`, `exitArg` and
`parentRead` are the locals of `WaitProcess`, `TryReapProcessAux` and
`KillProcess`.

**Actions.** A thread's steps are split wherever another thread can
observe the difference:

* `WaitProcess`: `WaitAcquire`, `WaitLockSelf`, `WaitPick` (choose the next
  tree node), `WaitVisit` (lock the child, test, reap), `WaitEnd`.
* `KillProcess`: `KillProcess` (terminated), `KillRetv`, `KillOrphan` (one
  `AdoptOrphan` per step, then destroy the tree), `KillNotify` (read the
  parent), `KillRelease` (look the parent up and release its semaphore).
* `CreateProcessWithEntryPoint` is a single step. It combines
  `CreateProcess` and `AddThreadToProcess`, each an operator of its own.
  The new process is invisible to other threads until the call returns.
* `ReapProcess` is `RemoveFromProcessTable` followed by the free.

The order in which the AVL tree is walked depends on heap addresses, so
any unvisited child may come next.

**Freed memory.** A freed structure keeps its last values, which models a
heap block that has not been reused yet. Reads and writes through stale
pointers therefore proceed. Two steps halt the kernel (`panicked`):
reaping a PID that is no longer in the table, and dereferencing the NULL
node that `GetProcessFromPid` returns.

**Bounds.** PIDs run from 1 to `MaxProcs`. Four processes are enough for a
zombie sibling, a dying parent with an adoptable child, and init waiting.
That covers all three findings and the lock-cycle mutant, which needs a
dying process with two children. The liveness run uses three processes:
init and two children suffice for a targeted wait to consume another
child's permit. A single exit value, 7, tells the real `retv` from the
initial 0.

**Fairness.** Weak fairness on each thread's kernel steps. The scheduler
is preemptive, so a runnable thread in the kernel eventually runs. No
fairness is assumed on system calls: a program need never call wait or
exit. Deadlock checking is off because the process bound makes every
behaviour end. The kernel then idles with every thread exited or blocked
in `WaitProcess`. `NoLockCycle` states the deadlock-freedom of the
mutexes directly.

| Run | Checks | Result |
|---|---|---|
| `process_safety` (`ProcessSafety.cfg`, 4 processes) | `TypeOK`, `NoLockCycle`, `ParentChildConsistent` | passes, 1.04M states |
| `process_liveness` (`ProcessLiveness.cfg`, 3 processes) | `WaitReturns`, `KillCompletes` | passes, 4,781 states |
| `process_dangling_child` | `NoDanglingChild` | violated: a reaped child stays in `parent->children` (finding) |
| `process_early_reap` | `ExitStatusDelivered` | violated: a child reaped between `terminated = true` and `retv = retv` is reported with status 0 (finding) |
| `process_parent_lookup` | `ParentResolvable` | violated: a dying child looks up a parent that was adopted away and reaped, and dereferences NULL (finding) |

`KillCompletes` is the liveness of the dying side. A process that has
begun `KillProcess` reaches its end, or the kernel halts. To get there,
`AdoptOrphan` must get init's mutex once per child, and init must not
hold that mutex while it waits. `WaitProcess` blocks on the semaphore
before it takes its own lock (lines 207-209). A mutant whose walk never
leaves `KillOrphan` breaks the property.

What the findings show: the reaping protocol in `process.c` is unsafe
beyond the simplest scenario (spec S3). Its second `WaitProcess(-1)`
already walks a freed child. The permits `AdoptOrphan` gives init for
live orphans let init wake while a child is half-way through
`KillProcess`.

**Not modelled here.** Several threads per process (no code under `src/`
creates one), init exiting (its program never returns), and the
semaphore's 1000-permit ceiling.

### Cleaner (`Cleaner.tla`, `ThreadReclaim.tla`, `MCCleaner.tla`)

**Correspondence.** `terminated_list`, `cleaner_semaphore` (`sem`, its
available permits) and `death_sentence` are the C state of
`kernel/thread/cleaner.c` and the thread structure. `cpc` and `cthr` are
the cleaner thread's place in its loop and its local `thr`. `freed` is the
set of threads whose stack and descriptor `CleanerDestroyThread` has given
back. `deferred` counts the `NotifyCleaner` calls that `DeferUntilIrql`
has queued but not yet run. `sched` and `current` are the scheduler state.

**Actions.** `TerminateSelf` is lines 86-92 of `TerminateThread`, which run
under the scheduler lock: append to the list, block as TERMINATED, defer
the notify. `TerminatePeer` is the other branch: it only sets the flag.
`NotifyCleaner` is the deferred `ReleaseSemaphore`. The cleaner loop is
three steps: `CleanerAcquire` (take a permit or block), `CleanerPop`
(lines 51-55 under the lock, with the `assert(thr != NULL)` as `crashed`)
and `CleanerDestroy`. `Dispatch` and `Idle` are the scheduler, modelled
from spec 4.3 and 5. A thread with a death sentence terminates itself when
it next runs, so its only step is `TerminateSelf`.

**Bounds.** Three workers and the cleaner. Three workers let two
terminations be pending while the cleaner is between its acquire and its
pop, and a peer sentence overlap a self-termination.

**Fairness.** Weak fairness on `Dispatch` of each thread, because the
timer preempts round-robin. Weak fairness on `NotifyCleaner`, because the
deferred-work list runs whenever the IRQL drops to STANDARD. Strong
fairness on the cleaner's steps: a preemption can disable them, and a
thread that is dispatched again and again gets a time slice. Workers are
not obliged to do anything. Deadlock checking is off: with a finite set of
workers, every behaviour ends with the CPU idle.

| Run | Checks | Result |
|---|---|---|
| `cleaner_safety` (`CleanerSafety.cfg`) | `TypeOK`, `FreedNotSchedulable`, `CleanerQueueAccounting`, `ReclaimSpec` | passes, 4,698 states |

`CleanerQueueAccounting` relates the permits, the deferred notifies and
the list length. It is what rules out both a pop of an empty list and a
cleaner asleep on a non-empty one. `ReclaimSpec` is `ThreadReclaim!Spec`
under the mapping `Life`. Because the abstract spec carries weak fairness
on `Reclaim(t)`, the run also shows that every dead thread is eventually
freed.

The other branch of `TerminateThread` (line 103) only sets
`death_sentence`. Whether the victim then dies is up to the scheduler,
which is not under `src/` and is modelled from the spec. A liveness
property for this branch would only restate a fairness assumption about
that scheduler, so the run does not state one.

### Pty (`Pty.tla`, `LineDiscipline.tla`, `MCPty.tla`)

**Correspondence.** `kbd`, `display` and `flushed` are the mailboxes
`keybrd_buffer`, `display_buffer` and `flushed_buffer`. `line` is
`line_buffer[0 .. line_buffer_pos)`. `lp_pc`, `lp_c`, `echoQ` and `fi` are
the `LineProcessor` thread's place, its `c`, the echo bytes it still has
to add and its index in the flush loop. `sub_pc` and `sub_left` are a
program's read or write call and its `length_remaining`. `typed`,
`processed`, `got` and `shown` are history variables: what was typed,
what the line processor took, what the program read, and what the screen
showed.

**Actions.** Each blocking `MailboxAdd` or `MailboxGet` ends a step. The
line processor is therefore split into `LineProcessorGet`,
`LineProcessorEcho` (one byte per step, since the display mailbox may be
full), `LineProcessorEdit`, `LineProcessorFlush` (one byte per step) and
`FlushDone`. `SubordinateRead` blocks for its first byte (`ReadFirst`),
then takes what is there (`ReadMore`) and returns (`ReadReturn`).
`SubordinateWrite` writes one byte per step (`WriteByte`).

**Reference.** `LineDiscipline.Discipline(LineCap, input)` is a
`FoldLeft` of one-byte steps. It returns the line, the output and the
echo. `Unbounded` is the same discipline with a line that never fills.

**Bounds.** Every mailbox and the line buffer hold 2 bytes, so a full
mailbox, a full line and a flush that blocks half-way all happen within
4 typed bytes. The keys are `a`, `b`, backspace, newline and ETX. The
program writes at most one byte, which is enough to interleave its output
with echo.

**Fairness.** Weak fairness on the line processor, on the program's
in-kernel steps and on the screen side (`MasterRead`). Nothing obliges
anyone to type, or the program to call read.

| Run | Checks | Result |
|---|---|---|
| `pty_safety` (`PtySafety.cfg`, 4 bytes typed) | `TypeOK`, `DeliveredIsCooked`, `EchoIsCanonical`, `ReadReturns` | passes, 1.10M states, about 2.5 min |
| `pty_long_line` (`PtyLongLine.cfg`) | `CanonicalLineDelivered` | violated: "aa\n" with a 2-byte line buffer reaches the reader as "aa", without its newline (finding) |

What the finding shows: `AddToSubordinateLineBuffer` drops every byte
once the buffer is full, the terminator included, but the flush still
happens. A line of `LINE_BUFFER_SIZE` bytes or more reaches the reader
with no newline, and runs into the next line.

**Not modelled here.** A failed copy to or from the caller's buffer. Pty
models every copy as succeeding. `MasterWrite` (line 57) and
`SubordinateRead` (line 155) ignore the result of `PerformTransfer`:
* in `MasterWrite`, a failed copy queues an uninitialised byte and never
  advances the cursor;
* in `SubordinateRead`, a byte already taken from `flushed_buffer` is
  lost.

Both are listed as hazards. A violation run of their own would show them,
and the run budget is spent.

### Transfer (`Transfer.tla`, `TransferString.tla`, `MCTransfer.tla`, `MCTransferString.tla`)

**Correspondence.** `tr` is `struct transfer`. `start` is the cursor as it
was created. `perms` is what `GetVirtPermissions` returns for each page.
`touched` is the set of user bytes `inline_memcpy` has read or written.
`Perform(t, len)` is `PerformTransfer` as a value: the new cursor, the
result, and the bytes copied. `CopyIntoKernel` and `CopyOutOfKernel` are
folded into it. `TransferString` keeps user memory (`umem`), the kernel
buffer (`kbuf`) and the word read (`word`). Each of
`WriteStringToUsermode`, `ReadStringFromUsermode` (the RECURSIVE
`ReadLoop`), `WriteWordToUsermode` and `ReadWordFromUsermode` is one step,
because a wrapper call runs on one thread.

**Bounds.** The 32-bit address space is scaled to 4 bits: four pages of
four bytes, with user pages 1 and 2 (`UserBase` 4, `UserLimit` 12).
Addresses wrap modulo 16, so buffers that wrap around the top of memory,
end exactly at the limit, or straddle two pages all occur. Lengths run to
15 and cursors take two calls. The user pages range over the permission
sets that matter: none, read-only, read-write, read-write-exec, and
kernel-only. `max_length` is a uint64, 6 bits wide here, so `0 - 1`
wraps. A word is 4 bytes.

`TransferString.tla` composes the two layers in one specification,
`LayerSpec`. Its initial state either starts a raw cursor (and the steps
are `Transfer`'s `Next`) or starts no cursor, and the steps are the four
wrapper calls. The two halves share only the page permissions, so one
run checks the properties of both.

| Run | Checks | Result |
|---|---|---|
| `transfer_layer` (`TransferString.cfg`) | `TypeOK`, `RangeRespected`, `CopiedIsCursorSpan`, `FailureChangesNothing` (temporal), `ReadStringStaysInBuffer`, `WriteStringCopiesString`, `ReadStringCopiesString` | passes, 408K states, about 35 s |
| `transfer_permissions` (`TransferPermissions.cfg`) | `UserCopyRespectsPermissions` | violated: a 2-byte read at address 7 copies from page 2, which is unmapped (finding) |

What the finding shows: `ValidateCopy` counts pages from the first page
of the buffer, so an unaligned buffer's last page is never checked
(spec property 1).

`ReadStringStaysInBuffer` bounds every store of `ReadStringFromUsermode`
by the call's own `max_length`, for `max_length >= 1`. This covers the
loop store at line 147 and the final store at line 153. It holds even
when a copy fails midway. The mutant that runs the loop one more time
breaks it. The word wrappers are modelled, but no property is stated
for them. A word is a single `PerformTransfer`, which copies all of it
or nothing, so a property about it would only restate the code.

Two `max_length` 0 cases were seen while modelling. They have no run of
their own, because the project's run budget went to the ELF loader.
`ReadStringFromUsermode` with `max_length` 0 writes `trusted_buffer[0]`,
outside a zero-length kernel buffer. `ReadStringCopiesString` is stated
for `max_length >= 1`. Calls with `max_length` 0 are still made, and
the model lets them store that byte. `WriteStringToUsermode` with `max_length` 0 returns success
without validating the pointer and without writing a NUL. `size` wraps to
2^64 - 1, and both transfers are clamped to length 0. Spec 4.1 asks for a
terminating NUL on every success. `WriteStringCopiesString` is stated for
`max_length >= 1`.

**Not modelled here.** The uint64 to size_t narrowing of
`amount_to_copy`: lengths stay below 2^`AddrBits`. The `blockable` flag,
which nothing under `src/` reads. Page faults during the copy itself.

### ELF loader (`Elf.tla`, `MCElf.tla`)

**Correspondence.**
* `registry` is the kernel symbol registry that `AddSymbol` fills and
  `GetSymbolAddress` reads. A name maps to 0 when it is absent.
* `mem` is kernel memory, with one word per address. `mapped` is the
  region MapVirt returned for the image, `locked` the pages LockVirt
  locked, `rp` the value of `*relocation_point`, `res` the result of
  `ArchLoadDriver`.
* `ArchLoadSymbols` is one step. `AddSymbols` is its registration loop,
  and a kernel with no symbol table panics.
* `ArchLoadDriver` is one step. `GetFileSize` either fails with EIO or
  `ElfLoad` runs. `ElfLoad` runs the header checks,
  `ElfGetSizeOfImageIncludingBss`, `ElfLoadProgramHeaders`, and
  `ElfPerformRelocations` with `ElfPerformRelocation` and
  `ElfGetSymbolValue`. The lock loop `LockSections` then runs, whatever
  `ElfLoad` returned.
* Each helper is an operator that returns the new memory and a success
  flag, and every C loop is a `FoldLeft`. Both functions run on one thread
  at `IRQL_STANDARD`, so nothing interleaves within them.
* All address arithmetic is taken modulo 2^`AddrBits`, as size_t is.
* Section and symbol names are model values. The string tables that
  `ElfLookupString` reads are abstracted to the name field.

**Bounds.** The bounds are a 6-bit address space with pages of 4 words.
* The link base is 48. MapVirt returns 8 or 20, so every relocation wraps
  past the top of memory.
* Images combine these choices:
  * program headers: one segment with bss; two segments around a
    non-LOAD header, the second starting mid-page; or none;
  * section tables: none; or `.text`, then `.rel.dyn` holding any single
    relocation (two offsets, symbol indices 0 to 5 including
    out-of-range, four types including an unsupported one) or one of two
    same-word pairs, then optionally a foreign REL section or a RELA
    section, then optionally a locked section (aligned, unaligned, or
    `.lockeddata`);
  * magic: valid or invalid.
* Symbols: a strong undefined symbol, a weak undefined symbol, an
  absolute symbol and a defined one.
* Kernel symbol tables: `f` visible or hidden, `g` with a value or with
  value 0, or no symbol table at all.

| Run | Checks | Result |
|---|---|---|
| `elf_safety` (`ElfSafety.cfg`) | `LoadOutcome`, `ImageWithinMapping`, `RelocationsAreSums` | passes, 51K states, about 17 s |
| `elf_locks` (`ElfLocks.cfg`) | `LockedPagesCoverSections` | violated (finding) |

The properties of `elf_safety`:
* `LoadOutcome`: the load succeeds exactly when spec 4.7 accepts the
  image. It is checked against a declarative `Acceptable`, which reads
  the kernel's `.symtab` directly.
* `RelocationsAreSums`: every word equals the loaded value plus the sum
  of the relocations that target it, modulo 2^`AddrBits`. This holds
  whatever order the entries are applied in.

What the `elf_locks` finding shows: `ArchLoadDriver` rounds the start of a
locked section down to a page, but counts pages from `sh_size` alone. A
4-word `.lockedtext` at offset 2 of a page spans two pages, and only the
first is locked. The comment at line 284 and spec 4.7 allow over-locking
but not under-locking.

**Not modelled here.**
* A zero `sh_entsize` (a division by zero at line 194) is out of reach,
  because entries are a sequence.
* The lock loop also runs after a failed `ElfLoad`, at a `*relocation_point`
  that may never have been set (line 281). The model does this, but no
  property states what a failed load may lock, because the spec is silent
  on it.
* `ElfLoad` with `relocate` false (ENOSYS) has no caller in `elf.c`.
* Malformed program headers with `p_memsz < p_filesz`. The model wraps
  `p_memsz - p_filesz` as the code does (line 70), but every image of
  `MCElf` is well formed. A malformed image would zero memory far past
  the mapping; showing that needs a violation run of its own.

## 4. Not modelled

* **Priority queue** (`kernel/util/priorityqueue.c`). The run budget is
  spent, and spec.md puts its users out of scope. Reading it shows two
  defects, listed as hazards:
  * `PriorityQueuePop` moves the element one past the last one into the
    root before it decrements `size` (line 102);
  * `PriorityQueueInsert` sifts up with the max-heap comparison even for
    a min-queue (line 78).
* **FAT disk I/O** (`kernel/fs/fat/diskio.c`). `AccessFatSectors` is a
  stub that moves no data and returns a non-zero value made from its
  arguments. Reading the FAT12 packing shows two defects, listed as
  hazards:
  * an entry that straddles a sector boundary is read with one sector
    instead of two (line 109);
  * the nibble layout is chosen by the parity of the byte offset rather
    than of the entry number (line 114). The write-back also passes
    `write = false`.
* **Serial log** (`kernel/util/log.c`). This is port I/O and formatting
  with no kernel state.
* **Interrupt dispatch and IRQL** (`kernel/arch/x86/cpu/interrupt.c`).
  Its effect on the other components (one thread at a time below
  `IRQL_SCHEDULER`, and deferred work) is part of those models'
  assumptions.
* **Syscall dispatch** (`kernel/sys/syscalls.c`). It is one bounds check
  and a table lookup, and the handlers it calls are not under `src/`.
  The check rejects `call >= _SYSCALL_NUM_ENTRIES` but not a negative
  `call` (line 37). A user `eax` of `0x80000000` or more therefore
  indexes before the table. This is listed as a hazard: showing it needs
  a violation run of its own, and the budget of twelve runs is spent.
* **Alternative cleaner sketch and init shell.** See section 2.

Everything else under `src/` that changes state is modelled. The parts
above stay unmodelled for three reasons:
* they have no state to check (the log, interrupt dispatch, headers);
* their data path is a stub (FAT);
* a finding about them needs a run, and the project keeps to twelve
  runs (priority queue, syscall dispatch).
