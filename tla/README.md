# adix: a verification project

adix is a small preemptive operating system for x86-64: a kernel with a
round-robin scheduler, processes with fork, exec and wait, demand paging with
copy-on-write, a keyboard and a terminal, a read-only file system in a tar
archive, and a few user programs over a small C library. This directory holds
TLA+ models of the kernel and the shell, the TLC configurations that check them,
and TLAPS proofs about the scheduler, the clock, the terminal, the memory areas
and copy-on-write, which is shown to implement private memory. `PROJECT.json` maps
every definition to the lines it models, and lists the runs, hazards, findings and
theorems.

## The system and its parts

| Part | Source | Module |
|---|---|---|
| Lists | `include/sys/list.h` | `KernelList` |
| Scheduler, wait queues, exit, reaping | `sys/scheduler/scheduler.c`, `scheduler.s`, `cooperative_scheduler.c`, `daemon_thread.c` | `Scheduler` |
| Process table, fork, pids, parent links | `sys/scheduler/pcb.c` | `Scheduler` |
| Process limit | `sys/ulimit/ulimit.c` | `Scheduler` |
| Timer: sleep countdown and preemption | `sys/timer/timer.c`, lines 38-62 | `Scheduler` |
| Timer: preemption and the clock on the screen | `sys/timer/timer.c`, `sys/print/screen.c` (`clear_screen`) | `Clock` |
| Keyboard and terminal | `sys/input/keyboard.c`, `sys/terminal/terminal_driver.c` | `Terminal` |
| Page faults, copy-on-write, page tables, reference counts | `sys/memory/page_fault_handler.c`, `page_table_helper.c`, `phys_page_manager2.c`, `free_phys_pages.c` | `CowMemory`, `PrivateMemory` |
| munmap, exec (their effect on pages) | `sys/memory/mm_struct.c`, `sys/scheduler/exec.c` | `CowMemory` |
| Kernel heap | `sys/memory/kmalloc.c` | `KernelHeap` |
| Memory map, reference counts and free list of frames | `sys/memory/setup_kernel_memory.c`, `phys_page_manager2.c`, `free_phys_pages.c` | `PhysPages` |
| Memory areas: mmap, munmap, malloc, growing stacks, the layout of exec | `sys/memory/mm_struct.c`, `sys_malloc.c`, `page_fault_handler.c`, `sys/scheduler/exec.c`, `sys/parser/parseelf.c` | `VmAreas` |
| Tar file system, file table, loading of programs | `sys/parser/parsetarfs.c`, `parseelf.c`, `sys/filesystems/file_structures.c` | `Files` |
| Shell, with its strings and environment | `bin/adsh/adix_shell.c`, `libc/string.c`, `libc/env.c` | `Shell` |
| Interrupt stubs, GDT, AHCI, printing, C library, newfs | | not modelled |

How they interact: an interrupt enters the kernel with interrupts off, so a
handler is one atomic step, up to a context switch. `switchTo` ends with `sti`;
whatever a handler does after a switch runs much later, with interrupts on. The
timer handler switches in its middle, and `terminal_read` sleeps in its middle;
those two are where `Clock` and `Terminal` split a function into steps. System
calls also enter with interrupts off.

## The modules

As a convention, an operator directly above another and named after it (for
example `AwakeStillMarked` above `Awake`) is that operator with a plausible
mistake. No specification uses it; it documents which mistake a property
catches.

**KernelList** gives the doubly linked list as a sequence: `list_add`,
`list_add_tail`, `list_del` and the filtering that the wake-up loops do.

**Scheduler** has the four queues (`pcb_run_queue`, `pcb_wait_queue`,
`wait_timer_queue`, `pcb_terminated_queue`), the counters and tables (`noproc`,
`pid_array`, `rlimit_nproc`) and, per PCB, the fields that decide scheduling. A
PCB is a memory block: `allocated` says which are in use, and a freed one keeps
its contents and can be handed out again. A fork that fails after it has linked the
child leaves the freed PCB on its parent's list of children; `leftover` says that this has
happened. From then on the memory that the lists run through is used again, a PCB may be
linked into two lists or to itself, and an exit that walks its list may clear the parent
of any PCB or never come to an end (`SysExitHangs`, `hung`). `frame` is what a task that sleeps in
`sys_sleep` is to wake for; it is the local of its kernel stack. The running task is
not a variable in the code either: `getCurrentTask` reads the tail of the run
queue. Each system call is one action (`SysYield`, `SysExit`, `SysSleep`,
`SysSleepTimer`, `SysSetrlimit`, `SysFork`, `SysForkFails`), `SleepReturn` is the
rest of `sys_sleep` after the switch, and `TimerTick` and `TerminalFlush` are the
interrupts. `SysForkFails` fails before or after the child was linked to its
parent.

**Clock** models `timer_handler` again, at a finer grain: a stack of unfinished
handlers per task, each of which tests `timer_ticks`, resets it, counts and draws in steps
of its own after the task was resumed, with ticks in between. `video` is what the screen
shows of the time. `slice`, `torn` and `overlapped` are ghosts: the ticks since the last
preemption, and whether the two races have happened that the code does not exclude.

**Terminal** models key presses and releases with the real scan codes, the words
of key state with their release mask, the line buffer with its length, and
`terminal_read` in four steps. `line` is the text as the typist sees it; `disturbed` is a
ghost, the reads whose line a key or another reader has changed since they copied it.

**PrivateMemory** is an abstract specification: every process has its own pages,
fork copies them, nobody else's step changes them.

**CowMemory** is the kernel's way to provide that: page tables that map pages to
frames, write bits, `refcount` and the copy-on-write mark per frame, the free
frames, the contents of frames and the TLB. Its actions are the outcomes of the
page fault handler, a store, fork (complete, or failing after some pages), munmap,
exec, exit and the switch. `View` is the refinement mapping: what a process
reads at each page.

**KernelHeap** keeps the headers in memory: a block that is handed out keeps the
link and the size that were in it, and `kfree` uses them again. `kmalloc` is first
fit with splitting and growth by pages, `kfree` inserts in the order of addresses and joins
with both neighbours. In two places the code makes the list wrong: pages that do not
follow the last free block become a block whose size counts its header, and `kfree` with no
free block behind keeps the link in the header. The ghost `spoilt` records both; the
properties speak of the time before, and the model stops there.

**PhysPages** begins with a BIOS map and follows `setup_kernel_memory`: whole pages
become chunks with reference counts, the kernel's own pages are counted, and runs of
uncounted pages become the free list. Then pages are allocated singly or in runs,
shared, freed and joined, `v_alloc_pages_at_virt` fails half way, and a failure of `mmap`
goes unnoticed (it returns -1, its callers test for 0).

**VmAreas** has the sorted list of areas of every process and of the kernel under
every operation that adds, drops or grows one. Addresses are numbers below
`ADDRESSES` and sums wrap there, as 64-bit sums do.

**Files** lays out a tar archive in blocks and walks it as the code does, from header to
header. `pft` are the blocks for open files, which fork duplicates; `tables` counts those
that are allocated and `left` those that exits have left behind. `loaded` is what the loader
has put into memory for a program, page by page, wherever in a page the segment begins.

**Shell** treats text as sequences of letters, so that the places computed from
`strtok` and word lengths are those of the code. Memory from `malloc` holds anything of
`Unwritten` before it is written. The environment of a script is the table that exec made,
with its strings behind it (`Block`). Children search the path, run and end by
themselves, and have children of their own; the shell waits in between.

How the modules fit together: `Scheduler` decides who runs and takes from the other
modules only that their system calls leave the queues alone. `CowMemory` takes free
frames as a set; `PhysPages` shows that the list of runs is exactly such a set
(`FreeExact`). `VmAreas` says which addresses a page fault may serve, `CowMemory`
what serving it does. `Files` and `Shell` use processes through fork, exit and
exec only.

## The runs

| Run | Module | Checks |
|---|---|---|
| `scheduler_processes` | `MCScheduler` | queues, links, pids and wait descriptors agree; exit notifies |
| `scheduler_limits` | `MCScheduler` | counters with timed sleeps, failing forks and a changing limit; who runs; liveness |
| `clock` | `Clock` | length of the time slices, screen against stored time, preemption goes on |
| `terminal_lines` | `MCTerminal` | buffer against typed line, key state, what makes a read wrong |
| `cow_memory` | `MCCowMemory` | reference counts, write protection, refinement of `PrivateMemory` |
| `kernel_heap` | `KernelHeap` | blocks apart, no byte lost, free neighbours joined |
| `phys_pages` | `MCPhysPages` | free list against counts, counts against users, runs joined |
| `areas` | `MCVmAreas` | areas sorted and disjoint, stacks bounded, growth reaches the fault |
| `files` | `MCFiles` | descriptors not shared; reads, listings and loaded programs exact |
| `shell` | `MCShell` | words, environment, script order, waiting, path search |
| `terminal_race` | `Terminal` | what a comment of the code says of interrupts and the code does not do |
| `cow_tlb` | `MCCowMemory` | the same, for the TLB |

### What the passing runs show

- `scheduler_processes`: four PCBs (the idle thread, the shell and two more) and
  four pids, with forks that fail at each point. Two spare PCBs are the least with which a
  process has a sibling, a grandchild, and a PCB that is reused while an old pointer to it
  could exist; failed forks use the pids up.
  Every PCB is on one queue (`QueuesPartition`), the idle thread stays runnable
  (`IdleTaskRunnable`), one cleanup per switch is enough (`ReapedAtOnce`), parent
  and child links agree and lead to live PCBs until a failed fork has left one behind
  (`ParentsAlive`), pids are unique (`PidsOwned`), wait
  descriptors agree with the queues (`DescriptorsAgree`) and an exit wakes the
  waiters (`ExitNotifies`). The two spare PCBs are symmetric, and states are compared
  without the fields that no step reads before it writes them (`ProcessView`).
- `scheduler_limits`: three PCBs, sleeps of up to two ticks in a word of four
  values (so that a wrapped countdown is visible), limits below, at and above the
  hard limit, and forks that fail at each point. `NoprocExact` says that the counter
  compared with the limit is the number of processes, `CountdownPositive` that the
  unsigned countdown never wraps, `RunningUndisturbed` that an insertion does not
  change who `getCurrentTask` takes for running; `SleepersWake` and `RoundRobin`
  are the liveness properties; both except the exit that hangs on a broken list of children.
- `clock`: a quantum of two ticks, a second of four, a minute of two seconds, hours modulo
  three, at most two unfinished handlers per task; time goes on for ever. `SliceExact`: the
  test "timer_ticks % 100" comes true exactly a quantum after the last preemption, unless
  a tick has fallen between a handler's test and its reset. `DisplayAgrees`: the parts of
  the time on the screen that are not cleared are the time kept, until a handler is preempted
  behind its test. `Preempts`: the resets of late handlers never keep the timer from switching.
- `terminal_lines`: a letter, shift, backspace and newline pressed, repeated, overlapping and
  released, a buffer of three characters, and two readers that are interchangeable
  (`ReaderSymmetry`). The typist does not begin a line with backspace and does not overfill
  the buffer, since the code then writes outside it; they type on while reads are under way.
  `LossNeedsRace` says what makes a read return another line than the one it resets: only a
  key or another reader behind its copy. The arrow keys, in the second word of key state, are
  left to the proof of `MarkedKeysHeld`, which covers all keys.
- `cow_memory`: three processes, two pages of which one is read-only, three
  frames, so that pages are shared by three, copied twice and taken over, and
  frames run out. `CountsCover` and `SharedReadOnly` are the two facts on which
  copy-on-write rests, and `ImplementsPrivateMemory` is the refinement. `MaxRefs`
  bounds the references ever counted for a frame: exits and failed forks never
  give theirs back, so the count only grows. This run assumes that the TLB holds
  no writable translation when a process forks (`Cached` is empty).
- `kernel_heap`: 12 units of static memory with headers of two, requests of 1, 2 and 5, and
  one growth by 6 units behind the heap or a unit apart from it, so that blocks are
  split and left whole, the last free block is handed out, and every pattern of holes occurs.
  The properties hold until `spoilt`.
- `phys_pages`: five BIOS maps of at most nine pages (touching entries, reserved and empty
  ones, broken pages, wrong order, no page 0) and three places of the kernel, then
  requests for up to three pages, at most two references to a page, list nodes that cannot
  be allocated.
- `areas`: two processes and the kernel in 30 addresses with pages of two bytes, two programs
  (one with overlapping segments), two layouts of the kernel, hints in user
  and kernel space, lengths zero and unaligned, four changes, faults at every address. A
  stack limit of three pages is reached.
- `files`: two processes, eight entries in nested directories with sizes of zero, broken and
  whole blocks, two descriptors beside the terminal's, reads of three bytes, seeks
  by one byte, two values of the limit, two programs that are loaded (from the beginning of a
  page, and smaller than a page within one), at most three tables left behind by exits.
- `shell`: all three ways to start it, six scripts (none, with and without interpreter and
  final newline, one that adds names to an inherited environment), twelve lines of which three are
  typed, two children, clean and dirty memory. `EnvSeen`, `ForegroundDone` and `SearchOrder` each
  name one exception, which the run reaches: inherited values that new names were written over,
  a foreground program whose own child has ended, and a program found only in what is left
  of a longer path.
  A child that has ended before the shell waits for it leaves the shell waiting: that is
  what the code does, and it is why this run does not check deadlock.

Runs without deadlock checking: `cow_memory`, `files`
and `areas` when the last process has exited or a bound is reached; `kernel_heap` and
`phys_pages` when nothing fits and nothing is held; `shell` as said above and when
it ends.

### What the violation runs show

- `terminal_race`: a key between the copy and the reset in `terminal_read` is
  lost, or counted without being copied.
- `cow_tlb`: after a fork the parent can go on writing to a shared page through
  the translation that the TLB still holds, and the child sees it.

### Noted while modelling

These have no run of their own; the models that reach them do what the code does.

- Waiting: the exit of a child wakes whoever waits for the *parent's* pid, also in
  `waitpid(parent)` (`scheduler.c:70`); a second exit before the woken parent has run
  replaces the pid its `wait` returns (`scheduler.c:72`); a waiter that is not the exiting
  process's parent is woken without a result (against the comment at 104-105); more than
  `MAX_WAIT_PROC` waiters overrun `temp[]` (`scheduler.c:133`).
- Fork: without a free pid it succeeds with pid -1, since the limit is above the number of
  pids (`pcb.c:24-37`); when it fails after `add_child` it leaves the freed PCB on the parent's list of
  children (`pcb.c:256-305`). kmalloc gives the same memory to the next child, whose node is then
  added behind itself: the walk in the parent's exit does not end, with interrupts off
  (`pcb.c:328`).
- Time: a task resumed right after the clock was reset counts a second that has not passed,
  and a second is missed when the tick that ends it resumes a task that was not preempted
  (`timer.c:66`); "Switch every 10ms" is 100 ticks of 1 ms (`timer.c:58`); a tick between the test and the reset
  is not counted (`timer.c:66-69`); the screen is cleared with the clock, whose hours and minutes
  come back only when they change (`screen.c:78`).
- Terminal: a backspace on an empty line wraps `buffer_len` (`terminal_driver.c:46`, against
  the comment at 56); releasing a key forgets held keys with smaller scan codes in the same
  word (`keyboard.c:117`).
- Kernel heap: a grown block counts its header as free (`kmalloc.c:128`, `140`), so
  that its end is not its own and a second growth would overlap it; the first growth is never
  adjacent in the running kernel, since the kernel's own area lies behind `km_static`; `last_km_addr` moves also when
  growth fails (`kmalloc.c:120`); once the last free block was handed out whole, `kfree` follows a
  stale link (`kmalloc.c:163`, `192`).
- Pages: `mmap` fails with -1, and `v_alloc_page_get_phys_at_virt` and `v_alloc_pages_at_virt` test
  for 0 (`free_phys_pages.c:194`, `243`); `v_alloc_pages_at_virt` resets `free_count` and so frees nothing when it fails
  (`free_phys_pages.c:255`), and adds an area of one page for several (`:240`); a page is lost when there is no list node for it (`:155`); a child's page
  tables are not cleared before they are filled (`page_table_helper.c:382`).
- Areas: `find_vma` never returns NULL (`mm_struct.c:259`); `munmap` of an address outside every area
  frees one that stays listed (`:386-402`), and unmaps everything below the area (`:396`).
- Files: after a seek beyond the end the offset never equals the size again (`parsetarfs.c:144`);
  `sys_exit` does not free the open files (`pcb.c:337`); a segment of more than a page that begins
  within a page loses bytes, because each iteration maps the page that the one before has read
  into (`mm_struct.c:357-376`).
- Shell (`adix_shell.c`): the byte behind a line is read, and pages are not zeroed (`:25-32`); doubled
  spaces lose words; a script without a final newline is read past its end (`:248`, `:322`); a shorter path keeps the tail
  of the longer one (`:114`), in which programs are then found; in a script, new names are written
  over the strings of the environment it was given (`:84`, `exec.c:26`); a child of a foreground program
  that ends wakes the shell (`scheduler.c:70`); `cd` to a regular file closes a NULL directory (`:179`); a child that ended
  before `wait_pid` is waited for for ever (`:146`); the numbers of variables and words are unchecked (`:84`, `:28`).

## Fairness

Safety is checked without fairness. `FairSpec` of `Clock` assumes that the timer chip goes
on ticking and that a handler that is resumed goes on. `FairSpec` of `Scheduler` assumes that the
timer goes on firing and quanta go on ending, which the PIT does whatever the
tasks do, and that a resumed `sys_sleep` returns, since the code of a running
task is executed. Nothing is assumed of user programs or of the keyboard. New
and woken tasks are put at the head of the run queue, so `RoundRobin` has the
premise that such insertions end: the code gives no more.

## What is proved

TLAPS proves the following for all values of the constants, from the named assumptions on
constants in the modules (`SchedulerAssumption`, `ClockAssumption` and so on) and those given here.

| Theorem | States |
|---|---|
| `QueuesPartitioned`, `NoprocCounts`, `IdleTaskStaysRunnable`, `ExitedTasksReaped`, `TypeCorrect` (`SchedulerProofs`) | `QueuesPartition`, `NoprocExact`, `IdleTaskRunnable`, `ReapedAtOnce`, `TypeOK` are invariants |
| `ParentsStayAlive`, `PidsStayOwned` (`ProcessProofs`) | `ParentsAlive`, `PidsOwned` are invariants |
| `DescriptorsStayAgreed`, `CountdownsStayPositive` (`WaitProofs`) | `DescriptorsAgree`, `CountdownPositive` are invariants |
| `RunningStaysUndisturbed`, `ExitsNotify` (`WaitProofs`) | every step satisfies `RunningUndisturbed`, `ExitNotifies` |
| `SwitchesOnTime`, `ScreenShowsTime` (`ClockProofs`) | `SliceExact`, `DisplayAgrees` are invariants |
| `BufferKeepsLine`, `MarkedStayHeld` (`TerminalProofs`) | `BufferHoldsLine`, `MarkedKeysHeld` are invariants |
| `ReadsLoseOnlyInRaces` (`TerminalProofs`) | every step satisfies `LossNeedsRace`, for any number of readers |
| `AreasStayInOrder`, `StacksBounded`, `GrowthReachesFault` (`VmAreasProofs`) | `AreasInOrder`, `StackBounded`, `GrownCovers` are invariants |
| `CountsStayCovered`, `SharedStaysReadOnly` (`CowMemoryProofs`) | `CountsCover`, `SharedReadOnly` are invariants |
| `CopyOnWriteIsPrivate` (`CowMemoryProofs`) | `CowMemory` implements `PrivateMemory`, if `Cached` is empty |

**Queues.** None of the four queue properties is inductive alone. The partition needs that
the running task is on the run queue, which needs a nonempty run queue, which
needs the idle thread there; the exact counter needs that a task is on one queue
only, so that an exit takes one entry away; and reaping needs that the terminated
queue was empty before. `QueueInv` joins them. Its proof rests on a lemma per way
the code relinks a PCB (`LinkedRotate`, `LinkedSleep`, `LinkedExit`, `LinkedWake`,
`LinkedFork`), and those on the lemmas of `KernelListProofs` about what adding,
deleting and filtering do to members, length and repetitions. `FieldTypes`
adds the types of the other variables, with `NextPidFree` for the search in
`pid_array`. `ProcessProofs` first shows that every step is an exit, a fork or
leaves pids and links alone (`StepKinds`), and then proves each property by that
case split. `ParentsAlive` relates the two directions of the links, and is inductive only
because both are in it: an exit takes its PCB off the one list it is on, and clears the
parent pointers of exactly the PCBs on its own.

**Waiting.** `WaitProofs` uses both invariants. A descriptor can go stale only where a PCB
leaves the wait queue, and `WakeAgrees` shows that `wakeup_proc` clears exactly the
descriptors of the tasks that leave. That an insertion leaves the running task alone comes from
the tail of the run queue (`WakeLeavesTail`). `ExitWakes` follows the two wake-ups of
`handle_wakeup_on_exit` and the switch after them.

**Clock.** A reset takes whole seconds from `timer_ticks`, and a second is whole quanta by
`ClockAssumption`. The provers have no lemmas for remainders by a variable, so
`Left(n, q, r)` states division with remainder and `PhaseNext`, `SecondIsQuanta` and `TickPhase`
are proved from it. The inductive invariant adds to the two properties that a handler between
its test and the next tick is the running one and `timer_ticks` is 0 (`TestedNow`), so that its
reset changes nothing, and that without an overlap only the running handler is behind its
test (`Alone`), so that what is not drawn yet is what it is about to draw.

**Terminal.** `LineInv` adds that the line is shorter than the buffer, so that every store
hits the buffer and no length wraps; then each branch of `terminal_enqueue` is compared with
`Edited`. For `ReadsLoseOnlyInRaces`, `ReadSoFar` says what each read that is not disturbed has
copied and counted; a key (`KeyDisturbs`) and another reader's reset either leave the line as
it is or disturb every read that has copied it.

**Areas.** The invariant `Inv` says of every list that its areas are sorted and not empty and
that its stacks are whole pages within their limit, and of the kernel's list that nothing in
it grows. `FindVma` and `UnmappedAbove` say
what the searches return, `InsertedInOrder` and `AddedGood` that an area placed by them
fits, `GrownUp` and `GrownDown` that growth stops at the neighbour and reaches the fault. Wrapping
sums are covered: an area whose end would wrap is not placed.

**Copy-on-write.** The inductive invariant joins `CountsCover`, `SharedReadOnly`, the types and two
facts that neither property states: no process maps a frame at two pages (`OncePerTable`),
without which a fork would count too little, and an ended process has no entries (`EndedEmpty`). The
counts are cardinalities of sets of references; `CountMore` and `CountLess` relate them before and after a step. For
the refinement, every action has a lemma (`PageNotPresentSeen`, `CopyPageSeen`, `ForkSeen`, ...) that its step is a step of
`PrivateMemory` under `View`, or a stutter. A write is the hard case: the frame written is mapped by the
writer only, by `SharedReadOnly`, if no cached translation allows a write that the table
forbids. Without that assumption the statement is false, as `cow_tlb` shows.

Only model-checked: the properties of `KernelHeap`, `PhysPages`, `Files` and `Shell`, whose
definitions are folds and walks along lists, so that a proof would need induction over data,
which the prover cannot do; and the liveness properties `SleepersWake`, `RoundRobin` and `Preempts`, which are
outside its reach too.

## What is not modelled

Saving of registers, the IDT, GDT and TSS and the interrupt stubs (their effect
is the atomicity described above); the AHCI driver, which no other part uses;
printing, scanning and formatting; the first page manager, which is no longer used; the
demonstration programs, which appear as the system calls a task may make; the
host-side `newfs`. In `CowMemory` and `PhysPages`, the four levels of a page table and the frames
they occupy: a new table is taken to be zero where the copy does not write, and
running out of tables is a choice of the model. In `Scheduler`, at most
`MAX_WAIT_PROC` tasks are woken at once, and what the walk along a broken list of children
overwrites where the memory holds no PCB. In `KernelHeap`, what happens after the list has become
wrong. In `Terminal`, writes outside the buffer. In
`VmAreas`, a failing `kmalloc` for an area, `munmap` of an address outside every area, and programs
with more than one argument. In `Files`, an ELF file has one segment, and the
contents of headers are names and sizes. In `Shell`, what is printed.

## What remains

`KernelHeap` beyond the states in which the list is wrong, once the code has no such states; the frames of
page tables and their zeroing; `PhysPages` and `CowMemory` in one specification, with
the list of runs refined to the set of free frames; and `Shell` over `Scheduler`,
so that waiting for a child is the kernel's wait queue in both.
