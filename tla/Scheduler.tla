------------------------------ MODULE Scheduler ------------------------------
(***************************************************************************)
(* The process table and the scheduler of adix: sys/scheduler/scheduler.c, *)
(* the process life cycle of sys/scheduler/pcb.c (fork, exit, parent and   *)
(* child links, pids), the process limit of sys/ulimit/ulimit.c, and the   *)
(* three interrupts that move processes between the queues (system call,   *)
(* timer, keyboard).                                                       *)
(*                                                                         *)
(* There is one CPU.  Every IDT entry is an interrupt gate, so a handler   *)
(* runs with interrupts off from its entry to the context switch it ends   *)
(* in (or to its iret) and is one action here.  switchTo executes "sti"    *)
(* before it returns into the task it resumes: what a sleeping system call *)
(* still has to do after sys_yield returns can be interrupted, and is an   *)
(* action of its own (SleepReturn).                                        *)
(*                                                                         *)
(* An operator that stands directly above another and is named after it    *)
(* (StillAsleepAll above StillAsleep) is that operator with a mistake the  *)
(* code could have; it is used only to see that the checks would fail.     *)
(***************************************************************************)
EXTENDS KernelList

CONSTANTS
  Task,            \* the addresses kmalloc can return for a struct pcb_t
  Daemon,          \* the PCB of the idle kernel thread (invokeDaemon)
  Shell,           \* the PCB of the first user process (bin/adsh)
  NULL,            \* no parent
  ULIMIT,          \* size of pid_array: the pids are 1 .. ULIMIT-1
  TERMINAL_TYPE,   \* the wait descriptor of a terminal read
  NPROC_MAX,       \* RLIMIT_NPROC_MAX, the hard limit on processes
  MAX_WAIT_PROC,   \* capacity of temp[] in _sys_wakeup
  WORD,            \* number of values of a uint64_t
  MaxSleep,        \* bound: the longest sleep a program asks for
  Awaited,         \* bound: the descriptors a program sleeps on
  Limits,          \* bound: the process limits a program asks for
  MemoryMayRunOut  \* whether the allocations of sys_fork may fail

Pid == 1..(ULIMIT - 1)
NO_PID == -1                        \* what getNextPid returns when none is left
NOT_WAITING == 0
UNSET == 0                          \* stands for whatever an unwritten field holds
TIMER_ELAPSED == ULIMIT + 1

ASSUME SchedulerAssumption ==
  /\ Daemon \in Task /\ Shell \in Task /\ Daemon # Shell
  /\ NULL \notin Task
  /\ IsFiniteSet(Task)
  /\ ULIMIT \in Nat /\ ULIMIT >= 3
  /\ NPROC_MAX \in Nat /\ NPROC_MAX >= 2
  /\ MAX_WAIT_PROC \in Nat
  /\ TERMINAL_TYPE \in Nat /\ TERMINAL_TYPE > TIMER_ELAPSED
  /\ MaxSleep \in Nat /\ WORD \in Nat /\ MaxSleep < WORD
  /\ Awaited \subseteq Pid \cup {TERMINAL_TYPE}
  /\ Limits \subseteq Nat
  /\ MemoryMayRunOut \in BOOLEAN

VARIABLES
  pcb_run_queue, pcb_wait_queue, wait_timer_queue, pcb_terminated_queue,
  noproc,          \* processes that are not terminated
  pid_array,       \* the pids that are marked as in use
  rlimit_nproc,    \* rlimit_cur[RLIMIT_NPROC]
  allocated,       \* the PCBs that are allocated
  \* fields of struct pcb_t
  pid, parent,
  children,        \* the PCBs on the task's list, {} when "leftover"
  wait_desc, wakeup_return, sleep_time_rem,
  frame,           \* the argument of the sys_sleep call a task is inside of,
                   \* NOT_WAITING when it is in no such call
  leftover,        \* ghost: a failed fork has left the PCB it freed on its
                   \* parent's list of children
  hung             \* an exit follows a list of children that has no end

queues == <<pcb_run_queue, pcb_wait_queue, wait_timer_queue,
            pcb_terminated_queue>>
fields == <<pid, parent, children, wait_desc, wakeup_return, sleep_time_rem,
            frame>>
faults == <<leftover, hung>>
vars == <<queues, noproc, pid_array, rlimit_nproc, allocated, fields, faults>>

(***************************************************************************)
(* The running task is the tail of the run queue.                          *)
(***************************************************************************)
getCurrentTask == LastEntry(pcb_run_queue)

(***************************************************************************)
(* A system call is made by a user process that is in no system call.  The *)
(* idle thread makes none.                                                 *)
(***************************************************************************)
CallsAlsoIdle(t) ==
  /\ ~hung
  /\ t = getCurrentTask
  /\ frame[t] = NOT_WAITING
Calls(t) ==
  /\ ~hung
  /\ t = getCurrentTask
  /\ t # Daemon
  /\ frame[t] = NOT_WAITING

(***************************************************************************)
(* createTask, for the two PCBs made at boot: adsh gets pid 1 and the idle *)
(* thread pid 2.  The fields it leaves unset are the zeros of km_static.   *)
(***************************************************************************)
TasksCreated ==
  /\ allocated = {Shell, Daemon}
  /\ pid_array = {1, 2}
  /\ pid = [t \in Task |->
              IF t = Shell THEN 1 ELSE IF t = Daemon THEN 2 ELSE NO_PID]
  /\ parent = [t \in Task |-> NULL]
  /\ children = [t \in Task |-> {}]
  /\ wait_desc = [t \in Task |-> NOT_WAITING]
  /\ wakeup_return = [t \in Task |-> UNSET]
  /\ sleep_time_rem = [t \in Task |-> 0]
  /\ frame = [t \in Task |-> NOT_WAITING]

(***************************************************************************)
(* Boot: cooperative_schedule adds each at the head of the run queue and   *)
(* yields, which moves the idle thread to the tail and runs it.            *)
(***************************************************************************)
Init ==
  /\ TasksCreated
  /\ pcb_run_queue = <<Shell, Daemon>>
  /\ pcb_wait_queue = <<>>
  /\ wait_timer_queue = <<>>
  /\ pcb_terminated_queue = <<>>
  /\ noproc = 2
  /\ rlimit_nproc = NPROC_MAX
  /\ leftover = FALSE /\ hung = FALSE
-----------------------------------------------------------------------------
(***************************************************************************)
(* cleanupTerminated, which switchTo calls on the stack of the next task:  *)
(* the first terminated task, if there is one, is freed.  (For a task      *)
(* without a pid it writes pid_array[-1]: no pid is freed.)                *)
(***************************************************************************)
cleanupTerminatedNever(terminated) ==
  /\ pcb_terminated_queue' = terminated
  /\ UNCHANGED <<pid_array, allocated>>
cleanupTerminated(terminated) ==
  \/ /\ terminated = <<>>
     /\ pcb_terminated_queue' = <<>>
     /\ UNCHANGED <<pid_array, allocated>>
  \/ /\ terminated # <<>>
     /\ pcb_terminated_queue' = Tail(terminated)
     /\ pid_array' = pid_array \ {pid[Head(terminated)]}
     /\ allocated' = allocated \ {Head(terminated)}

(***************************************************************************)
(* sys_yield and switchTo, given the run and terminated queues at the      *)
(* call: the head of the run queue becomes its tail and runs.              *)
(***************************************************************************)
sys_yieldKeepsHead(run, terminated) ==
  /\ pcb_run_queue' = list_add(Head(run), list_del(Head(run), run))
  /\ cleanupTerminated(terminated)
sys_yield(run, terminated) ==
  /\ pcb_run_queue' = list_add_tail(Head(run), list_del(Head(run), run))
  /\ cleanupTerminated(terminated)

(***************************************************************************)
(* _sys_wakeup: the tasks of "queue" that wait for "desc".  They go to the *)
(* head of the run queue in the order they have, and wait for nothing.     *)
(* Past MAX_WAIT_PROC the code writes beyond temp[]; such a wake-up has no *)
(* defined outcome and no step here.                                       *)
(***************************************************************************)
Waiters(queue, desc, d) == {t \in Entries(queue) : desc[t] = d}

FitsTemp(woken) == Cardinality(woken) <= MAX_WAIT_PROC

AwakeStillMarked(desc, woken) == desc
Awake(desc, woken) ==
  [t \in Task |-> IF t \in woken THEN NOT_WAITING ELSE desc[t]]

RunnableAfterAtTail(run, queue, woken) == run \o Keep(queue, woken)
RunnableAfter(run, queue, woken) == Keep(queue, woken) \o run

StillAsleepAll(queue, woken) == queue
StillAsleep(queue, woken) == Keep(queue, Entries(queue) \ woken)

(***************************************************************************)
(* Who an exiting task wakes: those waiting for its pid or, when there is  *)
(* nobody, those waiting for its parent's pid.                             *)
(***************************************************************************)
WokenByExitParentOnly(t) ==
  IF parent[t] = NULL THEN {}
  ELSE Waiters(pcb_wait_queue, wait_desc, pid[parent[t]])
WokenByExit(t) ==
  LET byPid == Waiters(pcb_wait_queue, wait_desc, pid[t])
  IN  IF parent[t] = NULL THEN {}
      ELSE IF byPid # {} THEN byPid
      ELSE Waiters(pcb_wait_queue, wait_desc, pid[parent[t]])
-----------------------------------------------------------------------------
(***************************************************************************)
(* remove_parent_info_from_children: the parent fields after it has come   *)
(* by the PCBs "visited".                                                  *)
(***************************************************************************)
OrphanedNone(visited) == parent
Orphaned(visited) == [c \in Task |-> IF c \in visited THEN NULL ELSE parent[c]]

(***************************************************************************)
(* The PCBs that the walk along t's children can come by.  Once a failed   *)
(* fork has left a freed PCB on some list, the memory the lists run        *)
(* through is used again, and a PCB may be linked into two of them or to   *)
(* itself: then the walk visits any PCBs, or does not end.  (What else it  *)
(* overwrites when that memory does not hold a PCB is not modelled.)       *)
(***************************************************************************)
Visits(t) == IF leftover THEN SUBSET {c \in Task : parent[c] # NULL}
             ELSE {children[t]}

Intact(lists) == IF leftover' THEN [t \in Task |-> {}] ELSE lists
-----------------------------------------------------------------------------
(***************************************************************************)
(* System calls                                                            *)
(***************************************************************************)
SysYield(t) ==
  /\ Calls(t)
  /\ sys_yield(pcb_run_queue, pcb_terminated_queue)
  /\ UNCHANGED <<pcb_wait_queue, wait_timer_queue, noproc, rlimit_nproc,
                 fields, faults>>

(***************************************************************************)
(* sys_exit (also the end of a task on a fault it has no right to).        *)
(***************************************************************************)
SysExit(t) ==
  LET woken == WokenByExit(t)
  IN  /\ Calls(t)
      /\ FitsTemp(woken)
      /\ UNCHANGED faults
      /\ noproc' = noproc - 1
      /\ wait_desc' = Awake(wait_desc, woken)
      /\ pcb_wait_queue' = StillAsleep(pcb_wait_queue, woken)
      /\ wakeup_return' = [p \in Task |->
           IF p = parent[t] THEN pid[t] ELSE wakeup_return[p]]
      /\ children' = Intact([p \in Task |->
           IF p = parent[t] THEN children[p] \ {t} ELSE children[p]])
      /\ \E visited \in Visits(t) : parent' = Orphaned(visited)
      /\ sys_yield(RunnableAfter(list_del(t, pcb_run_queue),
                                 pcb_wait_queue, woken),
                   list_add(t, pcb_terminated_queue))
      /\ UNCHANGED <<wait_timer_queue, rlimit_nproc, pid, sleep_time_rem,
                     frame>>

(***************************************************************************)
(* An exit that never comes to the end of its list of children: interrupts *)
(* stay off and nothing else happens.                                      *)
(***************************************************************************)
SysExitHangs(t) ==
  /\ Calls(t)
  /\ leftover
  /\ hung' = TRUE
  /\ UNCHANGED <<queues, noproc, pid_array, rlimit_nproc, allocated, fields,
                 leftover>>

Spin == hung /\ UNCHANGED vars

(***************************************************************************)
(* sys_sleep up to the switch: waitpid(d), wait() (d is the caller's own   *)
(* pid) and the read of the terminal (d = TERMINAL_TYPE).                  *)
(***************************************************************************)
SysSleep(t, d) ==
  /\ Calls(t)
  /\ wait_desc' = [wait_desc EXCEPT ![t] = d]
  /\ frame' = [frame EXCEPT ![t] = d]
  /\ pcb_wait_queue' = list_add(t, pcb_wait_queue)
  /\ sys_yield(list_del(t, pcb_run_queue), pcb_terminated_queue)
  /\ UNCHANGED <<wait_timer_queue, noproc, rlimit_nproc, pid, parent,
                 children, wakeup_return, sleep_time_rem, faults>>

(***************************************************************************)
(* The rest of sys_sleep, once the task runs again: it returns its         *)
(* wakeup_return, as the field is at that time.                            *)
(***************************************************************************)
SleepReturn(t) ==
  /\ ~hung
  /\ t = getCurrentTask
  /\ frame[t] # NOT_WAITING
  /\ frame' = [frame EXCEPT ![t] = NOT_WAITING]
  /\ UNCHANGED <<queues, noproc, pid_array, rlimit_nproc, allocated, pid,
                 parent, children, wait_desc, wakeup_return,
                 sleep_time_rem, faults>>

ValidIntervalOrZero(sleep_interval) == sleep_interval >= 0
ValidInterval(sleep_interval) == sleep_interval > 0

SysSleepTimer(t, sleep_interval) ==
  /\ Calls(t)
  /\ ValidInterval(sleep_interval)
  /\ sleep_time_rem' = [sleep_time_rem EXCEPT ![t] = sleep_interval]
  /\ wait_timer_queue' = list_add(t, wait_timer_queue)
  /\ sys_yield(list_del(t, pcb_run_queue), pcb_terminated_queue)
  /\ UNCHANGED <<pcb_wait_queue, noproc, rlimit_nproc, pid, parent, children,
                 wait_desc, wakeup_return, frame, faults>>

SysSetrlimitUnchecked(t, rlim_cur) ==
  /\ Calls(t)
  /\ rlimit_nproc' = rlim_cur
  /\ UNCHANGED <<queues, noproc, pid_array, allocated, fields, faults>>
SysSetrlimit(t, rlim_cur) ==
  /\ Calls(t)
  /\ rlim_cur <= NPROC_MAX
  /\ rlimit_nproc' = rlim_cur
  /\ UNCHANGED <<queues, noproc, pid_array, allocated, fields, faults>>
-----------------------------------------------------------------------------
(***************************************************************************)
(* getNextPid: the first free pid, or NO_PID (which no caller tests for).  *)
(***************************************************************************)
getNextPidFromCount == IF noproc + 1 \in Pid THEN noproc + 1 ELSE NO_PID
getNextPid ==
  IF Pid \subseteq pid_array
  THEN NO_PID
  ELSE CHOOSE i \in Pid \ pid_array : \A j \in Pid \ pid_array : i <= j

(***************************************************************************)
(* A PCB that kmalloc can hand out, one that a failed fork freed included. *)
(***************************************************************************)
FreePcb(c) == c \notin allocated

(***************************************************************************)
(* addToTaskList: its test, and what it does when the test passes.         *)
(***************************************************************************)
NprocReached == noproc + 1 > rlimit_nproc

addToTaskListUncounted(c) ==
  /\ ~NprocReached
  /\ pcb_run_queue' = list_add(c, pcb_run_queue)
  /\ noproc' = noproc
addToTaskList(c) ==
  /\ ~NprocReached
  /\ pcb_run_queue' = list_add(c, pcb_run_queue)
  /\ noproc' = noproc + 1

(***************************************************************************)
(* sys_fork when every step succeeds.  It sets neither wakeup_return nor   *)
(* sleep_time_rem of the child.                                            *)
(***************************************************************************)
SysFork(p, c) ==
  /\ Calls(p)
  /\ FreePcb(c)
  /\ UNCHANGED faults
  /\ addToTaskList(c)
  /\ allocated' = allocated \cup {c}
  /\ pid' = [pid EXCEPT ![c] = getNextPid]
  /\ pid_array' = pid_array \cup ({getNextPid} \cap Pid)
  /\ parent' = [parent EXCEPT ![c] = p]
  /\ children' = Intact([children EXCEPT ![p] = @ \cup {c}, ![c] = {}])
  /\ wait_desc' = [wait_desc EXCEPT ![c] = wait_desc[p]]
  /\ wakeup_return' = [wakeup_return EXCEPT ![c] = UNSET]
  /\ frame' = [frame EXCEPT ![c] = NOT_WAITING]
  /\ UNCHANGED <<pcb_wait_queue, wait_timer_queue, pcb_terminated_queue,
                 rlimit_nproc, sleep_time_rem>>

(***************************************************************************)
(* sys_fork when it fails after getNextPid: the child's name cannot be     *)
(* allocated (not yet "linked"), or a later step fails, the last of them   *)
(* addToTaskList.  The PCB is freed; the pid stays marked and a linked PCB *)
(* stays on the parent's children list, where it was put.                  *)
(***************************************************************************)
SysForkFails(p, c, linked) ==
  /\ Calls(p)
  /\ FreePcb(c)
  /\ MemoryMayRunOut \/ (linked /\ NprocReached)
  /\ pid_array' = pid_array \cup ({getNextPid} \cap Pid)
  /\ leftover' = (leftover \/ linked)
  /\ children' = Intact(children)
  /\ UNCHANGED <<queues, noproc, rlimit_nproc, allocated, pid, parent,
                 wait_desc, wakeup_return, sleep_time_rem, frame, hung>>
-----------------------------------------------------------------------------
(***************************************************************************)
(* timer_handler: sys_wakeup_timer, then a switch when the quantum is      *)
(* over.  Which ticks end a quantum is left open (see module Clock).       *)
(***************************************************************************)
TicksLeftOfFirst ==
  [t \in Task |-> IF wait_timer_queue # <<>> /\ t = Head(wait_timer_queue)
                  THEN (sleep_time_rem[t] - 1) % WORD
                  ELSE sleep_time_rem[t]]
TicksLeft ==
  [t \in Task |-> IF t \in Entries(wait_timer_queue)
                  THEN (sleep_time_rem[t] - 1) % WORD
                  ELSE sleep_time_rem[t]]

TimerTick(quantumOver) ==
  LET rem   == TicksLeft
      desc  == [t \in Task |->
                  IF t \in Entries(wait_timer_queue) /\ rem[t] = 0
                  THEN TIMER_ELAPSED ELSE wait_desc[t]]
      woken == Waiters(wait_timer_queue, desc, TIMER_ELAPSED)
      run   == RunnableAfter(pcb_run_queue, wait_timer_queue, woken)
  IN  /\ ~hung
      /\ FitsTemp(woken)
      /\ sleep_time_rem' = rem
      /\ wait_desc' = Awake(desc, woken)
      /\ wait_timer_queue' = StillAsleep(wait_timer_queue, woken)
      /\ \/ /\ quantumOver
            /\ sys_yield(run, pcb_terminated_queue)
         \/ /\ ~quantumOver
            /\ pcb_run_queue' = run
            /\ UNCHANGED <<pcb_terminated_queue, pid_array, allocated>>
      /\ UNCHANGED <<pcb_wait_queue, noproc, rlimit_nproc, pid, parent,
                     children, wakeup_return, frame, faults>>

(***************************************************************************)
(* The keyboard interrupt of the key that ends a line: terminal_flush      *)
(* wakes the readers of the terminal.                                      *)
(***************************************************************************)
TerminalFlush ==
  LET woken == Waiters(pcb_wait_queue, wait_desc, TERMINAL_TYPE)
  IN  /\ ~hung
      /\ woken # {}
      /\ FitsTemp(woken)
      /\ wait_desc' = Awake(wait_desc, woken)
      /\ pcb_wait_queue' = StillAsleep(pcb_wait_queue, woken)
      /\ pcb_run_queue' = RunnableAfter(pcb_run_queue, pcb_wait_queue, woken)
      /\ UNCHANGED <<wait_timer_queue, pcb_terminated_queue, noproc,
                     pid_array, rlimit_nproc, allocated, pid, parent,
                     children, wakeup_return, sleep_time_rem, frame, faults>>
-----------------------------------------------------------------------------
Syscall(t) ==
  \/ SysYield(t)
  \/ SysExit(t) \/ SysExitHangs(t)
  \/ \E d \in Awaited : SysSleep(t, d)
  \/ \E n \in 0..MaxSleep : SysSleepTimer(t, n)
  \/ \E n \in Limits : SysSetrlimit(t, n)
  \/ \E c \in Task : SysFork(t, c)
  \/ \E c \in Task, linked \in BOOLEAN : SysForkFails(t, c, linked)

Next ==
  \/ \E t \in Task : Syscall(t) \/ SleepReturn(t)
  \/ \E quantumOver \in BOOLEAN : TimerTick(quantumOver)
  \/ TerminalFlush
  \/ Spin

Spec == Init /\ [][Next]_vars
-----------------------------------------------------------------------------
(***************************************************************************)
(* TypeOK: the queues hold PCBs, a wait descriptor is one a wake-up can    *)
(* name (never the TIMER_ELAPSED that sys_wakeup_timer writes in passing), *)
(* and the process limit that setrlimit stores is at most the hard limit.  *)
(***************************************************************************)
TypeOK ==
  /\ pcb_run_queue \in Seq(Task)
  /\ pcb_wait_queue \in Seq(Task)
  /\ wait_timer_queue \in Seq(Task)
  /\ pcb_terminated_queue \in Seq(Task)
  /\ noproc \in Nat
  /\ pid_array \subseteq Pid
  /\ rlimit_nproc \in 0..NPROC_MAX
  /\ allocated \subseteq Task
  /\ pid \in [Task -> Pid \cup {NO_PID}]
  /\ parent \in [Task -> Task \cup {NULL}]
  /\ children \in [Task -> SUBSET Task]
  /\ wait_desc \in [Task -> Pid \cup {NOT_WAITING, TERMINAL_TYPE}]
  /\ wakeup_return \in [Task -> Pid \cup {NO_PID, UNSET}]
  /\ sleep_time_rem \in [Task -> 0..(WORD - 1)]
  /\ frame \in [Task -> Pid \cup {NOT_WAITING, TERMINAL_TYPE}]
  /\ leftover \in BOOLEAN /\ hung \in BOOLEAN

(***************************************************************************)
(* QueuesPartition: between two handlers every allocated PCB is linked     *)
(* into exactly one of the four queues through its one "lister" node, and  *)
(* a freed PCB into none.                                                  *)
(***************************************************************************)
Disjoint(q, r) == Entries(q) \cap Entries(r) = {}

QueuesPartition ==
  /\ NoRepeats(pcb_run_queue) /\ NoRepeats(pcb_wait_queue)
  /\ NoRepeats(wait_timer_queue) /\ NoRepeats(pcb_terminated_queue)
  /\ Disjoint(pcb_run_queue, pcb_wait_queue)
  /\ Disjoint(pcb_run_queue, wait_timer_queue)
  /\ Disjoint(pcb_run_queue, pcb_terminated_queue)
  /\ Disjoint(pcb_wait_queue, wait_timer_queue)
  /\ Disjoint(pcb_wait_queue, pcb_terminated_queue)
  /\ Disjoint(wait_timer_queue, pcb_terminated_queue)
  /\ allocated = Entries(pcb_run_queue) \cup Entries(pcb_wait_queue)
                   \cup Entries(wait_timer_queue)
                   \cup Entries(pcb_terminated_queue)

(***************************************************************************)
(* NoprocExact: the counter that addToTaskList compares with the process   *)
(* limit is the number of processes a snapshot (sys_process_snapshot)      *)
(* lists, over every order of forks, failed forks, sleeps, wake-ups, exits.*)
(***************************************************************************)
ProcessSnapshot == pcb_run_queue \o pcb_wait_queue \o wait_timer_queue

NoprocExact == noproc = Len(ProcessSnapshot)

(***************************************************************************)
(* IdleTaskRunnable: the idle thread never leaves the run queue, so        *)
(* getNextTask and getCurrentTask always find a task and never take the    *)
(* list head for one ("required to ensure that atleast one kernel thread   *)
(* is running at any point of time", daemon_thread.c).                     *)
(***************************************************************************)
IdleTaskRunnable == Daemon \in Entries(pcb_run_queue)

(***************************************************************************)
(* ReapedAtOnce: one cleanupTerminated per switch is enough.  The switch   *)
(* that leaves a task for good also frees it, and nobody is left on the    *)
(* terminated queue.                                                       *)
(***************************************************************************)
ReapedAtOnce == pcb_terminated_queue = <<>>

(***************************************************************************)
(* ParentsAlive: as long as no fork has failed after linking its child,    *)
(* the parent pointer that sys_exit writes through (parent->wakeup_return) *)
(* is NULL or a PCB that is still allocated and has the task on its        *)
(* children list; and the list holds no one else, so that the exit's walk  *)
(* along it writes to allocated PCBs only.                                 *)
(***************************************************************************)
ParentsAlive ==
  ~leftover => \A t \in allocated :
    /\ parent[t] # NULL => parent[t] \in allocated /\ t \in children[parent[t]]
    /\ \A c \in children[t] : c \in allocated /\ parent[c] = t

(***************************************************************************)
(* PidsOwned: a pid in use is marked in pid_array and belongs to one       *)
(* process, across exits that give pids back and forks that take them.     *)
(***************************************************************************)
PidsOwned ==
  \A t, u \in allocated : pid[t] \in Pid =>
    /\ pid[t] \in pid_array
    /\ pid[t] = pid[u] => t = u

(***************************************************************************)
(* CountdownPositive: a task on the timer queue has at least one tick to   *)
(* go, so the unsigned decrement of sys_wakeup_timer never wraps round and *)
(* the test against zero cannot be missed.                                 *)
(***************************************************************************)
CountdownPositive ==
  \A t \in Entries(wait_timer_queue) : sleep_time_rem[t] \in 1..MaxSleep

(***************************************************************************)
(* DescriptorsAgree: a task on the wait queue is marked with what it asked *)
(* to wait for, and a task anywhere else waits for nothing: no wake-up can *)
(* move a task that is not asleep, or leave a stale mark behind.           *)
(***************************************************************************)
DescriptorsAgree ==
  \A t \in allocated :
    IF t \in Entries(pcb_wait_queue)
    THEN wait_desc[t] = frame[t] /\ frame[t] # NOT_WAITING
    ELSE wait_desc[t] = NOT_WAITING

(***************************************************************************)
(* RunningUndisturbed: making a task runnable (fork, an elapsed sleep      *)
(* within the quantum, the end of a typed line) does not change which task *)
(* the kernel takes for the running one.  getCurrentTask reads the tail of *)
(* the run queue, so every insertion has to be at the head.                *)
(***************************************************************************)
RunningUndisturbed ==
  [][ (\/ TerminalFlush
       \/ TimerTick(FALSE)
       \/ \E p, c \in Task : SysFork(p, c))
      => getCurrentTask' = getCurrentTask ]_vars

(***************************************************************************)
(* ExitNotifies: when a child exits nobody goes on waiting for its pid; a  *)
(* parent that waits for it, or that waits for any child while nobody      *)
(* waits for this one, is runnable with the child's pid as the result; and *)
(* the CPU goes to a task that was woken, if there is one.                 *)
(***************************************************************************)
ExitNotifies ==
  [][ \A t \in Task : SysExit(t) /\ parent[t] # NULL =>
        LET p == parent[t]
            waiting == Waiters(pcb_wait_queue, wait_desc, pid[t])
        IN  /\ Waiters(pcb_wait_queue', wait_desc', pid[t]) = {}
            /\ p \in waiting
               \/ (waiting = {} /\ p \in Entries(pcb_wait_queue)
                     /\ wait_desc[p] = pid[p])
               => /\ p \in Entries(pcb_run_queue')
                  /\ wakeup_return'[p] = pid[t]
            /\ WokenByExit(t) # {} => getCurrentTask' \in WokenByExit(t)
    ]_vars
-----------------------------------------------------------------------------
(***************************************************************************)
(* Fairness: the PIT goes on firing and quanta go on ending, whatever the  *)
(* tasks do; and the code of a running task is executed, so a sleeping     *)
(* call that was resumed returns.  Nothing is assumed of user programs or  *)
(* of the keyboard.                                                        *)
(***************************************************************************)
FairSpec ==
  /\ Spec
  /\ WF_vars(TimerTick(TRUE))
  /\ \A t \in Task : WF_vars(SleepReturn(t))

(***************************************************************************)
(* SleepersWake: a task in sys_sleep_timer becomes runnable again, unless  *)
(* an exit hangs.                                                          *)
(***************************************************************************)
SleepersWake ==
  \A t \in Task : t \in Entries(wait_timer_queue)
                    ~> t \in Entries(pcb_run_queue) \/ hung

(***************************************************************************)
(* RoundRobin: once no task is put in front of the run queue any more,     *)
(* every runnable task gets the CPU, unless an exit hangs.  (New and woken *)
(* tasks go to the head, so an endless stream of them can keep the others  *)
(* waiting: the premise cannot be dropped.)                                *)
(***************************************************************************)
Inserts == Entries(pcb_run_queue') \ Entries(pcb_run_queue) # {}

RoundRobin ==
  <>[][~Inserts]_vars =>
    \A t \in Task : t \in Entries(pcb_run_queue)
      ~> t = getCurrentTask \/ hung
=============================================================================
