-------------------------- MODULE SchedulerProofs --------------------------
(***************************************************************************)
(* Proofs about Scheduler, for any number of processes, pids and ticks.    *)
(*                                                                         *)
(* The queues are treated first, apart from the actions: Linked says that  *)
(* three queues, the set of allocated PCBs and the process counter fit     *)
(* together, and one lemma per queue operation says that it keeps them     *)
(* fitting.  An action of Scheduler is then a composition of those         *)
(* operations.                                                             *)
(***************************************************************************)
EXTENDS Scheduler, KernelListProofs, WellFoundedInduction, NaturalsInduction

Linked(run, wait, timer, alloc, n) ==
  /\ run \in Seq(Task) /\ wait \in Seq(Task) /\ timer \in Seq(Task)
  /\ NoRepeats(run) /\ NoRepeats(wait) /\ NoRepeats(timer)
  /\ Disjoint(run, wait) /\ Disjoint(run, timer) /\ Disjoint(wait, timer)
  /\ alloc = Entries(run) \cup Entries(wait) \cup Entries(timer)
  /\ n = Len(run) + Len(wait) + Len(timer)

(***************************************************************************)
(* The wait queue and the timer queue play the same part.                  *)
(***************************************************************************)
LEMMA LinkedSymmetric ==
  ASSUME NEW run, NEW wait, NEW timer, NEW alloc, NEW n,
         Linked(run, wait, timer, alloc, n)
  PROVE  Linked(run, timer, wait, alloc, n)
<1>1. Len(run) \in Nat /\ Len(wait) \in Nat /\ Len(timer) \in Nat
  BY DEF Linked
<1>2. n = Len(run) + Len(timer) + Len(wait)
  BY <1>1 DEF Linked
<1>. QED  BY <1>2 DEF Linked, Disjoint

(***************************************************************************)
(* sys_yield: the head of the run queue becomes its tail.                  *)
(***************************************************************************)
LEMMA LinkedRotate ==
  ASSUME NEW run, NEW wait, NEW timer, NEW alloc, NEW n,
         Linked(run, wait, timer, alloc, n), run # <<>>
  PROVE  LET r == list_add_tail(Head(run), list_del(Head(run), run))
         IN  Linked(r, wait, timer, alloc, n) /\ Entries(r) = Entries(run)
<1> DEFINE r == list_add_tail(Head(run), list_del(Head(run), run))
<1>1. run \in Seq(Task) /\ NoRepeats(run)
  BY DEF Linked
<1>2. r \in Seq(Task) /\ Len(r) = Len(run) /\ Entries(r) = Entries(run)
      /\ NoRepeats(r)
  BY <1>1, RotateProperties
<1> HIDE DEF r
<1>3. Linked(r, wait, timer, alloc, n)
  BY <1>2 DEF Linked, Disjoint
<1>. QED  BY <1>2, <1>3 DEF r

(***************************************************************************)
(* sys_sleep: a task goes from the run queue to the head of another one.   *)
(***************************************************************************)
LEMMA LinkedSleep ==
  ASSUME NEW run, NEW wait, NEW timer, NEW alloc, NEW n,
         Linked(run, wait, timer, alloc, n), NEW t \in Entries(run)
  PROVE  /\ Linked(list_del(t, run), list_add(t, wait), timer, alloc, n)
         /\ Entries(list_del(t, run)) = Entries(run) \ {t}
         /\ Entries(list_add(t, wait)) = Entries(wait) \cup {t}
<1> DEFINE r == list_del(t, run)
           w == list_add(t, wait)
<1>1. run \in Seq(Task) /\ wait \in Seq(Task) /\ NoRepeats(run)
  BY DEF Linked
<1>2. t \in Task /\ t \notin Entries(wait) /\ t \notin Entries(timer)
  <2>1. t \in Task
    BY <1>1 DEF Entries
  <2>. QED  BY <2>1 DEF Linked, Disjoint
<1>3. r \in Seq(Task) /\ Len(r) = Len(run) - 1 /\ Entries(r) = Entries(run) \ {t}
      /\ NoRepeats(r)
  BY <1>1, DelProperties
<1>4. w \in Seq(Task) /\ Len(w) = Len(wait) + 1
      /\ Entries(w) = Entries(wait) \cup {t} /\ NoRepeats(w)
  BY <1>1, <1>2, AddProperties DEF Linked
<1> HIDE DEF r, w
<1>5. n = Len(r) + Len(w) + Len(timer)
  <2>1. Len(run) \in Nat /\ Len(wait) \in Nat /\ Len(timer) \in Nat
    BY DEF Linked
  <2>. QED  BY <2>1, <1>3, <1>4 DEF Linked
<1>6. Disjoint(r, w) /\ Disjoint(r, timer) /\ Disjoint(w, timer)
  BY <1>2, <1>3, <1>4 DEF Linked, Disjoint
<1>7. alloc = Entries(r) \cup Entries(w) \cup Entries(timer)
  BY <1>3, <1>4 DEF Linked
<1>8. Linked(r, w, timer, alloc, n)
  BY <1>3, <1>4, <1>5, <1>6, <1>7 DEF Linked
<1>. QED  BY <1>3, <1>4, <1>8 DEF r, w

(***************************************************************************)
(* sys_exit and cleanupTerminated: a task leaves the run queue and its PCB *)
(* is freed.                                                               *)
(***************************************************************************)
LEMMA LinkedExit ==
  ASSUME NEW run, NEW wait, NEW timer, NEW alloc, NEW n,
         Linked(run, wait, timer, alloc, n), NEW t \in Entries(run)
  PROVE  /\ Linked(list_del(t, run), wait, timer, alloc \ {t}, n - 1)
         /\ Entries(list_del(t, run)) = Entries(run) \ {t}
<1> DEFINE r == list_del(t, run)
<1>1. run \in Seq(Task) /\ NoRepeats(run)
  BY DEF Linked
<1>2. t \notin Entries(wait) /\ t \notin Entries(timer)
  BY DEF Linked, Disjoint
<1>3. r \in Seq(Task) /\ Len(r) = Len(run) - 1 /\ Entries(r) = Entries(run) \ {t}
      /\ NoRepeats(r)
  BY <1>1, DelProperties
<1> HIDE DEF r
<1>4. n - 1 = Len(r) + Len(wait) + Len(timer)
  <2>1. Len(run) \in Nat /\ Len(wait) \in Nat /\ Len(timer) \in Nat
    BY DEF Linked
  <2>. QED  BY <2>1, <1>3 DEF Linked
<1>5. alloc \ {t} = Entries(r) \cup Entries(wait) \cup Entries(timer)
  BY <1>2, <1>3 DEF Linked
<1>6. Linked(r, wait, timer, alloc \ {t}, n - 1)
  BY <1>3, <1>4, <1>5 DEF Linked, Disjoint
<1>. QED  BY <1>3, <1>6 DEF r

(***************************************************************************)
(* _sys_wakeup: some tasks of a queue go to the head of the run queue.     *)
(***************************************************************************)
LEMMA LinkedWake ==
  ASSUME NEW run, NEW wait, NEW timer, NEW alloc, NEW n,
         Linked(run, wait, timer, alloc, n),
         NEW woken \in SUBSET Entries(wait)
  PROVE  /\ Linked(RunnableAfter(run, wait, woken), StillAsleep(wait, woken),
                   timer, alloc, n)
         /\ Entries(RunnableAfter(run, wait, woken)) = Entries(run) \cup woken
         /\ Entries(StillAsleep(wait, woken)) = Entries(wait) \ woken
<1> DEFINE k == Keep(wait, woken)
           r == RunnableAfter(run, wait, woken)
           w == StillAsleep(wait, woken)
<1>1. run \in Seq(Task) /\ wait \in Seq(Task) /\ timer \in Seq(Task)
      /\ NoRepeats(run) /\ NoRepeats(wait)
  BY DEF Linked
<1>2. k \in Seq(Task) /\ NoRepeats(k) /\ Entries(k) = woken
  <2>1. k \in Seq(Task) /\ NoRepeats(k) /\ Entries(k) = Entries(wait) \cap woken
    BY <1>1, KeepProperties
  <2>. QED  BY <2>1
<1>3. w \in Seq(Task) /\ NoRepeats(w) /\ Entries(w) = Entries(wait) \ woken
  BY <1>1, KeepProperties DEF StillAsleep
<1>4. Len(k) + Len(w) = Len(wait)
  BY <1>1, KeepSplits DEF StillAsleep
<1>5. r = k \o run
  BY DEF RunnableAfter
<1> HIDE DEF k, r, w
<1>6. Entries(k) \cap Entries(run) = {}
  BY <1>2 DEF Linked, Disjoint
<1>7. r \in Seq(Task) /\ NoRepeats(r) /\ Entries(r) = Entries(run) \cup woken
      /\ Len(r) = Len(k) + Len(run)
  BY <1>1, <1>2, <1>5, <1>6, ConcatProperties
<1>8. n = Len(r) + Len(w) + Len(timer)
  <2>1. Len(run) \in Nat /\ Len(wait) \in Nat /\ Len(timer) \in Nat
        /\ Len(k) \in Nat /\ Len(w) \in Nat
    BY <1>1, <1>2, <1>3
  <2>2. n = Len(run) + Len(wait) + Len(timer)
    BY DEF Linked
  <2>3. Len(wait) = Len(k) + Len(w) /\ Len(r) = Len(k) + Len(run)
    BY <1>4, <1>7
  <2>. QED  BY <2>1, <2>2, <2>3
<1>9. Disjoint(r, w) /\ Disjoint(r, timer) /\ Disjoint(w, timer)
  BY <1>3, <1>7 DEF Linked, Disjoint
<1>10. alloc = Entries(r) \cup Entries(w) \cup Entries(timer)
  BY <1>3, <1>7 DEF Linked
<1>11. Linked(r, w, timer, alloc, n)
  BY <1>3, <1>7, <1>8, <1>9, <1>10 DEF Linked
<1>. QED  BY <1>3, <1>7, <1>11 DEF r, w

(***************************************************************************)
(* addToTaskList: a new PCB goes to the head of the run queue.             *)
(***************************************************************************)
LEMMA LinkedFork ==
  ASSUME NEW run, NEW wait, NEW timer, NEW alloc, NEW n,
         Linked(run, wait, timer, alloc, n), NEW c \in Task, c \notin alloc
  PROVE  /\ Linked(list_add(c, run), wait, timer, alloc \cup {c}, n + 1)
         /\ Entries(list_add(c, run)) = Entries(run) \cup {c}
<1> DEFINE r == list_add(c, run)
<1>1. run \in Seq(Task) /\ NoRepeats(run) /\ c \notin Entries(run)
      /\ c \notin Entries(wait) /\ c \notin Entries(timer)
  BY DEF Linked
<1>2. r \in Seq(Task) /\ Len(r) = Len(run) + 1 /\ NoRepeats(r)
      /\ Entries(r) = Entries(run) \cup {c}
  BY <1>1, AddProperties
<1> HIDE DEF r
<1>3. n + 1 = Len(r) + Len(wait) + Len(timer)
  <2>1. Len(run) \in Nat /\ Len(wait) \in Nat /\ Len(timer) \in Nat
    BY DEF Linked
  <2>. QED  BY <2>1, <1>2 DEF Linked
<1>4. Disjoint(r, wait) /\ Disjoint(r, timer)
  BY <1>1, <1>2 DEF Linked, Disjoint
<1>5. alloc \cup {c} = Entries(r) \cup Entries(wait) \cup Entries(timer)
  BY <1>2 DEF Linked
<1>6. Linked(r, wait, timer, alloc \cup {c}, n + 1)
  BY <1>2, <1>3, <1>4, <1>5 DEF Linked
<1>. QED  BY <1>2, <1>6 DEF r
-----------------------------------------------------------------------------
(***************************************************************************)
(* The inductive invariant of the queues.  QueuesPartition alone is not    *)
(* inductive: a step that pops the run queue needs the idle thread in it,  *)
(* and the counter follows the lengths only because no entry is repeated.  *)
(***************************************************************************)
QueueInv ==
  /\ Linked(pcb_run_queue, pcb_wait_queue, wait_timer_queue, allocated, noproc)
  /\ pcb_terminated_queue = <<>>
  /\ Daemon \in Entries(pcb_run_queue)

(***************************************************************************)
(* With the idle thread in the run queue the queue is not empty, so that   *)
(* getNextTask and getCurrentTask find a task.                             *)
(***************************************************************************)
LEMMA NonEmpty ==
  ASSUME NEW q, NEW x \in Entries(q)
  PROVE  q # <<>>
BY DEF Entries

(***************************************************************************)
(* The task that getCurrentTask returns is in the run queue.               *)
(***************************************************************************)
LEMMA CurrentIsRunnable ==
  ASSUME QueueInv
  PROVE  getCurrentTask \in Entries(pcb_run_queue) /\ getCurrentTask \in Task
<1>1. pcb_run_queue \in Seq(Task) /\ pcb_run_queue # <<>>
  BY NonEmpty DEF QueueInv, Linked
<1>2. Len(pcb_run_queue) \in 1..Len(pcb_run_queue)
  BY <1>1
<1>. QED  BY <1>1, <1>2 DEF getCurrentTask, LastEntry, Entries

(***************************************************************************)
(* The switch at the end of a handler, when nobody has terminated.         *)
(***************************************************************************)
LEMMA YieldKeeps ==
  ASSUME NEW run, NEW wait, NEW timer, NEW alloc, NEW n,
         Linked(run, wait, timer, alloc, n), Daemon \in Entries(run),
         sys_yield(run, <<>>)
  PROVE  /\ Linked(pcb_run_queue', wait, timer, alloc, n)
         /\ Daemon \in Entries(pcb_run_queue')
         /\ pcb_terminated_queue' = <<>>
         /\ allocated' = allocated
         /\ pid_array' = pid_array
<1>1. run # <<>>
  BY NonEmpty
<1>2. pcb_run_queue' = list_add_tail(Head(run), list_del(Head(run), run))
  BY DEF sys_yield, cleanupTerminated
<1>3. pcb_terminated_queue' = <<>> /\ allocated' = allocated
      /\ pid_array' = pid_array
  BY DEF sys_yield, cleanupTerminated
<1>. QED  BY <1>1, <1>2, <1>3, LinkedRotate

(***************************************************************************)
(* The switch of sys_exit, which frees the task that made the call.        *)
(***************************************************************************)
LEMMA YieldFrees ==
  ASSUME NEW run, NEW wait, NEW timer, NEW alloc, NEW n, NEW t,
         Linked(run, wait, timer, alloc, n), Daemon \in Entries(run),
         sys_yield(run, list_add(t, <<>>))
  PROVE  /\ Linked(pcb_run_queue', wait, timer, alloc, n)
         /\ Daemon \in Entries(pcb_run_queue')
         /\ pcb_terminated_queue' = <<>>
         /\ allocated' = allocated \ {t}
         /\ pid_array' = pid_array \ {pid[t]}
<1>1. run # <<>>
  BY NonEmpty
<1>2. pcb_run_queue' = list_add_tail(Head(run), list_del(Head(run), run))
  BY DEF sys_yield, cleanupTerminated
<1>3. list_add(t, <<>>) # <<>> /\ Head(list_add(t, <<>>)) = t
      /\ Tail(list_add(t, <<>>)) = <<>>
  BY DEF list_add
<1>4. pcb_terminated_queue' = <<>> /\ allocated' = allocated \ {t}
      /\ pid_array' = pid_array \ {pid[t]}
  BY <1>3 DEF sys_yield, cleanupTerminated
<1>. QED  BY <1>1, <1>2, <1>4, LinkedRotate

(***************************************************************************)
(* Every step keeps the queues, the allocated PCBs and the counter         *)
(* together: the interrupt handlers and system calls of scheduler.c and    *)
(* sys_fork never lose a PCB, never link one twice, never free a linked    *)
(* one and never miscount.                                                 *)
(***************************************************************************)
LEMMA QueueStep ==
  ASSUME QueueInv, [Next]_vars
  PROVE  QueueInv'
<1> DEFINE run == pcb_run_queue
           wait == pcb_wait_queue
           timer == wait_timer_queue
<1>1. /\ Linked(run, wait, timer, allocated, noproc)
      /\ pcb_terminated_queue = <<>>
      /\ Daemon \in Entries(run)
  BY DEF QueueInv
<1>2. getCurrentTask \in Entries(run)
  BY CurrentIsRunnable
<1>3. ASSUME NEW t \in Task, SysYield(t)  PROVE QueueInv'
  <2>1. sys_yield(run, <<>>)
    BY <1>1, <1>3 DEF SysYield
  <2>2. UNCHANGED <<wait, timer, noproc>>
    BY <1>3 DEF SysYield
  <2>. QED  BY <1>1, <2>1, <2>2, YieldKeeps DEF QueueInv
<1>4. ASSUME NEW t \in Task, SysExit(t)  PROVE QueueInv'
  <2> DEFINE woken == WokenByExit(t)
             r == list_del(t, run)
             r2 == RunnableAfter(r, wait, woken)
  <2>1. t \in Entries(run) /\ t # Daemon
    BY <1>2, <1>4 DEF SysExit, Calls
  <2>2. woken \in SUBSET Entries(wait)
    BY DEF WokenByExit, Waiters
  <2>3. Linked(r, wait, timer, allocated \ {t}, noproc - 1)
        /\ Daemon \in Entries(r)
    BY <1>1, <2>1, LinkedExit
  <2>4. sys_yield(r2, list_add(t, <<>>)) /\ wait' = StillAsleep(wait, woken)
        /\ noproc' = noproc - 1 /\ timer' = timer
    BY <1>1, <1>4 DEF SysExit
  <2> HIDE DEF r, woken
  <2>5. Linked(r2, wait', timer, allocated \ {t}, noproc - 1)
        /\ Daemon \in Entries(r2)
    BY <2>2, <2>3, <2>4, LinkedWake
  <2> HIDE DEF r2
  <2>6. /\ Linked(pcb_run_queue', wait', timer, allocated \ {t}, noproc - 1)
        /\ Daemon \in Entries(pcb_run_queue')
        /\ pcb_terminated_queue' = <<>>
        /\ allocated' = allocated \ {t}
    BY <2>4, <2>5, YieldFrees
  <2>. QED  BY <2>4, <2>6 DEF QueueInv
<1>5. ASSUME NEW t \in Task, NEW d \in Awaited, SysSleep(t, d)  PROVE QueueInv'
  <2> DEFINE r == list_del(t, run)
  <2>1. t \in Entries(run) /\ t # Daemon
    BY <1>2, <1>5 DEF SysSleep, Calls
  <2>2. sys_yield(r, <<>>) /\ wait' = list_add(t, wait)
        /\ UNCHANGED <<timer, noproc>>
    BY <1>1, <1>5 DEF SysSleep
  <2>3. Linked(r, wait', timer, allocated, noproc) /\ Daemon \in Entries(r)
    BY <1>1, <2>1, <2>2, LinkedSleep
  <2> HIDE DEF r
  <2>. QED  BY <2>2, <2>3, YieldKeeps DEF QueueInv
<1>6. ASSUME NEW t \in Task, NEW i \in 0..MaxSleep, SysSleepTimer(t, i)
      PROVE  QueueInv'
  <2> DEFINE r == list_del(t, run)
  <2>1. t \in Entries(run) /\ t # Daemon
    BY <1>2, <1>6 DEF SysSleepTimer, Calls
  <2>2. sys_yield(r, <<>>) /\ timer' = list_add(t, timer)
        /\ UNCHANGED <<wait, noproc>>
    BY <1>1, <1>6 DEF SysSleepTimer
  <2>3. Linked(run, timer, wait, allocated, noproc)
    BY <1>1, LinkedSymmetric
  <2>4. Linked(r, timer', wait, allocated, noproc) /\ Daemon \in Entries(r)
    BY <1>1, <2>1, <2>2, <2>3, LinkedSleep
  <2> HIDE DEF r
  <2>5. Linked(r, wait, timer', allocated, noproc)
    BY <2>4, LinkedSymmetric
  <2>. QED  BY <2>2, <2>4, <2>5, YieldKeeps DEF QueueInv
<1>7. ASSUME NEW p \in Task, NEW c \in Task, SysFork(p, c)  PROVE QueueInv'
  <2>1. c \notin allocated /\ allocated' = allocated \cup {c}
        /\ pcb_run_queue' = list_add(c, run) /\ noproc' = noproc + 1
        /\ UNCHANGED <<wait, timer, pcb_terminated_queue>>
    BY <1>7 DEF SysFork, FreePcb, addToTaskList
  <2>. QED  BY <1>1, <2>1, LinkedFork DEF QueueInv
<1>8. ASSUME NEW quantumOver \in BOOLEAN, TimerTick(quantumOver)  PROVE QueueInv'
  <2>1. PICK woken \in SUBSET Entries(timer) :
          /\ timer' = StillAsleep(timer, woken)
          /\ \/ sys_yield(RunnableAfter(run, timer, woken), pcb_terminated_queue)
             \/ /\ pcb_run_queue' = RunnableAfter(run, timer, woken)
                /\ UNCHANGED <<pcb_terminated_queue, pid_array, allocated>>
          /\ UNCHANGED <<wait, noproc>>
    BY <1>8 DEF TimerTick, Waiters
  <2> DEFINE r == RunnableAfter(run, timer, woken)
  <2>2. Linked(run, timer, wait, allocated, noproc)
    BY <1>1, LinkedSymmetric
  <2>3. Linked(r, timer', wait, allocated, noproc) /\ Daemon \in Entries(r)
    BY <1>1, <2>1, <2>2, LinkedWake
  <2>4. \/ sys_yield(r, <<>>)
        \/ pcb_run_queue' = r /\ UNCHANGED <<pcb_terminated_queue, allocated>>
    BY <1>1, <2>1
  <2> HIDE DEF r
  <2>5. Linked(r, wait, timer', allocated, noproc)
    BY <2>3, LinkedSymmetric
  <2>6. CASE sys_yield(r, <<>>)
    BY <2>1, <2>3, <2>5, <2>6, YieldKeeps DEF QueueInv
  <2>7. CASE pcb_run_queue' = r /\ UNCHANGED <<pcb_terminated_queue, allocated>>
    BY <1>1, <2>1, <2>3, <2>5, <2>7 DEF QueueInv
  <2>. QED  BY <2>4, <2>6, <2>7
<1>9. CASE TerminalFlush
  <2> DEFINE woken == Waiters(wait, wait_desc, TERMINAL_TYPE)
  <2>1. woken \in SUBSET Entries(wait)
    BY DEF Waiters
  <2>2. wait' = StillAsleep(wait, woken)
        /\ pcb_run_queue' = RunnableAfter(run, wait, woken)
        /\ UNCHANGED <<timer, pcb_terminated_queue, noproc, allocated>>
    BY <1>9 DEF TerminalFlush
  <2> HIDE DEF woken
  <2>. QED  BY <1>1, <2>1, <2>2, LinkedWake DEF QueueInv
<1>10. ASSUME UNCHANGED <<queues, noproc, allocated>>  PROVE QueueInv'
  BY <1>1, <1>10 DEF QueueInv, queues
<1>11. ASSUME NEW t \in Task, Syscall(t)  PROVE QueueInv'
  <2>1. CASE \E n \in Limits : SysSetrlimit(t, n)
    BY <2>1, <1>10 DEF SysSetrlimit
  <2>2. CASE \E c \in Task, linked \in BOOLEAN : SysForkFails(t, c, linked)
    BY <2>2, <1>10 DEF SysForkFails
  <2>3. CASE SysExitHangs(t)
    BY <2>3, <1>10 DEF SysExitHangs
  <2>. QED  BY <1>3, <1>4, <1>5, <1>6, <1>7, <1>11, <2>1, <2>2, <2>3 DEF Syscall
<1>12. ASSUME NEW t \in Task, SleepReturn(t)  PROVE QueueInv'
  BY <1>12, <1>10 DEF SleepReturn
<1>13. CASE UNCHANGED vars
  BY <1>13, <1>10 DEF vars
<1>. QED  BY <1>8, <1>9, <1>11, <1>12, <1>13 DEF Next, Spin

(***************************************************************************)
(* The queues set up at boot satisfy the invariant.                        *)
(***************************************************************************)
LEMMA QueueInit ==
  ASSUME Init
  PROVE  QueueInv
<1> DEFINE q == <<Shell, Daemon>>
           e == <<>>
<1>1. q \in Seq(Task) /\ e \in Seq(Task) /\ Len(q) = 2 /\ Len(e) = 0
  BY SchedulerAssumption
<1>2. Entries(q) = {Shell, Daemon} /\ Entries(e) = {}
  BY DEF Entries
<1>3. NoRepeats(q) /\ NoRepeats(e)
  BY SchedulerAssumption DEF NoRepeats
<1>4. /\ pcb_run_queue = q /\ pcb_wait_queue = e /\ wait_timer_queue = e
      /\ pcb_terminated_queue = <<>>
      /\ noproc = 2 /\ allocated = {Shell, Daemon}
  BY DEF Init, TasksCreated
<1> HIDE DEF q, e
<1>. QED  BY <1>1, <1>2, <1>3, <1>4 DEF QueueInv, Linked, Disjoint

(***************************************************************************)
(* The invariant implies the four properties of the queues.                *)
(***************************************************************************)
LEMMA QueueInvImplies ==
  ASSUME QueueInv
  PROVE  QueuesPartition /\ NoprocExact /\ IdleTaskRunnable /\ ReapedAtOnce
<1>1. Linked(pcb_run_queue, pcb_wait_queue, wait_timer_queue, allocated, noproc)
  BY DEF QueueInv
<1>2. Entries(pcb_terminated_queue) = {} /\ NoRepeats(pcb_terminated_queue)
  BY DEF QueueInv, Entries, NoRepeats
<1>3. QueuesPartition
  BY <1>1, <1>2 DEF QueuesPartition, Linked, Disjoint
<1>4. NoprocExact
  BY <1>1 DEF NoprocExact, ProcessSnapshot, Linked
<1>. QED  BY <1>3, <1>4 DEF QueueInv, IdleTaskRunnable, ReapedAtOnce

(***************************************************************************)
(* The invariant of the queues holds in every reachable state.             *)
(***************************************************************************)
LEMMA QueueInvariant == Spec => []QueueInv
<1>1. Init => QueueInv
  BY QueueInit
<1>2. QueueInv /\ [Next]_vars => QueueInv'
  BY QueueStep
<1>. QED  BY <1>1, <1>2, PTL DEF Spec

(***************************************************************************)
(* For any set of PCBs: between two handlers every allocated PCB is on     *)
(* exactly one queue and every freed one on none.                          *)
(***************************************************************************)
THEOREM QueuesPartitioned == Spec => []QueuesPartition
<1>1. QueueInv => QueuesPartition
  BY QueueInvImplies
<1>. QED  BY <1>1, QueueInvariant, PTL

(***************************************************************************)
(* For any set of PCBs: the counter that sys_fork's limit test uses is the *)
(* number of processes sys_process_snapshot lists.                         *)
(***************************************************************************)
THEOREM NoprocCounts == Spec => []NoprocExact
<1>1. QueueInv => NoprocExact
  BY QueueInvImplies
<1>. QED  BY <1>1, QueueInvariant, PTL

(***************************************************************************)
(* For any set of PCBs: the idle thread is always on the run queue, so     *)
(* getNextTask and getCurrentTask always have a task to return.            *)
(***************************************************************************)
THEOREM IdleTaskStaysRunnable == Spec => []IdleTaskRunnable
<1>1. QueueInv => IdleTaskRunnable
  BY QueueInvImplies
<1>. QED  BY <1>1, QueueInvariant, PTL

(***************************************************************************)
(* For any set of PCBs: one cleanupTerminated per switch frees every task  *)
(* that has exited.                                                        *)
(***************************************************************************)
THEOREM ExitedTasksReaped == Spec => []ReapedAtOnce
<1>1. QueueInv => ReapedAtOnce
  BY QueueInvImplies
<1>. QED  BY <1>1, QueueInvariant, PTL
-----------------------------------------------------------------------------
(***************************************************************************)
(* Types of the fields and the counters.                                   *)
(***************************************************************************)
FieldTypes ==
  /\ pid_array \subseteq Pid
  /\ rlimit_nproc \in 0..NPROC_MAX
  /\ pid \in [Task -> Pid \cup {NO_PID}]
  /\ parent \in [Task -> Task \cup {NULL}]
  /\ children \in [Task -> SUBSET Task]
  /\ wait_desc \in [Task -> Pid \cup {NOT_WAITING, TERMINAL_TYPE}]
  /\ wakeup_return \in [Task -> Pid \cup {NO_PID, UNSET}]
  /\ sleep_time_rem \in [Task -> 0..(WORD - 1)]
  /\ frame \in [Task -> Pid \cup {NOT_WAITING, TERMINAL_TYPE}]

(***************************************************************************)
(* The invariant of the queues gives the types of the queues.              *)
(***************************************************************************)
LEMMA QueueInvTypes ==
  ASSUME QueueInv, FieldTypes
  PROVE  /\ leftover \in BOOLEAN /\ hung \in BOOLEAN => TypeOK
         /\ allocated \subseteq Task
<1>1. Linked(pcb_run_queue, pcb_wait_queue, wait_timer_queue, allocated, noproc)
      /\ pcb_terminated_queue = <<>>
  BY DEF QueueInv
<1>2. noproc \in Nat
  BY <1>1 DEF Linked
<1>3. allocated \subseteq Task
  <2>1. \A q \in Seq(Task) : Entries(q) \subseteq Task
    BY DEF Entries
  <2>. QED  BY <1>1, <2>1 DEF Linked
<1>. QED  BY <1>1, <1>2, <1>3 DEF TypeOK, FieldTypes, Linked

(***************************************************************************)
(* The fields of the boot tasks have their types.                          *)
(***************************************************************************)
LEMMA FieldTypesInit ==
  ASSUME Init
  PROVE  FieldTypes
<1>1. ULIMIT \in Nat /\ ULIMIT >= 3 /\ 1 \in Pid /\ 2 \in Pid
  BY SchedulerAssumption DEF Pid
<1>2. rlimit_nproc \in 0..NPROC_MAX /\ 0 \in 0..(WORD - 1)
  BY SchedulerAssumption DEF Init, TasksCreated
<1>. QED  BY <1>1, <1>2 DEF Init, TasksCreated, FieldTypes

(***************************************************************************)
(* getNextPid returns a pid that is not in use, or NO_PID.                 *)
(***************************************************************************)
LEMMA LeastExists ==
  ASSUME NEW S \in SUBSET Nat, S # {}
  PROVE  \E i \in S : \A j \in S : i <= j
<1>1. IsWellFoundedOn(OpToRel(<, Nat), Nat)
  BY NatLessThanWellFounded
<1>2. \E i \in S : \A j \in S : ~(<<j, i>> \in OpToRel(<, Nat))
  BY <1>1, WFMin
<1>3. ASSUME NEW i \in S, NEW j \in S, ~(i <= j)
      PROVE  <<j, i>> \in OpToRel(<, Nat)
  <2>1. <<j, i>> \in Nat \X Nat /\ j < i
    BY <1>3
  <2>. QED  BY <2>1 DEF OpToRel
<1>. QED  BY <1>2, <1>3

(***************************************************************************)
(* getNextPid returns a pid that is not marked, or NO_PID.                 *)
(***************************************************************************)
LEMMA NextPidFree ==
  ASSUME pid_array \subseteq Pid
  PROVE  /\ getNextPid \in Pid \cup {NO_PID}
         /\ getNextPid \notin pid_array
         /\ {getNextPid} \cap Pid = IF getNextPid = NO_PID THEN {}
                                                           ELSE {getNextPid}
<1>1. NO_PID \notin Pid /\ Pid \subseteq Nat
  BY SchedulerAssumption DEF NO_PID, Pid
<1>2. CASE Pid \subseteq pid_array
  BY <1>1, <1>2 DEF getNextPid
<1>3. CASE ~(Pid \subseteq pid_array)
  <2> DEFINE S == Pid \ pid_array
  <2>1. S # {} /\ S \in SUBSET Nat
    BY <1>1, <1>3
  <2>2. \E i \in S : \A j \in S : i <= j
    BY <2>1, LeastExists
  <2>3. getNextPid \in S
    BY <1>3, <2>2 DEF getNextPid
  <2>. QED  BY <1>1, <2>3
<1>. QED  BY <1>2, <1>3

(***************************************************************************)
(* Clearing the descriptors of the woken tasks (wakeup_proc) keeps the     *)
(* type of wait_desc.                                                      *)
(***************************************************************************)
LEMMA AwakeTypes ==
  ASSUME NEW D, NOT_WAITING \in D, NEW desc \in [Task -> D], NEW woken
  PROVE  Awake(desc, woken) \in [Task -> D]
BY DEF Awake

(***************************************************************************)
(* The decrement of sys_wakeup_timer stays a uint64_t.                     *)
(***************************************************************************)
LEMMA TicksLeftType ==
  ASSUME FieldTypes
  PROVE  TicksLeft \in [Task -> 0..(WORD - 1)]
<1>1. WORD \in Nat /\ WORD > 0
  BY SchedulerAssumption
<1>2. ASSUME NEW x \in 0..(WORD - 1)
      PROVE  (x - 1) % WORD \in 0..(WORD - 1)
  BY <1>1
<1>. QED  BY <1>2 DEF TicksLeft, FieldTypes

(***************************************************************************)
(* Every handler keeps the types of the fields.                            *)
(***************************************************************************)
LEMMA FieldTypesStep ==
  ASSUME QueueInv, FieldTypes, [Next]_vars
  PROVE  FieldTypes'
<1> DEFINE Desc == Pid \cup {NOT_WAITING, TERMINAL_TYPE}
<1>1. getCurrentTask \in Task
  BY CurrentIsRunnable
<1>2. ASSUME NEW run, NEW terminated, sys_yield(run, terminated)
      PROVE  pid_array' \subseteq Pid
  BY <1>2 DEF sys_yield, cleanupTerminated, FieldTypes
<1>3. ASSUME NEW t \in Task, SysYield(t)  PROVE FieldTypes'
  <2>1. pid_array' \subseteq Pid
    BY <1>2, <1>3 DEF SysYield
  <2>. QED  BY <1>3, <2>1 DEF SysYield, FieldTypes, fields
<1>4. ASSUME NEW t \in Task, SysExit(t)  PROVE FieldTypes'
  <2>1. pid_array' \subseteq Pid
    BY <1>2, <1>4 DEF SysExit
  <2>2. wait_desc' \in [Task -> Desc]
    BY <1>4, AwakeTypes DEF SysExit, FieldTypes
  <2>3. parent' \in [Task -> Task \cup {NULL}]
    BY <1>4 DEF SysExit, Orphaned, FieldTypes
  <2>4. wakeup_return' \in [Task -> Pid \cup {NO_PID, UNSET}]
        /\ children' \in [Task -> SUBSET Task]
    BY <1>4 DEF SysExit, Intact, FieldTypes
  <2>5. UNCHANGED <<rlimit_nproc, pid, sleep_time_rem, frame>>
    BY <1>4 DEF SysExit
  <2>. QED  BY <2>1, <2>2, <2>3, <2>4, <2>5 DEF FieldTypes
<1>5. ASSUME NEW t \in Task, NEW d \in Awaited, SysSleep(t, d)  PROVE FieldTypes'
  <2>1. pid_array' \subseteq Pid
    BY <1>2, <1>5 DEF SysSleep
  <2>2. d \in Desc
    BY SchedulerAssumption
  <2>. QED  BY <1>5, <2>1, <2>2 DEF SysSleep, FieldTypes
<1>6. ASSUME NEW t \in Task, NEW i \in 0..MaxSleep, SysSleepTimer(t, i)
      PROVE  FieldTypes'
  <2>1. pid_array' \subseteq Pid
    BY <1>2, <1>6 DEF SysSleepTimer
  <2>2. i \in 0..(WORD - 1)
    BY SchedulerAssumption
  <2>. QED  BY <1>6, <2>1, <2>2 DEF SysSleepTimer, FieldTypes
<1>7. ASSUME NEW p \in Task, NEW c \in Task, SysFork(p, c)  PROVE FieldTypes'
  <2>1. getNextPid \in Pid \cup {NO_PID} /\ pid_array' \subseteq Pid
    BY <1>7, NextPidFree DEF SysFork, FieldTypes
  <2>2. pid' \in [Task -> Pid \cup {NO_PID}]
    BY <1>7, <2>1 DEF SysFork, FieldTypes
  <2>3. /\ parent' \in [Task -> Task \cup {NULL}]
        /\ children' \in [Task -> SUBSET Task]
    BY <1>7 DEF SysFork, Intact, FieldTypes
  <2>4. wait_desc' \in [Task -> Desc] /\ frame' \in [Task -> Desc]
    BY <1>7 DEF SysFork, FieldTypes
  <2>5. wakeup_return' \in [Task -> Pid \cup {NO_PID, UNSET}]
        /\ UNCHANGED <<rlimit_nproc, sleep_time_rem>>
    BY <1>7 DEF SysFork, FieldTypes
  <2>. QED  BY <2>1, <2>2, <2>3, <2>4, <2>5 DEF FieldTypes
<1>8. ASSUME NEW p \in Task, NEW c \in Task, NEW linked \in BOOLEAN,
             SysForkFails(p, c, linked)
      PROVE  FieldTypes'
  <2>1. pid_array' \subseteq Pid
    BY <1>8 DEF SysForkFails, FieldTypes
  <2>2. children' \in [Task -> SUBSET Task]
    BY <1>8 DEF SysForkFails, Intact, FieldTypes
  <2>. QED  BY <1>8, <2>1, <2>2 DEF SysForkFails, FieldTypes
<1>9. ASSUME NEW t \in Task, NEW n \in Limits, SysSetrlimit(t, n)
      PROVE  FieldTypes'
  <2>1. n \in 0..NPROC_MAX
    BY <1>9, SchedulerAssumption DEF SysSetrlimit
  <2>. QED  BY <1>9, <2>1 DEF SysSetrlimit, FieldTypes, fields
<1>10. ASSUME NEW t \in Task, SleepReturn(t)  PROVE FieldTypes'
  BY <1>10 DEF SleepReturn, FieldTypes
<1>11. ASSUME NEW quantumOver \in BOOLEAN, TimerTick(quantumOver)
       PROVE  FieldTypes'
  <2>1. pid_array' \subseteq Pid
    BY <1>2, <1>11 DEF TimerTick, FieldTypes
  <2>2. sleep_time_rem' \in [Task -> 0..(WORD - 1)]
    BY <1>11, TicksLeftType DEF TimerTick
  <2>3. wait_desc' \in [Task -> Desc]
    <3>1. ASSUME NEW t \in Task
          PROVE  wait_desc'[t] \in {NOT_WAITING, wait_desc[t]}
      BY <1>11 DEF TimerTick, Awake, Waiters
    <3>2. wait_desc' = [t \in Task |-> wait_desc'[t]]
      BY <1>11 DEF TimerTick, Awake
    <3>. QED  BY <3>1, <3>2 DEF FieldTypes
  <2>4. UNCHANGED <<rlimit_nproc, pid, parent, children, wakeup_return, frame>>
    BY <1>11 DEF TimerTick
  <2>. QED  BY <2>1, <2>2, <2>3, <2>4 DEF FieldTypes
<1>12. CASE TerminalFlush
  <2>1. wait_desc' \in [Task -> Desc]
    BY <1>12, AwakeTypes DEF TerminalFlush, FieldTypes
  <2>. QED  BY <1>12, <2>1 DEF TerminalFlush, FieldTypes
<1>13. CASE UNCHANGED vars
  BY <1>13 DEF vars, fields, FieldTypes
<1>14. ASSUME NEW t \in Task, SysExitHangs(t)  PROVE FieldTypes'
  BY <1>14 DEF SysExitHangs, FieldTypes, fields
<1>. QED  BY <1>3, <1>4, <1>5, <1>6, <1>7, <1>8, <1>9, <1>10, <1>11, <1>12,
             <1>13, <1>14 DEF Next, Syscall, Spin

FaultTypes == leftover \in BOOLEAN /\ hung \in BOOLEAN

(***************************************************************************)
(* The marks of what a failed fork leads to are only ever set.             *)
(***************************************************************************)
LEMMA FaultStep ==
  ASSUME FaultTypes, [Next]_vars
  PROVE  FaultTypes' /\ (leftover => leftover')
<1>1. ASSUME UNCHANGED faults  PROVE FaultTypes' /\ (leftover => leftover')
  BY <1>1 DEF faults, FaultTypes
<1>2. ASSUME NEW p \in Task, NEW c \in Task, NEW linked \in BOOLEAN,
             SysForkFails(p, c, linked)
      PROVE  FaultTypes' /\ (leftover => leftover')
  <2>1. leftover' = (leftover \/ linked) /\ hung' = hung
    BY <1>2 DEF SysForkFails
  <2>. QED  BY <2>1 DEF FaultTypes
<1>3. ASSUME NEW t \in Task, SysExitHangs(t)
      PROVE  FaultTypes' /\ (leftover => leftover')
  <2>1. hung' = TRUE /\ leftover' = leftover
    BY <1>3 DEF SysExitHangs
  <2>. QED  BY <2>1 DEF FaultTypes
<1>4. ASSUME NEW t \in Task, Syscall(t)
      PROVE  \/ UNCHANGED faults
             \/ \E c \in Task, linked \in BOOLEAN : SysForkFails(t, c, linked)
             \/ SysExitHangs(t)
  BY <1>4 DEF Syscall, SysYield, SysExit, SysSleep, SysSleepTimer, SysSetrlimit, SysFork
<1>5. ASSUME NEW t \in Task, SleepReturn(t)  PROVE UNCHANGED faults
  BY <1>5 DEF SleepReturn
<1>6. ASSUME NEW quantumOver \in BOOLEAN, TimerTick(quantumOver)  PROVE UNCHANGED faults
  BY <1>6 DEF TimerTick
<1>7. TerminalFlush => UNCHANGED faults
  BY DEF TerminalFlush
<1>8. UNCHANGED vars => UNCHANGED faults
  BY DEF vars
<1>. QED  BY <1>1, <1>2, <1>3, <1>4, <1>5, <1>6, <1>7, <1>8 DEF Next, Spin

(***************************************************************************)
(* For any set of PCBs, pids and limits: every variable keeps its type; in *)
(* particular the process limit never passes its hard limit and no count   *)
(* goes below zero.                                                        *)
(***************************************************************************)
THEOREM TypeCorrect == Spec => []TypeOK
<1>1. Init => QueueInv /\ FieldTypes /\ FaultTypes
  BY QueueInit, FieldTypesInit DEF Init, FaultTypes
<1>2. QueueInv /\ FieldTypes /\ FaultTypes /\ [Next]_vars
        => QueueInv' /\ FieldTypes' /\ FaultTypes'
  BY QueueStep, FieldTypesStep, FaultStep
<1>3. QueueInv /\ FieldTypes /\ FaultTypes => TypeOK
  BY QueueInvTypes DEF FaultTypes
<1>. QED  BY <1>1, <1>2, <1>3, PTL DEF Spec
=============================================================================
