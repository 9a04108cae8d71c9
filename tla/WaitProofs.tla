----------------------------- MODULE WaitProofs -----------------------------
(***************************************************************************)
(* Proofs about sleeping and waking in Scheduler: the marks and countdowns *)
(* of sleeping tasks, who is woken by an exit, and that a wake-up leaves   *)
(* the running task alone, for any number of processes, pids and ticks.    *)
(***************************************************************************)
EXTENDS ProcessProofs

(***************************************************************************)
(* What the invariants say about the queues.                               *)
(***************************************************************************)
LEMMA QueueFacts ==
  ASSUME TypedInv
  PROVE  /\ Linked(pcb_run_queue, pcb_wait_queue, wait_timer_queue, allocated, noproc)
         /\ pcb_run_queue \in Seq(Task) /\ pcb_run_queue # <<>>
         /\ pcb_wait_queue \in Seq(Task) /\ wait_timer_queue \in Seq(Task)
         /\ Entries(pcb_wait_queue) \cap Entries(wait_timer_queue) = {}
         /\ Entries(pcb_wait_queue) \subseteq allocated
         /\ Entries(wait_timer_queue) \subseteq allocated
         /\ allocated \subseteq Task
BY AllocatedAreTasks, NonEmpty DEF TypedInv, QueueInv, Linked, Disjoint

LEMMA StillAsleepEntries ==
  ASSUME NEW q \in Seq(Task), NEW woken
  PROVE  Entries(StillAsleep(q, woken)) = Entries(q) \ woken
BY KeepProperties DEF StillAsleep

LEMMA YieldAllocates ==
  ASSUME NEW run, NEW terminated, sys_yield(run, terminated)
  PROVE  allocated' \subseteq allocated
BY DEF sys_yield, cleanupTerminated
-----------------------------------------------------------------------------
(***************************************************************************)
(* A wake-up of tasks of the wait queue takes their marks away with them.  *)
(***************************************************************************)
LEMMA WakeAgrees ==
  ASSUME TypedInv, DescriptorsAgree, NEW woken \in SUBSET Entries(pcb_wait_queue),
         wait_desc' = Awake(wait_desc, woken),
         pcb_wait_queue' = StillAsleep(pcb_wait_queue, woken),
         frame' = frame, allocated' \subseteq allocated
  PROVE  DescriptorsAgree'
<1>1. Entries(pcb_wait_queue') = Entries(pcb_wait_queue) \ woken
  BY QueueFacts, StillAsleepEntries
<1>2. ASSUME NEW t \in allocated'
      PROVE  IF t \in Entries(pcb_wait_queue')
             THEN wait_desc'[t] = frame'[t] /\ frame'[t] # NOT_WAITING
             ELSE wait_desc'[t] = NOT_WAITING
  <2>1. t \in allocated /\ t \in Task
    BY QueueFacts
  <2>2. wait_desc'[t] = IF t \in woken THEN NOT_WAITING ELSE wait_desc[t]
    BY <2>1 DEF Awake
  <2>. QED
    BY <1>1, <2>1, <2>2 DEF DescriptorsAgree
<1>. QED
  BY <1>2 DEF DescriptorsAgree

(***************************************************************************)
(* Nothing changes for a task whose mark, call and place stay.             *)
(***************************************************************************)
LEMMA SameAgrees ==
  ASSUME DescriptorsAgree, allocated' \subseteq allocated,
         Entries(pcb_wait_queue') = Entries(pcb_wait_queue),
         \A t \in allocated : wait_desc'[t] = wait_desc[t],
         \A t \in allocated \cap Entries(pcb_wait_queue) : frame'[t] = frame[t]
  PROVE  DescriptorsAgree'
BY DEF DescriptorsAgree

LEMMA DescriptorsStep ==
  ASSUME TypedInv, DescriptorsAgree, [Next]_vars
  PROVE  DescriptorsAgree'
<1>1. /\ getCurrentTask \in allocated /\ getCurrentTask \in Task
      /\ getCurrentTask \notin Entries(pcb_wait_queue)
      /\ allocated \subseteq Task
  BY AllocatedAreTasks
<1>2. wait_desc[getCurrentTask] = NOT_WAITING
  BY <1>1 DEF DescriptorsAgree
<1>3. /\ wait_desc \in [Task -> Pid \cup {NOT_WAITING, TERMINAL_TYPE}]
      /\ frame \in [Task -> Pid \cup {NOT_WAITING, TERMINAL_TYPE}]
  BY DEF TypedInv, FieldTypes
<1>4. ASSUME NEW t \in Task, SysExit(t)  PROVE DescriptorsAgree'
  <2>1. WokenByExit(t) \in SUBSET Entries(pcb_wait_queue)
    BY DEF WokenByExit, Waiters
  <2>2. allocated' \subseteq allocated
    BY <1>4, YieldAllocates DEF SysExit
  <2>. QED
    BY <1>4, <2>1, <2>2, WakeAgrees DEF SysExit
<1>5. ASSUME NEW t \in Task, NEW d \in Awaited, SysSleep(t, d)  PROVE DescriptorsAgree'
  <2>1. d # NOT_WAITING
    BY SchedulerAssumption DEF Pid, NOT_WAITING, TIMER_ELAPSED
  <2>2. t = getCurrentTask
    BY <1>5 DEF SysSleep, Calls
  <2>3. allocated' \subseteq allocated
    BY <1>5, YieldAllocates DEF SysSleep
  <2>4. Entries(pcb_wait_queue') = Entries(pcb_wait_queue) \cup {t}
    <3>1. pcb_wait_queue' = list_add(t, pcb_wait_queue)
      BY <1>5 DEF SysSleep
    <3>2. pcb_wait_queue \in Seq(Task)
      BY QueueFacts
    <3>3. Entries(list_add(t, pcb_wait_queue)) = Entries(pcb_wait_queue) \cup {t}
      BY <3>2, AddProperties
    <3>. QED
      BY <3>1, <3>3
  <2>5. /\ wait_desc'[t] = d /\ frame'[t] = d
        /\ \A u \in Task : u # t => wait_desc'[u] = wait_desc[u] /\ frame'[u] = frame[u]
    BY <1>3, <1>5 DEF SysSleep
  <2>. QED
    BY <1>1, <2>1, <2>3, <2>4, <2>5 DEF DescriptorsAgree
<1>6. ASSUME NEW t \in Task, SleepReturn(t)  PROVE DescriptorsAgree'
  <2>1. \A u \in allocated \cap Entries(pcb_wait_queue) : frame'[u] = frame[u]
    BY <1>1, <1>3, <1>6 DEF SleepReturn
  <2>. QED
    BY <1>6, <2>1, SameAgrees DEF SleepReturn, queues
<1>7. ASSUME NEW p \in Task, NEW c \in Task, SysFork(p, c)  PROVE DescriptorsAgree'
  <2>1. p = getCurrentTask /\ c \notin allocated /\ allocated' = allocated \cup {c}
        /\ pcb_wait_queue' = pcb_wait_queue
    BY <1>7 DEF SysFork, Calls, FreePcb
  <2>2. c \notin Entries(pcb_wait_queue)
    BY <2>1, QueueFacts
  <2>3. /\ wait_desc'[c] = NOT_WAITING
        /\ \A u \in Task : u # c => wait_desc'[u] = wait_desc[u] /\ frame'[u] = frame[u]
    BY <1>2, <1>3, <1>7, <2>1 DEF SysFork
  <2>. QED
    BY <1>1, <2>1, <2>2, <2>3 DEF DescriptorsAgree
<1>8. ASSUME NEW quantumOver \in BOOLEAN, TimerTick(quantumOver)  PROVE DescriptorsAgree'
  <2> DEFINE desc == [t \in Task |->
                        IF t \in Entries(wait_timer_queue) /\ TicksLeft[t] = 0
                        THEN TIMER_ELAPSED ELSE wait_desc[t]]
             woken == Waiters(wait_timer_queue, desc, TIMER_ELAPSED)
  <2>1. wait_desc' = Awake(desc, woken)
    BY <1>8 DEF TimerTick
  <2>2. woken \subseteq Entries(wait_timer_queue)
        /\ \A u \in Task \ woken : desc[u] = wait_desc[u]
    BY DEF Waiters
  <2> HIDE DEF desc, woken
  <2>3. ASSUME NEW u \in allocated  PROVE wait_desc'[u] = wait_desc[u]
    <3>1. CASE u \in woken
      <4>1. u \in allocated /\ u \notin Entries(pcb_wait_queue) /\ u \in Task
        BY <2>2, <3>1, QueueFacts
      <4>2. wait_desc[u] = NOT_WAITING
        BY <4>1 DEF DescriptorsAgree
      <4>. QED
        BY <2>1, <3>1, <4>1, <4>2 DEF Awake
    <3>2. CASE u \notin woken
      BY <1>1, <2>1, <2>2, <3>2 DEF Awake
    <3>. QED
      BY <3>1, <3>2
  <2>4. allocated' \subseteq allocated
    BY <1>8, YieldAllocates DEF TimerTick
  <2>5. pcb_wait_queue' = pcb_wait_queue /\ frame' = frame
    BY <1>8 DEF TimerTick
  <2>. QED
    BY <2>3, <2>4, <2>5, SameAgrees
<1>9. CASE TerminalFlush
  <2> DEFINE woken == Waiters(pcb_wait_queue, wait_desc, TERMINAL_TYPE)
  <2>1. woken \in SUBSET Entries(pcb_wait_queue)
    BY DEF Waiters
  <2>2. /\ wait_desc' = Awake(wait_desc, woken)
        /\ pcb_wait_queue' = StillAsleep(pcb_wait_queue, woken)
        /\ frame' = frame /\ allocated' = allocated
    BY <1>9 DEF TerminalFlush
  <2> HIDE DEF woken
  <2>. QED
    BY <2>1, <2>2, WakeAgrees
<1>10. ASSUME UNCHANGED <<pcb_wait_queue, wait_desc, frame>>, allocated' \subseteq allocated
       PROVE  DescriptorsAgree'
  BY <1>10, SameAgrees
<1>11. ASSUME NEW t \in Task, SysYield(t)  PROVE DescriptorsAgree'
  BY <1>10, <1>11, YieldAllocates DEF SysYield, fields
<1>12. ASSUME NEW t \in Task, NEW n \in 0..MaxSleep, SysSleepTimer(t, n)
       PROVE  DescriptorsAgree'
  BY <1>10, <1>12, YieldAllocates DEF SysSleepTimer
<1>13. ASSUME NEW t \in Task, NEW n \in Limits, SysSetrlimit(t, n)  PROVE DescriptorsAgree'
  BY <1>10, <1>13 DEF SysSetrlimit, queues, fields
<1>14. ASSUME NEW p \in Task, NEW c \in Task, NEW linked \in BOOLEAN,
              SysForkFails(p, c, linked)
       PROVE  DescriptorsAgree'
  BY <1>10, <1>14 DEF SysForkFails, queues
<1>15. CASE UNCHANGED vars
  BY <1>10, <1>15 DEF vars, queues, fields
<1>16. ASSUME NEW t \in Task, SysExitHangs(t)  PROVE DescriptorsAgree'
  BY <1>10, <1>16 DEF SysExitHangs, queues, fields
<1>. QED
  BY <1>4, <1>5, <1>6, <1>7, <1>8, <1>9, <1>11, <1>12, <1>13, <1>14, <1>15, <1>16
     DEF Next, Syscall, Spin

(***************************************************************************)
(* DescriptorsStayAgreed: the mark that _sys_wakeup looks for is on the    *)
(* tasks of the wait queue, each with what it asked to wait for, and on no *)
(* other task, in whatever order tasks sleep, are woken, fork and exit.    *)
(***************************************************************************)
THEOREM DescriptorsStayAgreed == Spec => []DescriptorsAgree
<1>1. Init => DescriptorsAgree
  <2>1. Entries(<<>>) = {}
    BY DEF Entries
  <2>. QED
    BY <2>1, SchedulerAssumption DEF Init, TasksCreated, DescriptorsAgree
<1>2. TypedInv /\ DescriptorsAgree /\ [Next]_vars => DescriptorsAgree'
  BY DescriptorsStep
<1>. QED
  BY <1>1, <1>2, TypedInvariant, PTL DEF Spec
-----------------------------------------------------------------------------
(***************************************************************************)
(* Countdowns.                                                             *)
(***************************************************************************)
LEMMA TickDown ==
  ASSUME NEW x \in 1..MaxSleep
  PROVE  (x - 1) % WORD = x - 1
<1>1. WORD \in Nat /\ x - 1 \in 0..WORD - 1
  BY SchedulerAssumption
<1>. QED
  BY <1>1

LEMMA CountdownStep ==
  ASSUME TypedInv, CountdownPositive, [Next]_vars
  PROVE  CountdownPositive'
<1>1. wait_timer_queue \in Seq(Task) /\ Entries(wait_timer_queue) \subseteq Task
  BY QueueFacts
<1>2. sleep_time_rem \in [Task -> 0..(WORD - 1)]
  BY DEF TypedInv, FieldTypes
<1>3. ASSUME NEW t \in Task, NEW n \in 0..MaxSleep, SysSleepTimer(t, n)
      PROVE  CountdownPositive'
  <2>1. Entries(wait_timer_queue') = Entries(wait_timer_queue) \cup {t}
    <3>1. wait_timer_queue' = list_add(t, wait_timer_queue)
      BY <1>3 DEF SysSleepTimer
    <3>2. Entries(list_add(t, wait_timer_queue)) = Entries(wait_timer_queue) \cup {t}
      BY <1>1, AddProperties
    <3>. QED
      BY <3>1, <3>2
  <2>2. n \in 1..MaxSleep
    BY <1>3, SchedulerAssumption DEF SysSleepTimer, ValidInterval
  <2>3. sleep_time_rem'[t] = n
        /\ \A u \in Task : u # t => sleep_time_rem'[u] = sleep_time_rem[u]
    BY <1>2, <1>3 DEF SysSleepTimer
  <2>. QED
    BY <1>1, <2>1, <2>2, <2>3 DEF CountdownPositive
<1>4. ASSUME NEW quantumOver \in BOOLEAN, TimerTick(quantumOver)  PROVE CountdownPositive'
  <2> DEFINE desc == [t \in Task |->
                        IF t \in Entries(wait_timer_queue) /\ TicksLeft[t] = 0
                        THEN TIMER_ELAPSED ELSE wait_desc[t]]
             woken == Waiters(wait_timer_queue, desc, TIMER_ELAPSED)
  <2>1. sleep_time_rem' = TicksLeft
        /\ wait_timer_queue' = StillAsleep(wait_timer_queue, woken)
    BY <1>4 DEF TimerTick
  <2>2. \A u \in Entries(wait_timer_queue) \ woken : TicksLeft[u] # 0
    BY <1>1 DEF Waiters
  <2> HIDE DEF desc, woken
  <2>3. Entries(wait_timer_queue') = Entries(wait_timer_queue) \ woken
    BY <1>1, <2>1, StillAsleepEntries
  <2>4. ASSUME NEW u \in Entries(wait_timer_queue)'  PROVE sleep_time_rem'[u] \in 1..MaxSleep
    <3>1. u \in Entries(wait_timer_queue) /\ u \in Task /\ TicksLeft[u] # 0
      BY <1>1, <2>2, <2>3
    <3>2. TicksLeft[u] = (sleep_time_rem[u] - 1) % WORD
      BY <3>1 DEF TicksLeft
    <3>3. sleep_time_rem[u] \in 1..MaxSleep
      BY <3>1 DEF CountdownPositive
    <3>4. TicksLeft[u] = sleep_time_rem[u] - 1
      BY <3>2, <3>3, TickDown
    <3>. QED
      BY <2>1, <3>1, <3>3, <3>4, SchedulerAssumption
  <2>. QED
    BY <2>4 DEF CountdownPositive
<1>5. ASSUME UNCHANGED <<wait_timer_queue, sleep_time_rem>>  PROVE CountdownPositive'
  BY <1>5 DEF CountdownPositive
<1>6. ASSUME NEW t \in Task,
             SysYield(t) \/ SysExit(t) \/ SysExitHangs(t) \/ SleepReturn(t)
      PROVE  CountdownPositive'
  BY <1>5, <1>6 DEF SysYield, SysExit, SysExitHangs, SleepReturn, queues, fields
<1>7. ASSUME NEW t \in Task, NEW d \in Awaited, SysSleep(t, d)  PROVE CountdownPositive'
  BY <1>5, <1>7 DEF SysSleep
<1>8. ASSUME NEW t \in Task, NEW n \in Limits, SysSetrlimit(t, n)  PROVE CountdownPositive'
  BY <1>5, <1>8 DEF SysSetrlimit, queues, fields
<1>9. ASSUME NEW p \in Task, NEW c \in Task, SysFork(p, c)  PROVE CountdownPositive'
  BY <1>5, <1>9 DEF SysFork
<1>10. ASSUME NEW p \in Task, NEW c \in Task, NEW linked \in BOOLEAN,
              SysForkFails(p, c, linked)
       PROVE  CountdownPositive'
  BY <1>5, <1>10 DEF SysForkFails, queues
<1>11. CASE TerminalFlush \/ UNCHANGED vars
  BY <1>5, <1>11 DEF TerminalFlush, vars, queues, fields
<1>. QED
  BY <1>3, <1>4, <1>6, <1>7, <1>8, <1>9, <1>10, <1>11
     DEF Next, Syscall, Spin

(***************************************************************************)
(* CountdownsStayPositive: the unsigned decrement of sys_wakeup_timer      *)
(* never meets a zero, for any word size and any sleep below it.           *)
(***************************************************************************)
THEOREM CountdownsStayPositive == Spec => []CountdownPositive
<1>1. Init => CountdownPositive
  BY DEF Init, CountdownPositive, Entries
<1>2. TypedInv /\ CountdownPositive /\ [Next]_vars => CountdownPositive'
  BY CountdownStep
<1>. QED
  BY <1>1, <1>2, TypedInvariant, PTL DEF Spec
-----------------------------------------------------------------------------
(***************************************************************************)
(* The tail of the run queue, which is the running task.                   *)
(***************************************************************************)
LEMMA LastOfConcat ==
  ASSUME NEW q \in Seq(Task), NEW r \in Seq(Task), r # <<>>
  PROVE  LastEntry(q \o r) = LastEntry(r)
<1>1. Len(q) \in Nat /\ Len(r) \in Nat \ {0} /\ Len(q \o r) = Len(q) + Len(r)
  OBVIOUS
<1>2. (q \o r)[Len(q) + Len(r)] = r[Len(r)]
  BY <1>1
<1>. QED
  BY <1>1, <1>2 DEF LastEntry

(***************************************************************************)
(* Waking tasks and adding a child change nothing at the tail.             *)
(***************************************************************************)
LEMMA WakeLeavesTail ==
  ASSUME TypedInv, NEW q \in Seq(Task), NEW woken,
         pcb_run_queue' = RunnableAfter(pcb_run_queue, q, woken)
  PROVE  getCurrentTask' = getCurrentTask
<1>1. Keep(q, woken) \in Seq(Task)
  BY KeepProperties
<1>2. LastEntry(Keep(q, woken) \o pcb_run_queue) = LastEntry(pcb_run_queue)
  BY <1>1, QueueFacts, LastOfConcat
<1>. QED
  BY <1>2 DEF RunnableAfter, getCurrentTask

LEMMA UndisturbedStep ==
  ASSUME TypedInv,
         \/ TerminalFlush
         \/ TimerTick(FALSE)
         \/ \E p, c \in Task : SysFork(p, c)
  PROVE  getCurrentTask' = getCurrentTask
<1>1. pcb_wait_queue \in Seq(Task) /\ wait_timer_queue \in Seq(Task)
      /\ pcb_run_queue \in Seq(Task) /\ pcb_run_queue # <<>>
  BY QueueFacts
<1>2. CASE TerminalFlush
  BY <1>1, <1>2, WakeLeavesTail DEF TerminalFlush
<1>3. CASE TimerTick(FALSE)
  <2>1. \E woken : pcb_run_queue' = RunnableAfter(pcb_run_queue, wait_timer_queue, woken)
    BY <1>3 DEF TimerTick
  <2>. QED
    BY <1>1, <2>1, WakeLeavesTail
<1>4. ASSUME NEW p \in Task, NEW c \in Task, SysFork(p, c)
      PROVE  getCurrentTask' = getCurrentTask
  <2>1. pcb_run_queue' = <<c>> \o pcb_run_queue /\ <<c>> \in Seq(Task)
    <3>1. pcb_run_queue' = list_add(c, pcb_run_queue)
      BY <1>4 DEF SysFork, addToTaskList
    <3>. QED
      BY <3>1 DEF list_add
  <2>. QED
    BY <1>1, <2>1, LastOfConcat DEF getCurrentTask
<1>. QED
  BY <1>2, <1>3, <1>4

(***************************************************************************)
(* RunningStaysUndisturbed: making a task runnable never changes which     *)
(* task getCurrentTask takes for the running one, whatever is on the       *)
(* queues.                                                                 *)
(***************************************************************************)
THEOREM RunningStaysUndisturbed == Spec => RunningUndisturbed
<1> DEFINE Making == \/ TerminalFlush
                     \/ TimerTick(FALSE)
                     \/ \E p, c \in Task : SysFork(p, c)
<1>1. TypedInv /\ [Next]_vars => [Making => getCurrentTask' = getCurrentTask]_vars
  BY UndisturbedStep
<1>. QED
  BY <1>1, TypedInvariant, PTL DEF Spec, RunningUndisturbed
-----------------------------------------------------------------------------
(***************************************************************************)
(* What sys_exit does to the run queue.                                    *)
(***************************************************************************)
LEMMA ExitWakes ==
  ASSUME TypedInv, NEW t \in Task, SysExit(t)
  PROVE  /\ WokenByExit(t) \subseteq Entries(pcb_run_queue')
         /\ WokenByExit(t) # {} => getCurrentTask' \in WokenByExit(t)
<1> DEFINE woken == WokenByExit(t)
           wait == pcb_wait_queue
           d == list_del(t, pcb_run_queue)
           r == RunnableAfter(d, wait, woken)
<1>1. woken \in SUBSET Entries(wait)
  BY DEF WokenByExit, Waiters
<1>2. t \in Entries(pcb_run_queue) /\ t # Daemon
  BY CurrentIsRunnable DEF TypedInv, SysExit, Calls
<1>3. Linked(d, wait, wait_timer_queue, allocated \ {t}, noproc - 1)
      /\ Entries(d) = Entries(pcb_run_queue) \ {t}
  BY <1>2, QueueFacts, LinkedExit
<1>4. sys_yield(r, list_add(t, pcb_terminated_queue))
  BY DEF SysExit
<1> HIDE DEF woken, d
<1>5. Entries(r) = Entries(d) \cup woken /\ r \in Seq(Task) /\ NoRepeats(r)
  <2>1. Linked(r, StillAsleep(wait, woken), wait_timer_queue, allocated \ {t}, noproc - 1)
        /\ Entries(r) = Entries(d) \cup woken
    BY <1>1, <1>3, LinkedWake
  <2> HIDE DEF r
  <2>. QED  BY <2>1 DEF Linked
<1>6. r # <<>>
  <2>1. Daemon \in Entries(r)
    BY <1>2, <1>3, <1>5 DEF TypedInv, QueueInv
  <2> HIDE DEF r
  <2>. QED  BY <2>1, NonEmpty
<1>7. ASSUME woken # {}  PROVE Head(r) \in woken
  <2> DEFINE k == Keep(wait, woken)
  <2>0. wait \in Seq(Task)
    BY QueueFacts
  <2>1. k \in Seq(Task) /\ Entries(k) = woken
    <3>1. k \in Seq(Task) /\ Entries(k) = Entries(wait) \cap woken
      BY <2>0, KeepProperties
    <3>. QED  BY <1>1, <3>1
  <2>2. d \in Seq(Task) /\ r = k \o d
    BY <1>3 DEF Linked, RunnableAfter
  <2> HIDE DEF k, r
  <2>3. k # <<>> /\ Head(k) \in Entries(k)
    BY <1>7, <2>1 DEF Entries
  <2>4. Head(r) = Head(k)
    BY <2>1, <2>2, <2>3
  <2>. QED  BY <2>1, <2>3, <2>4
<1> HIDE DEF r
<1>8. pcb_run_queue' = list_add_tail(Head(r), list_del(Head(r), r))
  BY <1>4 DEF sys_yield
<1>9. Entries(pcb_run_queue') = Entries(r) /\ LastEntry(pcb_run_queue') = Head(r)
  BY <1>5, <1>6, <1>8, RotateProperties
<1>. QED
  BY <1>5, <1>7, <1>9 DEF getCurrentTask, woken

(***************************************************************************)
(* A parent that waits, in the sense of ExitNotifies.                      *)
(***************************************************************************)
Notified(t) ==
  LET p == parent[t]
      waiting == Waiters(pcb_wait_queue, wait_desc, pid[t])
  IN  /\ Waiters(pcb_wait_queue', wait_desc', pid[t]) = {}
      /\ p \in waiting
         \/ (waiting = {} /\ p \in Entries(pcb_wait_queue)
               /\ wait_desc[p] = pid[p])
         => /\ p \in Entries(pcb_run_queue')
            /\ wakeup_return'[p] = pid[t]
      /\ WokenByExit(t) # {} => getCurrentTask' \in WokenByExit(t)

LEMMA ExitNotifiesStep ==
  ASSUME TypedInv, NEW t \in Task, SysExit(t), parent[t] # NULL
  PROVE  Notified(t)
<1> DEFINE p == parent[t]
           waiting == Waiters(pcb_wait_queue, wait_desc, pid[t])
           woken == WokenByExit(t)
<1>1. p \in Task /\ pcb_wait_queue \in Seq(Task) /\ Entries(pcb_wait_queue) \subseteq Task
  BY QueueFacts DEF TypedInv, FieldTypes
<1>2. /\ wait_desc' = Awake(wait_desc, woken)
      /\ pcb_wait_queue' = StillAsleep(pcb_wait_queue, woken)
      /\ wakeup_return'[p] = pid[t]
  BY <1>1 DEF SysExit
<1>3. Entries(pcb_wait_queue') = Entries(pcb_wait_queue) \ woken
  BY <1>1, <1>2, StillAsleepEntries
<1>4. waiting # {} => woken = waiting
  BY DEF WokenByExit
<1>5. waiting = {} => woken = Waiters(pcb_wait_queue, wait_desc, pid[p])
  BY DEF WokenByExit
<1>6. Waiters(pcb_wait_queue', wait_desc', pid[t]) = {}
  <2>1. SUFFICES ASSUME NEW u \in Entries(pcb_wait_queue'), wait_desc'[u] = pid[t]
                 PROVE  FALSE
    BY DEF Waiters
  <2>2. u \in Entries(pcb_wait_queue) /\ u \notin woken /\ u \in Task
    BY <1>1, <1>3, <2>1
  <2>3. wait_desc[u] = pid[t]
    BY <1>2, <2>1, <2>2 DEF Awake
  <2>4. u \in waiting
    BY <2>2, <2>3 DEF Waiters
  <2>. QED
    BY <1>4, <2>2, <2>4
<1>7. ASSUME p \in waiting \/ (waiting = {} /\ p \in Entries(pcb_wait_queue)
                                 /\ wait_desc[p] = pid[p])
      PROVE  p \in woken
  <2>1. CASE p \in waiting
    BY <1>4, <2>1
  <2>2. CASE waiting = {} /\ p \in Entries(pcb_wait_queue) /\ wait_desc[p] = pid[p]
    BY <1>5, <2>2 DEF Waiters
  <2>. QED
    BY <1>7, <2>1, <2>2
<1>8. woken \subseteq Entries(pcb_run_queue') /\ (woken # {} => getCurrentTask' \in woken)
  BY ExitWakes
<1> HIDE DEF p, waiting, woken
<1>. QED
  BY <1>2, <1>6, <1>7, <1>8 DEF Notified, p, waiting, woken

(***************************************************************************)
(* ExitsNotify: after an exit nobody waits for the pid that is gone, the   *)
(* parent that waited is runnable with the pid as its result, and a task   *)
(* that was woken runs next, for any number of waiting tasks.              *)
(***************************************************************************)
THEOREM ExitsNotify == Spec => ExitNotifies
<1>1. TypedInv /\ [Next]_vars =>
        [\A t \in Task : SysExit(t) /\ parent[t] # NULL => Notified(t)]_vars
  BY ExitNotifiesStep
<1>. QED
  BY <1>1, TypedInvariant, PTL DEF Spec, ExitNotifies, Notified
=============================================================================
