---------------------------- MODULE ProcessProofs ----------------------------
(***************************************************************************)
(* Proofs about what hangs together with the queues in Scheduler: parent   *)
(* and child links, and pids, for any number of processes and pids.        *)
(***************************************************************************)
EXTENDS SchedulerProofs

TypedInv == QueueInv /\ FieldTypes /\ FaultTypes

(***************************************************************************)
(* The queue invariant and the field types hold together in every          *)
(* reachable state.                                                        *)
(***************************************************************************)
LEMMA TypedInvariant == Spec => []TypedInv
<1>1. Init => TypedInv
  BY QueueInit, FieldTypesInit DEF TypedInv, Init, FaultTypes
<1>2. TypedInv /\ [Next]_vars => TypedInv'
  BY QueueStep, FieldTypesStep, FaultStep DEF TypedInv
<1>. QED  BY <1>1, <1>2, PTL DEF Spec

(***************************************************************************)
(* Allocated PCBs are PCBs, and the running one is allocated.              *)
(***************************************************************************)
LEMMA AllocatedAreTasks ==
  ASSUME TypedInv
  PROVE  /\ allocated \subseteq Task
         /\ getCurrentTask \in allocated
         /\ getCurrentTask \in Task
         /\ getCurrentTask \notin Entries(pcb_wait_queue)
         /\ getCurrentTask \notin Entries(wait_timer_queue)
<1>1. QueueInv /\ FieldTypes
  BY DEF TypedInv
<1>2. allocated \subseteq Task
  BY <1>1, QueueInvTypes
<1>3. getCurrentTask \in Entries(pcb_run_queue) /\ getCurrentTask \in Task
  BY <1>1, CurrentIsRunnable
<1>. QED  BY <1>1, <1>2, <1>3 DEF QueueInv, Linked, Disjoint

(***************************************************************************)
(* The steps, by what they do to the set of processes: sys_exit takes the  *)
(* running one out and gives its pid back, sys_fork adds one, and no other *)
(* step touches a pid, a parent field or, a failed fork apart, a list of   *)
(* children.                                                               *)
(***************************************************************************)
ExitStep(t) ==
  /\ SysExit(t)
  /\ t \in allocated
  /\ allocated' = allocated \ {t}
  /\ pid_array' = pid_array \ {pid[t]}

QuietStep ==
  /\ UNCHANGED <<allocated, pid, parent>>
  /\ pid_array \subseteq pid_array'
  /\ leftover' \/ children' = children

(***************************************************************************)
(* A switch with nobody on the terminated queue frees no PCB and no pid.   *)
(***************************************************************************)
LEMMA YieldIsQuiet ==
  ASSUME NEW run, pcb_terminated_queue = <<>>,
         sys_yield(run, pcb_terminated_queue)
  PROVE  UNCHANGED <<allocated, pid_array>>
BY DEF sys_yield, cleanupTerminated

(***************************************************************************)
(* Every step of the system is an exit, a successful fork or a quiet step. *)
(***************************************************************************)
LEMMA StepKinds ==
  ASSUME TypedInv, [Next]_vars
  PROVE  \/ \E t \in Task : ExitStep(t)
         \/ \E p, c \in Task : SysFork(p, c)
         \/ QuietStep
<1>1. pcb_terminated_queue = <<>>
  BY DEF TypedInv, QueueInv
<1>2. getCurrentTask \in allocated
  BY AllocatedAreTasks
<1>3. ASSUME NEW t \in Task, SysExit(t)  PROVE ExitStep(t)
  <2>1. t \in allocated
    BY <1>2, <1>3 DEF SysExit, Calls
  <2> DEFINE r == RunnableAfter(list_del(t, pcb_run_queue), pcb_wait_queue,
                                WokenByExit(t))
  <2>2. sys_yield(r, list_add(t, <<>>))
    BY <1>1, <1>3 DEF SysExit
  <2>3. list_add(t, <<>>) # <<>> /\ Head(list_add(t, <<>>)) = t
    BY DEF list_add
  <2> HIDE DEF r
  <2>. QED  BY <1>3, <2>1, <2>2, <2>3 DEF ExitStep, sys_yield, cleanupTerminated
<1>4. ASSUME NEW t \in Task, SysYield(t)  PROVE QuietStep
  BY <1>1, <1>4, YieldIsQuiet DEF SysYield, QuietStep, fields
<1>5. ASSUME NEW t \in Task, NEW d \in Awaited, SysSleep(t, d)  PROVE QuietStep
  BY <1>1, <1>5, YieldIsQuiet DEF SysSleep, QuietStep
<1>6. ASSUME NEW t \in Task, NEW i \in 0..MaxSleep, SysSleepTimer(t, i)
      PROVE  QuietStep
  BY <1>1, <1>6, YieldIsQuiet DEF SysSleepTimer, QuietStep
<1>7. ASSUME NEW p \in Task, NEW c \in Task, NEW linked \in BOOLEAN,
             SysForkFails(p, c, linked)
      PROVE  QuietStep
  BY <1>7 DEF SysForkFails, Intact, QuietStep
<1>8. ASSUME NEW t \in Task, NEW n \in Limits, SysSetrlimit(t, n)  PROVE QuietStep
  BY <1>8 DEF SysSetrlimit, QuietStep, fields
<1>9. ASSUME NEW t \in Task, SleepReturn(t)  PROVE QuietStep
  BY <1>9 DEF SleepReturn, QuietStep
<1>10. ASSUME NEW quantumOver \in BOOLEAN, TimerTick(quantumOver)  PROVE QuietStep
  <2>1. UNCHANGED <<allocated, pid_array>>
    BY <1>1, <1>10, YieldIsQuiet DEF TimerTick
  <2>2. UNCHANGED <<pid, parent, children>>
    BY <1>10 DEF TimerTick
  <2>. QED  BY <2>1, <2>2 DEF QuietStep
<1>11. CASE TerminalFlush
  BY <1>11 DEF TerminalFlush, QuietStep
<1>12. CASE UNCHANGED vars
  BY <1>12 DEF vars, fields, QuietStep
<1>13. ASSUME NEW t \in Task, SysExitHangs(t)  PROVE QuietStep
  BY <1>13 DEF SysExitHangs, QuietStep, fields
<1>. QED  BY <1>3, <1>4, <1>5, <1>6, <1>7, <1>8, <1>9, <1>10, <1>11, <1>12, <1>13
          DEF Next, Syscall, Spin
-----------------------------------------------------------------------------
(***************************************************************************)
(* Parent links.  sys_exit of the parent resets the field of every child   *)
(* it has listed, and a child is listed from the fork on: so no field is   *)
(* left pointing at the PCB that cleanupTerminated frees.  An exiting task *)
(* takes itself off its parent's list: so no list is left with a freed PCB *)
(* on it.  Each half needs the other.                                      *)
(***************************************************************************)
LEMMA ParentsStep ==
  ASSUME TypedInv, ParentsAlive, [Next]_vars
  PROVE  ParentsAlive'
<1>1. allocated \subseteq Task /\ getCurrentTask \in allocated
  BY AllocatedAreTasks
<1>2. SUFFICES ASSUME ~leftover'
               PROVE  \A u \in allocated' :
                        /\ parent'[u] # NULL => /\ parent'[u] \in allocated'
                                               /\ u \in children'[parent'[u]]
                        /\ \A c \in children'[u] : c \in allocated' /\ parent'[c] = u
  BY DEF ParentsAlive
<1>3. ~leftover
  BY <1>2, FaultStep DEF TypedInv
<1>4. \A u \in allocated :
        /\ parent[u] # NULL => parent[u] \in allocated /\ u \in children[parent[u]]
        /\ \A c \in children[u] : c \in allocated /\ parent[c] = u
  BY <1>3 DEF ParentsAlive
<1>5. parent \in [Task -> Task \cup {NULL}] /\ children \in [Task -> SUBSET Task]
  BY DEF TypedInv, FieldTypes
<1>. DEFINE Goal(u) == /\ parent'[u] # NULL => /\ parent'[u] \in allocated'
                                               /\ u \in children'[parent'[u]]
                       /\ \A c \in children'[u] : c \in allocated' /\ parent'[c] = u
<1>6. ASSUME NEW t \in Task, ExitStep(t), NEW u \in allocated'  PROVE Goal(u)
  <2>1. t \in allocated /\ allocated' = allocated \ {t}
    BY <1>6 DEF ExitStep
  <2>2. parent' = [c \in Task |-> IF c \in children[t] THEN NULL ELSE parent[c]]
    BY <1>3, <1>6 DEF ExitStep, SysExit, Visits, Orphaned
  <2>3. children' = [p \in Task |-> IF p = parent[t] THEN children[p] \ {t} ELSE children[p]]
    BY <1>2, <1>6 DEF ExitStep, SysExit, Intact
  <2>4. u \in allocated /\ u # t /\ u \in Task
    BY <1>1, <2>1, <1>6
  <2>5. ASSUME parent'[u] # NULL
        PROVE  parent'[u] \in allocated' /\ u \in children'[parent'[u]]
    <3>1. u \notin children[t] /\ parent'[u] = parent[u]
      BY <2>2, <2>4, <2>5
    <3>2. parent[u] \in allocated /\ u \in children[parent[u]] /\ parent[u] \in Task
      BY <1>1, <1>4, <2>4, <2>5, <3>1
    <3>3. parent[u] # t
      BY <3>1, <3>2
    <3>. QED  BY <2>1, <2>3, <2>4, <3>1, <3>2, <3>3
  <2>6. ASSUME NEW c \in children'[u]  PROVE c \in allocated' /\ parent'[c] = u
    <3>1. c \in children[u] /\ (u = parent[t] => c # t)
      BY <2>3, <2>4, <2>6
    <3>2. c \in allocated /\ parent[c] = u /\ c \in Task
      BY <1>1, <1>4, <2>4, <3>1
    <3>3. c # t
      BY <3>1, <3>2
    <3>4. c \notin children[t]
      BY <1>4, <2>1, <2>4, <3>2
    <3>. QED  BY <2>1, <2>2, <3>2, <3>3, <3>4
  <2>. QED  BY <2>5, <2>6
<1>7. ASSUME NEW p \in Task, NEW c \in Task, SysFork(p, c), NEW u \in allocated'
      PROVE  Goal(u)
  <2>1. p \in allocated /\ c \notin allocated /\ allocated' = allocated \cup {c}
    BY <1>1, <1>7 DEF SysFork, Calls, FreePcb
  <2>2. /\ parent' = [parent EXCEPT ![c] = p]
        /\ children' = [children EXCEPT ![p] = @ \cup {c}, ![c] = {}]
    BY <1>2, <1>7 DEF SysFork, Intact
  <2>3. p # c
    BY <2>1
  <2>4. CASE u = c
    BY <1>5, <2>1, <2>2, <2>3, <2>4
  <2>5. CASE u # c
    <3>1. u \in allocated /\ parent'[u] = parent[u] /\ u \in Task
      BY <1>1, <1>5, <1>7, <2>1, <2>2, <2>5
    <3>2. parent[u] # NULL => /\ parent[u] \in allocated /\ parent[u] # c
                              /\ parent[u] \in Task /\ u \in children[parent[u]]
      BY <1>1, <1>4, <2>1, <3>1
    <3>3. parent[u] # NULL => u \in children'[parent[u]]
      BY <1>5, <2>2, <3>2
    <3>4. ASSUME NEW d \in children'[u]  PROVE d \in allocated' /\ parent'[d] = u
      <4>1. d \in children[u] \/ (u = p /\ d = c)
        BY <1>5, <2>2, <2>5, <3>1, <3>4
      <4>2. CASE u = p /\ d = c
        BY <1>5, <2>1, <2>2, <4>2
      <4>3. CASE d \in children[u]
        <5>1. d \in allocated /\ parent[d] = u /\ d \in Task /\ d # c
          BY <1>1, <1>4, <2>1, <3>1, <4>3
        <5>. QED  BY <1>5, <2>1, <2>2, <5>1
      <4>. QED  BY <4>1, <4>2, <4>3
    <3>. QED  BY <2>1, <3>1, <3>2, <3>3, <3>4
  <2>. QED  BY <2>4, <2>5
<1>8. ASSUME QuietStep, NEW u \in allocated'  PROVE Goal(u)
  <2>1. UNCHANGED <<allocated, parent, children>>
    BY <1>2, <1>8 DEF QuietStep
  <2>. QED  BY <1>4, <2>1
<1>. HIDE DEF Goal
<1>9. \A u \in allocated' : Goal(u)
  BY <1>6, <1>7, <1>8, StepKinds
<1>. QED  BY <1>9 DEF Goal

(***************************************************************************)
(* For any set of PCBs, as long as no fork has failed after linking its    *)
(* child: the parent pointer that handle_wakeup_on_exit writes through is  *)
(* NULL or an allocated PCB that lists the child, and the PCBs that        *)
(* remove_parent_info_from_children writes to are the exiting task's own   *)
(* children, all allocated.                                                *)
(***************************************************************************)
THEOREM ParentsStayAlive == Spec => []ParentsAlive
<1>1. Init => ParentsAlive
  BY SchedulerAssumption DEF Init, TasksCreated, ParentsAlive
<1>2. TypedInv /\ ParentsAlive /\ [Next]_vars => ParentsAlive'
  BY ParentsStep
<1>. QED  BY <1>1, <1>2, TypedInvariant, PTL DEF Spec
-----------------------------------------------------------------------------
(***************************************************************************)
(* Pids.  getNextPid hands out an unmarked pid; the exit that unmarks a    *)
(* pid removes its only owner.                                             *)
(***************************************************************************)
LEMMA PidsStep ==
  ASSUME TypedInv, PidsOwned, [Next]_vars
  PROVE  PidsOwned'
<1>1. allocated \subseteq Task
  BY AllocatedAreTasks
<1>2. ASSUME NEW t \in Task, ExitStep(t)  PROVE PidsOwned'
  <2>1. allocated' = allocated \ {t} /\ pid_array' = pid_array \ {pid[t]}
        /\ pid' = pid /\ t \in allocated
    BY <1>2 DEF ExitStep, SysExit
  <2>. QED  BY <2>1 DEF PidsOwned
<1>3. ASSUME NEW p \in Task, NEW c \in Task, SysFork(p, c)  PROVE PidsOwned'
  <2> DEFINE n == getNextPid
  <2>1. n \notin pid_array
    BY NextPidFree DEF TypedInv, FieldTypes
  <2>2. c \notin allocated /\ allocated' = allocated \cup {c}
        /\ pid' = [pid EXCEPT ![c] = n] /\ pid_array' = pid_array \cup ({n} \cap Pid)
    BY <1>3 DEF SysFork, FreePcb
  <2>3. pid \in [Task -> Pid \cup {NO_PID}]
    BY DEF TypedInv, FieldTypes
  <2> HIDE DEF n
  <2>4. pid'[c] = n /\ \A u \in allocated : pid'[u] = pid[u]
    BY <1>1, <2>2, <2>3
  <2>. QED  BY <2>1, <2>2, <2>4 DEF PidsOwned
<1>4. CASE QuietStep
  BY <1>4 DEF QuietStep, PidsOwned
<1>. QED  BY <1>2, <1>3, <1>4, StepKinds

(***************************************************************************)
(* For any number of pids: no two processes have the same pid, and the pid *)
(* of a process stays marked in pid_array until its exit.                  *)
(***************************************************************************)
THEOREM PidsStayOwned == Spec => []PidsOwned
<1>1. Init => PidsOwned
  BY SchedulerAssumption DEF Init, TasksCreated, PidsOwned
<1>2. TypedInv /\ PidsOwned /\ [Next]_vars => PidsOwned'
  BY PidsStep
<1>. QED  BY <1>1, <1>2, TypedInvariant, PTL DEF Spec
=============================================================================
