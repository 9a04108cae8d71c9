------------------------------ MODULE CowMemory ------------------------------
(***************************************************************************)
(* The memory of user processes: the page fault handler                    *)
(* (sys/memory/page_fault_handler.c), the copy-on-write fork of a page     *)
(* table (cow_fork_level in page_table_helper.c), the reference counts and *)
(* the free frames (phys_page_manager2.c, free_phys_pages.c), munmap       *)
(* (mm_struct.c), exec's change of page table and the processor's TLB.     *)
(*                                                                         *)
(* A page table is a map from pages to frames; the frames that hold page   *)
(* tables are not represented: running out of them is a choice             *)
(* (TablesMayRunOut), and a new one is taken to be zero where the copy     *)
(* writes nothing, which cow_fork_level relies on and does not establish.  *)
(* Every page is inside a memory area.  One task runs at a time and a      *)
(* fault is handled with interrupts off.                                   *)
(*                                                                         *)
(* As in Scheduler, an operator directly above another and named after it  *)
(* is that operator with a mistake in it.                                  *)
(***************************************************************************)
EXTENDS Integers, FiniteSets

CONSTANTS
  Task, First,      \* the processes, and the one that runs at first
  Page, Frame,      \* virtual pages and physical pages, as page numbers
  ReadOnly,         \* the pages of areas without PAGE_TRANS_READ_WRITE
  Value, None,
  Cached,           \* the pages whose translation the TLB may hold
  TablesMayRunOut,  \* whether a fork may fail on the way
  MaxRefs           \* bound: references ever taken to a frame

ASSUME CowAssumption ==
  /\ First \in Task /\ IsFiniteSet(Task)
  /\ Page \subseteq Nat /\ IsFiniteSet(Page) /\ Frame \subseteq Nat
  /\ ReadOnly \subseteq Page /\ Cached \subseteq Page
  /\ None \notin Frame /\ None \notin Value /\ None \notin Task
  /\ TablesMayRunOut \in BOOLEAN /\ MaxRefs \in Nat

VARIABLES
  live, current,    \* the processes; the one that runs, None when none is left
  pte,              \* each process's page table: a frame or None
  rw,               \* the pages each page table allows to write
  refcount, cow,    \* of struct phys_page_t: refcount, and flag & PAGE_COW
  free,             \* the frames of phys_free_list
  mem,              \* what each frame holds
  tlb               \* pages the TLB allows to write

vars == <<live, current, pte, rw, refcount, cow, free, mem, tlb>>

NoPages == [p \in Page |-> None]
Mapped(t) == {p \in Page : pte[t][p] # None}

Init ==
  /\ live = {First} /\ current = First
  /\ pte = [t \in Task |-> NoPages]
  /\ rw = [t \in Task |-> {}]
  /\ refcount = [f \in Frame |-> 0]
  /\ cow = {}
  /\ free = Frame
  /\ mem \in [Frame -> Value]
  /\ tlb = {}
-----------------------------------------------------------------------------
(***************************************************************************)
(* sys_exit of the running task, as far as memory goes: nothing is freed   *)
(* (deep_free_task), and another task's page table is loaded.              *)
(***************************************************************************)
Exits ==
  /\ live' = live \ {current}
  /\ current' \in IF live' = {} THEN {None} ELSE live'
  /\ pte' = [pte EXCEPT ![current] = NoPages]
  /\ rw' = [rw EXCEPT ![current] = {}]
  /\ tlb' = {}

(***************************************************************************)
(* alloc_phys_pages(1): the first page of the free list, which is in the   *)
(* order of addresses.                                                     *)
(***************************************************************************)
alloc_phys_page == CHOOSE f \in free : \A g \in free : f <= g

(***************************************************************************)
(* update_curr_page_table with a frame; it also invalidates the page's     *)
(* TLB entry.                                                              *)
(***************************************************************************)
MapPage(p, f) ==
  /\ pte' = [pte EXCEPT ![current][p] = f]
  /\ rw' = [rw EXCEPT ![current] =
              IF p \in ReadOnly THEN @ \ {p} ELSE @ \cup {p}]
  /\ tlb' = tlb \ {p}

(***************************************************************************)
(* page_not_present: a frame is mapped as it is; without one the task      *)
(* exits.                                                                  *)
(***************************************************************************)
PageNotPresent(p) ==
  /\ current # None /\ pte[current][p] = None
  /\ \/ /\ free # {}
        /\ MapPage(p, alloc_phys_page)
        /\ free' = free \ {alloc_phys_page}
        /\ refcount' = [refcount EXCEPT ![alloc_phys_page] = @ + 1]
        /\ UNCHANGED <<live, current, cow, mem>>
     \/ /\ free = {}
        /\ Exits
        /\ UNCHANGED <<refcount, cow, free, mem>>

(***************************************************************************)
(* A write that the TLB or the page table allows.                          *)
(***************************************************************************)
Write(p, v) ==
  /\ current # None /\ pte[current][p] # None
  /\ p \in tlb \cup rw[current]
  /\ mem' = [mem EXCEPT ![pte[current][p]] = v]
  /\ tlb' = tlb \cup ({p} \cap Cached)
  /\ UNCHANGED <<live, current, pte, rw, refcount, cow, free>>

(***************************************************************************)
(* cow(): the only reference takes the page over; another one takes the    *)
(* count down and copies, or exits when there is no frame.                 *)
(***************************************************************************)
OnlyReferenceOfTwo(f) == refcount[f] \in {1, 2}
OnlyReference(f) == refcount[f] = 1

TakeOver(p, f) ==
  /\ cow' = cow \ {f}
  /\ MapPage(p, f)
  /\ UNCHANGED <<live, current, refcount, free, mem>>

CopyPage(p, f) ==
  \/ /\ free # {}
     /\ MapPage(p, alloc_phys_page)
     /\ mem' = [mem EXCEPT ![alloc_phys_page] = mem[f]]
     /\ free' = free \ {alloc_phys_page}
     /\ refcount' = [refcount EXCEPT ![f] = @ - 1, ![alloc_phys_page] = @ + 1]
     /\ UNCHANGED <<live, current, cow>>
  \/ /\ free = {}
     /\ Exits
     /\ refcount' = [refcount EXCEPT ![f] = @ - 1]
     /\ UNCHANGED <<cow, free, mem>>

(***************************************************************************)
(* page_present_write: in a writable area a copy-on-write page is resolved *)
(* and any other page is made writable (check_page_prot); elsewhere the    *)
(* task is ended (segfault).  A count of zero is answered with an error    *)
(* that stops the machine (isr_handler) and has no step here.              *)
(***************************************************************************)
PagePresentWrite(p) ==
  /\ current # None /\ pte[current][p] # None
  /\ p \notin tlb \cup rw[current]
  /\ LET f == pte[current][p]
     IN  \/ /\ p \notin ReadOnly
            /\ f \in cow => OnlyReference(f)
            /\ TakeOver(p, f)
         \/ /\ p \notin ReadOnly /\ f \in cow
            /\ ~OnlyReference(f) /\ refcount[f] # 0
            /\ CopyPage(p, f)
         \/ /\ p \in ReadOnly
            /\ Exits
            /\ UNCHANGED <<refcount, cow, free, mem>>
-----------------------------------------------------------------------------
(***************************************************************************)
(* cow_fork_level over the pages of S: the counts of their frames go up    *)
(* and the frames are marked ...                                           *)
(***************************************************************************)
ShareCountsMarkedOnce(S) ==
  LET shared == {pte[current][p] : p \in S}
  IN  /\ \A f \in shared : refcount[f] < MaxRefs
      /\ refcount' = [f \in Frame |-> IF f \in shared \ cow THEN refcount[f] + 1
                                                          ELSE refcount[f]]
      /\ cow' = cow \cup shared
Share(S) ==
  LET shared == {pte[current][p] : p \in S}
  IN  /\ \A f \in shared : refcount[f] < MaxRefs
      /\ refcount' = [f \in Frame |-> IF f \in shared THEN refcount[f] + 1
                                                    ELSE refcount[f]]
      /\ cow' = cow \cup shared

(***************************************************************************)
(* ... and the parent's own entries lose the write bit.  The TLB is left   *)
(* alone.                                                                  *)
(***************************************************************************)
WritableAfterKept(S) == rw[current]
WritableAfter(S) == rw[current] \ S

Fork(c) ==
  /\ current # None /\ c \notin live
  /\ Share(Mapped(current))
  /\ pte' = [pte EXCEPT ![c] = pte[current]]
  /\ rw' = [rw EXCEPT ![current] = WritableAfter(Mapped(current)), ![c] = {}]
  /\ live' = live \cup {c}
  /\ UNCHANGED <<current, free, mem, tlb>>

(***************************************************************************)
(* A fork that fails after the pages up to "last", for want of a table or, *)
(* after all pages, of the child's mm_struct: what was done stays.         *)
(***************************************************************************)
ForkFails(last) ==
  /\ TablesMayRunOut /\ current # None
  /\ LET done == {p \in Mapped(current) : p <= last}
     IN  /\ Share(done)
         /\ rw' = [rw EXCEPT ![current] = WritableAfter(done)]
  /\ UNCHANGED <<live, current, pte, free, mem, tlb>>

(***************************************************************************)
(* munmap of an area whose first whole page is "first".  The loop adds     *)
(* PAGE_ALIGN, which is minus one page, so it unmaps every page from there *)
(* down.  free_phys_page frees a frame with its last reference.            *)
(***************************************************************************)
Munmap(first) ==
  /\ current # None
  /\ LET gone   == {p \in Mapped(current) : p <= first}
         frames == {pte[current][p] : p \in gone}
     IN  /\ pte' = [pte EXCEPT ![current] =
                      [p \in Page |-> IF p \in gone THEN None ELSE @[p]]]
         /\ rw' = [rw EXCEPT ![current] = @ \ gone]
         /\ refcount' = [f \in Frame |->
                           IF f \in frames THEN refcount[f] - 1 ELSE refcount[f]]
         /\ free' = free \cup {f \in frames : refcount[f] = 1}
         /\ tlb' = tlb \ gone
  /\ UNCHANGED <<live, current, cow, mem>>

(***************************************************************************)
(* sys_execvpe: a page table without user pages; the old one is dropped    *)
(* with its counts.                                                        *)
(***************************************************************************)
Exec ==
  /\ current # None
  /\ pte' = [pte EXCEPT ![current] = NoPages]
  /\ rw' = [rw EXCEPT ![current] = {}]
  /\ tlb' = {}
  /\ UNCHANGED <<live, current, refcount, cow, free, mem>>

Exit ==
  /\ current # None
  /\ Exits
  /\ UNCHANGED <<refcount, cow, free, mem>>

(***************************************************************************)
(* sys_yield: set_cr3 loads the next task's page table, which empties the  *)
(* TLB.                                                                    *)
(***************************************************************************)
Switch ==
  /\ current' \in live
  /\ tlb' = {}
  /\ UNCHANGED <<live, pte, rw, refcount, cow, free, mem>>

Next ==
  \/ \E p \in Page : PageNotPresent(p)
  \/ \E p \in Page : PagePresentWrite(p)
  \/ \E p \in Page, v \in Value : Write(p, v)
  \/ \E c \in Task : Fork(c)
  \/ \E p \in Page : ForkFails(p)
  \/ \E p \in Page : Munmap(p)
  \/ Exec
  \/ Exit
  \/ Switch

Spec == Init /\ [][Next]_vars
-----------------------------------------------------------------------------
References(f) == {r \in live \X Page : pte[r[1]][r[2]] = f}

(***************************************************************************)
(* CountsCover: refcount is at least the number of entries that map the    *)
(* frame, and a frame on the free list is mapped by nobody, although exits *)
(* and failed forks never take their references back.  So a count of one   *)
(* in cow() means a single owner, and no frame is handed out twice.        *)
(***************************************************************************)
CountsCover ==
  \A f \in Frame :
    /\ Cardinality(References(f)) <= refcount[f]
    /\ f \in free => refcount[f] = 0

(***************************************************************************)
(* SharedReadOnly: a frame that two entries map is marked copy-on-write    *)
(* and neither entry allows a write, so that the first write faults.       *)
(***************************************************************************)
SharedReadOnly ==
  \A t, u \in live : \A p, q \in Page :
    <<t, p>> # <<u, q>> /\ pte[t][p] # None /\ pte[t][p] = pte[u][q]
      => pte[t][p] \in cow /\ p \notin rw[t]

(***************************************************************************)
(* What a process sees, and the specification it is to implement.          *)
(***************************************************************************)
View ==
  [t \in Task |-> [p \in Page |->
     IF pte[t][p] # None THEN mem[pte[t][p]] ELSE None]]

Private == INSTANCE PrivateMemory WITH memory <- View

(***************************************************************************)
(* ImplementsPrivateMemory: demand paging, sharing after fork, late        *)
(* copying and taking over of pages show as private memory that fork       *)
(* copies.                                                                 *)
(***************************************************************************)
ImplementsPrivateMemory == Private!Spec

(***************************************************************************)
(* OthersUntouched: no step of one process changes what another one sees.  *)
(* It needs the TLB to follow the page table ("After modifications in page *)
(* table, invalidate Translation-Lookaside Buffer", page_table_helper.h),  *)
(* which cow_fork_level does not see to.                                   *)
(***************************************************************************)
OthersUntouched ==
  [][ \A t \in live \cap live' : t # current => View'[t] = View[t] ]_vars
=============================================================================
