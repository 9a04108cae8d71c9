------------------------------- MODULE VmAreas -------------------------------
(***************************************************************************)
(* The memory areas (struct vm_area_struct) of the processes and of the    *)
(* kernel: sys/memory/mm_struct.c, with setup_kernel_memory.c, which lays  *)
(* out the kernel, exec.c and parseelf.c, which lay out a process,         *)
(* sys_malloc.c, the mmap system calls and the part of the page fault      *)
(* handler that looks up and grows areas.  Every list is kept in the order *)
(* of addresses.  All of it runs with interrupts off.                      *)
(*                                                                         *)
(* An operator directly above another and named after it is that operator  *)
(* with a mistake in it.                                                   *)
(***************************************************************************)
EXTENDS Integers, Sequences

CONSTANTS
  Task, First, Kernel,     \* the processes, the first one, and the kernel's list
  SIZEOF_PAGE,
  ADDRESSES,               \* addresses are 0 .. ADDRESSES - 1 (2^64)
  start_kernel,            \* kernmem: user addresses are below
  StackBase,               \* where a stack is asked for (0x70000000)
  MALLOC_START_ADDR,
  Layouts,                 \* [kern_end, vdo, phys_end] that the kernel may meet
  Programs,                \* [text, data], each [addr, size]
  ArgSizes,                \* sizes of the blocks exec copies its arguments into
  Limits,                  \* values of rlimit_cur[RLIMIT_STACK]/SIZEOF_PAGE
  Hints, Lengths, Flags,   \* arguments of mmap
  MaxChanges               \* bound: calls and faults that add, drop or grow areas

Unlimited == -1            \* max_size (uint64_t)-1

ASSUME VmAssumption ==
  /\ First \in Task /\ Kernel \notin Task
  /\ SIZEOF_PAGE \in Nat \ {0}
  /\ ADDRESSES \in Nat /\ start_kernel \in Nat
  /\ start_kernel + SIZEOF_PAGE < ADDRESSES
  /\ StackBase \in Nat /\ StackBase < start_kernel
  /\ MALLOC_START_ADDR \in Nat /\ MALLOC_START_ADDR < ADDRESSES
  /\ \A l \in Layouts : l \in [kern_end : Nat, vdo : Nat, phys_end : Nat]
  /\ \A p \in Programs : p \in [text : [addr : Nat, size : Nat],
                                data : [addr : Nat, size : Nat]]
  /\ ArgSizes \in [1..4 -> Nat]
  /\ \A n \in Limits : n \in Nat /\ n * SIZEOF_PAGE <= StackBase
  /\ \A h \in Hints : h \in Nat
  /\ \A n \in Lengths : n \in Nat
  /\ Flags \subseteq {{}, {"up"}}    \* no program passes MAP_GROWSDOWN
  /\ MaxChanges \in Nat

VARIABLES
  live,     \* the processes; the kernel's list is in use after Boot
  mmap,     \* the areas of every process and of the kernel
  grown,    \* ghost: list and address of the fault just served by growing
  changes   \* ghost: how many changes there were, for the bound

vars == <<live, mmap, grown, changes>>

None == <<>>

Change == changes < MaxChanges /\ changes' = changes + 1

Init ==
  /\ live = {}
  /\ mmap = [s \in Task \cup {Kernel} |-> <<>>]
  /\ grown = None
  /\ changes = 0
-----------------------------------------------------------------------------
(***************************************************************************)
(* Unsigned arithmetic on addresses.                                       *)
(***************************************************************************)
Plus(a, b) == IF a + b < ADDRESSES THEN a + b ELSE a + b - ADDRESSES
Minus(a, b) == IF a >= b THEN a - b ELSE a - b + ADDRESSES

Least(S) == CHOOSE i \in S : \A j \in S : i <= j

(***************************************************************************)
(* find_vma: the first area that ends behind addr.  When there is none the *)
(* list's head is returned, as if it were an area: position Len(L) + 1.    *)
(***************************************************************************)
find_vma(L, addr) ==
  Least({i \in 1..Len(L) + 1 : i <= Len(L) => addr < L[i].vm_end})

(***************************************************************************)
(* get_unmapped_area goes on from there while the gap before an area is    *)
(* not larger than len.                                                    *)
(***************************************************************************)
get_unmapped_area(L, start_addr, len) ==
  LET i0 == find_vma(L, start_addr)
      addr(i) == IF i = i0 THEN start_addr ELSE L[i - 1].vm_end
  IN  addr(Least({i \in i0..Len(L) + 1 :
                    i <= Len(L) => Plus(addr(i), len) < L[i].vm_start}))

(***************************************************************************)
(* The places of the list where add_vma_growable may insert; it returns -1 *)
(* when there is none.                                                     *)
(***************************************************************************)
PlacesLoose(L, start, end) ==
  {i \in 1..Len(L) + 1 : /\ start < end
                         /\ i > 1 => start >= L[i - 1].vm_end}
Places(L, start, end) ==
  {i \in 1..Len(L) + 1 : /\ start < end
                         /\ i > 1 => start >= L[i - 1].vm_end
                         /\ i <= Len(L) => end <= L[i].vm_start}

InsertBefore(L, i, area) ==
  [j \in 1..Len(L) + 1 |-> IF j < i THEN L[j] ELSE IF j = i THEN area ELSE L[j - 1]]

add_vma_growable(L, start, end, flags, max_size) ==
  IF Places(L, start, end) = {} THEN L
  ELSE InsertBefore(L, Least(Places(L, start, end)),
         [vm_start |-> start, vm_end |-> end, vm_flags |-> flags, max_size |-> max_size])

mmap_growable(L, addr, len, flags, max_size) ==
  LET start == get_unmapped_area(L, addr, len)
  IN  add_vma_growable(L, start, Plus(start, len), flags, max_size)

Mmap(L, addr, len, flags) == mmap_growable(L, addr, len, flags, Unlimited)
-----------------------------------------------------------------------------
(***************************************************************************)
(* setup_kernel_memory: the kernel, a page of video memory, a page for the *)
(* AHCI controller and all of physical memory.                             *)
(***************************************************************************)
KernelAreas(l) ==
  LET add(L, start, end) == add_vma_growable(L, start, end, {}, Unlimited)
      kernel == add(<<>>, start_kernel, l.kern_end)
      vdo  == get_unmapped_area(kernel, Plus(start_kernel, l.vdo), SIZEOF_PAGE)
      video  == add(kernel, vdo, Plus(vdo, SIZEOF_PAGE))
      ahci == get_unmapped_area(video, start_kernel, SIZEOF_PAGE)
      device == add(video, ahci, Plus(ahci, SIZEOF_PAGE))
      phys == get_unmapped_area(device, start_kernel, l.phys_end)
  IN  add(device, phys, Plus(phys, l.phys_end))

(***************************************************************************)
(* Booting succeeds when all four areas could be added.                    *)
(***************************************************************************)
Boot(l) ==
  /\ mmap[Kernel] = <<>>
  /\ Len(KernelAreas(l)) = 4
  /\ mmap' = [mmap EXCEPT ![Kernel] = KernelAreas(l)]
  /\ grown' = None
  /\ UNCHANGED <<live, changes>>

(***************************************************************************)
(* v_alloc_pages(1), for the stack a task has in the kernel.               *)
(***************************************************************************)
KernelStack(L) == Mmap(L, start_kernel, SIZEOF_PAGE, {})

(***************************************************************************)
(* load_elf maps the segments of a program into an empty list (do_mmap);   *)
(* then a page of stack is mapped, which may grow down to the limit, and   *)
(* blocks for the arguments, here of a program given its name and an empty *)
(* environment: struct userspace_args, argv, the name, envp.               *)
(***************************************************************************)
Loaded(prog) ==
  Mmap(Mmap(<<>>, prog.text.addr, prog.text.size, {}),
       prog.data.addr, prog.data.size, {})

WithStack(L, limit) == mmap_growable(L, StackBase, SIZEOF_PAGE, {"down"}, limit)

Malloc(L, size) == Mmap(L, MALLOC_START_ADDR, size, {})

WithArgs(L) ==
  Malloc(Malloc(Malloc(Malloc(L, ArgSizes[1]), ArgSizes[2]), ArgSizes[3]), ArgSizes[4])

(***************************************************************************)
(* createTask of the first process, when the kernel has its boot areas.    *)
(***************************************************************************)
Create(prog, limit) ==
  /\ Len(mmap[Kernel]) = 4
  /\ live' = {First}
  /\ mmap' = [mmap EXCEPT ![First] = WithStack(Loaded(prog), limit),
                          ![Kernel] = KernelStack(@)]
  /\ grown' = None
  /\ UNCHANGED changes

(***************************************************************************)
(* sys_execvpe of a program that is there; otherwise the old list is put   *)
(* back and nothing changes.                                               *)
(***************************************************************************)
Exec(t, prog, limit) ==
  /\ t \in live
  /\ mmap' = [mmap EXCEPT ![t] = WithArgs(WithStack(Loaded(prog), limit))]
  /\ grown' = None
  /\ UNCHANGED <<live, changes>>

(***************************************************************************)
(* sys_fork: a stack in the kernel, then a copy of the list (copy_vmas).   *)
(* A fork that fails leaves the kernel's area behind.                      *)
(***************************************************************************)
Fork(t, c) ==
  /\ Change
  /\ t \in live /\ c \notin live
  /\ live' = live \cup {c}
  /\ mmap' = [mmap EXCEPT ![c] = mmap[t], ![Kernel] = KernelStack(@)]
  /\ grown' = None

ForkFails(t) ==
  /\ Change
  /\ t \in live
  /\ mmap' = [mmap EXCEPT ![Kernel] = KernelStack(@)]
  /\ grown' = None
  /\ UNCHANGED live

(***************************************************************************)
(* sys_mmap and sys_malloc.                                                *)
(***************************************************************************)
SysMmap(t, addr, len, flags) ==
  /\ Change
  /\ t \in live
  /\ mmap' = [mmap EXCEPT ![t] = Mmap(@, addr, len, flags)]
  /\ grown' = None
  /\ UNCHANGED live

SysMalloc(t, size) ==
  /\ Change
  /\ t \in live
  /\ mmap' = [mmap EXCEPT ![t] = Malloc(@, size)]
  /\ grown' = None
  /\ UNCHANGED live

(***************************************************************************)
(* sys_munmap and sys_free of an address inside the i-th area.  (With any  *)
(* other address munmap frees an area it leaves on the list.)              *)
(***************************************************************************)
Munmap(t, i) ==
  /\ Change
  /\ t \in live /\ i \in DOMAIN mmap[t]
  /\ mmap' = [mmap EXCEPT ![t] =
                [j \in 1..Len(@) - 1 |-> IF j < i THEN @[j] ELSE @[j + 1]]]
  /\ grown' = None
  /\ UNCHANGED live
-----------------------------------------------------------------------------
(***************************************************************************)
(* Whether find_vma_intersection finds an area.  Where find_vma returns    *)
(* the list's head, the answer is whatever precedes the head in memory.    *)
(***************************************************************************)
find_vma_intersection(L, start, end) ==
  LET i == find_vma(L, start)
  IN  IF i > Len(L) THEN BOOLEAN ELSE {end > L[i].vm_start}

Contains(area, a) == area.vm_start <= a /\ a < area.vm_end

(***************************************************************************)
(* The areas next to the fault address, as the loop of page_fault_handler  *)
(* leaves them in prev and next.                                           *)
(***************************************************************************)
IsPrev(L, i, a) ==
  /\ i \in DOMAIN L /\ a >= L[i].vm_end
  /\ \A j \in DOMAIN L : j > i => a < L[j].vm_end
IsNext(L, i, a) ==
  /\ i \in DOMAIN L /\ a < L[i].vm_start
  /\ \A j \in DOMAIN L : j < i => a >= L[j].vm_start

(***************************************************************************)
(* grow_vma_up and grow_vma_down: whether the i-th area may grow by a page *)
(* to hold address a, when there is an area in the way or not (hit).       *)
(***************************************************************************)
grow_vma_up(L, i, a, hit) ==
  LET prev == L[i]
  IN  /\ "up" \in prev.vm_flags
      /\ a - prev.vm_end < SIZEOF_PAGE
      /\ prev.max_size # Unlimited => a - prev.vm_start < prev.max_size * SIZEOF_PAGE
      /\ ~hit

grow_vma_downTwice(L, i, a, hit) ==
  LET next == L[i]
  IN  /\ "down" \in next.vm_flags
      /\ next.vm_start - a <= 2 * SIZEOF_PAGE
      /\ next.max_size # Unlimited => next.vm_end - a < next.max_size * SIZEOF_PAGE
      /\ ~hit
grow_vma_downOneMore(L, i, a, hit) ==
  LET next == L[i]
  IN  /\ "down" \in next.vm_flags
      /\ next.vm_start - a <= SIZEOF_PAGE
      /\ next.max_size # Unlimited => next.vm_end - a <= next.max_size * SIZEOF_PAGE + 1
      /\ ~hit
grow_vma_down(L, i, a, hit) ==
  LET next == L[i]
  IN  /\ "down" \in next.vm_flags
      /\ next.vm_start - a <= SIZEOF_PAGE
      /\ next.max_size # Unlimited => next.vm_end - a < next.max_size * SIZEOF_PAGE
      /\ ~hit

UpHit(L, i) == find_vma_intersection(L, L[i].vm_end, Plus(L[i].vm_end, SIZEOF_PAGE))
DownHit(L, i) ==
  find_vma_intersection(L, Minus(L[i].vm_start, SIZEOF_PAGE), L[i].vm_start)

(***************************************************************************)
(* page_fault_handler for an address of no area and a page not present:    *)
(* the area before the address grows up, or else the one behind it grows   *)
(* down, or else the process is ended (segfault).  Addresses of the kernel *)
(* are looked up in the kernel's list, where nothing grows.                *)
(***************************************************************************)
ListOf(t, a) == IF a >= start_kernel THEN Kernel ELSE t

Outside(L, a) == \A i \in DOMAIN L : ~Contains(L[i], a)

FaultGrowsUp(t, a, i) ==
  LET s == ListOf(t, a)
      L == mmap[s]
  IN  /\ Change
      /\ t \in live /\ Outside(L, a) /\ IsPrev(L, i, a)
      /\ \E hit \in UpHit(L, i) : grow_vma_up(L, i, a, hit)
      /\ mmap' = [mmap EXCEPT ![s] =
                    [L EXCEPT ![i].vm_end = Plus(@, SIZEOF_PAGE)]]
      /\ grown' = <<s, a>>
      /\ UNCHANGED live

(***************************************************************************)
(* Neither of the two, for some outcome of the look-up in UpHit.           *)
(***************************************************************************)
NotUp(L, a) ==
  \A i \in DOMAIN L :
    IsPrev(L, i, a) => \E hit \in UpHit(L, i) : ~grow_vma_up(L, i, a, hit)

FaultGrowsDown(t, a, i) ==
  LET s == ListOf(t, a)
      L == mmap[s]
  IN  /\ Change
      /\ t \in live /\ Outside(L, a) /\ NotUp(L, a) /\ IsNext(L, i, a)
      /\ \E hit \in DownHit(L, i) : grow_vma_down(L, i, a, hit)
      /\ mmap' = [mmap EXCEPT ![s] =
                    [L EXCEPT ![i].vm_start = Minus(@, SIZEOF_PAGE)]]
      /\ grown' = <<s, a>>
      /\ UNCHANGED live

Ended(t) ==
  /\ live' = live \ {t}
  /\ mmap' = [mmap EXCEPT ![t] = <<>>]
  /\ grown' = None
  /\ UNCHANGED changes

Segfault(t, a) ==
  LET L == mmap[ListOf(t, a)]
  IN  /\ t \in live /\ Outside(L, a) /\ NotUp(L, a)
      /\ \A i \in DOMAIN L :
           IsNext(L, i, a) => \E hit \in DownHit(L, i) : ~grow_vma_down(L, i, a, hit)
      /\ Ended(t)

Exit(t) == t \in live /\ Ended(t)

Next ==
  \/ \E l \in Layouts : Boot(l)
  \/ \E p \in Programs, n \in Limits : Create(p, n)
  \/ \E t \in Task, p \in Programs, n \in Limits : Exec(t, p, n)
  \/ \E t, c \in Task : Fork(t, c)
  \/ \E t \in Task : ForkFails(t)
  \/ \E t \in Task, a \in Hints, n \in Lengths, f \in Flags : SysMmap(t, a, n, f)
  \/ \E t \in Task, n \in Lengths : SysMalloc(t, n)
  \/ \E t \in Task : \E i \in DOMAIN mmap[t] : Munmap(t, i)
  \/ \E t \in Task, a \in 0..ADDRESSES - 1 :
       \E i \in DOMAIN mmap[ListOf(t, a)] : FaultGrowsUp(t, a, i)
  \/ \E t \in Task, a \in 0..ADDRESSES - 1 :
       \E i \in DOMAIN mmap[ListOf(t, a)] : FaultGrowsDown(t, a, i)
  \/ \E t \in Task, a \in 0..ADDRESSES - 1 : Segfault(t, a)
  \/ \E t \in Task : Exit(t)

Spec == Init /\ [][Next]_vars
-----------------------------------------------------------------------------
InOrder(L) ==
  /\ \A i \in DOMAIN L : L[i].vm_start < L[i].vm_end
  /\ \A i, j \in DOMAIN L : i < j => L[i].vm_end <= L[j].vm_start

(***************************************************************************)
(* AreasInOrder: the areas of a process, and those of the kernel, are not  *)
(* empty, do not overlap and stand in the order of addresses, whatever is  *)
(* mapped, unmapped, loaded or grown, although find_vma may return the     *)
(* list's head and sums may wrap; find_vma, add_vma_growable and the fault *)
(* handler rely on it.                                                     *)
(***************************************************************************)
AreasInOrder == \A s \in Task \cup {Kernel} : InOrder(mmap[s])

(***************************************************************************)
(* StackBounded: an area that grows down never has more pages than the     *)
(* stack limit at the time of exec, or the one page it began with.         *)
(***************************************************************************)
StackBounded ==
  \A t \in Task : \A i \in DOMAIN mmap[t] :
    LET a == mmap[t][i]
    IN  "down" \in a.vm_flags =>
          \/ a.vm_end - a.vm_start <= SIZEOF_PAGE
          \/ a.vm_end - a.vm_start <= a.max_size * SIZEOF_PAGE

(***************************************************************************)
(* GrownCovers: an area that grew for a fault holds the address of the     *)
(* fault, so that the page then mapped belongs to an area.                 *)
(***************************************************************************)
GrownCovers ==
  grown # None => \E i \in DOMAIN mmap[grown[1]] : Contains(mmap[grown[1]][i], grown[2])
=============================================================================
