------------------------------ MODULE PhysPages ------------------------------
(***************************************************************************)
(* Physical pages: what setup_kernel_memory.c makes of the BIOS map at     *)
(* boot, the chunks and reference counts of phys_page_manager2.c and the   *)
(* free list of free_phys_pages.c, with the calls that take and drop       *)
(* references.  All of it runs in the kernel with interrupts off.          *)
(*                                                                         *)
(* Addresses are small numbers; a page begins at a multiple of             *)
(* SIZEOF_PAGE.  An operator directly above another and named after it is  *)
(* that operator with a mistake in it.                                     *)
(***************************************************************************)
EXTENDS Integers, FiniteSets, SequencesExt

CONSTANTS
  SIZEOF_PAGE,
  Maps,             \* BIOS maps: sequences of [base, length, type]
  Kernels,          \* where the kernel may lie: <<p_kern_start, p_kern_end>>
  Requests,         \* numbers of pages asked for
  KmallocMayFail,   \* whether there may be no memory for a list node
  MaxRefs           \* bound: references to a page

ASSUME PhysAssumption ==
  /\ SIZEOF_PAGE \in Nat \ {0}
  /\ Requests \subseteq Nat \ {0}
  /\ KmallocMayFail \in BOOLEAN /\ MaxRefs \in Nat

VARIABLES
  phase,        \* "boot", "up", or "failed": setup_kernel_memory returned -1
  chunks,       \* chunk_list: the whole pages of the usable entries
  refcount,     \* of every page of a chunk
  free_list,    \* phys_free_list: sequence of [addr, count]
  used,         \* ghost: the address ranges in use before the list was made
  held,         \* ghost: the references the users of pages hold
  leaked,       \* ghost: references v_alloc_page(s)_at_virt took for nobody
  lost          \* ghost: pages free_phys_page had no list node for

vars == <<phase, chunks, refcount, free_list, used, held, leaked, lost>>

Init ==
  /\ phase = "boot"
  /\ chunks = <<>> /\ free_list = <<>> /\ used = <<>>
  /\ refcount = <<>> /\ held = <<>> /\ leaked = <<>>
  /\ lost = {}
-----------------------------------------------------------------------------
PageDown(a) == a - (a % SIZEOF_PAGE)
PageUp(a) == PageDown(a + SIZEOF_PAGE - 1)
PagesOf(a, b) == {p \in a .. b - 1 : p % SIZEOF_PAGE = 0}

(***************************************************************************)
(* new_chunk for a map entry; it returns NULL when no whole page is left.  *)
(***************************************************************************)
new_chunk(e) == [start |-> PageUp(e.base), end |-> PageDown(e.base + e.length)]

ChunkPages(c) == PagesOf(c.start, c.end)

(***************************************************************************)
(* inc_ref_count_pages over a range: the pages it counts up.               *)
(***************************************************************************)
CountedWhole(r) == PagesOf(PageDown(r[1]), PageDown(r[2]))
Counted(r) == PagesOf(PageDown(r[1]), PageUp(r[2]))

(***************************************************************************)
(* What the counts are after the ranges of U were counted one after the    *)
(* other, and the sum a call returns: the new count of every page, and -1  *)
(* for each page of no chunk.                                              *)
(***************************************************************************)
CountAfter(U, p) == Cardinality({i \in DOMAIN U : p \in Counted(U[i])})

Returned(P, U, i) ==
  MapThenSumSet(LAMBDA p : IF p \in P THEN CountAfter(SubSeq(U, 1, i), p) ELSE -1,
                Counted(U[i]))

(***************************************************************************)
(* init_free_phys_page_manager: the runs of pages with count 0 of each     *)
(* chunk, in the order of the chunk list.                                  *)
(***************************************************************************)
Runs(c, count) ==
  LET unused == {p \in ChunkPages(c) : count[p] = 0}
      starts == {p \in unused : p - SIZEOF_PAGE \notin unused}
      run(p) == {q \in unused : q >= p /\ PagesOf(p, q) \subseteq unused}
      sorted == SetToSortSeq(starts, <)
  IN  [i \in DOMAIN sorted |->
         [addr |-> sorted[i], count |-> Cardinality(run(sorted[i]))]]

(***************************************************************************)
(* setup_kernel_memory with a BIOS map and the kernel at k.  Page 0, the   *)
(* kernel and the first usable entry ("lower chunk") are counted as used.  *)
(***************************************************************************)
Boot(map, k) ==
  LET usable == SelectSeq(map, LAMBDA e : e.type = 1 /\ e.length # 0)
      C == [i \in DOMAIN usable |-> new_chunk(usable[i])]
      P == UNION {ChunkPages(C[i]) : i \in DOMAIN C}
      U == <<<<0, SIZEOF_PAGE>>, k,
             IF usable = <<>> THEN <<0, 0>>
             ELSE <<usable[1].base, usable[1].base + usable[1].length>>>>
      count == [p \in P |-> CountAfter(U, p)]
      ok == /\ \A i \in DOMAIN C : C[i].start < C[i].end
            /\ \A i \in DOMAIN U : Returned(P, U, i) >= 0
  IN  /\ phase = "boot"
      /\ \/ /\ ok
            /\ phase' = "up"
            /\ chunks' = C
            /\ refcount' = count
            /\ free_list' = FlattenSeq([i \in DOMAIN C |-> Runs(C[i], count)])
            /\ used' = U
            /\ held' = [p \in P |-> 0]
            /\ leaked' = [p \in P |-> 0]
            /\ UNCHANGED lost
         \/ /\ ~ok
            /\ phase' = "failed"
            /\ UNCHANGED <<chunks, refcount, free_list, used, held, leaked, lost>>
-----------------------------------------------------------------------------
(***************************************************************************)
(* alloc_phys_pages(n): the front of the first run that is long enough.    *)
(***************************************************************************)
Fits(L, n) == {i \in DOMAIN L : L[i].count >= n}

TakenFrom(L, n) == LET a == L[Min(Fits(L, n))].addr IN PagesOf(a, a + n * SIZEOF_PAGE)

ListWithout(L, n) ==
  LET i == Min(Fits(L, n))
  IN  IF L[i].count = n THEN RemoveAt(L, i)
      ELSE [L EXCEPT ![i] = [addr |-> @.addr + n * SIZEOF_PAGE, count |-> @.count - n]]

CountUp(f, S) == [p \in DOMAIN f |-> IF p \in S THEN f[p] + 1 ELSE f[p]]

alloc_phys_pages(n) ==
  /\ phase = "up" /\ Fits(free_list, n) # {}
  /\ free_list' = ListWithout(free_list, n)
  /\ refcount' = CountUp(refcount, TakenFrom(free_list, n))
  /\ held' = CountUp(held, TakenFrom(free_list, n))
  /\ UNCHANGED <<phase, chunks, used, leaked, lost>>

(***************************************************************************)
(* free_phys_page, the part on the list: the page at p joins the runs it   *)
(* touches, or becomes a run between prev and next, if there is memory for *)
(* a list node.                                                            *)
(***************************************************************************)
RunEnd(r) == r.addr + r.count * SIZEOF_PAGE

Position(L, p) ==
  LET after == {i \in DOMAIN L : p < L[i].addr}
  IN  IF after = {} THEN Len(L) + 1 ELSE Min(after)

TouchesPrev(L, p) == LET i == Position(L, p) IN i > 1 /\ RunEnd(L[i - 1]) = p
TouchesNext(L, p) ==
  LET i == Position(L, p) IN i <= Len(L) /\ L[i].addr = p + SIZEOF_PAGE

InsertedNextKept(L, p) ==
  LET i == Position(L, p)
  IN  CASE TouchesPrev(L, p) /\ TouchesNext(L, p) ->
             [L EXCEPT ![i - 1].count = @ + 1 + L[i].count]
        [] TouchesPrev(L, p) /\ ~TouchesNext(L, p) -> [L EXCEPT ![i - 1].count = @ + 1]
        [] ~TouchesPrev(L, p) /\ TouchesNext(L, p) ->
             [L EXCEPT ![i] = [addr |-> p, count |-> @.count + 1]]
        [] OTHER -> InsertAt(L, i, [addr |-> p, count |-> 1])
InsertedNextApart(L, p) ==
  LET i == Position(L, p)
  IN  IF TouchesPrev(L, p) THEN [L EXCEPT ![i - 1].count = @ + 1]
      ELSE InsertAt(L, i, [addr |-> p, count |-> 1])
Inserted(L, p) ==
  LET i == Position(L, p)
  IN  CASE TouchesPrev(L, p) /\ TouchesNext(L, p) ->
             RemoveAt([L EXCEPT ![i - 1].count = @ + 1 + L[i].count], i)
        [] TouchesPrev(L, p) /\ ~TouchesNext(L, p) -> [L EXCEPT ![i - 1].count = @ + 1]
        [] ~TouchesPrev(L, p) /\ TouchesNext(L, p) ->
             [L EXCEPT ![i] = [addr |-> p, count |-> @.count + 1]]
        [] OTHER -> InsertAt(L, i, [addr |-> p, count |-> 1])

(***************************************************************************)
(* free_phys_page(p) by a holder of p (munmap, v_free_page).               *)
(***************************************************************************)
free_phys_page(p) ==
  /\ phase = "up" /\ held[p] > 0
  /\ refcount' = [refcount EXCEPT ![p] = @ - 1]
  /\ held' = [held EXCEPT ![p] = @ - 1]
  /\ \/ /\ refcount'[p] > 0
        /\ UNCHANGED <<free_list, lost>>
     \/ /\ refcount'[p] = 0
        /\ free_list' = Inserted(free_list, p)
        /\ UNCHANGED lost
     \/ /\ refcount'[p] = 0 /\ KmallocMayFail
        /\ ~TouchesPrev(free_list, p) /\ ~TouchesNext(free_list, p)
        /\ lost' = lost \cup {p}
        /\ UNCHANGED free_list
  /\ UNCHANGED <<phase, chunks, used, leaked>>

(***************************************************************************)
(* inc_ref_count_page by cow_fork_level, for a page the parent maps.       *)
(***************************************************************************)
inc_ref_count_page(p) ==
  /\ phase = "up" /\ held[p] > 0 /\ refcount[p] < MaxRefs
  /\ refcount' = [refcount EXCEPT ![p] = @ + 1]
  /\ held' = [held EXCEPT ![p] = @ + 1]
  /\ UNCHANGED <<phase, chunks, free_list, used, leaked, lost>>

(***************************************************************************)
(* dec_ref_count_page by cow(), which does it only when the count is not 1.*)
(***************************************************************************)
dec_ref_count_page(p) ==
  /\ phase = "up" /\ held[p] > 0 /\ refcount[p] > 1
  /\ refcount' = [refcount EXCEPT ![p] = @ - 1]
  /\ held' = [held EXCEPT ![p] = @ - 1]
  /\ UNCHANGED <<phase, chunks, free_list, used, leaked, lost>>

(***************************************************************************)
(* v_alloc_page_get_phys_at_virt when mmap fails.  mmap then returns -1,   *)
(* and the caller tests for 0: the page is entered in the page table at    *)
(* that address and belongs to nobody.  When mmap succeeds, this is        *)
(* alloc_phys_pages(1).                                                    *)
(***************************************************************************)
v_alloc_page_fails ==
  /\ phase = "up" /\ Fits(free_list, 1) # {}
  /\ free_list' = ListWithout(free_list, 1)
  /\ refcount' = CountUp(refcount, TakenFrom(free_list, 1))
  /\ leaked' = CountUp(leaked, TakenFrom(free_list, 1))
  /\ UNCHANGED <<phase, chunks, used, held, lost>>

(***************************************************************************)
(* v_alloc_pages_at_virt(n, ...): one page after the other.  When they run *)
(* out, free_count is set to 0 before the loop that gives the pages back;  *)
(* when mmap fails, its -1 is not noticed either.                          *)
(***************************************************************************)
OneByOne(n) ==
  LET After[i \in 0..n] ==
        IF i = 0 THEN free_list ELSE ListWithout(After[i - 1], 1)
  IN  After
TakenOneByOne(n) == UNION {TakenFrom(OneByOne(n)[i - 1], 1) : i \in 1..n}

Available == MapThenSumSet(LAMBDA i : free_list[i].count, DOMAIN free_list)

v_alloc_pages_at_virt(n) ==
  LET taken == IF n <= Available THEN n ELSE Available
      pages == TakenOneByOne(taken)
  IN  /\ phase = "up"
      /\ \A p \in pages : leaked[p] = 0
      /\ free_list' = OneByOne(taken)[taken]
      /\ refcount' = CountUp(refcount, pages)
      /\ \/ /\ taken = n
            /\ held' = CountUp(held, pages)
            /\ UNCHANGED leaked
         \/ /\ leaked' = CountUp(leaked, pages)
            /\ UNCHANGED held
      /\ UNCHANGED <<phase, chunks, used, lost>>

Next ==
  \/ \E map \in Maps, k \in Kernels : Boot(map, k)
  \/ \E n \in Requests : alloc_phys_pages(n)
  \/ \E n \in Requests : v_alloc_pages_at_virt(n)
  \/ v_alloc_page_fails
  \/ \E p \in DOMAIN refcount : free_phys_page(p)
  \/ \E p \in DOMAIN refcount : inc_ref_count_page(p)
  \/ \E p \in DOMAIN refcount : dec_ref_count_page(p)

Spec == Init /\ [][Next]_vars
-----------------------------------------------------------------------------
RunPages(r) == PagesOf(r.addr, RunEnd(r))
Listed == UNION {RunPages(free_list[i]) : i \in DOMAIN free_list}

(***************************************************************************)
(* FreeExact: the free list holds every page with count 0 exactly once and *)
(* no other page, except the pages for which there was no list node.  So   *)
(* no page is handed out while somebody uses it, or to two users, and none *)
(* disappears.                                                             *)
(***************************************************************************)
FreeExact ==
  /\ Listed = {p \in DOMAIN refcount : refcount[p] = 0} \ lost
  /\ Cardinality(Listed) = Available

(***************************************************************************)
(* CountsExact: a page's count is what its users hold, what was leaked,    *)
(* and one for each range in use at boot (page 0, the kernel, the lower    *)
(* chunk) of which even one byte lies in the page: no byte of the kernel   *)
(* is ever in a page of the free list.                                     *)
(***************************************************************************)
CountsExact ==
  \A p \in DOMAIN refcount :
    refcount[p] = held[p] + leaked[p]
      + Cardinality({i \in DOMAIN used :
                       used[i][1] < p + SIZEOF_PAGE /\ p < used[i][2]})

(***************************************************************************)
(* RunsCoalesced: when the BIOS map is in the order of addresses, so is    *)
(* the free list, and two runs touch only where a chunk begins; so         *)
(* alloc_phys_pages(n) fails only if no chunk has n free pages in a row.   *)
(***************************************************************************)
RunsCoalesced ==
  (\A i \in 1..Len(chunks) - 1 : chunks[i].end <= chunks[i + 1].start)
    => \A i \in 1..Len(free_list) - 1 :
         LET next == free_list[i + 1].addr
         IN  \/ RunEnd(free_list[i]) < next
             \/ RunEnd(free_list[i]) = next /\ \E j \in DOMAIN chunks : chunks[j].start = next
=============================================================================
