------------------------------ MODULE KernelHeap ------------------------------
(***************************************************************************)
(* The kernel heap, sys/memory/kmalloc.c.  Every block begins with a       *)
(* struct free_list; the free blocks are linked through free_addr in the   *)
(* order of addresses from head.  A header is memory: an allocated block   *)
(* keeps the link and the size that were written into it, and kfree uses   *)
(* them.  kmalloc and kfree run in the kernel with interrupts off, so each *)
(* is one step.                                                            *)
(*                                                                         *)
(* Two things leave the list unsound, both once the heap has run out:      *)
(* kfree keeps an old link in the block it puts at the end of the list,    *)
(* and pages that join as a block of their own count their header as free. *)
(* The model shows the step that does it, in spoilt, and ends there: what  *)
(* the heap does next is read from what clients have written.              *)
(*                                                                         *)
(* Addresses are small numbers, NULL is 0.  An operator directly above     *)
(* another and named after it is that operator with a mistake in it.       *)
(***************************************************************************)
EXTENDS Integers, FiniteSets, SequencesExt

CONSTANTS
  FL_SIZE,          \* sizeof(struct free_list)
  KM_STATIC_SIZE,   \* the size of km_static
  KM_PAGES_ADD,     \* the size of what v_alloc_pages_at_virt adds
  Bytes,            \* the sizes asked for
  Gaps,             \* how far behind last_km_addr the added pages may lie
  MaxGrowth         \* bound: how often there are frames to add

ASSUME HeapAssumption ==
  /\ FL_SIZE \in Nat \ {0} /\ KM_PAGES_ADD > FL_SIZE
  /\ KM_STATIC_SIZE > FL_SIZE
  /\ Bytes \subseteq Nat \ {0} /\ Gaps \subseteq Nat
  /\ MaxGrowth \in Nat

NULL == 0
km_static == 1
Address ==
  km_static .. km_static + KM_STATIC_SIZE
                + MaxGrowth * (KM_PAGES_ADD + Max(Gaps)) + FL_SIZE

VARIABLES
  heap,               \* head, and the headers in memory: free_addr, free_size
  last_km_addr,
  deviceMemorySetUp,
  live,               \* ghost: the blocks clients hold, with the bytes asked for
  grown,              \* ghost: how often pages were added
  spoilt              \* ghost: the list has an old link or a wrong size in it

vars == <<heap, last_km_addr, deviceMemorySetUp, live, grown, spoilt>>

(***************************************************************************)
(* init_static_pages, by the first kmalloc: one free block.                *)
(***************************************************************************)
Init ==
  /\ heap = [head      |-> km_static,
             free_addr |-> [a \in Address |-> NULL],
             free_size |-> [a \in Address |->
                IF a = km_static THEN KM_STATIC_SIZE - FL_SIZE ELSE 0]]
  /\ last_km_addr = km_static + KM_STATIC_SIZE
  /\ deviceMemorySetUp = FALSE
  /\ live = {}
  /\ grown = 0
  /\ spoilt = FALSE
-----------------------------------------------------------------------------
(***************************************************************************)
(* The free list of heap h, cut off after as many blocks as there may be.  *)
(***************************************************************************)
MaxBlocks == Max(Address) \div FL_SIZE

FreeList(h) ==
  LET From[n \in 0..MaxBlocks, node \in Address \cup {NULL}] ==
        IF n = 0 \/ node = NULL THEN <<>>
        ELSE <<node>> \o From[n - 1, h.free_addr[node]]
  IN  From[MaxBlocks, h.head]

(***************************************************************************)
(* The link that precedes the i-th block of the list L, set to node.       *)
(***************************************************************************)
Link(h, L, i, node) ==
  IF i = 1 THEN [h EXCEPT !.head = node]
           ELSE [h EXCEPT !.free_addr[L[i - 1]] = node]

End(h, node) == node + FL_SIZE + h.free_size[node]

(***************************************************************************)
(* The loop of kmalloc takes the first block that is large enough.         *)
(***************************************************************************)
Fitting(h, bytes) ==
  LET L == FreeList(h) IN {i \in DOMAIN L : h.free_size[L[i]] >= bytes}

Splits(h, node, bytes) == h.free_size[node] - bytes > FL_SIZE

TakeOverHeader(h, L, i, bytes) ==
  LET node == L[i]
      next == node + bytes
  IN  IF Splits(h, node, bytes)
      THEN Link([h EXCEPT !.free_addr[next] = h.free_addr[node],
                          !.free_size[next] = h.free_size[node] - bytes - FL_SIZE,
                          !.free_size[node] = bytes], L, i, next)
      ELSE Link(h, L, i, h.free_addr[node])
Take(h, L, i, bytes) ==
  LET node == L[i]
      next == node + FL_SIZE + bytes
  IN  IF Splits(h, node, bytes)
      THEN Link([h EXCEPT !.free_addr[next] = h.free_addr[node],
                          !.free_size[next] = h.free_size[node] - bytes - FL_SIZE,
                          !.free_size[node] = bytes], L, i, next)
      ELSE Link(h, L, i, h.free_addr[node])

(***************************************************************************)
(* The pages at address virt join the list: the last block grows when they *)
(* follow it, and otherwise they are a block of their own, whose size is   *)
(* not reduced by its header.                                              *)
(***************************************************************************)
Follows(h, virt) == LET L == FreeList(h) IN L # <<>> /\ virt = End(h, Last(L))

AddPages(h, virt) ==
  LET L == FreeList(h)
      asBlock == [h EXCEPT !.free_addr[virt] = NULL, !.free_size[virt] = KM_PAGES_ADD]
  IN  CASE L = <<>> -> [asBlock EXCEPT !.head = virt]
        [] Follows(h, virt) -> [h EXCEPT !.free_size[Last(L)] = @ + KM_PAGES_ADD]
        [] OTHER -> [asBlock EXCEPT !.free_addr[Last(L)] = virt]

(***************************************************************************)
(* The heap after kmalloc has called itself n times, each time with pages  *)
(* added gap behind the last ones.                                         *)
(***************************************************************************)
AddedAt(n, gap) == last_km_addr + (n - 1) * KM_PAGES_ADD + n * gap

Grown(gap) ==
  LET After[n \in 0..MaxGrowth] ==
        IF n = 0 THEN heap ELSE AddPages(After[n - 1], AddedAt(n, gap))
  IN  After

Miscounted(n, gap) == \E m \in 1..n : ~Follows(Grown(gap)[m - 1], AddedAt(m, gap))

(***************************************************************************)
(* kmalloc(bytes) that finds a block, in the end.                          *)
(***************************************************************************)
kmalloc(bytes, gap) ==
  \E n \in 0..MaxGrowth - grown :
    LET h == Grown(gap)[n]
        L == FreeList(h)
        i == Min(Fitting(h, bytes))
    IN  /\ ~spoilt
        /\ n > 0 => deviceMemorySetUp
        /\ \A m \in 0..n - 1 : Fitting(Grown(gap)[m], bytes) = {}
        /\ Fitting(h, bytes) # {}
        /\ heap' = Take(h, L, i, bytes)
        /\ live' = live \cup {<<L[i], bytes>>}
        /\ grown' = grown + n
        /\ spoilt' = Miscounted(n, gap)
        /\ last_km_addr' = IF n = 0 THEN last_km_addr
                                    ELSE AddedAt(n, gap) + KM_PAGES_ADD
        /\ UNCHANGED deviceMemorySetUp

(***************************************************************************)
(* kmalloc(bytes) that returns NULL when there are no pages to add.  The   *)
(* pages added before stay; last_km_addr is computed from the address 0    *)
(* that v_alloc_pages_at_virt returns before it is compared with 0.        *)
(***************************************************************************)
kmalloc_fails(bytes, gap) ==
  LET n == MaxGrowth - grown
  IN  /\ ~spoilt
      /\ deviceMemorySetUp
      /\ \A m \in 0..n : Fitting(Grown(gap)[m], bytes) = {}
      /\ heap' = Grown(gap)[n]
      /\ grown' = MaxGrowth
      /\ spoilt' = Miscounted(n, gap)
      /\ last_km_addr' = KM_PAGES_ADD
      /\ UNCHANGED <<deviceMemorySetUp, live>>
-----------------------------------------------------------------------------
(***************************************************************************)
(* kfree: the block goes between the free blocks around it, pp and cp, and *)
(* is merged with each that it touches.  With no free block behind it, it  *)
(* keeps the link in its header.  A header that has become part of another *)
(* block is not read again and is blank here.                              *)
(***************************************************************************)
Blank(h, node) == [h EXCEPT !.free_addr[node] = NULL, !.free_size[node] = 0]

MergeNext(h, fp, cp) ==
  IF cp = End(h, fp)
  THEN [Blank(h, cp) EXCEPT !.free_addr[fp] = h.free_addr[cp],
                 !.free_size[fp] = @ + h.free_size[cp] + FL_SIZE]
  ELSE [h EXCEPT !.free_addr[fp] = cp]

MergePrevSizeOnly(h, pp, fp) ==
  IF fp = End(h, pp)
  THEN [Blank(h, fp) EXCEPT !.free_addr[pp] = h.free_addr[fp],
                 !.free_size[pp] = @ + h.free_size[fp]]
  ELSE [h EXCEPT !.free_addr[pp] = fp]
MergePrevNever(h, pp, fp) == [h EXCEPT !.free_addr[pp] = fp]
MergePrev(h, pp, fp) ==
  IF fp = End(h, pp)
  THEN [Blank(h, fp) EXCEPT !.free_addr[pp] = h.free_addr[fp],
                 !.free_size[pp] = @ + h.free_size[fp] + FL_SIZE]
  ELSE [h EXCEPT !.free_addr[pp] = fp]

Freed(h, fp) ==
  LET L == FreeList(h)
      behind == {i \in DOMAIN L : L[i] > fp}
      i == IF behind = {} THEN Len(L) + 1 ELSE Min(behind)
      joined == IF behind = {} THEN h ELSE MergeNext(h, fp, L[i])
  IN  IF i = 1 THEN [joined EXCEPT !.head = fp]
               ELSE MergePrev(joined, L[i - 1], fp)

OldLink(h, fp) == (\A i \in DOMAIN FreeList(h) : FreeList(h)[i] < fp) /\ h.free_addr[fp] # NULL

kfree(block) ==
  /\ ~spoilt
  /\ block \in live
  /\ heap' = Freed(heap, block[1])
  /\ live' = live \ {block}
  /\ spoilt' = OldLink(heap, block[1])
  /\ UNCHANGED <<last_km_addr, deviceMemorySetUp, grown>>

kmDeviceMemorySetUpDone ==
  /\ ~deviceMemorySetUp
  /\ deviceMemorySetUp' = TRUE
  /\ UNCHANGED <<heap, last_km_addr, live, grown, spoilt>>

Next ==
  \/ \E b \in Bytes, g \in Gaps : kmalloc(b, g)
  \/ \E b \in Bytes, g \in Gaps : kmalloc_fails(b, g)
  \/ \E block \in live : kfree(block)
  \/ kmDeviceMemorySetUpDone

Spec == Init /\ [][Next]_vars
-----------------------------------------------------------------------------
Held == {block[1] : block \in live}
Free == ToSet(FreeList(heap))

(***************************************************************************)
(* BlocksApart: no two blocks overlap, held or free, and a held block has  *)
(* the bytes its client asked for ("number of bytes to be allocated",      *)
(* kmalloc.h): what one client writes never reaches another client or the  *)
(* links of the free list.  It holds until the list is spoilt, also while  *)
(* the last free block is out and after pages have been added.             *)
(***************************************************************************)
BlocksApart ==
  ~spoilt =>
    /\ Held \cap Free = {}
    /\ \A a, b \in Held \cup Free : a < b => End(heap, a) <= b
    /\ \A block \in live : block[2] <= heap.free_size[block[1]]

(***************************************************************************)
(* NothingLost: the blocks and their headers add up to the static pages    *)
(* and the pages added, after any order of allocating and freeing.         *)
(***************************************************************************)
NothingLost ==
  ~spoilt =>
    MapThenSumSet(LAMBDA a : FL_SIZE + heap.free_size[a], Held \cup Free)
      = KM_STATIC_SIZE + grown * KM_PAGES_ADD

(***************************************************************************)
(* Coalesced: the free list is in the order of addresses and no two free   *)
(* blocks touch, so a request that fails would not have fitted into        *)
(* neighbouring free blocks either.                                        *)
(***************************************************************************)
Coalesced ==
  LET L == FreeList(heap)
  IN  ~spoilt => \A i \in 1..Len(L) - 1 : L[i] < L[i + 1] /\ End(heap, L[i]) # L[i + 1]
=============================================================================
