-------------------------- MODULE CowMemoryProofs --------------------------
(***************************************************************************)
(* Copy-on-write is safe, for any number of processes, pages and frames:   *)
(* the reference counts cover the page tables, shared pages are protected, *)
(* and, where the TLB holds no writable translation, every step is a step  *)
(* of PrivateMemory.                                                       *)
(***************************************************************************)
EXTENDS CowMemory, FiniteSetTheorems, WellFoundedInduction, TLAPS

Types ==
  /\ live \subseteq Task
  /\ current \in live \cup {None} /\ (current = None => live = {})
  /\ pte \in [Task -> [Page -> Frame \cup {None}]]
  /\ rw \in [Task -> SUBSET Page]
  /\ refcount \in [Frame -> Nat]
  /\ cow \subseteq Frame /\ free \subseteq Frame
  /\ mem \in [Frame -> Value]
  /\ tlb \subseteq Cached

(***************************************************************************)
(* No process has a frame at two pages, and one that has ended has none.   *)
(***************************************************************************)
OncePerTable ==
  \A t \in Task : \A p, q \in Page :
    pte[t][p] # None /\ pte[t][p] = pte[t][q] => p = q

EndedEmpty == \A t \in Task \ live : pte[t] = NoPages

(***************************************************************************)
(* The inductive invariant.                                                *)
(***************************************************************************)
Inv == Types /\ OncePerTable /\ EndedEmpty /\ CountsCover /\ SharedReadOnly
-----------------------------------------------------------------------------
(***************************************************************************)
(* Bounds on the number of references, from how a set of them changed.     *)
(***************************************************************************)
LEMMA ReferencesBound ==
  ASSUME NEW R, IsFiniteSet(R), NEW S, NEW x
  PROVE  /\ Cardinality(R) \in Nat
         /\ S \subseteq R =>
              Cardinality(S) \in Nat /\ Cardinality(S) <= Cardinality(R)
         /\ S \subseteq R \cup {x} =>
              Cardinality(S) \in Nat /\ Cardinality(S) <= Cardinality(R) + 1
         /\ S \subseteq R \ {x} /\ x \in R =>
              Cardinality(S) \in Nat /\ Cardinality(S) <= Cardinality(R) - 1
<1>1. Cardinality(R) \in Nat
  BY FS_CardinalityType
<1>2. ASSUME S \subseteq R
      PROVE  Cardinality(S) \in Nat /\ Cardinality(S) <= Cardinality(R)
  <2>1. IsFiniteSet(S) /\ Cardinality(S) <= Cardinality(R)
    BY <1>2, FS_Subset
  <2>. QED
    BY <2>1, FS_CardinalityType
<1>3. ASSUME S \subseteq R \cup {x}
      PROVE  Cardinality(S) \in Nat /\ Cardinality(S) <= Cardinality(R) + 1
  <2>1. IsFiniteSet(R \cup {x}) /\ Cardinality(R \cup {x}) <= Cardinality(R) + 1
    BY <1>1, FS_AddElement
  <2>2. IsFiniteSet(S) /\ Cardinality(S) <= Cardinality(R \cup {x})
    BY <1>3, <2>1, FS_Subset
  <2>3. Cardinality(S) \in Nat /\ Cardinality(R \cup {x}) \in Nat
    BY <2>1, <2>2, FS_CardinalityType
  <2>. QED
    BY <1>1, <2>1, <2>2, <2>3
<1>4. ASSUME S \subseteq R \ {x}, x \in R
      PROVE  Cardinality(S) \in Nat /\ Cardinality(S) <= Cardinality(R) - 1
  <2>1. IsFiniteSet(R \ {x}) /\ Cardinality(R \ {x}) = Cardinality(R) - 1
    BY <1>4, FS_RemoveElement
  <2>2. IsFiniteSet(S) /\ Cardinality(S) <= Cardinality(R \ {x})
    BY <1>4, <2>1, FS_Subset
  <2>. QED
    BY <2>1, <2>2, FS_CardinalityType
<1>. QED
  BY <1>1, <1>2, <1>3, <1>4

LEMMA AtMostOne ==
  ASSUME NEW R, IsFiniteSet(R), Cardinality(R) <= 1, NEW x \in R, NEW y \in R
  PROVE  x = y
<1>1. Cardinality(R) \in Nat
  BY FS_CardinalityType
<1>2. Cardinality(R) # 0
  BY FS_EmptySet
<1>3. Cardinality(R) = 1
  BY <1>1, <1>2
<1>. QED
  BY <1>3, FS_Singleton

LEMMA ReferencesFinite ==
  ASSUME Types, NEW f
  PROVE  IsFiniteSet(References(f))
<1>1. IsFiniteSet(live)
  BY CowAssumption, FS_Subset DEF Types
<1>2. IsFiniteSet(live \X Page)
  BY <1>1, CowAssumption, FS_Product
<1>. QED
  BY <1>2, FS_Subset DEF References

(***************************************************************************)
(* What is behind a member of References.                                  *)
(***************************************************************************)
LEMMA IsReference ==
  ASSUME NEW f, NEW t, NEW p
  PROVE  <<t, p>> \in References(f) <=> t \in live /\ p \in Page /\ pte[t][p] = f
BY DEF References

(***************************************************************************)
(* alloc_phys_pages returns a free frame when there is one, and that frame *)
(* is mapped by nobody.                                                    *)
(***************************************************************************)
LEMMA AllocatedFree ==
  ASSUME Types, free # {}
  PROVE  alloc_phys_page \in free
<1>. DEFINE R == OpToRel(<, Nat)
<1>1. IsWellFoundedOn(R, Nat)
  BY NatLessThanWellFounded
<1>2. \A x, y \in Nat : y < x => <<y, x>> \in R
  BY DEF OpToRel
<1>. HIDE DEF R
<1>3. free \subseteq Nat
  BY CowAssumption DEF Types
<1>4. PICK f \in free : \A g \in free : ~(<<g, f>> \in R)
  BY <1>1, <1>3, WFMin
<1>5. \A g \in free : f <= g
  <2>. TAKE g \in free
  <2>1. f \in Nat /\ g \in Nat
    BY <1>3
  <2>2. ~(g < f)
    BY <2>1, <1>2, <1>4, Zenon
  <2>. QED
    BY <2>1, <2>2
<1>. QED
  BY <1>5 DEF alloc_phys_page

LEMMA FreeUnmapped ==
  ASSUME Inv, NEW f \in free, NEW t \in Task, NEW p \in Page
  PROVE  pte[t][p] # f
<1>1. f \in Frame /\ f # None
  BY CowAssumption DEF Inv, Types
<1>2. CASE t \notin live
  BY <1>1, <1>2 DEF Inv, EndedEmpty, NoPages
<1>3. CASE t \in live
  <2>1. Cardinality(References(f)) <= 0 /\ IsFiniteSet(References(f))
    BY <1>1, ReferencesFinite DEF Inv, CountsCover
  <2>2. References(f) = {}
    BY <2>1, FS_CardinalityType, FS_EmptySet
  <2>. QED
    BY <1>3, <2>2, IsReference
<1>. QED
  BY <1>2, <1>3
-----------------------------------------------------------------------------
(***************************************************************************)
(* How the references to a frame change, in terms of single entries, and   *)
(* what follows for a count that changes along with them.                  *)
(***************************************************************************)
Kept(f) == \A t \in live', p \in Page : pte'[t][p] = f => t \in live /\ pte[t][p] = f

LEMMA CountKept ==
  ASSUME Types, NEW f, Kept(f)
  PROVE  /\ Cardinality(References(f)) \in Nat
         /\ Cardinality(References(f)') \in Nat
         /\ Cardinality(References(f)') <= Cardinality(References(f))
<1>1. References(f)' \subseteq References(f)
  BY DEF References, Kept
<1>. QED
  BY <1>1, ReferencesFinite, ReferencesBound

LEMMA CountMore ==
  ASSUME Types, NEW f, NEW u, NEW q,
         \A t \in live', p \in Page :
           pte'[t][p] = f => (t \in live /\ pte[t][p] = f) \/ (t = u /\ p = q)
  PROVE  /\ Cardinality(References(f)) \in Nat
         /\ Cardinality(References(f)') \in Nat
         /\ Cardinality(References(f)') <= Cardinality(References(f)) + 1
<1>1. References(f)' \subseteq References(f) \cup {<<u, q>>}
  BY DEF References
<1>. QED
  BY <1>1, ReferencesFinite, ReferencesBound

LEMMA CountLess ==
  ASSUME Types, NEW f, NEW u \in live, NEW q \in Page, pte[u][q] = f,
         Kept(f), u \in live' => pte'[u][q] # f
  PROVE  /\ Cardinality(References(f)) \in Nat
         /\ Cardinality(References(f)') \in Nat
         /\ Cardinality(References(f)') <= Cardinality(References(f)) - 1
<1>1. References(f)' \subseteq References(f) \ {<<u, q>>}
  BY DEF References, Kept
<1>2. <<u, q>> \in References(f)
  BY IsReference
<1>. QED
  BY <1>1, <1>2, ReferencesFinite, ReferencesBound

(***************************************************************************)
(* SharedReadOnly, for two given entries.                                  *)
(***************************************************************************)
LEMMA SharedEntry ==
  ASSUME Inv, NEW t \in live, NEW u \in live, NEW p \in Page, NEW q \in Page,
         ~(t = u /\ p = q), pte[t][p] # None, pte[t][p] = pte[u][q]
  PROVE  pte[t][p] \in cow /\ p \notin rw[t]
BY DEF Inv, SharedReadOnly

(***************************************************************************)
(* Two entries map a frame only if its count is at least two.              *)
(***************************************************************************)
LEMMA CountOfOne ==
  ASSUME Inv, NEW t \in live, NEW p \in Page, NEW u \in live, NEW q \in Page,
         pte[t][p] \in Frame, pte[u][q] = pte[t][p], refcount[pte[t][p]] = 1
  PROVE  t = u /\ p = q
<1>. DEFINE f == pte[t][p]
<1>1. Cardinality(References(f)) <= 1 /\ IsFiniteSet(References(f))
  BY ReferencesFinite DEF Inv, CountsCover
<1>2. <<t, p>> \in References(f) /\ <<u, q>> \in References(f)
  BY IsReference
<1>3. <<t, p>> = <<u, q>>
  BY <1>1, <1>2, AtMostOne
<1>. QED
  BY <1>3

(***************************************************************************)
(* A frame that is mapped has a count.                                     *)
(***************************************************************************)
LEMMA MappedCounted ==
  ASSUME Inv, NEW t \in live, NEW p \in Page, pte[t][p] \in Frame
  PROVE  refcount[pte[t][p]] >= 1 /\ pte[t][p] \notin free
<1>. DEFINE f == pte[t][p]
<1>1. IsFiniteSet(References(f)) /\ <<t, p>> \in References(f)
  BY ReferencesFinite, IsReference DEF Inv
<1>2. Cardinality(References(f)) \in Nat /\ Cardinality(References(f)) # 0
  BY <1>1, FS_CardinalityType, FS_EmptySet
<1>3. Cardinality(References(f)) <= refcount[f] /\ refcount[f] \in Nat
  BY DEF Inv, CountsCover, Types
<1>4. f \in free => refcount[f] = 0
  BY DEF Inv, CountsCover
<1>. QED
  BY <1>2, <1>3, <1>4
-----------------------------------------------------------------------------
(***************************************************************************)
(* update_curr_page_table changes one entry.                               *)
(***************************************************************************)
LEMMA MapPageFacts ==
  ASSUME Types, current \in live, NEW p \in Page, NEW f \in Frame, MapPage(p, f)
  PROVE  /\ pte' \in [Task -> [Page -> Frame \cup {None}]]
         /\ rw' \in [Task -> SUBSET Page]
         /\ tlb' \subseteq Cached
         /\ pte'[current][p] = f
         /\ \A t \in Task, q \in Page :
              ~(t = current /\ q = p) =>
                pte'[t][q] = pte[t][q] /\ (q \in rw'[t] <=> q \in rw[t])
<1>1. current \in Task
  BY DEF Types
<1>2. pte' \in [Task -> [Page -> Frame \cup {None}]] /\ pte'[current][p] = f
  BY <1>1 DEF Types, MapPage
<1>3. rw' \in [Task -> SUBSET Page] /\ tlb' \subseteq Cached
  BY <1>1 DEF Types, MapPage
<1>4. ASSUME NEW t \in Task, NEW q \in Page, ~(t = current /\ q = p)
      PROVE  pte'[t][q] = pte[t][q] /\ (q \in rw'[t] <=> q \in rw[t])
  <2>1. CASE t = current
    BY <1>1, <1>4, <2>1 DEF Types, MapPage
  <2>2. CASE t # current
    BY <1>1, <1>4, <2>2 DEF Types, MapPage
  <2>. QED
    BY <2>1, <2>2
<1>. QED
  BY <1>2, <1>3, <1>4

(***************************************************************************)
(* A frame from the free list is mapped: by demand paging, where nothing   *)
(* was, or by copy-on-write in the place of frame f.                       *)
(***************************************************************************)
LEMMA FreshPage ==
  ASSUME Inv, current \in live, NEW p \in Page, NEW a \in free, MapPage(p, a),
         live' = live, current' = current, cow' = cow,
         free' = free \ {a}, mem' \in [Frame -> Value],
         refcount' \in [Frame -> Nat], refcount'[a] = refcount[a] + 1,
         \A g \in Frame \ {a} :
           \/ refcount'[g] = refcount[g]
           \/ g = pte[current][p] /\ refcount'[g] = refcount[g] - 1
  PROVE  Inv'
<1>1. Types /\ a \in Frame /\ a # None /\ live \subseteq Task /\ current \in Task
  BY CowAssumption DEF Inv, Types
<1>2. /\ pte' \in [Task -> [Page -> Frame \cup {None}]]
      /\ rw' \in [Task -> SUBSET Page] /\ tlb' \subseteq Cached
      /\ pte'[current][p] = a
      /\ \A t \in Task, q \in Page : ~(t = current /\ q = p) =>
           pte'[t][q] = pte[t][q] /\ (q \in rw'[t] <=> q \in rw[t])
  BY <1>1, MapPageFacts
<1>3. \A t \in Task, q \in Page : pte[t][q] # a
  BY FreeUnmapped
<1>4. Types'
  BY <1>1, <1>2 DEF Types
<1>5. OncePerTable'
  BY <1>1, <1>2, <1>3 DEF Inv, OncePerTable
<1>6. EndedEmpty'
  <2>. SUFFICES ASSUME NEW t \in Task \ live PROVE pte'[t] = NoPages
    BY DEF EndedEmpty, NoPages
  <2>1. t # current /\ pte[t] = NoPages
    BY DEF Inv, EndedEmpty
  <2>2. pte'[t] = pte[t]
    BY <1>1, <2>1 DEF MapPage, Types
  <2>. QED
    BY <2>1, <2>2
<1>7. CountsCover'
  <2>. SUFFICES ASSUME NEW g \in Frame
                PROVE  /\ Cardinality(References(g)') <= refcount'[g]
                       /\ g \in free' => refcount'[g] = 0
    BY DEF CountsCover
  <2>1. /\ Cardinality(References(g)) <= refcount[g]
        /\ g \in free => refcount[g] = 0
        /\ refcount[g] \in Nat
    BY <1>1 DEF Inv, CountsCover, Types
  <2>2. CASE g = a
    <3>1. \A t \in live', q \in Page : pte'[t][q] = g =>
            (t \in live /\ pte[t][q] = g) \/ (t = current /\ q = p)
      BY <1>1, <1>2
    <3>2. /\ Cardinality(References(g)) \in Nat /\ Cardinality(References(g)') \in Nat
          /\ Cardinality(References(g)') <= Cardinality(References(g)) + 1
      BY <1>1, <3>1, CountMore
    <3>. QED
      BY <2>1, <2>2, <3>2
  <2>3. CASE g # a /\ g = pte[current][p]
    <3>1. Kept(g) /\ pte'[current][p] # g
      BY <1>1, <1>2, <2>3 DEF Kept
    <3>2. /\ Cardinality(References(g)) \in Nat /\ Cardinality(References(g)') \in Nat
          /\ Cardinality(References(g)') <= Cardinality(References(g)) - 1
      BY <1>1, <2>3, <3>1, CountLess
    <3>3. g \notin free
      BY <2>3, FreeUnmapped, <1>1
    <3>. QED
      BY <2>1, <2>3, <3>2, <3>3
  <2>4. CASE g # a /\ g # pte[current][p]
    <3>1. Kept(g)
      BY <1>1, <1>2, <2>4 DEF Kept
    <3>2. /\ Cardinality(References(g)) \in Nat /\ Cardinality(References(g)') \in Nat
          /\ Cardinality(References(g)') <= Cardinality(References(g))
      BY <1>1, <3>1, CountKept
    <3>. QED
      BY <2>1, <2>4, <3>2
  <2>. QED
    BY <2>2, <2>3, <2>4
<1>8. SharedReadOnly'
  <2>. SUFFICES ASSUME NEW t \in live, NEW u \in live, NEW q \in Page, NEW r \in Page,
                       <<t, q>> # <<u, r>>, pte'[t][q] # None, pte'[t][q] = pte'[u][r]
                PROVE  pte'[t][q] \in cow /\ q \notin rw'[t]
    BY DEF SharedReadOnly
  <2>1. t \in Task /\ u \in Task /\ ~(t = u /\ q = r)
    BY <1>1
  <2>2. ~(t = current /\ q = p) /\ ~(u = current /\ r = p)
    BY <1>2, <1>3, <2>1
  <2>3. /\ pte'[t][q] = pte[t][q] /\ pte'[u][r] = pte[u][r]
        /\ (q \in rw'[t] <=> q \in rw[t])
    BY <1>2, <2>1, <2>2
  <2>4. pte[t][q] # None /\ pte[t][q] = pte[u][r]
    BY <2>3
  <2>5. pte[t][q] \in cow /\ q \notin rw[t]
    BY <2>1, <2>4, SharedEntry
  <2>. QED
    BY <2>3, <2>5
<1>. QED
  BY <1>4, <1>5, <1>6, <1>7, <1>8 DEF Inv

(***************************************************************************)
(* Entries are only dropped, by exit, exec or munmap, and a count goes     *)
(* down only with an entry of the running process.                         *)
(***************************************************************************)
LEMMA EntriesDropped ==
  ASSUME Inv, current \in live, Types', EndedEmpty',
         live' \subseteq live, cow' = cow,
         \A t \in Task, q \in Page : pte'[t][q] = pte[t][q] \/ pte'[t][q] = None,
         \A t \in Task : rw'[t] \subseteq rw[t],
         \A g \in Frame :
           \/ refcount'[g] = refcount[g]
           \/ /\ refcount'[g] = refcount[g] - 1
              /\ \E q \in Page : /\ pte[current][q] = g
                                 /\ current \in live' => pte'[current][q] = None,
         \A g \in free' : g \in free \/ refcount'[g] = 0
  PROVE  Inv'
<1>1. Types /\ live \subseteq Task /\ current \in Task
  BY DEF Inv, Types
<1>2. OncePerTable'
  BY DEF Inv, OncePerTable
<1>3. CountsCover'
  <2>. SUFFICES ASSUME NEW g \in Frame
                PROVE  /\ Cardinality(References(g)') <= refcount'[g]
                       /\ g \in free' => refcount'[g] = 0
    BY DEF CountsCover
  <2>1. /\ Cardinality(References(g)) <= refcount[g]
        /\ g \in free => refcount[g] = 0
        /\ refcount[g] \in Nat /\ g # None
    BY <1>1, CowAssumption DEF Inv, CountsCover, Types
  <2>2. Kept(g)
    BY <1>1, <2>1 DEF Kept
  <2>3. CASE refcount'[g] = refcount[g]
    BY <1>1, <2>1, <2>2, <2>3, CountKept
  <2>4. CASE refcount'[g] = refcount[g] - 1 /\ refcount'[g] # refcount[g]
    <3>1. PICK q \in Page : /\ pte[current][q] = g
                            /\ current \in live' => pte'[current][q] = None
      BY <2>4
    <3>2. /\ Cardinality(References(g)) \in Nat /\ Cardinality(References(g)') \in Nat
          /\ Cardinality(References(g)') <= Cardinality(References(g)) - 1
      BY <1>1, <2>1, <2>2, <3>1, CountLess
    <3>3. g \notin free
      BY <1>1, <3>1, FreeUnmapped
    <3>. QED
      BY <2>1, <2>4, <3>2, <3>3
  <2>. QED
    BY <2>3, <2>4
<1>4. SharedReadOnly'
  <2>. SUFFICES ASSUME NEW t \in live', NEW u \in live', NEW q \in Page, NEW r \in Page,
                       <<t, q>> # <<u, r>>, pte'[t][q] # None, pte'[t][q] = pte'[u][r]
                PROVE  pte'[t][q] \in cow' /\ q \notin rw'[t]
    BY DEF SharedReadOnly
  <2>1. t \in live /\ u \in live /\ t \in Task /\ u \in Task
    BY <1>1
  <2>2. pte'[t][q] = pte[t][q] /\ pte'[u][r] = pte[u][r]
    BY <2>1
  <2>3. ~(t = u /\ q = r) /\ pte[t][q] # None /\ pte[t][q] = pte[u][r]
    BY <2>2
  <2>4. pte[t][q] \in cow /\ q \notin rw[t]
    BY <2>1, <2>3, SharedEntry
  <2>. QED
    BY <2>1, <2>2, <2>4
<1>. QED
  BY <1>2, <1>3, <1>4 DEF Inv

(***************************************************************************)
(* The exit of the running process; the count of a page it was about to    *)
(* copy may have gone down before.                                         *)
(***************************************************************************)
LEMMA ExitsInv ==
  ASSUME Inv, current # None, Exits, cow' = cow, free' = free, mem' = mem,
         refcount' \in [Frame -> Nat],
         \A g \in Frame :
           \/ refcount'[g] = refcount[g]
           \/ refcount'[g] = refcount[g] - 1 /\ \E q \in Page : pte[current][q] = g
  PROVE  Inv'
<1>1. current \in live /\ current \in Task /\ Types
  BY DEF Inv, Types
<1>2. /\ pte' \in [Task -> [Page -> Frame \cup {None}]]
      /\ pte'[current] = NoPages /\ \A t \in Task : t # current => pte'[t] = pte[t]
  BY <1>1 DEF Exits, Types, NoPages
<1>3. /\ rw' \in [Task -> SUBSET Page]
      /\ \A t \in Task : rw'[t] \subseteq rw[t]
  BY <1>1 DEF Exits, Types
<1>4. Types'
  <2>1. live' \subseteq Task /\ tlb' \subseteq Cached
    BY <1>1 DEF Exits, Types
  <2>2. current' \in live' \cup {None} /\ (current' = None => live' = {})
    BY <2>1, CowAssumption DEF Exits
  <2>. QED
    BY <1>1, <1>2, <1>3, <2>1, <2>2 DEF Types
<1>5. EndedEmpty'
  BY <1>1, <1>2 DEF Inv, EndedEmpty, Exits, NoPages
<1>6. \A t \in Task, q \in Page : pte'[t][q] = pte[t][q] \/ pte'[t][q] = None
  BY <1>2 DEF NoPages
<1>7. live' \subseteq live /\ current \notin live'
  BY DEF Exits
<1>8. \A g \in free' : g \in free \/ refcount'[g] = 0
  OBVIOUS
<1>. QED
  BY <1>1, <1>3, <1>4, <1>5, <1>6, <1>7, <1>8, EntriesDropped

(***************************************************************************)
(* The page fault for a page that is not there.                            *)
(***************************************************************************)
LEMMA PageNotPresentInv ==
  ASSUME Inv, NEW p \in Page, PageNotPresent(p)
  PROVE  Inv'
<1>1. current # None /\ current \in live /\ Types
  BY DEF PageNotPresent, Inv, Types
<1>2. CASE free # {} /\ MapPage(p, alloc_phys_page)
           /\ free' = free \ {alloc_phys_page}
           /\ refcount' = [refcount EXCEPT ![alloc_phys_page] = @ + 1]
           /\ UNCHANGED <<live, current, cow, mem>>
  <2>. DEFINE a == alloc_phys_page
  <2>1. a \in free
    BY <1>1, <1>2, AllocatedFree
  <2>. HIDE DEF a
  <2>2. a \in Frame
    BY <1>1, <2>1 DEF Types
  <2>3. /\ refcount' \in [Frame -> Nat] /\ refcount'[a] = refcount[a] + 1
        /\ \A g \in Frame \ {a} : refcount'[g] = refcount[g]
    BY <1>1, <1>2, <2>2 DEF Types, a
  <2>4. mem' \in [Frame -> Value]
    BY <1>1, <1>2 DEF Types
  <2>5. /\ MapPage(p, a) /\ live' = live /\ current' = current /\ cow' = cow
        /\ free' = free \ {a}
    BY <1>2 DEF a
  <2>. QED
    BY <1>1, <2>1, <2>3, <2>4, <2>5, FreshPage
<1>3. CASE free = {} /\ Exits /\ UNCHANGED <<refcount, cow, free, mem>>
  BY <1>1, <1>3, ExitsInv DEF Types
<1>. QED
  BY <1>2, <1>3 DEF PageNotPresent

(***************************************************************************)
(* The write fault on a page that is there: taking it over, because it is  *)
(* not marked or its count is one ...                                      *)
(***************************************************************************)
LEMMA TakeOverInv ==
  ASSUME Inv, current \in live, NEW p \in Page, pte[current][p] \in Frame,
         pte[current][p] \in cow => refcount[pte[current][p]] = 1,
         TakeOver(p, pte[current][p])
  PROVE  Inv'
<1>. DEFINE f == pte[current][p]
<1>1. Types /\ live \subseteq Task /\ current \in Task /\ f # None
  BY CowAssumption DEF Inv, Types
<1>2. /\ pte' \in [Task -> [Page -> Frame \cup {None}]]
      /\ rw' \in [Task -> SUBSET Page] /\ tlb' \subseteq Cached
      /\ pte'[current][p] = f
      /\ \A t \in Task, q \in Page : ~(t = current /\ q = p) =>
           pte'[t][q] = pte[t][q] /\ (q \in rw'[t] <=> q \in rw[t])
  BY <1>1, MapPageFacts DEF TakeOver
<1>3. pte' = pte
  BY <1>1 DEF TakeOver, MapPage, Types
<1>4. UNCHANGED <<live, current, refcount, free, mem>> /\ cow' = cow \ {f}
  BY DEF TakeOver
<1>5. Types'
  BY <1>1, <1>2, <1>4 DEF Types
<1>6. OncePerTable' /\ EndedEmpty' /\ CountsCover'
  BY <1>3, <1>4 DEF Inv, OncePerTable, EndedEmpty, CountsCover, References, NoPages
<1>7. \A t \in live, q \in Page : pte[t][q] = f => t = current /\ q = p
  <2>. SUFFICES ASSUME NEW t \in live, NEW q \in Page, pte[t][q] = f
                PROVE  t = current /\ q = p
    OBVIOUS
  <2>1. CASE f \in cow
    BY <2>1, CountOfOne
  <2>2. CASE f \notin cow
    BY <1>1, <2>2, SharedEntry
  <2>. QED
    BY <2>1, <2>2
<1>8. SharedReadOnly'
  <2>. SUFFICES ASSUME NEW t \in live, NEW u \in live, NEW q \in Page, NEW r \in Page,
                       <<t, q>> # <<u, r>>, pte[t][q] # None, pte[t][q] = pte[u][r]
                PROVE  pte[t][q] \in cow' /\ q \notin rw'[t]
    BY <1>3, <1>4 DEF SharedReadOnly
  <2>1. ~(t = u /\ q = r) /\ t \in Task
    BY <1>1
  <2>2. pte[t][q] # f
    BY <1>7, <2>1
  <2>3. pte[t][q] \in cow /\ q \notin rw[t]
    BY <2>1, SharedEntry
  <2>. QED
    BY <1>2, <1>4, <2>1, <2>2, <2>3
<1>. QED
  BY <1>5, <1>6, <1>8 DEF Inv

(***************************************************************************)
(* ... or copying it.                                                      *)
(***************************************************************************)
LEMMA CopyPageInv ==
  ASSUME Inv, current # None, NEW p \in Page, pte[current][p] \in Frame,
         refcount[pte[current][p]] # 0, CopyPage(p, pte[current][p])
  PROVE  Inv'
<1>. DEFINE f == pte[current][p]
<1>1. Types /\ current \in live /\ current \in Task
  BY DEF Inv, Types
<1>4. f \in Frame /\ refcount[f] \in Nat \ {0} /\ refcount \in [Frame -> Nat]
  BY <1>1 DEF Types
<1>2. CASE free # {} /\ MapPage(p, alloc_phys_page)
           /\ mem' = [mem EXCEPT ![alloc_phys_page] = mem[f]]
           /\ free' = free \ {alloc_phys_page}
           /\ refcount' = [refcount EXCEPT ![f] = @ - 1, ![alloc_phys_page] = @ + 1]
           /\ UNCHANGED <<live, current, cow>>
  <2>. DEFINE a == alloc_phys_page
  <2>1. a \in free
    BY <1>1, <1>2, AllocatedFree
  <2>. HIDE DEF a
  <2>2. a \in Frame /\ a # f
    BY <1>1, <2>1, FreeUnmapped DEF Types
  <2>3. refcount' = [refcount EXCEPT ![f] = @ - 1, ![a] = @ + 1]
    BY <1>2 DEF a
  <2>4. /\ refcount' \in [Frame -> Nat] /\ refcount'[a] = refcount[a] + 1
        /\ \A g \in Frame \ {a} :
             \/ refcount'[g] = refcount[g]
             \/ g = f /\ refcount'[g] = refcount[g] - 1
    BY <1>4, <2>2, <2>3
  <2>5. mem' \in [Frame -> Value]
    BY <1>1, <1>2, <2>2 DEF Types, a
  <2>6. /\ MapPage(p, a) /\ live' = live /\ current' = current /\ cow' = cow
        /\ free' = free \ {a}
    BY <1>2 DEF a
  <2>. QED
    BY <1>1, <2>1, <2>4, <2>5, <2>6, FreshPage
<1>3. CASE free = {} /\ Exits /\ refcount' = [refcount EXCEPT ![f] = @ - 1]
           /\ UNCHANGED <<cow, free, mem>>
  <2>1. /\ refcount' \in [Frame -> Nat]
        /\ \A g \in Frame :
             \/ refcount'[g] = refcount[g]
             \/ refcount'[g] = refcount[g] - 1 /\ g = f
    BY <1>3, <1>4
  <2>. QED
    BY <1>3, <2>1, ExitsInv
<1>. QED
  BY <1>2, <1>3 DEF CopyPage

LEMMA PagePresentWriteInv ==
  ASSUME Inv, NEW p \in Page, PagePresentWrite(p)
  PROVE  Inv'
<1>. DEFINE f == pte[current][p]
<1>1. /\ Types /\ current # None /\ current \in live /\ current \in Task
      /\ f \in Frame
  BY DEF PagePresentWrite, Inv, Types
<1>2. CASE (f \in cow => OnlyReference(f)) /\ TakeOver(p, f)
  BY <1>1, <1>2, TakeOverInv DEF OnlyReference
<1>3. CASE refcount[f] # 0 /\ CopyPage(p, f)
  BY <1>1, <1>3, CopyPageInv
<1>4. CASE Exits /\ UNCHANGED <<refcount, cow, free, mem>>
  BY <1>1, <1>4, ExitsInv DEF Types
<1>. QED
  BY <1>2, <1>3, <1>4 DEF PagePresentWrite
-----------------------------------------------------------------------------
(***************************************************************************)
(* Fork counts and marks the frames of the pages in S and takes away their *)
(* write permission.                                                       *)
(***************************************************************************)
LEMMA ShareFacts ==
  ASSUME Inv, current \in live, NEW S \in SUBSET Mapped(current), Share(S)
  PROVE  /\ refcount' \in [Frame -> Nat] /\ cow' \subseteq Frame
         /\ cow \subseteq cow'
         /\ \A q \in S : /\ pte[current][q] \in cow'
                         /\ refcount'[pte[current][q]] = refcount[pte[current][q]] + 1
         /\ \A g \in Frame : refcount'[g] >= refcount[g]
         /\ \A g \in free : refcount'[g] = 0
<1>. DEFINE shared == {pte[current][q] : q \in S}
<1>1. Types /\ current \in Task
  BY DEF Inv, Types
<1>2. shared \subseteq Frame
  BY <1>1 DEF Mapped, Types
<1>3. shared \cap free = {}
  BY <1>1, FreeUnmapped DEF Mapped
<1>4. /\ refcount' = [g \in Frame |-> IF g \in shared THEN refcount[g] + 1
                                                     ELSE refcount[g]]
      /\ cow' = cow \cup shared
  BY DEF Share
<1>5. \A q \in S : pte[current][q] \in shared
  OBVIOUS
<1>. HIDE DEF shared
<1>6. \A g \in Frame : refcount[g] \in Nat /\ (g \in free => refcount[g] = 0)
  BY <1>1 DEF Inv, CountsCover, Types
<1>7. free \subseteq Frame /\ cow \subseteq Frame
  BY <1>1 DEF Types
<1>8. refcount' \in [Frame -> Nat] /\ \A g \in Frame : refcount'[g] >= refcount[g]
  BY <1>4, <1>6
<1>9. \A g \in free : refcount'[g] = 0
  BY <1>3, <1>4, <1>6, <1>7
<1>10. \A q \in S : /\ pte[current][q] \in cow'
                    /\ refcount'[pte[current][q]] = refcount[pte[current][q]] + 1
  BY <1>2, <1>4, <1>5
<1>. QED
  BY <1>2, <1>4, <1>7, <1>8, <1>9, <1>10

LEMMA ForkInv ==
  ASSUME Inv, NEW c \in Task, Fork(c)
  PROVE  Inv'
<1>. DEFINE S == Mapped(current)
<1>1. /\ Types /\ current # None /\ current \in live /\ current \in Task
      /\ live \subseteq Task /\ c \notin live /\ c # current
  BY DEF Fork, Inv, Types
<1>2. /\ refcount' \in [Frame -> Nat] /\ cow' \subseteq Frame /\ cow \subseteq cow'
      /\ \A q \in S : /\ pte[current][q] \in cow'
                      /\ refcount'[pte[current][q]] = refcount[pte[current][q]] + 1
      /\ \A g \in Frame : refcount'[g] >= refcount[g]
      /\ \A g \in free : refcount'[g] = 0
  BY <1>1, ShareFacts DEF Fork
<1>3. /\ pte' \in [Task -> [Page -> Frame \cup {None}]]
      /\ pte'[c] = pte[current] /\ \A t \in Task : t # c => pte'[t] = pte[t]
  BY <1>1 DEF Fork, Types
<1>4. rw' = [rw EXCEPT ![current] = rw[current] \ S, ![c] = {}]
  BY DEF Fork, WritableAfter
<1>5. /\ rw' \in [Task -> SUBSET Page]
      /\ rw'[c] = {} /\ rw'[current] = rw[current] \ S
      /\ \A t \in Task : t # c => rw'[t] \subseteq rw[t]
  <2>. HIDE DEF S
  <2>. QED
    BY <1>1, <1>4 DEF Types
<1>6. live' = live \cup {c} /\ UNCHANGED <<current, free, mem, tlb>>
  BY DEF Fork
<1>7. Types'
  BY <1>1, <1>2, <1>3, <1>5, <1>6 DEF Types
<1>8. OncePerTable'
  BY <1>1, <1>3 DEF Inv, OncePerTable
<1>9. EndedEmpty'
  BY <1>1, <1>3, <1>6 DEF Inv, EndedEmpty, NoPages
<1>10. \A q \in Page : pte[current][q] # None => q \in S
  BY DEF Mapped
<1>11. CountsCover'
  <2>. SUFFICES ASSUME NEW g \in Frame
                PROVE  Cardinality(References(g)') <= refcount'[g]
    BY <1>1, <1>2, <1>6 DEF CountsCover
  <2>1. /\ Cardinality(References(g)) <= refcount[g]
        /\ refcount[g] \in Nat /\ refcount'[g] \in Nat /\ g # None
    BY <1>1, <1>2, CowAssumption DEF Inv, CountsCover, Types
  <2>2. CASE \E q \in Page : pte[current][q] = g
    <3>1. PICK q \in Page : pte[current][q] = g
      BY <2>2
    <3>2. refcount'[g] = refcount[g] + 1
      BY <1>2, <1>10, <2>1, <3>1
    <3>3. \A r \in Page : pte[current][r] = g => r = q
      BY <1>1, <2>1, <3>1 DEF Inv, OncePerTable
    <3>4. \A t \in live', r \in Page : pte'[t][r] = g =>
            (t \in live /\ pte[t][r] = g) \/ (t = c /\ r = q)
      BY <1>1, <1>3, <1>6, <3>3
    <3>5. /\ Cardinality(References(g)) \in Nat /\ Cardinality(References(g)') \in Nat
          /\ Cardinality(References(g)') <= Cardinality(References(g)) + 1
      BY <1>1, <3>4, CountMore
    <3>. QED
      BY <2>1, <3>2, <3>5
  <2>3. CASE ~ \E q \in Page : pte[current][q] = g
    <3>1. Kept(g)
      BY <1>1, <1>3, <1>6, <2>3 DEF Kept
    <3>2. /\ Cardinality(References(g)) \in Nat /\ Cardinality(References(g)') \in Nat
          /\ Cardinality(References(g)') <= Cardinality(References(g))
      BY <1>1, <3>1, CountKept
    <3>3. refcount'[g] >= refcount[g]
      BY <1>2
    <3>. QED
      BY <2>1, <3>2, <3>3
  <2>. QED
    BY <2>2, <2>3
<1>12. SharedReadOnly'
  <2>. SUFFICES ASSUME NEW t \in live', NEW u \in live', NEW q \in Page, NEW r \in Page,
                       <<t, q>> # <<u, r>>, pte'[t][q] # None, pte'[t][q] = pte'[u][r]
                PROVE  pte'[t][q] \in cow' /\ q \notin rw'[t]
    BY DEF SharedReadOnly
  <2>1. t \in Task /\ u \in Task /\ ~(t = u /\ q = r)
    BY <1>1, <1>6
  <2>2. CASE t = c \/ t = current
    <3>1. pte'[t][q] = pte[current][q] /\ q \in S
      BY <1>1, <1>3, <1>10, <2>2
    <3>. QED
      BY <1>1, <1>2, <1>5, <2>2, <3>1
  <2>3. CASE t # c /\ t # current
    <3>1. t \in live /\ pte'[t][q] = pte[t][q] /\ rw'[t] \subseteq rw[t]
      BY <1>3, <1>5, <1>6, <2>1, <2>3
    <3>. DEFINE v == IF u = c THEN current ELSE u
    <3>2. v \in live /\ pte[v][r] = pte[t][q] /\ ~(t = v /\ q = r)
      BY <1>1, <1>3, <1>6, <2>1, <2>3, <3>1
    <3>3. pte[t][q] # None
      BY <3>1
    <3>. HIDE DEF v
    <3>4. pte[t][q] \in cow /\ q \notin rw[t]
      BY <3>1, <3>2, <3>3, SharedEntry
    <3>. QED
      BY <1>2, <3>1, <3>4
  <2>. QED
    BY <2>2, <2>3
<1>. QED
  BY <1>7, <1>8, <1>9, <1>11, <1>12 DEF Inv

LEMMA ForkFailsInv ==
  ASSUME Inv, NEW last \in Page, ForkFails(last)
  PROVE  Inv'
<1>. DEFINE S == {p \in Mapped(current) : p <= last}
<1>1. Types /\ current \in live /\ current \in Task
  BY DEF ForkFails, Inv, Types
<1>2. /\ refcount' \in [Frame -> Nat] /\ cow' \subseteq Frame /\ cow \subseteq cow'
      /\ \A g \in Frame : refcount'[g] >= refcount[g]
      /\ \A g \in free : refcount'[g] = 0
  <2>1. S \in SUBSET Mapped(current) /\ Share(S)
    BY DEF ForkFails
  <2>. HIDE DEF S
  <2>. QED
    BY <1>1, <2>1, ShareFacts
<1>3. rw' = [rw EXCEPT ![current] = rw[current] \ S]
      /\ UNCHANGED <<live, current, pte, free, mem, tlb>>
  BY DEF ForkFails, WritableAfter
<1>4. rw' \in [Task -> SUBSET Page] /\ \A t \in Task : rw'[t] \subseteq rw[t]
  <2>. HIDE DEF S
  <2>. QED
    BY <1>1, <1>3 DEF Types
<1>5. Types' /\ OncePerTable' /\ EndedEmpty'
  BY <1>1, <1>2, <1>3, <1>4 DEF Inv, Types, OncePerTable, EndedEmpty, NoPages
<1>6. CountsCover'
  <2>. SUFFICES ASSUME NEW g \in Frame
                PROVE  Cardinality(References(g)) <= refcount'[g]
    BY <1>2, <1>3 DEF CountsCover, References
  <2>1. Cardinality(References(g)) <= refcount[g] /\ Cardinality(References(g)) \in Nat
    BY <1>1, ReferencesFinite, FS_CardinalityType DEF Inv, CountsCover
  <2>2. refcount[g] \in Nat /\ refcount'[g] \in Nat /\ refcount'[g] >= refcount[g]
    BY <1>1, <1>2 DEF Types
  <2>. QED
    BY <2>1, <2>2
<1>7. SharedReadOnly'
  BY <1>1, <1>2, <1>3, <1>4 DEF Inv, SharedReadOnly, Types
<1>. QED
  BY <1>5, <1>6, <1>7 DEF Inv

LEMMA MunmapInv ==
  ASSUME Inv, NEW first \in Page, Munmap(first)
  PROVE  Inv'
<1>. DEFINE gone   == {p \in Mapped(current) : p <= first}
            frames == {pte[current][p] : p \in gone}
<1>1. Types /\ current \in live /\ current \in Task
  BY DEF Munmap, Inv, Types
<1>2. /\ gone \subseteq Page
      /\ \A p \in gone : pte[current][p] \in Frame
  BY <1>1 DEF Mapped, Types
<1>3. \A g \in frames : g \in Frame /\ refcount[g] \in Nat /\ refcount[g] >= 1
  BY <1>1, <1>2, MappedCounted DEF Types
<1>4. /\ pte' = [pte EXCEPT ![current] =
                   [p \in Page |-> IF p \in gone THEN None ELSE pte[current][p]]]
      /\ rw' = [rw EXCEPT ![current] = rw[current] \ gone]
      /\ refcount' = [g \in Frame |->
                        IF g \in frames THEN refcount[g] - 1 ELSE refcount[g]]
      /\ free' = free \cup {g \in frames : refcount[g] = 1}
      /\ tlb' = tlb \ gone
      /\ UNCHANGED <<live, current, cow, mem>>
  BY DEF Munmap
<1>5. \A g \in frames : \E p \in gone : pte[current][p] = g
  OBVIOUS
<1>. HIDE DEF gone, frames
<1>6. /\ pte' \in [Task -> [Page -> Frame \cup {None}]]
      /\ \A p \in gone : pte'[current][p] = None
      /\ \A t \in Task, q \in Page : pte'[t][q] = pte[t][q] \/ pte'[t][q] = None
      /\ \A t \in Task \ live : pte'[t] = pte[t]
  BY <1>1, <1>2, <1>4 DEF Types
<1>7. rw' \in [Task -> SUBSET Page] /\ \A t \in Task : rw'[t] \subseteq rw[t]
  BY <1>1, <1>4 DEF Types
<1>8. refcount' \in [Frame -> Nat]
  BY <1>1, <1>3, <1>4 DEF Types
<1>9. free' \subseteq Frame /\ \A g \in free' : g \in free \/ refcount'[g] = 0
  BY <1>1, <1>3, <1>4 DEF Types
<1>10. Types'
  BY <1>1, <1>4, <1>6, <1>7, <1>8, <1>9 DEF Types
<1>11. EndedEmpty'
  BY <1>4, <1>6 DEF Inv, EndedEmpty, NoPages
<1>12. ASSUME NEW g \in Frame
       PROVE  \/ refcount'[g] = refcount[g]
              \/ /\ refcount'[g] = refcount[g] - 1
                 /\ \E q \in Page : /\ pte[current][q] = g
                                    /\ current \in live' => pte'[current][q] = None
  <2>1. CASE g \in frames
    BY <1>2, <1>4, <1>5, <1>6, <2>1
  <2>2. CASE g \notin frames
    BY <1>4, <2>2
  <2>. QED
    BY <2>1, <2>2
<1>13. live' \subseteq live /\ cow' = cow
  BY <1>4
<1>. QED
  BY <1>1, <1>6, <1>7, <1>9, <1>10, <1>11, <1>12, <1>13, EntriesDropped

LEMMA ExecInv ==
  ASSUME Inv, Exec
  PROVE  Inv'
<1>1. Types /\ current \in live /\ current \in Task
  BY DEF Exec, Inv, Types
<1>2. /\ pte' \in [Task -> [Page -> Frame \cup {None}]]
      /\ \A t \in Task, q \in Page : pte'[t][q] = pte[t][q] \/ pte'[t][q] = None
      /\ \A t \in Task \ live : pte'[t] = pte[t]
  BY <1>1 DEF Exec, Types, NoPages
<1>3. rw' \in [Task -> SUBSET Page] /\ \A t \in Task : rw'[t] \subseteq rw[t]
  BY <1>1 DEF Exec, Types
<1>4. Types'
  BY <1>1, <1>2, <1>3 DEF Exec, Types
<1>5. EndedEmpty'
  BY <1>2 DEF Exec, Inv, EndedEmpty, NoPages
<1>6. UNCHANGED <<live, refcount, cow, free>>
  BY DEF Exec
<1>. QED
  BY <1>1, <1>2, <1>3, <1>4, <1>5, <1>6, EntriesDropped

(***************************************************************************)
(* Steps that leave page tables and counts alone.                          *)
(***************************************************************************)
LEMMA SameTables ==
  ASSUME Inv, Types', UNCHANGED <<live, pte, rw, refcount, cow, free>>
  PROVE  Inv'
<1>1. OncePerTable' /\ EndedEmpty'
  BY DEF Inv, OncePerTable, EndedEmpty, NoPages
<1>2. \A f \in Frame : References(f)' = References(f)
  BY DEF References
<1>3. CountsCover'
  BY <1>2 DEF Inv, CountsCover
<1>4. SharedReadOnly'
  BY DEF Inv, SharedReadOnly
<1>. QED
  BY <1>1, <1>3, <1>4 DEF Inv

(***************************************************************************)
(* Every step keeps the invariant.                                         *)
(***************************************************************************)
LEMMA InitInv == Init => Inv
<1>. SUFFICES ASSUME Init PROVE Inv
  OBVIOUS
<1>1. Types
  BY CowAssumption DEF Init, Types, NoPages
<1>2. OncePerTable /\ EndedEmpty /\ SharedReadOnly
  BY CowAssumption DEF Init, OncePerTable, EndedEmpty, SharedReadOnly, NoPages
<1>3. \A f \in Frame : References(f) = {}
  BY CowAssumption DEF Init, References, NoPages
<1>4. CountsCover
  BY <1>3, FS_EmptySet DEF Init, CountsCover
<1>. QED
  BY <1>1, <1>2, <1>4 DEF Inv

LEMMA StepInv == Inv /\ [Next]_vars => Inv'
<1>. SUFFICES ASSUME Inv, [Next]_vars PROVE Inv'
  OBVIOUS
<1>1. ASSUME NEW p \in Page, PageNotPresent(p) PROVE Inv'
  BY <1>1, PageNotPresentInv
<1>2. ASSUME NEW p \in Page, PagePresentWrite(p) PROVE Inv'
  BY <1>2, PagePresentWriteInv
<1>3. ASSUME NEW p \in Page, NEW v \in Value, Write(p, v) PROVE Inv'
  <2>1. Types'
    BY <1>3 DEF Inv, Types, Write
  <2>. QED
    BY <1>3, <2>1, SameTables DEF Write
<1>4. ASSUME NEW c \in Task, Fork(c) PROVE Inv'
  BY <1>4, ForkInv
<1>5. ASSUME NEW p \in Page, ForkFails(p) PROVE Inv'
  BY <1>5, ForkFailsInv
<1>6. ASSUME NEW p \in Page, Munmap(p) PROVE Inv'
  BY <1>6, MunmapInv
<1>7. ASSUME Exec PROVE Inv'
  BY <1>7, ExecInv
<1>8. ASSUME Exit PROVE Inv'
  BY <1>8, ExitsInv DEF Exit, Inv, Types
<1>9. ASSUME Switch PROVE Inv'
  <2>1. Types'
    BY <1>9, CowAssumption DEF Inv, Types, Switch
  <2>. QED
    BY <1>9, <2>1, SameTables DEF Switch
<1>10. ASSUME UNCHANGED vars PROVE Inv'
  <2>1. Types'
    BY <1>10 DEF vars, Inv, Types
  <2>. QED
    BY <1>10, <2>1, SameTables DEF vars
<1>. QED
  BY <1>1, <1>2, <1>3, <1>4, <1>5, <1>6, <1>7, <1>8, <1>9, <1>10 DEF Next

LEMMA InvKept == Spec => []Inv
<1>. QED
  BY InitInv, StepInv, PTL DEF Spec

(***************************************************************************)
(* CountsStayCovered: whatever forks fail and whatever exits leave their   *)
(* references behind, the count of a frame is never below the number of    *)
(* entries that map it, and a free frame is mapped by nobody.              *)
(***************************************************************************)
THEOREM CountsStayCovered == Spec => []CountsCover
<1>1. Inv => CountsCover
  BY DEF Inv
<1>. QED
  BY <1>1, InvKept, PTL

(***************************************************************************)
(* SharedStaysReadOnly: a frame that two page tables map is marked, and    *)
(* none of them lets its process write to it.                              *)
(***************************************************************************)
THEOREM SharedStaysReadOnly == Spec => []SharedReadOnly
<1>1. Inv => SharedReadOnly
  BY DEF Inv
<1>. QED
  BY <1>1, InvKept, PTL
-----------------------------------------------------------------------------
(***************************************************************************)
(* What the processes see, entry by entry, before and after a step.        *)
(***************************************************************************)
Views == [Task -> [Page -> Value \cup {None}]]

LEMMA ViewAt ==
  ASSUME Types
  PROVE  /\ View \in Views
         /\ \A t \in Task, p \in Page :
              View[t][p] = IF pte[t][p] # None THEN mem[pte[t][p]] ELSE None
<1>1. \A t \in Task, p \in Page : pte[t][p] # None => mem[pte[t][p]] \in Value
  BY DEF Types
<1>. QED
  BY <1>1 DEF View, Views

LEMMA ViewAfter ==
  ASSUME Types'
  PROVE  /\ View' \in Views
         /\ \A t \in Task, p \in Page :
              View'[t][p] = IF pte'[t][p] # None THEN mem'[pte'[t][p]] ELSE None
<1>1. \A t \in Task, p \in Page : pte'[t][p] # None => mem'[pte'[t][p]] \in Value
  BY DEF Types
<1>. QED
  BY <1>1 DEF View, Views

(***************************************************************************)
(* Two views are the same when their entries are.                          *)
(***************************************************************************)
LEMMA SameView ==
  ASSUME NEW V \in Views, NEW W \in Views,
         \A t \in Task, p \in Page : V[t][p] = W[t][p]
  PROVE  V = W
<1>1. \A t \in Task : V[t] \in [Page -> Value \cup {None}] /\ W[t] \in [Page -> Value \cup {None}]
  BY DEF Views
<1>2. ASSUME NEW t \in Task PROVE V[t] = W[t]
  BY <1>1
<1>. QED
  BY <1>2 DEF Views

(***************************************************************************)
(* The steps of PrivateMemory, entry by entry.                             *)
(***************************************************************************)
Abstract == [Private!Next]_(Private!vars)

LEMMA SeenUnchanged ==
  ASSUME Types, Types', live' = live,
         \A t \in Task, p \in Page : View'[t][p] = View[t][p]
  PROVE  Abstract
<1>1. View \in Views /\ View' \in Views
  BY ViewAt, ViewAfter
<1>2. View' = View
  BY <1>1, SameView
<1>. QED
  BY <1>2 DEF Abstract, Private!vars

LEMMA SeenSet ==
  ASSUME Types, Types', live' = live, NEW u \in live, NEW q \in Page,
         View'[u][q] \in Value,
         \A t \in Task, p \in Page : ~(t = u /\ p = q) => View'[t][p] = View[t][p]
  PROVE  Abstract
<1>. DEFINE W == [View EXCEPT ![u][q] = View'[u][q]]
<1>1. View \in Views /\ View' \in Views /\ u \in Task
  BY ViewAt, ViewAfter DEF Types
<1>2. W \in Views
  BY <1>1 DEF Views
<1>3. \A t \in Task, p \in Page : View'[t][p] = W[t][p]
  BY <1>1 DEF Views
<1>4. View' = W
  <2>. HIDE DEF W
  <2>. QED
    BY <1>1, <1>2, <1>3, SameView
<1>. QED
  BY <1>4 DEF Abstract, Private!Next, Private!Set

LEMMA SeenDrop ==
  ASSUME Types, Types', live' = live, NEW u \in live,
         \A p \in Page : View'[u][p] \in {View[u][p], None},
         \A t \in Task, p \in Page : t # u => View'[t][p] = View[t][p]
  PROVE  Abstract
<1>. DEFINE W == [View EXCEPT ![u] = View'[u]]
<1>1. View \in Views /\ View' \in Views /\ u \in Task
  BY ViewAt, ViewAfter DEF Types
<1>2. W \in Views
  BY <1>1 DEF Views
<1>3. \A t \in Task, p \in Page : View'[t][p] = W[t][p]
  BY <1>1 DEF Views
<1>4. View' = W
  <2>. HIDE DEF W
  <2>. QED
    BY <1>1, <1>2, <1>3, SameView
<1>. QED
  BY <1>4 DEF Abstract, Private!Next, Private!Drop

LEMMA SeenFork ==
  ASSUME Types, Types', NEW u \in live, NEW c \in Task \ live,
         live' = live \cup {c},
         \A p \in Page : View'[c][p] = View[u][p],
         \A t \in Task, p \in Page : t # c => View'[t][p] = View[t][p]
  PROVE  Abstract
<1>. DEFINE W == [View EXCEPT ![c] = View[u]]
<1>1. View \in Views /\ View' \in Views /\ u \in Task
  BY ViewAt, ViewAfter DEF Types
<1>2. W \in Views
  BY <1>1 DEF Views
<1>3. \A t \in Task, p \in Page : View'[t][p] = W[t][p]
  BY <1>1 DEF Views
<1>4. View' = W
  <2>. HIDE DEF W
  <2>. QED
    BY <1>1, <1>2, <1>3, SameView
<1>. QED
  BY <1>4 DEF Abstract, Private!Next, Private!Fork

LEMMA SeenExit ==
  ASSUME Types, Types', NEW u \in live, live' = live \ {u},
         \A p \in Page : View'[u][p] = None,
         \A t \in Task, p \in Page : t # u => View'[t][p] = View[t][p]
  PROVE  Abstract
<1>. DEFINE W == [View EXCEPT ![u] = Private!Unmapped]
<1>1. View \in Views /\ View' \in Views /\ u \in Task
  BY ViewAt, ViewAfter DEF Types
<1>2. W \in Views
  BY <1>1 DEF Views, Private!Unmapped
<1>3. \A t \in Task, p \in Page : View'[t][p] = W[t][p]
  BY <1>1 DEF Views, Private!Unmapped
<1>4. View' = W
  <2>. HIDE DEF W
  <2>. QED
    BY <1>1, <1>2, <1>3, SameView
<1>. QED
  BY <1>4 DEF Abstract, Private!Next, Private!Exit
-----------------------------------------------------------------------------
(***************************************************************************)
(* What each step of CowMemory looks like.                                 *)
(***************************************************************************)
LEMMA ExitsSeen ==
  ASSUME Inv, Inv', current # None, Exits, mem' = mem
  PROVE  Abstract
<1>1. Types /\ Types' /\ current \in live /\ current \in Task
  BY DEF Inv, Types
<1>2. live' = live \ {current}
  BY DEF Exits
<1>3. \A t \in Task, p \in Page :
        pte'[t][p] = IF t = current THEN None ELSE pte[t][p]
  BY <1>1 DEF Exits, Types, NoPages
<1>4. \A p \in Page : View'[current][p] = None
  BY <1>1, <1>3, ViewAfter
<1>5. \A t \in Task, p \in Page : t # current => View'[t][p] = View[t][p]
  BY <1>1, <1>3, ViewAt, ViewAfter
<1>. QED
  BY <1>1, <1>2, <1>4, <1>5, SeenExit

(***************************************************************************)
(* Entries and contents that stay are seen unchanged.                      *)
(***************************************************************************)
LEMMA SameEntry ==
  ASSUME Types, Types', NEW t \in Task, NEW p \in Page, pte'[t][p] = pte[t][p],
         pte[t][p] # None => mem'[pte[t][p]] = mem[pte[t][p]]
  PROVE  View'[t][p] = View[t][p]
BY ViewAt, ViewAfter

LEMMA PageNotPresentSeen ==
  ASSUME Inv, Inv', NEW p \in Page, PageNotPresent(p)
  PROVE  Abstract
<1>. DEFINE f == alloc_phys_page
<1>1. Types /\ Types' /\ current # None /\ current \in live /\ current \in Task
  BY DEF Inv, Types, PageNotPresent
<1>2. CASE free # {} /\ MapPage(p, f) /\ UNCHANGED <<live, mem>>
  <2>1. f \in Frame /\ f # None
    BY <1>1, <1>2, AllocatedFree, CowAssumption DEF Types
  <2>. HIDE DEF f
  <2>2. pte'[current][p] = f
        /\ \A t \in Task, q \in Page : ~(t = current /\ q = p) => pte'[t][q] = pte[t][q]
    BY <1>1, <1>2, <2>1, MapPageFacts
  <2>3. View'[current][p] \in Value
    <3>1. View'[current][p] = mem'[f]
      BY <1>1, <2>1, <2>2, ViewAfter
    <3>2. mem'[f] \in Value
      BY <1>1, <2>1 DEF Types
    <3>. QED
      BY <3>1, <3>2
  <2>4. \A t \in Task, q \in Page : ~(t = current /\ q = p) => View'[t][q] = View[t][q]
    BY <1>1, <1>2, <2>2, SameEntry
  <2>. QED
    BY <1>1, <1>2, <2>3, <2>4, SeenSet
<1>3. CASE Exits /\ mem' = mem
  BY <1>1, <1>3, ExitsSeen
<1>. QED
  BY <1>2, <1>3 DEF PageNotPresent

(***************************************************************************)
(* Resolving a write fault is not seen: the page taken over stays, the one *)
(* copied goes to a frame that nobody maps.                                *)
(***************************************************************************)
LEMMA TakeOverSeen ==
  ASSUME Inv, Inv', current # None, NEW p \in Page, NEW f \in Frame,
         f = pte[current][p], TakeOver(p, f)
  PROVE  Abstract
<1>1. Types /\ Types' /\ current \in live /\ current \in Task
  BY DEF Inv, Types
<1>2. MapPage(p, f) /\ live' = live /\ mem' = mem
  BY DEF TakeOver
<1>3. \A t \in Task, q \in Page : pte'[t][q] = pte[t][q]
  <2>1. pte'[current][p] = f
        /\ \A t \in Task, q \in Page : ~(t = current /\ q = p) => pte'[t][q] = pte[t][q]
    BY <1>1, <1>2, MapPageFacts
  <2>. QED
    BY <2>1
<1>4. \A t \in Task, q \in Page : View'[t][q] = View[t][q]
  BY <1>1, <1>2, <1>3, SameEntry
<1>. QED
  BY <1>1, <1>2, <1>4, SeenUnchanged

LEMMA CopyPageSeen ==
  ASSUME Inv, Inv', current # None, NEW p \in Page, NEW f \in Frame,
         f = pte[current][p], CopyPage(p, f)
  PROVE  Abstract
<1>. DEFINE g == alloc_phys_page
<1>1. Types /\ Types' /\ current \in live /\ current \in Task /\ f # None
  BY CowAssumption DEF Inv, Types
<1>2. CASE free # {} /\ MapPage(p, g) /\ live' = live /\ mem' = [mem EXCEPT ![g] = mem[f]]
  <2>1. g \in free /\ g \in Frame /\ g # None
    BY <1>1, <1>2, AllocatedFree, CowAssumption DEF Types
  <2>. HIDE DEF g
  <2>2. pte'[current][p] = g
        /\ \A t \in Task, q \in Page : ~(t = current /\ q = p) => pte'[t][q] = pte[t][q]
    BY <1>1, <1>2, <2>1, MapPageFacts
  <2>3. mem'[g] = mem[f] /\ \A h \in Frame : h # g => mem'[h] = mem[h]
    BY <1>1, <1>2, <2>1 DEF Types
  <2>4. View'[current][p] = View[current][p]
    BY <1>1, <2>1, <2>2, <2>3, ViewAt, ViewAfter
  <2>5. ASSUME NEW t \in Task, NEW q \in Page, ~(t = current /\ q = p)
        PROVE  View'[t][q] = View[t][q]
    <3>1. pte'[t][q] = pte[t][q]
      BY <2>2, <2>5
    <3>2. pte[t][q] # g
      BY <2>1, FreeUnmapped
    <3>3. pte[t][q] # None => mem'[pte[t][q]] = mem[pte[t][q]]
      BY <1>1, <2>3, <3>2 DEF Types
    <3>. QED
      BY <1>1, <3>1, <3>3, SameEntry
  <2>. QED
    BY <1>1, <1>2, <2>4, <2>5, SeenUnchanged
<1>3. CASE Exits /\ mem' = mem
  BY <1>1, <1>3, ExitsSeen
<1>. QED
  BY <1>2, <1>3 DEF CopyPage

LEMMA PagePresentWriteSeen ==
  ASSUME Inv, Inv', NEW p \in Page, PagePresentWrite(p)
  PROVE  Abstract
<1>. DEFINE f == pte[current][p]
<1>1. current # None /\ f # None
  BY DEF PagePresentWrite
<1>2. f \in Frame
  BY <1>1 DEF Inv, Types
<1>3. TakeOver(p, f) \/ CopyPage(p, f) \/ (Exits /\ mem' = mem)
  BY DEF PagePresentWrite
<1>. HIDE DEF f
<1>. QED
  BY <1>1, <1>2, <1>3, TakeOverSeen, CopyPageSeen, ExitsSeen DEF f

(***************************************************************************)
(* A store that the page table allows goes to a frame of the process's     *)
(* own.                                                                    *)
(***************************************************************************)
LEMMA WriteSeen ==
  ASSUME Inv, Inv', tlb = {}, NEW p \in Page, NEW v \in Value, Write(p, v)
  PROVE  Abstract
<1>. DEFINE f == pte[current][p]
<1>1. Types /\ Types' /\ current \in live /\ current \in Task
      /\ f # None /\ f \in Frame /\ p \in rw[current]
  <2>1. Types /\ Types' /\ current # None /\ f # None /\ p \in rw[current]
    BY DEF Inv, Write
  <2>. QED
    BY <2>1 DEF Types
<1>2. pte' = pte /\ live' = live /\ mem' = [mem EXCEPT ![f] = v]
  BY DEF Write
<1>3. mem'[f] = v /\ \A h \in Frame : h # f => mem'[h] = mem[h]
  BY <1>1, <1>2 DEF Types
<1>4. View'[current][p] \in Value
  BY <1>1, <1>2, <1>3, ViewAfter
<1>5. ASSUME NEW t \in Task, NEW q \in Page, ~(t = current /\ q = p)
      PROVE  View'[t][q] = View[t][q]
  <2>1. pte[t][q] # f
    <3>1. CASE t \in live
      BY <1>1, <1>5, <3>1, SharedEntry
    <3>2. CASE t \notin live
      BY <1>1, <3>2 DEF Inv, EndedEmpty, NoPages
    <3>. QED
      BY <3>1, <3>2
  <2>2. pte[t][q] # None => mem'[pte[t][q]] = mem[pte[t][q]]
    BY <1>1, <1>3, <2>1 DEF Types
  <2>. QED
    BY <1>1, <1>2, <2>2, SameEntry
<1>. QED
  BY <1>1, <1>2, <1>4, <1>5, SeenSet

LEMMA ForkSeen ==
  ASSUME Inv, Inv', NEW c \in Task, Fork(c)
  PROVE  Abstract
<1>1. Types /\ Types' /\ current \in live /\ current \in Task /\ c \in Task \ live
  BY DEF Inv, Types, Fork
<1>2. live' = live \cup {c} /\ mem' = mem
  BY DEF Fork
<1>3. \A t \in Task, p \in Page :
        pte'[t][p] = IF t = c THEN pte[current][p] ELSE pte[t][p]
  BY <1>1 DEF Fork, Types
<1>4. \A p \in Page : View'[c][p] = View[current][p]
  BY <1>1, <1>2, <1>3, ViewAt, ViewAfter
<1>5. \A t \in Task, p \in Page : t # c => View'[t][p] = View[t][p]
  BY <1>1, <1>2, <1>3, SameEntry
<1>. QED
  BY <1>1, <1>2, <1>4, <1>5, SeenFork

(***************************************************************************)
(* munmap and exec give pages back and touch nothing else.                 *)
(***************************************************************************)
LEMMA GivenBackSeen ==
  ASSUME Inv, Inv', current # None, UNCHANGED <<live, mem>>,
         \A t \in Task, p \in Page :
           \/ pte'[t][p] = pte[t][p]
           \/ t = current /\ pte'[t][p] = None
  PROVE  Abstract
<1>1. Types /\ Types' /\ current \in live /\ current \in Task
  BY DEF Inv, Types
<1>2. \A p \in Page : View'[current][p] \in {View[current][p], None}
  <2>. SUFFICES ASSUME NEW p \in Page PROVE View'[current][p] \in {View[current][p], None}
    OBVIOUS
  <2>1. CASE pte'[current][p] = pte[current][p]
    BY <1>1, <2>1, SameEntry
  <2>2. CASE pte'[current][p] = None
    BY <1>1, <2>2, ViewAfter
  <2>. QED
    BY <1>1, <2>1, <2>2
<1>3. \A t \in Task, p \in Page : t # current => View'[t][p] = View[t][p]
  BY <1>1, SameEntry
<1>. QED
  BY <1>1, <1>2, <1>3, SeenDrop

LEMMA MunmapSeen ==
  ASSUME Inv, Inv', NEW first \in Page, Munmap(first)
  PROVE  Abstract
<1>1. current # None /\ UNCHANGED <<live, mem>>
  BY DEF Munmap
<1>2. \A t \in Task, p \in Page :
        \/ pte'[t][p] = pte[t][p]
        \/ t = current /\ pte'[t][p] = None
  BY <1>1 DEF Munmap, Inv, Types
<1>. QED
  BY <1>1, <1>2, GivenBackSeen

LEMMA ExecSeen ==
  ASSUME Inv, Inv', Exec
  PROVE  Abstract
<1>1. current # None /\ UNCHANGED <<live, mem>>
  BY DEF Exec
<1>2. \A t \in Task, p \in Page :
        \/ pte'[t][p] = pte[t][p]
        \/ t = current /\ pte'[t][p] = None
  BY <1>1 DEF Exec, Inv, Types, NoPages
<1>. QED
  BY <1>1, <1>2, GivenBackSeen

LEMMA TablesKeptSeen ==
  ASSUME Inv, Inv', UNCHANGED <<live, pte, mem>>
  PROVE  Abstract
<1>1. View' = View
  BY DEF View
<1>. QED
  BY <1>1 DEF Abstract, Private!vars
-----------------------------------------------------------------------------
LEMMA StepSeen ==
  ASSUME Cached = {}, Inv, Inv', [Next]_vars
  PROVE  Abstract
<1>0. tlb = {}
  BY DEF Inv, Types
<1>1. ASSUME NEW p \in Page, PageNotPresent(p) PROVE Abstract
  BY <1>1, PageNotPresentSeen
<1>2. ASSUME NEW p \in Page, PagePresentWrite(p) PROVE Abstract
  BY <1>2, PagePresentWriteSeen
<1>3. ASSUME NEW p \in Page, NEW v \in Value, Write(p, v) PROVE Abstract
  BY <1>0, <1>3, WriteSeen
<1>4. ASSUME NEW c \in Task, Fork(c) PROVE Abstract
  BY <1>4, ForkSeen
<1>5. ASSUME NEW p \in Page, ForkFails(p) PROVE Abstract
  BY <1>5, TablesKeptSeen DEF ForkFails
<1>6. ASSUME NEW p \in Page, Munmap(p) PROVE Abstract
  BY <1>6, MunmapSeen
<1>7. ASSUME Exec PROVE Abstract
  BY <1>7, ExecSeen
<1>8. ASSUME Exit PROVE Abstract
  BY <1>8, ExitsSeen DEF Exit
<1>9. ASSUME Switch PROVE Abstract
  BY <1>9, TablesKeptSeen DEF Switch
<1>10. ASSUME UNCHANGED vars PROVE Abstract
  BY <1>10, TablesKeptSeen DEF vars
<1>. QED
  BY <1>1, <1>2, <1>3, <1>4, <1>5, <1>6, <1>7, <1>8, <1>9, <1>10 DEF Next

LEMMA InitSeen == Init => Private!Init
BY CowAssumption DEF Init, Private!Init, View, NoPages, Private!Unmapped

(***************************************************************************)
(* CopyOnWriteIsPrivate: with a TLB that keeps no writable translation,    *)
(* demand paging, copy-on-write, failed forks, munmap and exec show every  *)
(* process memory of its own that fork copies, however many processes,     *)
(* pages and frames there are.                                             *)
(***************************************************************************)
THEOREM CopyOnWriteIsPrivate ==
  ASSUME Cached = {}
  PROVE  Spec => ImplementsPrivateMemory
<1>1. Inv /\ Inv' /\ [Next]_vars => [Private!Next]_(Private!vars)
  BY StepSeen DEF Abstract
<1>. QED
  BY <1>1, InitSeen, InvKept, PTL DEF Spec, ImplementsPrivateMemory, Private!Spec
=============================================================================
