-------------------------------- MODULE Slab --------------------------------
(***************************************************************************)
(* The slab allocator of a shared memory zone (core/ngx_slab.c).            *)
(*                                                                          *)
(* The zone is an array of pages.  A run of free pages is described by its  *)
(* first page; runs are chained from pool->free.  A page cut into chunks of *)
(* 2^shift bytes is on the list of its size while it has a free chunk.      *)
(* Chunks smaller than the exact size keep their bitmap in the page itself, *)
(* so the first chunks of such a page are never handed out.                 *)
(*                                                                          *)
(* A page's prev field holds three things in turn: the link of its list,    *)
(* the type in its two low bits and, in the last page of a free run, the    *)
(* first page of the run.  Lists are sequences here (the code only pushes   *)
(* at the front and unlinks), the type and the back link have a field each; *)
(* the back link keeps its stale values as the code's field does.           *)
(*                                                                          *)
(* Every operation runs under the zone's mutex and is one action.           *)
(***************************************************************************)
EXTENDS Integers, Sequences, FiniteSets, SequencesExt, FiniteSetsExt

CONSTANTS
  NPages,       \* pages of the zone
  PageShift,    \* ngx_pagesize_shift
  ExactShift,   \* ngx_slab_exact_shift: as many chunks as a word has bits
  MinShift,     \* pool->min_shift
  Sizes,        \* the sizes asked for
  MaxBlocks     \* bound on the blocks held at a time

SlabAssumption ==
  /\ NPages \in Nat \ {0}
  /\ MinShift \in Nat /\ ExactShift \in Nat /\ PageShift \in Nat
  /\ MinShift <= ExactShift /\ ExactShift < PageShift
  /\ Sizes \subseteq Nat \ {0}
  /\ MaxBlocks \in Nat

Page == 0..(NPages - 1)
PageSize == 2^PageShift
MaxSize == PageSize \div 2
Shifts == MinShift..(PageShift - 1)
None == -1                     \* a NULL pointer

VARIABLES
  pool,     \* the pages array, the free list and the lists of the slots
  blocks    \* the blocks the callers hold

vars == <<pool, blocks>>

(* Values of page->slab while the page is not cut into chunks. *)
FREE == [n |-> 0, mark |-> "none"]
BUSY == [n |-> 0, mark |-> "busy"]
Start(n) == [n |-> n, mark |-> "start"]
Run(n) == [n |-> n, mark |-> "none"]

Chunk(shift) == 0..(2^(PageShift - shift) - 1)
Type(shift) == IF shift < ExactShift THEN "small"
               ELSE IF shift = ExactShift THEN "exact" ELSE "big"

(* The chunks of a page that hold its bitmap. *)
BitmapChunks(shift) ==
  IF shift >= ExactShift THEN {}
  ELSE LET n == (2^(PageShift - shift) \div 8) \div 2^shift
       IN 0..((IF n = 0 THEN 1 ELSE n) - 1)

(* ngx_slab_init() *)
Init ==
  /\ pool = [slab  |-> [p \in Page |-> IF p = 0 THEN Run(NPages) ELSE FREE],
             type  |-> [p \in Page |-> "page"],
             back  |-> [p \in Page |-> None],
             shift |-> [p \in Page |-> 0],
             used  |-> [p \in Page |-> {}],
             free  |-> <<0>>,
             slots |-> [s \in Shifts |-> <<>>]]
  /\ blocks = {}

-----------------------------------------------------------------------------
(* Mutant: the last page of what is left of a run is not told its new head. *)
AllocPagesStale(P, n) ==
  LET fits == {k \in DOMAIN P.free : P.slab[P.free[k]].n >= n}
      k == Min(fits)
      g == P.free[k]
      total == P.slab[g].n
      rest == g + n
  IN IF fits = {} THEN [pool |-> P, page |-> None]
     ELSE [page |-> g,
           pool |-> [P EXCEPT
             !.free = IF total > n THEN [@ EXCEPT ![k] = rest] ELSE RemoveAt(@, k),
             !.slab = [q \in Page |->
                         CASE q = g -> Start(n)
                           [] q \in (g + 1)..(rest - 1) -> BUSY
                           [] q = rest /\ total > n -> Run(total - n)
                           [] OTHER -> @[q]]]]

(* ngx_slab_alloc_pages(): the first free run that is long enough gives its *)
(* first n pages; what is left of it takes its place in the list.           *)
AllocPages(P, n) ==
  LET fits == {k \in DOMAIN P.free : P.slab[P.free[k]].n >= n}
      k == Min(fits)
      g == P.free[k]
      total == P.slab[g].n
      rest == g + n
  IN IF fits = {} THEN [pool |-> P, page |-> None]
     ELSE [page |-> g,
           pool |-> [P EXCEPT
             !.free = IF total > n THEN [@ EXCEPT ![k] = rest] ELSE RemoveAt(@, k),
             !.slab = [q \in Page |->
                         CASE q = g -> Start(n)
                           [] q \in (g + 1)..(rest - 1) -> BUSY
                           [] q = rest /\ total > n -> Run(total - n)
                           [] OTHER -> @[q]],
             !.back = [q \in Page |->
                         CASE q \in g..rest -> None
                           [] q = g + total - 1 /\ total > n -> rest
                           [] OTHER -> @[q]]]]

(* A page is linked (page->next is not NULL) when it is on some list. *)
Listed(P, p) == \/ \E k \in DOMAIN P.free : P.free[k] = p
                \/ \E s \in Shifts : \E k \in DOMAIN P.slots[s] : P.slots[s][k] = p

Unlink(P, p) ==
  [P EXCEPT !.free = SelectSeq(@, LAMBDA q : q # p),
            !.slots = [s \in Shifts |-> SelectSeq(@[s], LAMBDA q : q # p)]]

(* The join with the free run that ends just before page g: its last page   *)
(* points back to its first one.                                            *)
JoinPrevious(P, g) ==
  LET before == g - 1
      head == IF P.slab[before] = FREE THEN P.back[before] ELSE before
      Q == Unlink(P, head)
  IN IF g = 0 \/ P.type[before] # "page" \/ head = None \/ ~Listed(P, head)
       THEN [pool |-> P, page |-> g]
       ELSE [page |-> head,
             pool |-> [Q EXCEPT !.slab[head] = Run(P.slab[head].n + P.slab[g].n),
                                !.slab[g] = FREE, !.back[g] = None]]

(* The join with the free run that starts just behind the run of page g. *)
JoinNext(P, g) ==
  LET next == g + P.slab[g].n
  IN IF next >= NPages \/ P.type[next] # "page" \/ ~Listed(P, next)
       THEN P
       ELSE [Unlink(P, next) EXCEPT !.slab[g] = Run(P.slab[g].n + P.slab[next].n),
                                    !.slab[next] = FREE, !.back[next] = None]

(* ngx_slab_free_pages() *)
FreePages(P, g, n) ==
  LET cleared == [Unlink(P, g) EXCEPT
                    !.slab = [q \in Page |-> CASE q = g -> Run(n)
                                               [] q \in (g + 1)..(g + n - 1) -> FREE
                                               [] OTHER -> @[q]],
                    !.back = [q \in Page |-> IF q \in g..(g + n - 1) THEN None
                                             ELSE @[q]],
                    !.used[g] = {}, !.shift[g] = 0]
      joined == JoinPrevious(JoinNext(cleared, g), g)
      h == joined.page
      last == h + joined.pool.slab[h].n - 1
  IN [joined.pool EXCEPT
        !.type[g] = "page",
        !.back[last] = IF last > h THEN h ELSE None,
        !.free = <<h>> \o @]

-----------------------------------------------------------------------------
(* The size class of a request: at least the smallest one. *)
ShiftFor(size) == Min({s \in MinShift..PageShift : 2^s >= size})
PagesFor(size) == size \div PageSize + (IF size % PageSize # 0 THEN 1 ELSE 0)

Room(P, p) == Chunk(P.shift[p]) \ P.used[p]

(* The first free chunk of a page; a page that is full leaves its list. *)
TakeChunk(P, p) ==
  LET c == Min(Room(P, p))
      marked == [P EXCEPT !.used[p] = @ \cup {c}]
  IN [pool |-> IF Room(marked, p) = {} THEN Unlink(marked, p) ELSE marked,
      addr |-> p * PageSize + c * 2^P.shift[p]]

(* A fresh page for this size: its bitmap is marked, the chunk behind the   *)
(* bitmap is taken, and the list of the size now starts (and ends) with it. *)
CutPage(P, p, shift) ==
  LET first == Cardinality(BitmapChunks(shift))
  IN [pool |-> [P EXCEPT !.type[p] = Type(shift), !.shift[p] = shift,
                         !.used[p] = BitmapChunks(shift) \cup {first},
                         !.slots[shift] = <<p>>],
      addr |-> p * PageSize + first * 2^shift]

(* ngx_slab_alloc_locked() *)
Allocated(P, size) ==
  IF size > MaxSize
    THEN LET r == AllocPages(P, PagesFor(size))
         IN [pool |-> r.pool,
             addr |-> IF r.page = None THEN None ELSE r.page * PageSize]
    ELSE LET shift == ShiftFor(size)
             open == {k \in DOMAIN P.slots[shift] : Room(P, P.slots[shift][k]) # {}}
             r == AllocPages(P, 1)
         IN IF open # {} THEN TakeChunk(P, P.slots[shift][Min(open)])
            ELSE IF r.page = None THEN [pool |-> P, addr |-> None]
            ELSE CutPage(r.pool, r.page, shift)

Alloc(size) ==
  LET r == Allocated(pool, size)
  IN /\ Cardinality(blocks) < MaxBlocks
     /\ pool' = r.pool
     /\ blocks' = IF r.addr = None THEN blocks
                  ELSE blocks \cup {[addr |-> r.addr, size |-> size]}

(* A chunk is given back: a page that was full is pushed on its list, a     *)
(* page with nothing but its bitmap left is returned to the free pages.     *)
FreeChunk(P, p, c) ==
  LET s == P.shift[p]
      listed == IF Room(P, p) = {} THEN [P EXCEPT !.slots[s] = <<p>> \o @] ELSE P
      cleared == [listed EXCEPT !.used[p] = @ \ {c}]
  IN IF cleared.used[p] \ BitmapChunks(s) = {} THEN FreePages(cleared, p, 1)
     ELSE cleared

(* ngx_slab_free_locked() of a block its caller holds. *)
Freed(P, addr) ==
  LET p == addr \div PageSize
      c == (addr % PageSize) \div 2^P.shift[p]
  IN IF P.type[p] = "page" THEN FreePages(P, p, P.slab[p].n)
     ELSE FreeChunk(P, p, c)

Free(b) ==
  /\ b \in blocks
  /\ pool' = Freed(pool, b.addr)
  /\ blocks' = blocks \ {b}

Next == \/ \E size \in Sizes : Alloc(size)
        \/ \E b \in blocks : Free(b)

Spec == Init /\ [][Next]_vars

-----------------------------------------------------------------------------
Bytes(b) == b.addr..(b.addr + b.size - 1)
BitmapBytes == UNION {{p * PageSize + k : k \in 0..(Cardinality(BitmapChunks(pool.shift[p]))
                                                     * 2^pool.shift[p] - 1)}
                      : p \in {q \in Page : pool.type[q] = "small"}}

TypeOK ==
  /\ \A p \in Page : /\ pool.slab[p].n \in 0..NPages
                     /\ pool.slab[p].mark \in {"none", "busy", "start"}
                     /\ pool.type[p] \in {"page", "big", "exact", "small"}
                     /\ pool.back[p] \in Page \cup {None}
                     /\ pool.used[p] \subseteq Chunk(pool.shift[p])
  /\ pool.free \in Seq(Page) /\ \A s \in Shifts : pool.slots[s] \in Seq(Page)
  /\ \A b \in blocks : Bytes(b) \subseteq 0..(NPages * PageSize - 1)

(* Two blocks that callers hold never share a byte, and none of them covers *)
(* a bitmap that the allocator keeps inside a page.                         *)
NoOverlap ==
  /\ \A b, c \in blocks : b # c => Bytes(b) \cap Bytes(c) = {}
  /\ \A b \in blocks : Bytes(b) \cap BitmapBytes = {}

(* The pages no block touches. *)
Unused == {p \in Page : \A b \in blocks : b.addr \div PageSize > p
                        \/ (b.addr + b.size - 1) \div PageSize < p}

(* A request for pages fails only if the zone has no such stretch of unused *)
(* pages: nothing leaks, and the runs given back in any order are joined.   *)
PagesFound ==
  \A n \in 1..NPages :
    (\E p \in Page : p + n <= NPages /\ p..(p + n - 1) \subseteq Unused)
      => AllocPages(pool, n).page # None

(* The search for a chunk never runs off a list: every page of a list has   *)
(* the size of the list and a free chunk, and a page with a free chunk is   *)
(* on its list, so no page is cut while another one has room.               *)
ListsHaveRoom ==
  \A s \in Shifts : \A p \in Page :
    (\E k \in DOMAIN pool.slots[s] : pool.slots[s][k] = p)
      <=> (pool.type[p] # "page" /\ pool.shift[p] = s /\ Room(pool, p) # {})

(* The page just before a page in use knows the run it ends: the back link  *)
(* that ngx_slab_free_pages() is going to follow is never stale or NULL.    *)
BackLinksTrue ==
  \A p \in Page : p + 1 \in Page \ Unused /\ p \in Unused /\ pool.slab[p] = FREE
    => /\ pool.back[p] # None
       /\ \E k \in DOMAIN pool.free : pool.free[k] = pool.back[p]
       /\ pool.back[p] + pool.slab[pool.back[p]].n = p + 1

(* After any sequence of allocations and frees the zone is sound. *)
HeapSound == TypeOK /\ NoOverlap /\ PagesFound /\ ListsHaveRoom /\ BackLinksTrue


=============================================================================
