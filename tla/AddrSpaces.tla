----------------------------- MODULE AddrSpaces -----------------------------
(***************************************************************************)
(* The page allocator (kernel/memory/memory.c) and the user address spaces *)
(* (kernel/proc/proc.c, loader.c, brk, mmap and munmap of kernel/system/   *)
(* syscall.c): which physical page belongs to whom.  The loops over pages  *)
(* are steps of their own, so that running out of pages is met at every    *)
(* page; the kernel is not preempted, so op does not overlap with another  *)
(* call.  The 1 GiB of user addresses is one entry of the root table: a    *)
(* space has a root, one table of level 1 and a table of level 0 for each  *)
(* region.  An address is a page number.                                   *)
(***************************************************************************)
EXTENDS Integers, FiniteSets, FiniteSetsExt

CONSTANTS
    Procs,        \* the processes
    First,        \* the process made at boot
    Phys,         \* the pages of the free list at boot
    Shared,       \* pages of the frame buffers, which no process owns
    NoPage,       \* in place of a page: none
    Top,          \* as.end - as.start, in pages
    StackPages,   \* pages of the user stack; KSTACK_PAGENUM is the same number
    ProgPages,    \* pages of the program image, from the bottom
    RegionSize    \* pages under one table of level 0

ASSUME SpaceAssumption ==
    /\ First \in Procs
    /\ NoPage \notin Phys \cup Shared /\ Phys \cap Shared = {}
    /\ Phys # {}
    /\ Top \in Nat /\ StackPages \in Nat /\ ProgPages \in Nat
    /\ ProgPages + StackPages <= Top
    /\ RegionSize \in Nat \ {0}

VARIABLES
    free,         \* kmem.freelist
    live,         \* processes with an address space
    root, l1, l0, \* the table pages of each process
    pte,          \* the page mapped at each address
    max_brk,      \* end of the heap
    mmap_base,    \* start of what mmap has given out; NoBase before the first
    op,           \* the call that runs, and the addresses it has still to map
    panicked,     \* the message of panic, or ""
    lost          \* pages no table and no list leads to any more (not in the code)

tables == <<root, l1, l0, pte>>
vars == <<free, live, root, l1, l0, pte, max_brk, mmap_base, op, panicked, lost>>

VA == 0..(Top - 1)
Region(va) == va \div RegionSize
Regions == {Region(va) : va \in VA}
StackBottom == Top - StackPages
Image == 0..(ProgPages - 1)
Stack == StackBottom..(Top - 1)
NoBase == -1     \* 0 in the code, where no user address is 0

NoTables == [r \in Regions |-> NoPage]
NoMap == [va \in VA |-> NoPage]
Idle == [k |-> "idle", p |-> First, from |-> First, todo |-> {}, brk |-> 0]
Kinds == {"idle", "exec", "brk", "mmap", "mmapfd", "fork", "forkfail"}

\* One type invariant for the module.
TypeOK ==
    /\ free \subseteq Phys /\ lost \subseteq Phys
    /\ live \subseteq Procs
    /\ root \in [Procs -> Phys \cup {NoPage}]
    /\ l1 \in [Procs -> Phys \cup {NoPage}]
    /\ l0 \in [Procs -> [Regions -> Phys \cup {NoPage}]]
    /\ pte \in [Procs -> [VA -> Phys \cup Shared \cup {NoPage}]]
    /\ max_brk \in [Procs -> 0..Top]
    /\ mmap_base \in [Procs -> {NoBase} \cup 0..Top]
    /\ op \in [k : Kinds, p : Procs, from : Procs, todo : SUBSET VA, brk : 0..Top]
    /\ panicked \in {"", "out of memory", "remap", "map_pages failed"}

\* kalloc takes the page at the head of the list; which one it is does not matter.
kalloc(S) == CHOOSE x \in S : TRUE

\* The boot has made the root table of the first process and starts to load it.
Init ==
    /\ live = {First}
    /\ root = [p \in Procs |-> IF p = First THEN kalloc(Phys) ELSE NoPage]
    /\ free = Phys \ {kalloc(Phys)}
    /\ l1 = [p \in Procs |-> NoPage]
    /\ l0 = [p \in Procs |-> NoTables]
    /\ pte = [p \in Procs |-> NoMap]
    /\ max_brk = [p \in Procs |-> 0]
    /\ mmap_base = [p \in Procs |-> NoBase]
    /\ op = [k |-> "exec", p |-> First, from |-> First, todo |-> Stack \cup Image,
             brk |-> ProgPages]
    /\ panicked = "" /\ lost = {}

-----------------------------------------------------------------------------
(* Mapping one page.                                                       *)

\* Mutated form of walk: a table is made only when a page remains after it.
walk_reserve(p, va, S) ==
    LET t1 == IF l1[p] # NoPage THEN l1[p]
              ELSE IF S = {} THEN NoPage ELSE kalloc(S)
        left == IF l1[p] = NoPage THEN S \ {t1} ELSE S
        t0 == IF t1 = NoPage THEN NoPage
              ELSE IF l0[p][Region(va)] # NoPage THEN l0[p][Region(va)]
              ELSE IF Cardinality(left) < 2 THEN NoPage ELSE kalloc(left)
    IN  [level1 |-> t1, level0 |-> t0,
         left |-> IF l0[p][Region(va)] = NoPage THEN left \ {t0} ELSE left]

\* walk with alloc, when the pages of S are free: the two tables on the way to
\* va, and what is left of S.  level0 is NoPage when a table could not be had; a
\* table of level 1 made before stays.
walk(p, va, S) ==
    LET t1 == IF l1[p] # NoPage THEN l1[p]
              ELSE IF S = {} THEN NoPage ELSE kalloc(S)
        left == IF l1[p] = NoPage THEN S \ {t1} ELSE S
        t0 == IF t1 = NoPage THEN NoPage
              ELSE IF l0[p][Region(va)] # NoPage THEN l0[p][Region(va)]
              ELSE IF left = {} THEN NoPage ELSE kalloc(left)
    IN  [level1 |-> t1, level0 |-> t0,
         left |-> IF l0[p][Region(va)] = NoPage THEN left \ {t0} ELSE left]

\* The pages of a process: what it owns, and its tables.
OwnedPages(p) == {pte[p][va] : va \in VA} \cap Phys
TablePages(p) == ({root[p], l1[p]} \cup {l0[p][r] : r \in Regions}) \cap Phys

\* Mutated form of reclaimed: the pages are freed and not the tables of level 0.
reclaimed_no_tables(p) == OwnedPages(p) \cup ({root[p], l1[p]} \cap Phys)

\* What free_user_pages frees: pages that are not PTE_SHARED, and every table.
reclaimed(p) == OwnedPages(p) \cup TablePages(p)

\* The address op maps next, and where the page comes from: NoPage stands for a
\* new page, anything else is a page of a frame buffer.
NextVA == Min(op.todo)
sources ==
    CASE op.k = "mmapfd" -> Shared
      [] op.k = "fork" -> {IF pte[op.from][NextVA] \in Shared THEN pte[op.from][NextVA]
                           ELSE NoPage}
      [] OTHER -> {NoPage}

page_from(pa) == IF pa = NoPage THEN kalloc(free) ELSE pa
Walk(pa) == walk(op.p, NextVA, free \ {page_from(pa)})

\* map_pages for one page: the tables on the way are made and the page is mapped.
map_page(pa) ==
    LET w == Walk(pa) IN
    /\ pa = NoPage => free # {}
    /\ w.level0 # NoPage
    /\ pte[op.p][NextVA] = NoPage
    /\ pte' = [pte EXCEPT ![op.p][NextVA] = page_from(pa)]
    /\ free' = w.left
    /\ l1' = [l1 EXCEPT ![op.p] = w.level1]
    /\ l0' = [l0 EXCEPT ![op.p][Region(NextVA)] = w.level0]
    /\ op' = [op EXCEPT !.todo = @ \ {NextVA}]
    /\ UNCHANGED <<live, root, max_brk, mmap_base, panicked, lost>>

\* mmap and fork give up when there is no page for a table.  A new page that was
\* to be mapped is in no list any more.
map_page_fails(pa) ==
    LET w == Walk(pa) IN
    /\ op.k \in {"mmap", "mmapfd", "fork"}
    /\ pa = NoPage => free # {}
    /\ w.level0 = NoPage
    /\ free' = w.left
    /\ l1' = [l1 EXCEPT ![op.p] = w.level1]
    /\ lost' = lost \cup ({page_from(pa)} \cap Phys)
    /\ op' = IF op.k = "fork" THEN [op EXCEPT !.k = "forkfail"] ELSE Idle
    /\ UNCHANGED <<live, root, l0, pte, max_brk, mmap_base, panicked>>

\* new_page, map and map_pages panic, which stops the machine.
map_page_panics(pa) ==
    LET w == Walk(pa) IN
    /\ \/ pa = NoPage /\ free = {} /\ panicked' = "out of memory"
       \/ /\ pa = NoPage => free # {}
          /\ w.level0 = NoPage /\ op.k \in {"exec", "brk"}
          /\ panicked' = "map_pages failed"
       \/ /\ pa = NoPage => free # {}
          /\ w.level0 # NoPage /\ pte[op.p][NextVA] # NoPage
          /\ panicked' = "remap"
    /\ UNCHANGED <<free, live, tables, max_brk, mmap_base, op, lost>>

\* A turn of the loop over pages of the call that runs.
turn ==
    /\ panicked = "" /\ op.todo # {} /\ op.k # "forkfail"
    /\ \E pa \in sources : map_page(pa) \/ map_page_fails(pa) \/ map_page_panics(pa)

\* The loop is done; brk and exec set the end of the heap.
finish ==
    /\ panicked = "" /\ op.k \notin {"idle", "forkfail"} /\ op.todo = {}
    /\ max_brk' = [max_brk EXCEPT ![op.p] = op.brk]
    /\ op' = Idle
    /\ UNCHANGED <<free, live, tables, mmap_base, panicked, lost>>

-----------------------------------------------------------------------------
(* The calls.                                                              *)

Calls(p) == panicked = "" /\ op.k = "idle" /\ p \in live

\* sys_brk: the heap grows page by page and never shrinks; where the stack and
\* the mappings are is not looked at.
sys_brk(p, b) ==
    /\ Calls(p)
    /\ b > max_brk[p]
    /\ op' = [k |-> "brk", p |-> p, from |-> p, todo |-> max_brk[p]..(b - 1), brk |-> b]
    /\ UNCHANGED <<free, live, tables, max_brk, mmap_base, panicked, lost>>

mmap_top(p) == IF mmap_base[p] = NoBase THEN StackBottom ELSE mmap_base[p]

\* The range of n pages below the last one lies above the heap.
mmap_fits(p, n) == mmap_top(p) - n >= max_brk[p]

\* sys_mmap without an address: the range is given out downwards and is not given
\* back when a page of it cannot be mapped.  A mapping of a frame buffer that does
\* not exist yet fails at its first page.
sys_mmap(p, n, k) ==
    /\ Calls(p)
    /\ mmap_fits(p, n)
    /\ LET base == mmap_top(p) - n
       IN  /\ mmap_base' = [mmap_base EXCEPT ![p] = base]
           /\ op' \in {[k |-> k, p |-> p, from |-> p, todo |-> base..(base + n - 1),
                       brk |-> max_brk[p]]}
                    \cup IF k = "mmapfd" THEN {Idle} ELSE {}
    /\ UNCHANGED <<free, live, tables, max_brk, panicked, lost>>

\* The pages munmap frees.
unmapped(p, R) == {pte[p][va] : va \in R} \cap Phys

\* sys_munmap: pages that are not shared are freed, tables stay.  Programs unmap
\* what mmap has given them.
sys_munmap(p, R) ==
    /\ Calls(p)
    /\ free' = free \cup unmapped(p, R)
    /\ pte' = [pte EXCEPT ![p] = [va \in VA |-> IF va \in R THEN NoPage ELSE @[va]]]
    /\ UNCHANGED <<live, root, l1, l0, max_brk, mmap_base, op, panicked, lost>>

\* free_user_pages and the fields reset with it.
release(p) ==
    /\ free' = free \cup reclaimed(p)
    /\ root' = [root EXCEPT ![p] = NoPage]
    /\ l1' = [l1 EXCEPT ![p] = NoPage]
    /\ l0' = [l0 EXCEPT ![p] = NoTables]
    /\ pte' = [pte EXCEPT ![p] = NoMap]
    /\ max_brk' = [max_brk EXCEPT ![p] = 0]
    /\ mmap_base' = [mmap_base EXCEPT ![p] = NoBase]

\* terminate_proc.
terminate_proc(p) ==
    /\ Calls(p)
    /\ release(p)
    /\ live' = live \ {p}
    /\ UNCHANGED <<op, panicked, lost>>

\* execve: the old space is given up first (proc_exec_reclaim), then context_uload
\* makes a new root table, the stack and the program.
execve(p) ==
    /\ Calls(p)
    /\ LET S == free \cup reclaimed(p)
       IN  /\ root' = [root EXCEPT ![p] = kalloc(S)]
           /\ free' = S \ {kalloc(S)}
    /\ l1' = [l1 EXCEPT ![p] = NoPage]
    /\ l0' = [l0 EXCEPT ![p] = NoTables]
    /\ pte' = [pte EXCEPT ![p] = NoMap]
    /\ max_brk' = [max_brk EXCEPT ![p] = 0]
    /\ mmap_base' = [mmap_base EXCEPT ![p] = NoBase]
    /\ op' = [k |-> "exec", p |-> p, from |-> p, todo |-> Stack \cup Image,
              brk |-> ProgPages]
    /\ UNCHANGED <<live, panicked, lost>>

\* The child goes on giving out addresses where the parent stands.
child_base(p) == mmap_base[p]

\* proc_fork_current up to clone_user_pages: the child q gets a root table and
\* will get a copy of every page, or a share of it.
proc_fork_current(p, q) ==
    /\ Calls(p) /\ q \in Procs \ live
    /\ IF free = {}
       THEN /\ panicked' = "out of memory"
            /\ UNCHANGED <<free, live, tables, max_brk, mmap_base, op>>
       ELSE /\ root' = [root EXCEPT ![q] = kalloc(free)]
            /\ free' = free \ {kalloc(free)}
            /\ live' = live \cup {q}
            /\ max_brk' = [max_brk EXCEPT ![q] = max_brk[p]]
            /\ mmap_base' = [mmap_base EXCEPT ![q] = child_base(p)]
            /\ op' = [k |-> "fork", p |-> q, from |-> p,
                      todo |-> {va \in VA : pte[p][va] # NoPage}, brk |-> max_brk[p]]
            /\ UNCHANGED <<l1, l0, pte, panicked>>
    /\ UNCHANGED lost

\* The copy failed: the child is given up again (proc_exec_reclaim).
fork_fails ==
    /\ panicked = "" /\ op.k = "forkfail"
    /\ release(op.p)
    /\ live' = live \ {op.p}
    /\ op' = Idle
    /\ UNCHANGED <<panicked, lost>>

Next ==
    \/ turn
    \/ finish
    \/ fork_fails
    \/ \E p \in Procs :
        \/ \E b \in 1..Top : sys_brk(p, b)
        \/ \E n \in 1..Top, k \in {"mmap", "mmapfd"} : sys_mmap(p, n, k)
        \/ \E a, b \in mmap_top(p)..(StackBottom - 1) : sys_munmap(p, a..b)
        \/ terminate_proc(p)
        \/ execve(p)
        \/ \E q \in Procs : proc_fork_current(p, q)

Spec == Init /\ [][Next]_vars

-----------------------------------------------------------------------------
(* Properties.                                                             *)

\* The uses a page can be put to: every place that leads to it.
Uses(x) ==
    {<<"free">> : y \in {x} \cap free} \cup {<<"lost">> : y \in {x} \cap lost}
    \cup {<<"root", p>> : p \in {q \in Procs : root[q] = x}}
    \cup {<<"l1", p>> : p \in {q \in Procs : l1[q] = x}}
    \cup {<<"l0", c[1], c[2]>> : c \in {e \in Procs \X Regions : l0[e[1]][e[2]] = x}}
    \cup {<<"pte", c[1], c[2]>> : c \in {e \in Procs \X VA : pte[e[1]][e[2]] = x}}

\* A page is in one place: in the free list, one table, one mapping of one process
\* or lost.  None is given out twice, freed while in use, or forgotten, through
\* fork, exec, exit and mappings that fail half way.
OneUse == \A x \in Phys : \E u \in Uses(x) : Uses(x) = {u}

\* What a process has mapped is found again when its space is freed: its tables
\* lead there; and a process that is gone has neither pages nor tables.
TablesLead ==
    /\ \A p \in live : root[p] # NoPage
    /\ \A p \in Procs \ live : TablePages(p) \cup OwnedPages(p) = {}
    /\ \A p \in Procs, va \in VA : pte[p][va] # NoPage =>
            l1[p] # NoPage /\ l0[p][Region(va)] # NoPage
    /\ \A p \in Procs, r \in Regions : l0[p][r] # NoPage => l1[p] # NoPage

\* The panic "remap" is a heap that grows into a mapping or into the stack: mmap,
\* exec and fork never map an address twice.  A machine out of memory really is.
PanicJustified ==
    /\ panicked = "remap" => op.k = "brk" /\ NextVA >= mmap_top(op.p)
    /\ panicked = "out of memory" => free = {}

\* Between the heap and the mappings nothing is mapped; fork, and mmap calls that
\* fail half way, keep it so.
GapUnmapped ==
    \A p \in live, va \in VA :
        /\ ~(op.k \in {"brk", "exec"} /\ op.p = p)
        /\ max_brk[p] <= va /\ va < mmap_top(p)
        => pte[p][va] = NoPage

\* A page is lost only by a call that met the end of the memory.
LostOnlyAtTheEnd == [][lost' # lost => free' = {}]_vars

\* A page has one use, tables lead to what is mapped, and the one panic has its one
\* cause, in the middle of every call that may run out of pages (fork, brk, mmap,
\* execve, exit).
PagesConsistent ==
    /\ TypeOK
    /\ OneUse
    /\ TablesLead
    /\ PanicJustified
    /\ GapUnmapped
=============================================================================
