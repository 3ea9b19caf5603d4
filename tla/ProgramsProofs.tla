--------------------------- MODULE ProgramsProofs ---------------------------
(***************************************************************************)
(* Theorems about what a program is made of and found by.  For any number  *)
(* of processes, pages and addresses, a physical page has one use at every *)
(* step of every call, tables lead to what is mapped, and a page is lost   *)
(* only by a call that met the end of the memory.  For any tree of         *)
(* directories, the file manager's list is the directory it names, in      *)
(* order, with its selection on the screen.  Any program starts with the   *)
(* memory its file describes and the arguments it was given.  And any path *)
(* opens the file the host had there, and no other.                        *)
(***************************************************************************)
EXTENDS AddrSpaces, FileList, Exec, Lookup, SequenceTheorems, WellFoundedInduction, TLAPS

-----------------------------------------------------------------------------
(* Numbers and loops.                                                      *)

\* A nonempty set of naturals has a least element, and Min is it.
LEMMA MinMember ==
    ASSUME NEW S, S \subseteq Nat, S # {}
    PROVE  Min(S) \in S /\ \A j \in S : Min(S) <= j
  <1>1. PICK x \in S : \A y \in S : ~(<<y, x>> \in OpToRel(<, Nat))
    BY NatLessThanWellFounded, WFMin
  <1>2. \A y \in S : ~(y < x)
    BY <1>1, Zenon DEF OpToRel
  <1>3. \A y \in S : x <= y
    BY <1>2
  <1>. QED
    BY <1>3, Zenon DEF Min

\* Induction up to n: were there places outside P, the place before the first of
\* them would be inside.
LEMMA UpTo ==
    ASSUME NEW n \in Nat, NEW P, 0 \in P, \A i \in 0..(n - 1) : i \in P => i + 1 \in P
    PROVE  \A i \in 0..n : i \in P
  <1>. SUFFICES ASSUME (0..n) \ P # {} PROVE FALSE
    OBVIOUS
  <1>. DEFINE x == Min((0..n) \ P)
  <1>1. x \in (0..n) \ P /\ \A j \in (0..n) \ P : x <= j
    BY MinMember
  <1>. HIDE DEF x
  <1>2. x # 0 /\ x - 1 \in 0..(n - 1) /\ x - 1 + 1 = x
    BY <1>1
  <1>3. x - 1 \in P
    BY <1>1, <1>2
  <1>. QED
    BY <1>1, <1>2, <1>3

\* n turns of a loop: a row of values, each made of the one before.
Iterates(g, n, x, F) == g = [k \in 0..n |-> IF k = 0 THEN x ELSE F[<<g[k - 1], k>>]]

LEMMA RowExists ==
    ASSUME NEW n \in Nat, NEW T, NEW x \in T, NEW F \in [T \X (1..n) -> T]
    PROVE  \E g \in [0..n -> T] : Iterates(g, n, x, F)
  <1>. DEFINE good == {m \in 0..n : \E g \in [0..m -> T] : Iterates(g, m, x, F)}
  <1>1. 0 \in good
    <2>. DEFINE g == [k \in 0..0 |-> x]
    <2>1. g \in [0..0 -> T] /\ \A k \in 0..0 : k = 0
      OBVIOUS
    <2>2. Iterates(g, 0, x, F)
      BY <2>1 DEF Iterates
    <2>. QED
      BY <2>1, <2>2
  <1>2. ASSUME NEW l \in 0..(n - 1), l \in good PROVE l + 1 \in good
    <2>. DEFINE m == l + 1
    <2>0. m \in 1..n /\ m - 1 = l /\ m \in Nat
      OBVIOUS
    <2>. HIDE DEF m
    <2>1. PICK g \in [0..(m - 1) -> T] : Iterates(g, m - 1, x, F)
      BY <1>2, <2>0
    <2>2. g[m - 1] \in T /\ F[<<g[m - 1], m>>] \in T
      BY <2>0
    <2>. DEFINE h == [k \in 0..m |-> IF k = m THEN F[<<g[m - 1], m>>] ELSE g[k]]
    <2>3. h \in [0..m -> T]
      BY <2>0, <2>2
    <2>4. ASSUME NEW k \in 0..m
          PROVE  h[k] = IF k = 0 THEN x ELSE F[<<h[k - 1], k>>]
      <3>1. CASE k = 0
        <4>1. k \in 0..(m - 1) /\ k # m
          BY <2>0, <3>1
        <4>. QED
          BY <2>1, <3>1, <4>1 DEF Iterates
      <3>2. CASE k # 0 /\ k # m
        <4>1. k \in 0..(m - 1) /\ k - 1 \in 0..m /\ k - 1 # m
          BY <2>0, <3>2
        <4>2. h[k] = g[k] /\ h[k - 1] = g[k - 1]
          BY <3>2, <4>1
        <4>3. g[k] = F[<<g[k - 1], k>>]
          BY <2>1, <3>2, <4>1 DEF Iterates
        <4>. QED
          BY <3>2, <4>2, <4>3
      <3>3. CASE k = m
        <4>1. k # 0 /\ k - 1 \in 0..m /\ k - 1 # m
          BY <2>0, <3>3
        <4>2. h[k - 1] = g[m - 1] /\ h[k] = F[<<g[m - 1], m>>]
          BY <3>3, <4>1
        <4>. QED
          BY <3>3, <4>1, <4>2
      <3>. QED
        BY <3>1, <3>2, <3>3
    <2>5. Iterates(h, m, x, F)
      BY <2>4 DEF Iterates
    <2>. QED
      BY <2>0, <2>3, <2>5 DEF m
  <1>. HIDE DEF good
  <1>3. \A m \in 0..n : m \in good
    BY <1>1, <1>2, UpTo
  <1>. QED
    BY <1>3 DEF good

-----------------------------------------------------------------------------
(* The page allocator.                                                     *)

\* kalloc takes a page of the free list.
LEMMA KallocMember ==
    ASSUME NEW S, S # {}
    PROVE  kalloc(S) \in S
  BY DEF kalloc

-----------------------------------------------------------------------------
(* One use of a page, as a predicate on the list of free pages, the lost   *)
(* pages, the roots, the tables of both levels and the mappings.           *)

\* Nothing in the four kinds of tables is x.
Nowhere(x, rt, t1, t0, pt) ==
    /\ \A p \in Procs : rt[p] # x /\ t1[p] # x
    /\ \A p \in Procs, r \in Regions : t0[p][r] # x
    /\ \A p \in Procs, a \in VA : pt[p][a] # x

\* A page is nowhere twice.
NotTwice(rt, t1, t0, pt) ==
    \A p, q \in Procs :
        /\ rt[p] \in Phys => rt[p] # t1[q] /\ (rt[p] = rt[q] => p = q)
        /\ t1[p] \in Phys => (t1[p] = t1[q] => p = q)
        /\ \A r \in Regions : t0[p][r] \in Phys =>
                /\ t0[p][r] # rt[q] /\ t0[p][r] # t1[q]
                /\ \A s \in Regions : t0[p][r] = t0[q][s] => p = q /\ r = s
        /\ \A a \in VA : pt[p][a] \in Phys =>
                /\ pt[p][a] # rt[q] /\ pt[p][a] # t1[q]
                /\ \A s \in Regions : pt[p][a] # t0[q][s]
                /\ \A b \in VA : pt[p][a] = pt[q][b] => p = q /\ a = b

\* No page is forgotten, and what is free or lost is nowhere else.
Sound(fr, lo, rt, t1, t0, pt) ==
    /\ fr \subseteq Phys /\ lo \subseteq Phys /\ fr \cap lo = {}
    /\ \A x \in fr \cup lo : Nowhere(x, rt, t1, t0, pt)
    /\ NotTwice(rt, t1, t0, pt)
    /\ \A x \in Phys \ (fr \cup lo) : ~Nowhere(x, rt, t1, t0, pt)

\* The shape of the tables.
Shape(rt, t1, t0, pt) ==
    /\ rt \in [Procs -> Phys \cup {NoPage}]
    /\ t1 \in [Procs -> Phys \cup {NoPage}]
    /\ t0 \in [Procs -> [Regions -> Phys \cup {NoPage}]]
    /\ pt \in [Procs -> [VA -> Phys \cup Shared \cup {NoPage}]]

\* A free page is put in one place and everything else is where it was.
LEMMA Taken ==
    ASSUME NEW fr, NEW lo, NEW rt, NEW t1, NEW t0, NEW pt,
           NEW rt2, NEW s1, NEW s0, NEW pt2, NEW x \in fr,
           Sound(fr, lo, rt, t1, t0, pt), NotTwice(rt2, s1, s0, pt2),
           ~Nowhere(x, rt2, s1, s0, pt2),
           \A y \in Phys : y # x => (Nowhere(y, rt2, s1, s0, pt2) <=> Nowhere(y, rt, t1, t0, pt))
    PROVE  Sound(fr \ {x}, lo, rt2, s1, s0, pt2)
  <1>1. fr \ {x} \subseteq Phys /\ lo \subseteq Phys /\ (fr \ {x}) \cap lo = {}
    BY DEF Sound
  <1>2. \A y \in (fr \ {x}) \cup lo : y # x /\ y \in Phys /\ Nowhere(y, rt, t1, t0, pt)
    BY DEF Sound
  <1>3. \A y \in Phys \ ((fr \ {x}) \cup lo) :
           y = x \/ (y # x /\ ~Nowhere(y, rt, t1, t0, pt))
    BY DEF Sound
  <1>. QED
    BY <1>1, <1>2, <1>3 DEF Sound

\* A free page becomes the root table of a process without one.
LEMMA TakeRoot ==
    ASSUME NEW fr, NEW lo, NEW rt, NEW t1, NEW t0, NEW pt,
           Shape(rt, t1, t0, pt), Sound(fr, lo, rt, t1, t0, pt),
           NEW p \in Procs, rt[p] = NoPage, NEW x \in fr,
           NEW rt2, rt2 = [rt EXCEPT ![p] = x]
    PROVE  /\ Shape(rt2, t1, t0, pt)
           /\ Sound(fr \ {x}, lo, rt2, t1, t0, pt)
  <1>1. x \in Phys /\ NoPage \notin Phys /\ Nowhere(x, rt, t1, t0, pt)
    BY SpaceAssumption DEF Sound
  <1>2. rt2[p] = x /\ \A q \in Procs : q # p => rt2[q] = rt[q]
    BY DEF Shape
  <1>3. Shape(rt2, t1, t0, pt)
    BY <1>1 DEF Shape
  <1>4. \A y \in Phys : y # x => (Nowhere(y, rt2, t1, t0, pt) <=> Nowhere(y, rt, t1, t0, pt))
    BY <1>1, <1>2 DEF Nowhere
  <1>5. NotTwice(rt2, t1, t0, pt)
    BY <1>1, <1>2 DEF NotTwice, Nowhere, Sound
  <1>6. ~Nowhere(x, rt2, t1, t0, pt)
    BY <1>2 DEF Nowhere
  <1>. QED
    BY <1>3, <1>4, <1>5, <1>6, Taken

\* A free page becomes the table of level 1 of a process without one.
LEMMA TakeL1 ==
    ASSUME NEW fr, NEW lo, NEW rt, NEW t1, NEW t0, NEW pt,
           Shape(rt, t1, t0, pt), Sound(fr, lo, rt, t1, t0, pt),
           NEW p \in Procs, t1[p] = NoPage, NEW x \in fr,
           NEW s1, s1 = [t1 EXCEPT ![p] = x]
    PROVE  /\ Shape(rt, s1, t0, pt)
           /\ Sound(fr \ {x}, lo, rt, s1, t0, pt)
  <1>1. x \in Phys /\ NoPage \notin Phys /\ Nowhere(x, rt, t1, t0, pt)
    BY SpaceAssumption DEF Sound
  <1>2. s1[p] = x /\ \A q \in Procs : q # p => s1[q] = t1[q]
    BY DEF Shape
  <1>3. Shape(rt, s1, t0, pt)
    BY <1>1 DEF Shape
  <1>4. \A y \in Phys : y # x => (Nowhere(y, rt, s1, t0, pt) <=> Nowhere(y, rt, t1, t0, pt))
    BY <1>1, <1>2 DEF Nowhere
  <1>5. NotTwice(rt, s1, t0, pt)
    BY <1>1, <1>2 DEF NotTwice, Nowhere, Sound
  <1>6. ~Nowhere(x, rt, s1, t0, pt)
    BY <1>2 DEF Nowhere
  <1>. QED
    BY <1>3, <1>4, <1>5, <1>6, Taken

\* A free page becomes a table of level 0 where there was none.
LEMMA TakeL0 ==
    ASSUME NEW fr, NEW lo, NEW rt, NEW t1, NEW t0, NEW pt,
           Shape(rt, t1, t0, pt), Sound(fr, lo, rt, t1, t0, pt),
           NEW p \in Procs, NEW r \in Regions, t0[p][r] = NoPage, NEW x \in fr,
           NEW s0, s0 = [t0 EXCEPT ![p][r] = x]
    PROVE  /\ Shape(rt, t1, s0, pt)
           /\ Sound(fr \ {x}, lo, rt, t1, s0, pt)
  <1>1. x \in Phys /\ NoPage \notin Phys /\ Nowhere(x, rt, t1, t0, pt)
    BY SpaceAssumption DEF Sound
  <1>2. /\ s0[p][r] = x
        /\ \A q \in Procs, s \in Regions : q # p \/ s # r => s0[q][s] = t0[q][s]
    BY DEF Shape
  <1>3. Shape(rt, t1, s0, pt)
    BY <1>1 DEF Shape
  <1>4. \A y \in Phys : y # x => (Nowhere(y, rt, t1, s0, pt) <=> Nowhere(y, rt, t1, t0, pt))
    BY <1>1, <1>2 DEF Nowhere
  <1>5. NotTwice(rt, t1, s0, pt)
    BY <1>1, <1>2 DEF NotTwice, Nowhere, Sound
  <1>6. ~Nowhere(x, rt, t1, s0, pt)
    BY <1>2 DEF Nowhere
  <1>. QED
    BY <1>3, <1>4, <1>5, <1>6, Taken

\* A free page is mapped at an address where nothing was.
LEMMA TakePage ==
    ASSUME NEW fr, NEW lo, NEW rt, NEW t1, NEW t0, NEW pt,
           Shape(rt, t1, t0, pt), Sound(fr, lo, rt, t1, t0, pt),
           NEW p \in Procs, NEW a \in VA, pt[p][a] = NoPage, NEW x \in fr,
           NEW pt2, pt2 = [pt EXCEPT ![p][a] = x]
    PROVE  /\ Shape(rt, t1, t0, pt2)
           /\ Sound(fr \ {x}, lo, rt, t1, t0, pt2)
  <1>1. x \in Phys /\ NoPage \notin Phys /\ Nowhere(x, rt, t1, t0, pt)
    BY SpaceAssumption DEF Sound
  <1>2. /\ pt2[p][a] = x
        /\ \A q \in Procs, b \in VA : q # p \/ b # a => pt2[q][b] = pt[q][b]
    BY DEF Shape
  <1>3. Shape(rt, t1, t0, pt2)
    BY <1>1 DEF Shape
  <1>4. \A y \in Phys : y # x => (Nowhere(y, rt, t1, t0, pt2) <=> Nowhere(y, rt, t1, t0, pt))
    BY <1>1, <1>2 DEF Nowhere
  <1>5. NotTwice(rt, t1, t0, pt2)
    BY <1>1, <1>2 DEF NotTwice, Nowhere, Sound
  <1>6. ~Nowhere(x, rt, t1, t0, pt2)
    BY <1>2 DEF Nowhere
  <1>. QED
    BY <1>3, <1>4, <1>5, <1>6, Taken

\* A page of a frame buffer is mapped: no page changes its use.
LEMMA SharePage ==
    ASSUME NEW fr, NEW lo, NEW rt, NEW t1, NEW t0, NEW pt,
           Shape(rt, t1, t0, pt), Sound(fr, lo, rt, t1, t0, pt),
           NEW p \in Procs, NEW a \in VA, pt[p][a] = NoPage, NEW x \in Shared,
           NEW pt2, pt2 = [pt EXCEPT ![p][a] = x]
    PROVE  /\ Shape(rt, t1, t0, pt2)
           /\ Sound(fr, lo, rt, t1, t0, pt2)
  <1>1. x \notin Phys /\ NoPage \notin Phys
    BY SpaceAssumption
  <1>2. /\ pt2[p][a] = x
        /\ \A q \in Procs, b \in VA : q # p \/ b # a => pt2[q][b] = pt[q][b]
    BY DEF Shape
  <1>3. Shape(rt, t1, t0, pt2)
    BY DEF Shape
  <1>4. \A y \in Phys : Nowhere(y, rt, t1, t0, pt2) <=> Nowhere(y, rt, t1, t0, pt)
    BY <1>1, <1>2 DEF Nowhere
  <1>5. NotTwice(rt, t1, t0, pt2)
    BY <1>1, <1>2 DEF NotTwice, Sound
  <1>. QED
    BY <1>3, <1>4, <1>5 DEF Sound

\* A free page is forgotten.
LEMMA LosePage ==
    ASSUME NEW fr, NEW lo, NEW rt, NEW t1, NEW t0, NEW pt,
           Sound(fr, lo, rt, t1, t0, pt), NEW x \in fr
    PROVE  Sound(fr \ {x}, lo \cup {x}, rt, t1, t0, pt)
  BY DEF Sound

\* The pages of G are given back and everything else is where it was.
LEMMA Returned ==
    ASSUME NEW fr, NEW lo, NEW rt, NEW t1, NEW t0, NEW pt,
           NEW rt2, NEW s1, NEW s0, NEW pt2, NEW G \in SUBSET Phys,
           Sound(fr, lo, rt, t1, t0, pt), NotTwice(rt2, s1, s0, pt2),
           \A y \in G : ~Nowhere(y, rt, t1, t0, pt),
           \A y \in Phys : Nowhere(y, rt2, s1, s0, pt2) <=> (y \in G \/ Nowhere(y, rt, t1, t0, pt))
    PROVE  Sound(fr \cup G, lo, rt2, s1, s0, pt2)
  <1>1. /\ fr \cup G \subseteq Phys /\ lo \subseteq Phys /\ (fr \cup G) \cap lo = {}
    BY DEF Sound
  <1>2. \A y \in (fr \cup G) \cup lo : y \in Phys /\ (y \in G \/ Nowhere(y, rt, t1, t0, pt))
    BY DEF Sound
  <1>3. \A y \in Phys \ ((fr \cup G) \cup lo) : y \notin G /\ ~Nowhere(y, rt, t1, t0, pt)
    BY DEF Sound
  <1>. QED
    BY <1>1, <1>2, <1>3 DEF Sound

\* What munmap makes of the mappings m of a process, and what it frees.
Addresses(R) == R \subseteq VA
Without(m, R) == [va \in VA |-> IF va \in R THEN NoPage ELSE m[va]]
MappedIn(m, R) == {m[va] : va \in R} \cap Phys

\* Unmapping a range and freeing its pages keeps the tables sound.
LEMMA GiveMapped ==
    ASSUME NEW fr, NEW lo, NEW rt, NEW t1, NEW t0, NEW pt,
           Shape(rt, t1, t0, pt), Sound(fr, lo, rt, t1, t0, pt),
           NEW p \in Procs, NEW R, Addresses(R),
           NEW m, m = Without(pt[p], R), NEW pt2, pt2 = [pt EXCEPT ![p] = m],
           NEW fr2, fr2 = fr \cup MappedIn(pt[p], R)
    PROVE  Shape(rt, t1, t0, pt2) /\ Sound(fr2, lo, rt, t1, t0, pt2)
  <1>. DEFINE G == MappedIn(pt[p], R)
  <1>0. R \subseteq VA
    BY DEF Addresses
  <1>1. NoPage \notin Phys
    BY SpaceAssumption
  <1>2. /\ \A a \in VA : pt2[p][a] = IF a \in R THEN NoPage ELSE pt[p][a]
        /\ \A q \in Procs : q # p => pt2[q] = pt[q]
    BY DEF Shape, Without
  <1>3. Shape(rt, t1, t0, pt2)
    <2>1. Without(pt[p], R) \in [VA -> Phys \cup Shared \cup {NoPage}]
      BY DEF Shape, Without
    <2>. QED
      BY <2>1 DEF Shape
  <1>4. G \subseteq Phys /\ \A y : y \in G <=> (y \in Phys /\ \E a \in R : pt[p][a] = y)
    BY DEF MappedIn
  <1>5. \A y \in G : ~Nowhere(y, rt, t1, t0, pt)
    BY <1>0, <1>4 DEF Nowhere
  <1>6. NotTwice(rt, t1, t0, pt2)
    BY <1>1, <1>2 DEF NotTwice, Sound
  <1>7. ASSUME NEW y \in Phys
        PROVE  Nowhere(y, rt, t1, t0, pt2) <=> (y \in G \/ Nowhere(y, rt, t1, t0, pt))
    <2>1. ASSUME y \in G PROVE Nowhere(y, rt, t1, t0, pt2)
      <3>1. PICK a \in R : pt[p][a] = y
        BY <1>4, <2>1
      <3>2. a \in VA /\ pt[p][a] \in Phys
        BY <1>0, <3>1
      <3>3. \A q \in Procs : rt[q] # y /\ t1[q] # y
        BY <3>1, <3>2 DEF Sound, NotTwice
      <3>4. \A q \in Procs, r \in Regions : t0[q][r] # y
        BY <3>1, <3>2 DEF Sound, NotTwice
      <3>5. \A q \in Procs, b \in VA : pt[q][b] = y => q = p /\ b = a
        BY <3>1, <3>2 DEF Sound, NotTwice
      <3>6. \A q \in Procs, b \in VA : pt2[q][b] # y
        BY <1>1, <1>2, <3>1, <3>5
      <3>. QED
        BY <3>3, <3>4, <3>6 DEF Nowhere
    <2>2. ASSUME Nowhere(y, rt, t1, t0, pt) PROVE Nowhere(y, rt, t1, t0, pt2)
      BY <1>1, <1>2, <2>2 DEF Nowhere
    <2>3. ASSUME Nowhere(y, rt, t1, t0, pt2), y \notin G PROVE Nowhere(y, rt, t1, t0, pt)
      BY <1>2, <1>4, <2>3 DEF Nowhere
    <2>. QED
      BY <2>1, <2>2, <2>3
  <1>8. Sound(fr \cup G, lo, rt, t1, t0, pt2)
    BY <1>4, <1>5, <1>6, <1>7, Returned
  <1>. QED
    BY <1>3, <1>8

\* What free_user_pages frees: the pages and the tables of p.
IsSpace(G, p, rt, t1, t0, pt) ==
    \A y : y \in G <=>
        /\ y \in Phys
        /\ \/ rt[p] = y \/ t1[p] = y
           \/ \E r \in Regions : t0[p][r] = y
           \/ \E a \in VA : pt[p][a] = y

\* Freeing all of a process's pages and tables keeps the others sound.
LEMMA GiveSpace ==
    ASSUME NEW fr, NEW lo, NEW rt, NEW t1, NEW t0, NEW pt,
           Shape(rt, t1, t0, pt), Sound(fr, lo, rt, t1, t0, pt), NEW p \in Procs,
           NEW rt2, rt2 = [rt EXCEPT ![p] = NoPage],
           NEW s1, s1 = [t1 EXCEPT ![p] = NoPage],
           NEW s0, s0 = [t0 EXCEPT ![p] = NoTables],
           NEW pt2, pt2 = [pt EXCEPT ![p] = NoMap],
           NEW G, IsSpace(G, p, rt, t1, t0, pt)
    PROVE  /\ Shape(rt2, s1, s0, pt2)
           /\ Sound(fr \cup G, lo, rt2, s1, s0, pt2)
  <1>1. NoPage \notin Phys
    BY SpaceAssumption
  <1>2. /\ rt2[p] = NoPage /\ s1[p] = NoPage /\ s0[p] = NoTables /\ pt2[p] = NoMap
        /\ \A q \in Procs : q # p => /\ rt2[q] = rt[q] /\ s1[q] = t1[q]
                                     /\ s0[q] = t0[q] /\ pt2[q] = pt[q]
    BY DEF Shape
  <1>3. (\A r \in Regions : s0[p][r] = NoPage) /\ (\A a \in VA : pt2[p][a] = NoPage)
    BY <1>2 DEF NoTables, NoMap
  <1>4. Shape(rt2, s1, s0, pt2)
    <2>1. /\ NoTables \in [Regions -> Phys \cup {NoPage}]
          /\ NoMap \in [VA -> Phys \cup Shared \cup {NoPage}]
      BY DEF NoTables, NoMap
    <2>. QED
      BY <2>1 DEF Shape
  <1>5. G \in SUBSET Phys
    BY DEF IsSpace
  <1>6. \A y \in G : ~Nowhere(y, rt, t1, t0, pt)
    BY DEF IsSpace, Nowhere
  <1>7. NotTwice(rt2, s1, s0, pt2)
    <2>. SUFFICES ASSUME NEW u \in Procs, NEW v \in Procs
                  PROVE  NotTwice(rt2, s1, s0, pt2)!(u, v)
      BY DEF NotTwice
    <2>1. CASE u = p
      BY <1>1, <1>2, <1>3, <2>1
    <2>2. CASE u # p /\ v = p
      BY <1>1, <1>2, <1>3, <2>2
    <2>3. CASE u # p /\ v # p
      BY <1>2, <2>3 DEF NotTwice, Sound
    <2>. QED
      BY <2>1, <2>2, <2>3
  <1>8. ASSUME NEW y \in Phys
        PROVE  Nowhere(y, rt2, s1, s0, pt2) <=> (y \in G \/ Nowhere(y, rt, t1, t0, pt))
    <2>1. ASSUME y \in G PROVE Nowhere(y, rt2, s1, s0, pt2)
      <3>1. \A q \in Procs : q # p => /\ rt[q] # y /\ t1[q] # y
                                      /\ \A r \in Regions : t0[q][r] # y
                                      /\ \A a \in VA : pt[q][a] # y
        <4>0. \A u, v \in Procs : NotTwice(rt, t1, t0, pt)!(u, v)
          BY DEF Sound, NotTwice
        <4>1. CASE rt[p] = y
          BY <4>0, <4>1
        <4>2. CASE t1[p] = y
          BY <4>0, <4>2
        <4>3. CASE \E r \in Regions : t0[p][r] = y
          BY <4>0, <4>3
        <4>4. CASE \E a \in VA : pt[p][a] = y
          BY <4>0, <4>4
        <4>. QED
          BY <2>1, <4>1, <4>2, <4>3, <4>4 DEF IsSpace
      <3>2. \A q \in Procs : rt2[q] # y /\ s1[q] # y
        BY <1>1, <1>2, <3>1
      <3>3. \A q \in Procs, r \in Regions : s0[q][r] # y
        BY <1>1, <1>2, <1>3, <3>1
      <3>4. \A q \in Procs, a \in VA : pt2[q][a] # y
        BY <1>1, <1>2, <1>3, <3>1
      <3>. QED
        BY <3>2, <3>3, <3>4 DEF Nowhere
    <2>2. ASSUME Nowhere(y, rt, t1, t0, pt) PROVE Nowhere(y, rt2, s1, s0, pt2)
      BY <1>1, <1>2, <1>3, <2>2 DEF Nowhere
    <2>3. ASSUME Nowhere(y, rt2, s1, s0, pt2), y \notin G PROVE Nowhere(y, rt, t1, t0, pt)
      BY <1>2, <2>3 DEF IsSpace, Nowhere
    <2>. QED
      BY <2>1, <2>2, <2>3
  <1>9. Sound(fr \cup G, lo, rt2, s1, s0, pt2)
    BY <1>5, <1>6, <1>7, <1>8, Returned
  <1>. QED
    BY <1>4, <1>9

-----------------------------------------------------------------------------
(* The inductive invariant.                                                *)

PageUse == Sound(free, lost, root, l1, l0, pte)

\* Tables lead to what is mapped, and the dead have nothing.
Lead ==
    /\ \A p \in live : root[p] # NoPage
    /\ \A p \in Procs \ live : /\ root[p] = NoPage /\ l1[p] = NoPage
                               /\ l0[p] = NoTables /\ pte[p] = NoMap
    /\ \A p \in Procs, va \in VA : pte[p][va] # NoPage => l0[p][Region(va)] # NoPage
    /\ \A p \in Procs, r \in Regions : l0[p][r] # NoPage => l1[p] # NoPage

\* The address va lies between b and t.
Within(va, b, t) == b <= va /\ va < t

\* Where the mappings end that start at base.
TopOf(base) == IF base = NoBase THEN StackBottom ELSE base

\* Between b and t the mappings m have nothing.
GapIn(m, b, t) == \A va \in VA : Within(va, b, t) => m[va] = NoPage

\* What the call that runs has still to do.
Running ==
    /\ IF op.k = "idle" THEN op.todo = {} ELSE op.p \in live
    /\ op.k \in {"exec", "mmap", "mmapfd", "fork"} =>
            \A va \in op.todo : pte[op.p][va] = NoPage
    /\ op.k \in {"mmap", "mmapfd", "fork", "forkfail"} => op.brk = max_brk[op.p]
    /\ op.k \in {"brk", "exec"} => GapIn(pte[op.p], op.brk, TopOf(mmap_base[op.p]))
    /\ op.k \in {"brk", "exec", "mmap", "mmapfd"} =>
            \A va \in op.todo : ~Within(va, op.brk, TopOf(mmap_base[op.p]))
    /\ op.k = "brk" =>
            \A va \in op.todo : va < TopOf(mmap_base[op.p]) => pte[op.p][va] = NoPage
    /\ op.k \in {"fork", "forkfail"} =>
            /\ op.from \in live /\ op.from # op.p
            /\ max_brk[op.p] = max_brk[op.from] /\ mmap_base[op.p] = mmap_base[op.from]
            /\ \A va \in op.todo : pte[op.from][va] # NoPage

\* GapUnmapped, process by process.
Gaps ==
    \A p \in live : ~(op.k \in {"brk", "exec"} /\ op.p = p) =>
        GapIn(pte[p], max_brk[p], TopOf(mmap_base[p]))

PagesInv ==
    /\ TypeOK
    /\ PageUse
    /\ Lead
    /\ Running
    /\ PanicJustified
    /\ Gaps

\* The operation in progress and the address spaces have their types.
LEMMA SpaceTypes ==
    ASSUME TypeOK
    PROVE  /\ op.k \in Kinds /\ op.p \in Procs /\ op.from \in Procs
           /\ op.todo \subseteq VA /\ op.brk \in 0..Top
           /\ op.todo # {} => NextVA \in op.todo /\ NextVA \in VA
           /\ \A p \in Procs : mmap_top(p) \in 0..Top /\ max_brk[p] \in 0..Top
           /\ Shape(root, l1, l0, pte)
           /\ \A va \in VA : Region(va) \in Regions
           /\ StackBottom \in 0..Top /\ VA \subseteq Nat /\ Top \in Nat
  <1>1. /\ op.k \in Kinds /\ op.p \in Procs /\ op.from \in Procs
        /\ op.todo \subseteq VA /\ op.brk \in 0..Top
    BY DEF TypeOK
  <1>2. VA \subseteq Nat /\ Top \in Nat /\ StackBottom \in 0..Top
    BY SpaceAssumption DEF VA, StackBottom
  <1>3. op.todo # {} => NextVA \in op.todo /\ NextVA \in VA
    BY <1>1, <1>2, MinMember DEF NextVA
  <1>4. \A p \in Procs : mmap_top(p) \in 0..Top /\ max_brk[p] \in 0..Top
    BY <1>2 DEF TypeOK, mmap_top, NoBase
  <1>5. Shape(root, l1, l0, pte)
    BY DEF TypeOK, Shape
  <1>6. \A va \in VA : Region(va) \in Regions
    BY DEF Regions
  <1>. QED
    BY <1>1, <1>2, <1>3, <1>4, <1>5, <1>6

\* The ends of the heap and of the gap, as numbers.
LEMMA SpaceNats ==
    ASSUME TypeOK, NEW p \in Procs
    PROVE  /\ max_brk[p] \in Nat /\ max_brk[p] <= Top
           /\ mmap_top(p) \in Nat /\ mmap_top(p) <= Top
           /\ mmap_top(p) = TopOf(mmap_base[p])
  <1>1. Top \in Nat /\ StackBottom \in Nat /\ StackBottom <= Top
    BY SpaceAssumption DEF StackBottom
  <1>2. max_brk[p] \in 0..Top /\ mmap_base[p] \in {NoBase} \cup 0..Top
    BY DEF TypeOK
  <1>3. PICK m, b : m = max_brk[p] /\ b = mmap_base[p]
    OBVIOUS
  <1>4. TopOf(b) \in Nat /\ TopOf(b) <= Top /\ m \in Nat /\ m <= Top
    BY <1>1, <1>2, <1>3 DEF TopOf, NoBase
  <1>5. mmap_top(p) = TopOf(b)
    BY <1>3 DEF mmap_top, TopOf
  <1>. QED
    BY <1>3, <1>4, <1>5

\* A table t is there, or is made of a page of S, or S is empty; M is left.
GotTable(there, t, S, M) ==
    \/ there # NoPage /\ t = there /\ M = S
    \/ there = NoPage /\ t = NoPage /\ S = {} /\ M = {}
    \/ there = NoPage /\ t \in S /\ M = S \ {t}

\* What walk makes of the free pages S: it takes a page for each table that is
\* missing, and fails only when none is left.
LEMMA WalkIs ==
    ASSUME TypeOK, Lead, NEW p \in Procs, NEW va \in VA, NEW S \in SUBSET Phys,
           NEW w, w = walk(p, va, S)
    PROVE  \E M \in SUBSET S :
            /\ GotTable(l1[p], w.level1, S, M)
            /\ GotTable(l0[p][Region(va)], w.level0, M, w.left)
            /\ w.level1 = NoPage => w.level0 = NoPage
  <1>. DEFINE t1 == IF l1[p] # NoPage THEN l1[p]
                    ELSE IF S = {} THEN NoPage ELSE kalloc(S)
              left == IF l1[p] = NoPage THEN S \ {t1} ELSE S
              t0 == IF t1 = NoPage THEN NoPage
                    ELSE IF l0[p][Region(va)] # NoPage THEN l0[p][Region(va)]
                    ELSE IF left = {} THEN NoPage ELSE kalloc(left)
  <1>1. /\ w.level1 = t1 /\ w.level0 = t0
        /\ w.left = IF l0[p][Region(va)] = NoPage THEN left \ {t0} ELSE left
    BY DEF walk
  <1>2. NoPage \notin S /\ Region(va) \in Regions
    BY SpaceAssumption DEF Regions
  <1>3. /\ left \in SUBSET S
        /\ \/ l1[p] # NoPage /\ t1 = l1[p] /\ left = S
           \/ l1[p] = NoPage /\ S = {} /\ left = {} /\ t1 = NoPage
           \/ l1[p] = NoPage /\ t1 \in S /\ left = S \ {t1} /\ t1 # NoPage
    BY <1>2, KallocMember
  <1>4. l0[p][Region(va)] # NoPage => l1[p] # NoPage
    BY <1>2 DEF Lead
  <1>5. t0 = IF t1 = NoPage THEN NoPage
             ELSE IF l0[p][Region(va)] # NoPage THEN l0[p][Region(va)]
             ELSE IF left = {} THEN NoPage ELSE kalloc(left)
    OBVIOUS
  <1>. HIDE DEF t1, left, t0
  <1>6. \/ t1 # NoPage /\ l0[p][Region(va)] # NoPage /\ t0 = l0[p][Region(va)]
        \/ t0 = NoPage /\ left = {} /\ l0[p][Region(va)] = NoPage
        \/ t1 # NoPage /\ l0[p][Region(va)] = NoPage /\ t0 \in left
    BY <1>3, <1>4, <1>5, KallocMember
  <1>7. GotTable(l1[p], t1, S, left)
    BY <1>3 DEF GotTable
  <1>8. /\ GotTable(l0[p][Region(va)], t0, left, w.left)
        /\ t1 = NoPage => t0 = NoPage
    <2>1. NoPage \notin left
      BY <1>2, <1>3
    <2>. QED
      BY <1>1, <1>5, <1>6, <2>1 DEF GotTable
  <1>. QED
    BY <1>1, <1>3, <1>7, <1>8

\* Where the page to map comes from.
LEMMA PageFrom ==
    ASSUME PagesInv, NEW pa \in sources, pa = NoPage => free # {}
    PROVE  \/ pa = NoPage /\ page_from(pa) \in free
           \/ pa \in Shared /\ pa # NoPage /\ page_from(pa) = pa /\ free \ {pa} = free
  <1>1. pa = NoPage \/ pa \in Shared
    BY DEF sources
  <1>2. NoPage \notin Shared /\ Phys \cap Shared = {} /\ free \subseteq Phys
    BY SpaceAssumption DEF PagesInv, TypeOK
  <1>. QED
    BY <1>1, <1>2, KallocMember DEF page_from

\* The table of level 1 is there, is made, or cannot be made.
LEMMA MakeL1 ==
    ASSUME NEW fr, NEW lo, NEW rt, NEW t1, NEW t0, NEW pt,
           Shape(rt, t1, t0, pt), Sound(fr, lo, rt, t1, t0, pt),
           NEW p \in Procs, NEW t, NEW M, NEW s1, s1 = [t1 EXCEPT ![p] = t],
           GotTable(t1[p], t, fr, M)
    PROVE  Shape(rt, s1, t0, pt) /\ Sound(M, lo, rt, s1, t0, pt)
  <1>0. \/ t = t1[p] /\ M = fr
        \/ t1[p] = NoPage /\ t \in fr /\ M = fr \ {t}
    BY DEF GotTable
  <1>1. CASE t = t1[p] /\ M = fr
    <2>1. s1 = t1
      BY <1>1 DEF Shape
    <2>. QED
      BY <1>1, <2>1
  <1>2. CASE t1[p] = NoPage /\ t \in fr /\ M = fr \ {t}
    BY <1>2, TakeL1
  <1>. QED
    BY <1>0, <1>1, <1>2

\* The same for the table of level 0.
LEMMA MakeL0 ==
    ASSUME NEW fr, NEW lo, NEW rt, NEW t1, NEW t0, NEW pt,
           Shape(rt, t1, t0, pt), Sound(fr, lo, rt, t1, t0, pt),
           NEW p \in Procs, NEW r \in Regions, NEW t, NEW M,
           NEW s0, s0 = [t0 EXCEPT ![p][r] = t],
           GotTable(t0[p][r], t, fr, M)
    PROVE  Shape(rt, t1, s0, pt) /\ Sound(M, lo, rt, t1, s0, pt)
  <1>0. \/ t = t0[p][r] /\ M = fr
        \/ t0[p][r] = NoPage /\ t \in fr /\ M = fr \ {t}
    BY DEF GotTable
  <1>1. CASE t = t0[p][r] /\ M = fr
    <2>1. s0 = t0
      BY <1>1 DEF Shape
    <2>. QED
      BY <1>1, <2>1
  <1>2. CASE t0[p][r] = NoPage /\ t \in fr /\ M = fr \ {t}
    BY <1>2, TakeL0
  <1>. QED
    BY <1>0, <1>1, <1>2

\* One page is mapped: three pages at most change their use, each to one place.
LEMMA MapPageUse ==
    ASSUME PagesInv, op.todo # {}, NEW pa \in sources, map_page(pa)
    PROVE  /\ Shape(root, l1', l0', pte') /\ PageUse'
           /\ l1'[op.p] # NoPage /\ l0'[op.p][Region(NextVA)] # NoPage
           /\ page_from(pa) \in Phys \cup Shared
  <1>. DEFINE p == op.p  va == NextVA  x == page_from(pa)  S == free \ {x}
              w == walk(p, va, S)
  <1>0. TypeOK /\ Lead
    BY DEF PagesInv
  <1>1. /\ p \in Procs /\ va \in VA /\ Region(va) \in Regions
        /\ Shape(root, l1, l0, pte)
    BY <1>0, SpaceTypes
  <1>2. /\ pa = NoPage => free # {}
        /\ w.level0 # NoPage /\ pte[p][va] = NoPage
        /\ pte' = [pte EXCEPT ![p][va] = x] /\ free' = w.left
        /\ l1' = [l1 EXCEPT ![p] = w.level1]
        /\ l0' = [l0 EXCEPT ![p][Region(va)] = w.level0]
        /\ root' = root /\ lost' = lost
    BY DEF map_page, Walk
  <1>3. S \in SUBSET Phys /\ free \subseteq Phys
    BY <1>0 DEF TypeOK
  <1>4. PICK M \in SUBSET S :
            /\ GotTable(l1[p], w.level1, S, M)
            /\ GotTable(l0[p][Region(va)], w.level0, M, w.left)
            /\ w.level1 = NoPage => w.level0 = NoPage
    <2>1. w = walk(p, va, S)
      OBVIOUS
    <2>. HIDE DEF p, va, S, w
    <2>. QED
      BY <1>0, <1>1, <1>3, <2>1, WalkIs
  <1>5. \/ x \in free
        \/ x \in Shared /\ S = free
    BY <1>2, PageFrom
  <1>. HIDE DEF p, va, x, S, w
  <1>6. Sound(free, lost, root, l1, l0, pte)
    BY DEF PagesInv, PageUse
  <1>7. Shape(root, l1, l0, pte') /\ Sound(S, lost, root, l1, l0, pte')
    <2>1. CASE x \in free
      BY <1>1, <1>2, <1>6, <2>1, TakePage DEF S
    <2>2. CASE x \in Shared /\ S = free
      BY <1>1, <1>2, <1>6, <2>2, SharePage
    <2>. QED
      BY <1>5, <2>1, <2>2
  <1>8. Shape(root, l1', l0, pte') /\ Sound(M, lost, root, l1', l0, pte')
    BY <1>1, <1>2, <1>4, <1>7, MakeL1
  <1>9. Shape(root, l1', l0', pte') /\ Sound(w.left, lost, root, l1', l0', pte')
    BY <1>1, <1>2, <1>4, <1>8, MakeL0
  <1>10. l1'[p] = w.level1 /\ l0'[p][Region(va)] = w.level0 /\ w.level1 # NoPage
    BY <1>1, <1>2, <1>4 DEF Shape
  <1>11. page_from(pa) \in Phys \cup Shared
    BY <1>3, <1>5 DEF x
  <1>. QED
    BY <1>2, <1>9, <1>10, <1>11 DEF PageUse, p, va

\* What holds while nothing has panicked.
LEMMA NoPanicJustified ==
    ASSUME panicked' = ""
    PROVE  PanicJustified'
  BY DEF PanicJustified

\* map_page: the page goes to one address, and the call has one page less to map.
LEMMA MapPageStep ==
    ASSUME PagesInv, panicked = "", op.todo # {}, op.k # "forkfail",
           NEW pa \in sources, map_page(pa)
    PROVE  PagesInv'
  <1>0. TypeOK /\ Lead /\ Running /\ Gaps
    BY DEF PagesInv
  <1>1. PICK p \in Procs, va \in VA, x \in Phys \cup Shared :
            /\ p = op.p /\ va = NextVA /\ x = page_from(pa)
            /\ va \in op.todo /\ Region(va) \in Regions
    BY <1>0, SpaceTypes, MapPageUse
  <1>2. /\ Shape(root, l1, l0, pte) /\ op.todo \subseteq VA
        /\ op.k \in Kinds /\ op.from \in Procs /\ live \subseteq Procs
    BY <1>0, SpaceTypes DEF TypeOK
  <1>3. /\ Shape(root, l1', l0', pte') /\ PageUse'
        /\ l1'[p] # NoPage /\ l0'[p][Region(va)] # NoPage
    BY <1>1, MapPageUse
  <1>4. /\ pte[p][va] = NoPage /\ pte' = [pte EXCEPT ![p][va] = x]
        /\ l1' = [l1 EXCEPT ![p] = Walk(pa).level1]
        /\ l0' = [l0 EXCEPT ![p][Region(va)] = Walk(pa).level0]
        /\ op' = [op EXCEPT !.todo = @ \ {va}]
        /\ UNCHANGED <<live, root, max_brk, mmap_base, panicked, lost>>
    BY <1>1 DEF map_page
  <1>5. \A q \in Procs, a \in VA :
            pte'[q][a] = IF q = p /\ a = va THEN x ELSE pte[q][a]
    BY <1>2, <1>4 DEF Shape
  <1>6. /\ op'.k = op.k /\ op'.p = p /\ op'.from = op.from /\ op'.brk = op.brk
        /\ op'.todo = op.todo \ {va}
    BY <1>0, <1>1, <1>4 DEF TypeOK
  <1>7. p \in live /\ op.k # "idle"
    BY <1>0, <1>1 DEF Running
  <1>8. TypeOK'
    <2>1. free' \subseteq Phys /\ lost' \subseteq Phys
      BY <1>3 DEF PageUse, Sound
    <2>2. op' \in [k : Kinds, p : Procs, from : Procs, todo : SUBSET VA, brk : 0..Top]
      BY <1>0, <1>2, <1>4 DEF TypeOK
    <2>. QED
      BY <1>0, <1>3, <1>4, <2>1, <2>2 DEF TypeOK, Shape
  <1>9. Lead'
    <2>1. \A q \in Procs : q # p => l1'[q] = l1[q] /\ l0'[q] = l0[q] /\ pte'[q] = pte[q]
      BY <1>2, <1>4 DEF Shape
    <2>2. \A s \in Regions : s # Region(va) => l0'[p][s] = l0[p][s]
      BY <1>1, <1>2, <1>4 DEF Shape
    <2>3. \A q \in Procs, a \in VA : pte'[q][a] # NoPage => l0'[q][Region(a)] # NoPage
      <3>. SUFFICES ASSUME NEW q \in Procs, NEW a \in VA, pte'[q][a] # NoPage
                    PROVE  l0'[q][Region(a)] # NoPage
        OBVIOUS
      <3>1. CASE q = p
        <4>1. CASE Region(a) = Region(va)
          BY <1>3, <3>1, <4>1
        <4>2. CASE Region(a) # Region(va)
          <5>1. a # va /\ Region(a) \in Regions /\ pte[p][a] # NoPage
            BY <1>5, <3>1, <4>2 DEF Regions
          <5>. QED
            BY <1>0, <2>2, <3>1, <4>2, <5>1 DEF Lead
        <4>. QED
          BY <4>1, <4>2
      <3>2. CASE q # p
        BY <1>0, <2>1, <3>2, ZenonT(60) DEF Lead
      <3>. QED
        BY <3>1, <3>2
    <2>4. \A q \in Procs, s \in Regions : l0'[q][s] # NoPage => l1'[q] # NoPage
      BY <1>0, <1>3, <2>1, ZenonT(60) DEF Lead
    <2>. QED
      BY <1>0, <1>4, <1>7, <2>1, <2>3, <2>4, ZenonT(60) DEF Lead
  <1>. DEFINE top == TopOf(mmap_base[p])
  <1>10. Running'
    <2>1. p \in live' /\ op'.k # "idle"
      BY <1>4, <1>6, <1>7
    <2>2. op'.k \in {"exec", "mmap", "mmapfd", "fork"} =>
              \A a \in op'.todo : pte'[p][a] = NoPage
      <3>1. op.k \in {"exec", "mmap", "mmapfd", "fork"} =>
                \A a \in op.todo : pte[p][a] = NoPage
        BY <1>0, <1>1 DEF Running
      <3>. QED
        BY <1>2, <1>5, <1>6, <3>1
    <2>3. op'.k \in {"mmap", "mmapfd", "fork", "forkfail"} => op'.brk = max_brk'[p]
      BY <1>0, <1>1, <1>4, <1>6 DEF Running
    <2>4. op'.k \in {"brk", "exec"} => GapIn(pte'[p], op'.brk, top)
      <3>. SUFFICES ASSUME op.k \in {"brk", "exec"}, NEW a \in VA, Within(a, op.brk, top)
                    PROVE  pte'[p][a] = NoPage
        BY <1>6 DEF GapIn
      <3>1. pte[p][a] = NoPage /\ a # va
        BY <1>0, <1>1 DEF Running, GapIn
      <3>. QED
        BY <1>5, <3>1
    <2>5. op'.k \in {"brk", "exec", "mmap", "mmapfd"} =>
              \A a \in op'.todo : ~Within(a, op'.brk, top)
      BY <1>0, <1>1, <1>6 DEF Running
    <2>6. op'.k = "brk" => \A a \in op'.todo : a < top => pte'[p][a] = NoPage
      <3>1. op.k = "brk" => \A a \in op.todo : a < top => pte[p][a] = NoPage
        BY <1>0, <1>1 DEF Running
      <3>. HIDE DEF top
      <3>. QED
        BY <1>2, <1>5, <1>6, <3>1
    <2>7. op.k \in {"fork", "forkfail"} =>
              /\ op.from \in live /\ op.from # p
              /\ max_brk[p] = max_brk[op.from] /\ mmap_base[p] = mmap_base[op.from]
              /\ \A a \in op'.todo : pte'[op.from][a] # NoPage
      <3>. SUFFICES ASSUME op.k \in {"fork", "forkfail"}
                    PROVE  /\ op.from \in live /\ op.from # p
                           /\ max_brk[p] = max_brk[op.from]
                           /\ mmap_base[p] = mmap_base[op.from]
                           /\ \A a \in op'.todo : pte'[op.from][a] # NoPage
        OBVIOUS
      <3>1. /\ op.from \in live /\ op.from # p
            /\ max_brk[p] = max_brk[op.from] /\ mmap_base[p] = mmap_base[op.from]
            /\ \A a \in op.todo : pte[op.from][a] # NoPage
        BY <1>0, <1>1 DEF Running
      <3>. QED
        BY <1>2, <1>5, <1>6, <3>1
    <2>8. TopOf(mmap_base'[op'.p]) = top /\ live' = live /\ max_brk' = max_brk
      BY <1>4, <1>6
    <2>. HIDE DEF top
    <2>. QED
      BY <1>4, <1>6, <2>1, <2>2, <2>3, <2>4, <2>5, <2>6, <2>7, <2>8, ZenonT(60) DEF Running
  <1>11. Gaps'
    <2>. SUFFICES ASSUME NEW q \in live, ~(op.k \in {"brk", "exec"} /\ p = q),
                         NEW a \in VA, Within(a, max_brk[q], TopOf(mmap_base[q]))
                  PROVE  pte'[q][a] = NoPage
      BY <1>4, <1>6 DEF Gaps, GapIn
    <2>0. q \in Procs
      BY <1>2
    <2>1. pte[q][a] = NoPage
      BY <1>0, <1>1 DEF Gaps, GapIn
    <2>2. CASE q = p /\ a = va
      <3>1. op.k \in {"mmap", "mmapfd", "fork"}
        BY <1>2, <1>7, <2>2 DEF Kinds
      <3>2. CASE op.k = "fork"
        <4>1. /\ op.from \in live /\ op.from # p /\ max_brk[op.from] = max_brk[p]
              /\ mmap_base[op.from] = mmap_base[p] /\ pte[op.from][va] # NoPage
          BY <1>0, <1>1, <3>2 DEF Running
        <4>2. pte[op.from][va] = NoPage
          BY <1>0, <2>2, <3>2, <4>1 DEF Gaps, GapIn
        <4>. QED
          BY <4>1, <4>2
      <3>3. CASE op.k \in {"mmap", "mmapfd"}
        <4>1. ~Within(va, op.brk, top) /\ op.brk = max_brk[p]
          BY <1>0, <1>1, <3>3 DEF Running
        <4>. QED
          BY <2>2, <4>1
      <3>. QED
        BY <3>1, <3>2, <3>3
    <2>. QED
      BY <1>5, <2>0, <2>1, <2>2
  <1>. QED
    BY <1>3, <1>4, <1>8, <1>9, <1>10, <1>11, NoPanicJustified DEF PagesInv

\* A call that has ended has nothing left to do.
LEMMA IdleOp ==
    ASSUME op' = Idle
    PROVE  /\ op' \in [k : Kinds, p : Procs, from : Procs, todo : SUBSET VA, brk : 0..Top]
           /\ Running' /\ op'.k = "idle"
  BY SpaceAssumption DEF Idle, Running, Kinds

\* When map_pages has no page for a table, every page is in use.
LEMMA MapPageFailsUse ==
    ASSUME PagesInv, op.todo # {}, NEW pa \in sources, map_page_fails(pa)
    PROVE  /\ Shape(root, l1', l0, pte) /\ PageUse'
           /\ \A q \in Procs : l1[q] # NoPage => l1'[q] = l1[q]
           /\ free' = {}
  <1>0. TypeOK /\ Lead
    BY DEF PagesInv
  <1>1. PICK p \in Procs, va \in VA :
            p = op.p /\ va = NextVA /\ Region(va) \in Regions
    BY <1>0, SpaceTypes
  <1>2. Shape(root, l1, l0, pte) /\ free \subseteq Phys
    BY <1>0, SpaceTypes DEF TypeOK
  <1>3. PICK x, S, w :
            /\ x = page_from(pa) /\ S = free \ {x} /\ w = walk(p, va, S)
            /\ pa = NoPage => free # {}
            /\ w.level0 = NoPage /\ free' = w.left
            /\ l1' = [l1 EXCEPT ![p] = w.level1]
            /\ lost' = lost \cup ({x} \cap Phys)
            /\ root' = root /\ l0' = l0 /\ pte' = pte
    BY <1>1, Zenon DEF map_page_fails, Walk
  <1>4. PICK M \in SUBSET S :
            /\ GotTable(l1[p], w.level1, S, M)
            /\ GotTable(l0[p][Region(va)], w.level0, M, w.left)
    <2>1. S \in SUBSET Phys
      BY <1>2, <1>3
    <2>. QED
      BY <1>0, <1>3, <2>1, WalkIs
  <1>5. NoPage \notin Phys /\ Phys \cap Shared = {}
    BY SpaceAssumption
  <1>6. M = {} /\ w.left = {}
    BY <1>2, <1>3, <1>4, <1>5 DEF GotTable
  <1>7. \/ x \in free /\ lost' = lost \cup {x}
        \/ S = free /\ lost' = lost
    <2>1. \/ x \in free
          \/ x \in Shared /\ S = free
      BY <1>3, PageFrom
    <2>. QED
      BY <1>2, <1>3, <1>5, <2>1
  <1>8. Sound(S, lost', root, l1, l0, pte)
    <2>1. Sound(free, lost, root, l1, l0, pte)
      BY DEF PagesInv, PageUse
    <2>2. CASE x \in free /\ lost' = lost \cup {x}
      BY <1>3, <2>1, <2>2, LosePage
    <2>3. CASE S = free /\ lost' = lost
      BY <2>1, <2>3
    <2>. QED
      BY <1>7, <2>2, <2>3
  <1>9. Shape(root, l1', l0, pte) /\ Sound(M, lost', root, l1', l0, pte)
    BY <1>2, <1>3, <1>4, <1>8, MakeL1
  <1>10. \A q \in Procs : l1[q] # NoPage => l1'[q] = l1[q]
    <2>1. l1[p] # NoPage => w.level1 = l1[p]
      BY <1>4 DEF GotTable
    <2>. QED
      BY <1>2, <1>3, <2>1 DEF Shape
  <1>. QED
    BY <1>3, <1>6, <1>9, <1>10 DEF PageUse

\* map_page_fails: the call ends, or a fork turns to giving its child up.
LEMMA MapPageFailsStep ==
    ASSUME PagesInv, panicked = "", op.todo # {},
           NEW pa \in sources, map_page_fails(pa)
    PROVE  PagesInv'
  <1>0. TypeOK /\ Lead /\ Running /\ Gaps
    BY DEF PagesInv
  <1>1. /\ Shape(root, l1', l0, pte) /\ PageUse'
        /\ \A q \in Procs : l1[q] # NoPage => l1'[q] = l1[q]
    BY MapPageFailsUse
  <1>2. /\ op.k \in {"mmap", "mmapfd", "fork"}
        /\ \/ op.k = "fork" /\ op' = [op EXCEPT !.k = "forkfail"]
           \/ op' = Idle
        /\ UNCHANGED <<live, root, l0, pte, max_brk, mmap_base, panicked>>
        /\ l1' = [l1 EXCEPT ![op.p] = Walk(pa).level1]
    BY DEF map_page_fails
  <1>3. /\ op' \in [k : Kinds, p : Procs, from : Procs, todo : SUBSET VA, brk : 0..Top]
        /\ op'.k \notin {"brk", "exec"} /\ Running'
    <2>1. CASE op.k = "fork" /\ op' = [op EXCEPT !.k = "forkfail"]
      <3>1. /\ op' \in [k : Kinds, p : Procs, from : Procs, todo : SUBSET VA, brk : 0..Top]
            /\ op'.k = "forkfail" /\ op'.p = op.p /\ op'.from = op.from
            /\ op'.todo = op.todo /\ op'.brk = op.brk
        BY <1>0, <2>1 DEF TypeOK, Kinds
      <3>. QED
        BY <1>0, <1>2, <2>1, <3>1 DEF Running
    <2>2. CASE op' = Idle
      BY <2>2, IdleOp
    <2>. QED
      BY <1>2, <2>1, <2>2
  <1>4. TypeOK'
    <2>1. free' \subseteq Phys /\ lost' \subseteq Phys
      BY <1>1 DEF PageUse, Sound
    <2>. QED
      BY <1>0, <1>1, <1>2, <1>3, <2>1 DEF TypeOK, Shape
  <1>5. Lead'
    <2>1. \A q \in Procs \ live : l1'[q] = l1[q]
      BY <1>0, <1>2 DEF Running, TypeOK
    <2>. QED
      BY <1>0, <1>1, <1>2, <2>1 DEF Lead
  <1>6. Gaps'
    BY <1>0, <1>2, <1>3 DEF Gaps
  <1>. QED
    BY <1>1, <1>2, <1>3, <1>4, <1>5, <1>6, NoPanicJustified DEF PagesInv

\* Addresses are ordered.
LEMMA NotBelow ==
    ASSUME NEW a \in Nat, NEW b \in Nat, ~(a < b)
    PROVE  a >= b
  OBVIOUS

\* map_page_panics: nothing changes but the message, and the message is true.
LEMMA MapPagePanicsStep ==
    ASSUME PagesInv, panicked = "", op.todo # {}, op.k # "forkfail",
           NEW pa \in sources, map_page_panics(pa)
    PROVE  PagesInv'
  <1>0. TypeOK /\ PageUse /\ Lead /\ Running /\ Gaps
    BY DEF PagesInv
  <1>1. UNCHANGED <<free, live, root, l1, l0, pte, max_brk, mmap_base, op, lost>>
    BY DEF map_page_panics, tables
  <1>2. \/ panicked' = "out of memory" /\ free = {}
        \/ panicked' = "map_pages failed"
        \/ panicked' = "remap" /\ pte[op.p][NextVA] # NoPage
    BY DEF map_page_panics
  <1>3. TypeOK'
    BY <1>0, <1>1, <1>2 DEF TypeOK
  <1>4. PageUse' /\ Lead' /\ Running' /\ Gaps'
    BY <1>0, <1>1 DEF PageUse, Lead, Running, Gaps
  <1>5. PanicJustified'
    <2>1. CASE panicked' = "remap" /\ pte[op.p][NextVA] # NoPage
      <3>1. NextVA \in op.todo /\ NextVA \in Nat /\ op.k \in Kinds
        BY <1>0, SpaceTypes
      <3>2. op.k = "brk" /\ ~(NextVA < TopOf(mmap_base[op.p]))
        BY <1>0, <2>1, <3>1 DEF Running, Kinds
      <3>3. mmap_top(op.p) = TopOf(mmap_base[op.p]) /\ mmap_top(op.p) \in Nat
        BY <1>0, SpaceNats, SpaceTypes DEF mmap_top, TopOf
      <3>4. NextVA >= mmap_top(op.p)
        <4>1. PICK a \in Nat, t \in Nat : a = NextVA /\ t = mmap_top(op.p) /\ ~(a < t)
          BY <3>1, <3>2, <3>3
        <4>. QED
          BY <4>1, NotBelow, Zenon
      <3>5. NextVA' = NextVA /\ mmap_top(op.p)' = mmap_top(op.p) /\ op'.k = op.k
        BY <1>1 DEF NextVA, mmap_top
      <3>. QED
        BY <2>1, <3>2, <3>4, <3>5 DEF PanicJustified
    <2>2. CASE panicked' # "remap"
      BY <1>1, <1>2, <2>2 DEF PanicJustified
    <2>. QED
      BY <1>2, <2>1, <2>2
  <1>. QED
    BY <1>3, <1>4, <1>5 DEF PagesInv

\* finish: the heap ends where the call has brought it.
LEMMA FinishStep ==
    ASSUME PagesInv, finish
    PROVE  PagesInv'
  <1>0. TypeOK /\ PageUse /\ Lead /\ Running /\ Gaps
    BY DEF PagesInv
  <1>1. PICK p \in live : p = op.p
    BY <1>0 DEF Running, finish
  <1>2. /\ max_brk' = [max_brk EXCEPT ![p] = op.brk] /\ op' = Idle
        /\ op.k \notin {"idle", "forkfail"} /\ panicked' = ""
        /\ UNCHANGED <<free, live, root, l1, l0, pte, mmap_base, lost>>
    BY <1>1 DEF finish, tables
  <1>3. op.brk \in 0..Top /\ op.k \in Kinds /\ live \subseteq Procs
    BY <1>0, SpaceTypes DEF TypeOK
  <1>4. TypeOK'
    BY <1>0, <1>2, <1>3, IdleOp DEF TypeOK
  <1>5. PageUse' /\ Lead'
    BY <1>0, <1>2 DEF PageUse, Lead
  <1>6. Gaps'
    <2>. SUFFICES ASSUME NEW q \in live
                  PROVE  GapIn(pte[q], max_brk'[q], TopOf(mmap_base[q]))
      BY <1>2 DEF Gaps
    <2>0. /\ max_brk'[p] = op.brk
          /\ q # p => max_brk'[q] = max_brk[q]
      BY <1>0, <1>2, <1>3 DEF TypeOK
    <2>1. CASE q # p
      BY <1>0, <1>1, <2>0, <2>1 DEF Gaps
    <2>2. CASE q = p /\ op.k \in {"brk", "exec"}
      BY <1>0, <1>1, <2>0, <2>2 DEF Running
    <2>3. CASE q = p /\ op.k \in {"mmap", "mmapfd", "fork"}
      <3>1. op.brk = max_brk[p]
        BY <1>0, <1>1, <2>3 DEF Running
      <3>. QED
        BY <1>0, <1>1, <2>0, <2>3, <3>1 DEF Gaps
    <2>. QED
      BY <1>2, <1>3, <2>1, <2>2, <2>3 DEF Kinds
  <1>. QED
    BY <1>2, <1>4, <1>5, <1>6, IdleOp, NoPanicJustified DEF PagesInv

\* sys_brk: what is to be mapped is free below the mappings.
LEMMA BrkStep ==
    ASSUME PagesInv, NEW p \in Procs, NEW b \in 1..Top, sys_brk(p, b)
    PROVE  PagesInv'
  <1>0. TypeOK /\ PageUse /\ Lead /\ Running /\ Gaps
    BY DEF PagesInv
  <1>1. /\ p \in live /\ op.k = "idle" /\ b > max_brk[p] /\ panicked' = ""
        /\ op' = [k |-> "brk", p |-> p, from |-> p, todo |-> max_brk[p]..(b - 1), brk |-> b]
        /\ UNCHANGED <<free, live, root, l1, l0, pte, max_brk, mmap_base, lost>>
    BY DEF sys_brk, Calls, tables
  <1>2. PICK m \in Nat, t \in Nat : m = max_brk[p] /\ t = TopOf(mmap_base[p])
    BY <1>0, SpaceNats
  <1>3. b \in Nat /\ Top \in Nat /\ b <= Top /\ b > m
    <2>1. b > m
      BY <1>1, <1>2
    <2>. QED
      BY <2>1, SpaceAssumption
  <1>4. m..(b - 1) \subseteq VA
    BY <1>3 DEF VA
  <1>5. TypeOK'
    <2>1. op' \in [k : Kinds, p : Procs, from : Procs, todo : SUBSET VA, brk : 0..Top]
      <3>1. b \in 0..Top /\ m..(b - 1) \in SUBSET VA /\ "brk" \in Kinds
        BY <1>3, <1>4 DEF Kinds
      <3>2. op' = [k |-> "brk", p |-> p, from |-> p, todo |-> m..(b - 1), brk |-> b]
        BY <1>1, <1>2
      <3>. QED
        BY <3>1, <3>2
    <2>. QED
      BY <1>0, <1>1, <2>1 DEF TypeOK
  <1>6. PageUse' /\ Lead'
    BY <1>0, <1>1 DEF PageUse, Lead
  <1>7. Gaps'
    BY <1>0, <1>1 DEF Gaps
  <1>8. Running'
    <2>1. GapIn(pte[p], m, t)
      BY <1>0, <1>1, <1>2 DEF Gaps
    <2>2. \A va \in VA : Within(va, b, t) => Within(va, m, t)
      BY <1>3 DEF Within, VA
    <2>3. \A va \in m..(b - 1) : ~Within(va, b, t) /\ (va < t => Within(va, m, t))
      BY <1>3 DEF Within
    <2>4. GapIn(pte[p], b, t)
      BY <2>1, <2>2 DEF GapIn
    <2>5. \A va \in m..(b - 1) : va < t => pte[p][va] = NoPage
      BY <1>4, <2>1, <2>3 DEF GapIn
    <2>6. /\ op'.k = "brk" /\ op'.p = p /\ op'.todo = m..(b - 1) /\ op'.brk = b
          /\ t = TopOf(mmap_base'[p]) /\ live' = live /\ pte' = pte
      BY <1>1, <1>2
    <2>7. \A va \in m..(b - 1) : ~Within(va, b, t)
      BY <2>3
    <2>. QED
      BY <1>1, <2>4, <2>5, <2>6, <2>7 DEF Running
  <1>. QED
    BY <1>1, <1>5, <1>6, <1>7, <1>8, NoPanicJustified DEF PagesInv

\* sys_mmap: the range lies in the gap between the heap and the mappings.
LEMMA MmapStep ==
    ASSUME PagesInv, NEW p \in Procs, NEW n \in 1..Top, NEW k \in {"mmap", "mmapfd"},
           sys_mmap(p, n, k)
    PROVE  PagesInv'
  <1>0. TypeOK /\ PageUse /\ Lead /\ Running /\ Gaps
    BY DEF PagesInv
  <1>1. PICK m \in Nat, t \in Nat : /\ m = max_brk[p] /\ t = TopOf(mmap_base[p])
                                  /\ t = mmap_top(p) /\ t <= Top /\ m <= Top
    BY <1>0, SpaceNats
  <1>2. PICK base : base = t - n
    OBVIOUS
  <1>3. /\ p \in live /\ op.k = "idle" /\ panicked' = "" /\ base >= m
        /\ mmap_base' = [mmap_base EXCEPT ![p] = base]
        /\ \/ op' = [k |-> k, p |-> p, from |-> p, todo |-> base..(base + n - 1), brk |-> m]
           \/ op' = Idle
        /\ UNCHANGED <<free, live, root, l1, l0, pte, max_brk, lost>>
    BY <1>1, <1>2 DEF sys_mmap, mmap_fits, Calls, tables
  <1>4. n \in Nat /\ Top \in Nat
    BY SpaceAssumption
  <1>5. /\ base \in Nat /\ base <= t /\ base \in 0..Top /\ base # NoBase
        /\ base + n - 1 = t - 1
    <2>1. base = t - n /\ base >= m /\ t <= Top
      BY <1>1, <1>2, <1>3
    <2>. QED
      BY <1>4, <2>1 DEF NoBase
  <1>6. base..(base + n - 1) \subseteq VA
    BY <1>1, <1>4, <1>5 DEF VA
  <1>7. TypeOK'
    <2>1. op' \in [k : Kinds, p : Procs, from : Procs, todo : SUBSET VA, brk : 0..Top]
      <3>1. m \in 0..Top
        BY <1>1, <1>4
      <3>2. CASE op' = [k |-> k, p |-> p, from |-> p, todo |-> base..(base + n - 1), brk |-> m]
        BY <1>6, <3>1, <3>2 DEF Kinds
      <3>. QED
        BY <1>3, <3>2, IdleOp
    <2>. QED
      BY <1>0, <1>3, <1>5, <2>1 DEF TypeOK
  <1>8. PageUse' /\ Lead'
    BY <1>0, <1>3 DEF PageUse, Lead
  <1>9. GapIn(pte[p], m, t)
    BY <1>0, <1>1, <1>3 DEF Gaps
  <1>10. /\ TopOf(mmap_base'[p]) = base
         /\ \A q \in Procs : q # p => mmap_base'[q] = mmap_base[q]
    BY <1>0, <1>3, <1>5 DEF TypeOK, TopOf
  <1>11. Gaps'
    <2>. SUFFICES ASSUME NEW q \in live
                  PROVE  GapIn(pte[q], max_brk[q], TopOf(mmap_base'[q]))
      BY <1>3 DEF Gaps
    <2>1. CASE q = p
      <3>1. \A va \in VA : Within(va, m, base) => Within(va, m, t)
        BY <1>4, <1>5 DEF Within, VA
      <3>2. GapIn(pte[p], m, base)
        BY <1>9, <3>1 DEF GapIn
      <3>. QED
        BY <1>1, <1>10, <2>1, <3>2
    <2>2. CASE q # p
      BY <1>0, <1>3, <1>10, <2>2 DEF Gaps, TypeOK
    <2>. QED
      BY <2>1, <2>2
  <1>12. Running'
    <2>1. CASE op' = Idle
      BY <2>1, IdleOp
    <2>2. CASE op' = [k |-> k, p |-> p, from |-> p, todo |-> base..(base + n - 1), brk |-> m]
      <3>1. \A va \in base..(base + n - 1) : ~Within(va, m, base) /\ Within(va, m, t)
        <4>1. base >= m
          BY <1>3
        <4>. QED
          BY <1>4, <1>5, <4>1 DEF Within
      <3>2. \A va \in base..(base + n - 1) : pte[p][va] = NoPage /\ ~Within(va, m, base)
        BY <1>6, <1>9, <3>1 DEF GapIn
      <3>3. /\ op'.k \in {"mmap", "mmapfd"} /\ op'.p = p /\ op'.brk = m
            /\ op'.todo = base..(base + n - 1)
        BY <2>2
      <3>. QED
        BY <1>1, <1>3, <1>10, <3>2, <3>3 DEF Running
    <2>. QED
      BY <1>3, <2>1, <2>2
  <1>. QED
    BY <1>3, <1>7, <1>8, <1>11, <1>12, NoPanicJustified DEF PagesInv

\* sys_munmap: what is unmapped is free, and nothing new is mapped.
LEMMA MunmapStep ==
    ASSUME PagesInv, NEW p \in Procs, NEW R \in SUBSET VA, sys_munmap(p, R)
    PROVE  PagesInv'
  <1>0. TypeOK /\ PageUse /\ Lead /\ Running /\ Gaps
    BY DEF PagesInv
  <1>1. /\ op.k = "idle" /\ panicked' = "" /\ free' = free \cup unmapped(p, R)
        /\ UNCHANGED <<live, root, l1, l0, max_brk, mmap_base, op, lost>>
    BY DEF sys_munmap, Calls
  <1>2. PICK m : m = Without(pte[p], R) /\ pte' = [pte EXCEPT ![p] = m]
    BY <1>0 DEF sys_munmap, TypeOK, Without
  <1>3. Shape(root, l1, l0, pte') /\ Sound(free', lost, root, l1, l0, pte')
    <2>1. Shape(root, l1, l0, pte) /\ Sound(free, lost, root, l1, l0, pte)
      BY <1>0, SpaceTypes DEF PageUse
    <2>2. free' = free \cup MappedIn(pte[p], R)
      BY <1>1 DEF unmapped, MappedIn
    <2>3. Addresses(R)
      BY DEF Addresses
    <2>. QED
      BY <1>2, <2>1, <2>2, <2>3, GiveMapped, ZenonT(60)
  <1>4. \A q \in Procs, va \in VA : pte'[q][va] # NoPage => pte[q][va] # NoPage
    BY <1>0, <1>2 DEF TypeOK, Without
  <1>5. \A q \in Procs : q \notin live => pte'[q] = pte[q]
    BY <1>0, <1>2 DEF TypeOK, sys_munmap, Calls
  <1>6. TypeOK'
    <2>1. free' \subseteq Phys
      BY <1>3 DEF Sound
    <2>. QED
      BY <1>0, <1>1, <1>3, <2>1 DEF TypeOK, Shape
  <1>7. Lead'
    BY <1>0, <1>1, <1>4, <1>5 DEF Lead
  <1>8. Running'
    BY <1>0, <1>1 DEF Running
  <1>9. Gaps'
    <2>1. live \subseteq Procs
      BY <1>0 DEF TypeOK
    <2>. QED
      BY <1>0, <1>1, <1>4, <2>1 DEF Gaps, GapIn
  <1>. QED
    BY <1>1, <1>3, <1>6, <1>7, <1>8, <1>9, NoPanicJustified DEF PagesInv, PageUse

\* The break of an empty address space is in range.
LEMMA ZeroInRange == 0 \in 0..Top
  BY SpaceAssumption

\* Reclaiming a process frees its whole space and nothing else.
LEMMA ReclaimedIs ==
    ASSUME NEW p \in Procs
    PROVE  IsSpace(reclaimed(p), p, root, l1, l0, pte)
  BY DEF IsSpace, reclaimed, OwnedPages, TablePages

\* free_user_pages: a process is gone, and its pages and tables are free.
LEMMA ReleaseStep ==
    ASSUME PagesInv, NEW p \in live, op.k \in {"idle", "forkfail"}, release(p),
           live' = live \ {p}, panicked' = "", lost' = lost,
           op' \in [k : Kinds, p : Procs, from : Procs, todo : SUBSET VA, brk : 0..Top],
           op'.k = "idle", Running'
    PROVE  PagesInv'
  <1>0. TypeOK /\ PageUse /\ Lead /\ Gaps /\ p \in Procs
    BY DEF PagesInv, TypeOK
  <1>1. /\ free' = free \cup reclaimed(p)
        /\ root' = [root EXCEPT ![p] = NoPage] /\ l1' = [l1 EXCEPT ![p] = NoPage]
        /\ l0' = [l0 EXCEPT ![p] = NoTables] /\ pte' = [pte EXCEPT ![p] = NoMap]
        /\ max_brk' = [max_brk EXCEPT ![p] = 0]
        /\ mmap_base' = [mmap_base EXCEPT ![p] = NoBase]
    BY DEF release
  <1>2. Shape(root', l1', l0', pte') /\ Sound(free', lost, root', l1', l0', pte')
    <2>1. Shape(root, l1, l0, pte) /\ Sound(free, lost, root, l1, l0, pte)
      BY <1>0, SpaceTypes DEF PageUse
    <2>2. IsSpace(reclaimed(p), p, root, l1, l0, pte)
      BY <1>0, ReclaimedIs
    <2>. QED
      BY <1>0, <1>1, <2>1, <2>2, GiveSpace
  <1>3. /\ root'[p] = NoPage /\ l1'[p] = NoPage /\ l0'[p] = NoTables /\ pte'[p] = NoMap
        /\ \A q \in Procs : q # p => /\ root'[q] = root[q] /\ l1'[q] = l1[q]
                                     /\ l0'[q] = l0[q] /\ pte'[q] = pte[q]
    BY <1>0, <1>1 DEF TypeOK
  <1>4. \A q \in Procs : q # p => max_brk'[q] = max_brk[q] /\ mmap_base'[q] = mmap_base[q]
    BY <1>0, <1>1 DEF TypeOK
  <1>5. TypeOK'
    <2>1. free' \subseteq Phys /\ lost' \subseteq Phys
      BY <1>2 DEF Sound
    <2>2. 0 \in 0..Top
      BY ZeroInRange
    <2>3. max_brk' \in [Procs -> 0..Top] /\ mmap_base' \in [Procs -> {NoBase} \cup 0..Top]
      BY <1>0, <1>1, <2>2 DEF TypeOK
    <2>. QED
      BY <1>0, <1>2, <2>1, <2>3 DEF TypeOK, Shape
  <1>6. Lead'
    <2>1. /\ \A r \in Regions : NoTables[r] = NoPage
          /\ \A va \in VA : NoMap[va] = NoPage
      BY DEF NoTables, NoMap
    <2>2. \A q \in live' : root'[q] # NoPage
      BY <1>0, <1>3, ZenonT(60) DEF Lead, TypeOK
    <2>3. \A q \in Procs \ live' : /\ root'[q] = NoPage /\ l1'[q] = NoPage
                                   /\ l0'[q] = NoTables /\ pte'[q] = NoMap
      BY <1>0, <1>3, ZenonT(60) DEF Lead
    <2>4. \A q \in Procs, va \in VA : pte'[q][va] # NoPage => l0'[q][Region(va)] # NoPage
      <3>. SUFFICES ASSUME NEW q \in Procs, NEW va \in VA, pte'[q][va] # NoPage
                    PROVE  l0'[q][Region(va)] # NoPage
        OBVIOUS
      <3>1. q # p
        BY <1>3, <2>1
      <3>2. pte'[q] = pte[q] /\ l0'[q] = l0[q]
        BY <1>3, <3>1
      <3>3. \A u \in Procs, a \in VA : pte[u][a] # NoPage => l0[u][Region(a)] # NoPage
        BY <1>0 DEF Lead
      <3>. QED
        BY <3>2, <3>3
    <2>5. \A q \in Procs, r \in Regions : l0'[q][r] # NoPage => l1'[q] # NoPage
      <3>. SUFFICES ASSUME NEW q \in Procs, NEW r \in Regions, l0'[q][r] # NoPage
                    PROVE  l1'[q] # NoPage
        OBVIOUS
      <3>1. q # p
        BY <1>3, <2>1
      <3>2. l1'[q] = l1[q] /\ l0'[q] = l0[q]
        BY <1>3, <3>1
      <3>3. \A u \in Procs, e \in Regions : l0[u][e] # NoPage => l1[u] # NoPage
        BY <1>0 DEF Lead
      <3>. QED
        BY <3>2, <3>3
    <2>. QED
      BY <2>2, <2>3, <2>4, <2>5 DEF Lead
  <1>7. Gaps'
    BY <1>0, <1>3, <1>4 DEF Gaps, TypeOK
  <1>. QED
    BY <1>2, <1>5, <1>6, <1>7, NoPanicJustified DEF PagesInv, PageUse

\* execve: the old space is given back, and one of the free pages is the new root.
LEMMA ExecveStep ==
    ASSUME PagesInv, NEW p \in Procs, execve(p)
    PROVE  PagesInv'
  <1>0. TypeOK /\ PageUse /\ Lead /\ Gaps
    BY DEF PagesInv
  <1>1. /\ p \in live /\ op.k = "idle" /\ panicked' = "" /\ live' = live /\ lost' = lost
        /\ l1' = [l1 EXCEPT ![p] = NoPage]
        /\ l0' = [l0 EXCEPT ![p] = NoTables] /\ pte' = [pte EXCEPT ![p] = NoMap]
        /\ max_brk' = [max_brk EXCEPT ![p] = 0]
        /\ mmap_base' = [mmap_base EXCEPT ![p] = NoBase]
        /\ op' = [k |-> "exec", p |-> p, from |-> p, todo |-> Stack \cup Image,
                  brk |-> ProgPages]
    BY DEF execve, Calls
  <1>2. PICK G, x : /\ G = reclaimed(p) /\ x = kalloc(free \cup G)
                    /\ root' = [root EXCEPT ![p] = x] /\ free' = (free \cup G) \ {x}
    BY Zenon DEF execve
  <1>3. IsSpace(G, p, root, l1, l0, pte)
    BY <1>2, ReclaimedIs
  <1>4. x \in free \cup G
    <2>1. root[p] \in Phys
      BY <1>0, <1>1 DEF TypeOK, Lead
    <2>2. root[p] \in G
      BY <1>3, <2>1 DEF IsSpace
    <2>. QED
      BY <1>2, <2>2, KallocMember
  <1>5. Shape(root', l1', l0', pte') /\ Sound(free', lost, root', l1', l0', pte')
    <2>1. Shape(root, l1, l0, pte) /\ Sound(free, lost, root, l1, l0, pte)
      BY <1>0, SpaceTypes DEF PageUse
    <2>2. PICK rt : rt = [root EXCEPT ![p] = NoPage]
      OBVIOUS
    <2>3. Shape(rt, l1', l0', pte') /\ Sound(free \cup G, lost, rt, l1', l0', pte')
      BY <1>1, <1>3, <2>1, <2>2, GiveSpace
    <2>4. rt[p] = NoPage /\ root' = [rt EXCEPT ![p] = x]
      BY <1>2, <2>1, <2>2 DEF Shape
    <2>5. PICK F : F = free \cup G
      OBVIOUS
    <2>6. x \in F /\ Sound(F, lost, rt, l1', l0', pte') /\ free' = F \ {x}
      BY <1>2, <1>4, <2>3, <2>5
    <2>. QED
      BY <2>3, <2>4, <2>6, TakeRoot
  <1>6. /\ root'[p] # NoPage /\ l1'[p] = NoPage /\ l0'[p] = NoTables /\ pte'[p] = NoMap
        /\ \A q \in Procs : q # p => /\ root'[q] = root[q] /\ l1'[q] = l1[q]
                                     /\ l0'[q] = l0[q] /\ pte'[q] = pte[q]
    <2>1. x # NoPage
      BY <1>0, <1>3, <1>4, SpaceAssumption DEF TypeOK, IsSpace
    <2>. QED
      BY <1>0, <1>1, <1>2, <2>1 DEF TypeOK
  <1>7. /\ mmap_base'[p] = NoBase
        /\ \A q \in Procs : q # p => max_brk'[q] = max_brk[q] /\ mmap_base'[q] = mmap_base[q]
    BY <1>0, <1>1 DEF TypeOK
  <1>8. /\ op'.k = "exec" /\ op'.p = p /\ op'.todo = Stack \cup Image
        /\ op'.brk = ProgPages
    BY <1>1
  <1>9. TypeOK'
    <2>1. free' \subseteq Phys /\ lost' \subseteq Phys
      BY <1>1, <1>5 DEF Sound
    <2>2. /\ 0 \in 0..Top /\ ProgPages \in 0..Top /\ Stack \cup Image \subseteq VA
          /\ "exec" \in Kinds
      BY SpaceAssumption DEF Stack, Image, VA, StackBottom, Kinds
    <2>3. max_brk' \in [Procs -> 0..Top] /\ mmap_base' \in [Procs -> {NoBase} \cup 0..Top]
      BY <1>0, <1>1, <2>2 DEF TypeOK
    <2>4. op' \in [k : Kinds, p : Procs, from : Procs, todo : SUBSET VA, brk : 0..Top]
      BY <1>1, <2>2
    <2>. QED
      BY <1>0, <1>1, <1>5, <2>1, <2>3, <2>4 DEF TypeOK, Shape
  <1>10. (\A r \in Regions : NoTables[r] = NoPage) /\ (\A va \in VA : NoMap[va] = NoPage)
    BY DEF NoTables, NoMap
  <1>11. Lead'
    <2>2. \A q \in live' : root'[q] # NoPage
      BY <1>0, <1>1, <1>6, ZenonT(60) DEF Lead, TypeOK
    <2>3. \A q \in Procs \ live' : /\ root'[q] = NoPage /\ l1'[q] = NoPage
                                   /\ l0'[q] = NoTables /\ pte'[q] = NoMap
      BY <1>0, <1>1, <1>6 DEF Lead
    <2>4. \A q \in Procs, va \in VA : pte'[q][va] # NoPage => l0'[q][Region(va)] # NoPage
      BY <1>0, <1>6, <1>10 DEF Lead
    <2>5. \A q \in Procs, r \in Regions : l0'[q][r] # NoPage => l1'[q] # NoPage
      BY <1>0, <1>6, <1>10 DEF Lead
    <2>. QED
      BY <2>2, <2>3, <2>4, <2>5 DEF Lead
  <1>12. Running'
    <2>1. TopOf(NoBase) = StackBottom
      BY DEF TopOf
    <2>2. \A va \in Stack \cup Image : va \in VA /\ ~Within(va, ProgPages, StackBottom)
      BY SpaceAssumption DEF Stack, Image, VA, StackBottom, Within
    <2>3. GapIn(NoMap, ProgPages, StackBottom)
      BY <1>10 DEF GapIn
    <2>4. \A va \in op'.todo : /\ pte'[p][va] = NoPage
                               /\ ~Within(va, op'.brk, TopOf(mmap_base'[p]))
      BY <1>6, <1>7, <1>8, <1>10, <2>1, <2>2
    <2>5. GapIn(pte'[p], op'.brk, TopOf(mmap_base'[p])) /\ p \in live'
      BY <1>1, <1>6, <1>7, <1>8, <2>1, <2>3
    <2>6. op'.k = "exec" /\ op'.p = p
      BY <1>8
    <2>. QED
      BY <2>4, <2>5, <2>6 DEF Running
  <1>13. Gaps'
    BY <1>0, <1>1, <1>6, <1>7, <1>8 DEF Gaps, TypeOK
  <1>. QED
    BY <1>1, <1>5, <1>9, <1>11, <1>12, <1>13, NoPanicJustified DEF PagesInv, PageUse

\* proc_fork_current: the child has a root table and nothing else, and every page
\* to come is at an address where the parent has one.
LEMMA ForkStep ==
    ASSUME PagesInv, NEW p \in Procs, NEW q \in Procs, proc_fork_current(p, q)
    PROVE  PagesInv'
  <1>0. TypeOK /\ PageUse /\ Lead /\ Running /\ Gaps
    BY DEF PagesInv
  <1>1. p \in live /\ q \notin live /\ op.k = "idle" /\ lost' = lost /\ p # q
    BY DEF proc_fork_current, Calls
  <1>2. CASE free = {}
    <2>1. /\ panicked' = "out of memory"
          /\ UNCHANGED <<free, live, root, l1, l0, pte, max_brk, mmap_base, op, lost>>
      BY <1>2 DEF proc_fork_current, tables
    <2>2. TypeOK'
      BY <1>0, <2>1 DEF TypeOK
    <2>3. PageUse' /\ Lead' /\ Running' /\ Gaps'
      BY <1>0, <2>1 DEF PageUse, Lead, Running, Gaps
    <2>4. PanicJustified'
      BY <1>2, <2>1 DEF PanicJustified
    <2>. QED
      BY <2>2, <2>3, <2>4 DEF PagesInv
  <1>3. CASE free # {}
    <2>1. PICK x \in free, D \in SUBSET VA :
            /\ D = {va \in VA : pte[p][va] # NoPage}
            /\ root' = [root EXCEPT ![q] = x] /\ free' = free \ {x}
            /\ live' = live \cup {q}
            /\ max_brk' = [max_brk EXCEPT ![q] = max_brk[p]]
            /\ mmap_base' = [mmap_base EXCEPT ![q] = mmap_base[p]]
            /\ op' = [k |-> "fork", p |-> q, from |-> p, todo |-> D, brk |-> max_brk[p]]
            /\ l1' = l1 /\ l0' = l0 /\ pte' = pte /\ panicked' = panicked
      <3>1. kalloc(free) \in free /\ {va \in VA : pte[p][va] # NoPage} \in SUBSET VA
        BY <1>3, KallocMember
      <3>. QED
        BY <1>3, <3>1, Zenon DEF proc_fork_current, child_base
    <2>2. panicked' = ""
      BY <2>1 DEF proc_fork_current, Calls
    <2>3. root[q] = NoPage /\ pte[q] = NoMap
      BY <1>0, <1>1 DEF Lead
    <2>4. Shape(root', l1, l0, pte) /\ Sound(free', lost, root', l1, l0, pte)
      <3>1. Shape(root, l1, l0, pte) /\ Sound(free, lost, root, l1, l0, pte)
        BY <1>0, SpaceTypes DEF PageUse
      <3>. QED
        BY <2>1, <2>3, <3>1, TakeRoot
    <2>5. /\ x # NoPage /\ root'[q] = x /\ \A u \in Procs : u # q => root'[u] = root[u]
      BY <1>0, <2>1, SpaceAssumption DEF TypeOK
    <2>6. /\ max_brk'[q] = max_brk[p] /\ mmap_base'[q] = mmap_base[p]
          /\ \A u \in Procs : u # q => max_brk'[u] = max_brk[u] /\ mmap_base'[u] = mmap_base[u]
      BY <1>0, <2>1 DEF TypeOK
    <2>7. /\ op'.k = "fork" /\ op'.p = q /\ op'.from = p /\ op'.todo = D
          /\ op'.brk = max_brk[p]
      BY <2>1
    <2>8. TypeOK'
      <3>1. free' \subseteq Phys /\ live' \subseteq Procs
        BY <1>0, <2>1 DEF TypeOK
      <3>2. max_brk[p] \in 0..Top /\ "fork" \in Kinds
        BY <1>0 DEF TypeOK, Kinds
      <3>3. op' \in [k : Kinds, p : Procs, from : Procs, todo : SUBSET VA, brk : 0..Top]
        BY <2>1, <3>2
      <3>4. max_brk' \in [Procs -> 0..Top] /\ mmap_base' \in [Procs -> {NoBase} \cup 0..Top]
        BY <1>0, <2>1 DEF TypeOK
      <3>. QED
        BY <1>0, <1>1, <2>1, <2>2, <2>4, <3>1, <3>3, <3>4 DEF TypeOK, Shape
    <2>9. Lead'
      <3>1. \A u \in live' : root'[u] # NoPage
        BY <1>0, <2>1, <2>5 DEF Lead, TypeOK
      <3>2. \A u \in Procs \ live' : /\ root'[u] = NoPage /\ l1'[u] = NoPage
                                     /\ l0'[u] = NoTables /\ pte'[u] = NoMap
        BY <1>0, <2>1, <2>5 DEF Lead
      <3>. QED
        BY <1>0, <2>1, <3>1, <3>2 DEF Lead
    <2>10. \A va \in VA : NoMap[va] = NoPage
      BY DEF NoMap
    <2>11. Running'
      <3>1. \A va \in D : pte'[q][va] = NoPage /\ pte'[p][va] # NoPage
        BY <2>1, <2>3, <2>10
      <3>2. q \in live' /\ p \in live'
        BY <1>1, <2>1
      <3>3. max_brk'[q] = max_brk'[p] /\ mmap_base'[q] = mmap_base'[p] /\ op'.brk = max_brk'[q]
        BY <1>1, <2>6, <2>7
      <3>. QED
        BY <1>1, <2>7, <3>1, <3>2, <3>3 DEF Running
    <2>12. Gaps'
      <3>. SUFFICES ASSUME NEW u \in live'
                    PROVE  GapIn(pte[u], max_brk'[u], TopOf(mmap_base'[u]))
        BY <2>1 DEF Gaps
      <3>1. CASE u = q
        BY <2>3, <2>10, <3>1 DEF GapIn
      <3>2. CASE u # q
        BY <1>0, <1>1, <2>1, <2>6, <3>2 DEF Gaps, TypeOK
      <3>. QED
        BY <3>1, <3>2
    <2>. QED
      BY <1>1, <2>1, <2>2, <2>4, <2>8, <2>9, <2>11, <2>12, NoPanicJustified
         DEF PagesInv, PageUse
  <1>. QED
    BY <1>2, <1>3

-----------------------------------------------------------------------------
(* The invariant holds at boot and is kept by every step.                  *)

\* At boot one page is in use, the root table of the first process.
LEMMA PagesInvInit == Init => PagesInv
  <1>. SUFFICES ASSUME Init PROVE PagesInv
    OBVIOUS
  <1>1. PICK x \in Phys : /\ x = kalloc(Phys) /\ free = Phys \ {x}
                          /\ root = [p \in Procs |-> IF p = First THEN x ELSE NoPage]
    BY SpaceAssumption, KallocMember DEF Init
  <1>2. /\ live = {First} /\ l1 = [p \in Procs |-> NoPage]
        /\ l0 = [p \in Procs |-> NoTables] /\ pte = [p \in Procs |-> NoMap]
        /\ max_brk = [p \in Procs |-> 0] /\ mmap_base = [p \in Procs |-> NoBase]
        /\ op = [k |-> "exec", p |-> First, from |-> First, todo |-> Stack \cup Image,
                 brk |-> ProgPages]
        /\ panicked = "" /\ lost = {}
    BY DEF Init
  <1>3. First \in Procs /\ NoPage \notin Phys
    BY SpaceAssumption
  <1>4. /\ NoTables \in [Regions -> Phys \cup {NoPage}]
        /\ NoMap \in [VA -> Phys \cup Shared \cup {NoPage}]
        /\ \A r \in Regions : NoTables[r] = NoPage
        /\ \A va \in VA : NoMap[va] = NoPage
    BY DEF NoTables, NoMap
  <1>5. Shape(root, l1, l0, pte) /\ Sound(free, lost, root, l1, l0, pte)
    <2>1. PICK rt : rt = [p \in Procs |-> NoPage]
      OBVIOUS
    <2>2. Shape(rt, l1, l0, pte)
      BY <1>2, <1>4, <2>1 DEF Shape
    <2>3. /\ \A p \in Procs : rt[p] = NoPage /\ l1[p] = NoPage
          /\ \A p \in Procs, r \in Regions : l0[p][r] = NoPage
          /\ \A p \in Procs, va \in VA : pte[p][va] = NoPage
      BY <1>2, <1>4, <2>1
    <2>4. \A y \in Phys : Nowhere(y, rt, l1, l0, pte)
      BY <1>3, <2>3 DEF Nowhere
    <2>5. NotTwice(rt, l1, l0, pte)
      BY <1>3, <2>3 DEF NotTwice
    <2>6. Sound(Phys, lost, rt, l1, l0, pte)
      BY <1>2, <2>4, <2>5 DEF Sound
    <2>7. rt[First] = NoPage /\ root = [rt EXCEPT ![First] = x]
      BY <1>1, <1>3, <2>1
    <2>. QED
      BY <1>1, <1>3, <2>2, <2>6, <2>7, TakeRoot
  <1>6. /\ ProgPages \in 0..Top /\ Stack \cup Image \subseteq VA
        /\ \A va \in Stack \cup Image : va \in VA /\ ~Within(va, ProgPages, StackBottom)
    BY SpaceAssumption DEF Stack, Image, VA, StackBottom, Within
  <1>7. /\ op.k = "exec" /\ op.p = First /\ op.todo = Stack \cup Image
        /\ op.brk = ProgPages
    BY <1>2
  <1>8. TypeOK
    <2>1. op \in [k : Kinds, p : Procs, from : Procs, todo : SUBSET VA, brk : 0..Top]
      BY <1>2, <1>3, <1>6 DEF Kinds
    <2>2. max_brk \in [Procs -> 0..Top] /\ mmap_base \in [Procs -> {NoBase} \cup 0..Top]
      BY <1>2, ZeroInRange
    <2>. QED
      BY <1>1, <1>2, <1>3, <1>5, <2>1, <2>2 DEF TypeOK, Shape
  <1>9. Lead
    <2>1. root[First] # NoPage /\ \A p \in Procs : p # First => root[p] = NoPage
      BY <1>1, <1>3
    <2>. QED
      BY <1>2, <1>4, <2>1 DEF Lead
  <1>10. Running
    <2>1. TopOf(mmap_base[First]) = StackBottom /\ pte[First] = NoMap /\ First \in live
      BY <1>2, <1>3 DEF TopOf
    <2>2. GapIn(NoMap, ProgPages, StackBottom)
      BY <1>4 DEF GapIn
    <2>3. \A va \in op.todo : pte[First][va] = NoPage
      BY <1>4, <1>6, <1>7, <2>1
    <2>. QED
      BY <1>6, <1>7, <2>1, <2>2, <2>3 DEF Running
  <1>11. PanicJustified /\ Gaps
    BY <1>2, <1>7 DEF PanicJustified, Gaps
  <1>. QED
    BY <1>5, <1>8, <1>9, <1>10, <1>11 DEF PagesInv, PageUse

\* Every step keeps the invariant.
LEMMA PagesInvStep == PagesInv /\ [Next]_vars => PagesInv'
  <1>. SUFFICES ASSUME PagesInv, [Next]_vars PROVE PagesInv'
    OBVIOUS
  <1>1. CASE turn
    BY <1>1, MapPageStep, MapPageFailsStep, MapPagePanicsStep DEF turn
  <1>2. CASE finish
    BY <1>2, FinishStep
  <1>3. CASE fork_fails
    <2>1. op.p \in live
      BY <1>3 DEF PagesInv, Running, fork_fails
    <2>2. PICK p \in live : p = op.p
      BY <2>1
    <2>3. /\ op.k = "forkfail" /\ release(p) /\ live' = live \ {p} /\ op' = Idle
          /\ panicked' = "" /\ lost' = lost
      BY <1>3, <2>2 DEF fork_fails
    <2>4. /\ op' \in [k : Kinds, p : Procs, from : Procs, todo : SUBSET VA, brk : 0..Top]
          /\ Running' /\ op'.k = "idle"
      BY <2>3, IdleOp
    <2>. QED
      BY <2>3, <2>4, ReleaseStep
  <1>4. ASSUME NEW p \in Procs, NEW b \in 1..Top, sys_brk(p, b) PROVE PagesInv'
    BY <1>4, BrkStep
  <1>5. ASSUME NEW p \in Procs, NEW n \in 1..Top, NEW k \in {"mmap", "mmapfd"},
               sys_mmap(p, n, k)
        PROVE  PagesInv'
    BY <1>5, MmapStep
  <1>6. ASSUME NEW p \in Procs, NEW a \in mmap_top(p)..(StackBottom - 1),
               NEW b \in mmap_top(p)..(StackBottom - 1), sys_munmap(p, a..b)
        PROVE  PagesInv'
    <2>1. PICK t \in Nat : t = mmap_top(p)
      BY SpaceNats DEF PagesInv
    <2>2. a \in t..(StackBottom - 1) /\ b \in t..(StackBottom - 1)
      BY <2>1
    <2>3. StackBottom \in Nat /\ StackBottom <= Top /\ Top \in Nat
      BY SpaceAssumption DEF StackBottom
    <2>4. a..b \in SUBSET VA
      BY <2>2, <2>3 DEF VA
    <2>. QED
      BY <1>6, <2>4, MunmapStep
  <1>7. ASSUME NEW p \in Procs, terminate_proc(p) PROVE PagesInv'
    <2>1. /\ op.k = "idle" /\ p \in live /\ release(p) /\ live' = live \ {p}
          /\ op' = op /\ panicked' = "" /\ lost' = lost
      BY <1>7 DEF terminate_proc, Calls
    <2>2. op' \in [k : Kinds, p : Procs, from : Procs, todo : SUBSET VA, brk : 0..Top]
      BY <2>1 DEF PagesInv, TypeOK
    <2>3. Running' /\ op'.k = "idle"
      BY <2>1 DEF PagesInv, Running
    <2>. QED
      BY <2>1, <2>2, <2>3, ReleaseStep
  <1>8. ASSUME NEW p \in Procs, execve(p) PROVE PagesInv'
    BY <1>8, ExecveStep
  <1>9. ASSUME NEW p \in Procs, NEW q \in Procs, proc_fork_current(p, q) PROVE PagesInv'
    BY <1>9, ForkStep
  <1>10. CASE UNCHANGED vars
    BY <1>10 DEF vars, PagesInv, TypeOK, PageUse, Lead, Running, Gaps, PanicJustified,
                 NextVA, mmap_top
  <1>. QED
    BY <1>1, <1>2, <1>3, <1>4, <1>5, <1>6, <1>7, <1>8, <1>9, <1>10 DEF Next

\* Every page keeps one use, at every step of every call of any number of processes
\* on any number of pages: the inductive invariant of the address spaces.
THEOREM PagesInvHolds == Spec => []PagesInv
  BY PagesInvInit, PagesInvStep, PTL DEF Spec

-----------------------------------------------------------------------------
(* What the run checks.                                                    *)

\* The place u of kind t is one where the tables f lead to x.
PairWith(A, B, f, x, t, u) ==
    \E c \in {e \in A \X B : f[e[1]][e[2]] = x} : u = <<t, c[1], c[2]>>

\* The places of a page in a two-level table.
LEMMA PlacesIn ==
    ASSUME NEW A, NEW B, NEW f, NEW x, NEW t, NEW u
    PROVE  PairWith(A, B, f, x, t, u)
           <=> \E a \in A, b \in B : f[a][b] = x /\ u = <<t, a, b>>
  <1>1. ASSUME NEW c \in {e \in A \X B : f[e[1]][e[2]] = x}, u = <<t, c[1], c[2]>>
        PROVE  \E a \in A, b \in B : f[a][b] = x /\ u = <<t, a, b>>
    <2>1. c[1] \in A /\ c[2] \in B /\ f[c[1]][c[2]] = x
      OBVIOUS
    <2>. QED
      BY <1>1, <2>1
  <1>2. ASSUME NEW a \in A, NEW b \in B, f[a][b] = x, u = <<t, a, b>>
        PROVE  \E c \in {e \in A \X B : f[e[1]][e[2]] = x} : u = <<t, c[1], c[2]>>
    <2>1. PICK c : c = <<a, b>>
      OBVIOUS
    <2>2. c \in A \X B /\ c[1] = a /\ c[2] = b
      BY <2>1
    <2>3. c \in {e \in A \X B : f[e[1]][e[2]] = x}
      BY <1>2, <2>2
    <2>. QED
      BY <1>2, <2>2, <2>3
  <1>. QED
    BY <1>1, <1>2, Zenon DEF PairWith

\* The uses of a page, one by one.
LEMMA UsesIs ==
    ASSUME NEW x, NEW u
    PROVE  u \in Uses(x) <=>
            \/ u = <<"free">> /\ x \in free
            \/ u = <<"lost">> /\ x \in lost
            \/ \E p \in Procs : root[p] = x /\ u = <<"root", p>>
            \/ \E p \in Procs : l1[p] = x /\ u = <<"l1", p>>
            \/ \E p \in Procs, r \in Regions : l0[p][r] = x /\ u = <<"l0", p, r>>
            \/ \E p \in Procs, va \in VA : pte[p][va] = x /\ u = <<"pte", p, va>>
  <1>1. (\E c \in {e \in Procs \X Regions : l0[e[1]][e[2]] = x} : u = <<"l0", c[1], c[2]>>)
        <=> \E p \in Procs, r \in Regions : l0[p][r] = x /\ u = <<"l0", p, r>>
    <2>1. PairWith(Procs, Regions, l0, x, "l0", u)
          <=> \E p \in Procs, r \in Regions : l0[p][r] = x /\ u = <<"l0", p, r>>
      BY PlacesIn
    <2>. QED
      BY <2>1, Zenon DEF PairWith
  <1>2. (\E c \in {e \in Procs \X VA : pte[e[1]][e[2]] = x} : u = <<"pte", c[1], c[2]>>)
        <=> \E p \in Procs, va \in VA : pte[p][va] = x /\ u = <<"pte", p, va>>
    <2>1. PairWith(Procs, VA, pte, x, "pte", u)
          <=> \E p \in Procs, va \in VA : pte[p][va] = x /\ u = <<"pte", p, va>>
      BY PlacesIn
    <2>. QED
      BY <2>1, Zenon DEF PairWith
  <1>. QED
    BY <1>1, <1>2 DEF Uses

\* Every page has one use at most.
LEMMA OneUseHolds == PagesInv => OneUse
  <1>. SUFFICES ASSUME PagesInv, NEW x \in Phys
                PROVE  \E u \in Uses(x) : Uses(x) = {u}
    BY DEF OneUse
  <1>0. /\ free \cap lost = {} /\ NotTwice(root, l1, l0, pte)
        /\ x \in free \cup lost <=> Nowhere(x, root, l1, l0, pte)
    BY DEF PagesInv, PageUse, Sound
  <1>. DEFINE IsUse(u) == \/ u = <<"free">> /\ x \in free
                          \/ u = <<"lost">> /\ x \in lost
                          \/ \E p \in Procs : root[p] = x /\ u = <<"root", p>>
                          \/ \E p \in Procs : l1[p] = x /\ u = <<"l1", p>>
                          \/ \E p \in Procs, r \in Regions :
                                  l0[p][r] = x /\ u = <<"l0", p, r>>
                          \/ \E p \in Procs, va \in VA :
                                  pte[p][va] = x /\ u = <<"pte", p, va>>
  <1>. SUFFICES \E u : IsUse(u) /\ \A v : IsUse(v) => v = u
    <2>. HIDE DEF IsUse
    <2>1. \A u : u \in Uses(x) <=> IsUse(u)
      BY UsesIs DEF IsUse
    <2>. QED
      BY <2>1
  <1>1. CASE x \in free
    <2>1. IsUse(<<"free">>) /\ \A v : IsUse(v) => v = <<"free">>
      BY <1>0, <1>1 DEF Nowhere
    <2>. QED
      BY <2>1
  <1>2. CASE x \in lost
    <2>1. IsUse(<<"lost">>) /\ \A v : IsUse(v) => v = <<"lost">>
      BY <1>0, <1>2 DEF Nowhere
    <2>. QED
      BY <2>1
  <1>3. CASE x \notin free \cup lost
    <2>0. \A p, q \in Procs : NotTwice(root, l1, l0, pte)!(p, q)
      BY <1>0 DEF NotTwice
    <2>1. CASE \E p \in Procs : root[p] = x
      <3>1. PICK p \in Procs : root[p] = x
        BY <2>1
      <3>2. IsUse(<<"root", p>>) /\ \A v : IsUse(v) => v = <<"root", p>>
        BY <1>3, <2>0, <3>1
      <3>. QED
        BY <3>2
    <2>2. CASE \E p \in Procs : l1[p] = x
      <3>1. PICK p \in Procs : l1[p] = x
        BY <2>2
      <3>2. IsUse(<<"l1", p>>) /\ \A v : IsUse(v) => v = <<"l1", p>>
        BY <1>3, <2>0, <3>1
      <3>. QED
        BY <3>2
    <2>3. CASE \E p \in Procs, r \in Regions : l0[p][r] = x
      <3>1. PICK p \in Procs, r \in Regions : l0[p][r] = x
        BY <2>3
      <3>2. IsUse(<<"l0", p, r>>) /\ \A v : IsUse(v) => v = <<"l0", p, r>>
        BY <1>3, <2>0, <3>1
      <3>. QED
        BY <3>2
    <2>4. CASE \E p \in Procs, va \in VA : pte[p][va] = x
      <3>1. PICK p \in Procs, va \in VA : pte[p][va] = x
        BY <2>4
      <3>2. IsUse(<<"pte", p, va>>) /\ \A v : IsUse(v) => v = <<"pte", p, va>>
        BY <1>3, <2>0, <3>1
      <3>. QED
        BY <3>2
    <2>. QED
      BY <1>0, <1>3, <2>1, <2>2, <2>3, <2>4 DEF Nowhere
  <1>. QED
    BY <1>1, <1>2, <1>3

\* A mapped page is reached through the tables of its process.
LEMMA TablesLeadHolds == PagesInv => TablesLead
  <1>. SUFFICES ASSUME PagesInv PROVE TablesLead
    OBVIOUS
  <1>0. TypeOK /\ Lead /\ NoPage \notin Phys
    BY SpaceAssumption DEF PagesInv
  <1>1. \A va \in VA : Region(va) \in Regions
    BY DEF Regions
  <1>2. ASSUME NEW p \in Procs \ live PROVE TablePages(p) \cup OwnedPages(p) = {}
    <2>1. /\ root[p] = NoPage /\ l1[p] = NoPage
          /\ \A r \in Regions : l0[p][r] = NoPage
          /\ \A va \in VA : pte[p][va] = NoPage
      BY <1>0 DEF Lead, NoTables, NoMap
    <2>2. TablePages(p) = {}
      BY <1>0, <2>1 DEF TablePages
    <2>3. OwnedPages(p) = {}
      BY <1>0, <2>1 DEF OwnedPages
    <2>. QED
      BY <2>2, <2>3
  <1>. QED
    BY <1>0, <1>1, <1>2 DEF Lead, TablesLead

\* Nothing is mapped between the heap and the mapped area.
LEMMA GapUnmappedHolds == PagesInv => GapUnmapped
  <1>. SUFFICES ASSUME PagesInv, NEW p \in live, NEW va \in VA,
                       ~(op.k \in {"brk", "exec"} /\ op.p = p),
                       max_brk[p] <= va, va < mmap_top(p)
                PROVE  pte[p][va] = NoPage
    BY DEF GapUnmapped
  <1>1. GapIn(pte[p], max_brk[p], TopOf(mmap_base[p]))
    BY DEF PagesInv, Gaps
  <1>2. mmap_top(p) = TopOf(mmap_base[p])
    BY SpaceNats DEF PagesInv, TypeOK
  <1>3. Within(va, max_brk[p], TopOf(mmap_base[p]))
    BY <1>2, Zenon DEF Within
  <1>. QED
    BY <1>1, <1>3 DEF GapIn

\* A physical page is in the free list, in one table, in one mapping of one process or
\* lost, and in one of these only; tables lead to all that is mapped; the gap between
\* heap and mappings is unmapped; a "remap" panic is a heap that grew into a mapping:
\* for every number of processes, pages and addresses, in the middle of every call
\* (kalloc, kfree, map_pages, fork, execve, brk, mmap, munmap, exit).
THEOREM PagesAlwaysConsistent == Spec => []PagesConsistent
  <1>1. PagesInv => PagesConsistent
    BY OneUseHolds, TablesLeadHolds, GapUnmappedHolds DEF PagesInv, PagesConsistent
  <1>. QED
    BY <1>1, PagesInvHolds, PTL

\* A page is lost only by a map_pages that found no page for a table: at that moment
\* the free list is empty.
THEOREM PagesLostOnlyAtTheEnd == Spec => LostOnlyAtTheEnd
  <1>1. PagesInv /\ [Next]_vars => [lost' # lost => free' = {}]_vars
    <2>. SUFFICES ASSUME PagesInv, Next, lost' # lost PROVE free' = {}
      OBVIOUS
    <2>1. turn
      BY DEF Next, finish, fork_fails, sys_brk, sys_mmap, sys_munmap, terminate_proc,
             execve, proc_fork_current
    <2>2. PICK pa \in sources : map_page_fails(pa) /\ op.todo # {}
      BY <2>1 DEF turn, map_page, map_page_panics
    <2>. QED
      BY <2>2, MapPageFailsUse
  <1>. QED
    BY <1>1, PagesInvHolds, PTL DEF Spec, LostOnlyAtTheEnd

-----------------------------------------------------------------------------
(* The file manager.                                                       *)

Entry == [name : Nat \cup {Up}, path : Seq(Nat), is_dir : BOOLEAN]

\* Where the sorted part of a list begins.
Start(where) == IF is_root_path(where) THEN 0 ELSE 1

\* e is d as an entry of the list of path.
Shows(where, e, d) ==
    e.name = d.name /\ e.path = Append(where, d.name) /\ e.is_dir = d.is_dir

\* The first m entries of a directory have been read, as s.
ReadSoFar(where, s, m) ==
    /\ s \in Seq(Entry) /\ Start(where) <= Len(s)
    /\ ~is_root_path(where) => s[1] = parent_entry(where)
    /\ \A i \in (Start(where) + 1)..Len(s) : \E l \in 1..m : Shows(where, s[i], Dirs[where][l])
    /\ \A i, j \in (Start(where) + 1)..Len(s) : s[i].name = s[j].name => i = j

LEMMA DirFacts ==
    ASSUME NEW where \in DOMAIN Dirs
    PROVE  /\ where \in Seq(Nat)
           /\ where # <<>> => Front(where) \in DOMAIN Dirs
           /\ Len(Dirs[where]) \in Nat /\ DOMAIN Dirs[where] = 1..Len(Dirs[where])
           /\ \A i \in 1..Len(Dirs[where]) : LET d == Dirs[where][i] IN
                 /\ d.name \in Nat /\ d.is_dir \in BOOLEAN /\ Append(where, d.name) \in Seq(Nat)
                 /\ d.is_dir => Append(where, d.name) \in DOMAIN Dirs
                 /\ \A j \in 1..Len(Dirs[where]) : d.name = Dirs[where][j].name => i = j
  <1>1. where \in Seq(Nat) /\ Dirs[where] \in Seq([name : Nat, is_dir : BOOLEAN])
    BY ListAssumption
  <1>2. Len(Dirs[where]) \in Nat /\ DOMAIN Dirs[where] = 1..Len(Dirs[where])
    BY <1>1
  <1>3. \A i \in 1..Len(Dirs[where]) : Dirs[where][i].name \in Nat /\ Dirs[where][i].is_dir \in BOOLEAN
    <2>. DEFINE R == [name : Nat, is_dir : BOOLEAN]
    <2>1. Dirs[where] \in Seq(R)
      BY <1>1
    <2>. HIDE DEF R
    <2>2. \A i \in 1..Len(Dirs[where]) : Dirs[where][i] \in R
      BY <2>1
    <2>. QED
      BY <2>2 DEF R
  <1>4. \A i \in 1..Len(Dirs[where]) : Append(where, Dirs[where][i].name) \in Seq(Nat)
    BY <1>1, <1>3
  <1>. QED
    BY <1>1, <1>2, <1>3, <1>4, ListAssumption

LEMMA ReadTurn ==
    ASSUME NEW where \in DOMAIN Dirs, NEW failed, NEW m \in 1..Len(Dirs[where]),
           NEW s, ReadSoFar(where, s, m - 1)
    PROVE  ReadSoFar(where, read_entry(where, failed, s, Dirs[where][m]), m)
  <1>. DEFINE d == Dirs[where][m]
              e == [name |-> d.name, path |-> join_path(where, d.name), is_dir |-> d.is_dir]
  <1>0. s \in Seq(Entry) /\ Len(s) \in Nat /\ Start(where) \in 0..1 /\ Start(where) <= Len(s) /\ m \in Nat
    BY DirFacts DEF ReadSoFar, Start
  <1>1. e \in Entry /\ Shows(where, e, d)
    BY DirFacts DEF Entry, Shows, join_path
  <1>2. \A i \in (Start(where) + 1)..Len(s) : \E l \in 1..m : Shows(where, s[i], Dirs[where][l])
    BY <1>0 DEF ReadSoFar
  <1>3. CASE read_entry(where, failed, s, d) = s
    BY <1>2, <1>3 DEF ReadSoFar
  <1>4. CASE read_entry(where, failed, s, d) = Append(s, e)
    <2>. DEFINE t == Append(s, e)
    <2>1. t \in Seq(Entry) /\ Len(t) = Len(s) + 1 /\ t[Len(s) + 1] = e
          /\ \A i \in 1..Len(s) : t[i] = s[i]
      BY <1>0, <1>1
    <2>. HIDE DEF e, d, t
    <2>2. ~is_root_path(where) => t[1] = parent_entry(where)
      <3>1. ~is_root_path(where) => 1 \in 1..Len(s)
        BY <1>0 DEF Start
      <3>. QED
        BY <2>1, <3>1 DEF ReadSoFar
    <2>3. \A i \in (Start(where) + 1)..Len(t) : \E l \in 1..m : Shows(where, t[i], Dirs[where][l])
      <3>1. \A i \in (Start(where) + 1)..Len(t) :
                 (i \in (Start(where) + 1)..Len(s) /\ i \in 1..Len(s)) \/ i = Len(s) + 1
        BY <1>0, <2>1
      <3>2. m \in 1..m
        BY <1>0
      <3>. QED
        BY <1>1, <1>2, <2>1, <3>1, <3>2 DEF d
    <2>4. \A i \in (Start(where) + 1)..Len(s) : s[i].name # e.name
      <3>1. \A l \in 1..(m - 1) : Dirs[where][l].name # d.name
        BY DirFacts DEF d
      <3>2. \A i \in (Start(where) + 1)..Len(s) : \E l \in 1..(m - 1) : Shows(where, s[i], Dirs[where][l])
        BY DEF ReadSoFar
      <3>. QED
        BY <1>1, <3>1, <3>2 DEF Shows
    <2>5. \A i, j \in (Start(where) + 1)..Len(t) : t[i].name = t[j].name => i = j
      <3>1. \A i \in (Start(where) + 1)..Len(t) :
                 (i \in (Start(where) + 1)..Len(s) /\ i \in 1..Len(s)) \/ i = Len(s) + 1
        BY <1>0, <2>1
      <3>2. \A i, j \in (Start(where) + 1)..Len(s) : s[i].name = s[j].name => i = j
        BY DEF ReadSoFar
      <3>. QED
        BY <2>1, <2>4, <3>1, <3>2
    <2>6. Start(where) <= Len(t)
      BY <1>0, <2>1
    <2>. QED
      BY <1>4, <2>1, <2>2, <2>3, <2>5, <2>6 DEF ReadSoFar, d, t
  <1>. QED
    BY <1>3, <1>4 DEF read_entry

\* What a directory is read as: all of the list but its order.
LEMMA ReadList ==
    ASSUME NEW where \in DOMAIN Dirs, NEW failed
    PROVE  ReadSoFar(where, read_entries(where, failed), Len(Dirs[where]))
  <1>. DEFINE n == Len(Dirs[where])
              T == Seq(Entry)
              x == IF is_root_path(where) THEN <<>> ELSE <<parent_entry(where)>>
              F == [z \in T \X (1..n) |-> read_entry(where, failed, z[1], Dirs[where][z[2]])]
  <1>0. n \in Nat /\ \A k \in 1..n : Dirs[where][k].name \in Nat /\ Dirs[where][k].is_dir \in BOOLEAN
                                    /\ Append(where, Dirs[where][k].name) \in Seq(Nat)
    BY DirFacts
  <1>1. ReadSoFar(where, x, 0)
    <2>1. ~is_root_path(where) => parent_entry(where) \in Entry
      <3>1. where # <<>> => Front(where) \in Seq(Nat)
        BY ListAssumption
      <3>. QED
        BY <3>1 DEF parent_entry, parent_path_of, is_root_path, Root, Entry
    <2>2. CASE is_root_path(where)
      BY <2>2 DEF ReadSoFar, Start
    <2>3. CASE ~is_root_path(where)
      <3>1. x \in Seq(Entry) /\ Len(x) = 1 /\ x[1] = parent_entry(where)
        BY <2>1, <2>3
      <3>2. Start(where) = 1
        BY <2>3 DEF Start
      <3>. HIDE DEF x
      <3>. QED
        BY <3>1, <3>2 DEF ReadSoFar
    <2>. QED
      BY <2>2, <2>3
  <1>2. x \in T
    BY <1>1 DEF ReadSoFar
  <1>3. F \in [T \X (1..n) -> T]
    <2>. SUFFICES ASSUME NEW s \in T, NEW k \in 1..n
                  PROVE  read_entry(where, failed, s, Dirs[where][k]) \in T
      OBVIOUS
    <2>1. [name |-> Dirs[where][k].name, path |-> join_path(where, Dirs[where][k].name),
           is_dir |-> Dirs[where][k].is_dir] \in Entry
      BY <1>0 DEF Entry, join_path
    <2>. QED
      BY <2>1 DEF read_entry
  <1>4. \A s \in T, k \in 1..n : F[<<s, k>>] = read_entry(where, failed, s, Dirs[where][k])
    OBVIOUS
  <1>. HIDE DEF F, T, n
  <1>5. PICK g \in [0..n -> T] : Iterates(g, n, x, F)
    BY <1>0, <1>2, <1>3, RowExists
  <1>6. g = [k \in 0..n |-> IF k > 0 THEN read_entry(where, failed, g[k - 1], Dirs[where][k]) ELSE x]
    <2>1. ASSUME NEW k \in 0..n
          PROVE  g[k] = IF k > 0 THEN read_entry(where, failed, g[k - 1], Dirs[where][k]) ELSE x
      <3>1. CASE k = 0
        BY <1>5, <3>1 DEF Iterates
      <3>2. CASE k # 0
        <4>1. k \in 1..n /\ k > 0 /\ k - 1 \in 0..n
          BY <1>0, <3>2
        <4>2. g[k - 1] \in T
          BY <4>1
        <4>3. g[k] = F[<<g[k - 1], k>>]
          BY <1>5, <3>2 DEF Iterates
        <4>. QED
          BY <1>4, <4>1, <4>2, <4>3
      <3>. QED
        BY <3>1, <3>2
    <2>. QED
      BY <2>1
  <1>. DEFINE Same(h) == h = [k \in 0..n |-> IF k > 0 THEN read_entry(where, failed, h[k - 1], Dirs[where][k]) ELSE x]
              f == CHOOSE h : Same(h)
  <1>7. Same(f)
    BY <1>6
  <1>8. read_entries(where, failed) = f[n]
    BY DEF read_entries, n
  <1>. HIDE DEF f
  <1>9. f[0] = x /\ \A k \in 1..n : f[k] = read_entry(where, failed, f[k - 1], Dirs[where][k])
    <2>1. 0 \in 0..n /\ \A k \in 1..n : k \in 0..n /\ k > 0
      BY <1>0
    <2>. HIDE DEF x
    <2>2. f[0] = x
      BY <1>7, <2>1
    <2>3. \A k \in 1..n : f[k] = read_entry(where, failed, f[k - 1], Dirs[where][k])
      BY <1>7, <2>1
    <2>. QED
      BY <2>2, <2>3
  <1>. DEFINE P == {k \in 0..n : ReadSoFar(where, f[k], k)}
  <1>10. 0 \in P
    BY <1>0, <1>1, <1>9
  <1>11. ASSUME NEW k \in 0..(n - 1), k \in P PROVE k + 1 \in P
    <2>. DEFINE m == k + 1
    <2>1. m \in 1..n /\ m \in 0..n /\ m - 1 = k
      BY <1>0
    <2>. HIDE DEF m
    <2>2. ReadSoFar(where, f[m - 1], m - 1)
      BY <1>11, <2>1
    <2>3. ReadSoFar(where, read_entry(where, failed, f[m - 1], Dirs[where][m]), m)
      BY <2>1, <2>2, ReadTurn DEF n
    <2>4. m \in P
      BY <1>9, <2>1, <2>3
    <2>. QED
      BY <2>4 DEF m
  <1>. HIDE DEF P
  <1>12. n \in P
    <2>1. \A k \in 0..n : k \in P
      BY <1>0, <1>10, <1>11, UpTo
    <2>. QED
      BY <1>0, <2>1
  <1>. QED
    BY <1>8, <1>12 DEF P, n

\* The order of a list.
Before(e, d) ==
    \/ e.is_dir /\ ~d.is_dir
    \/ e.is_dir = d.is_dir /\ e.name < d.name

Sorted(s, start) == \A i, j \in (start + 1)..Len(s) : i < j => Before(s[i], s[j])

\* Where an entry goes.
LEMMA InsertPlace ==
    ASSUME NEW s \in Seq(Entry), NEW start \in 0..Len(s), NEW x
    PROVE  \E at \in start..Len(s) :
              /\ Insert(s, start, x) = SubSeq(s, 1, at) \o <<x>> \o SubSeq(s, at + 1, Len(s))
              /\ \A k \in (at + 1)..Len(s) : entry_less(x, s[k])
              /\ at = start \/ ~entry_less(x, s[at])
  <1>. DEFINE fit == {j \in start..Len(s) : \A k \in (j + 1)..Len(s) : entry_less(x, s[k])}
              at == Min(fit)
              n == Len(s)
  <1>0. n \in Nat /\ start \in Nat /\ start <= n
    OBVIOUS
  <1>1. at \in fit /\ \A j \in fit : at <= j
    <2>1. n \in fit /\ fit \subseteq Nat
      BY <1>0
    <2>. HIDE DEF fit
    <2>. QED
      BY <2>1, MinMember
  <1>2. at \in start..n /\ at \in Nat /\ \A k \in (at + 1)..n : entry_less(x, s[k])
    BY <1>0, <1>1
  <1>3. Insert(s, start, x) = SubSeq(s, 1, at) \o <<x>> \o SubSeq(s, at + 1, n)
    <2>1. at + 1 - 1 = at
      BY <1>2
    <2>2. Insert(s, start, x) = SubSeq(s, 1, (at + 1) - 1) \o <<x>> \o SubSeq(s, at + 1, n)
      BY DEF Insert, InsertAt
    <2>3. (at + 1) - 1 = at
      BY <1>2
    <2>. QED
      BY <2>2, <2>3
  <1>4. at = start \/ ~entry_less(x, s[at])
    <2>. SUFFICES ASSUME at # start, entry_less(x, s[at]) PROVE FALSE
      OBVIOUS
    <2>. DEFINE j == at - 1
    <2>1. j \in start..n /\ (j + 1) = at /\ ~(at <= j)
      BY <1>0, <1>2
    <2>. HIDE DEF j, at
    <2>2. \A k \in (j + 1)..n : k = at \/ k \in (at + 1)..n
      BY <1>0, <1>2, <2>1
    <2>3. \A k \in (j + 1)..n : entry_less(x, s[k])
      BY <1>2, <2>2
    <2>4. j \in fit
      BY <2>1, <2>3
    <2>. QED
      BY <1>1, <2>1, <2>4
  <1>. HIDE DEF at
  <1>. QED
    BY <1>2, <1>3, <1>4 DEF n

LEMMA InsertType ==
    ASSUME NEW s \in Seq(Entry), NEW start \in 0..Len(s), NEW x \in Entry
    PROVE  Insert(s, start, x) \in Seq(Entry) /\ Len(Insert(s, start, x)) = Len(s) + 1
  <1>1. PICK at \in start..Len(s) :
            Insert(s, start, x) = SubSeq(s, 1, at) \o <<x>> \o SubSeq(s, at + 1, Len(s))
    BY InsertPlace
  <1>. DEFINE u == SubSeq(s, 1, at)
              v == SubSeq(s, at + 1, Len(s))
              w == u \o <<x>>
  <1>2. at \in Nat /\ at <= Len(s) /\ Len(s) \in Nat
    OBVIOUS
  <1>3. u \in Seq(Entry) /\ Len(u) = at /\ v \in Seq(Entry) /\ Len(v) = Len(s) - at
    BY <1>2
  <1>. HIDE DEF u, v
  <1>4. w \in Seq(Entry) /\ Len(w) = at + 1
    BY <1>2, <1>3
  <1>. HIDE DEF w
  <1>5. w \o v \in Seq(Entry) /\ Len(w \o v) = Len(s) + 1
    BY <1>2, <1>3, <1>4
  <1>. QED
    BY <1>1, <1>5 DEF u, v, w

\* An entry goes behind all that come before it.
LEMMA InsertFacts ==
    ASSUME NEW s \in Seq(Entry), NEW start \in 0..Len(s), Sorted(s, start), NEW x \in Entry,
           \A i \in (start + 1)..Len(s) : s[i].name # x.name
    PROVE  \E at \in start..Len(s) :
              /\ Insert(s, start, x) \in Seq(Entry) /\ Len(Insert(s, start, x)) = Len(s) + 1
              /\ \A i \in 1..at : Insert(s, start, x)[i] = s[i]
              /\ Insert(s, start, x)[at + 1] = x
              /\ \A i \in (at + 1)..Len(s) : Insert(s, start, x)[i + 1] = s[i]
              /\ \A i \in (start + 1)..at : Before(s[i], x)
              /\ \A i \in (at + 1)..Len(s) : Before(x, s[i])
  <1>. DEFINE n == Len(s)
  <1>0. n \in Nat /\ start \in Nat /\ start <= n
    OBVIOUS
  <1>1. PICK at \in start..n :
              /\ Insert(s, start, x) = SubSeq(s, 1, at) \o <<x>> \o SubSeq(s, at + 1, n)
              /\ \A k \in (at + 1)..n : entry_less(x, s[k])
              /\ at = start \/ ~entry_less(x, s[at])
    BY InsertPlace
  <1>2. at \in start..n /\ at \in Nat /\ \A k \in (at + 1)..n : entry_less(x, s[k])
    BY <1>0, <1>1
  <1>3. Insert(s, start, x) = SubSeq(s, 1, at) \o <<x>> \o SubSeq(s, at + 1, n)
    BY <1>1
  <1>4. at = start \/ ~entry_less(x, s[at])
    BY <1>1
  <1>5. \A i \in 1..n : s[i] \in Entry
    OBVIOUS
  <1>6. \A i \in (at + 1)..n : Before(x, s[i])
    BY <1>2 DEF entry_less, Before
  <1>7. \A i \in (start + 1)..at : Before(s[i], x)
    <2>. SUFFICES ASSUME NEW i \in (start + 1)..at PROVE Before(s[i], x)
      OBVIOUS
    <2>1. at \in (start + 1)..n /\ at # start /\ i \in (start + 1)..n /\ i \in 1..n /\ at \in 1..n
      BY <1>0, <1>2
    <2>2. Before(s[at], x)
      <3>1. s[at].name # x.name /\ ~entry_less(x, s[at])
        BY <1>4, <2>1
      <3>2. s[at].name \in Int /\ x.name \in Int /\ s[at].is_dir \in BOOLEAN /\ x.is_dir \in BOOLEAN
        BY <1>5, <2>1 DEF Entry, Up
      <3>. QED
        BY <3>1, <3>2 DEF entry_less, Before
    <2>3. CASE i = at
      BY <2>2, <2>3
    <2>4. CASE i # at
      <3>1. Before(s[i], s[at])
        BY <1>0, <1>2, <2>1, <2>4 DEF Sorted
      <3>2. /\ s[i].name \in Int /\ s[at].name \in Int /\ x.name \in Int
            /\ s[i].is_dir \in BOOLEAN /\ s[at].is_dir \in BOOLEAN /\ x.is_dir \in BOOLEAN
        BY <1>5, <2>1, SMTT(30) DEF Entry, Up
      <3>. QED
        BY <2>2, <3>1, <3>2 DEF Before
    <2>. QED
      BY <2>3, <2>4
  <1>. DEFINE u == SubSeq(s, 1, at)
              v == SubSeq(s, at + 1, n)
  <1>8. /\ u \in Seq(Entry) /\ Len(u) = at /\ \A i \in 1..at : u[i] = s[i]
        /\ v \in Seq(Entry) /\ Len(v) = n - at /\ \A i \in 1..(n - at) : v[i] = s[at + i]
    BY <1>0, <1>2
  <1>. HIDE DEF u, v
  <1>. DEFINE w == u \o <<x>>
              t == w \o v
  <1>9. w \in Seq(Entry) /\ Len(w) = at + 1 /\ w[at + 1] = x /\ \A i \in 1..at : w[i] = u[i]
    BY <1>2, <1>8
  <1>. HIDE DEF w
  <1>10. /\ t \in Seq(Entry) /\ Len(t) = n + 1
         /\ \A i \in 1..(at + 1) : t[i] = w[i]
         /\ \A i \in (at + 2)..(n + 1) : t[i] = v[i - (at + 1)]
    BY <1>0, <1>2, <1>8, <1>9
  <1>. HIDE DEF t
  <1>11. \A i \in 1..at : t[i] = s[i]
    <2>1. \A i \in 1..at : i \in 1..(at + 1)
      BY <1>2
    <2>. QED
      BY <1>8, <1>9, <1>10, <2>1
  <1>12. t[at + 1] = x
    <2>1. at + 1 \in 1..(at + 1)
      BY <1>2
    <2>. QED
      BY <1>9, <1>10, <2>1
  <1>13. \A i \in (at + 1)..n : t[i + 1] = s[i]
    <2>. SUFFICES ASSUME NEW i \in (at + 1)..n PROVE t[i + 1] = s[i]
      OBVIOUS
    <2>1. i + 1 \in (at + 2)..(n + 1) /\ (i + 1) - (at + 1) = i - at /\ i - at \in 1..(n - at) /\ at + (i - at) = i
      BY <1>0, <1>2
    <2>2. t[i + 1] = v[i - at]
      BY <1>10, <2>1
    <2>3. v[i - at] = s[at + (i - at)]
      BY <1>8, <2>1
    <2>. QED
      BY <2>1, <2>2, <2>3
  <1>14. Insert(s, start, x) = t
    BY <1>3 DEF u, v, w, t
  <1>. QED
    BY <1>2, <1>6, <1>7, <1>10, <1>11, <1>12, <1>13, <1>14

\* m of the entries behind the first start ones have been sorted, from s into t.
SortedSoFar(s, start, t, m) ==
    /\ t \in Seq(Entry) /\ Len(t) = start + m
    /\ \A i \in 1..start : t[i] = s[i]
    /\ \A i \in (start + 1)..(start + m) : \E l \in (start + 1)..(start + m) : t[i] = s[l]
    /\ Sorted(t, start)

\* No two of the entries to be sorted have one name.
Distinct(s, start) == \A i, j \in (start + 1)..Len(s) : s[i].name = s[j].name => i = j

LEMMA SortTurn ==
    ASSUME NEW s \in Seq(Entry), NEW start \in 0..Len(s), Distinct(s, start),
           NEW m \in 1..(Len(s) - start), NEW t, SortedSoFar(s, start, t, m - 1)
    PROVE  SortedSoFar(s, start, Insert(t, start, s[start + m]), m)
  <1>. DEFINE x == s[start + m]
              u == Insert(t, start, x)
              n == start + (m - 1)
  <1>0. /\ t \in Seq(Entry) /\ Len(t) = n /\ n \in Nat /\ n + 1 = start + m
        /\ start \in Nat /\ start \in 0..n /\ m \in Nat /\ Len(s) \in Nat
        /\ start + m \in (start + 1)..Len(s) /\ start + m \in 1..Len(s)
    BY DEF SortedSoFar
  <1>. HIDE DEF n
  <1>1. x \in Entry
    BY <1>0
  <1>2. \A i \in (start + 1)..n : \E l \in (start + 1)..n : t[i] = s[l]
    BY <1>0 DEF SortedSoFar, n
  <1>3. \A i \in (start + 1)..n : t[i].name # x.name
    <2>. SUFFICES ASSUME NEW i \in (start + 1)..n PROVE t[i].name # x.name
      OBVIOUS
    <2>1. PICK l \in (start + 1)..n : t[i] = s[l]
      BY <1>2
    <2>2. l \in (start + 1)..Len(s) /\ l # start + m
      BY <1>0, <2>1
    <2>. QED
      BY <1>0, <2>1, <2>2 DEF Distinct
  <1>4. Sorted(t, start) /\ \A i \in 1..start : t[i] = s[i]
    BY DEF SortedSoFar
  <1>. HIDE DEF x
  <1>5. PICK at \in start..n :
              /\ u \in Seq(Entry) /\ Len(u) = n + 1
              /\ \A i \in 1..at : u[i] = t[i]
              /\ u[at + 1] = x
              /\ \A i \in (at + 1)..n : u[i + 1] = t[i]
              /\ \A i \in (start + 1)..at : Before(t[i], x)
              /\ \A i \in (at + 1)..n : Before(x, t[i])
    BY <1>0, <1>1, <1>3, <1>4, InsertFacts
  <1>. HIDE DEF u
  <1>6. at \in Nat /\ start <= at /\ at <= n
    BY <1>0, <1>5
  <1>7. ASSUME NEW i \in (start + 1)..(n + 1)
        PROVE  \/ i \in (start + 1)..at /\ u[i] = t[i]
               \/ i = at + 1 /\ u[i] = x
               \/ /\ i - 1 \in (at + 1)..n /\ i - 1 \in (start + 1)..n /\ i - 1 \in Nat
                  /\ i = (i - 1) + 1 /\ u[i] = t[i - 1]
    <2>1. CASE i <= at
      <3>1. i \in (start + 1)..at /\ i \in 1..at
        BY <1>0, <1>6, <2>1
      <3>. QED
        BY <1>5, <3>1
    <2>2. CASE i = at + 1
      BY <1>5, <2>2
    <2>3. CASE i > at + 1
      <3>. DEFINE j == i - 1
      <3>1. j \in (at + 1)..n /\ j \in (start + 1)..n /\ j \in Nat /\ i = j + 1
        BY <1>0, <1>6, <2>3
      <3>. HIDE DEF j
      <3>2. u[i] = t[j]
        BY <1>5, <3>1
      <3>. QED
        BY <3>1, <3>2 DEF j
    <2>. QED
      BY <1>0, <1>6, <2>1, <2>2, <2>3
  <1>8. \A i \in 1..start : u[i] = s[i]
    <2>1. \A i \in 1..start : i \in 1..at
      BY <1>0, <1>6
    <2>. QED
      BY <1>4, <1>5, <2>1
  <1>9. \A i \in (start + 1)..(n + 1) : \E l \in (start + 1)..(n + 1) : u[i] = s[l]
    <2>1. \A l \in (start + 1)..n : l \in (start + 1)..(n + 1)
      BY <1>0
    <2>2. (start + 1)..at \subseteq (start + 1)..n
      BY <1>0, <1>6
    <2>3. n + 1 \in (start + 1)..(n + 1) /\ x = s[n + 1]
      BY <1>0 DEF x
    <2>. SUFFICES ASSUME NEW i \in (start + 1)..(n + 1)
                  PROVE  \E l \in (start + 1)..(n + 1) : u[i] = s[l]
      OBVIOUS
    <2>4. CASE i \in (start + 1)..at /\ u[i] = t[i]
      BY <1>2, <2>1, <2>2, <2>4
    <2>5. CASE i = at + 1 /\ u[i] = x
      BY <2>3, <2>5
    <2>6. CASE i - 1 \in (start + 1)..n /\ u[i] = t[i - 1]
      BY <1>2, <2>1, <2>6
    <2>. QED
      BY <1>7, <2>4, <2>5, <2>6
  <1>10. Sorted(u, start)
    <2>. SUFFICES ASSUME NEW i \in (start + 1)..(n + 1), NEW j \in (start + 1)..(n + 1), i < j
                  PROVE  Before(u[i], u[j])
      BY <1>5 DEF Sorted
    <2>0. i \in Nat /\ j \in Nat
      BY <1>0
    <2>1. \A k, l \in (start + 1)..n : k < l => Before(t[k], t[l])
      BY <1>0, <1>4 DEF Sorted
    <2>2. CASE i \in (start + 1)..at /\ u[i] = t[i]
      <3>1. i \in (start + 1)..n
        BY <1>0, <1>6, <2>2
      <3>2. CASE j \in (start + 1)..at /\ u[j] = t[j]
        <4>1. j \in (start + 1)..n
          BY <1>0, <1>6, <3>2
        <4>. QED
          BY <2>1, <2>2, <3>1, <3>2, <4>1
      <3>3. CASE j = at + 1 /\ u[j] = x
        BY <1>5, <2>2, <3>3
      <3>4. CASE j - 1 \in (at + 1)..n /\ j - 1 \in (start + 1)..n /\ u[j] = t[j - 1]
        <4>1. i < j - 1
          BY <1>6, <2>0, <2>2, <3>4
        <4>. QED
          BY <2>1, <2>2, <3>1, <3>4, <4>1
      <3>. QED
        BY <1>7, <3>2, <3>3, <3>4
    <2>3. CASE i = at + 1 /\ u[i] = x
      <3>1. j \notin (start + 1)..at /\ j # at + 1
        BY <1>6, <2>0, <2>3
      <3>2. j - 1 \in (at + 1)..n /\ u[j] = t[j - 1]
        BY <1>7, <3>1
      <3>. QED
        BY <1>5, <2>3, <3>2
    <2>4. CASE i - 1 \in (at + 1)..n /\ i - 1 \in (start + 1)..n /\ u[i] = t[i - 1]
      <3>1. j \notin (start + 1)..at /\ j # at + 1 /\ i - 1 < j - 1
        BY <1>6, <2>0, <2>4
      <3>2. j - 1 \in (start + 1)..n /\ u[j] = t[j - 1]
        BY <1>7, <3>1
      <3>. QED
        BY <2>1, <2>4, <3>1, <3>2
    <2>. QED
      BY <1>7, <2>2, <2>3, <2>4
  <1>11. SortedSoFar(s, start, u, m)
    BY <1>0, <1>5, <1>8, <1>9, <1>10 DEF SortedSoFar
  <1>. QED
    BY <1>11 DEF u, x

\* The list in order: what comes first stays there, everything else is one of the
\* entries read.
LEMMA SortList ==
    ASSUME NEW s \in Seq(Entry), NEW start \in 0..Len(s), Distinct(s, start)
    PROVE  SortedSoFar(s, start, sort_entries(start, s), Len(s) - start)
  <1>. DEFINE n == Len(s) - start
              T == {t \in Seq(Entry) : start <= Len(t)}
              x == SubSeq(s, 1, start)
              F == [z \in T \X (1..n) |-> Insert(z[1], start, s[start + z[2]])]
              Same(h) == h = [k \in 0..n |-> IF k = 0 THEN x ELSE Insert(h[k - 1], start, s[start + k])]
              f == CHOOSE h : Same(h)
  <1>0. n \in Nat /\ start \in Nat /\ start <= Len(s) /\ Len(s) \in Nat /\ start + n = Len(s)
    OBVIOUS
  <1>1. x \in Seq(Entry) /\ Len(x) = start /\ \A i \in 1..start : x[i] = s[i]
    BY <1>0
  <1>2. \A k \in 1..n : s[start + k] \in Entry
    <2>1. \A k \in 1..n : start + k \in 1..Len(s)
      BY <1>0
    <2>. QED
      BY <2>1
  <1>3. x \in T
    BY <1>0, <1>1
  <1>4. F \in [T \X (1..n) -> T]
    <2>. SUFFICES ASSUME NEW t \in T, NEW k \in 1..n PROVE Insert(t, start, s[start + k]) \in T
      OBVIOUS
    <2>1. t \in Seq(Entry) /\ start \in 0..Len(t) /\ Len(t) \in Nat /\ start <= Len(t)
      BY <1>0
    <2>2. Insert(t, start, s[start + k]) \in Seq(Entry) /\ Len(Insert(t, start, s[start + k])) = Len(t) + 1
      BY <1>2, <2>1, InsertType
    <2>. QED
      BY <1>0, <2>1, <2>2
  <1>5. \A t \in T, k \in 1..n : F[<<t, k>>] = Insert(t, start, s[start + k])
    OBVIOUS
  <1>6. sort_entries(start, s) = f[n]
    BY DEF sort_entries
  <1>. HIDE DEF F, T, x, n
  <1>7. PICK g \in [0..n -> T] : Iterates(g, n, x, F)
    BY <1>0, <1>3, <1>4, RowExists
  <1>8. Same(g)
    <2>1. ASSUME NEW k \in 0..n
          PROVE  g[k] = IF k = 0 THEN x ELSE Insert(g[k - 1], start, s[start + k])
      <3>1. CASE k = 0
        BY <1>7, <3>1 DEF Iterates
      <3>2. CASE k # 0
        <4>1. k \in 1..n /\ k - 1 \in 0..n
          BY <1>0, <3>2
        <4>2. g[k - 1] \in T
          BY <4>1
        <4>3. g[k] = F[<<g[k - 1], k>>]
          BY <1>7, <3>2 DEF Iterates
        <4>. QED
          BY <1>5, <3>2, <4>1, <4>2, <4>3
      <3>. QED
        BY <3>1, <3>2
    <2>2. g = [k \in 0..n |-> g[k]]
      OBVIOUS
    <2>. QED
      BY <2>1, <2>2
  <1>9. Same(f)
    BY <1>8
  <1>. HIDE DEF f
  <1>10. f[0] = x /\ \A k \in 1..n : f[k] = Insert(f[k - 1], start, s[start + k])
    <2>1. 0 \in 0..n /\ \A k \in 1..n : k \in 0..n /\ k # 0
      BY <1>0
    <2>2. f[0] = x
      BY <1>9, <2>1
    <2>3. \A k \in 1..n : f[k] = Insert(f[k - 1], start, s[start + k])
      BY <1>9, <2>1
    <2>. QED
      BY <2>2, <2>3
  <1>. DEFINE P == {k \in 0..n : SortedSoFar(s, start, f[k], k)}
  <1>11. 0 \in P
    <2>1. SortedSoFar(s, start, x, 0)
      BY <1>0, <1>1 DEF SortedSoFar, Sorted
    <2>. QED
      BY <1>0, <1>10, <2>1
  <1>12. ASSUME NEW k \in 0..(n - 1), k \in P PROVE k + 1 \in P
    <2>. DEFINE m == k + 1
    <2>1. m \in 1..n /\ m \in 0..n /\ m - 1 = k
      BY <1>0
    <2>. HIDE DEF m
    <2>2. SortedSoFar(s, start, f[m - 1], m - 1)
      BY <1>12, <2>1
    <2>3. SortedSoFar(s, start, Insert(f[m - 1], start, s[start + m]), m)
      BY <2>1, <2>2, SortTurn DEF n
    <2>4. m \in P
      BY <1>10, <2>1, <2>3
    <2>. QED
      BY <2>4 DEF m
  <1>. HIDE DEF P
  <1>13. n \in P
    <2>1. \A k \in 0..n : k \in P
      BY <1>0, <1>11, <1>12, UpTo
    <2>. QED
      BY <1>0, <2>1
  <1>. QED
    BY <1>6, <1>13 DEF P, n

\* s is a list of the directory of path: ".." comes first, unless it is the root, and
\* behind it are entries of the directory in order.
ListOf(where, s) ==
    /\ where \in DOMAIN Dirs /\ s \in Seq(Entry)
    /\ \A i \in 1..Len(s) : i <= Start(where) => s[i] = parent_entry(where)
    /\ \A i \in 1..Len(s) : i > Start(where) =>
          \E l \in 1..Len(Dirs[where]) : Shows(where, s[i], Dirs[where][l])
    /\ Sorted(s, Start(where))

LEMMA LoadedList ==
    ASSUME NEW where \in DOMAIN Dirs, NEW failed
    PROVE  LET s == read_entries(where, failed)
               t == sort_entries(IF is_root_path(where) THEN 0 ELSE 1, s)
           IN  ListOf(where, t) /\ Len(t) = Len(s) /\ Len(s) \in Nat /\ (s # <<>> <=> Len(s) # 0)
  <1>. DEFINE s == read_entries(where, failed)
              t == sort_entries(Start(where), s)
              n == Len(s)
  <1>1. ReadSoFar(where, s, Len(Dirs[where]))
    BY ReadList
  <1>. HIDE DEF s
  <1>2. s \in Seq(Entry) /\ n \in Nat /\ Start(where) \in 0..n /\ Start(where) \in 0..1 /\ Distinct(s, Start(where))
    BY <1>1 DEF ReadSoFar, Start, Distinct
  <1>3. SortedSoFar(s, Start(where), t, n - Start(where))
    BY <1>2, SortList
  <1>. HIDE DEF t
  <1>4. Start(where) + (n - Start(where)) = n
    BY <1>2
  <1>5. /\ t \in Seq(Entry) /\ Len(t) = n /\ Sorted(t, Start(where))
        /\ \A i \in 1..Start(where) : t[i] = s[i]
        /\ \A i \in (Start(where) + 1)..n : \E l \in (Start(where) + 1)..n : t[i] = s[l]
    BY <1>3, <1>4 DEF SortedSoFar
  <1>6. \A i \in 1..n : i <= Start(where) => t[i] = parent_entry(where)
    <2>. SUFFICES ASSUME NEW i \in 1..n, i <= Start(where) PROVE t[i] = parent_entry(where)
      OBVIOUS
    <2>1. i = 1 /\ ~is_root_path(where) /\ i \in 1..Start(where)
      BY <1>2 DEF Start
    <2>2. s[1] = parent_entry(where)
      BY <1>1, <2>1 DEF ReadSoFar
    <2>. QED
      BY <1>5, <2>1, <2>2
  <1>7. \A i \in 1..n : i > Start(where) =>
          \E l \in 1..Len(Dirs[where]) : Shows(where, t[i], Dirs[where][l])
    <2>. SUFFICES ASSUME NEW i \in 1..n, i > Start(where)
                  PROVE  \E l \in 1..Len(Dirs[where]) : Shows(where, t[i], Dirs[where][l])
      OBVIOUS
    <2>1. i \in (Start(where) + 1)..n
      BY <1>2
    <2>2. PICK k \in (Start(where) + 1)..n : t[i] = s[k]
      BY <1>5, <2>1
    <2>3. \E l \in 1..Len(Dirs[where]) : Shows(where, s[k], Dirs[where][l])
      BY <1>1 DEF ReadSoFar
    <2>. QED
      BY <2>2, <2>3
  <1>8. ListOf(where, t)
    BY <1>5, <1>6, <1>7 DEF ListOf
  <1>9. s # <<>> <=> n # 0
    BY <1>2
  <1>. QED
    BY <1>2, <1>5, <1>8, <1>9 DEF s, t, Start

\* The selection is one of n entries and on the screen.
Shown(sel, top, n) ==
    /\ sel \in Int /\ top \in Int
    /\ n > 0 => sel >= 0 /\ sel < n /\ sel \in top..(top + rows - 1)

LEMMA SelectShows ==
    ASSUME NEW sel \in Int, NEW top \in Int, NEW n \in Nat
    PROVE  Shown(keep_selected_visible(sel, top, n).selected,
                 keep_selected_visible(sel, top, n).list_top, n)
  <1>1. rows \in Nat /\ rows >= 1
    BY ListAssumption DEF rows
  <1>. QED
    BY <1>1 DEF Shown, keep_selected_visible

\* The inductive invariant: the list is of the path, the selection is shown, and what
\* is viewed is a file of the directory.
ListInv ==
    /\ ListOf(current_path, entries)
    /\ Shown(selected, list_top, entry_count)
    /\ preview_line \in Nat
    /\ preview_mode =>
          \E l \in 1..Len(Dirs[current_path]) :
             /\ ~Dirs[current_path][l].is_dir
             /\ preview_path = Append(current_path, Dirs[current_path][l].name)

\* Where an entry leads.
LEMMA EntryLeads ==
    ASSUME NEW where, NEW s, ListOf(where, s), NEW i \in 1..Len(s)
    PROVE  /\ s[i].is_dir => s[i].path \in DOMAIN Dirs
           /\ ~s[i].is_dir => \E l \in 1..Len(Dirs[where]) :
                /\ ~Dirs[where][l].is_dir /\ s[i].path = Append(where, Dirs[where][l].name)
  <1>0. where \in DOMAIN Dirs
    BY DEF ListOf
  <1>1. CASE i <= Start(where)
    <2>1. s[i] = parent_entry(where) /\ ~is_root_path(where)
      BY <1>1 DEF ListOf, Start
    <2>2. s[i].is_dir /\ s[i].path = Front(where) /\ where # <<>>
      BY <2>1 DEF parent_entry, parent_path_of, is_root_path, Root
    <2>3. Front(where) \in DOMAIN Dirs
      BY <1>0, <2>2, DirFacts
    <2>. QED
      BY <2>2, <2>3
  <1>2. CASE i > Start(where)
    <2>1. PICK l \in 1..Len(Dirs[where]) : Shows(where, s[i], Dirs[where][l])
      BY <1>2 DEF ListOf
    <2>. QED
      BY <1>0, <2>1, DirFacts DEF Shows
  <1>3. i <= Start(where) \/ i > Start(where)
    BY DEF Start, ListOf
  <1>. QED
    BY <1>1, <1>2, <1>3

\* Loading a directory of the image.
LEMMA LoadInv ==
    ASSUME ListInv, NEW where \in DOMAIN Dirs, load_dir(where), ~preview_mode, UNCHANGED preview
    PROVE  ListInv'
  <1>1. ~preview_mode' /\ preview_line' \in Nat
    BY DEF ListInv, preview
  <1>2. CASE UNCHANGED list
    BY <1>1, <1>2 DEF ListInv, list, entry_count
  <1>3. ASSUME NEW failed \in SUBSET DirNames(where),
               entries' = sort_entries(IF is_root_path(where) THEN 0 ELSE 1, read_entries(where, failed)),
               current_path' = where,
               Select(IF read_entries(where, failed) # <<>> THEN 0 ELSE -1, 0, Len(read_entries(where, failed)))
        PROVE  ListInv'
    <2>1. /\ ListOf(where, entries') /\ Len(entries') = Len(read_entries(where, failed))
          /\ Len(entries') \in Nat
      BY <1>3, LoadedList
    <2>. DEFINE v == IF read_entries(where, failed) # <<>> THEN 0 ELSE -1
    <2>2. v \in Int
      OBVIOUS
    <2>3. /\ selected' = keep_selected_visible(v, 0, Len(entries')).selected
          /\ list_top' = keep_selected_visible(v, 0, Len(entries')).list_top
      BY <1>3, <2>1 DEF Select
    <2>. HIDE DEF v
    <2>4. Shown(selected', list_top', Len(entries'))
      BY <2>1, <2>2, <2>3, SelectShows
    <2>. QED
      BY <1>1, <1>3, <2>1, <2>4 DEF ListInv, entry_count
  <1>. QED
    BY <1>2, <1>3 DEF load_dir

LEMMA ListInitInv == ListInit => ListInv
  <1>. SUFFICES ASSUME NEW failed \in SUBSET DirNames(Root), ListStart(failed) PROVE ListInv
    BY DEF ListInit
  <1>1. Root \in DOMAIN Dirs /\ is_root_path(Root)
    BY ListAssumption DEF Root, is_root_path
  <1>2. ListOf(Root, entries) /\ Len(entries) \in Nat
    BY <1>1, LoadedList DEF ListStart
  <1>3. rows \in Nat /\ rows >= 1
    BY ListAssumption DEF rows
  <1>4. Shown(0, 0, Len(entries))
    BY <1>2, <1>3 DEF Shown
  <1>. QED
    BY <1>2, <1>4 DEF ListInv, ListStart, entry_count

LEMMA ListKeyInv ==
    ASSUME ListInv, handle_list_key
    PROVE  ListInv'
  <1>0. /\ ListOf(current_path, entries) /\ current_path \in DOMAIN Dirs
        /\ selected \in Int /\ list_top \in Int /\ entry_count \in Nat /\ Rows \in Nat
    BY ListAssumption DEF ListInv, ListOf, Shown, entry_count
  <1>1. ASSUME NEW sel \in {selected - 1, selected + 1, selected - Rows, selected + Rows,
                            0, entry_count - 1}, move(sel)
        PROVE  ListInv'
    <2>1. sel \in Int
      BY <1>0
    <2>2. Shown(selected', list_top', entry_count)
      BY <1>0, <1>1, <2>1, SelectShows DEF move, Select
    <2>. QED
      BY <1>1, <2>2 DEF ListInv, move, preview, Listing, entry_count
  <1>2. CASE go_parent
    <2>1. current_path # <<>> /\ parent_path_of(current_path) = Front(current_path)
      BY <1>2 DEF go_parent, parent_path_of, is_root_path, Root
    <2>2. parent_path_of(current_path) \in DOMAIN Dirs
      BY <1>0, <2>1, DirFacts
    <2>. QED
      BY <1>2, <2>2, LoadInv DEF go_parent, Listing, preview
  <1>3. CASE open_selected_dir
    <2>1. selected + 1 \in 1..Len(entries)
      BY <1>0, <1>3 DEF open_selected_dir, InRange, entry_count
    <2>2. entries[selected + 1].path \in DOMAIN Dirs
      BY <1>0, <1>3, <2>1, EntryLeads DEF open_selected_dir
    <2>. QED
      BY <1>3, <2>2, LoadInv DEF open_selected_dir, Listing, preview
  <1>4. CASE open_selected_file
    <2>1. selected + 1 \in 1..Len(entries)
      BY <1>0, <1>4 DEF open_selected_file, InRange, entry_count
    <2>2. \E l \in 1..Len(Dirs[current_path]) :
             /\ ~Dirs[current_path][l].is_dir
             /\ entries[selected + 1].path = Append(current_path, Dirs[current_path][l].name)
      BY <1>0, <1>4, <2>1, EntryLeads DEF open_selected_file
    <2>. QED
      BY <1>4, <2>2 DEF ListInv, open_selected_file, list, entry_count
  <1>5. CASE escape
    BY <1>5 DEF ListInv, escape, list, preview, entry_count
  <1>. QED
    BY <1>1, <1>2, <1>3, <1>4, <1>5 DEF handle_list_key

LEMMA PreviewKeyInv ==
    ASSUME ListInv, handle_preview_key
    PROVE  ListInv'
  <1>1. CASE leave_preview
    BY <1>1 DEF ListInv, leave_preview, list, entry_count
  <1>2. ASSUME NEW line, scroll(line) PROVE ListInv'
    BY <1>2 DEF ListInv, scroll, list, entry_count
  <1>. QED
    BY <1>1, <1>2 DEF handle_preview_key

LEMMA ListNextInv == ListInv /\ [ListNext]_listVars => ListInv'
  <1>. SUFFICES ASSUME ListInv, [ListNext]_listVars PROVE ListInv'
    OBVIOUS
  <1>1. CASE UNCHANGED listVars
    BY <1>1 DEF ListInv, listVars, list, preview, entry_count
  <1>. QED
    BY <1>1, ListKeyInv, PreviewKeyInv DEF ListNext

LEMMA ListInvConsistent == ListInv => ListConsistent
  <1>. SUFFICES ASSUME ListInv PROVE ListConsistent
    OBVIOUS
  <1>. DEFINE where == current_path
  <1>0. /\ ListOf(where, entries) /\ where \in DOMAIN Dirs /\ where \in Seq(Nat)
        /\ Start(where) \in 0..1 /\ entry_count = Len(entries) /\ entry_count \in Nat
        /\ \A i \in 1..entry_count : entries[i] \in Entry
    BY ListAssumption DEF ListInv, ListOf, Start, entry_count
  <1>1. SelectedShown
    BY DEF ListInv, Shown, SelectedShown, InRange
  <1>2. \A i \in 1..entry_count : i <= Start(where) =>
           /\ i = 1 /\ where # Root /\ entries[i].name = Up /\ entries[i].path = Front(where)
    <2>. SUFFICES ASSUME NEW i \in 1..entry_count, i <= Start(where)
                  PROVE  i = 1 /\ where # Root /\ entries[i].name = Up /\ entries[i].path = Front(where)
      OBVIOUS
    <2>1. i = 1 /\ ~is_root_path(where)
      BY <1>0 DEF Start
    <2>2. entries[i] = parent_entry(where)
      BY <1>0 DEF ListOf
    <2>. QED
      BY <2>1, <2>2 DEF parent_entry, parent_path_of, is_root_path
  <1>3. \A i \in 1..entry_count : i > Start(where) =>
           /\ entries[i].name # Up /\ entries[i].path = Append(where, entries[i].name)
           /\ \E d \in Range(Dirs[where]) : d.name = entries[i].name /\ d.is_dir = entries[i].is_dir
    <2>. SUFFICES ASSUME NEW i \in 1..entry_count, i > Start(where)
                  PROVE  /\ entries[i].name # Up /\ entries[i].path = Append(where, entries[i].name)
                         /\ \E d \in Range(Dirs[where]) :
                               d.name = entries[i].name /\ d.is_dir = entries[i].is_dir
      OBVIOUS
    <2>1. PICK l \in 1..Len(Dirs[where]) : Shows(where, entries[i], Dirs[where][l])
      BY <1>0 DEF ListOf
    <2>2. Dirs[where][l].name \in Nat /\ Dirs[where][l] \in Range(Dirs[where])
      BY <1>0, DirFacts DEF Range
    <2>. QED
      BY <2>1, <2>2 DEF Shows, Up
  <1>4. \A i \in 1..entry_count : i <= Start(where) \/ i > Start(where)
    BY <1>0
  <1>5. ListIsOfPath
    BY <1>2, <1>3, <1>4 DEF ListIsOfPath
  <1>6. ListSorted
    <2>. SUFFICES ASSUME NEW i \in 1..entry_count, NEW j \in 1..entry_count, i < j, entries[i].name # Up
                  PROVE  \/ entries[i].is_dir /\ ~entries[j].is_dir
                         \/ entries[i].is_dir = entries[j].is_dir /\ entries[i].name < entries[j].name
      BY DEF ListSorted
    <2>1. i \in (Start(where) + 1)..Len(entries) /\ j \in (Start(where) + 1)..Len(entries)
      BY <1>0, <1>2, <1>4
    <2>2. Sorted(entries, Start(where))
      BY <1>0 DEF ListOf
    <2>. QED
      BY <2>1, <2>2 DEF Sorted, Before
  <1>7. PathsExist
    <2>1. SUFFICES ASSUME preview_mode
                   PROVE  /\ Front(preview_path) = where
                          /\ [name |-> Last(preview_path), is_dir |-> FALSE] \in Range(Dirs[where])
      BY <1>0 DEF PathsExist
    <2>2. PICK l \in 1..Len(Dirs[where]) :
             ~Dirs[where][l].is_dir /\ preview_path = Append(where, Dirs[where][l].name)
      BY <2>1 DEF ListInv
    <2>. DEFINE d == Dirs[where][l]
    <2>3. d.name \in Nat /\ d \in Range(Dirs[where])
      BY <1>0, DirFacts DEF Range
    <2>4. d \in [name : Nat, is_dir : BOOLEAN]
      <3>. DEFINE R == [name : Nat, is_dir : BOOLEAN]
      <3>1. Dirs[where] \in Seq(R)
        BY <1>0, ListAssumption
      <3>. HIDE DEF R
      <3>2. d \in R
        BY <3>1
      <3>. QED
        BY <3>2 DEF R
    <2>. HIDE DEF d
    <2>5. d = [name |-> d.name, is_dir |-> FALSE]
      BY <2>2, <2>4 DEF d
    <2>6. Front(Append(where, d.name)) = where /\ Last(Append(where, d.name)) = d.name
      <3>. DEFINE t == Append(where, d.name)
      <3>1. t \in Seq(Nat) /\ Len(t) = Len(where) + 1 /\ t[Len(where) + 1] = d.name
            /\ \A i \in 1..Len(where) : t[i] = where[i]
        BY <1>0, <2>3
      <3>. HIDE DEF t
      <3>2. Last(t) = d.name
        BY <3>1 DEF Last
      <3>3. Len(t) - 1 = Len(where) /\ Len(where) \in Nat
        BY <1>0, <3>1
      <3>4. Front(t) \in Seq(Nat) /\ Len(Front(t)) = Len(where) /\ \A i \in 1..Len(where) : Front(t)[i] = where[i]
        BY <3>1, <3>3 DEF Front
      <3>5. Front(t) = where
        <4>. DEFINE u == Front(t)
        <4>1. u \in Seq(Nat) /\ Len(u) = Len(where) /\ \A i \in 1..Len(u) : u[i] = where[i]
          BY <3>4
        <4>. HIDE DEF u
        <4>2. u = where
          BY <1>0, <4>1, SeqEqual
        <4>. QED
          BY <4>2 DEF u
      <3>. QED
        BY <3>2, <3>5 DEF t
    <2>. QED
      BY <2>2, <2>3, <2>5, <2>6 DEF d
  <1>. QED
    BY <1>1, <1>5, <1>6, <1>7 DEF ListConsistent

\* The list, the path, the selection and the view belong together after any keys, in
\* any directories, whatever cannot be opened (load_dir, sort_entries,
\* keep_selected_visible, open_selected).
THEOREM ListAlwaysConsistent == ListSpec => []ListConsistent
  <1>1. ListSpec => []ListInv
    BY ListInitInv, ListNextInv, PTL DEF ListSpec
  <1>. QED
    BY <1>1, ListInvConsistent, PTL

-----------------------------------------------------------------------------
(* The program loader.                                                     *)

LEMMA Division ==
    ASSUME NEW m \in Nat, NEW n \in Nat \ {0}
    PROVE  /\ m \div n \in Nat /\ m % n \in 0..(n - 1)
           /\ m = (m \div n) * n + (m % n)
  OBVIOUS

\* Division has one result.
LEMMA Quotient ==
    ASSUME NEW n \in Nat \ {0}, NEW a \in Nat, NEW r \in 0..(n - 1)
    PROVE  (a * n + r) \div n = a /\ (a * n + r) % n = r
  <1>. DEFINE m == a * n + r
  <1>1. m \in Nat
    OBVIOUS
  <1>. HIDE DEF m
  <1>2. m \div n \in Nat /\ m % n \in 0..(n - 1) /\ m = (m \div n) * n + (m % n)
    BY <1>1, Division
  <1>. DEFINE b == m \div n  t == m % n
  <1>3. b \in Nat /\ t \in 0..(n - 1) /\ a * n + r = b * n + t
    BY <1>2 DEF m
  <1>. HIDE DEF b, t
  <1>4. b = a
    <2>1. (b - a) * n = r - t
      BY <1>3
    <2>2. b - a >= 1 => (b - a) * n >= n
      BY <1>3
    <2>3. b - a <= -1 => (b - a) * n <= -n
      BY <1>3
    <2>. QED
      BY <1>3, <2>1, <2>2, <2>3
  <1>. QED
    BY <1>3, <1>4 DEF b, t, m

LEMMA Sizes == PGSIZE \in Nat \ {0} /\ Word \in Nat \ {0} /\ EndAddr \in Nat /\ Pages \in Nat
  BY ExecAssumption

\* The beginning of a page.
IsPage(p) == p \in Nat /\ PageStart(p) = p

LEMMA PageFacts ==
    ASSUME NEW x \in Nat
    PROVE  PageStart(x) \in Nat /\ PageStart(x) <= x /\ x < PageStart(x) + PGSIZE
  <1>1. x \div PGSIZE \in Nat /\ x % PGSIZE \in 0..(PGSIZE - 1)
        /\ x = (x \div PGSIZE) * PGSIZE + (x % PGSIZE)
    BY Sizes, Division
  <1>. DEFINE p == (x \div PGSIZE) * PGSIZE
  <1>2. p \in Nat
    BY <1>1, Sizes
  <1>. QED
    BY <1>1, <1>2, Sizes DEF PageStart

LEMMA PageMultiple ==
    ASSUME NEW m \in Nat
    PROVE  IsPage(m * PGSIZE) /\ (m * PGSIZE) % PGSIZE = 0
  <1>. DEFINE p == m * PGSIZE
  <1>1. p \in Nat /\ p = m * PGSIZE + 0 /\ 0 \in 0..(PGSIZE - 1)
    BY Sizes
  <1>2. (m * PGSIZE + 0) \div PGSIZE = m /\ (m * PGSIZE + 0) % PGSIZE = 0
    BY <1>1, Sizes, Quotient
  <1>. HIDE DEF p
  <1>3. p \div PGSIZE = m /\ p % PGSIZE = 0
    BY <1>1, <1>2
  <1>4. PageStart(p) = m * PGSIZE
    BY <1>3 DEF PageStart
  <1>. QED
    BY <1>1, <1>3, <1>4 DEF IsPage, p

LEMMA PageIs ==
    ASSUME NEW p, IsPage(p)
    PROVE  p \in Nat /\ \E m \in Nat : p = m * PGSIZE
  <1>1. p \in Nat /\ PageStart(p) = p
    BY DEF IsPage
  <1>2. p \div PGSIZE \in Nat
    BY <1>1, Sizes, Division
  <1>. QED
    BY <1>1, <1>2 DEF PageStart

LEMMA StartIsPage ==
    ASSUME NEW x \in Nat
    PROVE  IsPage(PageStart(x)) /\ PageStart(x) % PGSIZE = 0
  <1>1. x \div PGSIZE \in Nat
    BY Sizes, Division
  <1>. QED
    BY <1>1, PageMultiple DEF PageStart

\* Another page begins a page's size further at least.
LEMMA PagesApart ==
    ASSUME NEW p, NEW q, IsPage(p), IsPage(q), p < q
    PROVE  p + PGSIZE <= q
  <1>1. p \in Nat /\ q \in Nat
    BY DEF IsPage
  <1>2. PICK m \in Nat : p = m * PGSIZE
    BY PageIs
  <1>3. PICK n \in Nat : q = n * PGSIZE
    BY PageIs
  <1>4. m < n
    <2>1. n <= m => (m - n) * PGSIZE >= 0 /\ (m - n) * PGSIZE = m * PGSIZE - n * PGSIZE
      BY Sizes
    <2>. QED
      BY <1>1, <1>2, <1>3, <2>1
  <1>5. (n - m) * PGSIZE >= PGSIZE
    BY <1>4, Sizes
  <1>6. (n - m) * PGSIZE = n * PGSIZE - m * PGSIZE
    BY Sizes
  <1>. QED
    BY <1>1, <1>2, <1>3, <1>5, <1>6, Sizes

LEMMA SamePage ==
    ASSUME NEW x \in Nat, NEW p, IsPage(p), p <= x, x < p + PGSIZE
    PROVE  PageStart(x) = p
  <1>1. /\ PageStart(x) \in Nat /\ PageStart(x) <= x /\ x < PageStart(x) + PGSIZE
        /\ IsPage(PageStart(x)) /\ p \in Nat
    BY PageFacts, StartIsPage DEF IsPage
  <1>. DEFINE q == PageStart(x)
  <1>. HIDE DEF q
  <1>2. q \in Nat /\ q <= x /\ x < q + PGSIZE /\ IsPage(q)
    BY <1>1 DEF q
  <1>3. ~(p < q)
    <2>. SUFFICES ASSUME p < q PROVE FALSE
      OBVIOUS
    <2>1. p + PGSIZE <= q
      BY <1>2, PagesApart
    <2>. QED
      BY <1>1, <1>2, <2>1, Sizes
  <1>4. ~(q < p)
    <2>. SUFFICES ASSUME q < p PROVE FALSE
      OBVIOUS
    <2>1. q + PGSIZE <= p
      BY <1>2, PagesApart
    <2>. QED
      BY <1>1, <1>2, <2>1, Sizes
  <1>. QED
    BY <1>1, <1>2, <1>3, <1>4 DEF q

LEMMA NextIsPage ==
    ASSUME NEW p, IsPage(p)
    PROVE  IsPage(p + PGSIZE)
  <1>1. PICK m \in Nat : p = m * PGSIZE
    BY PageIs
  <1>2. p + PGSIZE = (m + 1) * PGSIZE
    BY <1>1, Sizes
  <1>3. m + 1 \in Nat
    OBVIOUS
  <1>. QED
    BY <1>2, <1>3, PageMultiple

-----------------------------------------------------------------------------
(* The arguments of a program.                                             *)

\* An argument in the kernel.
Arg == [id : Nat, len : 0..(MaxArgLen - 1)]

\* What the kernel keeps of the arguments.
Kept == IF argv = <<>> THEN <<copied(0, PathLen)>>
        ELSE [k \in 1..Least(Len(argv), MaxArgs - 1) |-> copied(k, argv[k])]

LEMMA KeptFacts ==
    ASSUME argv \in ArgLists
    PROVE  /\ Kept \in Seq(Arg) /\ Len(Kept) \in 1..(MaxArgs - 1)
           /\ Len(Kept) = IF argv = <<>> THEN 1 ELSE Least(Len(argv), MaxArgs - 1)
           /\ \A k \in 1..Len(Kept) :
                 Kept[k] = IF argv = <<>> THEN copied(0, PathLen) ELSE copied(k, argv[k])
  <1>1. argv \in Seq(Nat) /\ Len(argv) \in Nat /\ MaxArgs \in Nat /\ MaxArgs > 1
        /\ MaxArgLen \in Nat \ {0} /\ PathLen \in Nat
    BY ExecAssumption
  <1>2. \A k \in Nat, len \in Nat : copied(k, len) \in Arg
    BY <1>1 DEF copied, Arg, Least
  <1>3. CASE argv = <<>>
    <2>1. copied(0, PathLen) \in Arg
      BY <1>1, <1>2
    <2>. DEFINE c == copied(0, PathLen)
    <2>. HIDE DEF c
    <2>2. <<c>> \in Seq(Arg) /\ Len(<<c>>) = 1 /\ <<c>>[1] = c
      BY <2>1 DEF c
    <2>3. Kept = <<c>>
      BY <1>3 DEF Kept, c
    <2>4. \A k \in 1..1 : k = 1
      OBVIOUS
    <2>. QED
      BY <1>1, <1>3, <2>2, <2>3, <2>4 DEF c
  <1>4. CASE argv # <<>>
    <2>. DEFINE n == Least(Len(argv), MaxArgs - 1)
    <2>1. n \in 1..(MaxArgs - 1) /\ n \in Nat /\ n <= Len(argv)
      BY <1>1, <1>4 DEF Least
    <2>. HIDE DEF n
    <2>2. Kept = [k \in 1..n |-> copied(k, argv[k])]
      BY <1>4 DEF Kept, n
    <2>3. \A k \in 1..n : argv[k] \in Nat
      BY <1>1, <2>1
    <2>4. \A k \in 1..n : copied(k, argv[k]) \in Arg
      BY <1>2, <2>1, <2>3
    <2>5. Kept \in [1..n -> Arg]
      BY <2>2, <2>4
    <2>6. Kept \in Seq(Arg) /\ Len(Kept) = n
      BY <2>1, <2>5
    <2>. QED
      BY <1>4, <2>1, <2>2, <2>6 DEF n
  <1>. QED
    BY <1>3, <1>4

\* The row of sums: each is of one string more.
LEMMA CharsRow ==
    ASSUME kargv \in Seq(Arg)
    PROVE  /\ CharsUpTo[0] = 0
           /\ \A k \in 1..argc : CharsUpTo[k] = CharsUpTo[k - 1] + kargv[k].len + 1
  <1>. DEFINE n == Len(kargv)
              F == [z \in Nat \X (1..n) |-> z[1] + kargv[z[2]].len + 1]
              Same(h) == h = [k \in 0..n |-> IF k = 0 THEN 0 ELSE h[k - 1] + kargv[k].len + 1]
              f == CHOOSE h : Same(h)
  <1>0. n \in Nat /\ \A k \in 1..n : kargv[k].len \in Nat
    <2>1. \A k \in 1..n : kargv[k] \in Arg
      OBVIOUS
    <2>. QED
      BY <2>1, ExecAssumption DEF Arg
  <1>1. F \in [Nat \X (1..n) -> Nat]
    BY <1>0
  <1>2. \A c \in Nat, k \in 1..n : F[<<c, k>>] = c + kargv[k].len + 1
    OBVIOUS
  <1>3. CharsUpTo = f
    BY DEF CharsUpTo
  <1>. HIDE DEF F, n
  <1>4. PICK g \in [0..n -> Nat] : Iterates(g, n, 0, F)
    BY <1>0, <1>1, RowExists
  <1>5. Same(g)
    <2>1. ASSUME NEW k \in 0..n
          PROVE  g[k] = IF k = 0 THEN 0 ELSE g[k - 1] + kargv[k].len + 1
      <3>1. CASE k = 0
        BY <1>4, <3>1 DEF Iterates
      <3>2. CASE k # 0
        <4>1. k \in 1..n /\ k - 1 \in 0..n
          BY <1>0, <3>2
        <4>2. g[k - 1] \in Nat
          BY <4>1
        <4>3. g[k] = F[<<g[k - 1], k>>]
          BY <1>4, <3>2 DEF Iterates
        <4>. QED
          BY <1>2, <3>2, <4>1, <4>2, <4>3
      <3>. QED
        BY <3>1, <3>2
    <2>2. g = [k \in 0..n |-> g[k]]
      OBVIOUS
    <2>. QED
      BY <2>1, <2>2
  <1>6. Same(f)
    BY <1>5
  <1>. HIDE DEF f
  <1>7. 0 \in 0..n /\ \A k \in 1..n : k \in 0..n /\ k # 0
    BY <1>0
  <1>8. f[0] = 0
    BY <1>6, <1>7
  <1>9. \A k \in 1..n : f[k] = f[k - 1] + kargv[k].len + 1
    BY <1>6, <1>7
  <1>. QED
    BY <1>3, <1>8, <1>9 DEF n, argc

\* The strings lie one behind the other and have room.
LEMMA CharsFacts ==
    ASSUME kargv \in Seq(Arg)
    PROVE  /\ \A k \in 0..argc : CharsUpTo[k] \in Nat /\ CharsUpTo[k] <= k * MaxArgLen
           /\ \A j, k \in 0..argc : j <= k => CharsUpTo[j] <= CharsUpTo[k]
  <1>. DEFINE n == argc
              M == MaxArgLen
  <1>0. n \in Nat /\ M \in Nat \ {0} /\ \A k \in 1..n : kargv[k].len \in Nat /\ kargv[k].len + 1 <= M
    <2>1. \A k \in 1..n : kargv[k] \in Arg
      BY DEF argc
    <2>. QED
      BY <2>1, ExecAssumption DEF Arg, argc
  <1>1. CharsUpTo[0] = 0 /\ \A k \in 1..n : CharsUpTo[k] = CharsUpTo[k - 1] + kargv[k].len + 1
    BY CharsRow
  <1>. DEFINE P == {k \in 0..n : /\ CharsUpTo[k] \in Nat /\ CharsUpTo[k] <= k * M
                                 /\ \A j \in 0..k : CharsUpTo[j] \in Nat /\ CharsUpTo[j] <= CharsUpTo[k]}
  <1>. HIDE DEF n, M
  <1>2. 0 \in P
    <2>1. 0 * M = 0 /\ \A j \in 0..0 : j = 0
      BY <1>0
    <2>. QED
      BY <1>0, <1>1, <2>1
  <1>3. ASSUME NEW l \in 0..(n - 1), l \in P PROVE l + 1 \in P
    <2>. DEFINE m == l + 1
    <2>1. m \in 1..n /\ m \in 0..n /\ m - 1 = l /\ l \in Nat
      BY <1>0
    <2>2. m * M = l * M + M /\ l * M \in Nat
      BY <1>0, <2>1
    <2>. HIDE DEF m
    <2>3. CharsUpTo[m] = CharsUpTo[l] + kargv[m].len + 1
      BY <1>1, <2>1
    <2>4. kargv[m].len \in Nat /\ kargv[m].len + 1 <= M
      BY <1>0, <2>1
    <2>5. CharsUpTo[l] \in Nat /\ CharsUpTo[l] <= l * M 
          /\ \A j \in 0..l : CharsUpTo[j] \in Nat /\ CharsUpTo[j] <= CharsUpTo[l]
      BY <1>3
    <2>6. CharsUpTo[m] \in Nat /\ CharsUpTo[m] <= m * M /\ CharsUpTo[l] <= CharsUpTo[m]
      <3>. DEFINE x == l * M  y == m * M
      <3>1. x \in Nat /\ y = x + M
        BY <2>2
      <3>. HIDE DEF x, y
      <3>2. CharsUpTo[l] <= x
        BY <2>5 DEF x
      <3>3. CharsUpTo[m] \in Nat /\ CharsUpTo[m] <= y /\ CharsUpTo[l] <= CharsUpTo[m]
        BY <1>0, <2>3, <2>4, <2>5, <3>1, <3>2
      <3>. QED
        BY <3>3 DEF y
    <2>7. \A j \in 0..m : j = m \/ j \in 0..l
      BY <2>1
    <2>8. \A j \in 0..m : CharsUpTo[j] \in Nat /\ CharsUpTo[j] <= CharsUpTo[m]
      BY <2>5, <2>6, <2>7
    <2>9. m \in P
      BY <2>1, <2>6, <2>8
    <2>. QED
      BY <2>9 DEF m
  <1>. HIDE DEF P
  <1>4. \A k \in 0..n : k \in P
    BY <1>0, <1>2, <1>3, UpTo
  <1>5. \A k \in 0..n : CharsUpTo[k] \in Nat /\ CharsUpTo[k] <= k * M
    BY <1>4 DEF P
  <1>6. \A j, k \in 0..n : j <= k => CharsUpTo[j] <= CharsUpTo[k]
    <2>. SUFFICES ASSUME NEW j \in 0..n, NEW k \in 0..n, j <= k PROVE CharsUpTo[j] <= CharsUpTo[k]
      OBVIOUS
    <2>1. k \in P /\ j \in 0..k
      BY <1>0, <1>4
    <2>. QED
      BY <2>1 DEF P
  <1>. QED
    BY <1>5, <1>6 DEF n, M

\* Where the strings begin, and how far the program's addresses are from the cells.
Base == sp + Word + (argc + 2) * Word
Shift == EndAddr - PGSIZE

\* The place of argument k, its pointer's cell and its length.
Begin(k) == Base + CharsUpTo[k - 1]
Ptr(k) == sp + k * Word
Chars(k) == kargv[k].len

\* Argument k is in its place: its pointer, its characters and its end.
Placed(st, k) ==
    /\ st[Ptr(k)] = Pointer(Begin(k) + Shift)
    /\ \A j \in 0..(Chars(k) - 1) : st[Begin(k) + j] = Char(kargv[k].id, j)
    /\ st[Begin(k) + Chars(k)] = EndOfString

Layout(st, n) ==
    /\ st = [c \in 0..(PGSIZE - 1) |-> st[c]]
    /\ st[sp] = Pointer(argc)
    /\ \A k \in 1..n : Placed(st, k)

\* The pointers are below the strings, each in a cell of its own.
LEMMA Places ==
    ASSUME NEW n \in Nat, NEW s \in Nat
    PROVE  /\ \A k \in 0..n : s + k * Word \in Nat /\ s + k * Word < s + Word + n * Word
           /\ \A j, k \in 0..n : j < k => s + j * Word < s + k * Word
           /\ s + Word + n * Word \in Nat
  <1>1. \A k \in 0..n : k * Word \in Nat
    BY Sizes
  <1>2. \A j, k \in 0..n : j < k => j * Word < k * Word
    <2>. SUFFICES ASSUME NEW j \in 0..n, NEW k \in 0..n, j < k PROVE j * Word < k * Word
      OBVIOUS
    <2>1. (k - j) * Word >= Word
      BY Sizes
    <2>2. (k - j) * Word = k * Word - j * Word
      BY Sizes
    <2>. QED
      BY <1>1, <2>1, <2>2, Sizes
  <1>3. \A k \in 0..n : k * Word <= n * Word
    <2>. SUFFICES ASSUME NEW k \in 0..n PROVE k * Word <= n * Word
      OBVIOUS
    <2>1. k = n \/ k < n
      OBVIOUS
    <2>2. n \in 0..n
      OBVIOUS
    <2>. QED
      BY <1>1, <1>2, <2>1, <2>2
  <1>4. n \in 0..n
    OBVIOUS
  <1>. QED
    BY <1>1, <1>2, <1>3, <1>4, Sizes

\* Where the strings are.
LEMMA StringPlaces ==
    ASSUME kargv \in Seq(Arg), sp \in Nat
    PROVE  /\ Base \in Nat
           /\ \A k \in 0..(argc + 2) : sp + k * Word \in Nat /\ sp + k * Word < Base
           /\ \A j, k \in 0..(argc + 2) : j < k => sp + j * Word < sp + k * Word
           /\ \A k \in 1..argc : /\ kargv[k].len \in Nat /\ CharsUpTo[k - 1] \in Nat
                                 /\ CharsUpTo[k] = CharsUpTo[k - 1] + kargv[k].len + 1
  <1>1. argc + 2 \in Nat /\ argc \in Nat
    BY DEF argc
  <1>2. \A k \in 1..argc : kargv[k].len \in Nat /\ k - 1 \in 0..argc
    <2>1. \A k \in 1..argc : kargv[k] \in Arg
      BY DEF argc
    <2>. QED
      BY <1>1, <2>1, ExecAssumption, SMTT(30) DEF Arg
  <1>3. \A k \in 1..argc : CharsUpTo[k - 1] \in Nat
    BY <1>2, CharsFacts
  <1>. QED
    BY <1>1, <1>2, <1>3, Places, CharsRow DEF Base

\* The pointers' cells are behind argc's, below the strings.
LEMMA PtrPlace ==
    ASSUME kargv \in Seq(Arg), sp \in Nat, NEW k \in 1..(argc + 2)
    PROVE  Ptr(k) \in Nat /\ sp < Ptr(k) /\ Ptr(k) < Base
  <1>1. argc \in Nat /\ k \in 0..(argc + 2) /\ 0 \in 0..(argc + 2) /\ 0 < k
    BY DEF argc
  <1>2. sp + 0 * Word < sp + k * Word /\ 0 * Word = 0
    BY <1>1, Sizes, StringPlaces
  <1>3. sp + k * Word \in Nat /\ sp + k * Word < Base
    BY <1>1, StringPlaces
  <1>. QED
    BY <1>2, <1>3 DEF Ptr

LEMMA PtrOrder ==
    ASSUME kargv \in Seq(Arg), sp \in Nat, NEW j \in 1..(argc + 2), NEW k \in 1..(argc + 2), j < k
    PROVE  Ptr(j) < Ptr(k)
  <1>1. argc \in Nat /\ k \in 0..(argc + 2) /\ j \in 0..(argc + 2)
    BY DEF argc
  <1>. QED
    BY <1>1, StringPlaces DEF Ptr

\* A string lies between the pointers and the end of the last one.
LEMMA StringPlace ==
    ASSUME kargv \in Seq(Arg), sp \in Nat, NEW k \in 1..argc
    PROVE  /\ Begin(k) \in Nat /\ Chars(k) \in Nat /\ Base <= Begin(k) /\ Base \in Nat
           /\ Begin(k) + Chars(k) + 1 = Base + CharsUpTo[k]
           /\ Begin(k) + Chars(k) + 1 <= Base + CharsUpTo[argc]
  <1>1. argc \in Nat /\ k \in 0..argc /\ argc \in 0..argc /\ k <= argc
    BY DEF argc
  <1>. DEFINE x == CharsUpTo[k - 1]  y == CharsUpTo[k]  z == CharsUpTo[argc]
  <1>2. Base \in Nat /\ Chars(k) \in Nat /\ x \in Nat /\ y = x + Chars(k) + 1
    BY StringPlaces DEF Chars
  <1>3. y <= z /\ z \in Nat /\ y \in Nat
    BY <1>1, CharsFacts
  <1>4. Begin(k) = Base + x
    BY DEF Begin
  <1>. HIDE DEF x, y, z
  <1>5. /\ Begin(k) \in Nat /\ Chars(k) \in Nat /\ Base <= Begin(k) /\ Base \in Nat
        /\ Begin(k) + Chars(k) + 1 = Base + y
        /\ Begin(k) + Chars(k) + 1 <= Base + z
    BY <1>2, <1>3, <1>4
  <1>. QED
    BY <1>5 DEF y, z

\* One string ends before the next begins.
LEMMA StringOrder ==
    ASSUME kargv \in Seq(Arg), sp \in Nat, NEW j \in 1..argc, NEW k \in 1..argc, j < k
    PROVE  Begin(j) + Chars(j) + 1 <= Begin(k)
  <1>1. argc \in Nat /\ j \in 0..argc /\ k - 1 \in 0..argc /\ j <= k - 1
    BY DEF argc
  <1>. DEFINE x == CharsUpTo[j]  y == CharsUpTo[k - 1]
  <1>2. x <= y /\ x \in Nat /\ y \in Nat
    BY <1>1, CharsFacts
  <1>3. Begin(j) + Chars(j) + 1 = Base + x /\ Base \in Nat
    BY StringPlace
  <1>4. Begin(k) = Base + y
    BY DEF Begin
  <1>. HIDE DEF x, y
  <1>. QED
    BY <1>2, <1>3, <1>4

\* A page that differs only in cells that are not argument k's keeps it.
LEMMA StillPlaced ==
    ASSUME NEW st, NEW u, kargv \in Seq(Arg), sp \in Nat, NEW k \in 1..argc, Placed(st, k),
           u[Ptr(k)] = st[Ptr(k)],
           \A c \in Begin(k)..(Begin(k) + Chars(k)) : u[c] = st[c]
    PROVE  Placed(u, k)
  <1>1. Begin(k) \in Nat /\ Chars(k) \in Nat
    BY StringPlace
  <1>2. \A j \in 0..(Chars(k) - 1) : u[Begin(k) + j] = st[Begin(k) + j]
    BY <1>1
  <1>3. u[Begin(k) + Chars(k)] = st[Begin(k) + Chars(k)]
    BY <1>1
  <1>. QED
    BY <1>2, <1>3 DEF Placed

\* What put_string makes of the page.
Put(st, m) ==
    [c \in DOMAIN st |->
       CASE c \in Begin(m)..(Begin(m) + Chars(m) - 1) -> Char(kargv[m].id, c - Begin(m))
         [] c = Begin(m) + Chars(m) -> EndOfString
         [] c = Ptr(m) -> Pointer(Begin(m) + Shift)
         [] OTHER -> st[c]]

LEMMA PutLayout ==
    ASSUME kargv \in Seq(Arg), sp \in Nat, Base + CharsUpTo[argc] <= PGSIZE,
           NEW st, NEW m \in 1..argc, Layout(st, m - 1)
    PROVE  Layout(Put(st, m), m)
  <1>. DEFINE b == Begin(m)  len == Chars(m)  p == Ptr(m)  u == Put(st, m)  e == Base + CharsUpTo[argc]
  <1>0. argc \in Nat /\ m \in Nat /\ m \in 1..(argc + 2) /\ argc \in 0..argc
    BY DEF argc
  <1>1. /\ b \in Nat /\ len \in Nat /\ Base <= b /\ Base \in Nat /\ b + len + 1 <= e /\ e <= PGSIZE
        /\ p \in Nat /\ sp < p /\ p < Base /\ PGSIZE \in Nat /\ e \in Nat
    <2>1. CharsUpTo[argc] \in Nat
      BY <1>0, CharsFacts
    <2>2. e \in Nat
      BY <2>1, StringPlace
    <2>. QED
      BY <1>0, <2>2, StringPlace, PtrPlace, Sizes
  <1>4. DOMAIN st = 0..(PGSIZE - 1) /\ st[sp] = Pointer(argc) /\ \A k \in 1..(m - 1) : Placed(st, k)
    BY DEF Layout
  <1>5. u = [c \in 0..(PGSIZE - 1) |->
                CASE c \in b..(b + len - 1) -> Char(kargv[m].id, c - b)
                  [] c = b + len -> EndOfString
                  [] c = p -> Pointer(b + Shift)
                  [] OTHER -> st[c]]
    BY <1>4 DEF Put
  <1>. HIDE DEF b, len, p, u, e
  <1>6. u = [c \in 0..(PGSIZE - 1) |-> u[c]]
    BY <1>5
  <1>7. ASSUME NEW c \in Nat, c < b, c # p PROVE u[c] = st[c]
    <2>1. c \in 0..(PGSIZE - 1) /\ c \notin b..(b + len - 1) /\ c # b + len
      BY <1>1, <1>7
    <2>. QED
      BY <1>5, <1>7, <2>1
  <1>8. u[p] = Pointer(b + Shift)
    <2>1. p \in 0..(PGSIZE - 1) /\ p \notin b..(b + len - 1) /\ p # b + len
      BY <1>1
    <2>. QED
      BY <1>5, <2>1
  <1>9. \A j \in 0..(len - 1) : u[b + j] = Char(kargv[m].id, j)
    <2>. SUFFICES ASSUME NEW j \in 0..(len - 1) PROVE u[b + j] = Char(kargv[m].id, j)
      OBVIOUS
    <2>. DEFINE c == b + j
    <2>1. c \in 0..(PGSIZE - 1) /\ c \in b..(b + len - 1) /\ c - b = j /\ c # b + len /\ c # p
      BY <1>1
    <2>. HIDE DEF c
    <2>2. u[c] = Char(kargv[m].id, c - b)
      BY <1>5, <2>1
    <2>. QED
      BY <2>1, <2>2 DEF c
  <1>10. u[b + len] = EndOfString
    <2>. DEFINE c == b + len
    <2>1. c \in 0..(PGSIZE - 1) /\ c \notin b..(b + len - 1) /\ c # p
      BY <1>1
    <2>. HIDE DEF c
    <2>2. c = b + len
      BY DEF c
    <2>. QED
      BY <1>5, <2>1, <2>2
  <1>11. Placed(u, m)
    BY <1>8, <1>9, <1>10 DEF Placed, p, b, len
  <1>12. u[sp] = Pointer(argc)
    BY <1>1, <1>4, <1>7
  <1>13. ASSUME NEW k \in 1..(m - 1) PROVE Placed(u, k)
    <2>0. k \in 1..argc /\ k \in 1..(argc + 2) /\ k < m
      BY <1>0
    <2>1. /\ Chars(k) \in Nat /\ Begin(k) \in Nat /\ Ptr(k) \in Nat /\ Base <= Begin(k)
          /\ Ptr(k) < p /\ Begin(k) + Chars(k) < b
      <3>1. /\ Chars(k) \in Nat /\ Begin(k) \in Nat /\ Ptr(k) \in Nat /\ Base <= Begin(k)
        BY <2>0, StringPlace, PtrPlace
      <3>2. Ptr(k) < p
        BY <1>0, <2>0, PtrOrder DEF p
      <3>3. Begin(k) + Chars(k) + 1 <= b
        BY <2>0, StringOrder DEF b
      <3>. QED
        BY <1>1, <3>1, <3>2, <3>3
    <2>2. u[Ptr(k)] = st[Ptr(k)]
      BY <1>1, <1>7, <2>1
    <2>3. \A c \in Begin(k)..(Begin(k) + Chars(k)) : c \in Nat /\ c < b /\ c # p
      BY <1>1, <2>1
    <2>4. \A c \in Begin(k)..(Begin(k) + Chars(k)) : u[c] = st[c]
      BY <1>7, <2>3
    <2>. QED
      BY <1>4, <2>0, <2>2, <2>4, StillPlaced
  <1>14. \A k \in 1..m : k = m \/ k \in 1..(m - 1)
    BY <1>0
  <1>15. Layout(u, m)
    BY <1>6, <1>11, <1>12, <1>13, <1>14 DEF Layout
  <1>. QED
    BY <1>15 DEF u

\* One cell is written.
Written(u, st, c, v) == u = [st EXCEPT ![c] = v]

\* Writing a pointer behind those of the arguments leaves the arguments alone.
LEMMA NullLayout ==
    ASSUME kargv \in Seq(Arg), sp \in Nat, Base + CharsUpTo[argc] <= PGSIZE,
           NEW st, NEW n \in 0..argc, Layout(st, n), NEW k \in (argc + 1)..(argc + 2),
           NEW v, NEW u, Written(u, st, Ptr(k), v)
    PROVE  Layout(u, n) /\ u[Ptr(k)] = v /\ \A c \in 0..(PGSIZE - 1) : c # Ptr(k) => u[c] = st[c]
  <1>. DEFINE p == Ptr(k)
  <1>0. argc \in Nat /\ k \in 1..(argc + 2) /\ n \in Nat /\ argc \in 0..argc
    BY DEF argc
  <1>1. Base \in Nat /\ p \in Nat /\ p < Base /\ sp < p /\ Base <= PGSIZE /\ PGSIZE \in Nat
    <2>1. CharsUpTo[argc] \in Nat
      BY <1>0, CharsFacts
    <2>2. Base \in Nat
      BY StringPlaces
    <2>. QED
      BY <1>0, <2>1, <2>2, PtrPlace, Sizes
  <1>2. st = [c \in 0..(PGSIZE - 1) |-> st[c]] /\ st[sp] = Pointer(argc) /\ \A l \in 1..n : Placed(st, l)
    BY DEF Layout
  <1>. HIDE DEF p
  <1>3. /\ u = [c \in 0..(PGSIZE - 1) |-> u[c]] /\ u[p] = v
        /\ \A c \in 0..(PGSIZE - 1) : c # p => u[c] = st[c]
    <2>1. DOMAIN st = 0..(PGSIZE - 1)
      BY <1>2
    <2>2. p \in 0..(PGSIZE - 1)
      BY <1>1
    <2>3. u = [c \in 0..(PGSIZE - 1) |-> IF c = p THEN v ELSE st[c]]
      BY <2>1, <2>2 DEF p, Written
    <2>. QED
      BY <2>2, <2>3
  <1>4. u[sp] = Pointer(argc)
    BY <1>1, <1>2, <1>3
  <1>5. ASSUME NEW i \in 1..n PROVE Placed(u, i)
    <2>0. i \in 1..argc /\ i \in 1..(argc + 2) /\ i < k
      BY <1>0
    <2>1. CharsUpTo[argc] \in Nat
      BY <1>0, CharsFacts
    <2>2. /\ Chars(i) \in Nat /\ Begin(i) \in Nat /\ Ptr(i) \in Nat /\ Base <= Begin(i)
          /\ Ptr(i) < p /\ Begin(i) + Chars(i) + 1 <= Base + CharsUpTo[argc]
      BY <1>0, <2>0, StringPlace, PtrPlace, PtrOrder DEF p
    <2>3. u[Ptr(i)] = st[Ptr(i)]
      BY <1>1, <1>3, <2>2
    <2>4. Begin(i) + Chars(i) < PGSIZE
      BY <1>1, <2>1, <2>2, SMTT(30)
    <2>5. \A c \in Begin(i)..(Begin(i) + Chars(i)) : c \in 0..(PGSIZE - 1) /\ c # p
      BY <1>1, <2>2, <2>4
    <2>6. \A c \in Begin(i)..(Begin(i) + Chars(i)) : u[c] = st[c]
      BY <1>3, <2>5
    <2>. QED
      BY <1>2, <2>0, <2>3, <2>6, StillPlaced
  <1>6. Layout(u, n)
    BY <1>3, <1>4, <1>5 DEF Layout
  <1>. QED
    BY <1>3, <1>6 DEF p

-----------------------------------------------------------------------------
(* The stack page is laid out.                                             *)

\* The arguments have room on a page.
LEMMA RoomFits ==
    ASSUME kargv \in Seq(Arg), argc <= MaxArgs - 1
    PROVE  Room(argc, CharsUpTo[argc]) \in Nat /\ Room(argc, CharsUpTo[argc]) <= PGSIZE
           /\ Room(argc, CharsUpTo[argc]) > 0
  <1>. DEFINE n == MaxArgs - 1  c == CharsUpTo[argc]  L == MaxArgLen
              x == (argc + 2) * Word  y == (n + 2) * Word  z == argc * L  w == n * L
  <1>1. argc \in Nat /\ n \in Nat /\ L \in Nat /\ argc <= n /\ argc \in 0..argc
    BY ExecAssumption DEF argc
  <1>2. c \in Nat /\ c <= z
    BY <1>1, CharsFacts
  <1>3. x \in Nat /\ y \in Nat /\ x <= y
    <2>1. (n - argc) * Word >= 0 /\ (n - argc) * Word = (n + 2) * Word - (argc + 2) * Word
      BY <1>1, Sizes
    <2>2. x \in Nat /\ y \in Nat
      BY <1>1, Sizes
    <2>. QED
      BY <2>1, <2>2
  <1>4. z \in Nat /\ w \in Nat /\ z <= w
    <2>. HIDE DEF n, L
    <2>1. (n - argc) * L >= 0 /\ (n - argc) * L = n * L - argc * L
      BY <1>1
    <2>2. z \in Nat /\ w \in Nat
      BY <1>1
    <2>. QED
      BY <2>1, <2>2
  <1>5. Word + y + w <= PGSIZE
    BY ExecAssumption DEF Room
  <1>6. Room(argc, CharsUpTo[argc]) = Word + x + c
    BY DEF Room
  <1>. HIDE DEF c, x, y, z, w
  <1>. QED
    BY <1>2, <1>3, <1>4, <1>5, <1>6, Sizes

LEMMA Aligned ==
    ASSUME NEW a \in Nat
    PROVE  aligned(a) \in Nat /\ aligned(a) <= a /\ aligned(a) % Word = 0
  <1>. DEFINE q == a \div Word
  <1>1. q \in Nat /\ a % Word \in Nat /\ a = q * Word + (a % Word)
    BY Sizes, Division
  <1>. HIDE DEF q
  <1>2. q * Word \in Nat /\ 0 \in 0..(Word - 1) /\ q * Word + 0 = q * Word
    BY <1>1, Sizes
  <1>3. (q * Word + 0) % Word = 0
    BY <1>1, <1>2, Sizes, Quotient
  <1>4. aligned(a) = q * Word
    BY DEF aligned, q
  <1>. QED
    BY <1>1, <1>2, <1>3, <1>4

Built == load_pc \notin {"copy", "stack"}

\* The arguments up to now, each in its place, and from the last one on the null
\* pointers behind them.
StackInv ==
    /\ sp \in Nat /\ sp % Word = 0
    /\ Base + CharsUpTo[argc] <= PGSIZE
    /\ nstr \in 0..argc /\ (load_pc # "strings" => nstr = argc)
    /\ strpos = Base + CharsUpTo[nstr] /\ v_strpos = strpos + Shift
    /\ Layout(stk, nstr)
    /\ load_pc # "strings" => stk[Ptr(argc + 1)] = Pointer(0) /\ stk[Ptr(argc + 2)] = Pointer(0)

ArgsInv ==
    /\ program \in Programs /\ argv \in ArgLists
    /\ load_pc # "copy" => kargv = Kept
    /\ ~Built => nstr = 0 /\ stk = [c \in 0..(PGSIZE - 1) |-> stk[c]]
    /\ Built => StackInv

LEMMA CharsSame ==
    ASSUME kargv' = kargv
    PROVE  argc' = argc /\ CharsUpTo' = CharsUpTo
  BY DEF argc, CharsUpTo

LEMMA PlacesSame ==
    ASSUME kargv' = kargv, sp' = sp
    PROVE  /\ Base' = Base /\ argc' = argc /\ CharsUpTo' = CharsUpTo
           /\ \A k : Begin(k)' = Begin(k) /\ Ptr(k)' = Ptr(k) /\ Chars(k)' = Chars(k)
  <1>1. argc' = argc /\ CharsUpTo' = CharsUpTo
    BY CharsSame
  <1>2. Base' = Base
    BY <1>1 DEF Base
  <1>. QED
    BY <1>1, <1>2 DEF Begin, Ptr, Chars

LEMMA LayoutSame ==
    ASSUME kargv' = kargv, sp' = sp, Layout(stk', nstr')
    PROVE  Layout(stk, nstr)'
  <1>1. ASSUME NEW k \in 1..nstr' PROVE Placed(stk, k)'
    <2>1. Placed(stk', k)
      BY DEF Layout
    <2>. QED
      BY <2>1, PlacesSame DEF Placed, Shift
  <1>2. stk' = [c \in 0..(PGSIZE - 1) |-> stk'[c]] /\ stk'[sp'] = Pointer(argc')
    BY PlacesSame DEF Layout
  <1>. QED
    BY <1>1, <1>2 DEF Layout

\* The kernel's copy of the arguments.
LEMMA KeptNow ==
    ASSUME ArgsInv, load_pc # "copy"
    PROVE  kargv \in Seq(Arg) /\ argc \in 1..(MaxArgs - 1) /\ argc \in Nat
  <1>1. kargv = Kept /\ argv \in ArgLists
    BY DEF ArgsInv
  <1>2. kargv \in Seq(Arg) /\ argc \in 1..(MaxArgs - 1)
    BY <1>1, KeptFacts DEF argc
  <1>. QED
    BY <1>2 DEF argc

LEMMA ArgsInit == ExecInit => ArgsInv
  BY DEF ExecInit, ExecStart, ArgsInv, Built

\* Steps that leave the arguments and the stack alone.
LEMMA ArgsQuiet ==
    ASSUME ArgsInv, UNCHANGED <<args, stack>>, Built, Built',
           load_pc' = "strings" <=> load_pc = "strings"
    PROVE  ArgsInv'
  <1>1. /\ program' = program /\ argv' = argv /\ kargv' = kargv /\ stk' = stk /\ sp' = sp
        /\ strpos' = strpos /\ v_strpos' = v_strpos /\ nstr' = nstr
    BY DEF args, stack
  <1>2. load_pc # "copy" /\ load_pc' # "copy"
    BY DEF Built
  <1>3. kargv' = Kept'
    BY <1>1, <1>2 DEF ArgsInv, Kept
  <1>4. StackInv
    BY DEF ArgsInv
  <1>5. Layout(stk, nstr)'
    BY <1>1, <1>4, LayoutSame DEF StackInv
  <1>6. StackInv'
    BY <1>1, <1>4, <1>5, PlacesSame DEF StackInv, Shift
  <1>. QED
    BY <1>1, <1>3, <1>6 DEF ArgsInv

LEMMA ArgsCopied ==
    ASSUME ArgsInv, copy_args
    PROVE  ArgsInv'
  <1>1. kargv' = Kept' /\ load_pc' = "stack" /\ load_pc = "copy" /\ UNCHANGED <<program, argv, stk, nstr>>
    BY DEF copy_args, Kept, stack
  <1>. QED
    BY <1>1 DEF ArgsInv, Built

LEMMA ArgsBuilt ==
    ASSUME ArgsInv, build_stack
    PROVE  ArgsInv' /\ load_pc' = "strings"
  <1>. DEFINE room == Room(argc, CharsUpTo[argc])  s == aligned(PGSIZE - room)
  <1>0. load_pc = "stack" /\ UNCHANGED <<program, argv, kargv, nstr>>
    BY DEF build_stack, args
  <1>1. kargv \in Seq(Arg) /\ argc \in 1..(MaxArgs - 1) /\ argc \in Nat
    BY <1>0, KeptNow
  <1>2. room \in Nat /\ room <= PGSIZE /\ room > 0
    <2>1. argc <= MaxArgs - 1
      BY <1>1, ExecAssumption
    <2>. QED
      BY <1>1, <2>1, RoomFits
  <1>3. PGSIZE - room \in Nat
    BY <1>2, Sizes
  <1>4. s \in Nat /\ s <= PGSIZE - room /\ s % Word = 0
    BY <1>3, Aligned
  <1>5. /\ load_pc' = "strings" /\ sp' = s /\ strpos' = s + Word + (argc + 2) * Word
        /\ v_strpos' = EndAddr - (PGSIZE - s) + Word + (argc + 2) * Word
        /\ stk' = [stk EXCEPT ![s] = Pointer(argc)]
    <2>1. ~(room > PGSIZE)
      BY <1>2, Sizes
    <2>. QED
      BY <2>1 DEF build_stack
  <1>6. argc' = argc /\ CharsUpTo' = CharsUpTo
    BY <1>0, CharsSame
  <1>7. Base' = s + Word + (argc + 2) * Word /\ nstr' = 0 /\ CharsUpTo[0] = 0
    BY <1>0, <1>1, <1>5, <1>6, CharsRow DEF Base, ArgsInv, Built
  <1>8. room = Word + (argc + 2) * Word + CharsUpTo[argc] /\ CharsUpTo[argc] \in Nat
    BY <1>1, CharsFacts DEF Room
  <1>. DEFINE x == (argc + 2) * Word  c == CharsUpTo[argc]
  <1>9. x \in Nat
    BY <1>1, Sizes
  <1>10. DOMAIN stk = 0..(PGSIZE - 1)
    BY <1>0 DEF ArgsInv, Built
  <1>. HIDE DEF room, s, x, c
  <1>11. s + Word + x + c <= PGSIZE
    <2>1. room = Word + x + c /\ c \in Nat
      BY <1>8 DEF x, c
    <2>. QED
      BY <1>2, <1>4, <1>9, <2>1, Sizes
  <1>12. s \in 0..(PGSIZE - 1)
    BY <1>2, <1>4, Sizes
  <1>13. stk' = [i \in 0..(PGSIZE - 1) |-> stk'[i]] /\ stk'[s] = Pointer(argc)
    <2>1. stk' = [i \in 0..(PGSIZE - 1) |-> IF i = s THEN Pointer(argc) ELSE stk[i]]
      BY <1>5, <1>10, <1>12
    <2>. QED
      BY <1>12, <2>1
  <1>14. Layout(stk, nstr)'
    <2>1. 1..nstr' = {}
      BY <1>7
    <2>. QED
      BY <1>5, <1>6, <1>13, <2>1 DEF Layout
  <1>15. strpos' = Base' + CharsUpTo'[nstr']
    <2>1. s + Word + x \in Nat
      BY <1>4, <1>9, Sizes
    <2>. QED
      BY <1>5, <1>6, <1>7, <2>1 DEF x
  <1>16. v_strpos' = strpos' + Shift'
    <2>1. strpos' = s + Word + x /\ v_strpos' = EndAddr - (PGSIZE - s) + Word + x
      BY <1>5 DEF x
    <2>. QED
      BY <1>4, <1>9, <2>1, Sizes DEF Shift
  <1>17. StackInv'
    <2>1. Base' + CharsUpTo'[argc'] <= PGSIZE
      BY <1>6, <1>7, <1>11 DEF x, c
    <2>2. nstr' \in 0..argc'
      BY <1>1, <1>6, <1>7
    <2>. QED
      BY <1>4, <1>5, <1>14, <1>15, <1>16, <2>1, <2>2 DEF StackInv
  <1>. QED
    BY <1>0, <1>5, <1>17 DEF ArgsInv, Built, Kept

LEMMA ArgsPut ==
    ASSUME ArgsInv, put_string
    PROVE  ArgsInv'
  <1>0. /\ load_pc = "strings" /\ load_pc' = "strings" /\ nstr < argc /\ nstr' = nstr + 1
        /\ UNCHANGED <<program, argv, kargv, sp>>
    BY DEF put_string, args
  <1>1. kargv \in Seq(Arg) /\ argc \in Nat /\ StackInv
    BY <1>0, KeptNow DEF ArgsInv, Built
  <1>. DEFINE m == nstr + 1
  <1>2. m \in 1..argc /\ m - 1 = nstr /\ nstr \in 0..argc /\ nstr \in Nat /\ m \in Nat
    BY <1>0, <1>1 DEF StackInv
  <1>3. sp \in Nat /\ Base + CharsUpTo[argc] <= PGSIZE /\ strpos = Base + CharsUpTo[nstr]
        /\ v_strpos = strpos + Shift /\ Layout(stk, nstr)
    BY <1>1 DEF StackInv
  <1>4. strpos = Begin(m)
    BY <1>2, <1>3 DEF Begin
  <1>5. sp + Word + nstr * Word = Ptr(m)
    <2>1. (nstr + 1) * Word = nstr * Word + Word /\ nstr * Word \in Nat
      BY <1>2, Sizes
    <2>. QED
      BY <1>3, <2>1, Sizes DEF Ptr
  <1>6. Begin(m) \in Nat /\ Chars(m) \in Nat /\ Begin(m) + Chars(m) + 1 = Base + CharsUpTo[m]
    BY <1>1, <1>2, <1>3, StringPlace
  <1>. HIDE DEF m
  <1>7. stk' = Put(stk, m) /\ strpos' = Begin(m) + Chars(m) + 1 /\ v_strpos' = v_strpos + Chars(m) + 1
    BY <1>3, <1>4, <1>5 DEF put_string, Put, Chars, next_string, m
  <1>8. Layout(Put(stk, m), m)
    BY <1>1, <1>2, <1>3, PutLayout
  <1>9. nstr' = m
    BY <1>0 DEF m
  <1>10. Layout(stk, nstr)'
    BY <1>0, <1>7, <1>8, <1>9, LayoutSame
  <1>11. Base' = Base /\ CharsUpTo' = CharsUpTo /\ argc' = argc
    BY <1>0, PlacesSame
  <1>12. strpos' = Base' + CharsUpTo'[nstr'] /\ v_strpos' = strpos' + Shift'
    <2>1. Shift' = Shift /\ Shift \in Int
      BY Sizes DEF Shift
    <2>. QED
      BY <1>3, <1>4, <1>6, <1>7, <1>9, <1>11, <2>1
  <1>13. StackInv'
    BY <1>0, <1>1, <1>2, <1>9, <1>10, <1>11, <1>12 DEF StackInv
  <1>. QED
    BY <1>0, <1>13 DEF ArgsInv, Built, Kept

LEMMA ArgsEnded ==
    ASSUME ArgsInv, strings_end
    PROVE  ArgsInv'
  <1>0. /\ load_pc = "strings" /\ load_pc' = "segment" /\ nstr = argc
        /\ UNCHANGED <<program, argv, kargv, sp, strpos, v_strpos, nstr>>
    BY DEF strings_end, args
  <1>1. kargv \in Seq(Arg) /\ argc \in Nat /\ StackInv
    BY <1>0, KeptNow DEF ArgsInv, Built
  <1>2. sp \in Nat /\ Base + CharsUpTo[argc] <= PGSIZE /\ Layout(stk, argc)
    BY <1>0, <1>1 DEF StackInv
  <1>. DEFINE p == Ptr(argc + 1)  q == Ptr(argc + 2)  u == [stk EXCEPT ![p] = Pointer(0)]
              w == [u EXCEPT ![q] = Pointer(0)]
  <1>3. sp + Word + argc * Word = p /\ sp + Word + (argc + 1) * Word = q
    <2>1. (argc + 1) * Word = argc * Word + Word /\ argc * Word \in Nat
      BY <1>1, Sizes
    <2>2. (argc + 2) * Word = (argc + 1) * Word + Word /\ (argc + 1) * Word \in Nat
      BY <1>1, Sizes
    <2>. QED
      BY <1>2, <2>1, <2>2, Sizes DEF Ptr
  <1>4. stk' = w
    BY <1>3 DEF strings_end
  <1>5. /\ argc + 1 \in (argc + 1)..(argc + 2) /\ argc + 2 \in (argc + 1)..(argc + 2) /\ argc \in 0..argc
        /\ argc + 1 \in 1..(argc + 2) /\ argc + 2 \in 1..(argc + 2) /\ argc + 1 < argc + 2
    BY <1>1
  <1>. HIDE DEF u, w
  <1>6. Layout(u, argc) /\ u[p] = Pointer(0)
    <2>. DEFINE k == argc + 1  v == Pointer(0)
    <2>1. Written(u, stk, Ptr(k), v) /\ k \in (argc + 1)..(argc + 2)
      BY <1>5 DEF u, Written
    <2>. HIDE DEF k, v
    <2>2. Layout(u, argc) /\ u[Ptr(k)] = v
      BY <1>1, <1>2, <1>5, <2>1, NullLayout
    <2>. QED
      BY <2>2 DEF k, v
  <1>7. /\ Layout(w, argc) /\ w[q] = Pointer(0)
        /\ \A c \in 0..(PGSIZE - 1) : c # q => w[c] = u[c]
    <2>. DEFINE k == argc + 2  v == Pointer(0)
    <2>1. Written(w, u, Ptr(k), v) /\ k \in (argc + 1)..(argc + 2)
      BY <1>5 DEF w, Written
    <2>. HIDE DEF k, v
    <2>2. Layout(w, argc) /\ w[Ptr(k)] = v /\ \A c \in 0..(PGSIZE - 1) : c # Ptr(k) => w[c] = u[c]
      BY <1>1, <1>2, <1>5, <1>6, <2>1, NullLayout
    <2>. QED
      BY <2>2 DEF k, v
  <1>8. p < q /\ q < Base /\ p \in Nat /\ q \in Nat /\ Base \in Nat /\ CharsUpTo[argc] \in Nat
    BY <1>1, <1>2, <1>5, PtrPlace, PtrOrder, StringPlaces, CharsFacts
  <1>. HIDE DEF p, q
  <1>9. p \in 0..(PGSIZE - 1) /\ p # q
    BY <1>2, <1>8, Sizes
  <1>10. w[p] = Pointer(0)
    BY <1>6, <1>7, <1>9
  <1>11. Layout(stk, nstr)'
    BY <1>0, <1>4, <1>7, LayoutSame
  <1>12. Ptr(argc + 1)' = p /\ Ptr(argc + 2)' = q
    BY <1>0, PlacesSame DEF p, q, Ptr
  <1>13. StackInv'
    BY <1>0, <1>1, <1>4, <1>7, <1>10, <1>11, <1>12, PlacesSame DEF StackInv, Shift
  <1>. QED
    BY <1>0, <1>13 DEF ArgsInv, Built, Kept

LEMMA ArgsStep ==
    ASSUME ArgsInv, [ExecNext]_execVars
    PROVE  ArgsInv'
  <1>1. CASE copy_args
    BY <1>1, ArgsCopied
  <1>2. CASE build_stack
    BY <1>2, ArgsBuilt
  <1>3. CASE put_string
    BY <1>3, ArgsPut
  <1>4. CASE strings_end
    BY <1>4, ArgsEnded
  <1>5. CASE next_segment
    BY <1>5, ArgsQuiet DEF next_segment, Built
  <1>6. CASE load_page
    BY <1>6, ArgsQuiet DEF load_page, Built
  <1>7. CASE segment_ends
    BY <1>7, ArgsQuiet DEF segment_ends, Built
  <1>8. CASE enters
    BY <1>8, ArgsQuiet DEF enters, Built
  <1>9. CASE UNCHANGED execVars
    <2>1. UNCHANGED <<args, stack>> /\ load_pc' = load_pc
      BY <1>9 DEF execVars
    <2>2. CASE Built
      BY <2>1, <2>2, ArgsQuiet DEF Built
    <2>3. CASE ~Built
      BY <2>1, <2>3 DEF ArgsInv, Built, args, stack, Kept
    <2>. QED
      BY <2>2, <2>3
  <1>. QED
    BY <1>1, <1>2, <1>3, <1>4, <1>5, <1>6, <1>7, <1>8, <1>9 DEF ExecNext

\* The layout is what the program reads.
LEMMA ArgsRead ==
    ASSUME ArgsInv
    PROVE  StackFits /\ ArgsArrive
  <1>1. ASSUME Built PROVE sp >= 0 /\ sp % Word = 0 /\ strpos <= PGSIZE
    <2>1. kargv \in Seq(Arg) /\ argc \in Nat /\ StackInv
      BY <1>1, KeptNow DEF ArgsInv, Built
    <2>2. nstr \in 0..argc /\ argc \in 0..argc /\ nstr <= argc
      BY <2>1 DEF StackInv
    <2>3. CharsUpTo[nstr] \in Nat /\ CharsUpTo[argc] \in Nat /\ CharsUpTo[nstr] <= CharsUpTo[argc]
      BY <2>1, <2>2, CharsFacts
    <2>4. sp \in Nat /\ sp % Word = 0 /\ Base + CharsUpTo[argc] <= PGSIZE /\ strpos = Base + CharsUpTo[nstr]
      BY <2>1 DEF StackInv
    <2>5. Base \in Nat
      BY <2>1, <2>4, StringPlaces
    <2>. QED
      BY <2>3, <2>4, <2>5, Sizes
  <1>2. StackFits
    BY <1>1 DEF StackFits, Built
  <1>3. ASSUME load_pc = "done" PROVE ArgsArrive
    <2>1. kargv \in Seq(Arg) /\ argc \in Nat /\ StackInv /\ kargv = Kept /\ argv \in ArgLists
      BY <1>3, KeptNow DEF ArgsInv, Built
    <2>2. /\ sp \in Nat /\ Layout(stk, argc)
          /\ stk[Ptr(argc + 1)] = Pointer(0) /\ stk[Ptr(argc + 2)] = Pointer(0)
      BY <1>3, <2>1 DEF StackInv
    <2>3. stk[sp] = Pointer(argc) /\ \A k \in 1..argc : Placed(stk, k)
      BY <2>2 DEF Layout
    <2>. DEFINE n == IF argv = <<>> THEN 1 ELSE Least(Len(argv), MaxArgs - 1)
                Who(k) == IF argv = <<>> THEN 0 ELSE k
                Length(k) == Least(IF argv = <<>> THEN PathLen ELSE argv[k], MaxArgLen - 1)
    <2>4. n = argc /\ \A k \in 1..argc : kargv[k].id = Who(k) /\ Chars(k) = Length(k)
      <3>1. /\ Len(Kept) = IF argv = <<>> THEN 1 ELSE Least(Len(argv), MaxArgs - 1)
            /\ \A k \in 1..Len(Kept) :
                 Kept[k] = IF argv = <<>> THEN copied(0, PathLen) ELSE copied(k, argv[k])
        BY <2>1, KeptFacts
      <3>2. n = argc
        BY <2>1, <3>1 DEF argc
      <3>3. ASSUME NEW k \in 1..argc PROVE kargv[k].id = Who(k) /\ Chars(k) = Length(k)
        <4>1. kargv[k] = IF argv = <<>> THEN copied(0, PathLen) ELSE copied(k, argv[k])
          BY <2>1, <3>1 DEF argc
        <4>. QED
          BY <4>1 DEF copied, Chars
      <3>. QED
        BY <3>2, <3>3
    <2>. HIDE DEF n, Who, Length
    <2>5. Shift \in Int /\ \A x \in Int : At(x + Shift) = stk[x]
      BY Sizes DEF At, Shift
    <2>6. V_sp = sp + Shift
      BY <2>2, Sizes DEF V_sp, Shift
    <2>7. At(V_sp) = Pointer(n)
      BY <2>2, <2>3, <2>4, <2>5, <2>6
    <2>8. ASSUME NEW k \in 1..(argc + 2) PROVE At(V_sp + k * Word) = stk[Ptr(k)]
      <3>1. k * Word \in Nat
        BY Sizes
      <3>. DEFINE x == k * Word
      <3>2. Ptr(k) = sp + x /\ x \in Nat
        BY <3>1 DEF Ptr
      <3>. HIDE DEF x
      <3>4. V_sp + x = (sp + x) + Shift /\ sp + x \in Int
        BY <2>2, <2>5, <2>6, <3>2
      <3>3. At(V_sp + x) = stk[Ptr(k)]
        BY <2>5, <3>2, <3>4
      <3>. QED
        BY <3>3 DEF x
    <2>9. At(V_sp + (n + 1) * Word) = Pointer(0) /\ At(V_sp + (n + 2) * Word) = Pointer(0)
      <3>1. argc + 1 \in 1..(argc + 2) /\ argc + 2 \in 1..(argc + 2)
        BY <2>1
      <3>. QED
        BY <2>2, <2>4, <2>8, <3>1
    <2>10. ASSUME NEW k \in 1..n
           PROVE  LET v == At(V_sp + k * Word)[2]
                  IN  /\ \A j \in 0..(Length(k) - 1) : At(v + j) = Char(Who(k), j)
                      /\ At(v + Length(k)) = EndOfString
      <3>1. k \in 1..argc /\ k \in 1..(argc + 2)
        BY <2>1, <2>4
      <3>2. Begin(k) \in Nat /\ Chars(k) \in Nat /\ Chars(k) = Length(k) /\ kargv[k].id = Who(k)
        BY <2>1, <2>2, <2>4, <3>1, StringPlace
      <3>3. /\ stk[Ptr(k)] = Pointer(Begin(k) + Shift)
            /\ \A j \in 0..(Chars(k) - 1) : stk[Begin(k) + j] = Char(kargv[k].id, j)
            /\ stk[Begin(k) + Chars(k)] = EndOfString
        BY <2>3, <3>1 DEF Placed
      <3>4. At(V_sp + k * Word)[2] = Begin(k) + Shift
        BY <2>8, <3>1, <3>3 DEF Pointer
      <3>5. \A j \in 0..Chars(k) : At(Begin(k) + Shift + j) = stk[Begin(k) + j]
        <4>1. \A j \in 0..Chars(k) : Begin(k) + Shift + j = (Begin(k) + j) + Shift /\ Begin(k) + j \in Int
          BY <2>5, <3>2
        <4>. QED
          BY <2>5, <4>1
      <3>6. \A j \in 0..(Chars(k) - 1) : j \in 0..Chars(k)
        BY <3>2
      <3>7. Chars(k) \in 0..Chars(k)
        BY <3>2
      <3>8. \A j \in 0..(Length(k) - 1) : At(Begin(k) + Shift + j) = Char(Who(k), j)
        BY <3>2, <3>3, <3>5, <3>6
      <3>9. At(Begin(k) + Shift + Length(k)) = EndOfString
        BY <3>2, <3>3, <3>5, <3>7
      <3>. QED
        BY <3>4, <3>8, <3>9
    <2>. QED
      BY <2>7, <2>9, <2>10 DEF ArgsArrive, n, Who, Length
  <1>. QED
    BY <1>2, <1>3 DEF ArgsArrive

-----------------------------------------------------------------------------
(* The segments of a program.                                              *)

\* Where segment k begins and ends, and how much of it the file has.
From(k) == program[k].vaddr
To(k) == program[k].vaddr + program[k].memsz
InFile(k) == program[k].filesz

LEMMA SegmentFacts ==
    ASSUME program \in Programs, NEW k \in 1..Len(program)
    PROVE  /\ From(k) \in Nat /\ To(k) \in Nat /\ InFile(k) \in Nat /\ From(k) < To(k)
           /\ To(k) <= Pages * PGSIZE /\ From(k) + InFile(k) <= To(k)
           /\ SegmentCells(k) = From(k)..(To(k) - 1)
  <1>. DEFINE R == [vaddr : Nat, memsz : Nat \ {0}, filesz : Nat]
  <1>1. program \in Seq(R)
    BY ExecAssumption
  <1>2. program[k] \in R
    <2>. HIDE DEF R
    <2>. QED
      BY <1>1
  <1>3. program[k].vaddr \in Nat /\ program[k].memsz \in Nat \ {0} /\ program[k].filesz \in Nat
    BY <1>2
  <1>4. program[k].filesz <= program[k].memsz /\ program[k].vaddr + program[k].memsz <= Pages * PGSIZE
    BY ExecAssumption
  <1>. QED
    BY <1>3, <1>4 DEF From, To, InFile, SegmentCells

LEMMA ProgramLength == program \in Programs => Len(program) \in Nat
  <1>. DEFINE R == [vaddr : Nat, memsz : Nat \ {0}, filesz : Nat]
  <1>1. program \in Programs => program \in Seq(R)
    BY ExecAssumption
  <1>. HIDE DEF R
  <1>. QED
    BY <1>1

\* The segments' places in the file.
LEMMA OffsetsNat ==
    ASSUME program \in Programs
    PROVE  \A k \in 0..Len(program) : FileOffset[k] \in Nat
  <1>. DEFINE n == Len(program)
              F == [z \in Nat \X (1..n) |-> IF z[2] <= 1 THEN 0 ELSE z[1] + InFile(z[2] - 1)]
              Same(h) == h = [k \in 0..n |-> IF k <= 1 THEN 0 ELSE h[k - 1] + program[k - 1].filesz]
              f == CHOOSE h : Same(h)
  <1>0. n \in Nat /\ \A k \in 1..n : InFile(k) \in Nat
    BY ProgramLength, SegmentFacts
  <1>1. F \in [Nat \X (1..n) -> Nat]
    <2>1. ASSUME NEW z \in Nat \X (1..n)
          PROVE  (IF z[2] <= 1 THEN 0 ELSE z[1] + InFile(z[2] - 1)) \in Nat
      <3>1. z[1] \in Nat /\ z[2] \in 1..n
        BY <2>1
      <3>2. z[2] <= 1 \/ z[2] - 1 \in 1..n
        BY <1>0, <3>1
      <3>3. z[2] <= 1 \/ InFile(z[2] - 1) \in Nat
        BY <1>0, <3>2
      <3>. QED
        BY <3>1, <3>3
    <2>. QED
      BY <2>1
  <1>2. \A c \in Nat, k \in 1..n : F[<<c, k>>] = IF k <= 1 THEN 0 ELSE c + InFile(k - 1)
    OBVIOUS
  <1>3. FileOffset = f
    BY DEF FileOffset
  <1>. HIDE DEF F, n
  <1>4. PICK g \in [0..n -> Nat] : Iterates(g, n, 0, F)
    BY <1>0, <1>1, RowExists
  <1>5. Same(g)
    <2>1. ASSUME NEW k \in 0..n
          PROVE  g[k] = IF k <= 1 THEN 0 ELSE g[k - 1] + program[k - 1].filesz
      <3>1. CASE k = 0
        BY <1>4, <3>1 DEF Iterates
      <3>2. CASE k # 0
        <4>1. k \in 1..n /\ k - 1 \in 0..n
          BY <1>0, <3>2
        <4>2. g[k - 1] \in Nat
          BY <4>1
        <4>3. g[k] = F[<<g[k - 1], k>>]
          BY <1>4, <3>2 DEF Iterates
        <4>4. g[k] = IF k <= 1 THEN 0 ELSE g[k - 1] + InFile(k - 1)
          BY <1>2, <4>1, <4>2, <4>3
        <4>. QED
          BY <4>4 DEF InFile
      <3>. QED
        BY <3>1, <3>2
    <2>2. g = [k \in 0..n |-> g[k]]
      OBVIOUS
    <2>. QED
      BY <2>1, <2>2
  <1>6. Same(f)
    BY <1>5
  <1>. HIDE DEF f
  <1>. DEFINE P == {k \in 0..n : f[k] \in Nat}
  <1>7. 0 \in P
    <2>1. 0 \in 0..n /\ 0 <= 1
      BY <1>0
    <2>2. f[0] = 0
      BY <1>6, <2>1
    <2>. QED
      BY <2>1, <2>2
  <1>8. ASSUME NEW i \in 0..(n - 1), i \in P PROVE i + 1 \in P
    <2>. DEFINE m == i + 1
    <2>1. m \in 0..n /\ m - 1 = i /\ i \in Nat /\ (~(m <= 1) => i \in 1..n)
      BY <1>0
    <2>. HIDE DEF m
    <2>2. f[m] = IF m <= 1 THEN 0 ELSE f[i] + program[i].filesz
      BY <1>6, <2>1
    <2>3. ~(m <= 1) => program[i].filesz \in Nat
      BY <1>0, <2>1 DEF InFile
    <2>4. f[m] \in Nat
      BY <1>8, <2>2, <2>3
    <2>. QED
      BY <2>1, <2>4 DEF m
  <1>. HIDE DEF P
  <1>9. \A k \in 0..n : k \in P
    BY <1>0, <1>7, <1>8, UpTo
  <1>. QED
    BY <1>3, <1>9 DEF P, n

\* The pages of a segment go from the one with its first cell up to its end.
Holds(k, q) == PageStart(From(k)) <= q /\ q < To(k)

LEMMA HoldsPage ==
    ASSUME program \in Programs, NEW k \in 1..Len(program), NEW q, IsPage(q)
    PROVE  q \in SegmentPages(k) <=> Holds(k, q)
  <1>. DEFINE v == From(k)  t == To(k)  s == PageStart(v)
  <1>1. v \in Nat /\ t \in Nat /\ v < t
    BY SegmentFacts
  <1>2. IsPage(s) /\ s \in Nat /\ s <= v /\ v < s + PGSIZE /\ q \in Nat /\ PageStart(q) = q
    BY <1>1, PageFacts, StartIsPage DEF IsPage
  <1>3. SegmentCells(k) = v..(t - 1)
    BY SegmentFacts
  <1>. HIDE DEF v, t, s
  <1>4. ASSUME NEW a \in SegmentCells(k), q = PageStart(a) PROVE s <= q /\ q < t
    <2>1. a \in Nat /\ v <= a /\ a < t
      BY <1>1, <1>3
    <2>2. q <= a /\ a < q + PGSIZE
      BY <1>4, <2>1, PageFacts
    <2>3. q < s => q + PGSIZE <= s
      BY <1>2, PagesApart
    <2>. QED
      BY <1>1, <1>2, <2>1, <2>2, <2>3, Sizes
  <1>5. ASSUME s <= q, q < t PROVE \E a \in SegmentCells(k) : q = PageStart(a)
    <2>1. CASE v <= q
      <3>1. q \in SegmentCells(k)
        BY <1>1, <1>2, <1>3, <1>5, <2>1
      <3>. QED
        BY <1>2, <3>1
    <2>2. CASE q < v
      <3>1. s < q => s + PGSIZE <= q
        BY <1>2, PagesApart
      <3>2. q = s
        BY <1>1, <1>2, <1>5, <2>2, <3>1, Sizes
      <3>3. v \in SegmentCells(k)
        BY <1>1, <1>3
      <3>. QED
        BY <3>2, <3>3 DEF s
    <2>. QED
      BY <1>1, <1>2, <2>1, <2>2
  <1>6. Holds(k, q) <=> s <= q /\ q < t
    BY DEF Holds, s, t, v
  <1>. QED
    BY <1>4, <1>5, <1>6 DEF SegmentPages

-----------------------------------------------------------------------------
(* The image is loaded.                                                    *)

Cells == 0..(Pages * PGSIZE - 1)

\* What a cell of segment k's pages has to be.
Want(k, a) ==
    IF From(k) <= a /\ a - From(k) < InFile(k) THEN FileOffset[k] + (a - From(k)) + 1 ELSE 0

\* Page q has been loaded for segment k.
Has(k, q) ==
    /\ k \in 1..seg /\ Holds(k, q)
    /\ load_pc = "page" /\ k = seg => q < addr

\* A cell is what its segment wants, or on no page.
CellInv(a) ==
    /\ \A k \in 1..seg : Has(k, PageStart(a)) => mem[a] = Want(k, a)
    /\ (\A k \in 1..seg : ~Has(k, PageStart(a))) => mem[a] = Unmapped

\* How much of segment k the pages below p take from the file.
Copied(k, p) == IF p <= From(k) THEN 0 ELSE Least(InFile(k), p - From(k))

\* The variables of the loop over a segment's pages.
PageInv ==
    /\ seg \in 1..Len(program)
    /\ IsPage(addr) /\ PageStart(From(seg)) <= addr
    /\ zero_bytes = (IF addr <= From(seg) THEN From(seg) - addr ELSE 0)
    /\ offset = FileOffset[seg] + Copied(seg, addr)
    /\ filesz = InFile(seg) - Copied(seg, addr)

OnePageTwice == \E j, k \in 1..Len(program) : j # k /\ SegmentPages(j) \cap SegmentPages(k) # {}

ImageInv ==
    /\ program \in Programs
    /\ mem = [a \in Cells |-> mem[a]]
    /\ seg \in 0..Len(program) /\ new_brk \in Nat
    /\ load_pc \in {"copy", "stack", "strings"} => seg = 0
    /\ \A k \in 1..seg : To(k) <= new_brk
    /\ load_pc = "page" => PageInv
    /\ load_pc # "panic" => \A a \in Cells : CellInv(a)
    /\ load_pc = "panic" => OnePageTwice
    /\ load_pc = "done" => seg = Len(program) /\ IsPage(new_brk) /\ new_brk % PGSIZE = 0

LEMMA ProgramSame ==
    ASSUME program' = program
    PROVE  /\ FileOffset' = FileOffset /\ OnePageTwice' = OnePageTwice
           /\ \A k : From(k)' = From(k) /\ To(k)' = To(k) /\ InFile(k)' = InFile(k)
           /\ \A k, q : Holds(k, q)' = Holds(k, q)
           /\ \A k, a : Want(k, a)' = Want(k, a)
           /\ \A k, p : Copied(k, p)' = Copied(k, p)
  <1>1. FileOffset' = FileOffset
    BY DEF FileOffset
  <1>2. \A k : From(k)' = From(k) /\ To(k)' = To(k) /\ InFile(k)' = InFile(k)
    BY DEF From, To, InFile
  <1>3. \A k, q : Holds(k, q)' = Holds(k, q)
    BY <1>2 DEF Holds, PageStart
  <1>4. \A k, a : Want(k, a)' = Want(k, a)
    BY <1>1, <1>2 DEF Want
  <1>5. \A k, p : Copied(k, p)' = Copied(k, p)
    BY <1>2 DEF Copied, Least
  <1>6. OnePageTwice' = OnePageTwice
    BY DEF OnePageTwice, SegmentPages, SegmentCells, PageStart
  <1>. QED
    BY <1>1, <1>2, <1>3, <1>4, <1>5, <1>6

\* What a cell has to be is never the mark of an unmapped one.
LEMMA WantNat ==
    ASSUME program \in Programs, NEW k \in 1..Len(program), NEW a \in Nat
    PROVE  Want(k, a) \in Nat
  <1>1. From(k) \in Nat /\ InFile(k) \in Nat /\ FileOffset[k] \in Nat
    <2>1. k \in 0..Len(program)
      BY ProgramLength
    <2>. QED
      BY <2>1, SegmentFacts, OffsetsNat
  <1>. QED
    BY <1>1 DEF Want

LEMMA CellsNat ==
    ASSUME NEW a \in Cells
    PROVE  a \in Nat /\ PageStart(a) \in Nat /\ IsPage(PageStart(a))
           /\ PageStart(a) <= a /\ a < PageStart(a) + PGSIZE
  <1>1. Pages * PGSIZE \in Nat
    BY Sizes
  <1>2. a \in Nat
    BY <1>1 DEF Cells
  <1>. QED
    BY <1>2, PageFacts, StartIsPage

\* A page of a segment: what is copied to it, and what is left.
LEMMA PageBytes ==
    ASSUME program \in Programs, PageInv, addr < To(seg)
    PROVE  /\ next_page \in Nat /\ IsPage(next_page) /\ From(seg) < next_page /\ addr \in Cells
           /\ offset + bytes = FileOffset[seg] + Copied(seg, next_page)
           /\ filesz - bytes = InFile(seg) - Copied(seg, next_page)
           /\ zero_bytes \in Nat /\ zero_bytes + bytes <= PGSIZE /\ bytes \in Int
           /\ \A a \in addr..(addr + PGSIZE - 1) :
                 Want(seg, a) = IF a - addr \in zero_bytes..(zero_bytes + bytes - 1)
                                THEN offset + (a - addr - zero_bytes) + 1 ELSE 0
  <1>. DEFINE v == From(seg)  n == InFile(seg)  f == FileOffset[seg]  t == Copied(seg, addr)  p == PGSIZE
              s == PageStart(v)
  <1>0. seg \in 1..Len(program) /\ seg \in 0..Len(program)
    BY ProgramLength DEF PageInv
  <1>1. /\ v \in Nat /\ n \in Nat /\ f \in Nat /\ p \in Nat \ {0} /\ addr \in Nat /\ IsPage(addr)
        /\ To(seg) \in Nat /\ To(seg) <= Pages * PGSIZE
    BY <1>0, SegmentFacts, OffsetsNat, Sizes DEF PageInv, IsPage
  <1>2. s \in Nat /\ s <= v /\ v < s + p /\ s <= addr
    BY <1>1, PageFacts DEF PageInv
  <1>3. t = IF addr <= v THEN 0 ELSE IF n < addr - v THEN n ELSE addr - v
    BY DEF Copied, Least
  <1>4. zero_bytes = (IF addr <= v THEN v - addr ELSE 0) /\ offset = f + t /\ filesz = n - t
    BY DEF PageInv
  <1>5. bytes = IF zero_bytes # 0 THEN IF filesz < p - zero_bytes THEN filesz ELSE p - zero_bytes
                ELSE IF filesz < p THEN filesz ELSE p
    BY DEF bytes, first_bytes, Least
  <1>6. next_page = addr + p /\ IsPage(next_page)
    BY <1>1, NextIsPage DEF next_page
  <1>7. Copied(seg, next_page) = IF next_page <= v THEN 0 ELSE IF n < next_page - v THEN n ELSE next_page - v
    BY DEF Copied, Least
  <1>8. \A a : Want(seg, a) = IF v <= a /\ a - v < n THEN f + (a - v) + 1 ELSE 0
    BY DEF Want
  <1>9. addr \in Cells
    <2>. DEFINE x == Pages * PGSIZE
    <2>1. x \in Nat /\ To(seg) <= x
      BY <1>1, Sizes
    <2>. HIDE DEF x
    <2>2. addr \in 0..(x - 1)
      BY <1>1, <2>1
    <2>. QED
      BY <2>2 DEF Cells, x
  <1>. HIDE DEF v, n, f, t, p, s
  <1>10. next_page \in Nat /\ v < next_page
    BY <1>1, <1>2, <1>6
  <1>11. t \in Nat /\ t <= n
    BY <1>1, <1>3
  <1>12. t + bytes = Copied(seg, next_page) /\ bytes \in Int
    <2>1. CASE addr <= v
      <3>1. t = 0 /\ filesz = n /\ zero_bytes = v - addr
        BY <1>1, <1>3, <1>4, <2>1
      <3>2. bytes = IF n < p - zero_bytes THEN n ELSE p - zero_bytes
        BY <1>1, <1>5, <2>1, <3>1
      <3>3. p - zero_bytes = next_page - v
        BY <1>1, <1>6, <3>1
      <3>. QED
        BY <1>1, <1>7, <1>10, <3>1, <3>2, <3>3
    <2>2. CASE ~(addr <= v)
      <3>1. zero_bytes = 0 /\ filesz = n - t
        BY <1>4, <2>2
      <3>2. bytes = IF n - t < p THEN n - t ELSE p
        BY <1>5, <3>1
      <3>. QED
        BY <1>1, <1>3, <1>6, <1>7, <1>10, <1>11, <2>2, <3>2
    <2>. QED
      BY <2>1, <2>2
  <1>13. ASSUME NEW a \in addr..(addr + p - 1)
         PROVE  Want(seg, a) = IF a - addr \in zero_bytes..(zero_bytes + bytes - 1)
                                THEN offset + (a - addr - zero_bytes) + 1 ELSE 0
    <2>0. a \in Int /\ addr <= a /\ a < next_page
      BY <1>1, <1>6
    <2>1. CASE addr <= v
      <3>1. t = 0 /\ filesz = n /\ zero_bytes = v - addr /\ offset = f
        BY <1>1, <1>3, <1>4, <2>1
      <3>2. bytes = IF n < p - zero_bytes THEN n ELSE p - zero_bytes
        BY <1>1, <1>5, <2>1, <3>1
      <3>3. a - addr \in zero_bytes..(zero_bytes + bytes - 1) <=> v <= a /\ a - v < n
        BY <1>1, <1>6, <1>12, <2>0, <3>1, <3>2
      <3>4. a - addr - zero_bytes = a - v
        BY <1>1, <2>0, <3>1
      <3>. QED
        BY <1>8, <3>1, <3>3, <3>4
    <2>2. CASE ~(addr <= v)
      <3>1. zero_bytes = 0 /\ filesz = n - t
        BY <1>4, <2>2
      <3>2. bytes = IF n - t < p THEN n - t ELSE p
        BY <1>5, <3>1
      <3>3. a - addr \in zero_bytes..(zero_bytes + bytes - 1) <=> v <= a /\ a - v < n
        BY <1>1, <1>3, <1>6, <1>11, <2>0, <2>2, <3>1, <3>2
      <3>4. a - v < n => offset + (a - addr - zero_bytes) + 1 = f + (a - v) + 1
        BY <1>1, <1>3, <1>4, <2>0, <2>2, <3>1
      <3>. QED
        BY <1>8, <3>3, <3>4
    <2>. QED
      BY <2>1, <2>2
  <1>15. zero_bytes \in Nat /\ zero_bytes + bytes <= p
    <2>1. zero_bytes \in Nat
      BY <1>1, <1>4
    <2>2. CASE zero_bytes # 0
      BY <1>5, <1>12, <2>1, <2>2, <1>1
    <2>3. CASE zero_bytes = 0
      BY <1>5, <1>12, <2>3, <1>1
    <2>. QED
      BY <2>1, <2>2, <2>3
  <1>14. offset + bytes = f + Copied(seg, next_page) /\ filesz - bytes = n - Copied(seg, next_page)
    BY <1>1, <1>4, <1>11, <1>12
  <1>. QED
    BY <1>6, <1>9, <1>10, <1>12, <1>13, <1>14, <1>15 DEF v, n, f, p

LEMMA CellSame ==
    ASSUME program' = program, NEW a, CellInv(a), mem'[a] = mem[a],
           \A k : Has(k, PageStart(a))' <=> Has(k, PageStart(a))
    PROVE  CellInv(a)'
  <1>1. \A k : Has(k, PageStart(a)) => k \in 1..seg
    BY DEF Has
  <1>2. \A k : Has(k, PageStart(a))' => k \in 1..seg'
    BY DEF Has
  <1>3. \A k : Want(k, a)' = Want(k, a)
    BY ProgramSame
  <1>4. ASSUME NEW k \in 1..seg', Has(k, PageStart(a))' PROVE mem'[a] = Want(k, a)'
    <2>1. Has(k, PageStart(a)) /\ k \in 1..seg
      BY <1>1, <1>4
    <2>. QED
      BY <1>3, <2>1 DEF CellInv
  <1>5. ASSUME \A k \in 1..seg' : ~Has(k, PageStart(a))' PROVE mem'[a] = Unmapped
    <2>1. \A k \in 1..seg : ~Has(k, PageStart(a))
      BY <1>2, <1>5
    <2>. QED
      BY <2>1 DEF CellInv
  <1>6. Unmapped' = Unmapped
    BY DEF Unmapped
  <1>. QED
    BY <1>4, <1>5, <1>6 DEF CellInv, PageStart

LEMMA ImageInit == ExecInit => ImageInv
  <1>. SUFFICES ASSUME ExecInit PROVE ImageInv
    OBVIOUS
  <1>1. /\ program \in Programs /\ load_pc = "copy" /\ mem = [a \in Cells |-> Unmapped]
        /\ seg = 0 /\ new_brk = 0
    BY DEF ExecInit, ExecStart, Cells
  <1>2. mem = [a \in Cells |-> mem[a]] /\ \A a \in Cells : mem[a] = Unmapped
    BY <1>1
  <1>3. 1..seg = {} /\ seg \in 0..Len(program)
    BY <1>1, ProgramLength
  <1>4. \A a \in Cells : CellInv(a)
    BY <1>2, <1>3 DEF CellInv
  <1>. QED
    BY <1>1, <1>2, <1>3, <1>4 DEF ImageInv

\* The steps before the first segment, and those that do nothing.
LEMMA ImageQuiet ==
    ASSUME ImageInv, UNCHANGED <<program, image>>,
           \/ load_pc' = load_pc
           \/ load_pc \in {"copy", "stack", "strings"} /\ load_pc' \in {"stack", "strings", "segment"}
    PROVE  ImageInv'
  <1>1. /\ program' = program /\ mem' = mem /\ seg' = seg /\ addr' = addr /\ zero_bytes' = zero_bytes
        /\ filesz' = filesz /\ offset' = offset /\ new_brk' = new_brk
    BY DEF image
  <1>2. \A k, q : Has(k, q)' <=> Has(k, q)
    <2>1. \A k : k \in 1..seg => load_pc' = load_pc
      <3>1. CASE load_pc' = load_pc
        BY <3>1
      <3>2. CASE load_pc' # load_pc
        <4>1. seg = 0
          BY <3>2 DEF ImageInv
        <4>. QED
          BY <4>1
      <3>. QED
        BY <3>1, <3>2
    <2>. QED
      BY <1>1, <2>1, ProgramSame DEF Has
  <1>3. ASSUME load_pc' # "panic" PROVE \A a \in Cells : CellInv(a)'
    <2>1. \A a \in Cells : CellInv(a)
      BY <1>3 DEF ImageInv
    <2>. QED
      BY <1>1, <1>2, <2>1, CellSame
  <1>4. load_pc' = "page" => PageInv'
    <2>1. PageInv => PageInv'
      BY <1>1, ProgramSame DEF PageInv, IsPage, PageStart
    <2>. QED
      BY <2>1 DEF ImageInv
  <1>5. \A k \in 1..seg' : To(k)' <= new_brk'
    BY <1>1, ProgramSame DEF ImageInv
  <1>6. load_pc' = "panic" => OnePageTwice'
    BY <1>1, ProgramSame DEF ImageInv
  <1>7. Cells' = Cells
    BY DEF Cells
  <1>. QED
    BY <1>1, <1>3, <1>4, <1>5, <1>6, <1>7 DEF ImageInv, IsPage, PageStart

LEMMA ImageSegment ==
    ASSUME ImageInv, next_segment
    PROVE  ImageInv'
  <1>. DEFINE m == seg + 1
  <1>0. /\ load_pc = "segment" /\ load_pc' = "page" /\ seg' = m /\ program' = program /\ mem' = mem
        /\ new_brk' = Larger(new_brk, To(m)) /\ addr' = PageStart(From(m))
        /\ zero_bytes' = From(m) - PageStart(From(m)) /\ filesz' = InFile(m) /\ offset' = FileOffset[m]
        /\ seg < Len(program)
    BY DEF next_segment, args, From, To, InFile
  <1>1. program \in Programs /\ seg \in 0..Len(program) /\ Len(program) \in Nat /\ new_brk \in Nat
        /\ mem = [a \in Cells |-> mem[a]]
    BY ProgramLength DEF ImageInv
  <1>2. m \in 1..Len(program) /\ m \in Nat /\ m \in 0..Len(program) /\ seg \in Nat /\ seg < m
        /\ \A k \in 1..m : k = m \/ (k \in 1..seg /\ k # m)
    BY <1>0, <1>1
  <1>3. From(m) \in Nat /\ To(m) \in Nat /\ InFile(m) \in Nat /\ FileOffset[m] \in Nat
    BY <1>1, <1>2, SegmentFacts, OffsetsNat
  <1>. HIDE DEF m
  <1>4. /\ PageStart(From(m)) \in Nat /\ PageStart(From(m)) <= From(m) /\ IsPage(PageStart(From(m)))
    BY <1>3, PageFacts, StartIsPage
  <1>5. new_brk' \in Nat /\ new_brk' >= new_brk /\ new_brk' >= To(m)
    BY <1>0, <1>1, <1>3 DEF Larger
  <1>6. ASSUME NEW k \in 1..seg' PROVE To(k)' <= new_brk'
    <2>1. To(k)' = To(k) /\ (k = m \/ k \in 1..seg)
      BY <1>0, <1>2, ProgramSame
    <2>2. CASE k = m
      BY <1>5, <2>1, <2>2
    <2>3. CASE k \in 1..seg
      <3>1. To(k) <= new_brk /\ k \in 1..Len(program)
        BY <1>1, <2>3 DEF ImageInv
      <3>2. To(k) \in Nat
        BY <1>1, <3>1, SegmentFacts
      <3>. QED
        BY <1>1, <1>5, <2>1, <3>1, <3>2
    <2>. QED
      BY <2>1, <2>2, <2>3
  <1>7. PageInv'
    <2>1. Copied(m, addr') = 0
      BY <1>0, <1>4 DEF Copied
    <2>2. Copied(seg, addr)' = 0
      BY <1>0, <2>1, ProgramSame DEF Copied, Least
    <2>3. From(seg)' = From(m) /\ InFile(seg)' = InFile(m) /\ FileOffset' = FileOffset
      BY <1>0, ProgramSame DEF From, InFile
    <2>4. IsPage(addr)' /\ PageStart(From(seg))' = PageStart(From(m)) /\ PageStart(From(m)) <= addr'
      BY <1>0, <1>4, <2>3 DEF IsPage, PageStart
    <2>5. zero_bytes' = IF addr' <= From(seg)' THEN From(seg)' - addr' ELSE 0
      BY <1>0, <1>4, <2>3
    <2>6. offset' = FileOffset[m] + 0 /\ filesz' = InFile(m) - 0
      BY <1>0, <1>3
    <2>7. (FileOffset[seg])' = FileOffset[m]
      BY <1>0, <2>3
    <2>8. seg' \in 1..Len(program')
      BY <1>0, <1>2
    <2>. QED
      BY <2>2, <2>3, <2>4, <2>5, <2>6, <2>7, <2>8 DEF PageInv
  <1>8. ASSUME NEW a \in Cells PROVE CellInv(a)'
    <2>1. a \in Nat /\ PageStart(a) \in Nat
      BY CellsNat
    <2>. DEFINE q == PageStart(a)
    <2>2. ASSUME NEW k PROVE Has(k, q)' <=> Has(k, q)
      <3>1. CASE k = m
        <4>1. ~Has(k, q)
          BY <1>2, <3>1 DEF Has
        <4>2. ~(PageStart(From(m)) <= q /\ q < addr')
          BY <1>0, <1>4, <2>1
        <4>3. Holds(k, q)' => PageStart(From(m)) <= q
          BY <1>0, <3>1, ProgramSame DEF Holds, PageStart
        <4>4. Has(k, q)' => Holds(k, q)' /\ q < addr'
          BY <1>0, <3>1 DEF Has, PageStart
        <4>. QED
          BY <4>1, <4>2, <4>3, <4>4
      <3>2. CASE k # m
        <4>1. k \in 1..seg' <=> k \in 1..seg
          BY <1>0, <1>2, <3>2
        <4>2. Holds(k, q)' = Holds(k, q)
          BY <1>0, ProgramSame DEF PageStart, Holds
        <4>3. Has(k, q)' <=> k \in 1..seg' /\ Holds(k, q)'
          BY <1>0, <3>2 DEF Has
        <4>4. Has(k, q) <=> k \in 1..seg /\ Holds(k, q)
          BY <1>0 DEF Has
        <4>. QED
          BY <4>1, <4>2, <4>3, <4>4
      <3>. QED
        BY <3>1, <3>2
    <2>3. CellInv(a)
      BY <1>0 DEF ImageInv
    <2>. QED
      BY <1>0, <2>2, <2>3, CellSame
  <1>9. Cells' = Cells
    BY DEF Cells
  <1>. QED
    BY <1>0, <1>1, <1>2, <1>5, <1>6, <1>7, <1>8, <1>9 DEF ImageInv

\* A page that is there already is another segment's.
LEMMA ImageShared ==
    ASSUME ImageInv, load_page, mem[addr] # Unmapped
    PROVE  ImageInv'
  <1>0. /\ load_pc = "page" /\ addr < To(seg) /\ load_pc' = "panic" /\ program' = program /\ seg' = seg
        /\ new_brk' = new_brk /\ mem' = mem
    BY DEF load_page, args, SegmentEnd, To
  <1>1. program \in Programs /\ PageInv /\ \A a \in Cells : CellInv(a)
    BY <1>0 DEF ImageInv
  <1>2. addr \in Cells /\ seg \in 1..Len(program) /\ IsPage(addr) /\ addr \in Nat
    BY <1>0, <1>1, PageBytes DEF PageInv, IsPage
  <1>3. PICK k \in 1..seg : Has(k, addr)
    <2>1. PageStart(addr) = addr
      BY <1>2 DEF IsPage
    <2>. QED
      BY <1>1, <1>2, <2>1 DEF CellInv
  <1>4. k # seg
    BY <1>0, <1>2, <1>3 DEF Has
  <1>5. k \in 1..Len(program)
    BY <1>2
  <1>6. addr \in SegmentPages(k)
    <2>1. Holds(k, addr)
      BY <1>3 DEF Has
    <2>. QED
      BY <1>1, <1>2, <1>5, <2>1, HoldsPage
  <1>7. addr \in SegmentPages(seg)
    <2>1. Holds(seg, addr)
      BY <1>0, <1>1 DEF Holds, PageInv
    <2>. QED
      BY <1>1, <1>2, <2>1, HoldsPage
  <1>8. OnePageTwice
    BY <1>2, <1>4, <1>5, <1>6, <1>7 DEF OnePageTwice
  <1>9. OnePageTwice' /\ \A j : To(j)' = To(j)
    BY <1>0, <1>8, ProgramSame
  <1>10. Cells' = Cells
    BY DEF Cells
  <1>. QED
    BY <1>0, <1>9, <1>10 DEF ImageInv

\* Another page is loaded.
LEMMA ImagePage ==
    ASSUME ImageInv, load_page, mem[addr] = Unmapped
    PROVE  ImageInv'
  <1>0. /\ load_pc = "page" /\ addr < To(seg) /\ load_pc' = "page" /\ program' = program /\ seg' = seg
        /\ new_brk' = new_brk /\ addr' = next_page /\ zero_bytes' = 0
        /\ offset' = offset + bytes /\ filesz' = filesz - bytes
    BY DEF load_page, args, SegmentEnd, To
  <1>1. /\ program \in Programs /\ PageInv /\ (\A a \in Cells : CellInv(a))
        /\ mem = [a \in Cells |-> mem[a]]
    BY <1>0 DEF ImageInv
  <1>2. /\ addr \in Cells /\ seg \in 1..Len(program) /\ IsPage(addr) /\ addr \in Nat
        /\ PageStart(From(seg)) <= addr /\ seg \in Nat /\ seg \in 1..seg
    <2>1. Len(program) \in Nat
      BY <1>1, ProgramLength
    <2>. QED
      BY <1>0, <1>1, <2>1, PageBytes DEF PageInv, IsPage
  <1>3. /\ next_page \in Nat /\ IsPage(next_page) /\ From(seg) < next_page
        /\ offset + bytes = FileOffset[seg] + Copied(seg, next_page)
        /\ filesz - bytes = InFile(seg) - Copied(seg, next_page)
        /\ next_page = addr + PGSIZE
        /\ From(seg) \in Nat /\ zero_bytes \in Nat /\ zero_bytes + bytes <= PGSIZE /\ bytes \in Int
    BY <1>0, <1>1, <1>2, PageBytes, SegmentFacts DEF next_page
  <1>4. mem' = [a \in Cells |-> IF PageStart(a) # addr THEN mem[a] ELSE Want(seg, a)]
    <2>1. DOMAIN mem = Cells
      BY <1>1
    <2>2. mem' = [a \in Cells |->
                     CASE PageStart(a) # addr -> mem[a]
                       [] a - addr \in zero_bytes..(zero_bytes + bytes - 1) ->
                              offset + (a - addr - zero_bytes) + 1
                       [] OTHER -> 0]
      BY <2>1 DEF load_page
    <2>3. ASSUME NEW a \in Cells, PageStart(a) = addr
          PROVE  Want(seg, a) = IF a - addr \in zero_bytes..(zero_bytes + bytes - 1)
                                THEN offset + (a - addr - zero_bytes) + 1 ELSE 0
      <3>1. a \in Nat /\ addr <= a /\ a < addr + PGSIZE
        BY <2>3, CellsNat
      <3>2. a \in addr..(addr + PGSIZE - 1)
        BY <1>2, <3>1, Sizes
      <3>. QED
        BY <1>0, <1>1, <3>2, PageBytes
    <2>4. ASSUME NEW a \in Cells
          PROVE  mem'[a] = IF PageStart(a) # addr THEN mem[a] ELSE Want(seg, a)
      <3>. DEFINE inside == a - addr \in zero_bytes..(zero_bytes + bytes - 1)
                  x == offset + (a - addr - zero_bytes) + 1
                  other == PageStart(a) # addr
      <3>1. mem'[a] = CASE other -> mem[a] [] inside -> x [] OTHER -> 0
        BY <2>2
      <3>2. ~other => Want(seg, a) = IF inside THEN x ELSE 0
        BY <2>3
      <3>3. other => ~inside
        <4>. SUFFICES ASSUME inside PROVE PageStart(a) = addr
          OBVIOUS
        <4>1. a \in Nat
          BY CellsNat
        <4>2. addr <= a /\ a < addr + PGSIZE
          BY <1>2, <1>3, <4>1, Sizes
        <4>. QED
          BY <1>2, <4>1, <4>2, SamePage
      <3>. HIDE DEF inside, x, other
      <3>4. mem'[a] = IF other THEN mem[a] ELSE IF inside THEN x ELSE 0
        BY <3>1, <3>3
      <3>5. mem'[a] = IF other THEN mem[a] ELSE Want(seg, a)
        BY <3>2, <3>4
      <3>. QED
        BY <3>5 DEF other
    <2>5. mem' = [a \in Cells |-> mem'[a]]
      BY <2>2
    <2>. QED
      BY <2>4, <2>5
  <1>5. ASSUME NEW k \in 1..seg PROVE ~Has(k, addr)
    <2>. SUFFICES ASSUME Has(k, addr) PROVE FALSE
      OBVIOUS
    <2>1. PageStart(addr) = addr
      BY <1>2 DEF IsPage
    <2>2. mem[addr] = Want(k, addr)
      BY <1>1, <1>2, <2>1 DEF CellInv
    <2>3. k \in 1..Len(program)
      BY <1>1, <1>2, ProgramLength
    <2>4. Want(k, addr) \in Nat
      BY <1>1, <1>2, <2>3, WantNat
    <2>. QED
      BY <2>2, <2>4 DEF Unmapped
  \* What other pages have stays, and the new page is the segment's alone.
  <1>. PICK p : p = addr
    OBVIOUS
  <1>6. ASSUME NEW q, IsPage(q), q # p, NEW k PROVE Has(k, q)' <=> Has(k, q)
    <2>1. q \in Nat
      BY <1>6 DEF IsPage
    <2>2. q < addr' <=> q < addr
      <3>1. q < next_page => q < addr
        <4>1. addr < q => addr + PGSIZE <= q
          BY <1>2, <1>6, PagesApart
        <4>. QED
          BY <1>2, <1>3, <1>6, <2>1, <4>1, Sizes
      <3>2. q < addr => q < next_page
        BY <1>2, <1>3, <2>1, Sizes
      <3>. QED
        BY <1>0, <3>1, <3>2
    <2>3. Holds(k, q)' = Holds(k, q)
      BY <1>0, ProgramSame
    <2>. QED
      BY <1>0, <2>2, <2>3 DEF Has
  <1>7. p \in Nat /\ IsPage(p) /\ p < addr'
    BY <1>0, <1>2, <1>3, Sizes
  <1>8. Has(seg, p)'
    <2>1. Holds(seg, p)
      BY <1>0, <1>2 DEF Holds
    <2>2. Holds(seg, p)'
      BY <1>0, <2>1, ProgramSame DEF Holds, PageStart
    <2>. QED
      BY <1>0, <1>2, <1>7, <2>2 DEF Has
  <1>9. ASSUME NEW k, Has(k, p)' PROVE k = seg
    <2>. SUFFICES ASSUME k # seg PROVE FALSE
      OBVIOUS
    <2>1. k \in 1..seg /\ Holds(k, p)'
      BY <1>0, <1>9 DEF Has
    <2>2. Holds(k, p)
      BY <1>0, <2>1, ProgramSame
    <2>3. Has(k, p)
      BY <2>1, <2>2 DEF Has
    <2>. QED
      BY <1>5, <2>1, <2>3
  <1>10. ASSUME NEW a \in Cells PROVE CellInv(a)'
    <2>1. IsPage(PageStart(a)) /\ CellInv(a)
      BY <1>1, CellsNat
    <2>2. CASE PageStart(a) # p
      <3>1. mem'[a] = mem[a]
        BY <1>4, <2>2
      <3>2. \A k : Has(k, PageStart(a))' <=> Has(k, PageStart(a))
        <4>1. ASSUME NEW q, IsPage(q), q # p PROVE \A k : Has(k, q)' <=> Has(k, q)
          BY <1>6, <4>1
        <4>. DEFINE q == PageStart(a)
        <4>2. IsPage(q) /\ q # p
          BY <2>1, <2>2
        <4>3. PICK r : r = q
          OBVIOUS
        <4>4. \A k : Has(k, r)' <=> Has(k, r)
          BY <4>1, <4>2, <4>3
        <4>5. \A k : Has(k, q)' <=> Has(k, r)'
          BY <4>3 DEF Has, Holds, PageStart
        <4>6. \A k : Has(k, q) <=> Has(k, r)
          BY <4>3
        <4>. QED
          BY <4>4, <4>5, <4>6
      <3>. QED
        BY <1>0, <2>1, <3>1, <3>2, CellSame
    <2>3. CASE PageStart(a) = p
      <3>1. mem'[a] = Want(seg, a)
        BY <1>4, <2>3
      <3>2. \A k : Has(k, PageStart(a))' <=> Has(k, p)'
        BY <2>3 DEF Has, Holds, PageStart
      <3>3. ASSUME NEW k \in 1..seg', Has(k, PageStart(a))' PROVE mem'[a] = Want(k, a)'
        <4>1. k = seg
          BY <1>9, <3>2, <3>3
        <4>2. Want(k, a)' = Want(k, a)
          BY <1>0, ProgramSame
        <4>. QED
          BY <3>1, <4>1, <4>2
      <3>4. ~(\A k \in 1..seg' : ~Has(k, PageStart(a))')
        <4>1. PICK k : k = seg
          OBVIOUS
        <4>2. Has(k, p)'
          BY <1>0, <1>8, <4>1 DEF Has, Holds, From, To
        <4>3. k \in 1..seg'
          BY <1>0, <1>2, <4>1
        <4>. QED
          BY <3>2, <4>2, <4>3
      <3>. QED
        BY <3>3, <3>4 DEF CellInv, PageStart
    <2>. QED
      BY <2>2, <2>3
  <1>11. PageInv'
    <2>1. From(seg)' = From(seg) /\ InFile(seg)' = InFile(seg) /\ FileOffset' = FileOffset
      BY <1>0, ProgramSame DEF From, InFile
    <2>2. Copied(seg, addr)' = Copied(seg, next_page)
      BY <1>0, <2>1 DEF Copied, Least
    <2>3. IsPage(addr)' /\ PageStart(From(seg))' <= addr'
      <3>1. IsPage(addr)'
        BY <1>0, <1>3 DEF IsPage, PageStart
      <3>2. PageStart(From(seg)) \in Nat /\ PageStart(From(seg)) <= From(seg)
        BY <1>3, PageFacts
      <3>3. PageStart(From(seg))' = PageStart(From(seg))
        BY <2>1 DEF PageStart
      <3>. QED
        BY <1>0, <1>2, <1>3, <3>1, <3>2, <3>3, Sizes
    <2>4. ~(addr' <= From(seg)')
      BY <1>0, <1>3, <2>1
    <2>5. (FileOffset[seg])' = FileOffset[seg]
      BY <1>0, <2>1
    <2>6. offset' = (FileOffset[seg])' + Copied(seg, addr)' /\ filesz' = InFile(seg)' - Copied(seg, addr)'
      BY <1>0, <1>3, <2>1, <2>2, <2>5
    <2>7. seg' \in 1..Len(program')
      BY <1>0, <1>2
    <2>. QED
      BY <1>0, <2>3, <2>4, <2>6, <2>7 DEF PageInv
  <1>12. \A k \in 1..seg' : To(k)' <= new_brk'
    BY <1>0, ProgramSame DEF ImageInv
  <1>13. Cells' = Cells /\ mem' = [a \in Cells |-> mem'[a]]
    BY <1>4 DEF Cells
  <1>. QED
    BY <1>0, <1>10, <1>11, <1>12, <1>13 DEF ImageInv

LEMMA ImageEnds ==
    ASSUME ImageInv, segment_ends
    PROVE  ImageInv'
  <1>0. /\ load_pc = "page" /\ ~(addr < To(seg)) /\ load_pc' = "segment" /\ program' = program
        /\ seg' = seg /\ new_brk' = new_brk /\ mem' = mem /\ addr' = addr /\ addr >= To(seg)
    <2>1. addr >= To(seg) => ~(addr < To(seg))
      <3>1. (addr \in Nat /\ To(seg) \in Nat) \/ load_pc # "page"
        BY SegmentFacts DEF ImageInv, PageInv, IsPage
      <3>. QED
        BY <3>1 DEF segment_ends
    <2>. QED
      BY <2>1 DEF segment_ends, args, image, SegmentEnd, To
  <1>1. PageInv /\ program \in Programs /\ \A a \in Cells : CellInv(a)
    BY <1>0 DEF ImageInv
  <1>2. addr \in Nat /\ To(seg) \in Nat /\ To(seg) <= addr
    BY <1>0, <1>1, SegmentFacts DEF PageInv, IsPage
  <1>3. ASSUME NEW q \in Nat, NEW k PROVE Has(k, q)' <=> Has(k, q)
    <2>1. Holds(seg, q) => q < addr
      BY <1>2 DEF Holds
    <2>2. Holds(k, q)' = Holds(k, q)
      BY <1>0, ProgramSame
    <2>. QED
      BY <1>0, <2>1, <2>2 DEF Has
  <1>4. ASSUME NEW a \in Cells PROVE CellInv(a)'
    <2>. DEFINE q == PageStart(a)
    <2>1. q \in Nat
      BY CellsNat
    <2>2. \A k : Has(k, q)' <=> Has(k, q)
      <3>1. PICK r : r = q
        OBVIOUS
      <3>2. \A k : Has(k, r)' <=> Has(k, r)
        BY <1>3, <2>1, <3>1
      <3>3. \A k : Has(k, q)' <=> Has(k, r)'
        BY <3>1 DEF Has, Holds, PageStart
      <3>. QED
        BY <3>1, <3>2, <3>3
    <2>. QED
      BY <1>0, <1>1, <2>2, CellSame
  <1>5. \A k \in 1..seg' : To(k)' <= new_brk'
    BY <1>0, ProgramSame DEF ImageInv
  <1>6. Cells' = Cells
    BY DEF Cells
  <1>. QED
    BY <1>0, <1>4, <1>5, <1>6 DEF ImageInv

LEMMA ImageEnters ==
    ASSUME ImageInv, enters
    PROVE  ImageInv'
  <1>0. /\ load_pc = "segment" /\ load_pc' = "done" /\ program' = program /\ seg = Len(program)
        /\ seg' = seg /\ new_brk' = rounded(new_brk) /\ mem' = mem /\ addr' = addr
    BY DEF enters, args
  <1>1. program \in Programs /\ new_brk \in Nat /\ \A a \in Cells : CellInv(a)
    BY <1>0 DEF ImageInv
  <1>. DEFINE x == new_brk + PGSIZE - 1
  <1>2. x \in Nat /\ x = new_brk + (PGSIZE - 1)
    BY <1>1, Sizes
  <1>. HIDE DEF x
  <1>3. /\ PageStart(x) \in Nat /\ x < PageStart(x) + PGSIZE /\ IsPage(PageStart(x))
        /\ PageStart(x) % PGSIZE = 0
    BY <1>2, PageFacts, StartIsPage
  <1>4. new_brk' = PageStart(x)
    BY <1>0 DEF rounded, x
  <1>5. new_brk' \in Nat /\ new_brk <= new_brk' /\ IsPage(new_brk') /\ new_brk' % PGSIZE = 0
    BY <1>1, <1>2, <1>3, <1>4, Sizes
  <1>6. IsPage(new_brk)'
    BY <1>5 DEF IsPage, PageStart
  <1>7. ASSUME NEW k \in 1..seg' PROVE To(k)' <= new_brk'
    <2>1. To(k) <= new_brk /\ To(k)' = To(k) /\ k \in 1..Len(program)
      BY <1>0, ProgramSame DEF ImageInv
    <2>2. To(k) \in Nat
      BY <1>1, <2>1, SegmentFacts
    <2>. QED
      BY <1>1, <1>5, <2>1, <2>2
  <1>8. ASSUME NEW a \in Cells PROVE CellInv(a)'
    <2>1. \A k, q : Has(k, q)' <=> Has(k, q)
      BY <1>0, ProgramSame DEF Has
    <2>. QED
      BY <1>0, <1>1, <2>1, CellSame
  <1>9. Cells' = Cells /\ seg' = Len(program')
    BY <1>0 DEF Cells
  <1>. QED
    BY <1>0, <1>5, <1>6, <1>7, <1>8, <1>9 DEF ImageInv

LEMMA ImageStep ==
    ASSUME ArgsInv, ImageInv, [ExecNext]_execVars
    PROVE  ImageInv'
  <1>1. CASE copy_args
    BY <1>1, ImageQuiet DEF copy_args
  <1>2. CASE build_stack
    <2>1. load_pc = "stack" /\ UNCHANGED <<program, image>>
      BY <1>2 DEF build_stack, args
    <2>2. load_pc' = "strings"
      BY <1>2, ArgsBuilt
    <2>. QED
      BY <2>1, <2>2, ImageQuiet
  <1>3. CASE put_string
    BY <1>3, ImageQuiet DEF put_string, args
  <1>4. CASE strings_end
    BY <1>4, ImageQuiet DEF strings_end, args
  <1>5. CASE next_segment
    BY <1>5, ImageSegment
  <1>6. CASE load_page
    BY <1>6, ImagePage, ImageShared
  <1>7. CASE segment_ends
    BY <1>7, ImageEnds
  <1>8. CASE enters
    BY <1>8, ImageEnters
  <1>9. CASE UNCHANGED execVars
    BY <1>9, ImageQuiet DEF execVars, args
  <1>. QED
    BY <1>1, <1>2, <1>3, <1>4, <1>5, <1>6, <1>7, <1>8, <1>9 DEF ExecNext

\* The image is what the properties say of it.
LEMMA ImageRead ==
    ASSUME ImageInv
    PROVE  ImageExact /\ PanicOnlyIfShared
  <1>1. PanicOnlyIfShared
    BY DEF ImageInv, PanicOnlyIfShared, OnePageTwice
  <1>2. ASSUME load_pc = "done" PROVE ImageExact
    <2>1. /\ program \in Programs /\ seg = Len(program) /\ new_brk \in Nat /\ IsPage(new_brk)
          /\ new_brk % PGSIZE = 0 /\ DOMAIN mem = Cells /\ (\A a \in Cells : CellInv(a))
          /\ (\A k \in 1..Len(program) : To(k) <= new_brk)
      BY <1>2 DEF ImageInv
    <2>2. ASSUME NEW k \in 1..Len(program), NEW q, IsPage(q)
          PROVE  Has(k, q) <=> q \in SegmentPages(k)
      BY <1>2, <2>1, <2>2, HoldsPage DEF Has
    <2>3. ASSUME NEW k \in 1..Len(program), NEW a \in Cells, a \in SegmentCells(k)
          PROVE  mem[a] = IF a - program[k].vaddr < program[k].filesz
                           THEN FileOffset[k] + (a - program[k].vaddr) + 1 ELSE 0
      <3>1. PageStart(a) \in SegmentPages(k) /\ IsPage(PageStart(a))
        BY <2>3, CellsNat DEF SegmentPages
      <3>2. mem[a] = Want(k, a)
        BY <2>1, <2>2, <3>1 DEF CellInv
      <3>3. From(k) <= a
        BY <2>1, <2>3, SegmentFacts
      <3>. QED
        BY <3>2, <3>3 DEF Want, From, InFile
    <2>4. ASSUME NEW a \in Cells
          PROVE  LET owners == {k \in 1..Len(program) : PageStart(a) \in SegmentPages(k)}
                 IN  /\ owners = {} => mem[a] = Unmapped
                     /\ owners # {} => mem[a] # Unmapped /\ a < new_brk
                     /\ (\A k \in owners : a \notin SegmentCells(k)) /\ owners # {} => mem[a] = 0
      <3>. DEFINE owners == {k \in 1..Len(program) : PageStart(a) \in SegmentPages(k)}
      <3>1. IsPage(PageStart(a)) /\ a \in Nat /\ a < PageStart(a) + PGSIZE
        BY CellsNat
      <3>2. \A k \in 1..Len(program) : k \in owners <=> Has(k, PageStart(a))
        BY <2>2, <3>1
      <3>3. CellInv(a)
        BY <2>1
      <3>4. owners \subseteq 1..Len(program)
        OBVIOUS
      <3>. HIDE DEF owners
      <3>5. owners = {} => mem[a] = Unmapped
        BY <2>1, <3>2, <3>3 DEF CellInv
      <3>6. ASSUME NEW k \in owners
            PROVE  mem[a] # Unmapped /\ a < new_brk /\ (a \notin SegmentCells(k) => mem[a] = 0)
        <4>1. k \in 1..Len(program) /\ Has(k, PageStart(a))
          BY <3>2, <3>4
        <4>2. mem[a] = Want(k, a)
          BY <2>1, <3>3, <4>1 DEF CellInv
        <4>3. Want(k, a) \in Nat
          BY <2>1, <3>1, <4>1, WantNat
        <4>4. mem[a] # Unmapped
          BY <4>2, <4>3 DEF Unmapped
        <4>5. a < new_brk
          <5>1. PageStart(a) < To(k) /\ To(k) <= new_brk /\ To(k) \in Nat
            BY <2>1, <4>1, SegmentFacts DEF Has, Holds
          <5>2. PageStart(a) \in Nat
            BY <3>1 DEF IsPage
          <5>3. PageStart(a) < new_brk
            BY <2>1, <5>1, <5>2
          <5>4. PageStart(a) + PGSIZE <= new_brk
            BY <2>1, <3>1, <5>3, PagesApart
          <5>. QED
            BY <2>1, <3>1, <5>2, <5>4, Sizes
        <4>6. a \notin SegmentCells(k) => mem[a] = 0
          <5>1. /\ From(k) \in Nat /\ To(k) \in Nat /\ InFile(k) \in Nat /\ From(k) + InFile(k) <= To(k)
                /\ SegmentCells(k) = From(k)..(To(k) - 1)
            BY <2>1, <4>1, SegmentFacts
          <5>2. a \notin SegmentCells(k) => ~(From(k) <= a /\ a - From(k) < InFile(k))
            BY <3>1, <5>1
          <5>. QED
            BY <4>2, <5>2 DEF Want
        <4>. QED
          BY <4>4, <4>5, <4>6
      <3>7. /\ owners = {} => mem[a] = Unmapped
            /\ owners # {} => mem[a] # Unmapped /\ a < new_brk
            /\ (\A k \in owners : a \notin SegmentCells(k)) /\ owners # {} => mem[a] = 0
        BY <3>5, <3>6
      <3>. QED
        BY <3>7 DEF owners
    <2>. QED
      BY <2>1, <2>3, <2>4 DEF ImageExact
  <1>. QED
    BY <1>1, <1>2 DEF ImageExact

\* A program starts with the memory its file describes and the arguments it was
\* given, on a stack that fits its page, and only two segments on one page halt the
\* kernel (loader, context_uload, call_main).
THEOREM ProgramAlwaysExact == ExecSpec => []ProgramExact
  <1>1. ExecInit => ArgsInv /\ ImageInv
    BY ArgsInit, ImageInit
  <1>2. ArgsInv /\ ImageInv /\ [ExecNext]_execVars => (ArgsInv /\ ImageInv)'
    BY ArgsStep, ImageStep
  <1>3. ArgsInv /\ ImageInv => ProgramExact
    BY ArgsRead, ImageRead DEF ProgramExact
  <1>. QED
    BY <1>1, <1>2, <1>3, PTL DEF ExecSpec

-----------------------------------------------------------------------------
(* Paths and their elements.                                               *)

PathChar == Letter \cup {Slash}

LEMMA LetterFacts == Slash \notin Letter /\ NUL \notin Letter /\ NUL # Slash
  BY LookupAssumption

\* The rest of a sequence from place n on.
LEMMA FromPlace ==
    ASSUME NEW T, NEW p \in Seq(T), NEW n \in 1..Len(p)
    PROVE  /\ SubSeq(p, n, Len(p)) \in Seq(T) /\ Len(SubSeq(p, n, Len(p))) = Len(p) - n + 1
           /\ SubSeq(p, n, Len(p))[1] = p[n]
  <1>1. n \in Nat /\ Len(p) \in Nat
    OBVIOUS
  <1>2. \A i \in n..Len(p) : p[i] \in T
    BY <1>1
  <1>. QED
    BY <1>1, <1>2

\* Without its slashes a path is empty or begins with another character.
LEMMA SkipFacts ==
    ASSUME NEW p \in Seq(PathChar)
    PROVE  /\ skip_slashes(p) \in Seq(PathChar) /\ Len(skip_slashes(p)) <= Len(p)
           /\ skip_slashes(p) # <<>> => skip_slashes(p)[1] # Slash
  <1>. DEFINE I == {i \in 1..Len(p) : p[i] # Slash}
  <1>0. Len(p) \in Nat
    OBVIOUS
  <1>1. CASE I = {}
    <2>1. skip_slashes(p) = <<>>
      BY <1>1 DEF skip_slashes, SelectInSeq
    <2>. QED
      BY <1>0, <2>1
  <1>2. CASE I # {}
    <2>. DEFINE n == Min(I)
    <2>1. I \subseteq Nat
      BY <1>0
    <2>2. n \in I
      BY <1>2, <2>1, MinMember
    <2>. HIDE DEF n
    <2>3. n \in 1..Len(p) /\ p[n] # Slash /\ n # 0
      BY <1>0, <2>2
    <2>4. skip_slashes(p) = SubSeq(p, n, Len(p))
      BY <1>2, <2>3 DEF skip_slashes, SelectInSeq, n
    <2>. QED
      BY <1>0, <2>3, <2>4, FromPlace
  <1>. QED
    BY <1>1, <1>2

LEMMA SkipAgain ==
    ASSUME NEW p \in Seq(PathChar)
    PROVE  skip_slashes(skip_slashes(p)) = skip_slashes(p)
  <1>. DEFINE q == skip_slashes(p)
  <1>1. q \in Seq(PathChar) /\ (q # <<>> => q[1] # Slash) /\ Len(q) \in Nat
    BY SkipFacts
  <1>. HIDE DEF q
  <1>. DEFINE I == {i \in 1..Len(q) : q[i] # Slash}
  <1>2. CASE q = <<>>
    <2>1. I = {}
      BY <1>2
    <2>2. skip_slashes(q) = <<>>
      BY <2>1 DEF skip_slashes, SelectInSeq
    <2>. QED
      BY <1>2, <2>2 DEF q
  <1>3. CASE q # <<>>
    <2>. DEFINE n == Min(I)
    <2>1. 1 \in I /\ I \subseteq Nat /\ \A i \in I : i >= 1
      BY <1>1, <1>3
    <2>2. n \in I /\ n <= 1
      BY <2>1, MinMember
    <2>3. n = 1
      <3>. HIDE DEF n
      <3>. QED
        BY <2>1, <2>2
    <2>. HIDE DEF n
    <2>4. skip_slashes(q) = SubSeq(q, 1, Len(q))
      <3>1. I # {}
        BY <2>1
      <3>2. skip_slashes(q) = IF n = 0 THEN <<>> ELSE SubSeq(q, n, Len(q))
        BY <3>1 DEF skip_slashes, SelectInSeq, n
      <3>. QED
        BY <2>3, <3>2
    <2>5. SubSeq(q, 1, Len(q)) = q
      BY <1>1
    <2>. QED
      BY <2>4, <2>5 DEF q
  <1>. QED
    BY <1>2, <1>3

\* A path that begins with another character has an element there, without slashes.
LEMMA ElementFacts ==
    ASSUME NEW q \in Seq(PathChar), q # <<>>, q[1] # Slash
    PROVE  /\ element(q) \in Seq(Letter) /\ element(q) # <<>>
           /\ Len(element(q)) \in 1..Len(q)
  <1>. DEFINE I == {i \in 1..Len(q) : q[i] = Slash}
  <1>0. Len(q) \in Nat /\ Len(q) >= 1 /\ \A i \in 1..Len(q) : q[i] # Slash => q[i] \in Letter
    <2>1. \A i \in 1..Len(q) : q[i] \in PathChar
      OBVIOUS
    <2>. QED
      BY <2>1 DEF PathChar
  <1>1. ASSUME NEW m \in 1..Len(q), \A i \in 1..m : q[i] # Slash
        PROVE  /\ SubSeq(q, 1, m) \in Seq(Letter) /\ SubSeq(q, 1, m) # <<>> /\ Len(SubSeq(q, 1, m)) = m
    <2>1. SubSeq(q, 1, m) = [i \in 1..m |-> q[i]]
      BY <1>0
    <2>2. \A i \in 1..m : q[i] \in Letter
      BY <1>0, <1>1
    <2>3. m \in Nat /\ [i \in 1..m |-> q[i]] \in [1..m -> Letter]
      BY <1>0, <2>2
    <2>4. SubSeq(q, 1, m) \in Seq(Letter) /\ Len(SubSeq(q, 1, m)) = m
      BY <2>1, <2>3
    <2>. QED
      BY <1>0, <2>4
  <1>2. CASE I = {}
    <2>1. element(q) = q
      BY <1>2 DEF element, SelectInSeq
    <2>2. SubSeq(q, 1, Len(q)) = q
      BY <1>0
    <2>3. Len(q) \in 1..Len(q) /\ \A i \in 1..Len(q) : q[i] # Slash
      BY <1>0, <1>2
    <2>. QED
      BY <1>1, <2>1, <2>2, <2>3
  <1>3. CASE I # {}
    <2>. DEFINE n == Min(I)
    <2>1. I \subseteq Nat
      BY <1>0
    <2>2. n \in I /\ \A j \in I : n <= j
      BY <1>3, <2>1, MinMember
    <2>. HIDE DEF n
    <2>3. n \in 1..Len(q) /\ n # 0 /\ n # 1 /\ n - 1 \in 1..Len(q)
      BY <1>0, <2>2
    <2>4. \A i \in 1..(n - 1) : q[i] # Slash
      BY <1>0, <2>2, <2>3
    <2>5. element(q) = SubSeq(q, 1, n - 1)
      BY <1>3, <2>3 DEF element, SelectInSeq, n
    <2>. QED
      BY <1>1, <2>3, <2>4, <2>5
  <1>. QED
    BY <1>2, <1>3

\* Paths that begin with an element, and the empty one.
Skipped == {q \in Seq(PathChar) : q # <<>> => q[1] # Slash}

LEMMA AfterFacts ==
    ASSUME NEW q \in Skipped
    PROVE  /\ after_element(q) \in Skipped /\ skip_slashes(after_element(q)) = after_element(q)
           /\ q # <<>> => Len(after_element(q)) < Len(q)
           /\ q = <<>> => after_element(q) = <<>>
  <1>. DEFINE e == element(q)  t == SubSeq(q, Len(e) + 1, Len(q))
  <1>0. q \in Seq(PathChar) /\ Len(q) \in Nat /\ (q # <<>> => q[1] # Slash)
    BY DEF Skipped
  <1>1. t \in Seq(PathChar) /\ (q # <<>> => Len(t) < Len(q)) /\ (q = <<>> => t = <<>>)
    <2>1. CASE q = <<>>
      <3>1. {i \in 1..Len(q) : q[i] = Slash} = {}
        BY <2>1
      <3>2. e = <<>>
        BY <2>1, <3>1 DEF element, SelectInSeq
      <3>3. t = <<>>
        BY <2>1, <3>2
      <3>. QED
        BY <2>1, <3>3
    <2>2. CASE q # <<>>
      <3>1. Len(e) \in 1..Len(q)
        BY <1>0, <2>2, ElementFacts
      <3>. DEFINE m == Len(e)
      <3>. HIDE DEF e
      <3>2. CASE m = Len(q)
        <4>1. t = <<>>
          BY <1>0, <3>1, <3>2
        <4>. QED
          BY <1>0, <2>2, <4>1
      <3>3. CASE m < Len(q)
        <4>1. m + 1 \in 1..Len(q)
          BY <1>0, <3>1, <3>3
        <4>2. t \in Seq(PathChar) /\ Len(t) = Len(q) - (m + 1) + 1
          BY <1>0, <4>1, FromPlace
        <4>. QED
          BY <1>0, <2>2, <3>1, <4>2
      <3>. QED
        BY <1>0, <3>1, <3>2, <3>3
    <2>. QED
      BY <2>1, <2>2
  <1>2. after_element(q) = skip_slashes(t)
    BY DEF after_element
  <1>. HIDE DEF t
  <1>3. after_element(q) \in Skipped /\ Len(after_element(q)) <= Len(t)
    BY <1>1, <1>2, SkipFacts DEF Skipped
  <1>4. skip_slashes(after_element(q)) = after_element(q)
    BY <1>1, <1>2, SkipAgain
  <1>5. q = <<>> => after_element(q) = <<>>
    <2>1. \A x \in Seq(PathChar) : Len(x) <= 0 => x = <<>>
      OBVIOUS
    <2>. QED
      BY <1>1, <1>3, <2>1 DEF Skipped
  <1>6. Len(after_element(q)) \in Nat /\ Len(t) \in Nat
    BY <1>1, <1>3 DEF Skipped
  <1>. QED
    BY <1>0, <1>1, <1>3, <1>4, <1>5, <1>6

\* The row of what is behind one element, two, ...
LEMMA BehindRow ==
    ASSUME path \in Seq(PathChar)
    PROVE  /\ \A k \in 0..Len(path) : Behind[k] \in Skipped /\ skip_slashes(Behind[k]) = Behind[k]
           /\ Behind[0] = skip_slashes(path)
           /\ \A k \in 1..Len(path) : Behind[k] = after_element(Behind[k - 1])
           /\ \A k \in 0..Len(path) : Behind[k] # <<>> => Len(Behind[k]) <= Len(path) - k /\ k < Len(path)
  <1>. DEFINE n == Len(path)
              F == [z \in Skipped \X (1..n) |-> after_element(z[1])]
              x == skip_slashes(path)
              Same(h) == h = [k \in 0..n |-> IF k = 0 THEN x ELSE after_element(h[k - 1])]
              f == CHOOSE h : Same(h)
  <1>0. n \in Nat /\ x \in Skipped /\ Len(x) <= n /\ Len(x) \in Nat /\ skip_slashes(x) = x
    BY SkipFacts, SkipAgain DEF Skipped
  <1>1. F \in [Skipped \X (1..n) -> Skipped]
    <2>1. \A z \in Skipped \X (1..n) : after_element(z[1]) \in Skipped
      BY AfterFacts
    <2>. QED
      BY <2>1
  <1>2. \A c \in Skipped, k \in 1..n : F[<<c, k>>] = after_element(c)
    OBVIOUS
  <1>3. Behind = f
    BY DEF Behind
  <1>. HIDE DEF F, n, x
  <1>4. PICK g \in [0..n -> Skipped] : Iterates(g, n, x, F)
    BY <1>0, <1>1, RowExists
  <1>5. Same(g)
    <2>1. ASSUME NEW k \in 0..n
          PROVE  g[k] = IF k = 0 THEN x ELSE after_element(g[k - 1])
      <3>1. CASE k = 0
        BY <1>4, <3>1 DEF Iterates
      <3>2. CASE k # 0
        <4>1. k \in 1..n /\ k - 1 \in 0..n
          BY <1>0, <3>2
        <4>2. g[k - 1] \in Skipped
          BY <4>1
        <4>3. g[k] = F[<<g[k - 1], k>>]
          BY <1>4, <3>2 DEF Iterates
        <4>. QED
          BY <1>2, <3>2, <4>1, <4>2, <4>3
      <3>. QED
        BY <3>1, <3>2
    <2>2. g = [k \in 0..n |-> g[k]]
      OBVIOUS
    <2>. QED
      BY <2>1, <2>2
  <1>6. Same(f)
    BY <1>5
  <1>. HIDE DEF f
  <1>7. 0 \in 0..n /\ \A k \in 1..n : k \in 0..n /\ k # 0
    BY <1>0
  <1>8. f[0] = x
    BY <1>6, <1>7
  <1>9. \A k \in 1..n : f[k] = after_element(f[k - 1])
    BY <1>6, <1>7
  <1>. DEFINE P == {k \in 0..n : /\ f[k] \in Skipped /\ skip_slashes(f[k]) = f[k]
                                 /\ f[k] # <<>> => Len(f[k]) <= n - k}
  <1>10. 0 \in P
    BY <1>0, <1>7, <1>8
  <1>11. ASSUME NEW l \in 0..(n - 1), l \in P PROVE l + 1 \in P
    <2>. DEFINE m == l + 1
    <2>1. m \in 1..n /\ m \in 0..n /\ m - 1 = l /\ l \in Nat
      BY <1>0
    <2>. HIDE DEF m
    <2>2. f[m] = after_element(f[l]) /\ f[l] \in Skipped /\ (f[l] # <<>> => Len(f[l]) <= n - l)
      BY <1>9, <1>11, <2>1
    <2>3. /\ f[m] \in Skipped /\ skip_slashes(f[m]) = f[m] /\ (f[l] # <<>> => Len(f[m]) < Len(f[l]))
          /\ (f[l] = <<>> => f[m] = <<>>)
      BY <2>2, AfterFacts
    <2>4. Len(f[m]) \in Nat /\ Len(f[l]) \in Nat
      BY <2>2, <2>3 DEF Skipped
    <2>5. f[m] # <<>> => Len(f[m]) <= n - m
      BY <1>0, <2>1, <2>2, <2>3, <2>4
    <2>. QED
      BY <2>1, <2>3, <2>5 DEF m
  <1>. HIDE DEF P
  <1>12. \A k \in 0..n : k \in P
    BY <1>0, <1>10, <1>11, UpTo
  <1>13. \A k \in 0..n : f[k] \in Skipped /\ skip_slashes(f[k]) = f[k]
    BY <1>12 DEF P
  <1>14. ASSUME NEW k \in 0..n, f[k] # <<>> PROVE Len(f[k]) <= n - k /\ k < n
    <2>1. Len(f[k]) <= n - k /\ f[k] \in Seq(PathChar)
      BY <1>12, <1>14 DEF P, Skipped
    <2>2. Len(f[k]) \in Nat /\ Len(f[k]) # 0
      BY <1>14, <2>1
    <2>. QED
      BY <1>0, <2>1, <2>2
  <1>. QED
    BY <1>3, <1>8, <1>9, <1>13, <1>14 DEF n, x

-----------------------------------------------------------------------------
(* Names in entries and in the array of skipelem.                          *)

\* The array holds a string and its end.
Carries(b, e) ==
    /\ b = [k \in 1..DIRSIZ |-> b[k]]
    /\ \A k \in 1..Len(e) : b[k] = e[k]
    /\ b[Len(e) + 1] = NUL

LEMMA PutCarries ==
    ASSUME NEW e \in Seq(Letter), Len(e) < DIRSIZ
    PROVE  Carries(put_name(e), e)
  <1>1. Len(e) \in Nat /\ DIRSIZ \in Nat /\ Len(e) + 1 \in 1..DIRSIZ
    BY LookupAssumption
  <1>2. put_name(e) = [k \in 1..DIRSIZ |-> IF k <= Len(e) THEN e[k]
                                           ELSE IF k = Len(e) + 1 THEN NUL ELSE name[k]]
    BY <1>1 DEF put_name
  <1>. DEFINE b == put_name(e)
  <1>. HIDE DEF b
  <1>3. b = [k \in 1..DIRSIZ |-> IF k <= Len(e) THEN e[k]
                                 ELSE IF k = Len(e) + 1 THEN NUL ELSE name[k]]
    BY <1>2 DEF b
  <1>4. b = [k \in 1..DIRSIZ |-> b[k]]
    BY <1>3
  <1>5. \A k \in 1..Len(e) : k \in 1..DIRSIZ /\ k <= Len(e)
    BY <1>1
  <1>6. \A k \in 1..Len(e) : b[k] = e[k]
    BY <1>3, <1>5
  <1>7. b[Len(e) + 1] = NUL
    BY <1>1, <1>3
  <1>. QED
    BY <1>4, <1>6, <1>7 DEF Carries, b

\* An entry matches the array exactly when they have the same name.
LEMMA MatchExact ==
    ASSUME NEW n \in Seq(Letter), Len(n) < DIRSIZ, NEW e \in Seq(Letter), Len(e) < DIRSIZ,
           NEW b, Carries(b, e)
    PROVE  match(dir_name(n), b) <=> n = e
  <1>0. /\ Len(n) \in Nat /\ Len(e) \in Nat /\ DIRSIZ \in Nat
        /\ Len(n) + 1 \in 1..DIRSIZ /\ Len(e) + 1 \in 1..DIRSIZ
    BY LookupAssumption
  <1>. DEFINE a == dir_name(n)
  <1>1. a = [k \in 1..DIRSIZ |-> IF k <= Len(n) THEN n[k] ELSE NUL]
    BY DEF dir_name
  <1>. HIDE DEF a
  <1>2. /\ \A k \in 1..Len(n) : a[k] = n[k] /\ n[k] # NUL
        /\ a[Len(n) + 1] = NUL
    <2>1. \A k \in 1..Len(n) : k \in 1..DIRSIZ /\ k <= Len(n) /\ n[k] \in Letter
      BY <1>0
    <2>. QED
      BY <1>0, <1>1, <2>1, LookupAssumption
  <1>3. /\ \A k \in 1..Len(e) : b[k] = e[k] /\ e[k] # NUL
        /\ b[Len(e) + 1] = NUL
    <2>1. \A k \in 1..Len(e) : e[k] \in Letter
      OBVIOUS
    <2>. QED
      BY <2>1, LookupAssumption DEF Carries
  <1>4. ASSUME n = e, NEW k \in 1..DIRSIZ, \A j \in 1..(k - 1) : b[j] # NUL PROVE a[k] = b[k]
    <2>1. k <= Len(e) + 1
      <3>. SUFFICES ASSUME Len(e) + 1 < k PROVE FALSE
        BY <1>0
      <3>1. Len(e) + 1 \in 1..(k - 1)
        BY <1>0
      <3>. QED
        BY <1>3, <1>4, <3>1
    <2>2. CASE k \in 1..Len(e)
      BY <1>2, <1>3, <1>4, <2>2
    <2>3. CASE k = Len(e) + 1
      BY <1>2, <1>3, <1>4, <2>3
    <2>. QED
      BY <1>0, <2>1, <2>2, <2>3
  <1>5. ASSUME match(a, b) PROVE n = e
    <2>1. ASSUME NEW k \in 1..(Len(e) + 1) PROVE a[k] = b[k]
      <3>1. k \in 1..DIRSIZ /\ \A j \in 1..(k - 1) : j \in 1..Len(e)
        BY <1>0
      <3>2. \A j \in 1..(k - 1) : b[j] # NUL
        BY <1>3, <3>1
      <3>. QED
        BY <1>5, <3>1, <3>2 DEF match
    <2>2. ~(Len(n) < Len(e))
      <3>. SUFFICES ASSUME Len(n) < Len(e) PROVE FALSE
        OBVIOUS
      <3>. DEFINE k == Len(n) + 1
      <3>1. k \in 1..(Len(e) + 1) /\ k \in 1..Len(e)
        BY <1>0
      <3>2. a[k] = NUL
        BY <1>2
      <3>. HIDE DEF k
      <3>3. a[k] = b[k] /\ b[k] = e[k] /\ e[k] # NUL
        BY <1>3, <2>1, <3>1
      <3>. QED
        BY <3>2, <3>3
    <2>3. ~(Len(e) < Len(n))
      <3>. SUFFICES ASSUME Len(e) < Len(n) PROVE FALSE
        OBVIOUS
      <3>. DEFINE k == Len(e) + 1
      <3>1. k \in 1..(Len(e) + 1) /\ k \in 1..Len(n)
        BY <1>0
      <3>2. b[k] = NUL
        BY <1>3
      <3>. HIDE DEF k
      <3>3. a[k] = b[k] /\ a[k] = n[k] /\ n[k] # NUL
        BY <1>2, <2>1, <3>1
      <3>. QED
        BY <3>2, <3>3
    <2>4. Len(n) = Len(e)
      BY <1>0, <2>2, <2>3
    <2>5. ASSUME NEW k \in 1..Len(n) PROVE n[k] = e[k]
      <3>1. k \in 1..Len(e) /\ k \in 1..(Len(e) + 1)
        BY <1>0, <2>4
      <3>. QED
        BY <1>2, <1>3, <2>1, <3>1
    <2>. QED
      BY <2>4, <2>5, SeqEqual
  <1>6. match(a, b) <=> n = e
    BY <1>4, <1>5 DEF match
  <1>. QED
    BY <1>6 DEF a

LEMMA StringOf ==
    ASSUME NEW e \in Seq(Letter), Len(e) < DIRSIZ, NEW b, Carries(b, e)
    PROVE  StringIn(b) = e
  <1>. DEFINE I == {i \in 1..Len(b) : b[i] = NUL}  n == Min(I)  m == Len(e)
              T == {b[k] : k \in 1..DIRSIZ}
  <1>0. m \in Nat /\ DIRSIZ \in Nat /\ m + 1 \in 1..DIRSIZ
    BY LookupAssumption
  <1>1. b \in Seq(T) /\ Len(b) = DIRSIZ
    <2>1. b \in [1..DIRSIZ -> T]
      BY DEF Carries
    <2>. HIDE DEF T
    <2>. QED
      BY <1>0, <2>1
  <1>. HIDE DEF T
  <1>2. /\ \A k \in 1..m : b[k] = e[k] /\ b[k] # NUL
        /\ b[m + 1] = NUL
    <2>1. \A k \in 1..m : e[k] \in Letter
      OBVIOUS
    <2>. QED
      BY <2>1, LookupAssumption DEF Carries
  <1>3. m + 1 \in I /\ I \subseteq Nat /\ \A i \in I : i >= m + 1
    <2>1. m + 1 \in I /\ I \subseteq Nat
      BY <1>0, <1>1, <1>2
    <2>2. ASSUME NEW i \in I PROVE i >= m + 1
      <3>1. i \in 1..m \/ i >= m + 1
        BY <1>0, <1>1
      <3>. QED
        BY <1>2, <3>1
    <2>. QED
      BY <2>1, <2>2
  <1>4. n = m + 1
    <2>1. n \in I /\ \A j \in I : n <= j
      BY <1>3, MinMember
    <2>. HIDE DEF n
    <2>2. n \in Nat /\ n <= m + 1 /\ n >= m + 1
      BY <1>3, <2>1
    <2>. QED
      BY <1>0, <2>2
  <1>5. StringIn(b) = SubSeq(b, 1, m)
    <2>1. I # {} /\ n # 0 /\ n - 1 = m
      BY <1>0, <1>3, <1>4
    <2>2. StringIn(b) = IF n = 0 THEN b ELSE SubSeq(b, 1, n - 1)
      BY <2>1 DEF StringIn, SelectInSeq
    <2>. HIDE DEF n
    <2>. QED
      BY <2>1, <2>2
  <1>6. SubSeq(b, 1, m) = [i \in 1..m |-> b[i]]
    BY <1>0, <1>1
  <1>7. e = [i \in 1..m |-> e[i]]
    OBVIOUS
  <1>. QED
    BY <1>2, <1>5, <1>6, <1>7

-----------------------------------------------------------------------------
(* A path is walked.                                                       *)

\* Element k of the path, counted from 0.
Elem(k) == element(Behind[k])
Has_elem(k) == k \in 0..Len(path) /\ Behind[k] # <<>>

\* How many elements lead to an inode.
Depth(i) == IF i = RootInode THEN 0 ELSE IF i = DirFile THEN 2 ELSE 1

\* The elements up to now are the host's names of curr_inum.
Reached(i) ==
    /\ i # RootInode => Has_elem(0)
    /\ i = DirInode => Elem(0) = names[DirInode]
    /\ i = RootFile => Elem(0) = names[RootFile]
    /\ i = DirFile => Elem(0) = names[DirInode] /\ Has_elem(1) /\ Elem(1) = names[DirFile]

NoPath == [inum |-> Failed, type |-> "none"]

Inodes == {RootInode, DirInode, RootFile, DirFile}

Short ==
    /\ \A k \in DOMAIN names : Len(names[k]) < DIRSIZ
    /\ \A k \in DOMAIN Elements : Len(Elements[k]) < DIRSIZ

\* The host's names, and the path.
HostInv ==
    /\ names \in [{DirInode, RootFile, DirFile} -> Names] /\ names[DirInode] # names[RootFile]
    /\ path \in Paths

\* Between two elements: the path has been followed so far.
AtElement ==
    /\ curr_inum \in Inodes /\ Reached(curr_inum)
    /\ Depth(curr_inum) \in 0..Len(path)
    /\ skip_slashes(rest) = Behind[Depth(curr_inum)]
    /\ is_device <=> curr_inum # RootInode /\ Elem(0) = Device
    /\ result = NoPath

\* Between two entries: those passed are not of this name.
AtEntry ==
    /\ curr_inum \in {RootInode, DirInode} /\ Reached(curr_inum)
    /\ Has_elem(Depth(curr_inum))
    /\ rest = Behind[Depth(curr_inum) + 1]
    /\ Carries(name, Elem(Depth(curr_inum)))
    /\ is_device <=> Elem(0) = Device
    /\ off \in 0..Len(Entries(curr_inum))
    /\ curr_inum = RootInode /\ off >= 1 => Elem(0) # names[DirInode]
    /\ curr_inum = RootInode /\ off >= 2 => Elem(0) # names[RootFile]
    /\ curr_inum = DirInode /\ off >= 1 => Elem(1) # names[DirFile]
    /\ result = NoPath

\* At the end: what the path names.
Answer ==
    /\ result.inum = OnHost(Elements)
    /\ result.type = CASE OnHost(Elements) = Failed -> "none"
                       [] IsDir(OnHost(Elements)) -> "dir"
                       [] OnHost(Elements) = DirFile /\ Elements[1] = Device -> "device"
                       [] OnHost(Elements) = RootFile /\ Elements[1] = Device -> "device"
                       [] OTHER -> "normal"

WalkInv ==
    /\ HostInv
    /\ walk_pc = "elem" /\ Short => AtElement
    /\ walk_pc = "scan" /\ Short => AtEntry
    /\ walk_pc = "done" /\ Short => Answer

LEMMA PathType == HostInv => path \in Seq(PathChar)
  BY LookupAssumption DEF HostInv, PathChar

LEMMA NameType == HostInv => \A i \in {DirInode, RootFile, DirFile} : names[i] \in Seq(Letter) /\ names[i] # <<>>
  BY LookupAssumption DEF HostInv

\* An element of the path, and those before it.
LEMMA ElemFacts ==
    ASSUME HostInv, NEW k, Has_elem(k)
    PROVE  /\ Elem(k) \in Seq(Letter) /\ Elem(k) # <<>>
           /\ k \in Nat /\ k + 1 \in 1..Len(path) /\ k + 1 \in DOMAIN Elements /\ Elements[k + 1] = Elem(k)
           /\ Behind[k + 1] = after_element(Behind[k])
           /\ Short => Len(Elem(k)) < DIRSIZ
  <1>0. path \in Seq(PathChar) /\ Len(path) \in Nat
    BY PathType
  <1>1. k \in 0..Len(path) /\ Behind[k] # <<>>
    BY DEF Has_elem
  <1>2. k < Len(path) /\ Behind[k] \in Skipped
    BY <1>0, <1>1, BehindRow
  <1>3. k + 1 \in 1..Len(path) /\ k + 1 - 1 = k /\ k \in Nat
    BY <1>0, <1>1, <1>2
  <1>4. Elem(k) \in Seq(Letter) /\ Elem(k) # <<>>
    BY <1>1, <1>2, ElementFacts DEF Elem, Skipped
  <1>. DEFINE m == k + 1
  <1>5. m - 1 = k /\ m \in 1..Len(path)
    BY <1>3
  <1>. HIDE DEF m
  <1>6. m \in DOMAIN Elements /\ Elements[m] = Elem(k)
    BY <1>1, <1>5 DEF Elements, Elem
  <1>7. Behind[m] = after_element(Behind[k])
    BY <1>0, <1>5, BehindRow
  <1>8. Short => Len(Elem(k)) < DIRSIZ
    BY <1>6 DEF Short
  <1>. QED
    BY <1>3, <1>4, <1>5, <1>6, <1>7, <1>8 DEF m

\* Behind the last element there is none.
LEMMA ElementsEnd ==
    ASSUME HostInv, NEW d \in 0..Len(path), Behind[d] = <<>>
    PROVE  \A j \in DOMAIN Elements : j \in 1..d
  <1>0. path \in Seq(PathChar) /\ Len(path) \in Nat
    BY PathType
  <1>. DEFINE n == Len(path) - d  P == {k \in 0..n : Behind[d + k] = <<>>}
  <1>1. n \in Nat /\ d \in Nat
    BY <1>0
  <1>2. 0 \in P
    BY <1>0, <1>1
  <1>3. ASSUME NEW i \in 0..(n - 1), i \in P PROVE i + 1 \in P
    <2>. DEFINE x == d + i  y == d + (i + 1)
    <2>1. y \in 1..Len(path) /\ y - 1 = x /\ x \in 0..Len(path)
      BY <1>0, <1>1
    <2>2. Behind[x] = <<>>
      BY <1>3
    <2>. HIDE DEF x, y
    <2>3. Behind[y] = after_element(Behind[x]) /\ Behind[x] \in Skipped
      BY <1>0, <2>1, BehindRow
    <2>4. Behind[y] = <<>>
      BY <2>2, <2>3, AfterFacts
    <2>5. i + 1 \in 0..n
      BY <1>1
    <2>. QED
      BY <2>4, <2>5 DEF y
  <1>. HIDE DEF P
  <1>4. \A k \in 0..n : k \in P
    BY <1>1, <1>2, <1>3, UpTo
  <1>5. ASSUME NEW j \in 1..Len(path), Behind[j - 1] # <<>> PROVE j \in 1..d
    <2>. SUFFICES ASSUME j > d PROVE FALSE
      BY <1>0
    <2>. DEFINE k == j - 1 - d
    <2>1. k \in 0..n /\ d + k = j - 1
      BY <1>0
    <2>2. k \in P
      BY <1>4, <2>1
    <2>. HIDE DEF k
    <2>. QED
      BY <1>5, <2>1, <2>2 DEF P
  <1>. QED
    BY <1>5 DEF Elements

LEMMA LookupStarts == LookupInit => WalkInv
  <1>. SUFFICES ASSUME LookupInit PROVE WalkInv
    OBVIOUS
  <1>1. HostInv
    BY DEF LookupInit, LookupStart, HostInv
  <1>2. /\ walk_pc = "elem" /\ curr_inum = RootInode /\ rest = path /\ is_device = FALSE
        /\ result = NoPath
    BY DEF LookupInit, LookupStart, NoPath
  <1>3. Len(path) \in Nat /\ Behind[0] = skip_slashes(path)
    BY <1>1, PathType, BehindRow
  <1>4. AtElement
    BY <1>2, <1>3 DEF AtElement, Inodes, Reached, Depth, RootInode, DirInode, RootFile, DirFile
  <1>. QED
    BY <1>1, <1>2, <1>4 DEF WalkInv

\* Names, path and all that is said of them alone stay.
LEMMA HostSame ==
    ASSUME names' = names, path' = path
    PROVE  /\ HostInv' = HostInv /\ Behind' = Behind /\ Elements' = Elements /\ Short' = Short
           /\ OnHost(Elements)' = OnHost(Elements)
           /\ \A k : Elem(k)' = Elem(k) /\ Has_elem(k)' = Has_elem(k)
           /\ \A i : Reached(i)' = Reached(i) /\ Entries(i)' = Entries(i)
  <1>1. Behind' = Behind
    BY DEF Behind
  <1>2. Elements' = Elements
    BY <1>1 DEF Elements
  <1>3. Short' = Short
    BY <1>2 DEF Short
  <1>4. OnHost(Elements)' = OnHost(Elements)
    BY <1>2 DEF OnHost
  <1>5. \A k : Elem(k)' = Elem(k) /\ Has_elem(k)' = Has_elem(k)
    BY <1>1 DEF Elem, Has_elem
  <1>6. \A i : Reached(i)' = Reached(i) /\ Entries(i)' = Entries(i)
    BY <1>5 DEF Reached, Entries
  <1>. QED
    BY <1>1, <1>2, <1>3, <1>4, <1>5, <1>6 DEF HostInv

\* A host's file is found by its elements.
LEMMA Found ==
    ASSUME HostInv, NEW i \in Inodes, Reached(i), Depth(i) \in 0..Len(path), Behind[Depth(i)] = <<>>
    PROVE  OnHost(Elements) = i /\ (i # RootInode => Elements[1] = Elem(0))
  <1>. DEFINE d == Depth(i)  x == names[DirInode]  y == names[RootFile]  z == names[DirFile]
              es == Elements
  <1>0. /\ x # y /\ RootInode = 1 /\ DirInode = 2 /\ RootFile = 3 /\ DirFile = 4
        /\ d \in Nat /\ i \in {1, 2, 3, 4}
    BY DEF HostInv, RootInode, DirInode, RootFile, DirFile, Depth, Inodes
  <1>1. \A k \in 0..(d - 1) : Has_elem(k) /\ k + 1 \in DOMAIN es /\ es[k + 1] = Elem(k) /\ Elem(k) \in Seq(Letter)
    <2>1. \A k \in 0..(d - 1) : Has_elem(k)
      <3>1. CASE i = 1
        BY <1>0, <3>1 DEF Depth
      <3>2. CASE i \in {2, 3}
        <4>1. d = 1 /\ Has_elem(0)
          BY <1>0, <3>2 DEF Depth, Reached
        <4>2. \A k \in 0..0 : k = 0
          OBVIOUS
        <4>. QED
          BY <4>1, <4>2
      <3>3. CASE i = 4
        <4>1. d = 2 /\ Has_elem(0) /\ Has_elem(1)
          BY <1>0, <3>3 DEF Depth, Reached
        <4>2. \A k \in 0..1 : k = 0 \/ k = 1
          OBVIOUS
        <4>. QED
          BY <4>1, <4>2
      <3>. QED
        BY <1>0, <3>1, <3>2, <3>3
    <2>. QED
      BY <2>1, ElemFacts
  <1>2. \A j \in DOMAIN es : j \in 1..d
    BY ElementsEnd
  <1>3. \A j \in 1..d : j \in DOMAIN es /\ es[j] \in Seq(Letter)
    <2>. SUFFICES ASSUME NEW j \in 1..d PROVE j \in DOMAIN es /\ es[j] \in Seq(Letter)
      OBVIOUS
    <2>. DEFINE k == j - 1
    <2>1. k \in 0..(d - 1) /\ k + 1 = j
      BY <1>0
    <2>. HIDE DEF k
    <2>. QED
      BY <1>1, <2>1
  <1>4. es \in Seq(Seq(Letter)) /\ Len(es) = d
    <2>. DEFINE S == Seq(Letter)
    <2>1. DOMAIN es = 1..d
      BY <1>2, <1>3
    <2>2. es = [j \in DOMAIN es |-> es[j]]
      BY DEF Elements
    <2>3. \A j \in 1..d : es[j] \in S
      BY <1>3
    <2>. HIDE DEF es, S
    <2>4. es \in [1..d -> S]
      BY <2>1, <2>2, <2>3
    <2>. HIDE DEF d
    <2>5. es \in Seq(S) /\ Len(es) = d
      BY <1>0, <2>4
    <2>. QED
      BY <2>5 DEF S
  <1>. HIDE DEF es, x, y, z, d
  <1>5. OnHost(es) = CASE es = <<>> -> 1 [] es = <<x>> -> 2 [] es = <<y>> -> 3 [] es = <<x, z>> -> 4
                       [] OTHER -> Failed
    BY <1>0 DEF OnHost, x, y, z
  <1>6. <<x>> # <<>> /\ <<y>> # <<>> /\ <<x, z>> # <<>> /\ <<x>> # <<y>> /\ <<x>> # <<x, z>> /\ <<y>> # <<x, z>>
    BY <1>0
  <1>7. CASE i = 1
    <2>1. d = 0
      BY <1>0, <1>7 DEF d, Depth
    <2>2. es = <<>>
      BY <1>4, <2>1
    <2>3. OnHost(es) = 1
      BY <1>5, <1>6, <2>2
    <2>. QED
      BY <1>0, <1>7, <2>3 DEF es
  <1>8. CASE i \in {2, 3}
    <2>1. d = 1 /\ 0 \in 0..(d - 1)
      BY <1>0, <1>8 DEF d, Depth
    <2>2. es[1] = Elem(0) /\ (i = 2 => es[1] = x) /\ (i = 3 => es[1] = y)
      <3>1. es[0 + 1] = Elem(0) /\ 0 + 1 = 1
        BY <1>1, <2>1
      <3>. QED
        BY <1>0, <3>1 DEF Reached, x, y
    <2>3. es = <<es[1]>>
      BY <1>4, <2>1
    <2>4. OnHost(es) = i
      BY <1>5, <1>6, <1>8, <2>2, <2>3
    <2>. QED
      BY <2>2, <2>4 DEF es
  <1>9. CASE i = 4
    <2>1. d = 2 /\ 0 \in 0..(d - 1) /\ 1 \in 0..(d - 1)
      BY <1>0, <1>9 DEF d, Depth
    <2>2. es[1] = Elem(0) /\ es[1] = x /\ es[2] = z
      <3>1. es[0 + 1] = Elem(0) /\ 0 + 1 = 1 /\ es[1 + 1] = Elem(1) /\ 1 + 1 = 2
        BY <1>1, <2>1
      <3>. QED
        BY <1>0, <1>9, <3>1 DEF Reached, x, z
    <2>3. es = <<es[1], es[2]>>
      BY <1>4, <2>1
    <2>4. OnHost(es) = i
      BY <1>5, <1>6, <1>9, <2>2, <2>3
    <2>. QED
      BY <2>2, <2>4 DEF es
  <1>. QED
    BY <1>0, <1>7, <1>8, <1>9

\* Elements that differ from those of every file lead nowhere.
LEMMA Missing ==
    ASSUME HostInv, Elements # <<>>, Elements # <<names[DirInode]>>, Elements # <<names[RootFile]>>,
           Elements # <<names[DirInode], names[DirFile]>>, result = NoPath
    PROVE  Answer
  <1>1. OnHost(Elements) = Failed
    BY DEF OnHost
  <1>. QED
    BY <1>1 DEF Answer, NoPath, Failed, IsDir, RootInode, DirInode, RootFile, DirFile

LEMMA Opens ==
    ASSUME WalkInv, opens
    PROVE  WalkInv'
  <1>0. /\ walk_pc = "elem" /\ skip_slashes(rest) = <<>> /\ walk_pc' = "done" /\ names' = names /\ path' = path
        /\ result' = [inum |-> curr_inum, type |-> file_type(curr_inum)]
    BY DEF opens
  <1>1. HostInv
    BY DEF WalkInv
  <1>2. ASSUME Short PROVE Answer'
    <2>1. AtElement
      BY <1>0, <1>2 DEF WalkInv
    <2>2. OnHost(Elements) = curr_inum /\ (curr_inum # RootInode => Elements[1] = Elem(0))
      BY <1>0, <1>1, <2>1, Found DEF AtElement
    <2>3. curr_inum \in Inodes /\ (is_device <=> curr_inum # RootInode /\ Elem(0) = Device)
      BY <2>1 DEF AtElement
    <2>4. OnHost(Elements)' = curr_inum /\ Elements' = Elements
      BY <1>0, <2>2, HostSame
    <2>5. file_type(curr_inum) = CASE curr_inum = Failed -> "none"
                       [] IsDir(curr_inum) -> "dir"
                       [] curr_inum = DirFile /\ Elements[1] = Device -> "device"
                       [] curr_inum = RootFile /\ Elements[1] = Device -> "device"
                       [] OTHER -> "normal"
      <3>1. CASE curr_inum \in {RootInode, DirInode}
        BY <3>1 DEF file_type, IsDir, Failed, RootInode, DirInode, RootFile, DirFile
      <3>2. CASE curr_inum \in {RootFile, DirFile}
        <4>1. is_device <=> Elements[1] = Device
          BY <2>2, <2>3, <3>2 DEF RootInode, RootFile, DirFile
        <4>. QED
          BY <3>2, <4>1 DEF file_type, IsDir, Failed, RootInode, DirInode, RootFile, DirFile
      <3>. QED
        BY <2>3, <3>1, <3>2 DEF Inodes
    <2>. QED
      BY <1>0, <2>4, <2>5 DEF Answer, IsDir
  <1>. QED
    BY <1>0, <1>1, <1>2, HostSame DEF WalkInv

LEMMA NextElement ==
    ASSUME WalkInv, next_element
    PROVE  WalkInv'
  <1>. DEFINE d == Depth(curr_inum)  e == Elem(d)
  <1>0. /\ walk_pc = "elem" /\ skip_slashes(rest) # <<>> /\ rest' = after_element(skip_slashes(rest))
        /\ name' = put_name(element(skip_slashes(rest))) /\ names' = names /\ path' = path
        /\ curr_inum' = curr_inum /\ result' = result
    BY DEF next_element, fails
  <1>1. HostInv
    BY DEF WalkInv
  <1>2. ASSUME Short PROVE (walk_pc' = "scan" => AtEntry') /\ (walk_pc' = "done" => Answer')
    <2>1. /\ curr_inum \in Inodes /\ Reached(curr_inum) /\ d \in 0..Len(path)
          /\ skip_slashes(rest) = Behind[d] /\ result = NoPath
          /\ is_device <=> curr_inum # RootInode /\ Elem(0) = Device
      BY <1>0, <1>2 DEF WalkInv, AtElement
    <2>2. Has_elem(d)
      BY <1>0, <2>1 DEF Has_elem
    <2>3. /\ e \in Seq(Letter) /\ e # <<>> /\ Behind[d + 1] = after_element(Behind[d]) /\ Len(e) < DIRSIZ
          /\ d + 1 \in DOMAIN Elements /\ Elements[d + 1] = e
      BY <1>1, <1>2, <2>2, ElemFacts
    <2>4. rest' = Behind[d + 1] /\ name' = put_name(e)
      BY <1>0, <2>1, <2>3 DEF Elem
    <2>5. Carries(put_name(e), e)
      BY <2>3, PutCarries
    <2>6. CASE IsDir(curr_inum)
      <3>1. /\ walk_pc' = "scan" /\ off' = 0
            /\ is_device' = (is_device \/ enters_device(name'))
        BY <2>6 DEF next_element
      <3>2. StringIn(name') = e
        BY <2>3, <2>4, <2>5, StringOf
      <3>3. is_device' <=> Elem(0) = Device
        <4>1. CASE curr_inum = RootInode
          BY <2>1, <3>1, <3>2, <4>1 DEF enters_device, Depth
        <4>2. CASE curr_inum # RootInode
          BY <2>1, <3>1, <4>2 DEF enters_device
        <4>. QED
          BY <4>1, <4>2
      <3>4. curr_inum \in {RootInode, DirInode}
        BY <2>6 DEF IsDir
      <3>5. Carries(name, Elem(Depth(curr_inum)))'
        <4>1. Elem(Depth(curr_inum))' = e
          BY <1>0, HostSame DEF Depth, Elem
        <4>. QED
          BY <2>4, <2>5, <4>1 DEF Carries
      <3>6. Has_elem(Depth(curr_inum))' /\ Reached(curr_inum)' /\ rest' = (Behind[Depth(curr_inum) + 1])'
        <4>1. Depth(curr_inum)' = d
          BY <1>0 DEF Depth
        <4>2. Has_elem(Depth(curr_inum))'
          BY <1>0, <2>2, <4>1, HostSame DEF Has_elem
        <4>3. Reached(curr_inum)'
          BY <1>0, <2>1, HostSame DEF Reached, Elem, Has_elem
        <4>. QED
          BY <1>0, <2>4, <4>1, <4>2, <4>3, HostSame
      <3>7. 0 \in 0..Len(Entries(curr_inum))'
        <4>1. Len(Entries(curr_inum))' \in Nat
          BY DEF Entries
        <4>. QED
          BY <4>1
      <3>8. Elem(0)' = Elem(0)
        BY <1>0, HostSame
      <3>9. AtEntry'
        BY <1>0, <2>1, <3>1, <3>3, <3>4, <3>5, <3>6, <3>7, <3>8 DEF AtEntry, NoPath
      <3>. QED
        BY <3>1, <3>9
    <2>7. CASE ~IsDir(curr_inum)
      <3>1. walk_pc' = "done"
        BY <2>7 DEF next_element, fails
      <3>. DEFINE x == names[DirInode]  y == names[RootFile]  z == names[DirFile]  es == Elements
      <3>2. d + 1 \in {2, 3} /\ Elements[1] = Elem(0) /\ (d = 1 => Elem(0) = y)
        <4>1. curr_inum \in {RootFile, DirFile}
          BY <2>1, <2>7 DEF IsDir, Inodes
        <4>2. Has_elem(0)
          BY <2>1, <4>1 DEF Reached, RootInode, RootFile, DirFile
        <4>3. Elements[0 + 1] = Elem(0)
          BY <1>1, <4>2, ElemFacts
        <4>. QED
          BY <2>1, <4>1, <4>3 DEF Depth, Reached, RootInode, RootFile, DirFile
      <3>3. x # y
        BY <1>1 DEF HostInv
      <3>. HIDE DEF es, x, y, z, d
      <3>4. d + 1 \in DOMAIN es /\ es[1] = Elem(0)
        BY <2>3, <3>2 DEF es
      <3>5. es # <<>> /\ es # <<x>> /\ es # <<y>> /\ es # <<x, z>>
        <4>1. DOMAIN <<>> = {} /\ DOMAIN <<x>> = {1} /\ DOMAIN <<y>> = {1} /\ DOMAIN <<x, z>> = {1, 2}
          OBVIOUS
        <4>2. es = <<x, z>> => es[1] = x
          OBVIOUS
        <4>3. d \in Int
          BY <2>1
        <4>. QED
          BY <3>2, <3>3, <3>4, <4>1, <4>2, <4>3
      <3>6. Answer
        BY <1>1, <2>1, <3>5, Missing DEF es, x, y, z
      <3>7. Answer'
        BY <1>0, <3>6, HostSame DEF Answer, IsDir
      <3>. QED
        BY <3>1, <3>7
    <2>. QED
      BY <2>6, <2>7
  <1>3. walk_pc' # "elem"
    BY DEF next_element, fails
  <1>. QED
    BY <1>0, <1>1, <1>2, <1>3, HostSame DEF WalkInv

\* The entries of the two directories.
LEMMA EntryFacts ==
    /\ Len(Entries(RootInode)) = 2 /\ Len(Entries(DirInode)) = 1
    /\ Entries(RootInode)[1] = [inum |-> DirInode, name |-> dir_name(names[DirInode])]
    /\ Entries(RootInode)[2] = [inum |-> RootFile, name |-> dir_name(names[RootFile])]
    /\ Entries(DirInode)[1] = [inum |-> DirFile, name |-> dir_name(names[DirFile])]
  BY DEF Entries, RootInode, DirInode

LEMMA ScanEntry ==
    ASSUME WalkInv, scan_entry
    PROVE  WalkInv'
  <1>. DEFINE d == Depth(curr_inum)  e == Elem(d)  de == Entries(curr_inum)[off + 1]
  <1>0. /\ walk_pc = "scan" /\ off < Len(Entries(curr_inum)) /\ UNCHANGED <<names, path, rest, name, is_device, result>>
        /\ IF match(de.name, name) THEN curr_inum' = de.inum /\ walk_pc' = "elem" /\ off' = off
           ELSE off' = off + 1 /\ curr_inum' = curr_inum /\ walk_pc' = walk_pc
    BY DEF scan_entry
  <1>1. HostInv
    BY DEF WalkInv
  <1>2. ASSUME Short PROVE (walk_pc' = "scan" => AtEntry') /\ (walk_pc' = "elem" => AtElement')
    <2>1. /\ curr_inum \in {RootInode, DirInode} /\ Reached(curr_inum) /\ Has_elem(d)
          /\ rest = Behind[d + 1] /\ Carries(name, e) /\ (is_device <=> Elem(0) = Device)
          /\ off \in 0..Len(Entries(curr_inum)) /\ result = NoPath
          /\ curr_inum = RootInode /\ off >= 1 => Elem(0) # names[DirInode]
          /\ curr_inum = RootInode /\ off >= 2 => Elem(0) # names[RootFile]
          /\ curr_inum = DirInode /\ off >= 1 => Elem(1) # names[DirFile]
      BY <1>0, <1>2 DEF WalkInv, AtEntry
    <2>2. e \in Seq(Letter) /\ Len(e) < DIRSIZ /\ d + 1 \in 0..Len(path)
      <3>1. d + 1 \in 1..Len(path) /\ Len(path) \in Nat
        BY <1>1, <2>1, ElemFacts, PathType
      <3>. QED
        BY <1>1, <1>2, <2>1, <3>1, ElemFacts
    <2>. PICK c : c = IF curr_inum = DirInode THEN DirFile ELSE IF off = 0 THEN DirInode ELSE RootFile
      OBVIOUS
    <2>3. /\ de = [inum |-> c, name |-> dir_name(names[c])] /\ c \in {DirInode, RootFile, DirFile}
          /\ (curr_inum = RootInode => off \in {0, 1}) /\ (curr_inum = DirInode => off = 0)
      <3>1. CASE curr_inum = RootInode
        <4>1. off \in {0, 1}
          BY <1>0, <2>1, <3>1, EntryFacts
        <4>. QED
          BY <3>1, <4>1, EntryFacts DEF RootInode, DirInode
      <3>2. CASE curr_inum = DirInode
        <4>1. off = 0
          BY <1>0, <2>1, <3>2, EntryFacts
        <4>. QED
          BY <3>2, <4>1, EntryFacts DEF RootInode, DirInode
      <3>. QED
        BY <2>1, <3>1, <3>2
    <2>4. names[c] \in Seq(Letter) /\ Len(names[c]) < DIRSIZ
      <3>1. c \in DOMAIN names
        BY <1>1, <2>3 DEF HostInv
      <3>. QED
        BY <1>1, <1>2, <2>3, <3>1, NameType DEF Short
    <2>5. match(de.name, name) <=> names[c] = e
      <3>1. de.name = dir_name(names[c])
        BY <2>3
      <3>2. Carries(name, e) /\ e \in Seq(Letter) /\ Len(e) < DIRSIZ
        BY <2>1, <2>2
      <3>. HIDE DEF de, e, d
      <3>3. match(dir_name(names[c]), name) <=> names[c] = e
        BY <2>4, <3>2, MatchExact
      <3>. QED
        BY <3>1, <3>3
    <2>6. CASE names[c] = e
      <3>1. curr_inum' = c /\ walk_pc' = "elem"
        BY <1>0, <2>3, <2>5, <2>6
      <3>2. Depth(c) = d + 1 /\ c # RootInode /\ c \in Inodes
        BY <2>1, <2>3 DEF Depth, Inodes, RootInode, DirInode, RootFile, DirFile
      <3>3. Reached(c)
        BY <2>1, <2>3, <2>6 DEF Reached, Depth, RootInode, DirInode, RootFile, DirFile
      <3>4. skip_slashes(rest) = Behind[d + 1]
        BY <1>1, <2>1, <2>2, PathType, BehindRow
      <3>5. Reached(c)' /\ Depth(c)' = d + 1 /\ Behind' = Behind /\ Elem(0)' = Elem(0)
        BY <1>0, <3>2, <3>3, HostSame DEF Depth
      <3>. HIDE DEF d
      <3>6. Reached(curr_inum)' /\ Depth(curr_inum)' = d + 1
        BY <3>1, <3>2, <3>5 DEF Reached, Depth
      <3>7. skip_slashes(rest)' = (Behind[Depth(curr_inum)])'
        BY <1>0, <3>4, <3>5, <3>6
      <3>8. AtElement'
        BY <1>0, <2>1, <2>2, <3>1, <3>2, <3>5, <3>6, <3>7 DEF AtElement, NoPath, Inodes
      <3>. QED
        BY <3>1, <3>8
    <2>7. CASE names[c] # e
      <3>1. off' = off + 1 /\ curr_inum' = curr_inum /\ walk_pc' = "scan"
        BY <1>0, <2>5, <2>7
      <3>2. Elem(0)' = Elem(0) /\ Elem(1)' = Elem(1) /\ Behind' = Behind
        BY <1>0, HostSame
      <3>3. Depth(curr_inum)' = d /\ Entries(curr_inum)' = Entries(curr_inum) /\ Reached(curr_inum)'
        BY <1>0, <2>1, <3>1, HostSame DEF Depth, Entries, Reached, Has_elem, Elem
      <3>4. Has_elem(Depth(curr_inum))' /\ Carries(name, Elem(Depth(curr_inum)))'
        BY <1>0, <2>1, <3>3, HostSame DEF Has_elem, Carries, Elem
      <3>5. rest' = (Behind[Depth(curr_inum) + 1])'
        BY <1>0, <2>1, <3>2, <3>3
      <3>6. off' \in 0..Len(Entries(curr_inum))'
        BY <1>0, <2>1, <3>1, <3>3, EntryFacts
      <3>7. /\ curr_inum = RootInode /\ off' >= 1 => Elem(0) # names[DirInode]
            /\ curr_inum = RootInode /\ off' >= 2 => Elem(0) # names[RootFile]
            /\ curr_inum = DirInode /\ off' >= 1 => Elem(1) # names[DirFile]
        <4>1. CASE curr_inum = RootInode
          <5>1. d = 0 /\ curr_inum # DirInode /\ off \in {0, 1}
            BY <2>3, <4>1 DEF Depth, RootInode, DirInode
          <5>2. off = 0 => Elem(0) # names[DirInode]
            BY <2>7, <4>1, <5>1
          <5>3. off = 1 => Elem(0) # names[RootFile] /\ Elem(0) # names[DirInode]
            BY <2>1, <2>7, <4>1, <5>1
          <5>. QED
            BY <3>1, <5>1, <5>2, <5>3
        <4>2. CASE curr_inum = DirInode
          BY <2>7, <4>2 DEF Depth, RootInode, DirInode, DirFile
        <4>. QED
          BY <2>1, <4>1, <4>2
      <3>8. AtEntry'
        BY <1>0, <2>1, <3>1, <3>2, <3>3, <3>4, <3>5, <3>6, <3>7 DEF AtEntry, NoPath
      <3>. QED
        BY <3>1, <3>8
    <2>. QED
      BY <2>6, <2>7
  <1>3. walk_pc' # "done"
    BY <1>0
  <1>. QED
    BY <1>0, <1>1, <1>2, <1>3, HostSame DEF WalkInv

LEMMA NotFound ==
    ASSUME WalkInv, not_found
    PROVE  WalkInv'
  <1>0. /\ walk_pc = "scan" /\ off = Len(Entries(curr_inum)) /\ walk_pc' = "done"
        /\ names' = names /\ path' = path /\ result' = result
    BY DEF not_found, fails
  <1>1. HostInv
    BY DEF WalkInv
  <1>2. ASSUME Short PROVE Answer'
    <2>1. AtEntry
      BY <1>0, <1>2 DEF WalkInv
    <2>. DEFINE x == names[DirInode]  y == names[RootFile]  z == names[DirFile]  es == Elements
    <2>2. x # y
      BY <1>1 DEF HostInv
    <2>3. DOMAIN <<>> = {} /\ DOMAIN <<x>> = {1} /\ DOMAIN <<y>> = {1} /\ DOMAIN <<x, z>> = {1, 2}
      OBVIOUS
    <2>4. <<x>>[1] = x /\ <<y>>[1] = y /\ <<x, z>>[1] = x /\ <<x, z>>[2] = z
      OBVIOUS
    <2>5. es # <<>> /\ es # <<x>> /\ es # <<y>> /\ es # <<x, z>>
      <3>1. CASE curr_inum = RootInode
        <4>1. Has_elem(0) /\ Elem(0) # x /\ Elem(0) # y
          BY <1>0, <2>1, <3>1, EntryFacts DEF AtEntry, Depth
        <4>2. 0 + 1 \in DOMAIN es /\ es[0 + 1] = Elem(0)
          BY <1>1, <4>1, ElemFacts
        <4>3. 1 \in DOMAIN es /\ es[1] # x /\ es[1] # y
          BY <4>1, <4>2
        <4>. HIDE DEF es, x, y, z
        <4>. QED
          BY <2>3, <2>4, <4>3
      <3>2. CASE curr_inum = DirInode
        <4>1. Has_elem(1) /\ Elem(1) # z
          BY <1>0, <2>1, <3>2, EntryFacts DEF AtEntry, Depth, RootInode, DirInode, DirFile
        <4>2. 1 + 1 \in DOMAIN es /\ es[1 + 1] = Elem(1)
          BY <1>1, <4>1, ElemFacts
        <4>3. 2 \in DOMAIN es /\ es[2] # z
          BY <4>1, <4>2
        <4>. HIDE DEF es, x, y, z
        <4>. QED
          BY <2>3, <2>4, <4>3
      <3>. QED
        BY <2>1, <3>1, <3>2 DEF AtEntry
    <2>6. Answer
      BY <1>1, <2>1, <2>5, Missing DEF AtEntry
    <2>. QED
      BY <1>0, <2>6, HostSame DEF Answer, IsDir
  <1>. QED
    BY <1>0, <1>1, <1>2, HostSame DEF WalkInv

LEMMA WalkStep ==
    ASSUME WalkInv, [LookupNext]_lookupVars
    PROVE  WalkInv'
  <1>1. CASE UNCHANGED lookupVars
    <2>1. /\ names' = names /\ path' = path /\ rest' = rest /\ name' = name /\ curr_inum' = curr_inum
          /\ off' = off /\ is_device' = is_device /\ walk_pc' = walk_pc /\ result' = result
      BY <1>1 DEF lookupVars
    <2>2. AtElement' = AtElement
      BY <2>1, HostSame DEF AtElement, Inodes, Reached, Depth, Has_elem, Elem, NoPath
    <2>3. AtEntry' = AtEntry
      BY <2>1, HostSame DEF AtEntry, Reached, Depth, Has_elem, Elem, Carries, Entries, NoPath
    <2>4. Answer' = Answer
      BY <2>1, HostSame DEF Answer, IsDir
    <2>. QED
      BY <2>1, <2>2, <2>3, <2>4, HostSame DEF WalkInv
  <1>. QED
    BY <1>1, Opens, NextElement, ScanEntry, NotFound DEF LookupNext

\* A path leads to the file that the host had at its elements, and to nothing else,
\* for any names that an entry can hold (fs_open, skipelem, mkfs).
THEOREM LookupAlwaysExact == LookupSpec => []LookupExact
  <1>1. LookupInit => WalkInv
    BY LookupStarts
  <1>2. WalkInv /\ [LookupNext]_lookupVars => WalkInv'
    BY WalkStep
  <1>3. WalkInv => LookupExact
    BY DEF WalkInv, LookupExact, Short, Answer
  <1>. QED
    BY <1>1, <1>2, <1>3, PTL DEF LookupSpec
=============================================================================
