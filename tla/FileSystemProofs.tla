-------------------------- MODULE FileSystemProofs --------------------------
(***************************************************************************)
(* Theorems about FileSystem, for any number of files and blocks and any   *)
(* sizes of blocks and index blocks: blocks are always consistent, and     *)
(* files are sequences of bytes.                                           *)
(*                                                                         *)
(* The tree of file j is a set S[j] of paths, its places, and a function   *)
(* B[j] from them to blocks: the pointer that is stored for a place is its *)
(* block, every place has a block of its own, and where the tree goes no   *)
(* further the pointer is 0.  A step down the tree adds one place or none, *)
(* a turn of the loop the places on the path to one block of data.         *)
(***************************************************************************)
EXTENDS FileSystem, SequenceTheorems, WellFoundedInduction, TLAPS

-----------------------------------------------------------------------------
(* Numbers.                                                                *)

\* A nonempty set of naturals has a least element, and Min is it.
LEMMA MinMember ==
    ASSUME NEW S, S \subseteq Nat, S # {}
    PROVE  Min(S) \in S /\ \A j \in S : Min(S) <= j
  <1>1. PICK x \in S : \A y \in S : ~(<<y, x>> \in OpToRel(<, Nat))
    BY NatLessThanWellFounded, WFMin
  <1>2. \A y \in S : ~(y < x)
    BY <1>1, Zenon DEF OpToRel
  <1>3. \A y \in S : x <= y
    BY <1>2
  <1>. QED
    BY <1>3, Zenon DEF Min

\* Induction up to n: were there places outside P, the place before the first of
\* them would be inside.
LEMMA UpTo ==
    ASSUME NEW n \in Nat, NEW P, 0 \in P, \A i \in 0..(n - 1) : i \in P => i + 1 \in P
    PROVE  \A i \in 0..n : i \in P
  <1>. SUFFICES ASSUME (0..n) \ P # {} PROVE FALSE
    OBVIOUS
  <1>. DEFINE x == Min((0..n) \ P)
  <1>1. x \in (0..n) \ P /\ \A j \in (0..n) \ P : x <= j
    BY MinMember
  <1>. HIDE DEF x
  <1>2. x # 0 /\ x - 1 \in 0..(n - 1) /\ x - 1 + 1 = x
    BY <1>1
  <1>3. x - 1 \in P
    BY <1>1, <1>2
  <1>. QED
    BY <1>1, <1>2, <1>3

LEMMA Division ==
    ASSUME NEW m \in Nat, NEW n \in Nat \ {0}
    PROVE  /\ m \div n \in Nat /\ m % n \in 0..(n - 1)
           /\ m = (m \div n) * n + (m % n)
  OBVIOUS

\* Quotients are in the order of what is divided.
LEMMA QuotientGrows ==
    ASSUME NEW n \in Nat \ {0}, NEW k \in Nat, NEW m \in Nat, k <= m
    PROVE  k \div n <= m \div n
  <1>. DEFINE a == k \div n  r == k % n  b == m \div n  t == m % n
  <1>1. a \in Nat /\ r \in 0..(n - 1) /\ k = a * n + r
    BY Division
  <1>2. b \in Nat /\ t \in 0..(n - 1) /\ m = b * n + t
    BY Division
  <1>. HIDE DEF a, b, r, t
  <1>3. SUFFICES ASSUME a >= b + 1 PROVE FALSE
    BY <1>1, <1>2 DEF a, b
  <1>4. (a - b) * n >= n
    BY <1>1, <1>2, <1>3
  <1>5. a * n - b * n = (a - b) * n
    BY <1>1, <1>2
  <1>. QED
    BY <1>1, <1>2, <1>4, <1>5

\* A quotient is below a bound when what is divided is below that many times n.
LEMMA QuotientBelow ==
    ASSUME NEW n \in Nat \ {0}, NEW m \in Nat, NEW b \in Nat, m < b * n
    PROVE  m \div n \in 0..(b - 1)
  <1>. DEFINE a == m \div n  r == m % n
  <1>1. a \in Nat /\ r \in 0..(n - 1) /\ m = a * n + r
    BY Division
  <1>. HIDE DEF a, r
  <1>2. SUFFICES ASSUME a >= b PROVE FALSE
    BY <1>1 DEF a
  <1>3. (a - b) * n >= 0 /\ a * n - b * n = (a - b) * n
    BY <1>1, <1>2
  <1>. QED
    BY <1>1, <1>3

LEMMA Quotient ==
    ASSUME NEW n \in Nat \ {0}, NEW a \in Nat, NEW r \in 0..(n - 1)
    PROVE  (a * n + r) \div n = a /\ (a * n + r) % n = r
  <1>. DEFINE m == a * n + r
  <1>1. m \in Nat
    OBVIOUS
  <1>. HIDE DEF m
  <1>2. m \div n \in Nat /\ m % n \in 0..(n - 1) /\ m = (m \div n) * n + (m % n)
    BY <1>1, Division
  <1>. DEFINE b == m \div n  t == m % n
  <1>3. b \in Nat /\ t \in 0..(n - 1) /\ a * n + r = b * n + t
    BY <1>2 DEF m
  <1>. HIDE DEF b, t
  <1>4. b = a
    <2>1. (b - a) * n = r - t
      BY <1>3
    <2>2. b - a >= 1 => (b - a) * n >= n
      BY <1>3
    <2>3. b - a <= -1 => (b - a) * n <= -n
      BY <1>3
    <2>. QED
      BY <1>3, <2>1, <2>2, <2>3
  <1>. QED
    BY <1>3, <1>4 DEF b, t, m

-----------------------------------------------------------------------------
(* The tree of a file.                                                     *)

\* What indexes are: of addrs, or of an index block.
Index == Addr \cup 0..(NInd - 1)

\* How many indexes lead from entry x of addrs to a block of data.
Depth(x) == IF x < NDirect THEN 1 ELSE x - NDirect + 2

\* The paths, and the parts of paths, that a file has room for.
Tree ==
    {p \in UNION {[1..k -> Index] : k \in 1..4} :
        /\ p[1] \in Addr
        /\ Len(p) <= Depth(p[1])
        /\ \A k \in 2..Len(p) : p[k] \in 0..(NInd - 1)}

Leaf(p) == Len(p) = Depth(p[1])

Part(p, k) == SubSeq(p, 1, k)
Parent(p) == Part(p, Len(p) - 1)

LEMMA Constants ==
    /\ NDirect \in Nat /\ NInd \in Nat \ {0} /\ BlockSize \in Nat \ {0} /\ NInd <= BlockSize
    /\ NDInd \in Nat \ {0} /\ MaxFile \in Nat /\ NDInd = NInd * NInd
    /\ DataStart \in Nat \ {0} /\ NBlocks \in Nat /\ DataStart <= NBlocks /\ 0 \notin Inum
    /\ Index \subseteq Nat /\ 0..(NInd - 1) \subseteq Cell /\ Addr \subseteq Nat
  BY FileSystemAssumption DEF NDInd, MaxFile, Index, Cell, Addr

LEMMA DepthType == \A x \in Addr : x \in Nat /\ Depth(x) \in 1..4
  <1>1. NDirect \in Nat
    BY FileSystemAssumption
  <1>. QED
    BY <1>1 DEF Addr, Depth

LEMMA TreeFacts ==
    ASSUME NEW p \in Tree
    PROVE  /\ p \in Seq(Nat) /\ Len(p) \in 1..4 /\ p[1] \in Addr /\ Len(p) <= Depth(p[1])
           /\ \A k \in 1..Len(p) : p[k] \in Nat
           /\ \A k \in 2..Len(p) : p[k] \in 0..(NInd - 1) /\ p[k] \in Cell
  <1>1. PICK k \in 1..4 : p \in [1..k -> Index]
    BY DEF Tree
  <1>2. p \in [1..k -> Nat] /\ k \in Nat
    <2>1. \A j \in 1..k : p[j] \in Nat
      BY <1>1, Constants
    <2>. QED
      BY <1>1, <2>1
  <1>3. p \in Seq(Nat) /\ Len(p) = k
    BY <1>2, SeqDef
  <1>. QED
    BY <1>1, <1>2, <1>3, Constants DEF Tree

LEMMA TreeMember ==
    ASSUME NEW p \in Seq(Nat), Len(p) \in 1..4, p[1] \in Addr, Len(p) <= Depth(p[1]),
           \A k \in 2..Len(p) : p[k] \in 0..(NInd - 1)
    PROVE  p \in Tree
  <1>1. p \in [1..Len(p) -> Nat]
    BY LenProperties
  <1>2. \A k \in 1..Len(p) : p[k] \in Index
    BY DEF Index
  <1>3. p \in [1..Len(p) -> Index]
    BY <1>1, <1>2
  <1>. QED
    BY <1>3 DEF Tree

LEMMA TreeLength == \A p \in Tree : Len(p) \in Nat /\ ~(Len(p) <= 0) /\ Len(p) <= 4
  <1>1. \A p \in Tree : Len(p) \in 1..4
    BY TreeFacts
  <1>. QED
    BY <1>1, SMTT(30)

LEMMA LastIndex ==
    \A p \in Tree : /\ p[Len(p)] \in Nat /\ Len(p) \in 1..Len(p)
                    /\ Len(p) = 1 => p[Len(p)] \in Addr
                    /\ Len(p) # 1 => p[Len(p)] \in Cell
  <1>. SUFFICES ASSUME NEW p \in Tree
                PROVE  /\ p[Len(p)] \in Nat /\ Len(p) \in 1..Len(p)
                       /\ Len(p) = 1 => p[Len(p)] \in Addr
                       /\ Len(p) # 1 => p[Len(p)] \in Cell
    OBVIOUS
  <1>1. /\ Len(p) \in 1..4 /\ p[1] \in Addr
        /\ \A k \in 1..Len(p) : p[k] \in Nat
        /\ \A k \in 2..Len(p) : p[k] \in Cell
    BY TreeFacts
  <1>2. Len(p) \in 1..Len(p) /\ (Len(p) # 1 => Len(p) \in 2..Len(p))
    <2>1. Len(p) \in 1..4
      BY <1>1
    <2>. QED
      BY <2>1
  <1>. QED
    BY <1>1, <1>2

\* A part of a path, which of a part is the same part of the whole.
LEMMA PartFacts ==
    ASSUME NEW p \in Tree, NEW k \in 1..Len(p)
    PROVE  /\ Part(p, k) \in Tree /\ Len(Part(p, k)) = k
           /\ \A j \in 1..k : Part(p, k)[j] = p[j]
  <1>1. p \in Seq(Nat) /\ Len(p) \in 1..4 /\ \A j \in 1..k : p[j] \in Nat
    BY TreeFacts
  <1>. DEFINE q == Part(p, k)
  <1>2. q \in Seq(Nat) /\ Len(q) = k /\ \A j \in 1..k : q[j] = p[j]
    BY <1>1, SubSeqProperties DEF Part
  <1>. HIDE DEF q
  <1>3. q \in Tree
    <2>1. /\ p[1] \in Addr /\ Len(p) <= Depth(p[1])
          /\ \A j \in 2..Len(p) : p[j] \in 0..(NInd - 1)
      BY TreeFacts
    <2>2. Depth(p[1]) \in Int
      BY <2>1, DepthType
    <2>3. 1 \in 1..k /\ q[1] = p[1] /\ Len(q) <= Depth(q[1]) /\ Len(q) \in 1..4
      BY <1>1, <1>2, <2>1, <2>2, SMTT(30)
    <2>4. \A j \in 2..Len(q) : q[j] \in 0..(NInd - 1)
      <3>1. \A j \in 2..k : j \in 1..k /\ j \in 2..Len(p)
        BY <1>1
      <3>. QED
        BY <1>2, <2>1, <3>1
    <2>. QED
      BY <1>2, <2>1, <2>3, <2>4, TreeMember
  <1>. QED
    BY <1>2, <1>3 DEF q

LEMMA PartOfPart ==
    ASSUME NEW p \in Tree, NEW k \in 1..Len(p), NEW j \in 1..k
    PROVE  Part(Part(p, k), j) = Part(p, j)
  <1>1. /\ Part(p, k) \in Tree /\ Len(Part(p, k)) = k
        /\ \A l \in 1..k : Part(p, k)[l] = p[l]
    BY PartFacts
  <1>2. j \in 1..Len(p) /\ j \in 1..Len(Part(p, k))
    BY <1>1, TreeFacts
  <1>. DEFINE a == Part(Part(p, k), j)  b == Part(p, j)
  <1>3. /\ a \in Tree /\ Len(a) = j
        /\ \A l \in 1..j : a[l] = Part(p, k)[l]
    BY <1>1, <1>2, PartFacts
  <1>4. /\ b \in Tree /\ Len(b) = j
        /\ \A l \in 1..j : b[l] = p[l]
    BY <1>2, PartFacts
  <1>. HIDE DEF a, b
  <1>5. a \in Seq(Nat) /\ b \in Seq(Nat)
    BY <1>3, <1>4, TreeFacts
  <1>6. \A l \in 1..j : a[l] = b[l]
    BY <1>1, <1>3, <1>4
  <1>7. a = b
    BY <1>3, <1>4, <1>5, <1>6, SeqEqual
  <1>. QED
    BY <1>7 DEF a, b

LEMMA WholePart ==
    ASSUME NEW p \in Tree
    PROVE  Part(p, Len(p)) = p
  <1>. DEFINE q == Part(p, Len(p))
  <1>1. Len(p) \in 1..Len(p) /\ p \in Seq(Nat)
    BY TreeFacts
  <1>2. q \in Tree /\ Len(q) = Len(p) /\ \A j \in 1..Len(p) : q[j] = p[j]
    BY <1>1, PartFacts
  <1>. HIDE DEF q
  <1>3. q \in Seq(Nat)
    BY <1>2, TreeFacts
  <1>4. q = p
    BY <1>1, <1>2, <1>3, SeqEqual
  <1>. QED
    BY <1>4 DEF q

LEMMA ParentFacts ==
    ASSUME NEW p \in Tree, Len(p) # 1
    PROVE  /\ Parent(p) \in Tree /\ Len(Parent(p)) = Len(p) - 1 /\ Len(p) - 1 \in 1..3
           /\ \A j \in 1..(Len(p) - 1) : Parent(p)[j] = p[j]
           /\ ~Leaf(Parent(p))
  <1>1. Len(p) - 1 \in 1..Len(p) /\ Len(p) - 1 \in 1..3 /\ Len(p) <= Depth(p[1])
    <2>1. Len(p) \in 1..4 /\ Len(p) <= Depth(p[1])
      BY TreeFacts
    <2>. QED
      BY <2>1
  <1>2. /\ Parent(p) \in Tree /\ Len(Parent(p)) = Len(p) - 1
        /\ \A j \in 1..(Len(p) - 1) : Parent(p)[j] = p[j]
    BY <1>1, PartFacts DEF Parent
  <1>3. 1 \in 1..(Len(p) - 1) /\ Depth(p[1]) \in Int
    BY <1>1, TreeFacts, DepthType
  <1>4. ~Leaf(Parent(p))
    BY <1>1, <1>2, <1>3 DEF Leaf
  <1>. QED
    BY <1>1, <1>2, <1>4

\* The four forms of a path, each in the tree and as long as its first entry says.
LEMMA PathFacts ==
    ASSUME NEW n \in 0..(MaxFile - 1)
    PROVE  Path(n) \in Tree /\ Leaf(Path(n)) /\ Len(Path(n)) \in 1..4
  <1>. DEFINE s == n - NDirect  d == s - NInd  t == d - NDInd
  <1>1. /\ NDirect \in Nat /\ NInd \in Nat \ {0} /\ NDInd \in Nat \ {0} /\ NDInd = NInd * NInd
        /\ n \in Nat /\ s \in Int /\ d \in Int /\ t \in Int
        /\ n < NDirect + NInd + NDInd + NInd * NDInd
    BY FileSystemAssumption DEF NDInd, MaxFile
  <1>2. CASE n < NDirect
    <2>1. Path(n) = <<n>>
      <3>1. ~(0 <= s) /\ ~(0 <= d)
        BY <1>1, <1>2
      <3>. HIDE DEF s, d, t
      <3>. QED
        BY <1>2, <3>1 DEF Path, s, d
    <2>2. n \in Addr /\ Depth(n) = 1
      BY <1>1, <1>2 DEF Addr, Depth
    <2>3. /\ <<n>> \in Seq(Nat) /\ Len(<<n>>) = 1 /\ <<n>>[1] = n
          /\ \A k \in 2..1 : <<n>>[k] \in 0..(NInd - 1)
      BY <1>1
    <2>. DEFINE p == <<n>>
    <2>4. p \in Tree
      <3>1. /\ p \in Seq(Nat) /\ Len(p) \in 1..4 /\ p[1] \in Addr /\ Len(p) <= Depth(p[1])
            /\ \A k \in 2..Len(p) : p[k] \in 0..(NInd - 1)
        BY <2>2, <2>3
      <3>. HIDE DEF p
      <3>. QED
        BY <3>1, TreeMember
    <2>. QED
      BY <2>1, <2>2, <2>3, <2>4 DEF Leaf
  <1>3. CASE ~(n < NDirect) /\ 0 <= s /\ s < NInd
    <2>. DEFINE p == <<NDirect, s>>
    <2>1. Path(n) = p
      <3>1. ~(0 <= d)
        BY <1>1, <1>3
      <3>. QED
        BY <1>3, <3>1 DEF Path
    <2>2. NDirect \in Addr /\ Depth(NDirect) = 2
      BY <1>1 DEF Addr, Depth
    <2>3. p \in Seq(Nat) /\ Len(p) = 2 /\ p[1] = NDirect /\ p[2] = s
      BY <1>1, <1>3
    <2>4. \A k \in 2..2 : p[k] \in 0..(NInd - 1)
      BY <1>1, <1>3
    <2>. HIDE DEF p
    <2>5. p \in Tree
      <3>1. /\ p \in Seq(Nat) /\ Len(p) \in 1..4 /\ p[1] \in Addr /\ Len(p) <= Depth(p[1])
            /\ \A k \in 2..Len(p) : p[k] \in 0..(NInd - 1)
        BY <2>2, <2>3, <2>4
      <3>. QED
        BY <3>1, TreeMember
    <2>. QED
      BY <2>1, <2>2, <2>3, <2>5 DEF Leaf
  <1>4. CASE ~(n < NDirect) /\ ~(0 <= s /\ s < NInd) /\ 0 <= d /\ d < NDInd
    <2>. DEFINE p == <<NDirect + 1, d \div NInd, d % NInd>>
    <2>1. Path(n) = p
      BY <1>4 DEF Path
    <2>2. NDirect + 1 \in Addr /\ Depth(NDirect + 1) = 3
      BY <1>1 DEF Addr, Depth
    <2>3. d \in Nat /\ d < NInd * NInd
      BY <1>1, <1>4
    <2>. HIDE DEF d
    <2>4. d \div NInd \in 0..(NInd - 1) /\ d % NInd \in 0..(NInd - 1)
      BY <1>1, <2>3, QuotientBelow, Division
    <2>5. p \in Seq(Nat) /\ Len(p) = 3 /\ p[1] = NDirect + 1 /\ p[2] = d \div NInd /\ p[3] = d % NInd
      BY <1>1, <2>4
    <2>. HIDE DEF p
    <2>6. \A k \in 2..3 : p[k] \in 0..(NInd - 1)
      BY <2>4, <2>5
    <2>7. p \in Tree
      <3>1. /\ p \in Seq(Nat) /\ Len(p) \in 1..4 /\ p[1] \in Addr /\ Len(p) <= Depth(p[1])
            /\ \A k \in 2..Len(p) : p[k] \in 0..(NInd - 1)
        BY <2>2, <2>5, <2>6
      <3>. QED
        BY <3>1, TreeMember
    <2>. QED
      BY <2>1, <2>2, <2>5, <2>7 DEF Leaf
  <1>5. CASE ~(n < NDirect) /\ ~(0 <= s /\ s < NInd) /\ ~(0 <= d /\ d < NDInd)
    <2>. DEFINE r == t % NDInd
                p == <<NDirect + 2, t \div NDInd, r \div NInd, r % NInd>>
    <2>1. Path(n) = p
      BY <1>5 DEF Path
    <2>2. NDirect + 2 \in Addr /\ Depth(NDirect + 2) = 4
      BY <1>1 DEF Addr, Depth
    <2>3. t \in Nat /\ t < NInd * NDInd
      BY <1>1, <1>5
    <2>. HIDE DEF t
    <2>4. t \div NDInd \in 0..(NInd - 1) /\ r \in 0..(NDInd - 1)
      BY <1>1, <2>3, QuotientBelow, Division
    <2>. HIDE DEF r
    <2>5. r \in Nat /\ r < NInd * NInd
      BY <1>1, <2>4
    <2>6. r \div NInd \in 0..(NInd - 1) /\ r % NInd \in 0..(NInd - 1)
      BY <1>1, <2>5, QuotientBelow, Division
    <2>7. /\ p \in Seq(Nat) /\ Len(p) = 4 /\ p[1] = NDirect + 2 /\ p[2] = t \div NDInd
          /\ p[3] = r \div NInd /\ p[4] = r % NInd
      BY <1>1, <2>4, <2>6
    <2>. HIDE DEF p
    <2>8. \A k \in 2..4 : p[k] \in 0..(NInd - 1)
      BY <2>4, <2>6, <2>7
    <2>9. p \in Tree
      <3>1. /\ p \in Seq(Nat) /\ Len(p) \in 1..4 /\ p[1] \in Addr /\ Len(p) <= Depth(p[1])
            /\ \A k \in 2..Len(p) : p[k] \in 0..(NInd - 1)
        BY <2>2, <2>7, <2>8
      <3>. QED
        BY <3>1, TreeMember
    <2>. QED
      BY <2>1, <2>2, <2>7, <2>9 DEF Leaf
  <1>. QED
    BY <1>2, <1>3, <1>4, <1>5

\* The number of a block by its path: Path has an inverse.
Number(p) ==
    CASE Len(p) = 1 -> p[1]
      [] Len(p) = 2 -> NDirect + p[2]
      [] Len(p) = 3 -> NDirect + NInd + p[2] * NInd + p[3]
      [] OTHER -> NDirect + NInd + NDInd + p[2] * NDInd + p[3] * NInd + p[4]

LEMMA PathInverse ==
    ASSUME NEW n \in 0..(MaxFile - 1)
    PROVE  Number(Path(n)) = n
  <1>. DEFINE s == n - NDirect  d == s - NInd  t == d - NDInd
  <1>1. /\ NDirect \in Nat /\ NInd \in Nat \ {0} /\ NDInd \in Nat \ {0}
        /\ n \in Nat /\ s \in Int /\ d \in Int /\ t \in Int
    BY FileSystemAssumption DEF NDInd, MaxFile
  <1>2. CASE n < NDirect
    <2>1. Path(n) = <<n>>
      <3>1. ~(0 <= s) /\ ~(0 <= d)
        BY <1>1, <1>2
      <3>. HIDE DEF s, d, t
      <3>. QED
        BY <1>2, <3>1 DEF Path, s, d
    <2>. QED
      BY <2>1 DEF Number
  <1>3. CASE ~(n < NDirect) /\ 0 <= s /\ s < NInd
    <2>1. Path(n) = <<NDirect, s>>
      <3>1. ~(0 <= d)
        BY <1>1, <1>3
      <3>. QED
        BY <1>3, <3>1 DEF Path
    <2>2. Number(Path(n)) = NDirect + s
      BY <2>1 DEF Number
    <2>. QED
      BY <1>1, <2>2
  <1>4. CASE ~(n < NDirect) /\ ~(0 <= s /\ s < NInd) /\ 0 <= d /\ d < NDInd
    <2>1. Path(n) = <<NDirect + 1, d \div NInd, d % NInd>>
      BY <1>4 DEF Path
    <2>2. Number(Path(n)) = NDirect + NInd + (d \div NInd) * NInd + (d % NInd)
      BY <2>1 DEF Number
    <2>3. d = (d \div NInd) * NInd + (d % NInd) /\ (d \div NInd) * NInd \in Int /\ d % NInd \in Int
      BY <1>1, <1>4, Division
    <2>. DEFINE u == (d \div NInd) * NInd  v == d % NInd
    <2>4. Number(Path(n)) = NDirect + NInd + u + v /\ d = u + v /\ u \in Int /\ v \in Int
          /\ n = NDirect + NInd + d
      BY <1>1, <2>2, <2>3
    <2>. HIDE DEF u, v, d
    <2>. QED
      BY <1>1, <2>4
  <1>5. CASE ~(n < NDirect) /\ ~(0 <= s /\ s < NInd) /\ ~(0 <= d /\ d < NDInd)
    <2>. DEFINE r == t % NDInd
    <2>1. Path(n) = <<NDirect + 2, t \div NDInd, r \div NInd, r % NInd>>
      BY <1>5 DEF Path
    <2>2. t \in Nat /\ n = NDirect + NInd + NDInd + t
      BY <1>1, <1>5
    <2>. HIDE DEF t
    <2>3. t = (t \div NDInd) * NDInd + r /\ r \in 0..(NDInd - 1) /\ t \div NDInd \in Nat
      BY <1>1, <2>2, Division
    <2>. HIDE DEF r
    <2>4. r = (r \div NInd) * NInd + (r % NInd) /\ r \div NInd \in Nat /\ r % NInd \in Nat
      <3>1. r \in Nat
        BY <2>3
      <3>2. r = (r \div NInd) * NInd + (r % NInd) /\ r \div NInd \in Nat /\ r % NInd \in 0..(NInd - 1)
        BY <1>1, <3>1, Division
      <3>. QED
        BY <1>1, <3>2
    <2>. DEFINE u == (t \div NDInd) * NDInd  v == (r \div NInd) * NInd  x == r % NInd
    <2>5. Number(Path(n)) = NDirect + NInd + NDInd + u + v + x
      BY <2>1 DEF Number
    <2>6. u \in Int /\ v \in Int /\ x \in Int /\ t = u + r /\ r = v + x
      BY <1>1, <2>3, <2>4
    <2>. HIDE DEF u, v, x
    <2>. QED
      BY <1>1, <2>2, <2>3, <2>5, <2>6
  <1>. QED
    BY <1>2, <1>3, <1>4, <1>5

\* Different blocks of a file are at different places.
LEMMA PathsDiffer ==
    \A m, n \in 0..(MaxFile - 1) : Path(m) = Path(n) => m = n
  <1>. SUFFICES ASSUME NEW m \in 0..(MaxFile - 1), NEW n \in 0..(MaxFile - 1), Path(m) = Path(n)
                PROVE  m = n
    OBVIOUS
  <1>1. Number(Path(m)) = m /\ Number(Path(n)) = n
    BY PathInverse
  <1>. QED
    BY <1>1

LEMMA PathInPrefixes ==
    ASSUME NEW n \in 0..(MaxFile - 1)
    PROVE  Path(n) \in Prefixes(n)
  <1>1. Path(n) \in Tree
    BY PathFacts
  <1>2. Len(Path(n)) \in 1..Len(Path(n)) /\ Path(n) = SubSeq(Path(n), 1, Len(Path(n)))
    BY <1>1, LastIndex, WholePart DEF Part
  <1>. QED
    BY <1>2 DEF Prefixes

\* The parts of paths are in the tree, and with each its parent.
LEMMA FilledFacts ==
    ASSUME NEW m \in 0..MaxFile
    PROVE  /\ Filled(m) \subseteq Tree
           /\ \A p \in Filled(m) : Len(p) # 1 => Parent(p) \in Filled(m)
           /\ \A n \in 0..(m - 1) : Path(n) \in Filled(m)
  <1>1. \A n \in 0..(m - 1) : n \in 0..(MaxFile - 1)
    BY FileSystemAssumption DEF MaxFile, NDInd
  <1>2. \A n \in 0..(m - 1) : Prefixes(n) = {Part(Path(n), k) : k \in 1..Len(Path(n))}
    BY DEF Prefixes, Part
  <1>3. Filled(m) \subseteq Tree
    BY <1>1, <1>2, PathFacts, PartFacts DEF Filled
  <1>4. ASSUME NEW p \in Filled(m), Len(p) # 1 PROVE Parent(p) \in Filled(m)
    <2>1. PICK n \in 0..(m - 1) : p \in Prefixes(n)
      BY DEF Filled
    <2>2. PICK k \in 1..Len(Path(n)) : p = Part(Path(n), k)
      BY <1>2, <2>1
    <2>3. Path(n) \in Tree
      BY <1>1, PathFacts
    <2>4. Len(p) = k /\ Len(Path(n)) \in 1..4
      BY <2>2, <2>3, PartFacts, TreeFacts
    <2>5. k - 1 \in 1..k /\ k - 1 \in 1..Len(Path(n))
      BY <1>4, <2>4
    <2>6. Parent(p) = Part(Path(n), k - 1)
      BY <2>2, <2>3, <2>4, <2>5, PartOfPart DEF Parent
    <2>7. Parent(p) \in Prefixes(n)
      BY <1>2, <2>5, <2>6
    <2>. QED
      BY <2>7 DEF Filled
  <1>5. ASSUME NEW n \in 0..(m - 1) PROVE Path(n) \in Filled(m)
    BY <1>1, PathInPrefixes DEF Filled
  <1>. QED
    BY <1>3, <1>4, <1>5

-----------------------------------------------------------------------------
(* The trees of all files on a disk.                                       *)

Addrs == [Addr -> 0..(NBlocks - 1)]
Disks == [Block -> [Cell -> Nat]]

\* A path leads where its parent's block points to.
LEMMA FollowStep ==
    ASSUME NEW A \in Addrs, NEW D, NEW p \in Tree
    PROVE  /\ Len(p) = 1 => Follow(A, D, p) = A[p[1]]
           /\ Len(p) # 1 => LET b == Follow(A, D, Parent(p))
                            IN  b # Top => Follow(A, D, p) = IF b = 0 THEN 0 ELSE D[b][p[Len(p)]]
  <1>. DEFINE Down(b, x) == Below(A, D, b, x)
              a == Down(Top, p[1])
              b2 == Down(a, p[2])
              b3 == Down(b2, p[3])
              b4 == Down(b3, p[4])
              q == Parent(p)
  <1>0. a = A[p[1]]
    BY DEF Top, Below
  <1>1. Follow(A, D, p) = IF Len(p) < 4 THEN IF Len(p) < 3 THEN IF Len(p) < 2 THEN a ELSE b2 ELSE b3 ELSE b4
    BY DEF Follow, Walk
  <1>2. Len(p) \in 1..4
    BY TreeFacts
  <1>. DEFINE a_ == Down(Top, q[1])
              c2 == Down(a_, q[2])
              c3 == Down(c2, q[3])
              c4 == Down(c3, q[4])
  <1>3. Follow(A, D, q) = IF Len(q) < 4 THEN IF Len(q) < 3 THEN IF Len(q) < 2 THEN a_ ELSE c2 ELSE c3 ELSE c4
    BY DEF Follow, Walk
  <1>4. CASE Len(p) = 1
    <2>1. Follow(A, D, p) = a
      <3>. HIDE DEF a, b2, b3, b4
      <3>. QED
        BY <1>1, <1>4
    <2>. QED
      BY <1>0, <1>4, <2>1
  <1>5. CASE Len(p) # 1
    <2>1. Len(q) = Len(p) - 1 /\ Len(p) \in 2..4 /\ \A j \in 1..(Len(p) - 1) : q[j] = p[j]
      BY <1>2, <1>5, ParentFacts
    <2>2. a_ = a /\ (Len(p) >= 3 => c2 = b2) /\ (Len(p) >= 4 => c3 = b3)
      <3>1. q[1] = p[1] /\ (Len(p) >= 3 => q[2] = p[2]) /\ (Len(p) >= 4 => q[3] = p[3])
        BY <2>1
      <3>2. a_ = a
        BY <3>1, Zenon
      <3>3. Len(p) >= 3 => c2 = b2
        BY <3>1, <3>2, Zenon
      <3>4. Len(p) >= 4 => c3 = b3
        <4>1. Len(p) >= 4 => Len(p) >= 3
          BY <2>1
        <4>. QED
          BY <3>1, <3>3, <4>1, Zenon
      <3>. QED
        BY <3>2, <3>3, <3>4
    <2>. DEFINE u == Follow(A, D, q)
    <2>. SUFFICES ASSUME u # Top
                  PROVE  Follow(A, D, p) = IF u = 0 THEN 0 ELSE D[u][p[Len(p)]]
      BY <1>5
    <2>3. \A x : Down(u, x) = IF u = 0 THEN 0 ELSE D[u][x]
      BY DEF Top, Below
    <2>4. Follow(A, D, p) = Down(u, p[Len(p)])
      <3>1. CASE Len(p) = 2
        <4>1. u = a /\ Follow(A, D, p) = b2
          <5>. HIDE DEF a, b2, b3, b4, a_, c2, c3, c4
          <5>. QED
            BY <1>1, <1>3, <2>1, <2>2, <3>1
        <4>. QED
          BY <3>1, <4>1
      <3>2. CASE Len(p) = 3
        <4>1. u = b2 /\ Follow(A, D, p) = b3
          <5>. HIDE DEF a, b2, b3, b4, a_, c2, c3, c4
          <5>. QED
            BY <1>1, <1>3, <2>1, <2>2, <3>2
        <4>. QED
          BY <3>2, <4>1
      <3>3. CASE Len(p) = 4
        <4>1. u = b3 /\ Follow(A, D, p) = b4
          <5>. HIDE DEF a, b2, b3, b4, a_, c2, c3, c4
          <5>. QED
            BY <1>1, <1>3, <2>1, <2>2, <3>3
        <4>. QED
          BY <3>3, <4>1
      <3>. QED
        BY <2>1, <3>1, <3>2, <3>3
    <2>. QED
      BY <2>3, <2>4
  <1>. QED
    BY <1>4, <1>5

\* The block number stored for place p of file j, when the parents' blocks are B.
Pointer(A, D, B, j, p) ==
    IF Len(p) = 1 THEN A[j][p[1]] ELSE D[B[j][Parent(p)]][p[Len(p)]]

\* The places S[j] of the files have the blocks B[j], each its own.
Fits(A, D, S, B) ==
    /\ \A j \in Inum : S[j] \subseteq Tree
    /\ \A j \in Inum : \A p \in S[j] :
          /\ B[j][p] \in Block /\ Pointer(A, D, B, j, p) = B[j][p]
          /\ Len(p) # 1 => Parent(p) \in S[j]
    /\ \A j, k \in Inum : \A p \in S[j], q \in S[k] : B[j][p] = B[k][q] => j = k /\ p = q

\* Where the trees go no further there is no pointer.
Blank(A, D, S, B) ==
    \A j \in Inum : \A p \in Tree \ S[j] :
        Len(p) = 1 \/ Parent(p) \in S[j] => Pointer(A, D, B, j, p) = 0

LEMMA BlockFacts == \A b \in Block : b \in Nat /\ b # 0 /\ b # Top /\ b \in 0..(NBlocks - 1) /\ b >= DataStart
  BY FileSystemAssumption DEF Block, Top

\* A place's block is what its path leads to.
LEMMA FitsFollow ==
    ASSUME NEW A \in [Inum -> Addrs], NEW D, NEW S, NEW B, Fits(A, D, S, B)
    PROVE  \A j \in Inum : \A p \in S[j] : Follow(A[j], D, p) = B[j][p]
  <1>. SUFFICES ASSUME NEW j \in Inum
                PROVE  \A p \in S[j] : Follow(A[j], D, p) = B[j][p]
    OBVIOUS
  <1>. DEFINE P == {k \in 0..4 : \A p \in S[j] : Len(p) <= k => Follow(A[j], D, p) = B[j][p]}
  <1>1. \A p \in S[j] : p \in Tree /\ Len(p) \in 1..4
    BY TreeFacts DEF Fits
  <1>2. 0 \in P
    <2>1. \A p \in S[j] : ~(Len(p) <= 0)
      BY <1>1, TreeLength, Zenon
    <2>. QED
      BY <2>1
  <1>3. ASSUME NEW k \in 0..3, k \in P PROVE k + 1 \in P
    <2>. SUFFICES ASSUME NEW p \in S[j], Len(p) = k + 1 PROVE Follow(A[j], D, p) = B[j][p]
      BY <1>1, <1>3
    <2>1. p \in Tree /\ B[j][p] \in Block /\ Pointer(A, D, B, j, p) = B[j][p]
      BY DEF Fits
    <2>2. CASE Len(p) = 1
      BY <2>1, <2>2, FollowStep DEF Pointer
    <2>3. CASE Len(p) # 1
      <3>1. Parent(p) \in S[j] /\ Len(Parent(p)) = k
        <4>1. Len(Parent(p)) = Len(p) - 1
          BY <2>1, <2>3, ParentFacts
        <4>2. Parent(p) \in S[j]
          BY <2>3, Zenon DEF Fits
        <4>. QED
          BY <4>1, <4>2
      <3>2. Follow(A[j], D, Parent(p)) = B[j][Parent(p)] /\ B[j][Parent(p)] \in Block
        BY <1>3, <3>1 DEF Fits
      <3>3. Follow(A[j], D, p) = D[B[j][Parent(p)]][p[Len(p)]]
        BY <2>1, <2>3, <3>2, FollowStep, BlockFacts
      <3>. QED
        BY <2>1, <2>3, <3>3 DEF Pointer
    <2>. QED
      BY <2>2, <2>3
  <1>. HIDE DEF P
  <1>4. \A k \in 0..4 : k \in P
    BY <1>2, <1>3, UpTo
  <1>5. 4 \in P
    BY <1>4
  <1>. QED
    <2>1. \A p \in S[j] : Len(p) <= 4
      BY <1>1, TreeLength, Zenon
    <2>. QED
      BY <1>5, <2>1 DEF P

\* And beyond the places a path leads nowhere.
LEMMA BlankFollow ==
    ASSUME NEW A \in [Inum -> Addrs], NEW D, NEW S, NEW B, Fits(A, D, S, B), Blank(A, D, S, B)
    PROVE  \A j \in Inum : \A p \in Tree \ S[j] : Follow(A[j], D, p) = 0
  <1>. SUFFICES ASSUME NEW j \in Inum
                PROVE  \A p \in Tree \ S[j] : Follow(A[j], D, p) = 0
    OBVIOUS
  <1>. DEFINE P == {k \in 0..4 : \A p \in Tree \ S[j] : Len(p) <= k => Follow(A[j], D, p) = 0}
  <1>1. \A p \in Tree : Len(p) \in 1..4
    BY TreeFacts
  <1>2. 0 \in P
    <2>1. \A p \in Tree : ~(Len(p) <= 0)
      BY <1>1, SMTT(30)
    <2>. QED
      BY <2>1
  <1>3. ASSUME NEW k \in 0..3, k \in P PROVE k + 1 \in P
    <2>. SUFFICES ASSUME NEW p \in Tree \ S[j], Len(p) = k + 1 PROVE Follow(A[j], D, p) = 0
      BY <1>1, <1>3
    <2>0. p \in Tree /\ p \notin S[j] /\ A[j] \in Addrs
      OBVIOUS
    <2>1. CASE Len(p) = 1
      <3>1. Pointer(A, D, B, j, p) = 0
        BY <2>1 DEF Blank
      <3>. QED
        BY <2>1, <3>1, FollowStep DEF Pointer
    <2>2. CASE Len(p) # 1
      <3>1. Parent(p) \in Tree /\ Len(Parent(p)) = k
        <4>1. Parent(p) \in Tree /\ Len(Parent(p)) = Len(p) - 1
          BY <2>0, <2>2, ParentFacts
        <4>. QED
          BY <4>1
      <3>2. CASE Parent(p) \in S[j]
        <4>1. Follow(A[j], D, Parent(p)) = B[j][Parent(p)] /\ B[j][Parent(p)] \in Block
          <5>1. \A q \in S[j] : Follow(A[j], D, q) = B[j][q]
            BY FitsFollow
          <5>2. \A q \in S[j] : B[j][q] \in Block
            BY DEF Fits
          <5>. QED
            BY <3>2, <5>1, <5>2
        <4>2. Pointer(A, D, B, j, p) = 0
          BY <3>2 DEF Blank
        <4>3. D[B[j][Parent(p)]][p[Len(p)]] = 0
          BY <2>2, <4>2 DEF Pointer
        <4>. QED
          BY <2>0, <2>2, <4>1, <4>3, FollowStep, BlockFacts, ZenonT(60)
      <3>3. CASE Parent(p) \notin S[j]
        <4>1. Follow(A[j], D, Parent(p)) = 0
          BY <1>3, <3>1, <3>3
        <4>. QED
          <5>1. Follow(A[j], D, Parent(p)) # Top
            BY <4>1 DEF Top
          <5>. QED
            BY <2>0, <2>2, <4>1, <5>1, FollowStep
      <3>. QED
        BY <3>2, <3>3
    <2>. QED
      BY <2>1, <2>2
  <1>. HIDE DEF P
  <1>4. \A k \in 0..4 : k \in P
    BY <1>2, <1>3, UpTo
  <1>5. 4 \in P
    BY <1>4
  <1>. QED
    <2>1. \A p \in Tree : Len(p) <= 4
      BY <1>1, SMTT(30)
    <2>. QED
      BY <1>5, <2>1 DEF P

\* A path is its parent and its last index.
LEMMA SamePlace ==
    ASSUME NEW p \in Tree, NEW q \in Tree, p[Len(p)] = q[Len(q)],
           \/ Len(p) = 1 /\ Len(q) = 1
           \/ Len(p) # 1 /\ Len(q) # 1 /\ Parent(p) = Parent(q)
    PROVE  p = q
  <1>1. p \in Seq(Nat) /\ q \in Seq(Nat) /\ Len(p) \in 1..4 /\ Len(q) \in 1..4
    BY TreeFacts
  <1>2. CASE Len(p) = 1 /\ Len(q) = 1
    <2>1. \A j \in 1..Len(p) : p[j] = q[j]
      BY <1>2
    <2>. QED
      BY <1>1, <1>2, <2>1, SeqEqual
  <1>3. CASE Len(p) # 1 /\ Len(q) # 1 /\ Parent(p) = Parent(q)
    <2>1. Len(Parent(p)) = Len(p) - 1 /\ \A j \in 1..(Len(p) - 1) : Parent(p)[j] = p[j]
      BY <1>3, ParentFacts
    <2>2. Len(Parent(q)) = Len(q) - 1 /\ \A j \in 1..(Len(q) - 1) : Parent(q)[j] = q[j]
      BY <1>3, ParentFacts
    <2>3. Len(p) = Len(q)
      BY <1>1, <1>3, <2>1, <2>2
    <2>4. \A j \in 1..Len(p) : j = Len(p) \/ j \in 1..(Len(p) - 1)
      BY <1>1
    <2>5. \A j \in 1..Len(p) : p[j] = q[j]
      BY <1>3, <2>1, <2>2, <2>3, <2>4
    <2>. QED
      BY <1>1, <2>3, <2>5, SeqEqual
  <1>. QED
    BY <1>2, <1>3

-----------------------------------------------------------------------------
(* The work of a write.                                                    *)

Works == [addrs : Addrs, disk : Disks, used : SUBSET (0..(NBlocks - 1)),
          next : Nat, at : Int, full : BOOLEAN]

\* The pointers in the inodes, those of file i as the write has them.
AddrsOf(i, w) == [j \in Inum |-> IF j = i THEN w.addrs ELSE inode[j].addrs]

\* The bitmap has the layout and the blocks of all places, and no others.
Marks(u, S, B) ==
    /\ 0..(DataStart - 1) \subseteq u
    /\ \A j \in Inum : \A p \in S[j] : B[j][p] \in u
    /\ \A b \in u : b >= DataStart => \E j \in Inum : \E p \in S[j] : B[j][p] = b

\* What holds of the work all along: the trees with what has been added to file i.
WorkOK(i, w, S, B) ==
    /\ w \in Works /\ S \in [Inum -> SUBSET Tree]
    /\ AddrsOf(i, w) \in [Inum -> Addrs]
    /\ Fits(AddrsOf(i, w), w.disk, S, B)
    /\ Blank(AddrsOf(i, w), w.disk, S, B)
    /\ Marks(w.used, S, B)
    /\ phase = "mkfs" => w.next \in DataStart..NBlocks /\ w.used = 0..(w.next - 1)

\* A block that is taken was free.
LEMMA TakenFree ==
    ASSUME NEW i, NEW w, NEW S, NEW B, WorkOK(i, w, S, B), taken(w) # 0
    PROVE  /\ taken(w) \in Block /\ taken(w) \notin w.used
           /\ phase = "mkfs" => taken(w) = w.next /\ w.next < NBlocks
  <1>1. DataStart \in Nat \ {0} /\ NBlocks \in Nat /\ 0..(DataStart - 1) \subseteq w.used
    BY FileSystemAssumption DEF WorkOK, Marks
  <1>2. CASE phase = "mkfs"
    <2>1. w.next \in DataStart..NBlocks /\ w.used = 0..(w.next - 1)
      BY <1>2 DEF WorkOK
    <2>2. taken(w) = w.next /\ ~(w.next >= NBlocks)
      BY <1>2 DEF taken, mkfs_balloc
    <2>. QED
      BY <1>1, <2>1, <2>2 DEF Block
  <1>3. CASE phase # "mkfs"
    <2>. DEFINE free == (0..(NBlocks - 1)) \ w.used
    <2>1. taken(w) = Min(free) /\ free # {}
      BY <1>3 DEF taken, balloc
    <2>2. free \subseteq Nat
      OBVIOUS
    <2>3. Min(free) \in free
      BY <2>1, <2>2, MinMember
    <2>4. taken(w) \in 0..(NBlocks - 1) /\ taken(w) \notin w.used
      BY <2>1, <2>3
    <2>5. ~(taken(w) \in 0..(DataStart - 1))
      BY <1>1, <2>4
    <2>. QED
      BY <1>1, <1>3, <2>4, <2>5 DEF Block
  <1>. QED
    BY <1>2, <1>3

\* From one point of a write to a later one: the trees grow, places keep their blocks
\* and blocks of data what is in them.
Grown(i, w, S, B, v, T, C) ==
    /\ WorkOK(i, v, T, C)
    /\ \A j \in Inum : \A p \in S[j] :
          /\ p \in T[j] /\ C[j][p] = B[j][p]
          /\ Leaf(p) => v.disk[B[j][p]] = w.disk[B[j][p]]

\* Where the work stands: at a place, or at the inode.
Stands(i, w, S, B, p) ==
    IF Len(p) = 1 THEN w.at = Top ELSE Parent(p) \in S[i] /\ w.at = B[i][Parent(p)]

\* A pointer that is there is followed.
LEMMA DescendFollows ==
    ASSUME NEW i \in Inum, NEW w, NEW S, NEW B, WorkOK(i, w, S, B), ~w.full,
           NEW p \in Tree, Stands(i, w, S, B, p), p \in S[i]
    PROVE  LET v == Descended(w, p[Len(p)])
           IN  ~v.full /\ Grown(i, w, S, B, v, S, B) /\ v.at = B[i][p]
  <1>. DEFINE x == p[Len(p)]  b == taken(w)  v == Descended(w, x)
              pt == IF w.at = Top THEN w.addrs[x] ELSE w.disk[w.at][x]
  <1>1. pt = Pointer(AddrsOf(i, w), w.disk, B, i, p)
    <2>1. CASE Len(p) = 1
      BY <2>1 DEF Stands, Pointer, AddrsOf
    <2>2. CASE Len(p) # 1
      <3>1. w.at = B[i][Parent(p)] /\ w.at \in Block
        BY <2>2 DEF Stands, WorkOK, Fits
      <3>. QED
        BY <2>2, <3>1, BlockFacts DEF Pointer
    <2>. QED
      BY <2>1, <2>2
  <1>2. pt = B[i][p] /\ B[i][p] \in Block
    BY <1>1 DEF WorkOK, Fits
  <1>3. pt # 0 /\ pt \in Int
    BY <1>2, BlockFacts
  <1>. HIDE DEF b
  <1>4. v = [w EXCEPT !.at = pt]
    <2>. DEFINE q == pt
    <2>1. v = CASE w.full -> w
                [] ~w.full /\ q # 0 -> [w EXCEPT !.at = q]
                [] ~w.full /\ q = 0 /\ b = 0 -> [w EXCEPT !.full = TRUE]
                [] OTHER ->
                     [addrs |-> IF w.at = Top THEN [w.addrs EXCEPT ![x] = b] ELSE w.addrs,
                      disk |-> [c \in Block |-> IF c = b THEN Zero
                                                ELSE IF c = w.at THEN [w.disk[c] EXCEPT ![x] = b]
                                                ELSE w.disk[c]],
                      used |-> w.used \cup {b}, next |-> b + 1, at |-> b, full |-> FALSE]
      BY Zenon DEF Descended, Descend, b
    <2>. HIDE DEF q
    <2>2. ~w.full /\ q # 0
      BY <1>3 DEF q
    <2>3. v = [w EXCEPT !.at = q]
      BY <2>1, <2>2
    <2>. QED
      BY <2>3 DEF q
  <1>. HIDE DEF pt, v
  <1>5. w \in Works
    BY DEF WorkOK
  <1>6. /\ v.addrs = w.addrs /\ v.disk = w.disk /\ v.used = w.used /\ v.next = w.next
        /\ v.full = w.full /\ v.at = pt /\ v \in Works
    BY <1>3, <1>4, <1>5 DEF Works
  <1>7. AddrsOf(i, v) = AddrsOf(i, w)
    BY <1>6 DEF AddrsOf
  <1>8. WorkOK(i, v, S, B)
    BY <1>6, <1>7 DEF WorkOK
  <1>9. Grown(i, w, S, B, v, S, B)
    BY <1>6, <1>8 DEF Grown
  <1>. QED
    BY <1>2, <1>6, <1>9 DEF v, x

\* Where there is none, a block is taken, unless there is no block.
LEMMA DescendTakes ==
    ASSUME NEW i \in Inum, NEW w, NEW S, NEW B, WorkOK(i, w, S, B), ~w.full,
           NEW p \in Tree, Stands(i, w, S, B, p), p \notin S[i]
    PROVE  LET v == Descended(w, p[Len(p)])
           IN  \E T, C : /\ Grown(i, w, S, B, v, T, C)
                         /\ v.full \/ (T = [S EXCEPT ![i] = @ \cup {p}] /\ v.at = C[i][p])
  <1>. DEFINE x == p[Len(p)]  b == taken(w)  v == Descended(w, x)
              pt == IF w.at = Top THEN w.addrs[x] ELSE w.disk[w.at][x]
              T == [S EXCEPT ![i] = @ \cup {p}]
              C == [j \in Inum |-> [q \in T[j] |-> IF q \in S[j] THEN B[j][q] ELSE b]]
              A == AddrsOf(i, w)
              D == w.disk
  <1>1. /\ w \in Works /\ A \in [Inum -> Addrs] /\ Fits(A, D, S, B) /\ Blank(A, D, S, B)
        /\ Marks(w.used, S, B) /\ S \in [Inum -> SUBSET Tree]
        /\ phase = "mkfs" => w.next \in DataStart..NBlocks /\ w.used = 0..(w.next - 1)
    BY DEF WorkOK
  <1>2. \/ Len(p) = 1 /\ w.at = Top
        \/ Len(p) # 1 /\ Parent(p) \in S[i] /\ w.at = B[i][Parent(p)] /\ w.at \in Block /\ w.at # Top
    <2>1. Len(p) # 1 => Parent(p) \in S[i] /\ w.at = B[i][Parent(p)] /\ w.at \in Block
      BY <1>1 DEF Stands, Fits
    <2>. QED
      BY <2>1, BlockFacts DEF Stands
  <1>3. pt = Pointer(A, D, B, i, p)
    BY <1>2 DEF Pointer, AddrsOf
  <1>4. pt = 0
    BY <1>1, <1>2, <1>3 DEF Blank
  <1>. HIDE DEF b
  <1>5. v = CASE w.full -> w
              [] ~w.full /\ pt # 0 -> [w EXCEPT !.at = pt]
              [] ~w.full /\ pt = 0 /\ b = 0 -> [w EXCEPT !.full = TRUE]
              [] OTHER ->
                   [addrs |-> IF w.at = Top THEN [w.addrs EXCEPT ![x] = b] ELSE w.addrs,
                    disk |-> [c \in Block |-> IF c = b THEN Zero
                                              ELSE IF c = w.at THEN [w.disk[c] EXCEPT ![x] = b]
                                              ELSE w.disk[c]],
                    used |-> w.used \cup {b}, next |-> b + 1, at |-> b, full |-> FALSE]
    BY Zenon DEF Descended, Descend, b
  <1>6. CASE b = 0
    <2>. HIDE DEF v, pt
    <2>1. v = [w EXCEPT !.full = TRUE]
      BY <1>4, <1>5, <1>6
    <2>2. /\ v.addrs = w.addrs /\ v.disk = w.disk /\ v.used = w.used /\ v.next = w.next
          /\ v.full = TRUE /\ v \in Works
      BY <1>1, <2>1 DEF Works
    <2>3. AddrsOf(i, v) = AddrsOf(i, w)
      BY <2>2 DEF AddrsOf
    <2>4. WorkOK(i, v, S, B)
      BY <2>2, <2>3 DEF WorkOK
    <2>5. Grown(i, w, S, B, v, S, B)
      BY <2>2, <2>4 DEF Grown
    <2>. QED
      BY <2>2, <2>5 DEF v, x
  <1>7. CASE b # 0
    <2>. DEFINE addrs == IF w.at = Top THEN [w.addrs EXCEPT ![x] = b] ELSE w.addrs
                blocks == [c \in Block |-> IF c = b THEN Zero
                                           ELSE IF c = w.at THEN [w.disk[c] EXCEPT ![x] = b]
                                           ELSE w.disk[c]]
                A_ == AddrsOf(i, v)
    <2>1. v = [addrs |-> addrs, disk |-> blocks, used |-> w.used \cup {b}, next |-> b + 1,
               at |-> b, full |-> FALSE]
      <3>. HIDE DEF v, pt, addrs, blocks
      <3>1. v = CASE w.full -> w
                  [] ~w.full /\ pt # 0 -> [w EXCEPT !.at = pt]
                  [] ~w.full /\ pt = 0 /\ b = 0 -> [w EXCEPT !.full = TRUE]
                  [] OTHER -> [addrs |-> addrs, disk |-> blocks, used |-> w.used \cup {b},
                               next |-> b + 1, at |-> b, full |-> FALSE]
        BY <1>5, Zenon DEF addrs, blocks
      <3>. QED
        BY <1>4, <1>7, <3>1
    <2>. HIDE DEF v, pt
    <2>2. /\ v.addrs = addrs /\ v.disk = blocks /\ v.used = w.used \cup {b} /\ v.next = b + 1
          /\ v.at = b /\ v.full = FALSE
      <3>. HIDE DEF addrs, blocks
      <3>. QED
        BY <2>1
    <2>3. b \in Block /\ b \notin w.used /\ (phase = "mkfs" => b = w.next /\ w.next < NBlocks)
      BY <1>7, TakenFree DEF b
    <2>4. b \in Nat /\ b \in 0..(NBlocks - 1) /\ b # Top /\ b >= DataStart
      BY <2>3, BlockFacts
    <2>5. p[Len(p)] \in Nat /\ (Len(p) = 1 => x \in Addr) /\ (Len(p) # 1 => x \in Cell)
      BY LastIndex
    <2>6. addrs \in Addrs /\ blocks \in Disks
      <3>1. w.addrs \in Addrs /\ w.disk \in Disks
        BY <1>1 DEF Works
      <3>2. addrs \in Addrs
        BY <2>4, <3>1 DEF Addrs
      <3>3. Zero \in [Cell -> Nat]
        BY DEF Zero
      <3>4. \A c \in Block : [w.disk[c] EXCEPT ![x] = b] \in [Cell -> Nat] /\ w.disk[c] \in [Cell -> Nat]
        BY <2>4, <3>1 DEF Disks
      <3>. QED
        BY <3>2, <3>3, <3>4 DEF Disks
    <2>7. v \in Works
      <3>1. w.used \in SUBSET (0..(NBlocks - 1))
        BY <1>1 DEF Works
      <3>2. w.used \cup {b} \in SUBSET (0..(NBlocks - 1)) /\ b + 1 \in Nat /\ b \in Int
        BY <2>4, <3>1
      <3>. HIDE DEF addrs, blocks
      <3>. QED
        BY <2>1, <2>6, <3>2 DEF Works
    <2>8. A_ \in [Inum -> Addrs] /\ A_[i] = addrs /\ A[i] = w.addrs /\ \A j \in Inum : j # i => A_[j] = A[j]
      <3>. HIDE DEF addrs, blocks
      <3>. QED
        BY <1>1, <2>2, <2>6 DEF AddrsOf
    \* The blocks that were there are others than b, and hold what they held but for x.
    <2>23. T \in [Inum -> SUBSET Tree]
      BY <1>1
    <2>9. \A j \in Inum : \A q \in S[j] :
              /\ q \in Tree /\ B[j][q] \in Block /\ B[j][q] # b /\ q \in T[j] /\ C[j][q] = B[j][q]
              /\ j = i => q # p
      <3>1. \A j \in Inum : \A q \in S[j] : q \in Tree /\ B[j][q] \in Block /\ B[j][q] # b
        BY <1>1, <2>3 DEF Fits, Marks
      <3>. HIDE DEF b
      <3>. QED
        BY <1>1, <3>1
    <2>10. \A c \in Block : c # b /\ c # w.at => blocks[c] = D[c]
      OBVIOUS
    <2>11. \A c \in Block : c # b => \A y \in Cell : (c = w.at => y # x) => blocks[c][y] = D[c][y]
      <3>1. \A c \in Block : D[c] \in [Cell -> Nat]
        BY <1>1 DEF Works, Disks
      <3>. SUFFICES ASSUME NEW c \in Block, c # b, NEW y \in Cell, c = w.at => y # x
                    PROVE  blocks[c][y] = D[c][y]
        OBVIOUS
      <3>2. blocks[c] = IF c = w.at THEN [D[c] EXCEPT ![x] = b] ELSE D[c]
        OBVIOUS
      <3>. HIDE DEF blocks, x
      <3>. QED
        BY <3>1, <3>2
    <2>. HIDE DEF T, C
    <2>12. \A j \in Inum : \A q \in Tree :
              (j = i => q # p) /\ (Len(q) = 1 \/ Parent(q) \in S[j])
              => Pointer(A_, blocks, C, j, q) = Pointer(A, D, B, j, q)
      <3>. SUFFICES ASSUME NEW j \in Inum, NEW q \in Tree, j = i => q # p,
                           Len(q) = 1 \/ Parent(q) \in S[j]
                    PROVE  Pointer(A_, blocks, C, j, q) = Pointer(A, D, B, j, q)
        OBVIOUS
      <3>1. CASE Len(q) = 1
        <4>1. Pointer(A_, blocks, C, j, q) = A_[j][q[1]] /\ Pointer(A, D, B, j, q) = A[j][q[1]]
          BY <3>1 DEF Pointer
        <4>2. CASE j # i
          BY <2>8, <4>1, <4>2
        <4>3. CASE j = i /\ Len(p) # 1
          BY <1>2, <2>8, <4>1, <4>3
        <4>4. CASE j = i /\ Len(p) = 1
          <5>1. q[1] # x /\ q[1] \in Addr
            BY <3>1, <4>4, SamePlace, TreeFacts
          <5>2. addrs = [w.addrs EXCEPT ![x] = b] /\ w.addrs \in Addrs
            BY <1>1, <1>2, <4>4 DEF Works
          <5>. HIDE DEF addrs, x
          <5>3. addrs[q[1]] = w.addrs[q[1]]
            BY <5>1, <5>2 DEF Addrs
          <5>. QED
            BY <2>8, <4>1, <4>4, <5>3
        <4>. QED
          BY <4>2, <4>3, <4>4
      <3>2. CASE Len(q) # 1
        <4>. DEFINE u == B[j][Parent(q)]  y == q[Len(q)]
        <4>1. Parent(q) \in S[j] /\ u \in Block /\ u # b /\ C[j][Parent(q)] = u
          BY <2>9, <3>2
        <4>2. Pointer(A_, blocks, C, j, q) = blocks[u][y] /\ Pointer(A, D, B, j, q) = D[u][y]
          BY <3>2, <4>1 DEF Pointer
        <4>3. y \in Cell
          BY <3>2, LastIndex
        <4>4. u = w.at => y # x
          <5>. SUFFICES ASSUME u = w.at, y = x PROVE FALSE
            OBVIOUS
          <5>1. Len(p) # 1 /\ Parent(p) \in S[i] /\ w.at = B[i][Parent(p)]
            BY <1>2, <4>1, BlockFacts
          <5>2. j = i /\ Parent(q) = Parent(p)
            BY <1>1, <4>1, <5>1 DEF Fits
          <5>3. q = p
            BY <3>2, <5>1, <5>2, SamePlace
          <5>. QED
            BY <5>2, <5>3
        <4>. HIDE DEF u, y, blocks
        <4>. QED
          BY <2>11, <4>1, <4>2, <4>3, <4>4
      <3>. QED
        BY <3>1, <3>2
    <2>13. p \in T[i] /\ C[i][p] = b
      BY <1>1 DEF T, C
    <2>14. \A j \in Inum : \A q \in T[j] : q \in S[j] \/ (j = i /\ q = p)
      BY <1>1 DEF T
    <2>15. Pointer(A_, blocks, C, i, p) = b
      <3>1. CASE Len(p) = 1
        <4>1. addrs = [w.addrs EXCEPT ![x] = b] /\ w.addrs \in Addrs /\ x \in Addr
          BY <1>1, <1>2, <2>5, <3>1 DEF Works
        <4>2. x = p[1]
          BY <3>1
        <4>. HIDE DEF addrs, x
        <4>3. addrs[p[1]] = b
          BY <4>1, <4>2 DEF Addrs
        <4>. QED
          BY <2>8, <3>1, <4>3 DEF Pointer
      <3>2. CASE Len(p) # 1
        <4>1. Parent(p) \in S[i] /\ w.at = B[i][Parent(p)] /\ w.at \in Block
          BY <1>2, <3>2
        <4>2. C[i][Parent(p)] = w.at /\ w.at # b
          BY <2>9, <4>1
        <4>3. D[w.at] \in [Cell -> Nat] /\ x \in Cell
          BY <1>1, <2>5, <3>2, <4>1 DEF Works, Disks
        <4>4. blocks[w.at] = [D[w.at] EXCEPT ![x] = b]
          BY <4>1, <4>2
        <4>. HIDE DEF blocks, x
        <4>5. blocks[w.at][x] = b
          BY <4>3, <4>4
        <4>6. Pointer(A_, blocks, C, i, p) = blocks[w.at][x]
          BY <3>2, <4>2 DEF Pointer, x
        <4>. QED
          BY <4>5, <4>6
      <3>. QED
        BY <3>1, <3>2
    <2>. HIDE DEF addrs, A_, A, D, x
    <2>16. Fits(A_, blocks, T, C)
      <3>1. \A j \in Inum : T[j] \subseteq Tree
        BY <2>9, <2>14
      <3>2. ASSUME NEW j \in Inum, NEW q \in S[j]
            PROVE  /\ C[j][q] \in Block /\ Pointer(A_, blocks, C, j, q) = C[j][q]
                   /\ Len(q) # 1 => Parent(q) \in T[j]
        <4>1. /\ q \in Tree /\ B[j][q] \in Block /\ C[j][q] = B[j][q] /\ (j = i => q # p)
              /\ Pointer(A, D, B, j, q) = B[j][q] /\ (Len(q) # 1 => Parent(q) \in S[j])
          BY <1>1, <2>9 DEF Fits
        <4>2. Pointer(A_, blocks, C, j, q) = B[j][q]
          BY <2>12, <4>1
        <4>. QED
          BY <2>9, <4>1, <4>2
      <3>3. Len(p) # 1 => Parent(p) \in T[i]
        BY <1>2, <2>9
      <3>4. \A j \in Inum : \A q \in T[j] :
                /\ C[j][q] \in Block /\ Pointer(A_, blocks, C, j, q) = C[j][q]
                /\ Len(q) # 1 => Parent(q) \in T[j]
        BY <2>3, <2>13, <2>14, <2>15, <3>2, <3>3
      <3>5. ASSUME NEW j \in Inum, NEW k \in Inum, NEW q \in T[j], NEW r \in T[k], C[j][q] = C[k][r]
            PROVE  j = k /\ q = r
        <4>1. CASE q \in S[j] /\ r \in S[k]
          BY <1>1, <2>9, <3>5, <4>1 DEF Fits
        <4>2. CASE q \in S[j] /\ k = i /\ r = p
          BY <2>9, <2>13, <3>5, <4>2
        <4>3. CASE j = i /\ q = p /\ r \in S[k]
          BY <2>9, <2>13, <3>5, <4>3
        <4>4. CASE j = i /\ q = p /\ k = i /\ r = p
          BY <4>4
        <4>. QED
          BY <2>14, <4>1, <4>2, <4>3, <4>4
      <3>. QED
        BY <3>1, <3>4, <3>5 DEF Fits
    <2>17. Blank(A_, blocks, T, C)
      <3>. SUFFICES ASSUME NEW j \in Inum, NEW q \in Tree \ T[j], Len(q) = 1 \/ Parent(q) \in T[j]
                    PROVE  Pointer(A_, blocks, C, j, q) = 0
        BY DEF Blank
      <3>1. q \notin S[j] /\ (j = i => q # p)
        BY <2>9, <2>13
      <3>2. CASE Len(q) = 1 \/ Parent(q) \in S[j]
        <4>1. Pointer(A, D, B, j, q) = 0
          BY <1>1, <3>1, <3>2 DEF Blank
        <4>. QED
          BY <2>12, <3>1, <3>2, <4>1
      <3>3. CASE Len(q) # 1 /\ j = i /\ Parent(q) = p
        <4>1. q[Len(q)] \in Cell
          BY <3>3, LastIndex
        <4>2. blocks[b] = Zero
          BY <2>3
        <4>. HIDE DEF blocks
        <4>3. Pointer(A_, blocks, C, j, q) = Zero[q[Len(q)]]
          BY <2>13, <3>3, <4>2 DEF Pointer
        <4>. QED
          BY <4>1, <4>3 DEF Zero
      <3>. QED
        BY <2>14, <3>2, <3>3
    <2>18. Marks(v.used, T, C)
      <3>1. \A j \in Inum : \A q \in T[j] : C[j][q] \in v.used
        BY <1>1, <2>2, <2>9, <2>13, <2>14 DEF Marks
      <3>2. ASSUME NEW c \in v.used, c >= DataStart
            PROVE  \E j \in Inum : \E q \in T[j] : C[j][q] = c
        <4>1. CASE c = b
          BY <2>13, <4>1
        <4>2. CASE c \in w.used
          <5>1. PICK j \in Inum : \E q \in S[j] : B[j][q] = c
            BY <1>1, <3>2, <4>2 DEF Marks
          <5>2. PICK q \in S[j] : B[j][q] = c
            BY <5>1
          <5>3. q \in T[j] /\ C[j][q] = c
            BY <2>9, <5>2
          <5>. QED
            BY <5>3
        <4>. QED
          BY <2>2, <4>1, <4>2
      <3>. QED
        BY <1>1, <2>2, <3>1, <3>2 DEF Marks
    <2>19. phase = "mkfs" => v.next \in DataStart..NBlocks /\ v.used = 0..(v.next - 1)
      <3>. SUFFICES ASSUME phase = "mkfs"
                    PROVE  v.next \in DataStart..NBlocks /\ v.used = 0..(v.next - 1)
        OBVIOUS
      <3>1. b = w.next /\ w.next < NBlocks /\ w.next \in DataStart..NBlocks /\ w.used = 0..(w.next - 1)
        BY <1>1, <2>3
      <3>2. DataStart \in Nat /\ NBlocks \in Nat
        BY FileSystemAssumption
      <3>3. v.next = w.next + 1 /\ v.used = 0..(w.next - 1) \cup {w.next}
        BY <2>2, <3>1
      <3>. QED
        BY <3>1, <3>2, <3>3
    <2>20. WorkOK(i, v, T, C)
      BY <2>23, <2>2, <2>7, <2>8, <2>16, <2>17, <2>18, <2>19 DEF WorkOK, A_
    <2>21. ASSUME NEW j \in Inum, NEW q \in S[j], Leaf(q) PROVE v.disk[B[j][q]] = w.disk[B[j][q]]
      <3>1. B[j][q] # w.at
        <4>. SUFFICES ASSUME B[j][q] = w.at PROVE FALSE
          OBVIOUS
        <4>1. Len(p) # 1 /\ Parent(p) \in S[i] /\ w.at = B[i][Parent(p)]
          BY <1>2, <2>9, BlockFacts
        <4>2. q = Parent(p)
          BY <1>1, <4>1 DEF Fits
        <4>. QED
          BY <2>21, <4>1, <4>2, ParentFacts
      <3>. QED
        BY <2>2, <2>9, <2>10, <3>1 DEF D
    <2>22. Grown(i, w, S, B, v, T, C)
      BY <2>9, <2>20, <2>21 DEF Grown
    <2>24. T = [S EXCEPT ![i] = @ \cup {p}]
      BY DEF T
    <2>25. \E T_, C_ : /\ Grown(i, w, S, B, v, T_, C_)
                       /\ v.full \/ (T_ = [S EXCEPT ![i] = @ \cup {p}] /\ v.at = C_[i][p])
      BY <2>2, <2>13, <2>22, <2>24
    <2>. QED
      BY <2>25 DEF v, x
  <1>. QED
    BY <1>6, <1>7

\* When there was no block no further step is taken.
LEMMA FullStays ==
    ASSUME NEW w, NEW x, w.full
    PROVE  Descended(w, x) = w
  <1>. DEFINE b == taken(w)
  <1>. HIDE DEF b
  <1>. DEFINE q == IF w.at = Top THEN w.addrs[x] ELSE w.disk[w.at][x]
              r == [addrs |-> IF w.at = Top THEN [w.addrs EXCEPT ![x] = b] ELSE w.addrs,
                    disk |-> [c \in Block |-> IF c = b THEN Zero
                                              ELSE IF c = w.at THEN [w.disk[c] EXCEPT ![x] = b]
                                              ELSE w.disk[c]],
                    used |-> w.used \cup {b}, next |-> b + 1, at |-> b, full |-> FALSE]
  <1>1. Descend(w, x, b) = CASE w.full -> w
                             [] ~w.full /\ q # 0 -> [w EXCEPT !.at = q]
                             [] ~w.full /\ q = 0 /\ b = 0 -> [w EXCEPT !.full = TRUE]
                             [] OTHER -> r
    BY Zenon DEF Descend
  <1>. HIDE DEF q, r
  <1>2. Descend(w, x, b) = w
    BY <1>1
  <1>. QED
    BY <1>2 DEF b, Descended

LEMMA GrownTrans ==
    ASSUME NEW i, NEW w, NEW S, NEW B, NEW v, NEW T, NEW C, NEW u, NEW U, NEW E,
           Grown(i, w, S, B, v, T, C), Grown(i, v, T, C, u, U, E)
    PROVE  Grown(i, w, S, B, u, U, E)
  <1>1. WorkOK(i, u, U, E)
    BY DEF Grown
  <1>2. ASSUME NEW j \in Inum, NEW p \in S[j]
        PROVE  /\ p \in U[j] /\ E[j][p] = B[j][p]
               /\ Leaf(p) => u.disk[B[j][p]] = w.disk[B[j][p]]
    <2>1. p \in T[j] /\ C[j][p] = B[j][p] /\ (Leaf(p) => v.disk[B[j][p]] = w.disk[B[j][p]])
      BY DEF Grown
    <2>2. p \in U[j] /\ E[j][p] = C[j][p] /\ (Leaf(p) => u.disk[C[j][p]] = v.disk[C[j][p]])
      BY <2>1 DEF Grown
    <2>. QED
      BY <2>1, <2>2
  <1>. QED
    BY <1>1, <1>2 DEF Grown

LEMMA DescendGrows ==
    ASSUME NEW i \in Inum, NEW w, NEW S, NEW B, WorkOK(i, w, S, B), ~w.full,
           NEW p \in Tree, Stands(i, w, S, B, p)
    PROVE  LET v == Descended(w, p[Len(p)])
           IN  \E T, C : /\ Grown(i, w, S, B, v, T, C)
                         /\ v.full \/ (T = [S EXCEPT ![i] = @ \cup {p}] /\ v.at = C[i][p])
  <1>. DEFINE v == Descended(w, p[Len(p)])
  <1>1. CASE p \in S[i]
    <2>1. Grown(i, w, S, B, v, S, B) /\ v.at = B[i][p]
      BY <1>1, DescendFollows
    <2>2. S \in [Inum -> SUBSET Tree]
      BY DEF WorkOK
    <2>3. S = [S EXCEPT ![i] = @ \cup {p}]
      BY <1>1, <2>2
    <2>. HIDE DEF v
    <2>. QED
      BY <2>1, <2>3 DEF v
  <1>2. CASE p \notin S[i]
    BY <1>2, DescendTakes
  <1>. QED
    BY <1>1, <1>2

\* After k steps on the way to block n, from w.
Reached(i, w, S, B, n, k, v) ==
    \E T, C : /\ Grown(i, w, S, B, v, T, C)
              /\ \/ v.full
                 \/ /\ T = [S EXCEPT ![i] = @ \cup {Part(Path(n), l) : l \in 1..k}]
                    /\ v.at = C[i][Part(Path(n), k)]

LEMMA FirstStep ==
    ASSUME NEW i \in Inum, NEW w, NEW S, NEW B, WorkOK(i, w, S, B), ~w.full, w.at = Top,
           NEW n \in 0..(MaxFile - 1)
    PROVE  Reached(i, w, S, B, n, 1, Descended(w, Path(n)[1]))
  <1>. DEFINE p == Part(Path(n), 1)  v == Descended(w, Path(n)[1])
  <1>1. Path(n) \in Tree /\ 1 \in 1..Len(Path(n)) /\ 1 \in 1..1
    BY PathFacts
  <1>2. p \in Tree /\ Len(p) = 1 /\ p[1] = Path(n)[1]
    BY <1>1, PartFacts
  <1>. HIDE DEF p
  <1>3. Stands(i, w, S, B, p)
    BY <1>2 DEF Stands
  <1>4. v = Descended(w, p[Len(p)])
    BY <1>2
  <1>. HIDE DEF v
  <1>5. PICK T, C : /\ Grown(i, w, S, B, v, T, C)
                    /\ v.full \/ (T = [S EXCEPT ![i] = @ \cup {p}] /\ v.at = C[i][p])
    BY <1>2, <1>3, <1>4, DescendGrows
  <1>6. {p} = {Part(Path(n), l) : l \in 1..1}
    BY DEF p
  <1>. QED
    BY <1>5, <1>6 DEF Reached, p, v

LEMMA NextStep ==
    ASSUME NEW i \in Inum, NEW w, NEW S, NEW B, WorkOK(i, w, S, B),
           NEW n \in 0..(MaxFile - 1), NEW k \in 1..(Len(Path(n)) - 1), NEW v,
           Reached(i, w, S, B, n, k, v)
    PROVE  Reached(i, w, S, B, n, k + 1, Descended(v, Path(n)[k + 1]))
  <1>. DEFINE u == Descended(v, Path(n)[k + 1])  p == Part(Path(n), k + 1)
              P(m) == {Part(Path(n), l) : l \in 1..m}
  <1>1. PICK T, C : /\ Grown(i, w, S, B, v, T, C)
                    /\ \/ v.full
                       \/ /\ T = [S EXCEPT ![i] = @ \cup P(k)]
                          /\ v.at = C[i][Part(Path(n), k)]
    BY DEF Reached
  <1>2. Path(n) \in Tree /\ Len(Path(n)) \in 1..4
    BY PathFacts
  <1>3. /\ k + 1 \in 1..Len(Path(n)) /\ k \in 1..Len(Path(n)) /\ k \in 1..(k + 1) /\ k + 1 # 1
        /\ k + 1 - 1 = k /\ k \in 1..k /\ k + 1 \in 1..(k + 1)
    BY <1>2
  <1>4. CASE v.full
    <2>1. u = v
      BY <1>4, FullStays
    <2>. HIDE DEF u
    <2>. QED
      BY <1>1, <1>4, <2>1 DEF Reached, u
  <1>5. CASE ~v.full
    <2>1. T = [S EXCEPT ![i] = @ \cup P(k)] /\ v.at = C[i][Part(Path(n), k)]
      BY <1>1, <1>5
    <2>2. p \in Tree /\ Len(p) = k + 1 /\ p[k + 1] = Path(n)[k + 1]
      BY <1>2, <1>3, PartFacts
    <2>3. Parent(p) = Part(Path(n), k)
      BY <1>2, <1>3, <2>2, PartOfPart DEF Parent
    <2>4. WorkOK(i, v, T, C) /\ S \in [Inum -> SUBSET Tree]
      BY <1>1 DEF Grown, WorkOK
    <2>5. Parent(p) \in T[i]
      BY <1>3, <2>1, <2>3, <2>4
    <2>. HIDE DEF p
    <2>6. Stands(i, v, T, C, p)
      BY <1>3, <2>1, <2>2, <2>3, <2>5 DEF Stands
    <2>7. u = Descended(v, p[Len(p)])
      BY <2>2
    <2>. HIDE DEF u
    <2>8. PICK U, E : /\ Grown(i, v, T, C, u, U, E)
                      /\ u.full \/ (U = [T EXCEPT ![i] = @ \cup {p}] /\ u.at = E[i][p])
      BY <1>5, <2>2, <2>4, <2>6, <2>7, DescendGrows
    <2>9. Grown(i, w, S, B, u, U, E)
      BY <1>1, <2>8, GrownTrans
    <2>10. P(k + 1) = P(k) \cup {p}
      <3>1. \A l : l \in 1..(k + 1) <=> l \in 1..k \/ l = k + 1
        OBVIOUS
      <3>. QED
        BY <3>1 DEF p
    <2>. HIDE DEF P
    <2>11. [T EXCEPT ![i] = @ \cup {p}] = [S EXCEPT ![i] = @ \cup P(k + 1)]
      BY <2>1, <2>4, <2>10
    <2>. QED
      BY <2>8, <2>9, <2>11 DEF Reached, P, p, u
  <1>. QED
    BY <1>4, <1>5

\* All steps on the way to block n: the places on its path are there, or there was
\* no block for one of them.
LEMMA ReachGrows ==
    ASSUME NEW i \in Inum, NEW w, NEW S, NEW B, WorkOK(i, w, S, B), NEW n \in 0..(MaxFile - 1)
    PROVE  LET v == Reach(w, n)
           IN  \E T, C : /\ Grown(i, w, S, B, v, T, C)
                         /\ v.full \/ /\ T = [S EXCEPT ![i] = @ \cup Prefixes(n)]
                                      /\ v.at = C[i][Path(n)] /\ ~w.full
  <1>. DEFINE path == Path(n)
              v0 == [w EXCEPT !.at = Top]
              v1 == Descended(v0, path[1])
              v2 == Descended(v1, path[2])
              v3 == Descended(v2, path[3])
              v4 == Descended(v3, path[4])
              v == Reach(w, n)
              L == Len(path)
  <1>1. v = IF L < 4 THEN IF L < 3 THEN IF L < 2 THEN v1 ELSE v2 ELSE v3 ELSE v4
    BY DEF Reach, Walk
  <1>2. path \in Tree /\ L \in 1..4
    BY PathFacts
  <1>3. /\ v0.addrs = w.addrs /\ v0.disk = w.disk /\ v0.used = w.used /\ v0.next = w.next
        /\ v0.full = w.full /\ v0.at = Top /\ v0 \in Works
    <2>1. w \in Works /\ Top \in Int
      BY DEF WorkOK, Top
    <2>. QED
      BY <2>1 DEF Works
  <1>4. AddrsOf(i, v0) = AddrsOf(i, w)
    BY <1>3 DEF AddrsOf
  <1>5. WorkOK(i, v0, S, B)
    BY <1>3, <1>4 DEF WorkOK
  <1>6. Grown(i, w, S, B, v0, S, B)
    BY <1>3, <1>5 DEF Grown
  <1>. HIDE DEF v0, v
  <1>7. CASE ~w.full
    <2>1. Reached(i, v0, S, B, n, 1, v1)
      BY <1>3, <1>5, <1>7, FirstStep
    <2>. HIDE DEF v1
    <2>2. L >= 2 => Reached(i, v0, S, B, n, 2, v2)
      <3>1. L >= 2 => 1 \in 1..(L - 1) /\ 1 + 1 = 2
        BY <1>2
      <3>. QED
        BY <1>5, <2>1, <3>1, NextStep
    <2>. HIDE DEF v2
    <2>3. L >= 3 => Reached(i, v0, S, B, n, 3, v3)
      <3>1. L >= 3 => 2 \in 1..(L - 1) /\ 2 + 1 = 3 /\ L >= 2
        BY <1>2
      <3>. QED
        BY <1>5, <2>2, <3>1, NextStep
    <2>. HIDE DEF v3
    <2>4. L >= 4 => Reached(i, v0, S, B, n, 4, v4)
      <3>1. L >= 4 => 3 \in 1..(L - 1) /\ 3 + 1 = 4 /\ L >= 3
        BY <1>2
      <3>. QED
        BY <1>5, <2>3, <3>1, NextStep
    <2>. HIDE DEF v4
    <2>5. Reached(i, v0, S, B, n, L, v)
      <3>. HIDE DEF L
      <3>1. L \in 1..4
        BY <1>2 DEF L
      <3>4. L = 1 \/ L = 2 \/ L = 3 \/ L = 4
        BY <3>1
      <3>2. /\ L = 1 => v = v1
            /\ L = 2 => v = v2
            /\ L = 3 => v = v3
            /\ L = 4 => v = v4
        <4>1. v = IF L < 4 THEN IF L < 3 THEN IF L < 2 THEN v1 ELSE v2 ELSE v3 ELSE v4
          BY <1>1 DEF L
        <4>. HIDE DEF path
        <4>. QED
          BY <3>1, <4>1
      <3>3. /\ L = 2 => L >= 2
            /\ L = 3 => L >= 3
            /\ L = 4 => L >= 4
        BY <3>1
      <3>5. /\ L >= 2 => Reached(i, v0, S, B, n, 2, v2)
            /\ L >= 3 => Reached(i, v0, S, B, n, 3, v3)
            /\ L >= 4 => Reached(i, v0, S, B, n, 4, v4)
        BY <2>2, <2>3, <2>4 DEF L
      <3>. QED
        BY <2>1, <3>2, <3>3, <3>4, <3>5, Zenon
    <2>6. PICK T, C : /\ Grown(i, v0, S, B, v, T, C)
                      /\ \/ v.full
                         \/ /\ T = [S EXCEPT ![i] = @ \cup {Part(path, l) : l \in 1..L}]
                            /\ v.at = C[i][Part(path, L)]
      BY <2>5 DEF Reached
    <2>7. {Part(path, l) : l \in 1..L} = Prefixes(n)
      BY DEF Prefixes, Part
    <2>8. Part(path, L) = path
      BY <1>2, WholePart
    <2>9. Grown(i, w, S, B, v, T, C)
      BY <1>6, <2>6, GrownTrans
    <2>. QED
      BY <1>7, <2>6, <2>7, <2>8, <2>9 DEF v
  <1>8. CASE w.full
    <2>1. v1 = v0 /\ v2 = v0 /\ v3 = v0 /\ v4 = v0
      <3>1. v0.full
        BY <1>3, <1>8
      <3>. QED
        BY <3>1, FullStays
    <2>. HIDE DEF v1, v2, v3, v4
    <2>2. v = v0
      BY <1>1, <2>1
    <2>. QED
      BY <1>3, <1>6, <1>8, <2>2 DEF v
  <1>. QED
    BY <1>7, <1>8

\* From w to u the bytes of s that fall into block n have gone to where w stands.
Stored(w, n, off, s, u) ==
    /\ \A c \in Block : c # w.at => u.disk[c] = w.disk[c]
    /\ \A c \in Cell : u.disk[w.at][c] =
          LET k == n * BlockSize + c - off + 1
          IN  IF k \in 1..Len(s) THEN s[k] ELSE w.disk[w.at][c]

\* The bytes that fall into a block of data go there, and nowhere else.
LEMMA StoreFacts ==
    ASSUME NEW i \in Inum, NEW w, NEW S, NEW B, WorkOK(i, w, S, B), ~w.full,
           NEW n \in 0..(MaxFile - 1), Path(n) \in S[i], w.at = B[i][Path(n)],
           NEW off \in Nat, NEW s \in Seq(Nat)
    PROVE  LET u == Store(w, n, off, s)
           IN  WorkOK(i, u, S, B) /\ u.full = w.full /\ Stored(w, n, off, s, u)
  <1>. DEFINE u == Store(w, n, off, s)
              K(c) == n * BlockSize + c - off + 1
              cells == [c \in Cell |-> IF K(c) \in 1..Len(s) THEN s[K(c)] ELSE w.disk[w.at][c]]
  <1>1. /\ w \in Works /\ Fits(AddrsOf(i, w), w.disk, S, B) /\ Blank(AddrsOf(i, w), w.disk, S, B)
        /\ w.disk \in Disks /\ w.at \in Block
    BY DEF WorkOK, Works, Fits
  <1>2. u = [w EXCEPT !.disk[w.at] = cells]
    BY DEF Store
  <1>3. cells \in [Cell -> Nat]
    <2>1. \A c \in Cell : w.disk[w.at][c] \in Nat
      BY <1>1 DEF Disks
    <2>2. \A k \in 1..Len(s) : s[k] \in Nat
      OBVIOUS
    <2>. QED
      BY <2>1, <2>2
  <1>4. \A c \in Cell : cells[c] = IF K(c) \in 1..Len(s) THEN s[K(c)] ELSE w.disk[w.at][c]
    OBVIOUS
  <1>. HIDE DEF u, cells, K
  <1>5. /\ u.disk = [w.disk EXCEPT ![w.at] = cells] /\ u.addrs = w.addrs /\ u.used = w.used
        /\ u.next = w.next /\ u.full = w.full /\ u.disk \in Disks /\ u \in Works
    <2>1. [w.disk EXCEPT ![w.at] = cells] \in Disks
      BY <1>1, <1>3 DEF Disks
    <2>. QED
      BY <1>1, <1>2, <2>1 DEF Works
  <1>6. \A c \in Block : c # w.at => u.disk[c] = w.disk[c]
    BY <1>1, <1>5 DEF Disks
  <1>7. u.disk[w.at] = cells
    BY <1>1, <1>5 DEF Disks
  <1>8. AddrsOf(i, u) = AddrsOf(i, w)
    BY <1>5 DEF AddrsOf
  <1>. DEFINE A == AddrsOf(i, w)
  <1>9. \A j \in Inum : \A q \in Tree :
            Len(q) = 1 \/ Parent(q) \in S[j] => Pointer(A, u.disk, B, j, q) = Pointer(A, w.disk, B, j, q)
    <2>. SUFFICES ASSUME NEW j \in Inum, NEW q \in Tree, Len(q) # 1, Parent(q) \in S[j]
                  PROVE  Pointer(A, u.disk, B, j, q) = Pointer(A, w.disk, B, j, q)
      BY DEF Pointer
    <2>1. Parent(q) # Path(n)
      BY ParentFacts, PathFacts
    <2>2. B[j][Parent(q)] # w.at /\ B[j][Parent(q)] \in Block
      BY <1>1, <2>1 DEF Fits
    <2>. QED
      BY <1>6, <2>2 DEF Pointer
  <1>. HIDE DEF A
  <1>10. Fits(A, w.disk, S, B) /\ Blank(A, w.disk, S, B)
    BY <1>1 DEF A
  <1>11. Fits(A, u.disk, S, B)
    <2>1. \A j \in Inum : \A p \in S[j] :
              /\ p \in Tree /\ B[j][p] \in Block /\ Pointer(A, w.disk, B, j, p) = B[j][p]
              /\ Len(p) # 1 => Parent(p) \in S[j]
      BY <1>10 DEF Fits
    <2>2. \A j \in Inum : \A p \in S[j] : Pointer(A, u.disk, B, j, p) = B[j][p]
      BY <1>9, <2>1
    <2>. QED
      BY <1>10, <2>1, <2>2 DEF Fits
  <1>12. Blank(A, u.disk, S, B)
    BY <1>9, <1>10 DEF Blank
  <1>13. WorkOK(i, u, S, B)
    BY <1>5, <1>8, <1>11, <1>12 DEF WorkOK, A
  <1>. QED
    BY <1>4, <1>5, <1>6, <1>7, <1>13 DEF u, K, Stored

-----------------------------------------------------------------------------
(* The loop of a write.                                                    *)

\* The places of the files and their blocks, as the inodes and the disk have them.
OldS == [j \in Inum |-> Places(j)]
OldB == [j \in Inum |-> [p \in Places(j) |-> Lookup(j, p)]]

\* After the turns for blocks first..n - 1 of file i: the places on the paths to them
\* are new, unless the blocks ran out, and the bytes of s are in them; what s does
\* not cover is as it was.
Looped(i, off, s, n, v, T, C) ==
    /\ WorkOK(i, v, T, C)
    /\ \A j \in Inum : \A p \in OldS[j] : p \in T[j] /\ C[j][p] = OldB[j][p]
    /\ ~v.full => T = [OldS EXCEPT ![i] =
                          @ \cup UNION {Prefixes(m) : m \in (off \div BlockSize)..(n - 1)}]
    /\ \A j \in Inum : \A p \in OldS[j] :
          j # i /\ Leaf(p) => v.disk[OldB[j][p]] = disk[OldB[j][p]]
    /\ \A m \in 0..(MaxFile - 1) : \A c \in Cell :
          LET k == m * BlockSize + c - off + 1
          IN  /\ Path(m) \in OldS[i] /\ ~(k \in 1..Len(s))
                 => v.disk[OldB[i][Path(m)]][c] = disk[OldB[i][Path(m)]][c]
              /\ ~v.full /\ m \in (off \div BlockSize)..(n - 1) /\ k \in 1..Len(s)
                 => v.disk[C[i][Path(m)]][c] = s[k]

LEMMA TurnLoops ==
    ASSUME NEW i \in Inum, NEW off \in Nat, NEW s \in Seq(Nat), NEW n \in 0..(MaxFile - 1),
           n >= off \div BlockSize, NEW w, NEW S, NEW B, Looped(i, off, s, n, w, S, B)
    PROVE  \E T, C : Looped(i, off, s, n + 1, Turn(w, n, off, s), T, C)
  <1>. DEFINE r == Reach(w, n)  u == Turn(w, n, off, s)  first == off \div BlockSize
              K(m, c) == m * BlockSize + c - off + 1
  <1>1. u = Store(r, n, off, s)
    BY DEF Turn
  <1>2. WorkOK(i, w, S, B)
    BY DEF Looped
  <1>3. PICK T, C : /\ Grown(i, w, S, B, r, T, C)
                    /\ r.full \/ /\ T = [S EXCEPT ![i] = @ \cup Prefixes(n)]
                                 /\ r.at = C[i][Path(n)] /\ ~w.full
    BY <1>2, ReachGrows
  <1>. HIDE DEF r, u, K
  <1>4. /\ WorkOK(i, r, T, C) /\ Fits(AddrsOf(i, r), r.disk, T, C)
        /\ S \in [Inum -> SUBSET Tree] /\ T \in [Inum -> SUBSET Tree]
        /\ OldS \in [Inum -> SUBSET Tree]
    <2>1. \A j \in Inum : Places(j) \subseteq Tree
      <3>1. \A j \in Inum : \A p \in Places(j) : p \in S[j]
        BY DEF Looped, OldS
      <3>2. S \in [Inum -> SUBSET Tree]
        BY <1>2 DEF WorkOK
      <3>. QED
        BY <3>1, <3>2
    <2>. QED
      BY <1>2, <1>3, <2>1 DEF Grown, WorkOK, OldS
  <1>5. \A j \in Inum : \A p \in S[j] :
            /\ p \in T[j] /\ C[j][p] = B[j][p]
            /\ Leaf(p) => r.disk[B[j][p]] = w.disk[B[j][p]]
    BY <1>3 DEF Grown
  <1>6. \A j \in Inum : \A p \in OldS[j] :
            /\ p \in S[j] /\ B[j][p] = OldB[j][p] /\ p \in T[j] /\ C[j][p] = OldB[j][p]
            /\ Leaf(p) => r.disk[OldB[j][p]] = w.disk[OldB[j][p]]
    BY <1>5 DEF Looped
  <1>7. \A j \in Inum : \A p \in OldS[j] :
            j # i /\ Leaf(p) => w.disk[OldB[j][p]] = disk[OldB[j][p]]
    BY DEF Looped
  <1>8. \A m \in 0..(MaxFile - 1) : \A c \in Cell :
            /\ Path(m) \in OldS[i] /\ ~(K(m, c) \in 1..Len(s))
                 => w.disk[OldB[i][Path(m)]][c] = disk[OldB[i][Path(m)]][c]
            /\ ~w.full /\ m \in first..(n - 1) /\ K(m, c) \in 1..Len(s)
                 => w.disk[B[i][Path(m)]][c] = s[K(m, c)]
    BY DEF Looped, K
  <1>9. \A m \in 0..(MaxFile - 1) : Leaf(Path(m)) /\ Path(m) \in Tree
    BY PathFacts
  <1>10. CASE r.full
    <2>1. u = r
      BY <1>1, <1>10 DEF Store
    <2>2. \A j \in Inum : \A p \in OldS[j] :
              j # i /\ Leaf(p) => u.disk[OldB[j][p]] = disk[OldB[j][p]]
      BY <1>6, <1>7, <2>1
    <2>3. \A m \in 0..(MaxFile - 1) : \A c \in Cell :
              /\ Path(m) \in OldS[i] /\ ~(K(m, c) \in 1..Len(s))
                   => u.disk[OldB[i][Path(m)]][c] = disk[OldB[i][Path(m)]][c]
              /\ ~u.full /\ m \in first..(n + 1 - 1) /\ K(m, c) \in 1..Len(s)
                   => u.disk[C[i][Path(m)]][c] = s[K(m, c)]
      BY <1>6, <1>8, <1>9, <1>10, <2>1
    <2>4. Looped(i, off, s, n + 1, u, T, C)
      BY <1>4, <1>6, <1>10, <2>1, <2>2, <2>3 DEF Looped, K
    <2>. QED
      BY <2>4 DEF u
  <1>11. CASE ~r.full
    <2>1. T = [S EXCEPT ![i] = @ \cup Prefixes(n)] /\ r.at = C[i][Path(n)] /\ ~w.full
      BY <1>3, <1>11
    <2>2. Path(n) \in T[i]
      <3>1. Path(n) \in Prefixes(n)
        BY PathInPrefixes
      <3>. QED
        BY <1>4, <2>1, <3>1
    <2>3. /\ WorkOK(i, u, T, C) /\ ~u.full
          /\ \A c \in Block : c # r.at => u.disk[c] = r.disk[c]
          /\ \A c \in Cell : u.disk[r.at][c] =
                IF K(n, c) \in 1..Len(s) THEN s[K(n, c)] ELSE r.disk[r.at][c]
      <3>1. WorkOK(i, u, T, C) /\ u.full = r.full /\ Stored(r, n, off, s, u)
        <4>1. WorkOK(i, r, T, C) /\ ~r.full /\ Path(n) \in T[i] /\ r.at = C[i][Path(n)]
          BY <1>4, <1>11, <2>1, <2>2
        <4>2. LET v == Store(r, n, off, s)
              IN  WorkOK(i, v, T, C) /\ v.full = r.full /\ Stored(r, n, off, s, v)
          BY <4>1, StoreFacts
        <4>. QED
          BY <1>1, <4>2
      <3>. QED
        BY <1>11, <3>1 DEF Stored, K
    <2>4. T = [OldS EXCEPT ![i] = @ \cup UNION {Prefixes(m) : m \in first..(n + 1 - 1)}]
      <3>. DEFINE P(k) == UNION {Prefixes(m) : m \in first..k}
      <3>1. S = [OldS EXCEPT ![i] = @ \cup P(n - 1)]
        BY <2>1 DEF Looped
      <3>2. n + 1 - 1 = n /\ \A m : m \in first..n <=> m \in first..(n - 1) \/ m = n
        BY Division, Constants
      <3>3. P(n) = P(n - 1) \cup Prefixes(n)
        BY <3>2
      <3>. HIDE DEF P
      <3>4. T = [OldS EXCEPT ![i] = @ \cup P(n)]
        BY <1>4, <2>1, <3>1, <3>3
      <3>. QED
        BY <3>2, <3>4 DEF P
    \* A block of another place is not the one written to.
    <2>5. \A j \in Inum : \A p \in T[j] :
              /\ C[j][p] \in Block
              /\ j # i \/ p # Path(n) => u.disk[C[j][p]] = r.disk[C[j][p]]
      <3>1. \A j \in Inum : \A p \in T[j] : C[j][p] \in Block
        BY <1>4 DEF Fits
      <3>2. \A j \in Inum : \A p \in T[j] : C[j][p] = r.at => j = i /\ p = Path(n)
        BY <1>4, <2>1, <2>2 DEF Fits
      <3>. QED
        BY <2>3, <3>1, <3>2
    <2>6. \A j \in Inum : \A p \in OldS[j] :
              j # i /\ Leaf(p) => u.disk[OldB[j][p]] = disk[OldB[j][p]]
      BY <1>6, <1>7, <2>5
    <2>7. ASSUME NEW m \in 0..(MaxFile - 1), NEW c \in Cell
          PROVE  /\ Path(m) \in OldS[i] /\ ~(K(m, c) \in 1..Len(s))
                      => u.disk[OldB[i][Path(m)]][c] = disk[OldB[i][Path(m)]][c]
                 /\ ~u.full /\ m \in first..(n + 1 - 1) /\ K(m, c) \in 1..Len(s)
                      => u.disk[C[i][Path(m)]][c] = s[K(m, c)]
      <3>1. ASSUME Path(m) \in OldS[i], ~(K(m, c) \in 1..Len(s))
            PROVE  u.disk[OldB[i][Path(m)]][c] = disk[OldB[i][Path(m)]][c]
        <4>1. /\ Path(m) \in T[i] /\ C[i][Path(m)] = OldB[i][Path(m)]
              /\ r.disk[OldB[i][Path(m)]] = w.disk[OldB[i][Path(m)]]
              /\ w.disk[OldB[i][Path(m)]][c] = disk[OldB[i][Path(m)]][c]
          BY <1>6, <1>8, <1>9, <3>1
        <4>2. CASE m = n
          BY <2>1, <2>3, <3>1, <4>1, <4>2
        <4>3. CASE m # n
          <5>1. Path(m) # Path(n)
            BY <4>3, PathsDiffer
          <5>. QED
            BY <2>5, <4>1, <5>1
        <4>. QED
          BY <4>2, <4>3
      <3>2. ASSUME m \in first..(n + 1 - 1), K(m, c) \in 1..Len(s)
            PROVE  u.disk[C[i][Path(m)]][c] = s[K(m, c)]
        <4>1. CASE m = n
          BY <2>1, <2>3, <3>2, <4>1
        <4>2. CASE m # n
          <5>1. first \in Nat
            BY Division, Constants
          <5>2. m \in first..(n - 1)
            BY <3>2, <4>2, <5>1
          <5>3. Path(m) # Path(n)
            BY <4>2, PathsDiffer
          <5>4. Path(m) \in S[i]
            <6>1. S = [OldS EXCEPT ![i] = @ \cup UNION {Prefixes(l) : l \in first..(n - 1)}]
              BY <2>1 DEF Looped
            <6>2. Path(m) \in Prefixes(m)
              BY PathInPrefixes
            <6>3. Path(m) \in UNION {Prefixes(l) : l \in first..(n - 1)}
              BY <5>2, <6>2
            <6>. QED
              BY <1>4, <6>1, <6>3
          <5>5. /\ Path(m) \in T[i] /\ C[i][Path(m)] = B[i][Path(m)]
                /\ r.disk[B[i][Path(m)]] = w.disk[B[i][Path(m)]]
            BY <1>5, <1>9, <5>4
          <5>6. w.disk[B[i][Path(m)]][c] = s[K(m, c)]
            BY <1>8, <2>1, <3>2, <5>2
          <5>. QED
            BY <2>5, <5>3, <5>5, <5>6
        <4>. QED
          BY <4>1, <4>2
      <3>. QED
        BY <3>1, <3>2
    <2>8. Looped(i, off, s, n + 1, u, T, C)
      BY <1>6, <2>3, <2>4, <2>6, <2>7 DEF Looped, K
    <2>. QED
      BY <2>8 DEF u
  <1>. QED
    BY <1>10, <1>11

\* The pointers in the inodes.
Roots == [j \in Inum |-> inode[j].addrs]

\* The inductive invariant: the files have the blocks that their sizes need, each its
\* own; until the builder gives up or the kernel panics no tree goes further and the
\* bitmap is exact; the builder takes the blocks in order.
FsInv ==
    /\ TypeOK /\ next_datablock \in Nat
    /\ Fits(Roots, disk, OldS, OldB)
    /\ phase \in {"mkfs", "kernel"} => Blank(Roots, disk, OldS, OldB) /\ Marks(used, OldS, OldB)
    /\ phase = "mkfs" => /\ next_datablock \in DataStart..NBlocks /\ used = 0..(next_datablock - 1)
                         /\ got = <<>>

LEMMA RootsType ==
    ASSUME TypeOK
    PROVE  /\ Roots \in [Inum -> Addrs] /\ disk \in Disks
           /\ \A j \in Inum : inode[j].size \in 0..(MaxFile * BlockSize) /\ Roots[j] = inode[j].addrs
  BY DEF TypeOK, Roots, Addrs, Disks

\* A write begins with the trees as they are.
LEMMA WorkStarts ==
    ASSUME FsInv, phase \in {"mkfs", "kernel"}, NEW i \in Inum
    PROVE  WorkOK(i, Work(i), OldS, OldB) /\ ~Work(i).full
  <1>. DEFINE w == Work(i)
  <1>1. /\ w.addrs = inode[i].addrs /\ w.disk = disk /\ w.used = used /\ w.next = next_datablock
        /\ w.full = FALSE
    BY DEF Work
  <1>2. Top \in Int
    BY DEF Top
  <1>3. inode[i].addrs \in Addrs /\ disk \in Disks /\ used \in SUBSET (0..(NBlocks - 1))
    BY RootsType DEF FsInv, TypeOK
  <1>4. w \in Works
    BY <1>2, <1>3 DEF Work, Works, FsInv
  <1>. HIDE DEF w
  <1>5. AddrsOf(i, w) = Roots
    BY <1>1 DEF AddrsOf, Roots
  <1>6. Roots \in [Inum -> Addrs]
    BY RootsType DEF FsInv
  <1>7. OldS \in [Inum -> SUBSET Tree]
    BY DEF FsInv, Fits, OldS
  <1>. QED
    BY <1>1, <1>4, <1>5, <1>6, <1>7 DEF WorkOK, FsInv, w

\* The indexes of the turns, as in Turns.
First(off) == off \div BlockSize
Last(off, s) == IF s = <<>> THEN First(off) - 1 ELSE (off + Len(s) - 1) \div BlockSize

LEMMA TurnBounds ==
    ASSUME NEW off \in Nat, NEW s \in Seq(Nat), off + Len(s) <= MaxFile * BlockSize
    PROVE  /\ First(off) \in Nat /\ Last(off, s) \in Int
           /\ Last(off, s) - First(off) + 1 \in Nat
           /\ Len(s) # 0 => Last(off, s) \in 0..(MaxFile - 1)
  <1>1. Len(s) \in Nat /\ (s = <<>> <=> Len(s) = 0)
    OBVIOUS
  <1>2. First(off) \in Nat
    BY Division, Constants DEF First
  <1>3. CASE Len(s) = 0
    BY <1>1, <1>2, <1>3 DEF Last
  <1>4. CASE Len(s) # 0
    <2>1. off + Len(s) - 1 \in Nat /\ off + Len(s) - 1 < MaxFile * BlockSize /\ off <= off + Len(s) - 1
      <3>. DEFINE m == MaxFile * BlockSize
      <3>1. m \in Nat
        BY Constants
      <3>. HIDE DEF m
      <3>. QED
        BY <1>1, <1>4, <3>1 DEF m
    <2>2. Last(off, s) = (off + Len(s) - 1) \div BlockSize
      BY <1>1, <1>4 DEF Last
    <2>3. Last(off, s) \in 0..(MaxFile - 1)
      BY <2>1, <2>2, Constants, QuotientBelow
    <2>4. First(off) <= Last(off, s)
      BY <2>1, <2>2, Constants, QuotientGrows DEF First
    <2>. QED
      BY <1>2, <2>3, <2>4, Constants
  <1>. QED
    BY <1>3, <1>4

TurnStep(f, i, off, s, k) == IF k = 0 THEN Work(i) ELSE Turn(f[k - 1], First(off) + k - 1, off, s)

\* The works that Turns goes through.
Row(f, i, off, s, n) ==
    /\ f[0] = Work(i)
    /\ \A k \in 1..n : f[k] = Turn(f[k - 1], First(off) + k - 1, off, s)
    /\ Turns(i, off, s) = f[n]

LEMMA TurnRow ==
    ASSUME NEW i, NEW off, NEW s, NEW n \in Nat, n = Last(off, s) - First(off) + 1
    PROVE  \E f : Row(f, i, off, s, n)
  <1>. DEFINE Loop(g, m) == g = [k \in 0..m |-> TurnStep(g, i, off, s, k)]
              good == {m \in 0..n : \E g : Loop(g, m)}
  <1>1. 0 \in good
    <2>1. PICK g : g = [k \in 0..0 |-> Work(i)]
      OBVIOUS
    <2>2. \A k \in 0..0 : k = 0
      OBVIOUS
    <2>3. g = [k \in 0..0 |-> TurnStep(g, i, off, s, k)]
      BY <2>1, <2>2 DEF TurnStep
    <2>. QED
      BY <2>3
  <1>2. ASSUME NEW l \in 0..(n - 1), l \in good PROVE l + 1 \in good
    <2>. DEFINE m == l + 1
    <2>0. m \in 1..n /\ m - 1 = l /\ m \in Nat
      OBVIOUS
    <2>. HIDE DEF m
    <2>1. PICK g : Loop(g, m - 1)
      BY <1>2, <2>0
    <2>2. PICK h : h = [k \in 0..m |-> IF k = m THEN Turn(g[m - 1], First(off) + m - 1, off, s) ELSE g[k]]
      OBVIOUS
    <2>3. ASSUME NEW k \in 0..m
          PROVE  h[k] = TurnStep(h, i, off, s, k)
      <3>1. CASE k = 0
        <4>1. k \in 0..(m - 1) /\ k # m
          BY <2>0, <3>1
        <4>. QED
          BY <2>1, <2>2, <3>1, <4>1 DEF TurnStep
      <3>2. CASE k # 0 /\ k # m
        <4>1. k \in 0..(m - 1) /\ k - 1 \in 0..m /\ k - 1 # m
          BY <2>0, <3>2
        <4>2. h[k] = g[k] /\ h[k - 1] = g[k - 1]
          BY <2>2, <3>2, <4>1
        <4>3. g[k] = Turn(g[k - 1], First(off) + k - 1, off, s)
          BY <2>1, <3>2, <4>1 DEF TurnStep
        <4>. QED
          BY <3>2, <4>2, <4>3 DEF TurnStep
      <3>3. CASE k = m
        <4>1. k # 0 /\ k - 1 \in 0..m /\ k - 1 # m
          BY <2>0, <3>3
        <4>2. h[k - 1] = g[m - 1] /\ h[k] = Turn(g[m - 1], First(off) + m - 1, off, s)
          BY <2>2, <3>3, <4>1
        <4>. QED
          BY <3>3, <4>1, <4>2 DEF TurnStep
      <3>. QED
        BY <3>1, <3>2, <3>3
    <2>4. Loop(h, m)
      BY <2>2, <2>3
    <2>. QED
      BY <2>0, <2>4 DEF m
  <1>. HIDE DEF good
  <1>3. \A m \in 0..n : m \in good
    BY <1>1, <1>2, UpTo
  <1>4. \E g : g = [k \in 0..n |-> IF k = 0 THEN Work(i) ELSE Turn(g[k - 1], First(off) + k - 1, off, s)]
    BY <1>3 DEF good, TurnStep
  <1>. DEFINE f == CHOOSE g : g = [k \in 0..n |-> IF k = 0 THEN Work(i)
                                                  ELSE Turn(g[k - 1], First(off) + k - 1, off, s)]
  <1>5. Turns(i, off, s) = f[n]
    BY DEF Turns, First, Last
  <1>6. f = [k \in 0..n |-> IF k = 0 THEN Work(i) ELSE Turn(f[k - 1], First(off) + k - 1, off, s)]
    BY <1>4
  <1>. HIDE DEF f
  <1>7. f[0] = Work(i)
    BY <1>6
  <1>8. \A k \in 1..n : f[k] = Turn(f[k - 1], First(off) + k - 1, off, s)
    BY <1>6
  <1>. QED
    BY <1>5, <1>7, <1>8 DEF Row

\* What holds after all turns.
LEMMA TurnsLoop ==
    ASSUME FsInv, phase \in {"mkfs", "kernel"}, NEW i \in Inum, NEW off \in Nat, NEW s \in Seq(Nat),
           off + Len(s) <= MaxFile * BlockSize
    PROVE  \E T, C : Looped(i, off, s, Last(off, s) + 1, Turns(i, off, s), T, C)
  <1>. DEFINE first == First(off)  n == Last(off, s) - first + 1
  <1>1. first \in Nat /\ n \in Nat /\ (n # 0 => Last(off, s) \in 0..(MaxFile - 1)) /\ Last(off, s) \in Int
    <2>1. Len(s) = 0 => s = <<>>
      OBVIOUS
    <2>. QED
      BY <2>1, TurnBounds DEF Last
  <1>3. first + n = Last(off, s) + 1 /\ n = Last(off, s) - First(off) + 1 /\ first = First(off)
        /\ first = off \div BlockSize
    BY <1>1 DEF First
  <1>. HIDE DEF n, first
  <1>2. PICK f : /\ f[0] = Work(i)
                 /\ \A k \in 1..n : f[k] = Turn(f[k - 1], first + k - 1, off, s)
                 /\ Turns(i, off, s) = f[n]
    <2>1. n \in Nat
      BY <1>1
    <2>2. PICK f : Row(f, i, off, s, n)
      BY <1>3, <2>1, TurnRow
    <2>. QED
      BY <1>3, <2>2 DEF Row
  <1>. DEFINE P == {k \in 0..n : \E T, C : Looped(i, off, s, first + k, f[k], T, C)}
  <1>4. 0 \in P
    <2>1. WorkOK(i, Work(i), OldS, OldB) /\ ~Work(i).full
      BY WorkStarts
    <2>2. OldS = [OldS EXCEPT ![i] = @ \cup UNION {Prefixes(m) : m \in first..(first + 0 - 1)}]
      <3>1. \A m : m \notin first..(first + 0 - 1)
        BY <1>1
      <3>2. UNION {Prefixes(m) : m \in first..(first + 0 - 1)} = {}
        BY <3>1
      <3>3. OldS[i] \cup {} = OldS[i]
        OBVIOUS
      <3>4. OldS = [OldS EXCEPT ![i] = OldS[i]]
        BY DEF OldS
      <3>. QED
        BY <3>2, <3>3, <3>4, Zenon
    <2>3. \A m : m \notin first..(first + 0 - 1)
      BY <1>1
    <2>4. Work(i).disk = disk
      BY DEF Work
    <2>. DEFINE w == Work(i)
    <2>. HIDE DEF w
    <2>5. Looped(i, off, s, first + 0, w, OldS, OldB)
      <3>1. WorkOK(i, w, OldS, OldB) /\ w.disk = disk
        BY <2>1, <2>4 DEF w
      <3>. QED
        BY <1>3, <2>2, <2>3, <3>1 DEF Looped
    <2>. QED
      BY <1>1, <1>2, <2>5 DEF w
  <1>5. ASSUME NEW k \in 0..(n - 1), k \in P PROVE k + 1 \in P
    <2>1. PICK S, B : Looped(i, off, s, first + k, f[k], S, B)
      BY <1>5
    <2>2. /\ k + 1 \in 1..n /\ k + 1 - 1 = k /\ first + (k + 1) - 1 = first + k /\ k + 1 \in 0..n
          /\ first + k + 1 = first + (k + 1) /\ first + k >= first
      BY <1>1
    <2>3. first + k \in 0..(MaxFile - 1)
      <3>0. first + k \in Nat /\ first + k <= first + n - 1 /\ n # 0
        BY <1>1
      <3>1. Last(off, s) \in 0..(MaxFile - 1) /\ first + k <= Last(off, s)
        <4>. DEFINE l == Last(off, s)
        <4>1. l \in 0..(MaxFile - 1) /\ first + n = l + 1
          BY <1>1, <1>3, <3>0
        <4>. HIDE DEF l
        <4>. QED
          BY <1>1, <3>0, <4>1, Constants DEF l
      <3>. QED
        BY <1>1, <3>1, Constants
    <2>4. f[k + 1] = Turn(f[k], first + k, off, s)
      BY <1>2, <2>2
    <2>5. first + k >= off \div BlockSize
      BY <2>2 DEF first, First
    <2>6. \E T, C : Looped(i, off, s, first + k + 1, Turn(f[k], first + k, off, s), T, C)
      BY <2>1, <2>3, <2>5, TurnLoops
    <2>. QED
      BY <2>2, <2>4, <2>6
  <1>6. n \in P
    <2>. HIDE DEF P
    <2>1. \A k \in 0..n : k \in P
      BY <1>1, <1>4, <1>5, UpTo
    <2>. QED
      BY <1>1, <2>1
  <1>. QED
    BY <1>2, <1>3, <1>6

-----------------------------------------------------------------------------
(* The write as a step.                                                    *)

LEMMA SameBlocks ==
    ASSUME NEW A, NEW D, NEW S, NEW B, NEW C, \A j \in Inum : \A p \in S[j] : C[j][p] = B[j][p],
           Fits(A, D, S, B)
    PROVE  /\ Fits(A, D, S, C)
           /\ Blank(A, D, S, B) => Blank(A, D, S, C)
           /\ \A u : Marks(u, S, B) => Marks(u, S, C)
  <1>1. \A j \in Inum : S[j] \subseteq Tree
    BY DEF Fits
  <1>2. \A j \in Inum : \A p \in Tree :
            Len(p) = 1 \/ Parent(p) \in S[j] => Pointer(A, D, C, j, p) = Pointer(A, D, B, j, p)
    BY DEF Pointer
  <1>3. \A j \in Inum : \A p \in S[j] :
            /\ C[j][p] \in Block /\ Pointer(A, D, C, j, p) = C[j][p]
            /\ Len(p) # 1 => Parent(p) \in S[j]
    <2>1. \A j \in Inum : \A p \in S[j] :
              /\ B[j][p] \in Block /\ Pointer(A, D, B, j, p) = B[j][p]
              /\ Len(p) # 1 => Parent(p) \in S[j]
      BY DEF Fits
    <2>2. \A j \in Inum : \A p \in S[j] : Pointer(A, D, C, j, p) = Pointer(A, D, B, j, p)
      BY <1>1, <1>2, <2>1
    <2>. QED
      BY <2>1, <2>2
  <1>4. \A j, k \in Inum : \A p \in S[j], q \in S[k] : C[j][p] = C[k][q] => j = k /\ p = q
    BY DEF Fits
  <1>5. Fits(A, D, S, C)
    BY <1>1, <1>3, <1>4 DEF Fits
  <1>6. Blank(A, D, S, B) => Blank(A, D, S, C)
    BY <1>2 DEF Blank
  <1>7. ASSUME NEW u, Marks(u, S, B) PROVE Marks(u, S, C)
    <2>1. \A b \in u : b >= DataStart => \E j \in Inum : \E p \in S[j] : C[j][p] = b
      <3>. SUFFICES ASSUME NEW b \in u, b >= DataStart
                    PROVE  \E j \in Inum : \E p \in S[j] : C[j][p] = b
        OBVIOUS
      <3>1. PICK j \in Inum : \E p \in S[j] : B[j][p] = b
        BY <1>7 DEF Marks
      <3>2. PICK p \in S[j] : B[j][p] = b
        BY <3>1
      <3>. QED
        BY <3>2
    <2>. QED
      BY <1>7, <2>1 DEF Marks
  <1>. QED
    BY <1>5, <1>6, <1>7

\* The number of blocks that size bytes are in.
Blocks(size) == (size + BlockSize - 1) \div BlockSize

LEMMA BlocksOf ==
    ASSUME NEW size \in Nat
    PROVE  /\ Blocks(size) \in Nat
           /\ size # 0 => Blocks(size) = (size - 1) \div BlockSize + 1
           /\ size = 0 => Blocks(size) = 0
           /\ size <= MaxFile * BlockSize => Blocks(size) \in 0..MaxFile
           /\ size \div BlockSize <= Blocks(size)
  <1>0. BlockSize \in Nat \ {0} /\ MaxFile \in Nat
    BY Constants
  <1>1. size + BlockSize - 1 \in Nat /\ BlockSize - 1 \in Nat /\ BlockSize - 1 \in 0..(BlockSize - 1)
    BY <1>0
  <1>2. Blocks(size) \in Nat
    BY <1>0, <1>1, Division DEF Blocks
  <1>3. ASSUME size # 0 PROVE Blocks(size) = (size - 1) \div BlockSize + 1
    <2>. DEFINE a == (size - 1) \div BlockSize  r == (size - 1) % BlockSize
    <2>0. size - 1 \in Nat
      BY <1>3
    <2>1. a \in Nat /\ r \in 0..(BlockSize - 1) /\ size - 1 = a * BlockSize + r
      BY <1>0, <2>0, Division
    <2>. HIDE DEF a, r
    <2>2. (a + 1) * BlockSize = a * BlockSize + BlockSize
      BY <1>0, <2>1
    <2>3. size + BlockSize - 1 = (a + 1) * BlockSize + r
      BY <1>0, <2>1, <2>2
    <2>4. ((a + 1) * BlockSize + r) \div BlockSize = a + 1
      BY <1>0, <2>1, Quotient
    <2>. QED
      BY <2>3, <2>4 DEF Blocks, a
  <1>4. ASSUME size = 0 PROVE Blocks(size) = 0
    <2>1. (0 * BlockSize + (BlockSize - 1)) \div BlockSize = 0
      BY <1>0, <1>1, Quotient
    <2>2. size + BlockSize - 1 = 0 * BlockSize + (BlockSize - 1)
      BY <1>0, <1>4
    <2>. QED
      BY <2>1, <2>2 DEF Blocks
  <1>5. ASSUME size <= MaxFile * BlockSize PROVE Blocks(size) \in 0..MaxFile
    <2>1. CASE size = 0
      BY <1>0, <1>4, <2>1
    <2>2. CASE size # 0
      <3>. DEFINE m == MaxFile * BlockSize
      <3>1. m \in Nat
        BY <1>0
      <3>2. size - 1 \in Nat /\ size - 1 < m
        <4>. HIDE DEF m
        <4>. QED
          BY <1>5, <2>2, <3>1 DEF m
      <3>3. (size - 1) \div BlockSize \in 0..(MaxFile - 1)
        BY <1>0, <3>2, QuotientBelow
      <3>. DEFINE q == (size - 1) \div BlockSize
      <3>4. Blocks(size) = q + 1 /\ q \in 0..(MaxFile - 1)
        BY <1>3, <2>2, <3>3
      <3>. HIDE DEF q
      <3>. QED
        BY <1>0, <3>4
    <2>. QED
      BY <2>1, <2>2
  <1>6. size \div BlockSize <= Blocks(size)
    BY <1>0, <1>1, QuotientGrows DEF Blocks
  <1>. QED
    BY <1>2, <1>3, <1>4, <1>5, <1>6

\* The places of a file after a write: the old ones and those on the paths to the
\* blocks written to.
LEMMA PlacesGrow ==
    ASSUME NEW size \in Nat, NEW off \in Nat, NEW s \in Seq(Nat), off <= size
    PROVE  Filled(Blocks(Larger(off + Len(s), size)))
             = Filled(Blocks(size)) \cup UNION {Prefixes(m) : m \in First(off)..Last(off, s)}
  <1>. DEFINE new == Larger(off + Len(s), size)
              a == First(off)  b == Last(off, s)  k == Blocks(size)  l == Blocks(new)
  <1>1. Len(s) \in Nat /\ (s = <<>> <=> Len(s) = 0) /\ BlockSize \in Nat \ {0}
    BY Constants
  <1>2. new \in Nat /\ new = IF off + Len(s) >= size THEN off + Len(s) ELSE size
    BY <1>1 DEF Larger
  <1>3. a \in Nat /\ k \in Nat /\ l \in Nat /\ a <= k
    <2>1. a <= size \div BlockSize /\ a \in Nat /\ size \div BlockSize \in Nat
      BY <1>1, Division, QuotientGrows DEF First
    <2>2. size \div BlockSize <= k /\ k \in Nat
      BY BlocksOf
    <2>3. l \in Nat
      BY <1>2, BlocksOf
    <2>. HIDE DEF a, k, l
    <2>. QED
      BY <2>1, <2>2, <2>3
  <1>4. \A m : m \in 0..(l - 1) <=> m \in 0..(k - 1) \/ m \in a..b
    <2>1. CASE Len(s) = 0
      <3>1. b = a - 1 /\ l = k
        <4>1. new = size
          BY <1>1, <1>2, <2>1
        <4>. QED
          BY <1>1, <2>1, <4>1 DEF Last
      <3>. HIDE DEF a, b, k, l
      <3>. QED
        BY <1>3, <3>1
    <2>2. CASE Len(s) # 0
      <3>. DEFINE e == off + Len(s) - 1
      <3>1. e \in Nat /\ off <= e /\ b = e \div BlockSize
        BY <1>1, <2>2 DEF Last
      <3>. HIDE DEF e, b
      <3>2. b \in Nat /\ a <= b
        <4>1. b \in Nat
          BY <1>1, <3>1, Division
        <4>2. off \div BlockSize <= e \div BlockSize
          BY <1>1, <3>1, QuotientGrows
        <4>. QED
          BY <3>1, <4>1, <4>2 DEF First
      <3>3. CASE off + Len(s) >= size
        <4>1. new = off + Len(s) /\ new # 0 /\ new - 1 = e
          BY <1>1, <1>2, <2>2, <3>3 DEF e
        <4>2. l = b + 1
          BY <1>2, <3>1, <4>1, BlocksOf
        <4>3. k <= b + 1
          <5>1. CASE size = 0
            <6>1. k = 0
              BY <5>1, BlocksOf
            <6>. HIDE DEF k, b
            <6>. QED
              BY <3>2, <6>1
          <5>2. CASE size # 0
            <6>1. size - 1 \in Nat /\ size - 1 <= e
              BY <1>1, <3>3, <5>2 DEF e
            <6>2. (size - 1) \div BlockSize <= b /\ (size - 1) \div BlockSize \in Nat
              <7>1. (size - 1) \div BlockSize <= e \div BlockSize
                BY <1>1, <3>1, <6>1, QuotientGrows
              <7>2. (size - 1) \div BlockSize \in Nat
                BY <1>1, <6>1, Division
              <7>. QED
                BY <3>1, <7>1, <7>2
            <6>3. k = (size - 1) \div BlockSize + 1
              BY <5>2, BlocksOf
            <6>. HIDE DEF k, b
            <6>. QED
              BY <3>2, <6>2, <6>3
          <5>. QED
            BY <5>1, <5>2
        <4>. HIDE DEF a, b, k, l
        <4>. QED
          BY <1>3, <3>2, <4>2, <4>3
      <3>4. CASE ~(off + Len(s) >= size)
        <4>1. l = k /\ size # 0 /\ size - 1 \in Nat /\ e <= size - 1
          BY <1>1, <1>2, <3>4 DEF e
        <4>2. b <= (size - 1) \div BlockSize /\ (size - 1) \div BlockSize \in Nat
          <5>1. e \div BlockSize <= (size - 1) \div BlockSize
            BY <1>1, <3>1, <4>1, QuotientGrows
          <5>2. (size - 1) \div BlockSize \in Nat
            BY <1>1, <4>1, Division
          <5>. QED
            BY <3>1, <5>1, <5>2
        <4>3. k = (size - 1) \div BlockSize + 1
          BY <4>1, BlocksOf
        <4>. HIDE DEF a, b, k, l
        <4>. QED
          BY <1>3, <3>2, <4>1, <4>2, <4>3
      <3>. QED
        BY <3>3, <3>4
    <2>. QED
      BY <2>1, <2>2
  <1>. HIDE DEF a, b, k, l
  <1>5. Filled(l) = Filled(k) \cup UNION {Prefixes(m) : m \in a..b}
    BY <1>4 DEF Filled
  <1>. QED
    BY <1>5 DEF a, b, k, l

\* What the tables of the files' trees are.
TablesAre ==
    /\ \A j \in Inum : OldS[j] = Filled(Blocks(inode[j].size))
    /\ \A j \in Inum : \A p \in OldS[j] : OldB[j][p] = Follow(Roots[j], disk, p)
    /\ OldS = [j \in Inum |-> OldS[j]]

LEMMA Tables == TablesAre
  BY DEF TablesAre, OldS, OldB, Places, Blocks, Lookup, Roots

\* The places when those on the paths to blocks a..b of file i have been added.
Widened(i, a, b) == [OldS EXCEPT ![i] = @ \cup UNION {Prefixes(m) : m \in a..b}]

LEMMA LoopedPlaces ==
    ASSUME NEW i, NEW off, NEW s, NEW n, NEW v, NEW T, NEW C, Looped(i, off, s, n, v, T, C), ~v.full
    PROVE  T = Widened(i, First(off), n - 1)
  BY DEF Looped, First, Widened

\* The step of a write for which there were blocks, as far as the disk goes.
Stores(i, off, s, w) ==
    /\ disk' = w.disk
    /\ inode' = [inode EXCEPT ![i] = [size |-> Larger(off + Len(s), inode[i].size),
                                      addrs |-> w.addrs]]

\* A write for which there were blocks leaves the trees as the loop has built them.
LEMMA WriteDone ==
    ASSUME FsInv, NEW i \in Inum, NEW off \in Nat, NEW s \in Seq(Nat), NEW w, NEW T, NEW C,
           off <= inode[i].size, off + Len(s) <= MaxFile * BlockSize,
           Looped(i, off, s, Last(off, s) + 1, w, T, C), ~w.full,
           Stores(i, off, s, w)
    PROVE  /\ inode' \in [Inum -> [size : 0..(MaxFile * BlockSize), addrs : [Addr -> 0..(NBlocks - 1)]]]
           /\ OldS' = T /\ \A j \in Inum : \A p \in T[j] : OldB'[j][p] = C[j][p]
           /\ Fits(Roots', disk', OldS', OldB') /\ Blank(Roots', disk', OldS', OldB')
           /\ Marks(w.used, OldS', OldB')
  <1>. DEFINE new == Larger(off + Len(s), inode[i].size)
  <1>0. /\ inode \in [Inum -> [size : 0..(MaxFile * BlockSize), addrs : [Addr -> 0..(NBlocks - 1)]]]
        /\ inode[i].size \in Nat /\ inode[i].size <= MaxFile * BlockSize
    BY DEF FsInv, TypeOK
  <1>1. /\ WorkOK(i, w, T, C) /\ w \in Works /\ AddrsOf(i, w) \in [Inum -> Addrs]
        /\ Fits(AddrsOf(i, w), w.disk, T, C) /\ Blank(AddrsOf(i, w), w.disk, T, C)
        /\ Marks(w.used, T, C) /\ w.addrs \in Addrs
    BY DEF Looped, WorkOK, Works
  <1>2. new \in 0..(MaxFile * BlockSize)
    <2>. DEFINE m == MaxFile * BlockSize
    <2>1. m \in Nat /\ Len(s) \in Nat
      BY Constants
    <2>. HIDE DEF m
    <2>. QED
      BY <1>0, <2>1 DEF Larger, m
  <1>. HIDE DEF new
  <1>13. disk' = w.disk
    BY DEF Stores
  <1>3. inode' = [inode EXCEPT ![i] = [size |-> new, addrs |-> w.addrs]]
    BY DEF new, Stores
  <1>4. inode' \in [Inum -> [size : 0..(MaxFile * BlockSize), addrs : [Addr -> 0..(NBlocks - 1)]]]
    BY <1>0, <1>1, <1>2, <1>3 DEF Addrs
  <1>5. \A j \in Inum : /\ inode'[j].addrs = AddrsOf(i, w)[j]
                        /\ inode'[j].size = IF j = i THEN new ELSE inode[j].size
    BY <1>0, <1>3 DEF AddrsOf
  <1>6. Roots' = AddrsOf(i, w)
    BY <1>5 DEF Roots, AddrsOf
  <1>7. /\ \A j \in Inum : OldS'[j] = Filled(Blocks(inode'[j].size))
        /\ \A j \in Inum : \A p \in OldS'[j] : OldB'[j][p] = Follow(Roots'[j], disk', p)
        /\ OldS' = [j \in Inum |-> OldS'[j]]
    <2>1. TablesAre'
      BY Tables, PTL
    <2>. QED
      BY <2>1 DEF TablesAre
  <1>8. /\ T = [OldS EXCEPT ![i] = @ \cup UNION {Prefixes(m) : m \in First(off)..Last(off, s)}]
        /\ \A j \in Inum : OldS[j] = Filled(Blocks(inode[j].size))
        /\ OldS = [j \in Inum |-> OldS[j]]
    <2>1. (Last(off, s) + 1) - 1 = Last(off, s)
      BY TurnBounds
    <2>. DEFINE n == Last(off, s) + 1
    <2>3. Looped(i, off, s, n, w, T, C)
      OBVIOUS
    <2>. HIDE DEF n
    <2>4. T = Widened(i, First(off), n - 1)
      BY <2>3, LoopedPlaces
    <2>5. n - 1 = Last(off, s)
      BY <2>1 DEF n
    <2>. QED
      BY <2>4, <2>5, Tables DEF TablesAre, Widened
  <1>9. Filled(Blocks(new))
          = Filled(Blocks(inode[i].size)) \cup UNION {Prefixes(m) : m \in First(off)..Last(off, s)}
    BY <1>0, PlacesGrow DEF new
  <1>10. OldS' = T
    <2>1. T = [j \in Inum |-> T[j]]
      BY <1>8
    <2>2. \A j \in Inum : OldS'[j] = T[j]
      BY <1>5, <1>7, <1>8, <1>9
    <2>. QED
      BY <1>7, <2>1, <2>2
  <1>11. \A j \in Inum : \A p \in T[j] : OldB'[j][p] = C[j][p]
    <2>1. \A j \in Inum : \A p \in T[j] : Follow(AddrsOf(i, w)[j], w.disk, p) = C[j][p]
      BY <1>1, FitsFollow
    <2>. QED
      BY <1>6, <1>7, <1>10, <1>13, <2>1
  <1>12. Fits(AddrsOf(i, w), w.disk, T, OldB') /\ Blank(AddrsOf(i, w), w.disk, T, OldB')
         /\ Marks(w.used, T, OldB')
    BY <1>1, <1>11, SameBlocks
  <1>. QED
    BY <1>4, <1>6, <1>10, <1>11, <1>12, <1>13

\* When there were no blocks for a write the trees that were there are left as they
\* were.
LEMMA WriteStops ==
    ASSUME FsInv, NEW i \in Inum, NEW off \in Nat, NEW s \in Seq(Nat), NEW w, NEW T, NEW C, NEW n,
           Looped(i, off, s, n, w, T, C), disk' = w.disk, inode' = inode
    PROVE  /\ OldS' = OldS /\ \A j \in Inum : \A p \in OldS[j] : OldB'[j][p] = OldB[j][p]
           /\ Fits(Roots', disk', OldS', OldB')
  <1>1. /\ Fits(AddrsOf(i, w), w.disk, T, C)
        /\ \A j \in Inum : \A p \in OldS[j] : p \in T[j] /\ C[j][p] = OldB[j][p]
    BY DEF Looped, WorkOK
  <1>2. Fits(Roots, disk, OldS, OldB) /\ Roots \in [Inum -> Addrs]
    BY RootsType DEF FsInv
  <1>3. Roots' = Roots /\ OldS' = OldS
    BY DEF Roots, OldS, Places
  <1>4. \A j \in Inum : \A p \in OldS[j] : Pointer(Roots, w.disk, OldB, j, p) = OldB[j][p]
    <2>. SUFFICES ASSUME NEW j \in Inum, NEW p \in OldS[j]
                  PROVE  Pointer(Roots, w.disk, OldB, j, p) = OldB[j][p]
      OBVIOUS
    <2>1. Pointer(Roots, disk, OldB, j, p) = OldB[j][p] /\ (Len(p) # 1 => Parent(p) \in OldS[j])
      BY <1>2 DEF Fits
    <2>2. CASE Len(p) = 1
      BY <2>1, <2>2 DEF Pointer
    <2>3. CASE Len(p) # 1
      <3>1. p \in T[j] /\ C[j][p] = OldB[j][p] /\ C[j][Parent(p)] = OldB[j][Parent(p)]
        BY <1>1, <2>1, <2>3
      <3>2. Pointer(AddrsOf(i, w), w.disk, C, j, p) = C[j][p]
        BY <1>1, <3>1 DEF Fits
      <3>. QED
        BY <2>3, <3>1, <3>2 DEF Pointer
    <2>. QED
      BY <2>2, <2>3
  <1>5. Fits(Roots, w.disk, OldS, OldB)
    BY <1>2, <1>4 DEF Fits
  <1>6. \A j \in Inum : \A p \in OldS[j] : OldB'[j][p] = OldB[j][p]
    <2>1. \A j \in Inum : \A p \in OldS[j] : Follow(Roots[j], w.disk, p) = OldB[j][p]
      BY <1>2, <1>5, FitsFollow
    <2>2. \A j \in Inum : \A p \in OldS'[j] : OldB'[j][p] = Follow(Roots'[j], disk', p)
      <3>1. TablesAre'
        BY Tables, PTL
      <3>. QED
        BY <3>1 DEF TablesAre
    <2>. QED
      BY <1>3, <2>1, <2>2
  <1>7. Fits(Roots, w.disk, OldS, OldB')
    BY <1>5, <1>6, SameBlocks
  <1>. QED
    BY <1>3, <1>6, <1>7

-----------------------------------------------------------------------------
(* What a read returns.                                                    *)

\* Byte k of file i, from 0 on.
Byte(i, k) == disk[OldB[i][Path(k \div BlockSize)]][k % BlockSize]

LEMMA BytePlace ==
    ASSUME NEW size \in Nat, size <= MaxFile * BlockSize, NEW k \in 0..(size - 1)
    PROVE  /\ k \div BlockSize \in 0..(Blocks(size) - 1) /\ k \div BlockSize \in 0..(MaxFile - 1)
           /\ k % BlockSize \in Cell /\ k = (k \div BlockSize) * BlockSize + (k % BlockSize)
           /\ Path(k \div BlockSize) \in Filled(Blocks(size))
  <1>1. BlockSize \in Nat \ {0} /\ MaxFile \in Nat /\ k \in Nat /\ size # 0 /\ size - 1 \in Nat /\ k <= size - 1
    BY Constants
  <1>. DEFINE q == k \div BlockSize  l == (size - 1) \div BlockSize  m == Blocks(size)
  <1>2. q \in Nat /\ k % BlockSize \in Cell /\ k = q * BlockSize + (k % BlockSize)
    BY <1>1, Division DEF Cell
  <1>3. q <= l /\ l \in Nat
    BY <1>1, Division, QuotientGrows
  <1>4. m = l + 1 /\ m \in 0..MaxFile
    BY <1>1, BlocksOf
  <1>. HIDE DEF q, l, m
  <1>5. q \in 0..(m - 1) /\ q \in 0..(MaxFile - 1)
    BY <1>1, <1>2, <1>3, <1>4
  <1>6. Path(q) \in Filled(m)
    BY <1>4, <1>5, FilledFacts
  <1>. QED
    BY <1>2, <1>5, <1>6 DEF q, m

\* How many of n bytes there are at off in a file of size bytes.
Within(size, off, n) == IF off > size THEN 0 ELSE Smaller(off + n, size) - off

\* No block is missing: a read returns the bytes that are there.
LEMMA Reads ==
    ASSUME FsInv, NEW i \in Inum, NEW off \in Nat, NEW n \in Nat
    PROVE  /\ Within(inode[i].size, off, n) \in Nat
           /\ readi(i, off, n) = [k \in 1..Within(inode[i].size, off, n) |-> Byte(i, off + k - 1)]
           /\ \A k \in 1..Within(inode[i].size, off, n) : off + k - 1 \in 0..(inode[i].size - 1)
  <1>. DEFINE size == inode[i].size  len == Within(size, off, n)
              block(k) == Lookup(i, Path((off + k - 1) \div BlockSize))
              missing == {k \in 1..len : block(k) = 0}
  <1>1. size \in Nat /\ size <= MaxFile * BlockSize
    BY RootsType, Constants DEF FsInv
  <1>2. len \in Nat /\ \A k \in 1..len : off + k - 1 \in 0..(size - 1)
    <2>. HIDE DEF size
    <2>. QED
      BY <1>1 DEF Within, Smaller
  <1>. HIDE DEF len
  <1>3. \A k \in 1..len : /\ block(k) = OldB[i][Path((off + k - 1) \div BlockSize)]
                          /\ block(k) # 0
    <2>. SUFFICES ASSUME NEW k \in 1..len
                  PROVE  /\ block(k) = OldB[i][Path((off + k - 1) \div BlockSize)]
                         /\ block(k) # 0
      OBVIOUS
    <2>. DEFINE m == off + k - 1  p == Path(m \div BlockSize)
    <2>1. m \in 0..(size - 1)
      BY <1>2
    <2>. HIDE DEF m
    <2>2. p \in Filled(Blocks(size))
      BY <1>1, <2>1, BytePlace
    <2>. HIDE DEF p
    <2>3. p \in OldS[i] /\ OldB[i][p] = Lookup(i, p)
      BY <2>2 DEF OldS, OldB, Places, Blocks
    <2>4. OldB[i][p] \in Block
      BY <2>3 DEF FsInv, Fits
    <2>5. block(k) = Lookup(i, p)
      BY DEF m, p
    <2>. QED
      BY <2>3, <2>4, <2>5, BlockFacts DEF p, m
  <1>4. missing = {}
    BY <1>3
  <1>5. readi(i, off, n) = [k \in 1..(IF missing = {} THEN len ELSE Min(missing) - 1) |->
                               disk[block(k)][(off + k - 1) % BlockSize]]
    BY DEF readi, len, Within
  <1>. HIDE DEF missing, block
  <1>6. readi(i, off, n) = [k \in 1..len |-> disk[block(k)][(off + k - 1) % BlockSize]]
    BY <1>4, <1>5
  <1>7. \A k \in 1..len : disk[block(k)][(off + k - 1) % BlockSize] = Byte(i, off + k - 1)
    BY <1>3 DEF Byte, block
  <1>8. readi(i, off, n) = [k \in 1..len |-> Byte(i, off + k - 1)]
    BY <1>6, <1>7
  <1>. QED
    BY <1>2, <1>8 DEF len

-----------------------------------------------------------------------------
(* The invariant.                                                          *)

LEMMA Untouched ==
    ASSUME UNCHANGED image
    PROVE  /\ Roots' = Roots /\ OldS' = OldS /\ OldB' = OldB
           /\ inode' = inode /\ disk' = disk /\ used' = used
  BY DEF image, Roots, OldS, OldB, Places, Lookup

LEMMA InvStays ==
    ASSUME FsInv, UNCHANGED <<image, next_datablock>>,
           phase' \in {"mkfs", "kernel", "exited", "panicked"},
           phase' = "mkfs" => phase = "mkfs" /\ got' = <<>>,
           phase' = "kernel" => phase \in {"mkfs", "kernel"},
           file' \in [OpenFile -> [inum : Inum \cup {0}, off : Nat]],
           \A f \in OpenFile : file'[f] = Closed \/ file'[f].inum \in Inum
    PROVE  FsInv'
  <1>1. /\ Roots' = Roots /\ OldS' = OldS /\ OldB' = OldB
        /\ inode' = inode /\ disk' = disk /\ used' = used /\ next_datablock' = next_datablock
    BY Untouched
  <1>2. TypeOK'
    BY <1>1 DEF FsInv, TypeOK
  <1>3. Fits(Roots, disk, OldS, OldB)
    BY DEF FsInv
  <1>4. phase' \in {"mkfs", "kernel"} => Blank(Roots, disk, OldS, OldB) /\ Marks(used, OldS, OldB)
    BY DEF FsInv
  <1>. QED
    BY <1>1, <1>2, <1>3, <1>4 DEF FsInv

LEMMA InitInv == Init => FsInv
  <1>. SUFFICES ASSUME Init PROVE FsInv
    OBVIOUS
  <1>1. /\ BlockSize \in Nat \ {0} /\ DataStart \in Nat \ {0} /\ NBlocks \in Nat /\ DataStart <= NBlocks
        /\ MaxFile * BlockSize \in Nat
    BY Constants
  <1>2. TypeOK
    <2>1. 0 \in 0..(MaxFile * BlockSize) /\ 0 \in 0..(NBlocks - 1) /\ 0..(DataStart - 1) \subseteq 0..(NBlocks - 1)
      BY <1>1
    <2>2. inode \in [Inum -> [size : 0..(MaxFile * BlockSize), addrs : [Addr -> 0..(NBlocks - 1)]]]
      BY <2>1 DEF Init
    <2>3. disk \in [Block -> [Cell -> Nat]]
      BY DEF Init, Zero
    <2>4. file \in [OpenFile -> [inum : Inum \cup {0}, off : Nat]] /\ \A f \in OpenFile : file[f] = Closed
      BY DEF Init, Closed
    <2>. QED
      BY <2>1, <2>2, <2>3, <2>4 DEF Init, TypeOK
  <1>3. \A j \in Inum : OldS[j] = {}
    <2>1. \A j \in Inum : inode[j].size = 0
      BY DEF Init
    <2>2. Blocks(0) = 0
      BY BlocksOf
    <2>3. Filled(0) = {}
      BY DEF Filled
    <2>. QED
      BY <2>1, <2>2, <2>3, Tables DEF TablesAre
  <1>4. Fits(Roots, disk, OldS, OldB)
    BY <1>3 DEF Fits
  <1>5. Blank(Roots, disk, OldS, OldB)
    <2>. SUFFICES ASSUME NEW j \in Inum, NEW p \in Tree, Len(p) = 1
                  PROVE  Roots[j][p[1]] = 0
      BY <1>3 DEF Blank, Pointer
    <2>1. p[1] \in Addr
      BY TreeFacts
    <2>. QED
      BY <2>1 DEF Init, Roots
  <1>6. Marks(used, OldS, OldB)
    BY <1>1, <1>3 DEF Init, Marks
  <1>. QED
    BY <1>1, <1>2, <1>4, <1>5, <1>6 DEF Init, FsInv

\* After a write for which there were blocks.
LEMMA DoneInv ==
    ASSUME FsInv, phase \in {"mkfs", "kernel"}, NEW i \in Inum, NEW off \in Nat, NEW s \in Seq(Nat),
           off <= inode[i].size, off + Len(s) <= MaxFile * BlockSize,
           NEW w, w = Turns(i, off, s), ~w.full, disk' = w.disk, used' = w.used,
           inode' = [inode EXCEPT ![i] = [size |-> Larger(off + Len(s), inode[i].size),
                                          addrs |-> w.addrs]],
           phase' = phase,
           \/ phase = "mkfs" /\ next_datablock' = w.next /\ file' = file /\ got' = got
           \/ phase = "kernel" /\ next_datablock' = next_datablock
              /\ \E f \in OpenFile : file[f] # Closed /\ file' = [file EXCEPT ![f].off = off + Len(s)]
    PROVE  FsInv'
  <1>1. PICK T, C : Looped(i, off, s, Last(off, s) + 1, w, T, C)
    BY TurnsLoop
  <1>2. /\ inode' \in [Inum -> [size : 0..(MaxFile * BlockSize), addrs : [Addr -> 0..(NBlocks - 1)]]]
        /\ Fits(Roots', disk', OldS', OldB') /\ Blank(Roots', disk', OldS', OldB')
        /\ Marks(used', OldS', OldB')
    <2>1. Stores(i, off, s, w)
      BY DEF Stores
    <2>. QED
      BY <1>1, <2>1, WriteDone
  <1>3. w \in Works /\ (phase = "mkfs" => w.next \in DataStart..NBlocks /\ w.used = 0..(w.next - 1))
    BY <1>1 DEF Looped, WorkOK
  <1>4. /\ disk' \in [Block -> [Cell -> Nat]] /\ used' \subseteq 0..(NBlocks - 1)
        /\ next_datablock' \in Nat
    BY <1>3 DEF Works, Disks, FsInv
  <1>5. /\ file' \in [OpenFile -> [inum : Inum \cup {0}, off : Nat]]
        /\ \A f \in OpenFile : file'[f] = Closed \/ file'[f].inum \in Inum
    <2>1. /\ file \in [OpenFile -> [inum : Inum \cup {0}, off : Nat]]
          /\ \A f \in OpenFile : file[f] = Closed \/ file[f].inum \in Inum
      BY DEF FsInv, TypeOK
    <2>2. CASE file' = file
      BY <2>1, <2>2
    <2>3. ASSUME NEW f \in OpenFile, file[f] # Closed, file' = [file EXCEPT ![f].off = off + Len(s)]
          PROVE  /\ file' \in [OpenFile -> [inum : Inum \cup {0}, off : Nat]]
                 /\ \A g \in OpenFile : file'[g] = Closed \/ file'[g].inum \in Inum
      <3>. DEFINE o == off + Len(s)
      <3>1. o \in Nat /\ file[f].inum \in Inum
        BY <2>1, <2>3
      <3>. HIDE DEF o
      <3>2. file' = [file EXCEPT ![f].off = o]
        BY <2>3 DEF o
      <3>3. file' \in [OpenFile -> [inum : Inum \cup {0}, off : Nat]]
        BY <2>1, <3>1, <3>2, SMTT(30)
      <3>4. \A g \in OpenFile : file'[g] = file[g] \/ file'[g].inum = file[f].inum
        BY <2>1, <3>2
      <3>. QED
        BY <2>1, <3>1, <3>3, <3>4
    <2>. QED
      BY <2>2, <2>3
  <1>6. TypeOK'
    BY <1>2, <1>4, <1>5 DEF TypeOK
  <1>7. phase' = "mkfs" => /\ next_datablock' \in DataStart..NBlocks /\ used' = 0..(next_datablock' - 1)
                           /\ got' = <<>>
    BY <1>3 DEF FsInv
  <1>. QED
    BY <1>2, <1>4, <1>6, <1>7 DEF FsInv

\* After a write for which there were not.
LEMMA StopInv ==
    ASSUME FsInv, phase = "kernel", NEW i \in Inum, NEW off \in Nat, NEW s \in Seq(Nat),
           off <= inode[i].size, off + Len(s) <= MaxFile * BlockSize,
           NEW w, w = Turns(i, off, s), disk' = w.disk, used' = w.used,
           UNCHANGED <<inode, file, next_datablock>>, phase' = "panicked"
    PROVE  FsInv'
  <1>1. PICK T, C : Looped(i, off, s, Last(off, s) + 1, w, T, C)
    BY TurnsLoop
  <1>2. Fits(Roots', disk', OldS', OldB')
    BY <1>1, WriteStops
  <1>3. w \in Works
    BY <1>1 DEF Looped, WorkOK
  <1>4. disk' \in [Block -> [Cell -> Nat]] /\ used' \subseteq 0..(NBlocks - 1)
    BY <1>3 DEF Works, Disks
  <1>5. TypeOK'
    BY <1>4 DEF TypeOK, FsInv
  <1>. QED
    BY <1>2, <1>5 DEF FsInv

LEMMA Opened ==
    ASSUME TypeOK, NEW f \in OpenFile, file[f] # Closed
    PROVE  file[f].inum \in Inum /\ file[f].off \in Nat
  BY DEF TypeOK

\* What is written are bytes, and when it is not refused there are few of them.
LEMMA Written ==
    ASSUME TypeOK, NEW i \in Inum, NEW off \in Nat, off <= inode[i].size, NEW s \in Payload(i, off)
    PROVE  s \in Seq(Nat)
  <1>. DEFINE m == MaxFile * BlockSize
  <1>1. inode[i].size \in 0..m /\ m \in Nat
    BY RootsType, Constants
  <1>. HIDE DEF m
  <1>2. off \in 0..m
    BY <1>1
  <1>. QED
    BY <1>2, FileSystemAssumption DEF m

\* What the steps do that leave the disk as it is.
LEMMA ReadInv ==
    ASSUME FsInv, NEW f \in OpenFile, NEW n \in ReadLen, fs_read(f, n)
    PROVE  FsInv'
  <1>1. file[f].inum \in Inum /\ file[f].off \in Nat /\ n \in Nat
    BY Opened, FileSystemAssumption DEF FsInv, fs_read
  <1>. DEFINE m == Within(inode[file[f].inum].size, file[f].off, n)
  <1>2. m \in Nat /\ readi(file[f].inum, file[f].off, n)
                       = [k \in 1..m |-> Byte(file[f].inum, file[f].off + k - 1)]
    BY <1>1, Reads
  <1>. HIDE DEF m
  <1>3. Len(got') = m
    <2>1. got' = [k \in 1..m |-> Byte(file[f].inum, file[f].off + k - 1)]
      BY <1>2 DEF fs_read
    <2>. QED
      BY <1>2, <2>1
  <1>4. file' = [file EXCEPT ![f].off = file[f].off + m]
    BY <1>3 DEF fs_read, FsInv, TypeOK
  <1>5. /\ file \in [OpenFile -> [inum : Inum \cup {0}, off : Nat]]
        /\ \A g \in OpenFile : file[g] = Closed \/ file[g].inum \in Inum
    BY DEF FsInv, TypeOK
  <1>6. file[f].off + m \in Nat
    BY <1>1, <1>2
  <1>7. /\ file' \in [OpenFile -> [inum : Inum \cup {0}, off : Nat]]
        /\ \A g \in OpenFile : file'[g] = Closed \/ file'[g].inum \in Inum
    BY <1>1, <1>4, <1>5, <1>6
  <1>. QED
    BY <1>7, InvStays DEF fs_read

LEMMA AppendInv ==
    ASSUME FsInv, NEW i \in Inum, NEW s \in Payload(i, inode[i].size), iappend(i, s)
    PROVE  FsInv'
  <1>. DEFINE off == inode[i].size  w == Appended(i, s)
  <1>1. off \in Nat /\ TypeOK /\ off <= off
    BY RootsType, Constants DEF FsInv
  <1>2. s \in Seq(Nat)
    BY <1>1, Written
  <1>3. CASE off + Len(s) > MaxFile * BlockSize \/ w.full
    <2>1. phase' = "exited" /\ UNCHANGED <<image, next_datablock>> /\ file' = file
      BY <1>3 DEF iappend
    <2>. QED
      BY <2>1, InvStays DEF FsInv, TypeOK
  <1>4. CASE ~(off + Len(s) > MaxFile * BlockSize) /\ ~w.full
    <2>1. /\ phase = "mkfs" /\ phase' = phase /\ disk' = w.disk /\ used' = w.used
          /\ next_datablock' = w.next /\ file' = file /\ got' = got
          /\ inode' = [inode EXCEPT ![i] = [size |-> off + Len(s), addrs |-> w.addrs]]
      BY <1>4 DEF iappend
    <2>2. w = Turns(i, off, s)
      BY DEF Appended
    <2>. HIDE DEF w
    <2>3. off + Len(s) = Larger(off + Len(s), off) /\ off + Len(s) <= MaxFile * BlockSize
      <3>. DEFINE m == MaxFile * BlockSize
      <3>1. m \in Nat /\ Len(s) \in Nat
        BY <1>2, Constants
      <3>. HIDE DEF off, m
      <3>. QED
        BY <1>1, <1>4, <3>1 DEF Larger, m
    <2>4. inode' = [inode EXCEPT ![i] = [size |-> Larger(off + Len(s), inode[i].size),
                                         addrs |-> w.addrs]]
      BY <2>1, <2>3
    <2>. HIDE DEF off
    <2>5. off <= inode[i].size
      BY <1>1 DEF off
    <2>6. /\ phase \in {"mkfs", "kernel"} /\ phase' = phase
          /\ phase = "mkfs" /\ next_datablock' = w.next /\ file' = file /\ got' = got
      BY <2>1
    <2>7. disk' = w.disk /\ used' = w.used /\ ~w.full
      BY <1>4, <2>1
    <2>. QED
      BY <1>1, <1>2, <2>2, <2>3, <2>4, <2>5, <2>6, <2>7, DoneInv
  <1>. QED
    BY <1>3, <1>4

LEMMA WriteInv ==
    ASSUME FsInv, NEW f \in OpenFile, NEW s \in Payload(file[f].inum, file[f].off), fs_write(f, s)
    PROVE  FsInv'
  <1>. DEFINE i == file[f].inum  off == file[f].off  w == writei(i, off, s)
              refused == off > inode[i].size \/ off + Len(s) > MaxFile * BlockSize
  <1>1. TypeOK /\ phase = "kernel" /\ file[f] # Closed
    BY DEF FsInv, fs_write
  <1>2. i \in Inum /\ off \in Nat /\ inode[i].size \in Nat
    BY <1>1, Opened, RootsType, Constants
  <1>3. CASE refused
    <2>1. UNCHANGED <<image, next_datablock, phase, file>>
      BY <1>3 DEF fs_write
    <2>. QED
      BY <1>1, <2>1, InvStays DEF TypeOK
  <1>4. CASE ~refused
    <2>1. /\ disk' = w.disk /\ used' = w.used /\ next_datablock' = next_datablock
          /\ w.full => phase' = "panicked" /\ UNCHANGED <<inode, file>>
          /\ ~w.full => /\ inode' = [inode EXCEPT ![i] = [size |-> Larger(off + Len(s), inode[i].size),
                                                          addrs |-> w.addrs]]
                        /\ file' = [file EXCEPT ![f].off = off + Len(s)]
                        /\ phase' = phase
      BY <1>4 DEF fs_write, iupdate
    <2>2. off <= inode[i].size
      <3>. HIDE DEF off, i
      <3>. QED
        BY <1>2, <1>4
    <2>3. s \in Seq(Nat)
      BY <1>1, <1>2, <2>2, Written
    <2>4. off + Len(s) <= MaxFile * BlockSize
      <3>. DEFINE m == MaxFile * BlockSize
      <3>1. m \in Nat /\ Len(s) \in Nat
        BY <2>3, Constants
      <3>. HIDE DEF off, i, m
      <3>. QED
        BY <1>2, <1>4, <3>1 DEF m
    <2>5. w = Turns(i, off, s)
      BY DEF writei
    <2>. HIDE DEF w, i, off
    <2>6. CASE w.full
      BY <1>1, <1>2, <2>1, <2>2, <2>3, <2>4, <2>5, <2>6, StopInv
    <2>7. CASE ~w.full
      BY <1>1, <1>2, <2>1, <2>2, <2>3, <2>4, <2>5, <2>7, DoneInv
    <2>. QED
      BY <2>6, <2>7
  <1>. QED
    BY <1>3, <1>4

LEMMA NextInv == FsInv /\ [Next]_vars => FsInv'
  <1>. SUFFICES ASSUME FsInv, [Next]_vars PROVE FsInv'
    OBVIOUS
  <1>0. /\ phase \in {"mkfs", "kernel", "exited", "panicked"}
        /\ file \in [OpenFile -> [inum : Inum \cup {0}, off : Nat]]
        /\ \A f \in OpenFile : file[f] = Closed \/ file[f].inum \in Inum
    BY DEF FsInv, TypeOK
  <1>1. ASSUME NEW i \in Inum, NEW s \in Payload(i, inode[i].size), iappend(i, s) PROVE FsInv'
    BY <1>1, AppendInv
  <1>2. CASE init_fs
    BY <1>0, <1>2, InvStays DEF init_fs
  <1>3. ASSUME NEW f \in OpenFile, NEW i \in Inum, fs_open(f, i) PROVE FsInv'
    <2>1. /\ file' \in [OpenFile -> [inum : Inum \cup {0}, off : Nat]]
          /\ \A g \in OpenFile : file'[g] = Closed \/ file'[g].inum \in Inum
      BY <1>0, <1>3 DEF fs_open
    <2>. QED
      BY <1>0, <1>3, <2>1, InvStays DEF fs_open
  <1>4. ASSUME NEW f \in OpenFile, fs_close(f) PROVE FsInv'
    <2>1. /\ file' \in [OpenFile -> [inum : Inum \cup {0}, off : Nat]]
          /\ \A g \in OpenFile : file'[g] = Closed \/ file'[g].inum \in Inum
      <3>1. Closed \in [inum : Inum \cup {0}, off : Nat]
        BY DEF Closed
      <3>. QED
        BY <1>0, <1>4, <3>1 DEF fs_close
    <2>. QED
      BY <1>0, <1>4, <2>1, InvStays DEF fs_close
  <1>5. ASSUME NEW f \in OpenFile, NEW off \in Offset, fs_seek(f, off) PROVE FsInv'
    <2>1. /\ file' \in [OpenFile -> [inum : Inum \cup {0}, off : Nat]]
          /\ \A g \in OpenFile : file'[g] = Closed \/ file'[g].inum \in Inum
      BY <1>0, <1>5, FileSystemAssumption DEF fs_seek
    <2>. QED
      BY <1>0, <1>5, <2>1, InvStays DEF fs_seek
  <1>6. ASSUME NEW f \in OpenFile, NEW s \in Payload(file[f].inum, file[f].off), fs_write(f, s)
        PROVE  FsInv'
    BY <1>6, WriteInv
  <1>7. ASSUME NEW f \in OpenFile, NEW n \in ReadLen, fs_read(f, n) PROVE FsInv'
    BY <1>7, ReadInv
  <1>8. CASE UNCHANGED vars
    BY <1>0, <1>8, InvStays DEF vars, FsInv, image
  <1>. QED
    BY <1>1, <1>2, <1>3, <1>4, <1>5, <1>6, <1>7, <1>8 DEF Next

\* Every place of every file has its own block, the bitmap has the layout and those
\* blocks and no others, and all variables have their types.
LEMMA InvConsistent == FsInv => BlocksConsistent
  <1>. SUFFICES ASSUME FsInv PROVE BlocksConsistent
    OBVIOUS
  <1>1. \A j \in Inum : \A p \in Places(j) : p \in OldS[j] /\ OldB[j][p] = Lookup(j, p)
    BY DEF OldS, OldB
  <1>2. \A x : x \in Owned <=> \E j \in Inum : \E p \in Places(j) : x = <<j, p>>
    BY DEF Owned
  <1>3. NoBlockShared
    <2>. SUFFICES ASSUME NEW x \in Owned, NEW y \in Owned, Lookup(x[1], x[2]) = Lookup(y[1], y[2])
                  PROVE  x = y
      BY DEF NoBlockShared
    <2>4. PICK j \in Inum : \E p \in Places(j) : x = <<j, p>>
      BY <1>2
    <2>1. PICK p \in Places(j) : x = <<j, p>>
      BY <2>4
    <2>5. PICK k \in Inum : \E q \in Places(k) : y = <<k, q>>
      BY <1>2
    <2>2. PICK q \in Places(k) : y = <<k, q>>
      BY <2>5
    <2>3. OldB[j][p] = OldB[k][q] /\ p \in OldS[j] /\ q \in OldS[k]
      BY <1>1, <2>1, <2>2
    <2>. QED
      BY <2>1, <2>2, <2>3 DEF FsInv, Fits
  <1>4. BitmapExact
    <2>. SUFFICES ASSUME phase \in {"mkfs", "kernel"}
                  PROVE  used \ (0..(DataStart - 1)) = {Lookup(x[1], x[2]) : x \in Owned}
      BY DEF BitmapExact
    <2>1. Marks(used, OldS, OldB) /\ Fits(Roots, disk, OldS, OldB) /\ used \subseteq 0..(NBlocks - 1)
      BY DEF FsInv, TypeOK
    <2>2. ASSUME NEW b \in used \ (0..(DataStart - 1))
          PROVE  \E x \in Owned : b = Lookup(x[1], x[2])
      <3>1. b >= DataStart
        BY <2>1, Constants
      <3>2. PICK j \in Inum : \E p \in OldS[j] : OldB[j][p] = b
        BY <2>1, <3>1 DEF Marks
      <3>3. PICK p \in OldS[j] : OldB[j][p] = b
        BY <3>2
      <3>4. p \in Places(j)
        BY DEF OldS
      <3>5. <<j, p>> \in Owned /\ Lookup(j, p) = b
        BY <1>1, <1>2, <3>3, <3>4
      <3>. QED
        BY <3>5
    <2>3. ASSUME NEW x \in Owned
          PROVE  Lookup(x[1], x[2]) \in used \ (0..(DataStart - 1))
      <3>0. PICK j \in Inum : \E p \in Places(j) : x = <<j, p>>
        BY <1>2
      <3>1. PICK p \in Places(j) : x = <<j, p>>
        BY <3>0
      <3>2. p \in OldS[j] /\ OldB[j][p] = Lookup(j, p) /\ x[1] = j /\ x[2] = p
        BY <1>1, <3>1
      <3>3. OldB[j][p] \in used /\ OldB[j][p] \in Block
        BY <2>1, <3>2 DEF Marks, Fits
      <3>4. ~(OldB[j][p] \in 0..(DataStart - 1))
        BY <3>3, BlockFacts, Constants
      <3>. QED
        BY <3>2, <3>3, <3>4
    <2>. QED
      BY <2>2, <2>3
  <1>. QED
    BY <1>3, <1>4 DEF BlocksConsistent, FsInv

\* The blocks of the files are consistent in every state, whatever the builder appends
\* and the kernel's calls write: no block is shared, handed out twice or lost (iappend
\* and balloc of mkfs.c, writei and balloc of kernel/fs).
THEOREM BlocksAlwaysConsistent == Spec => []BlocksConsistent
  <1>1. Spec => []FsInv
    BY InitInv, NextInv, PTL DEF Spec
  <1>. QED
    BY <1>1, InvConsistent, PTL

-----------------------------------------------------------------------------
(* Files are sequences of bytes.                                           *)

\* All bytes of all files, as the blocks of the trees have them.
Bytes == [i \in Inum |-> [k \in 0..(inode[i].size - 1) |-> Byte(i, k)]]

ContentIs ==
    /\ Content = [i \in Inum |-> Content[i]]
    /\ \A i \in Inum : /\ inode[i].size \in Nat /\ inode[i].size <= MaxFile * BlockSize
                       /\ Content[i] \in Seq(Nat) /\ Len(Content[i]) = inode[i].size
                       /\ \A k \in 1..inode[i].size : Content[i][k] = Bytes[i][k - 1]

LEMMA ByteType ==
    ASSUME FsInv, NEW i \in Inum, NEW k \in 0..(inode[i].size - 1)
    PROVE  Byte(i, k) \in Nat
  <1>1. inode[i].size \in Nat /\ inode[i].size <= MaxFile * BlockSize
    BY RootsType, Constants DEF FsInv
  <1>. DEFINE p == Path(k \div BlockSize)
  <1>2. p \in OldS[i] /\ k % BlockSize \in Cell
    BY <1>1, BytePlace, Tables DEF TablesAre
  <1>. HIDE DEF p
  <1>3. OldB[i][p] \in Block /\ disk \in Disks
    BY <1>2, RootsType DEF FsInv, Fits
  <1>4. disk[OldB[i][p]][k % BlockSize] \in Nat
    BY <1>2, <1>3 DEF Disks
  <1>. QED
    BY <1>4 DEF p, Byte

LEMMA ContentHolds == FsInv => ContentIs
  <1>. SUFFICES ASSUME FsInv, NEW i \in Inum
                PROVE  /\ inode[i].size \in Nat /\ inode[i].size <= MaxFile * BlockSize
                       /\ Content[i] \in Seq(Nat) /\ Len(Content[i]) = inode[i].size
                       /\ \A k \in 1..inode[i].size : Content[i][k] = Bytes[i][k - 1]
    <2>1. Content = [i \in Inum |-> Content[i]]
      BY DEF Content
    <2>. QED
      BY <2>1 DEF ContentIs
  <1>. DEFINE size == inode[i].size
  <1>1. size \in Nat /\ size <= MaxFile * BlockSize
    BY RootsType, Constants DEF FsInv
  <1>2. Within(size, 0, size) = size
    <2>. HIDE DEF size
    <2>. QED
      BY <1>1 DEF Within, Smaller
  <1>3. Content[i] = [k \in 1..size |-> Byte(i, 0 + k - 1)]
    <2>1. Content[i] = readi(i, 0, size)
      BY DEF Content
    <2>2. readi(i, 0, size) = [k \in 1..Within(size, 0, size) |-> Byte(i, 0 + k - 1)]
      BY <1>1, Reads
    <2>. QED
      BY <1>2, <2>1, <2>2, Zenon
  <1>4. \A k \in 1..size : 0 + k - 1 = k - 1 /\ k - 1 \in 0..(size - 1)
    BY <1>1
  <1>5. \A k \in 1..size : Byte(i, k - 1) \in Nat
    BY <1>4, ByteType
  <1>6. Content[i] = [k \in 1..size |-> Byte(i, k - 1)]
    BY <1>3, <1>4
  <1>7. \A k \in 1..size : Bytes[i][k - 1] = Byte(i, k - 1)
    BY <1>4 DEF Bytes
  <1>. HIDE DEF size
  <1>8. Content[i] \in [1..size -> Nat]
    BY <1>5, <1>6
  <1>9. Content[i] \in Seq(Nat) /\ Len(Content[i]) = size
    BY <1>1, <1>8
  <1>. QED
    BY <1>1, <1>6, <1>7, <1>9 DEF size

\* Where byte k of a file is among the bytes written at off.
LEMMA ByteIndex ==
    ASSUME NEW k \in Nat, NEW off \in Nat, NEW s \in Seq(Nat),
           NEW m \in Nat, NEW c \in Nat, k = m * BlockSize + c
    PROVE  /\ m * BlockSize + c - off + 1 = k - off + 1
           /\ (m * BlockSize + c - off + 1 \in 1..Len(s)) <=> (off <= k /\ k < off + Len(s))
  <1>1. Len(s) \in Nat /\ m * BlockSize \in Nat
    BY Constants
  <1>. QED
    BY <1>1, SMTT(30)

\* The blocks of the bytes off .. off + Len(s) - 1 are those of the turns.
LEMMA TurnOfByte ==
    ASSUME NEW k \in Nat, NEW off \in Nat, NEW s \in Seq(Nat), off <= k, k < off + Len(s)
    PROVE  k \div BlockSize \in First(off)..Last(off, s)
  <1>1. Len(s) \in Nat /\ s # <<>> /\ BlockSize \in Nat \ {0}
    BY Constants
  <1>. DEFINE e == off + Len(s) - 1
  <1>2. e \in Nat /\ k <= e
    BY <1>1
  <1>. HIDE DEF e
  <1>3. off \div BlockSize <= k \div BlockSize /\ k \div BlockSize <= e \div BlockSize
    BY <1>1, <1>2, QuotientGrows
  <1>4. off \div BlockSize \in Nat /\ k \div BlockSize \in Nat /\ e \div BlockSize \in Nat
    BY <1>1, <1>2, Division
  <1>5. First(off) = off \div BlockSize /\ Last(off, s) = e \div BlockSize
    BY <1>1 DEF First, Last, e
  <1>. QED
    BY <1>3, <1>4, <1>5

\* The bytes after a write for which there were blocks.
LEMMA BytesDone ==
    ASSUME FsInv, NEW i \in Inum, NEW off \in Nat, NEW s \in Seq(Nat), NEW w, NEW T, NEW C,
           off <= inode[i].size, off + Len(s) <= MaxFile * BlockSize,
           Looped(i, off, s, Last(off, s) + 1, w, T, C), ~w.full,
           Stores(i, off, s, w)
    PROVE  \A j \in Inum : \A k \in 0..(inode'[j].size - 1) :
              Bytes'[j][k] = IF j = i /\ off <= k /\ k < off + Len(s) THEN s[k - off + 1]
                             ELSE Bytes[j][k]
  <1>15. OldS' = T /\ \A l \in Inum : \A q \in T[l] : OldB'[l][q] = C[l][q]
    BY WriteDone
  <1>16. inode' \in [Inum -> [size : 0..(MaxFile * BlockSize), addrs : [Addr -> 0..(NBlocks - 1)]]]
    BY WriteDone
  <1>. SUFFICES ASSUME NEW j \in Inum, NEW k \in 0..(inode'[j].size - 1)
                PROVE  Bytes'[j][k] = IF j = i /\ off <= k /\ k < off + Len(s) THEN s[k - off + 1]
                                      ELSE Bytes[j][k]
    OBVIOUS
  <1>. DEFINE m == k \div BlockSize  c == k % BlockSize  p == Path(m)
              covered == off <= k /\ k < off + Len(s)
  <1>0. inode \in [Inum -> [size : 0..(MaxFile * BlockSize), addrs : [Addr -> 0..(NBlocks - 1)]]]
    BY DEF FsInv, TypeOK
  <1>1. /\ OldS' = T /\ \A q \in T[j] : OldB'[j][q] = C[j][q]
        /\ inode' \in [Inum -> [size : 0..(MaxFile * BlockSize), addrs : [Addr -> 0..(NBlocks - 1)]]]
    BY <1>15, <1>16
  <1>2. /\ inode'[j].size \in Nat /\ inode'[j].size <= MaxFile * BlockSize
        /\ inode[j].size \in Nat /\ inode[j].size <= MaxFile * BlockSize
        /\ k \in Nat /\ k < inode'[j].size
    <2>. DEFINE M == MaxFile * BlockSize
    <2>1. M \in Nat /\ inode'[j].size \in 0..M /\ inode[j].size \in 0..M
      BY <1>0, <1>1, Constants
    <2>. HIDE DEF M
    <2>. QED
      BY <2>1 DEF M
  <1>3. /\ m \in 0..(MaxFile - 1) /\ c \in Cell /\ k = m * BlockSize + c
        /\ p \in Filled(Blocks(inode'[j].size))
    BY <1>2, BytePlace
  <1>4. p \in T[j]
    <2>1. TablesAre'
      BY Tables, PTL
    <2>. QED
      BY <1>1, <1>3, <2>1 DEF TablesAre
  <1>5. Bytes'[j][k] = w.disk[C[j][p]][c]
    <2>1. Bytes'[j][k] = disk'[OldB'[j][p]][c]
      BY DEF Bytes, Byte
    <2>. QED
      BY <1>1, <1>4, <2>1 DEF Stores
  <1>6. m \in Nat /\ c \in Nat
    BY <1>3, Constants DEF Cell
  <1>7. ASSUME k < inode[j].size
        PROVE  p \in OldS[j] /\ Bytes[j][k] = disk[OldB[j][p]][c]
    <2>1. k \in 0..(inode[j].size - 1)
      BY <1>2, <1>7
    <2>2. p \in Filled(Blocks(inode[j].size))
      BY <1>2, <2>1, BytePlace
    <2>3. p \in OldS[j]
      BY <2>2, Tables DEF TablesAre
    <2>. QED
      BY <2>1, <2>3 DEF Bytes, Byte
  <1>8. \A q \in OldS[j] : q \in T[j] /\ C[j][q] = OldB[j][q]
    BY DEF Looped
  <1>9. inode'[j].size = IF j = i THEN Larger(off + Len(s), inode[i].size) ELSE inode[j].size
    BY <1>0 DEF Stores
  <1>. DEFINE d == m * BlockSize + c - off + 1
  <1>10. d = k - off + 1 /\ (d \in 1..Len(s) <=> covered)
    BY <1>2, <1>3, <1>6, ByteIndex
  <1>11. Leaf(p)
    BY <1>3, PathFacts
  <1>12. CASE j # i
    <2>1. p \in OldS[j] /\ Bytes[j][k] = disk[OldB[j][p]][c]
      BY <1>2, <1>7, <1>9, <1>12
    <2>2. w.disk[OldB[j][p]] = disk[OldB[j][p]]
      BY <1>11, <1>12, <2>1 DEF Looped
    <2>. HIDE DEF p, c
    <2>. QED
      BY <1>5, <1>8, <1>12, <2>1, <2>2
  <1>13. CASE j = i /\ covered
    <2>1. m \in First(off)..Last(off, s)
      BY <1>2, <1>13, TurnOfByte
    <2>2. m \in (off \div BlockSize)..((Last(off, s) + 1) - 1)
      <3>1. (Last(off, s) + 1) - 1 = Last(off, s)
        BY TurnBounds
      <3>. QED
        BY <2>1, <3>1 DEF First
    <2>3. w.disk[C[i][Path(m)]][c] = s[d]
      <3>. HIDE DEF m, c
      <3>. QED
        BY <1>3, <1>10, <1>13, <2>2 DEF Looped
    <2>. HIDE DEF p, c, d, m
    <2>. QED
      BY <1>5, <1>10, <1>13, <2>3 DEF p
  <1>14. CASE j = i /\ ~covered
    <2>1. k < inode[i].size
      <3>1. Len(s) \in Nat
        OBVIOUS
      <3>. QED
        BY <1>2, <1>9, <1>14, <3>1 DEF Larger
    <2>2. p \in OldS[i] /\ Bytes[i][k] = disk[OldB[i][p]][c]
      BY <1>7, <1>14, <2>1
    <2>3. w.disk[OldB[i][Path(m)]][c] = disk[OldB[i][Path(m)]][c]
      <3>. HIDE DEF m, c
      <3>. QED
        BY <1>3, <1>10, <1>14, <2>2 DEF Looped, p
    <2>. HIDE DEF p, c, d, m
    <2>. QED
      BY <1>5, <1>8, <1>14, <2>2, <2>3 DEF p
  <1>. QED
    BY <1>12, <1>13, <1>14

LEMMA ContentDone ==
    ASSUME ContentIs, ContentIs', NEW i \in Inum, NEW off \in Nat, NEW s \in Seq(Nat), NEW w,
           off <= inode[i].size, Stores(i, off, s, w),
           inode \in [Inum -> [size : 0..(MaxFile * BlockSize), addrs : [Addr -> 0..(NBlocks - 1)]]],
           \A j \in Inum : \A k \in 0..(inode'[j].size - 1) :
              Bytes'[j][k] = IF j = i /\ off <= k /\ k < off + Len(s) THEN s[k - off + 1]
                             ELSE Bytes[j][k]
    PROVE  Content' = [Content EXCEPT ![i] = Files!Overlaid(@, off, s)]
  <1>. DEFINE C == Content  D == Content'
  <1>1. /\ C = [j \in Inum |-> C[j]]
        /\ \A j \in Inum : /\ inode[j].size \in Nat /\ C[j] \in Seq(Nat) /\ Len(C[j]) = inode[j].size
                           /\ \A k \in 1..inode[j].size : C[j][k] = Bytes[j][k - 1]
    BY DEF ContentIs
  <1>2. /\ D = [j \in Inum |-> D[j]]
        /\ \A j \in Inum : /\ inode'[j].size \in Nat /\ D[j] \in Seq(Nat) /\ Len(D[j]) = inode'[j].size
                           /\ \A k \in 1..inode'[j].size : D[j][k] = Bytes'[j][k - 1]
    BY DEF ContentIs
  <1>3. \A j \in Inum : inode'[j].size = IF j = i THEN Larger(off + Len(s), inode[i].size)
                                         ELSE inode[j].size
    BY DEF Stores
  <1>. HIDE DEF C, D
  <1>4. ASSUME NEW j \in Inum, j # i PROVE D[j] = C[j]
    <2>1. Len(D[j]) = Len(C[j]) /\ Len(C[j]) = inode[j].size /\ inode[j].size \in Nat
      <3>1. Len(D[j]) = inode'[j].size /\ Len(C[j]) = inode[j].size /\ inode[j].size \in Nat
        BY <1>1, <1>2
      <3>2. inode'[j].size = inode[j].size
        BY <1>3, <1>4
      <3>. QED
        BY <3>1, <3>2
    <2>2. \A k \in 1..Len(C[j]) : D[j][k] = C[j][k]
      <3>. SUFFICES ASSUME NEW k \in 1..inode[j].size PROVE D[j][k] = C[j][k]
        BY <2>1
      <3>1. k - 1 \in 0..(inode'[j].size - 1) /\ inode'[j].size = inode[j].size
        BY <1>3, <1>4, <2>1
      <3>2. Bytes'[j][k - 1] = Bytes[j][k - 1]
        BY <1>4, <3>1
      <3>. QED
        BY <1>1, <1>2, <3>1, <3>2
    <2>3. D[j] \in Seq(Nat) /\ C[j] \in Seq(Nat)
      BY <1>1, <1>2
    <2>. QED
      BY <2>1, <2>2, <2>3, SeqEqual
  <1>5. D[i] = Files!Overlaid(C[i], off, s)
    <2>. DEFINE n == Files!Larger(Len(C[i]), off + Len(s))
                c == C[i]  d == D[i]  b == Bytes'[i]  a == Bytes[i]
    <2>1. Len(s) \in Nat /\ Len(c) \in Nat /\ Len(c) = inode[i].size /\ off <= Len(c)
      BY <1>1
    <2>2. n \in Nat /\ inode'[i].size = n /\ Len(d) = n /\ d \in Seq(Nat)
      <3>1. Larger(off + Len(s), Len(c)) = Files!Larger(Len(c), off + Len(s))
            /\ Files!Larger(Len(c), off + Len(s)) \in Nat
        <4>. DEFINE x == off + Len(s)  y == Len(c)
        <4>1. x \in Nat /\ y \in Nat
          BY <2>1
        <4>. HIDE DEF x, y
        <4>2. Larger(x, y) = Files!Larger(y, x) /\ Files!Larger(y, x) \in Nat
          BY <4>1 DEF Larger, Files!Larger
        <4>. QED
          BY <4>2 DEF x, y
      <3>. QED
        BY <1>2, <1>3, <2>1, <3>1
    <2>3. \A k \in 1..n : d[k] = b[k - 1]
      BY <1>2, <2>2
    <2>4. \A k \in 0..(n - 1) : b[k] = IF off <= k /\ k < off + Len(s) THEN s[k - off + 1] ELSE a[k]
      BY <2>2
    <2>5. \A k \in 1..Len(c) : c[k] = a[k - 1]
      BY <1>1, <2>1
    <2>6. n = IF Len(c) >= off + Len(s) THEN Len(c) ELSE off + Len(s)
      BY DEF Files!Larger
    <2>. HIDE DEF a, b, c, d, n
    <2>7. \A k \in 1..n : d[k] = IF off < k /\ k <= off + Len(s) THEN s[k - off] ELSE c[k]
      <3>. SUFFICES ASSUME NEW k \in 1..n
                    PROVE  d[k] = IF off < k /\ k <= off + Len(s) THEN s[k - off] ELSE c[k]
        OBVIOUS
      <3>1. k \in Nat /\ k - 1 \in 0..(n - 1) /\ (k - 1) - off + 1 = k - off /\ d[k] = b[k - 1]
        BY <2>2, <2>3
      <3>2. b[k - 1] = IF off <= k - 1 /\ k - 1 < off + Len(s) THEN s[(k - 1) - off + 1] ELSE a[k - 1]
        BY <2>4, <3>1
      <3>3. CASE off < k /\ k <= off + Len(s)
        BY <2>1, <3>1, <3>2, <3>3
      <3>4. CASE ~(off < k /\ k <= off + Len(s))
        <4>1. k \in 1..Len(c)
          BY <2>1, <2>6, <3>1, <3>4
        <4>2. ~(off <= k - 1 /\ k - 1 < off + Len(s))
          BY <2>1, <3>1, <3>4
        <4>. QED
          BY <2>5, <3>1, <3>2, <3>4, <4>1, <4>2
      <3>. QED
        BY <3>3, <3>4
    <2>8. d = [k \in 1..n |-> IF off < k /\ k <= off + Len(s) THEN s[k - off] ELSE c[k]]
      <3>1. d = [k \in 1..n |-> d[k]]
        BY <2>2
      <3>. QED
        BY <2>7, <3>1
    <2>. QED
      BY <2>8 DEF Files!Overlaid, c, d, n
  <1>6. D = [C EXCEPT ![i] = Files!Overlaid(C[i], off, s)]
    <2>. DEFINE o == Files!Overlaid(C[i], off, s)
    <2>. HIDE DEF o
    <2>1. D[i] = o
      BY <1>5 DEF o
    <2>2. D = [C EXCEPT ![i] = o]
      BY <1>1, <1>2, <1>4, <2>1
    <2>. QED
      BY <2>2 DEF o
  <1>. QED
    BY <1>6 DEF C, D

\* Bytes put at the end are appended.
LEMMA OverlaidEnd ==
    ASSUME NEW c \in Seq(Nat), NEW s \in Seq(Nat)
    PROVE  Files!Overlaid(c, Len(c), s) = c \o s
  <1>. DEFINE n == Files!Larger(Len(c), Len(c) + Len(s))
  <1>1. n = Len(c) + Len(s) /\ Len(c) \in Nat /\ Len(s) \in Nat
    BY DEF Files!Larger
  <1>. DEFINE u == Files!Overlaid(c, Len(c), s)  v == c \o s
  <1>2. /\ v \in Seq(Nat) /\ Len(v) = Len(c) + Len(s)
        /\ \A k \in 1..(Len(c) + Len(s)) : v[k] = IF k <= Len(c) THEN c[k] ELSE s[k - Len(c)]
    BY ConcatProperties
  <1>3. u
          = [k \in 1..n |-> IF Len(c) < k /\ k <= Len(c) + Len(s) THEN s[k - Len(c)] ELSE c[k]]
    BY DEF Files!Overlaid
  <1>. HIDE DEF n, u, v
  <1>4. \A k \in 1..(Len(c) + Len(s)) : u[k] = v[k] /\ v[k] \in Nat
    <2>. SUFFICES ASSUME NEW k \in 1..(Len(c) + Len(s)) PROVE u[k] = v[k] /\ v[k] \in Nat
      OBVIOUS
    <2>1. v[k] \in Nat
      BY <1>2
    <2>2. u[k] = IF Len(c) < k /\ k <= Len(c) + Len(s) THEN s[k - Len(c)] ELSE c[k]
      BY <1>1, <1>3
    <2>3. v[k] = IF k <= Len(c) THEN c[k] ELSE s[k - Len(c)]
      BY <1>2
    <2>. QED
      BY <1>1, <2>1, <2>2, <2>3
  <1>5. u \in [1..(Len(c) + Len(s)) -> Nat]
    BY <1>1, <1>3, <1>4
  <1>6. u \in Seq(Nat) /\ Len(u) = Len(c) + Len(s)
    BY <1>1, <1>5, SMTT(30)
  <1>7. u = v
    BY <1>1, <1>2, <1>4, <1>6, SeqEqual
  <1>. QED
    BY <1>7 DEF u, v

\* The bytes after a write for which there were not: those of other files and those
\* before the offset are as they were.
LEMMA BytesStopped ==
    ASSUME FsInv, NEW i \in Inum, NEW off \in Nat, NEW s \in Seq(Nat), NEW w, NEW T, NEW C, NEW n,
           Looped(i, off, s, n, w, T, C), disk' = w.disk, inode' = inode
    PROVE  \A j \in Inum : \A k \in 0..(inode[j].size - 1) :
              j # i \/ k < off => Bytes'[j][k] = Bytes[j][k]
  <1>1. OldS' = OldS /\ \A j \in Inum : \A p \in OldS[j] : OldB'[j][p] = OldB[j][p]
    BY WriteStops
  <1>. SUFFICES ASSUME NEW j \in Inum, NEW k \in 0..(inode[j].size - 1), j # i \/ k < off
                PROVE  Bytes'[j][k] = Bytes[j][k]
    OBVIOUS
  <1>. DEFINE m == k \div BlockSize  c == k % BlockSize  p == Path(m)
  <1>2. inode[j].size \in Nat /\ inode[j].size <= MaxFile * BlockSize /\ k \in Nat
    BY RootsType, Constants DEF FsInv
  <1>3. /\ m \in 0..(MaxFile - 1) /\ c \in Cell /\ k = m * BlockSize + c
        /\ p \in Filled(Blocks(inode[j].size))
    BY <1>2, BytePlace
  <1>4. p \in OldS[j] /\ Leaf(p)
    BY <1>3, Tables, PathFacts DEF TablesAre
  <1>5. Bytes[j][k] = disk[OldB[j][p]][c] /\ Bytes'[j][k] = disk'[OldB'[j][p]][c]
    BY DEF Bytes, Byte
  <1>6. OldB'[j][p] = OldB[j][p]
    BY <1>1, <1>4
  <1>7. CASE j # i
    <2>1. w.disk[OldB[j][p]] = disk[OldB[j][p]]
      BY <1>4, <1>7 DEF Looped
    <2>. HIDE DEF p, c
    <2>. QED
      BY <1>5, <1>6, <2>1
  <1>8. CASE j = i /\ k < off
    <2>1. m \in Nat /\ c \in Nat
      BY <1>3, Constants DEF Cell
    <2>. DEFINE d == m * BlockSize + c - off + 1
    <2>2. ~(d \in 1..Len(s))
      <3>1. k = m * BlockSize + c /\ k \in Nat /\ Len(s) \in Nat
        BY <1>2, <1>3
      <3>. HIDE DEF m, c
      <3>2. d \in 1..Len(s) <=> (off <= k /\ k < off + Len(s))
        BY <2>1, <3>1, ByteIndex
      <3>. HIDE DEF d
      <3>. QED
        BY <1>8, <3>1, <3>2
    <2>3. w.disk[OldB[i][Path(m)]][c] = disk[OldB[i][Path(m)]][c]
      <3>. HIDE DEF m, c
      <3>. QED
        BY <1>3, <1>4, <1>8, <2>2 DEF Looped
    <2>. HIDE DEF p, c, d, m
    <2>. QED
      BY <1>5, <1>6, <1>8, <2>3 DEF p
  <1>. QED
    BY <1>7, <1>8

LEMMA StageOf ==
    /\ phase \in {"mkfs", "kernel"} => Stage = phase
    /\ phase \in {"exited", "panicked"} => Stage = "halted"
  BY DEF Stage

LEMMA ContentStays == UNCHANGED image => Content' = Content
  BY DEF image, Content, readi, Lookup

LEMMA AppendStep ==
    ASSUME FsInv, FsInv', NEW i \in Inum, NEW s \in Payload(i, inode[i].size), iappend(i, s)
    PROVE  Files!Next
  <1>. DEFINE off == inode[i].size  w == Appended(i, s)
  <1>1. /\ off \in Nat /\ TypeOK /\ off <= off /\ ContentIs /\ ContentIs'
        /\ phase = "mkfs" /\ Stage = "mkfs" /\ file' = file /\ got' = got /\ got = <<>>
    <2>1. ContentIs /\ ContentIs'
      BY ContentHolds, PTL
    <2>. QED
      BY <2>1, RootsType, Constants, StageOf DEF FsInv, iappend
  <1>2. s \in Seq(Nat) /\ Len(Content[i]) = off /\ Content[i] \in Seq(Nat)
    BY <1>1, Written DEF ContentIs
  <1>3. CASE off + Len(s) > MaxFile * BlockSize \/ w.full
    <2>1. phase' = "exited" /\ UNCHANGED image
      BY <1>3 DEF iappend
    <2>2. Stage' = "halted"
      BY <2>1 DEF Stage
    <2>3. Content' = Content
      BY <2>1, ContentStays
    <2>4. Files!Halt
      BY <1>1, <2>2, <2>3 DEF Files!Halt
    <2>. QED
      BY <2>4 DEF Files!Next
  <1>4. CASE ~(off + Len(s) > MaxFile * BlockSize) /\ ~w.full
    <2>1. /\ phase' = phase /\ disk' = w.disk
          /\ inode' = [inode EXCEPT ![i] = [size |-> off + Len(s), addrs |-> w.addrs]]
      BY <1>4 DEF iappend
    <2>2. w = Turns(i, off, s)
      BY DEF Appended
    <2>. HIDE DEF w
    <2>3. off + Len(s) = Larger(off + Len(s), off) /\ off + Len(s) <= MaxFile * BlockSize
      <3>. DEFINE m == MaxFile * BlockSize
      <3>1. m \in Nat /\ Len(s) \in Nat
        BY <1>2, Constants
      <3>. HIDE DEF off, m
      <3>. QED
        BY <1>1, <1>4, <3>1 DEF Larger, m
    <2>4. Stores(i, off, s, w)
      BY <2>1, <2>3 DEF Stores
    <2>5. phase \in {"mkfs", "kernel"} /\ off <= inode[i].size
      BY <1>1
    <2>. HIDE DEF off
    <2>6. PICK T, C : Looped(i, off, s, Last(off, s) + 1, w, T, C)
      BY <1>1, <1>2, <2>2, <2>3, <2>5, TurnsLoop
    <2>7. \A j \in Inum : \A k \in 0..(inode'[j].size - 1) :
              Bytes'[j][k] = IF j = i /\ off <= k /\ k < off + Len(s) THEN s[k - off + 1]
                             ELSE Bytes[j][k]
      BY <1>1, <1>2, <1>4, <2>3, <2>4, <2>5, <2>6, BytesDone
    <2>8. Content' = [Content EXCEPT ![i] = Files!Overlaid(@, off, s)]
      <3>1. inode \in [Inum -> [size : 0..(MaxFile * BlockSize), addrs : [Addr -> 0..(NBlocks - 1)]]]
        BY <1>1 DEF TypeOK
      <3>2. off \in Nat /\ s \in Seq(Nat) /\ ContentIs /\ ContentIs'
        BY <1>1, <1>2
      <3>. QED
        BY <2>4, <2>5, <2>7, <3>1, <3>2, ContentDone
    <2>9. Files!Overlaid(Content[i], off, s) = Content[i] \o s
      BY <1>2, OverlaidEnd
    <2>10. Content' = [Content EXCEPT ![i] = @ \o s]
      BY <2>8, <2>9
    <2>11. Stage' = Stage
      BY <2>1 DEF Stage
    <2>12. s \in Payload(i, Len(Content[i]))
      BY <1>2 DEF off
    <2>13. Files!Grow(i)
      BY <1>1, <2>10, <2>11, <2>12 DEF Files!Grow
    <2>. QED
      BY <2>13 DEF Files!Next
  <1>. QED
    BY <1>3, <1>4

LEMMA WriteStep ==
    ASSUME FsInv, FsInv', NEW f \in OpenFile, NEW s \in Payload(file[f].inum, file[f].off),
           fs_write(f, s)
    PROVE  Files!Next
  <1>. DEFINE i == file[f].inum  off == file[f].off  w == writei(i, off, s)
              refused == off > inode[i].size \/ off + Len(s) > MaxFile * BlockSize
  <1>1. /\ TypeOK /\ phase = "kernel" /\ file[f] # Closed /\ Stage = "kernel" /\ got' = <<>>
        /\ ContentIs /\ ContentIs'
    <2>1. ContentIs /\ ContentIs'
      BY ContentHolds, PTL
    <2>. QED
      BY <2>1, StageOf DEF FsInv, fs_write
  <1>2. i \in Inum /\ off \in Nat /\ inode[i].size \in Nat
    BY <1>1, Opened, RootsType, Constants
  <1>3. CASE refused
    <2>1. UNCHANGED <<image, phase, file>>
      BY <1>3 DEF fs_write
    <2>2. Content' = Content /\ Stage' = Stage
      BY <2>1, ContentStays DEF Stage
    <2>3. Files!Fail
      BY <1>1, <2>1, <2>2 DEF Files!Fail
    <2>. QED
      BY <2>3 DEF Files!Next
  <1>4. CASE ~refused
    <2>1. /\ disk' = w.disk /\ w = Turns(i, off, s)
          /\ w.full => phase' = "panicked" /\ inode' = inode /\ file' = file
          /\ ~w.full => /\ inode' = [inode EXCEPT ![i] = [size |-> Larger(off + Len(s), inode[i].size),
                                                          addrs |-> w.addrs]]
                        /\ file' = [file EXCEPT ![f].off = off + Len(s)]
                        /\ phase' = phase
      BY <1>4 DEF fs_write, iupdate, writei
    <2>2. off <= inode[i].size
      <3>. HIDE DEF off, i
      <3>. QED
        BY <1>2, <1>4
    <2>3. s \in Seq(Nat)
      BY <1>1, <1>2, <2>2, Written
    <2>4. off + Len(s) <= MaxFile * BlockSize
      <3>. DEFINE m == MaxFile * BlockSize
      <3>1. m \in Nat /\ Len(s) \in Nat
        BY <2>3, Constants
      <3>. HIDE DEF off, i, m
      <3>. QED
        BY <1>2, <1>4, <3>1 DEF m
    <2>5. i = file[f].inum /\ off = file[f].off /\ s \in Payload(i, off)
      OBVIOUS
    <2>. HIDE DEF w, i, off
    <2>6. PICK T, C : Looped(i, off, s, Last(off, s) + 1, w, T, C)
      BY <1>1, <1>2, <2>1, <2>3, <2>4, TurnsLoop
    <2>7. CASE w.full
      <3>1. disk' = w.disk /\ inode' = inode /\ file' = file /\ Stage' = "halted"
        BY <2>1, <2>7 DEF Stage
      <3>2. \A j \in Inum : \A k \in 0..(inode[j].size - 1) :
                j # i \/ k < off => Bytes'[j][k] = Bytes[j][k]
        BY <1>2, <2>3, <2>6, <3>1, BytesStopped
      <3>. DEFINE c == Content  d == Content'
      <3>3. /\ c = [j \in Inum |-> c[j]]
            /\ \A j \in Inum : /\ inode[j].size \in Nat /\ c[j] \in Seq(Nat) /\ Len(c[j]) = inode[j].size
                               /\ \A k \in 1..inode[j].size : c[j][k] = Bytes[j][k - 1]
        BY <1>1 DEF ContentIs
      <3>4. /\ d = [j \in Inum |-> d[j]]
            /\ \A j \in Inum : /\ d[j] \in Seq(Nat) /\ Len(d[j]) = inode[j].size
                               /\ \A k \in 1..inode[j].size : d[j][k] = Bytes'[j][k - 1]
        BY <1>1, <3>1 DEF ContentIs
      <3>. HIDE DEF c, d
      <3>5. \A j \in Inum : \A k \in 1..inode[j].size : j # i \/ k <= off => d[j][k] = c[j][k]
        <4>. SUFFICES ASSUME NEW j \in Inum, NEW k \in 1..inode[j].size, j # i \/ k <= off
                      PROVE  d[j][k] = c[j][k]
          OBVIOUS
        <4>1. k - 1 \in 0..(inode[j].size - 1) /\ (k <= off => k - 1 < off)
          BY <1>2, <3>3
        <4>2. Bytes'[j][k - 1] = Bytes[j][k - 1]
          BY <3>2, <4>1
        <4>. QED
          BY <3>3, <3>4, <4>2
      <3>6. ASSUME NEW j \in Inum, j # i PROVE d[j] = c[j]
        <4>1. /\ d[j] \in Seq(Nat) /\ c[j] \in Seq(Nat) /\ Len(d[j]) = Len(c[j])
              /\ Len(c[j]) = inode[j].size
          BY <3>3, <3>4
        <4>2. \A k \in 1..Len(c[j]) : d[j][k] = c[j][k]
          BY <3>5, <3>6, <4>1
        <4>. QED
          BY <4>1, <4>2, SeqEqual
      <3>7. d = [c EXCEPT ![i] = d[i]]
        BY <3>3, <3>4, <3>6
      <3>8. Len(d[i]) = Len(c[i]) /\ \A k \in 1..off : d[i][k] = c[i][k]
        <4>1. Len(d[i]) = Len(c[i])
          BY <1>2, <3>3, <3>4
        <4>2. \A k \in 1..off : k \in 1..inode[i].size /\ k <= off
          BY <1>2, <2>2
        <4>. QED
          BY <1>2, <3>5, <4>1, <4>2
      <3>9. Files!Halt
        BY <1>1, <2>5, <3>1, <3>7, <3>8 DEF Files!Halt, Files!Closed, Closed, c, d
      <3>. QED
        BY <3>9 DEF Files!Next
    <2>8. CASE ~w.full
      <3>1. /\ Stores(i, off, s, w) /\ file' = [file EXCEPT ![f].off = off + Len(s)]
            /\ Stage' = Stage
        BY <2>1, <2>8 DEF Stores, Stage
      <3>2. \A j \in Inum : \A k \in 0..(inode'[j].size - 1) :
                Bytes'[j][k] = IF j = i /\ off <= k /\ k < off + Len(s) THEN s[k - off + 1]
                               ELSE Bytes[j][k]
        BY <1>2, <2>2, <2>3, <2>4, <2>6, <2>8, <3>1, BytesDone
      <3>3. Content' = [Content EXCEPT ![i] = Files!Overlaid(@, off, s)]
        BY <1>1, <1>2, <2>2, <2>3, <3>1, <3>2, ContentDone DEF TypeOK
      <3>4. off <= Len(Content[i])
        BY <1>1, <1>2, <2>2 DEF ContentIs
      <3>5. Files!Write(f)
        BY <1>1, <2>4, <2>5, <3>1, <3>3, <3>4 DEF Files!Write, Files!Closed, Closed
      <3>. QED
        BY <3>5 DEF Files!Next
    <2>. QED
      BY <2>7, <2>8
  <1>. QED
    BY <1>3, <1>4

LEMMA ReadStep ==
    ASSUME FsInv, NEW f \in OpenFile, NEW n \in ReadLen, fs_read(f, n)
    PROVE  Files!Next
  <1>. DEFINE i == file[f].inum  off == file[f].off  size == inode[i].size
              m == Within(size, off, n)  c == Content[i]  e == Files!Smaller(off + n, Len(c))
  <1>1. i \in Inum /\ off \in Nat /\ n \in Nat /\ phase = "kernel" /\ file[f] # Closed
    BY Opened, FileSystemAssumption DEF FsInv, fs_read
  <1>2. /\ got' = readi(i, off, n) /\ file' = [file EXCEPT ![f].off = off + Len(got')]
        /\ UNCHANGED <<image, phase>>
    BY DEF fs_read, FsInv, TypeOK
  <1>3. Content' = Content /\ Stage' = Stage /\ Stage = "kernel"
    BY <1>1, <1>2, ContentStays, StageOf DEF Stage
  <1>4. size \in Nat /\ c \in Seq(Nat) /\ Len(c) = size /\ \A k \in 1..size : c[k] = Bytes[i][k - 1]
    BY <1>1, ContentHolds DEF ContentIs
  <1>5. /\ m \in Nat /\ got' = [k \in 1..m |-> Byte(i, off + k - 1)]
        /\ \A k \in 1..m : off + k - 1 \in 0..(size - 1)
    BY <1>1, <1>2, Reads
  <1>6. got' = SubSeq(c, off + 1, e)
    <2>. HIDE DEF i, off, size
    <2>1. CASE off > size
      <3>1. m = 0
        BY <1>4, <2>1 DEF Within
      <3>2. e < off + 1 /\ e \in Int /\ off + 1 \in Int
        <4>. DEFINE l == Len(c)
        <4>1. l = size
          BY <1>4
        <4>. HIDE DEF l
        <4>. QED
          BY <1>1, <1>4, <2>1, <4>1 DEF Files!Smaller
      <3>. HIDE DEF m, e
      <3>3. SubSeq(c, off + 1, e) = <<>>
        BY <3>2, SubSeqEmpty
      <3>4. got' = <<>>
        BY <1>5, <3>1
      <3>. QED
        BY <3>3, <3>4
    <2>2. CASE ~(off > size)
      <3>1. /\ m = e - off /\ e \in off..size
        <4>1. e = Smaller(off + n, size)
          BY <1>4 DEF Files!Smaller, Smaller
        <4>. HIDE DEF e
        <4>. QED
          BY <1>1, <1>4, <2>2, <4>1 DEF Within, Smaller
      <3>. HIDE DEF m, e
      <3>. DEFINE v == SubSeq(c, off + 1, e)
      <3>2. off + 1 \in Int /\ e \in Int /\ \A k \in (off + 1)..e : c[k] \in Nat
        <4>1. e \in Int /\ off + 1 \in Int /\ \A k \in (off + 1)..e : k \in 1..Len(c)
          BY <1>1, <1>4, <3>1
        <4>. QED
          BY <1>4, <4>1
      <3>3. /\ v \in Seq(Nat) /\ Len(v) = IF off + 1 <= e THEN e - (off + 1) + 1 ELSE 0
            /\ \A k \in 1..(e - (off + 1) + 1) : v[k] = c[off + 1 + k - 1]
        BY <3>2, SubSeqProperties
      <3>4. Len(v) = m /\ e - (off + 1) + 1 = m
        <4>. HIDE DEF v
        <4>. QED
          BY <1>1, <1>4, <3>1, <3>3
      <3>. HIDE DEF v
      <3>5. \A k \in 1..m : v[k] = Byte(i, off + k - 1)
        <4>. SUFFICES ASSUME NEW k \in 1..m PROVE v[k] = Byte(i, off + k - 1)
          OBVIOUS
        <4>1. off + 1 + k - 1 = off + k /\ off + k \in 1..size /\ (off + k) - 1 = off + k - 1
          <5>1. off + k - 1 \in 0..(size - 1) /\ k \in Nat
            BY <1>5 DEF m
          <5>. QED
            BY <1>1, <1>4, <5>1
        <4>2. v[k] = c[off + k]
          BY <3>3, <3>4, <4>1
        <4>3. c[off + k] = Bytes[i][off + k - 1]
          BY <1>4, <4>1
        <4>4. Bytes[i][off + k - 1] = Byte(i, off + k - 1)
          BY <1>1, <1>5 DEF Bytes, size
        <4>. QED
          BY <4>2, <4>3, <4>4
      <3>6. v = [k \in 1..m |-> v[k]]
        BY <3>3, <3>4
      <3>7. v = got'
        BY <1>5, <3>5, <3>6
      <3>. QED
        BY <3>7 DEF v
    <2>. QED
      BY <2>1, <2>2
  <1>7. Files!Read(f)
    <2>1. \E l \in ReadLen : got' = SubSeq(Content[file[f].inum], file[f].off + 1,
                                           Files!Smaller(file[f].off + l, Len(Content[file[f].inum])))
      BY <1>6
    <2>. QED
      BY <1>1, <1>2, <1>3, <2>1 DEF Files!Read, Files!Closed, Closed
  <1>. QED
    BY <1>7 DEF Files!Next

LEMMA StoreInit == Init => Files!Init
  <1>. SUFFICES ASSUME Init PROVE Files!Init
    OBVIOUS
  <1>1. FsInv
    BY InitInv
  <1>2. ContentIs
    BY <1>1, ContentHolds
  <1>3. \A i \in Inum : inode[i].size = 0
    BY DEF Init
  <1>4. \A i \in Inum : Content[i] = <<>>
    BY <1>2, <1>3, EmptySeq DEF ContentIs
  <1>5. Content = [i \in Inum |-> <<>>]
    BY <1>2, <1>4 DEF ContentIs
  <1>6. Stage = "mkfs"
    BY DEF Init, Stage
  <1>. QED
    BY <1>5, <1>6 DEF Init, Files!Init, Files!Closed, Closed

LEMMA StoreStep == FsInv /\ FsInv' /\ [Next]_vars => [Files!Next]_Files!vars
  <1>. SUFFICES ASSUME FsInv, FsInv', [Next]_vars PROVE [Files!Next]_Files!vars
    OBVIOUS
  <1>1. ASSUME NEW i \in Inum, NEW s \in Payload(i, inode[i].size), iappend(i, s) PROVE Files!Next
    BY <1>1, AppendStep
  <1>2. CASE init_fs
    <2>1. /\ Content' = Content /\ Stage = "mkfs" /\ Stage' = "kernel"
          /\ file' = file /\ got' = got
      BY <1>2, ContentStays DEF init_fs, Stage
    <2>. QED
      BY <2>1 DEF Files!Next, Files!Boot
  <1>3. ASSUME NEW f \in OpenFile,
               \/ \E i \in Inum : fs_open(f, i)
               \/ fs_close(f)
               \/ \E off \in Offset : fs_seek(f, off)
        PROVE  Files!Next
    <2>1. UNCHANGED <<image, phase>> /\ phase = "kernel" /\ got' = <<>>
      BY <1>3 DEF fs_open, fs_close, fs_seek
    <2>2. Content' = Content /\ Stage' = Stage /\ Stage = "kernel"
      BY <2>1, ContentStays DEF Stage
    <2>3. \/ \E i \in Inum : file' = [file EXCEPT ![f] = [inum |-> i, off |-> 0]]
          \/ file[f] # Closed /\ file' = [file EXCEPT ![f] = Closed]
          \/ file[f] # Closed /\ \E o \in Offset : file' = [file EXCEPT ![f].off = o]
      BY <1>3 DEF fs_open, fs_close, fs_seek
    <2>4. Files!Position(f)
      BY <2>1, <2>2, <2>3 DEF Files!Position, Files!Closed, Closed
    <2>. QED
      BY <2>4 DEF Files!Next
  <1>4. ASSUME NEW f \in OpenFile, NEW s \in Payload(file[f].inum, file[f].off), fs_write(f, s)
        PROVE  Files!Next
    BY <1>4, WriteStep
  <1>5. ASSUME NEW f \in OpenFile, NEW n \in ReadLen, fs_read(f, n) PROVE Files!Next
    BY <1>5, ReadStep
  <1>6. CASE UNCHANGED vars
    <2>1. Content' = Content /\ Stage' = Stage /\ file' = file /\ got' = got
      BY <1>6, ContentStays DEF vars, image, Stage
    <2>. QED
      BY <2>1 DEF Files!vars
  <1>. QED
    BY <1>1, <1>2, <1>3, <1>4, <1>5, <1>6 DEF Next

\* Through direct and index blocks of all levels, in the builder and in the kernel,
\* files are sequences of bytes: a write replaces or appends what it says and nothing
\* else, a read returns what is there, and running out of blocks may damage only the
\* file written to, from the offset on (iappend, writei, readi).
THEOREM FilesImplementStore == Spec => ImplementsFileStore
  <1>1. Spec => []FsInv
    BY InitInv, NextInv, PTL DEF Spec
  <1>. QED
    BY <1>1, StoreInit, StoreStep, PTL DEF Spec, ImplementsFileStore, Files!Spec
=============================================================================
