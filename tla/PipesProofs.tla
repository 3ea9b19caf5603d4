---------------------------- MODULE PipesProofs -----------------------------
(***************************************************************************)
(* Theorems about open files and pipes.  For any number of processes,      *)
(* descriptors, files and pipes: the reference counts are exact, a pipe    *)
(* end that a descriptor refers to is never freed, and a pipe that has     *)
(* lost its last descriptor and is still counted stays so.  For any size   *)
(* of ring, chunk and call: the positions of the ring agree, short         *)
(* transfers happen only at the limits, and the ring implements ByteQueue. *)
(***************************************************************************)
EXTENDS Files, PipeBuffer, FiniteSetTheorems, SequenceTheorems, WellFoundedInduction, TLAPS

-----------------------------------------------------------------------------
(* Open files.                                                             *)

\* A nonempty set of naturals has a least element, and Min is it.
LEMMA MinMember ==
    ASSUME NEW S, S \subseteq Nat, S # {}
    PROVE  Min(S) \in S
  <1>1. PICK x \in S : \A y \in S : ~(<<y, x>> \in OpToRel(<, Nat))
    BY NatLessThanWellFounded, WFMin
  <1>2. \A y \in S : ~(y < x)
    BY <1>1, Zenon DEF OpToRel
  <1>3. \A y \in S : x <= y
    BY <1>2
  <1>. QED
    BY <1>3, Zenon DEF Min

\* What holds at 0 and goes from n to n + 1 holds of every number up to N: else
\* there would be a first one of which it does not.
LEMMA UpTo ==
    ASSUME NEW N \in Nat, NEW good, 0 \in good,
           \A n \in 1..N : n - 1 \in good => n \in good
    PROVE  \A n \in 0..N : n \in good
  <1>. SUFFICES ASSUME NEW b \in 0..N, b \notin good PROVE FALSE
    OBVIOUS
  <1>. DEFINE S == {n \in 0..N : n \notin good}
  <1>1. S \subseteq Nat /\ S # {}
    OBVIOUS
  <1>2. PICK x \in S : \A y \in S : ~(<<y, x>> \in OpToRel(<, Nat))
    BY <1>1, NatLessThanWellFounded, WFMin
  <1>3. \A y \in S : ~(y < x)
    BY <1>1, <1>2, Zenon DEF OpToRel
  <1>4. x \in 1..N /\ x - 1 \in 0..N
    <2>1. x \in 0..N /\ x # 0
      OBVIOUS
    <2>. QED
      BY <2>1
  <1>5. x - 1 \in good
    <2>1. x - 1 < x
      BY <1>4
    <2>. QED
      BY <1>3, <1>4, <2>1
  <1>. QED
    BY <1>4, <1>5

-----------------------------------------------------------------------------
(* Agreement of the tables, as a predicate on the descriptors d of all     *)
(* processes and the tables t of files and pipes.                          *)

OpenFile == [type : FileTypes, ref : Nat, pipe_id : PipeIds \cup {NoPipe}, pipe_end : Ends]
OpenPipe == [used : BOOLEAN, readers : Nat, writers : Nat]
AllTables == [file : [FileIds -> OpenFile], pipe : [PipeIds -> OpenPipe]]
AllFds == [Procs -> [Fds -> FileIds \cup {Null}]]

\* The descriptors with f as descriptor fd of process p.
With(d, p, fd, f) == [d EXCEPT ![p][fd] = f]

Refs(d, f) == {x \in Procs \X Fds : d[x[1]][x[2]] = f}

\* A count is the number of descriptors.
Exact(d, t) ==
    \A f \in FileIds : /\ t.file[f].ref = Cardinality(Refs(d, f))
                       /\ t.file[f].type = "FREE" <=> Refs(d, f) = {}

\* An end is an end of an allocated pipe, which counts it often enough.
Covered(t, f) ==
    /\ t.file[f].pipe_id \in PipeIds /\ t.file[f].pipe_end \in {"read", "write"}
    /\ t.pipe[t.file[f].pipe_id].used
    /\ t.file[f].ref <= Counted(t.pipe[t.file[f].pipe_id], t.file[f].pipe_end)

\* Two files are not the same end of the same pipe.
Apart(t) ==
    \A f, g \in FileIds :
        /\ t.file[f].type = "PIPE" /\ t.file[g].type = "PIPE"
        /\ t.file[f].pipe_id = t.file[g].pipe_id /\ t.file[f].pipe_end = t.file[g].pipe_end
        => f = g

Agree(d, t) ==
    /\ d \in AllFds /\ t \in AllTables
    /\ Exact(d, t)
    /\ \A f \in FileIds : t.file[f].type = "PIPE" => Covered(t, f)
    /\ Apart(t)

\* Pipe id is allocated and no file is an end of it.
LostPipe(t, id) ==
    /\ t.pipe[id].used
    /\ \A f \in FileIds : t.file[f].type = "PIPE" => t.file[f].pipe_id # id

\* A lost pipe is left alone.
LeavesLost(t, u) ==
    \A id \in PipeIds : LostPipe(t, id) => u.pipe[id] = t.pipe[id] /\ LostPipe(u, id)

\* What two steps leave alone, both together do.
LEMMA LeavesLostAgain ==
    ASSUME NEW t, NEW u, NEW v, LeavesLost(t, u), LeavesLost(u, v)
    PROVE  LeavesLost(t, v)
  BY DEF LeavesLost

\* There are finitely many descriptors.
LEMMA RefsFinite ==
    ASSUME NEW d, NEW f
    PROVE  IsFiniteSet(Refs(d, f)) /\ Cardinality(Refs(d, f)) \in Nat
  <1>1. IsFiniteSet(Procs \X Fds)
    <2>1. IsFiniteSet(Procs) /\ IsFiniteSet(Fds)
      BY SizeAssumption, FS_Interval DEF Procs, Fds
    <2>. QED
      BY <2>1, FS_Product
  <1>2. Refs(d, f) \in SUBSET (Procs \X Fds)
    BY DEF Refs
  <1>. QED
    BY <1>1, <1>2, FS_Subset, FS_CardinalityType

\* One descriptor is cleared.
LEMMA RefsCleared ==
    ASSUME NEW d \in AllFds, NEW p \in Procs, NEW fd \in Fds,
           NEW f, f = d[p][fd], f # Null, NEW e, e = With(d, p, fd, Null)
    PROVE  /\ e \in AllFds
           /\ Cardinality(Refs(e, f)) = Cardinality(Refs(d, f)) - 1
           /\ Refs(e, f) = {} <=> Cardinality(Refs(d, f)) = 1
           /\ \A g \in FileIds : g # f => Refs(e, g) = Refs(d, g)
           /\ Cardinality(Refs(d, f)) \in Nat \ {0}
  <1>1. e \in AllFds
    BY DEF AllFds, With
  <1>2. \A q \in Procs, k \in Fds : e[q][k] = IF q = p /\ k = fd THEN Null ELSE d[q][k]
    BY DEF AllFds, With
  <1>3. Null \notin FileIds
    BY DEF Null, FileIds
  <1>4. \A g \in FileIds : g # f => Refs(e, g) = Refs(d, g)
    <2>. SUFFICES ASSUME NEW g \in FileIds, g # f, NEW x \in Procs \X Fds
                  PROVE  e[x[1]][x[2]] = g <=> d[x[1]][x[2]] = g
      BY DEF Refs
    <2>. QED
      BY <1>2, <1>3
  <1>5. PICK c : c = <<p, fd>>
    OBVIOUS
  <1>6. c \in Procs \X Fds /\ c[1] = p /\ c[2] = fd
    BY <1>5
  <1>7. Refs(e, f) = Refs(d, f) \ {c}
    <2>. SUFFICES ASSUME NEW x \in Procs \X Fds
                  PROVE  e[x[1]][x[2]] = f <=> d[x[1]][x[2]] = f /\ x # c
      BY DEF Refs
    <2>1. x = c <=> x[1] = p /\ x[2] = fd
      BY <1>5
    <2>. QED
      BY <1>2, <2>1
  <1>8. c \in Refs(d, f)
    BY <1>6 DEF Refs
  <1>9. IsFiniteSet(Refs(d, f)) /\ Cardinality(Refs(d, f)) \in Nat
    BY RefsFinite
  <1>10. Cardinality(Refs(e, f)) = Cardinality(Refs(d, f)) - 1 /\ IsFiniteSet(Refs(e, f))
    <2>1. PICK R : R = Refs(d, f)
      OBVIOUS
    <2>2. IsFiniteSet(R) /\ c \in R /\ Refs(e, f) = R \ {c}
      BY <1>7, <1>8, <1>9, <2>1
    <2>3. Cardinality(R \ {c}) = Cardinality(R) - 1 /\ IsFiniteSet(R \ {c})
      BY <2>2, FS_RemoveElement
    <2>. QED
      BY <2>1, <2>2, <2>3
  <1>11. Refs(e, f) = {} <=> Cardinality(Refs(e, f)) = 0
    BY <1>10, FS_EmptySet
  <1>12. Cardinality(Refs(d, f)) # 0
    BY <1>8, <1>9, FS_EmptySet
  <1>13. PICK n \in Nat, m \in Int : n = Cardinality(Refs(d, f)) /\ m = Cardinality(Refs(e, f))
    BY <1>9, <1>10
  <1>14. m = n - 1 /\ n # 0 /\ (Refs(e, f) = {} <=> m = 0)
    BY <1>10, <1>11, <1>12, <1>13
  <1>15. (Refs(e, f) = {} <=> n = 1) /\ n \in Nat \ {0}
    <2>1. m = n - 1 /\ n # 0
      BY <1>14
    <2>2. (m = 0 <=> n = 1) /\ n \in Nat \ {0}
      BY <2>1
    <2>. QED
      BY <1>14, <2>2, Zenon
  <1>. QED
    BY <1>1, <1>4, <1>10, <1>13, <1>15

\* A free descriptor is set.
LEMMA RefsSet ==
    ASSUME NEW d \in AllFds, NEW p \in Procs, NEW fd \in Fds, d[p][fd] = Null,
           NEW f \in FileIds, NEW e, e = With(d, p, fd, f)
    PROVE  /\ e \in AllFds
           /\ Cardinality(Refs(e, f)) = Cardinality(Refs(d, f)) + 1
           /\ Refs(e, f) # {}
           /\ \A g \in FileIds : g # f => Refs(e, g) = Refs(d, g)
           /\ Cardinality(Refs(d, f)) \in Nat
  <1>1. e \in AllFds
    BY DEF AllFds, With
  <1>2. \A q \in Procs, k \in Fds : e[q][k] = IF q = p /\ k = fd THEN f ELSE d[q][k]
    BY DEF AllFds, With
  <1>3. Null \notin FileIds
    BY DEF Null, FileIds
  <1>4. \A g \in FileIds : g # f => Refs(e, g) = Refs(d, g)
    <2>. SUFFICES ASSUME NEW g \in FileIds, g # f, NEW x \in Procs \X Fds
                  PROVE  e[x[1]][x[2]] = g <=> d[x[1]][x[2]] = g
      BY DEF Refs
    <2>. QED
      BY <1>2, <1>3
  <1>5. PICK c : c = <<p, fd>>
    OBVIOUS
  <1>6. c \in Procs \X Fds /\ c[1] = p /\ c[2] = fd
    BY <1>5
  <1>7. Refs(e, f) = Refs(d, f) \cup {c}
    <2>1. ASSUME NEW x \in Procs \X Fds
          PROVE  e[x[1]][x[2]] = f <=> d[x[1]][x[2]] = f \/ x = c
      <3>1. x = c <=> x[1] = p /\ x[2] = fd
        BY <1>5
      <3>. QED
        BY <1>2, <3>1
    <2>. QED
      BY <1>6, <2>1 DEF Refs
  <1>8. c \notin Refs(d, f)
    BY <1>3, <1>6 DEF Refs
  <1>9. IsFiniteSet(Refs(d, f)) /\ Cardinality(Refs(d, f)) \in Nat
    BY RefsFinite
  <1>10. Cardinality(Refs(e, f)) = Cardinality(Refs(d, f)) + 1
    BY <1>7, <1>8, <1>9, FS_AddElement
  <1>. QED
    BY <1>1, <1>4, <1>7, <1>9, <1>10

-----------------------------------------------------------------------------
(* fs_close and fs_dup of one descriptor.                                  *)

\* A pipe whose end was closed.
EndClosed(pipe, end) ==
    LET rest == Counted(pipe, end) - 1
    IN  pipe_maybe_free(Recount(pipe, end, IF rest < 0 THEN 0 ELSE rest))

\* The files and pipes after fs_close, one by one.
LEMMA CloseIs ==
    ASSUME NEW t \in AllTables, NEW f \in FileIds, NEW u, u = fs_close(t, f),
           t.file[f].type = "PIPE" => t.file[f].pipe_id \in PipeIds
    PROVE  /\ u \in AllTables
           /\ \A g \in FileIds : g # f => u.file[g] = t.file[g]
           /\ t.file[f].ref > 1 =>
                /\ u.pipe = t.pipe
                /\ u.file[f].ref = t.file[f].ref - 1
                /\ u.file[f].type = t.file[f].type
                /\ u.file[f].pipe_id = t.file[f].pipe_id
                /\ u.file[f].pipe_end = t.file[f].pipe_end
           /\ ~(t.file[f].ref > 1) =>
                /\ u.file[f] = FreeFile
                /\ t.file[f].type # "PIPE" => u.pipe = t.pipe
                /\ t.file[f].type = "PIPE" =>
                    LET id == t.file[f].pipe_id
                    IN  /\ \A k \in PipeIds : k # id => u.pipe[k] = t.pipe[k]
                        /\ u.pipe[id] = EndClosed(t.pipe[id], t.file[f].pipe_end)
  <1>1. PICK F \in [FileIds -> OpenFile], P \in [PipeIds -> OpenPipe] :
            t = [file |-> F, pipe |-> P]
    BY DEF AllTables
  <1>2. PICK file \in OpenFile : file = F[f]
    OBVIOUS
  <1>3. CASE file.ref > 1
    <2>1. u = [file |-> [F EXCEPT ![f].ref = @ - 1], pipe |-> P]
      BY <1>1, <1>2, <1>3 DEF fs_close
    <2>2. [F EXCEPT ![f].ref = @ - 1] = [F EXCEPT ![f] = [file EXCEPT !.ref = @ - 1]]
      BY <1>2
    <2>3. [file EXCEPT !.ref = @ - 1] \in OpenFile
      BY <1>3 DEF OpenFile
    <2>. QED
      BY <1>1, <1>2, <1>3, <2>1, <2>2, <2>3 DEF AllTables, OpenFile
  <1>4. CASE ~(file.ref > 1) /\ file.type # "PIPE"
    <2>1. u = [file |-> [F EXCEPT ![f] = FreeFile], pipe |-> P]
      BY <1>1, <1>2, <1>4 DEF fs_close
    <2>2. FreeFile \in OpenFile
      BY DEF FreeFile, OpenFile, FileTypes, Ends
    <2>. QED
      BY <1>1, <1>2, <1>4, <2>1, <2>2 DEF AllTables
  <1>5. CASE ~(file.ref > 1) /\ file.type = "PIPE"
    <2>1. PICK id \in PipeIds, pipe \in OpenPipe : id = file.pipe_id /\ pipe = P[id]
      BY <1>1, <1>2, <1>5
    <2>2. PICK rest \in Int : rest = Counted(pipe, file.pipe_end) - 1
      BY <2>1 DEF OpenPipe, Counted
    <2>3. PICK n \in Nat : n = IF rest < 0 THEN 0 ELSE rest
      OBVIOUS
    <2>4. PICK v : v = EndClosed(pipe, file.pipe_end)
      OBVIOUS
    <2>5. v = pipe_maybe_free(Recount(pipe, file.pipe_end, n))
      BY <2>2, <2>3, <2>4 DEF EndClosed
    <2>6. v \in OpenPipe
      BY <2>5 DEF pipe_maybe_free, Recount, OpenPipe, FreePipe
    <2>7. u = [file |-> [F EXCEPT ![f] = FreeFile], pipe |-> [P EXCEPT ![id] = v]]
      BY <1>1, <1>2, <1>5, <2>1, <2>2, <2>3, <2>5 DEF fs_close
    <2>8. FreeFile \in OpenFile
      BY DEF FreeFile, OpenFile, FileTypes, Ends
    <2>. QED
      BY <1>1, <1>2, <1>5, <2>1, <2>4, <2>6, <2>7, <2>8 DEF AllTables
  <1>. QED
    BY <1>1, <1>2, <1>3, <1>4, <1>5

\* One end of a pipe is counted once more.
EndDupped(pipe, end) == Recount(pipe, end, Counted(pipe, end) + 1)

\* The files and pipes after fs_dup, one by one.
LEMMA DupIs ==
    ASSUME NEW t \in AllTables, NEW f \in FileIds, NEW u, u = fs_dup(t, f),
           t.file[f].type = "PIPE" => t.file[f].pipe_id \in PipeIds
    PROVE  /\ u \in AllTables
           /\ \A g \in FileIds : g # f => u.file[g] = t.file[g]
           /\ u.file[f].ref = t.file[f].ref + 1
           /\ u.file[f].type = t.file[f].type
           /\ u.file[f].pipe_id = t.file[f].pipe_id
           /\ u.file[f].pipe_end = t.file[f].pipe_end
           /\ t.file[f].type # "PIPE" => u.pipe = t.pipe
           /\ t.file[f].type = "PIPE" =>
                LET id == t.file[f].pipe_id
                IN  /\ \A k \in PipeIds : k # id => u.pipe[k] = t.pipe[k]
                    /\ u.pipe[id] = EndDupped(t.pipe[id], t.file[f].pipe_end)
  <1>1. PICK F \in [FileIds -> OpenFile], P \in [PipeIds -> OpenPipe] :
            t = [file |-> F, pipe |-> P]
    BY DEF AllTables
  <1>2. PICK file \in OpenFile : file = F[f]
    OBVIOUS
  <1>3. PICK G : G = [F EXCEPT ![f] = [file EXCEPT !.ref = @ + 1]]
    OBVIOUS
  <1>4. [F EXCEPT ![f].ref = @ + 1] = G
    BY <1>2, <1>3
  <1>5. [file EXCEPT !.ref = @ + 1] \in OpenFile
    BY DEF OpenFile
  <1>6. /\ G \in [FileIds -> OpenFile] /\ \A g \in FileIds : g # f => G[g] = F[g]
        /\ G[f].ref = file.ref + 1 /\ G[f].type = file.type
        /\ G[f].pipe_id = file.pipe_id /\ G[f].pipe_end = file.pipe_end
    BY <1>3, <1>5 DEF OpenFile
  <1>7. CASE file.type # "PIPE"
    <2>1. u = [file |-> G, pipe |-> P]
      BY <1>1, <1>2, <1>4, <1>7 DEF fs_dup
    <2>. QED
      BY <1>1, <1>2, <1>6, <1>7, <2>1 DEF AllTables
  <1>8. CASE file.type = "PIPE"
    <2>1. PICK id \in PipeIds, pipe \in OpenPipe, n \in Nat :
            /\ id = file.pipe_id /\ pipe = P[id]
            /\ n = Counted(pipe, file.pipe_end) + 1
      BY <1>1, <1>2, <1>8 DEF OpenPipe, Counted
    <2>2. PICK v : v = EndDupped(pipe, file.pipe_end)
      OBVIOUS
    <2>3. v = Recount(pipe, file.pipe_end, n)
      BY <2>1, <2>2 DEF EndDupped
    <2>4. v \in OpenPipe
      BY <2>3 DEF Recount, OpenPipe
    <2>5. u = [file |-> G, pipe |-> [P EXCEPT ![id] = v]]
      BY <1>1, <1>2, <1>4, <1>8, <2>1, <2>3 DEF fs_dup
    <2>. QED
      BY <1>1, <1>2, <1>6, <1>8, <2>1, <2>2, <2>4, <2>5 DEF AllTables
  <1>. QED
    BY <1>1, <1>2, <1>7, <1>8

\* An end of a pipe is referred to.
LEMMA EndInUse ==
    ASSUME NEW d, NEW t, Agree(d, t), NEW g \in FileIds, t.file[g].type = "PIPE"
    PROVE  t.file[g].ref \in Nat \ {0}
  <1>1. t.file[g].ref = Cardinality(Refs(d, g)) /\ Refs(d, g) # {}
    BY DEF Agree, Exact
  <1>2. IsFiniteSet(Refs(d, g)) /\ Cardinality(Refs(d, g)) \in Nat
    BY RefsFinite
  <1>3. Cardinality(Refs(d, g)) # 0
    BY <1>1, <1>2, FS_EmptySet
  <1>. QED
    BY <1>1, <1>2, <1>3

\* The last reference to one end of a pipe goes: the pipe is not freed while the
\* counter m of its other end is not 0.
LEMMA RecountDown ==
    ASSUME NEW pipe \in OpenPipe, NEW end \in {"read", "write"},
           1 <= Counted(pipe, end), NEW v, v = EndClosed(pipe, end), pipe.used
    PROVE  /\ \A other \in {"read", "write"} :
                other # end /\ 1 <= Counted(pipe, other) =>
                    v.used /\ Counted(v, other) = Counted(pipe, other)
           /\ v.readers <= pipe.readers /\ v.writers <= pipe.writers
  <1>1. Counted(pipe, end) \in Nat
    BY DEF OpenPipe, Counted
  <1>2. PICK rest \in Nat :
            rest = Counted(pipe, end) - 1 /\ rest < Counted(pipe, end) /\ ~(rest < 0)
    BY <1>1
  <1>3. v = pipe_maybe_free(Recount(pipe, end, rest))
    BY <1>2 DEF EndClosed
  <1>4. CASE end = "read"
    BY <1>2, <1>3, <1>4 DEF pipe_maybe_free, Recount, Counted, OpenPipe, FreePipe
  <1>5. CASE end = "write"
    BY <1>2, <1>3, <1>5 DEF pipe_maybe_free, Recount, Counted, OpenPipe, FreePipe
  <1>. QED
    BY <1>4, <1>5

\* A descriptor is cleared and its file closed.
LEMMA CloseOne ==
    ASSUME NEW d, NEW t, Agree(d, t), NEW p \in Procs, NEW fd \in Fds,
           NEW f, f = d[p][fd], f # Null,
           NEW e, e = With(d, p, fd, Null), NEW u, u = fs_close(t, f)
    PROVE  Agree(e, u) /\ LeavesLost(t, u) /\ (WithinBound(t) => WithinBound(u))
  <1>1. d \in AllFds /\ t \in AllTables /\ Exact(d, t) /\ Apart(t)
    BY DEF Agree
  <1>2. f \in FileIds
    BY <1>1 DEF AllFds
  <1>3. /\ e \in AllFds
        /\ Cardinality(Refs(e, f)) = Cardinality(Refs(d, f)) - 1
        /\ Refs(e, f) = {} <=> Cardinality(Refs(d, f)) = 1
        /\ \A g \in FileIds : g # f => Refs(e, g) = Refs(d, g)
        /\ Cardinality(Refs(d, f)) \in Nat \ {0}
    BY <1>1, RefsCleared
  <1>4. t.file[f].type = "PIPE" => Covered(t, f)
    BY <1>2 DEF Agree
  <1>5. t.file[f].type = "PIPE" => t.file[f].pipe_id \in PipeIds
    BY <1>4 DEF Covered
  <1>6. /\ u \in AllTables
        /\ \A g \in FileIds : g # f => u.file[g] = t.file[g]
    BY <1>1, <1>2, <1>5, CloseIs
  <1>7. /\ t.file[f].ref = Cardinality(Refs(d, f))
        /\ t.file[f].type = "FREE" <=> Refs(d, f) = {}
        /\ t.file[f].ref \in Nat \ {0}
    BY <1>1, <1>2, <1>3 DEF Exact
  <1>8. Refs(d, f) # {}
    <2>1. <<p, fd>> \in Refs(d, f)
      BY DEF Refs
    <2>. QED
      BY <2>1
  <1>9. \A g \in FileIds : g # f => /\ u.file[g].ref = Cardinality(Refs(e, g))
                                    /\ u.file[g].type = "FREE" <=> Refs(e, g) = {}
    BY <1>1, <1>3, <1>6 DEF Exact
  <1>10. CASE t.file[f].ref > 1
    <2>1. /\ u.pipe = t.pipe
          /\ u.file[f].ref = t.file[f].ref - 1
          /\ u.file[f].type = t.file[f].type
          /\ u.file[f].pipe_id = t.file[f].pipe_id
          /\ u.file[f].pipe_end = t.file[f].pipe_end
      BY <1>1, <1>2, <1>5, <1>10, CloseIs
    <2>2. Exact(e, u)
      <3>1. u.file[f].ref = Cardinality(Refs(e, f))
        BY <1>3, <1>7, <2>1
      <3>2. Cardinality(Refs(d, f)) # 1
        BY <1>7, <1>10
      <3>3. u.file[f].type # "FREE" /\ Refs(e, f) # {}
        BY <1>3, <1>7, <1>8, <2>1, <3>2
      <3>. QED
        BY <1>9, <3>1, <3>3 DEF Exact
    <2>3. \A g \in FileIds : /\ u.file[g].type = t.file[g].type
                             /\ u.file[g].pipe_id = t.file[g].pipe_id
                             /\ u.file[g].pipe_end = t.file[g].pipe_end
      BY <1>6, <2>1
    <2>4. Apart(u)
      BY <1>1, <2>3 DEF Apart
    <2>5. ASSUME NEW g \in FileIds, u.file[g].type = "PIPE" PROVE Covered(u, g)
      <3>1. Covered(t, g)
        BY <2>3, <2>5 DEF Agree
      <3>2. CASE g # f
        BY <1>6, <2>1, <3>1, <3>2 DEF Covered
      <3>3. CASE g = f
        <4>1. PICK c : c = Counted(t.pipe[t.file[g].pipe_id], t.file[g].pipe_end)
          OBVIOUS
        <4>2. c \in Nat /\ t.file[g].ref <= c /\ c = Counted(u.pipe[u.file[g].pipe_id], u.file[g].pipe_end)
          BY <1>1, <2>1, <3>1, <3>3, <4>1 DEF Covered, AllTables, OpenPipe, Counted
        <4>3. u.file[g].ref <= c
          <5>1. PICK r \in Nat : r = t.file[g].ref
            BY <1>7, <3>3
          <5>2. u.file[g].ref = r - 1 /\ r <= c
            BY <2>1, <3>3, <4>2, <5>1
          <5>3. r - 1 <= c
            <6>1. c \in Nat /\ r \in Nat /\ r <= c
              BY <4>2, <5>1, <5>2
            <6>. QED
              BY <6>1
          <5>. QED
            BY <5>2, <5>3
        <4>. QED
          BY <2>1, <3>1, <3>3, <4>2, <4>3 DEF Covered
      <3>. QED
        BY <3>2, <3>3
    <2>6. LeavesLost(t, u)
      BY <2>1, <2>3 DEF LeavesLost, LostPipe
    <2>7. WithinBound(t) => WithinBound(u)
      BY <2>1 DEF WithinBound
    <2>. QED
      BY <1>3, <1>6, <2>2, <2>4, <2>5, <2>6, <2>7 DEF Agree
  <1>11. CASE ~(t.file[f].ref > 1)
    <2>1. u.file[f] = FreeFile
      BY <1>1, <1>2, <1>5, <1>11, CloseIs
    <2>2. t.file[f].ref = 1
      BY <1>7, <1>11
    <2>3. Exact(e, u)
      <3>1. u.file[f].ref = Cardinality(Refs(e, f)) /\ u.file[f].type = "FREE" /\ Refs(e, f) = {}
        <4>1. Cardinality(Refs(d, f)) = 1
          BY <1>7, <2>2
        <4>2. Refs(e, f) = {} /\ Cardinality(Refs(e, f)) = 0
          <5>1. Refs(e, f) = {}
            BY <1>3, <4>1
          <5>. QED
            BY <5>1, FS_EmptySet
        <4>3. u.file[f].ref = 0 /\ u.file[f].type = "FREE"
          BY <2>1 DEF FreeFile
        <4>. QED
          BY <4>2, <4>3
      <3>. QED
        BY <1>9, <3>1 DEF Exact
    <2>4. \A g \in FileIds : u.file[g].type = "PIPE" => g # f /\ u.file[g] = t.file[g]
      BY <1>6, <2>1 DEF FreeFile
    <2>5. Apart(u)
      BY <1>1, <2>4 DEF Apart
    <2>6. CASE t.file[f].type # "PIPE"
      <3>1. u.pipe = t.pipe
        BY <1>1, <1>2, <1>5, <1>11, <2>6, CloseIs
      <3>2. ASSUME NEW g \in FileIds, u.file[g].type = "PIPE" PROVE Covered(u, g)
        <4>1. u.file[g] = t.file[g]
          BY <2>4, <3>2
        <4>2. Covered(t, g)
          BY <3>2, <4>1 DEF Agree
        <4>. QED
          BY <3>1, <4>1, <4>2 DEF Covered
      <3>3. LeavesLost(t, u)
        BY <2>4, <3>1 DEF LeavesLost, LostPipe
      <3>4. WithinBound(t) => WithinBound(u)
        BY <3>1 DEF WithinBound
      <3>. QED
        BY <1>3, <1>6, <2>3, <2>5, <3>2, <3>3, <3>4 DEF Agree
    <2>7. CASE t.file[f].type = "PIPE"
      <3>1. PICK id \in PipeIds, end \in {"read", "write"} :
                id = t.file[f].pipe_id /\ end = t.file[f].pipe_end
        BY <1>4, <2>7 DEF Covered
      <3>2. PICK pipe \in OpenPipe : pipe = t.pipe[id]
        BY <1>1 DEF AllTables
      <3>3. pipe.used /\ 1 <= Counted(pipe, end)
        BY <1>4, <2>2, <2>7, <3>1, <3>2 DEF Covered
      <3>4. /\ \A k \in PipeIds : k # id => u.pipe[k] = t.pipe[k]
            /\ u.pipe[id] = EndClosed(pipe, end)
        BY <1>1, <1>2, <1>5, <1>11, <2>7, <3>1, <3>2, CloseIs
      <3>5. /\ \A other \in {"read", "write"} :
                 other # end /\ 1 <= Counted(pipe, other) =>
                     u.pipe[id].used /\ Counted(u.pipe[id], other) = Counted(pipe, other)
            /\ u.pipe[id].readers <= pipe.readers /\ u.pipe[id].writers <= pipe.writers
        BY <3>3, <3>4, RecountDown
      <3>6. ASSUME NEW g \in FileIds, u.file[g].type = "PIPE" PROVE Covered(u, g)
        <4>1. u.file[g] = t.file[g] /\ g # f
          BY <2>4, <3>6
        <4>2. Covered(t, g) /\ t.file[g].type = "PIPE"
          BY <3>6, <4>1 DEF Agree
        <4>3. CASE t.file[g].pipe_id # id
          BY <3>4, <4>1, <4>2, <4>3 DEF Covered
        <4>4. CASE t.file[g].pipe_id = id
          <5>1. t.file[g].pipe_end \in {"read", "write"} /\ t.file[g].pipe_end # end
            BY <1>1, <1>2, <2>7, <3>1, <4>1, <4>2, <4>4 DEF Apart, Covered
          <5>2. t.file[g].ref \in Nat \ {0}
            BY <4>2, EndInUse
          <5>3. t.file[g].ref <= Counted(pipe, t.file[g].pipe_end) /\ Counted(pipe, t.file[g].pipe_end) \in Nat
            BY <3>2, <4>2, <4>4 DEF Covered, OpenPipe, Counted
          <5>4. 1 <= Counted(pipe, t.file[g].pipe_end)
            BY <5>2, <5>3
          <5>5. u.pipe[id].used /\ Counted(u.pipe[id], t.file[g].pipe_end) = Counted(pipe, t.file[g].pipe_end)
            BY <3>5, <5>1, <5>4
          <5>. QED
            BY <4>1, <4>2, <4>4, <5>1, <5>3, <5>5 DEF Covered
        <4>. QED
          BY <4>3, <4>4
      <3>7. LeavesLost(t, u)
        <4>. SUFFICES ASSUME NEW k \in PipeIds, LostPipe(t, k)
                      PROVE  u.pipe[k] = t.pipe[k] /\ LostPipe(u, k)
          BY DEF LeavesLost
        <4>1. k # id
          BY <1>2, <2>7, <3>1 DEF LostPipe
        <4>. QED
          BY <2>4, <3>4, <4>1 DEF LostPipe
      <3>8. WithinBound(t) => WithinBound(u)
        <4>. SUFFICES ASSUME WithinBound(t), NEW k \in PipeIds
                      PROVE  u.pipe[k].readers <= MaxEnds /\ u.pipe[k].writers <= MaxEnds
          BY DEF WithinBound
        <4>1. t.pipe[k].readers <= MaxEnds /\ t.pipe[k].writers <= MaxEnds
          BY DEF WithinBound
        <4>2. u.pipe[k] \in OpenPipe /\ t.pipe[k] \in OpenPipe
          BY <1>1, <1>6 DEF AllTables
        <4>3. u.pipe[k].readers <= t.pipe[k].readers /\ u.pipe[k].writers <= t.pipe[k].writers
          BY <3>2, <3>4, <3>5, <4>2 DEF OpenPipe
        <4>. QED
          BY <4>1, <4>2, <4>3, SizeAssumption DEF OpenPipe
      <3>. QED
        BY <1>3, <1>6, <2>3, <2>5, <3>6, <3>7, <3>8 DEF Agree
    <2>. QED
      BY <2>6, <2>7
  <1>. QED
    BY <1>10, <1>11

\* The other end is left alone.
LEMMA RecountUp ==
    ASSUME NEW pipe \in OpenPipe, NEW end \in {"read", "write"},
           NEW v, v = EndDupped(pipe, end)
    PROVE  /\ v.used = pipe.used
           /\ Counted(v, end) = Counted(pipe, end) + 1
           /\ \A other \in {"read", "write"} :
                other # end => Counted(v, other) = Counted(pipe, other)
  <1>1. CASE end = "read"
    BY <1>1 DEF EndDupped, Recount, Counted, OpenPipe
  <1>2. CASE end = "write"
    BY <1>2 DEF EndDupped, Recount, Counted, OpenPipe
  <1>. QED
    BY <1>1, <1>2

\* A free descriptor is made to refer to a file that is open already.
LEMMA DupOne ==
    ASSUME NEW d, NEW t, Agree(d, t), NEW p \in Procs, NEW fd \in Fds, d[p][fd] = Null,
           NEW f \in FileIds, t.file[f].type # "FREE",
           NEW e, e = With(d, p, fd, f), NEW u, u = fs_dup(t, f)
    PROVE  Agree(e, u) /\ LeavesLost(t, u)
  <1>1. d \in AllFds /\ t \in AllTables /\ Exact(d, t) /\ Apart(t)
    BY DEF Agree
  <1>2. /\ e \in AllFds
        /\ Cardinality(Refs(e, f)) = Cardinality(Refs(d, f)) + 1
        /\ Refs(e, f) # {}
        /\ \A g \in FileIds : g # f => Refs(e, g) = Refs(d, g)
        /\ Cardinality(Refs(d, f)) \in Nat
    BY <1>1, RefsSet
  <1>3. t.file[f].type = "PIPE" => Covered(t, f)
    BY DEF Agree
  <1>4. t.file[f].type = "PIPE" => t.file[f].pipe_id \in PipeIds
    BY <1>3 DEF Covered
  <1>5. /\ u \in AllTables
        /\ \A g \in FileIds : g # f => u.file[g] = t.file[g]
        /\ u.file[f].ref = t.file[f].ref + 1
        /\ u.file[f].type = t.file[f].type
        /\ u.file[f].pipe_id = t.file[f].pipe_id
        /\ u.file[f].pipe_end = t.file[f].pipe_end
    BY <1>1, <1>4, DupIs
  <1>6. Exact(e, u)
    <2>1. u.file[f].ref = Cardinality(Refs(e, f)) /\ u.file[f].type # "FREE"
      BY <1>1, <1>2, <1>5 DEF Exact
    <2>2. \A g \in FileIds : g # f => /\ u.file[g].ref = Cardinality(Refs(e, g))
                                      /\ u.file[g].type = "FREE" <=> Refs(e, g) = {}
      BY <1>1, <1>2, <1>5 DEF Exact
    <2>. QED
      BY <1>2, <2>1, <2>2 DEF Exact
  <1>7. \A g \in FileIds : /\ u.file[g].type = t.file[g].type
                           /\ u.file[g].pipe_id = t.file[g].pipe_id
                           /\ u.file[g].pipe_end = t.file[g].pipe_end
    BY <1>5
  <1>8. Apart(u)
    BY <1>1, <1>7 DEF Apart
  <1>9. CASE t.file[f].type # "PIPE"
    <2>1. u.pipe = t.pipe
      BY <1>1, <1>4, <1>9, DupIs
    <2>2. ASSUME NEW g \in FileIds, u.file[g].type = "PIPE" PROVE Covered(u, g)
      <3>1. u.file[g] = t.file[g]
        BY <1>5, <1>7, <1>9, <2>2
      <3>2. Covered(t, g)
        BY <2>2, <3>1 DEF Agree
      <3>. QED
        BY <2>1, <3>1, <3>2 DEF Covered
    <2>3. LeavesLost(t, u)
      BY <1>7, <2>1 DEF LeavesLost, LostPipe
    <2>. QED
      BY <1>2, <1>5, <1>6, <1>8, <2>2, <2>3 DEF Agree
  <1>10. CASE t.file[f].type = "PIPE"
    <2>1. PICK id \in PipeIds, end \in {"read", "write"} :
              id = t.file[f].pipe_id /\ end = t.file[f].pipe_end
      BY <1>3, <1>10 DEF Covered
    <2>2. PICK pipe \in OpenPipe : pipe = t.pipe[id]
      BY <1>1 DEF AllTables
    <2>3. /\ \A k \in PipeIds : k # id => u.pipe[k] = t.pipe[k]
          /\ u.pipe[id] = EndDupped(pipe, end)
      BY <1>1, <1>4, <1>10, <2>1, <2>2, DupIs
    <2>4. /\ u.pipe[id].used = pipe.used
          /\ Counted(u.pipe[id], end) = Counted(pipe, end) + 1
          /\ \A other \in {"read", "write"} :
               other # end => Counted(u.pipe[id], other) = Counted(pipe, other)
      BY <2>3, RecountUp
    <2>5. ASSUME NEW g \in FileIds, u.file[g].type = "PIPE" PROVE Covered(u, g)
      <3>1. Covered(t, g) /\ t.file[g].type = "PIPE"
        BY <1>7, <2>5 DEF Agree
      <3>2. CASE g = f
        <4>1. PICK r \in Nat, c \in Nat : r = t.file[f].ref /\ c = Counted(pipe, end)
          BY <1>1, <2>2 DEF AllTables, OpenFile, OpenPipe, Counted
        <4>2. r <= c
          BY <2>1, <2>2, <3>1, <3>2, <4>1 DEF Covered
        <4>3. r + 1 <= c + 1
          BY <4>2
        <4>. QED
          BY <1>5, <2>1, <2>2, <2>4, <3>1, <3>2, <4>1, <4>3, SMTT(30) DEF Covered
      <3>3. CASE g # f /\ t.file[g].pipe_id # id
        BY <1>5, <2>3, <3>1, <3>3 DEF Covered
      <3>4. CASE g # f /\ t.file[g].pipe_id = id
        <4>1. t.file[g].pipe_end \in {"read", "write"} /\ t.file[g].pipe_end # end
          BY <1>1, <1>10, <2>1, <3>1, <3>4 DEF Apart, Covered
        <4>. QED
          BY <1>5, <2>2, <2>4, <3>1, <3>4, <4>1 DEF Covered
      <3>. QED
        BY <3>2, <3>3, <3>4
    <2>6. LeavesLost(t, u)
      <3>. SUFFICES ASSUME NEW k \in PipeIds, LostPipe(t, k)
                    PROVE  u.pipe[k] = t.pipe[k] /\ LostPipe(u, k)
        BY DEF LeavesLost
      <3>1. k # id
        BY <1>10, <2>1 DEF LostPipe
      <3>. QED
        BY <1>7, <2>3, <3>1 DEF LostPipe
    <2>. QED
      BY <1>2, <1>5, <1>6, <1>8, <2>5, <2>6 DEF Agree
  <1>. QED
    BY <1>9, <1>10

-----------------------------------------------------------------------------
(* The loops over the descriptors of a process.                            *)

CloseStep(t, fds, n) == IF fds[n] = Null THEN t ELSE fs_close(t, fds[n])
DupStep(t, fds, n) == IF fds[n] = Null THEN t ELSE fs_dup(t, fds[n])

\* close_all goes from one descriptor to the next: the function it is defined by
\* exists, since one up to n - 1 extends to n.
LEMMA CloseLoop ==
    ASSUME NEW t, NEW fds
    PROVE  \E T : /\ T[0] = t
                  /\ \A n \in 1..MaxFd : T[n] = CloseStep(T[n - 1], fds, n)
                  /\ close_all(t, fds) = T[MaxFd]
  <1>. DEFINE Loop(g, n) ==
         g = [k \in 0..n |-> IF k = 0 THEN t ELSE CloseStep(g[k - 1], fds, k)]
  <1>. DEFINE good == {n \in 0..MaxFd : \E g : Loop(g, n)}
  <1>0. MaxFd \in Nat
    BY SizeAssumption
  <1>1. 0 \in good
    <2>1. PICK g : g = [k \in 0..0 |-> t]
      OBVIOUS
    <2>2. Loop(g, 0)
      BY <2>1
    <2>. QED
      BY <1>0, <2>2
  <1>2. ASSUME NEW n \in 1..MaxFd, n - 1 \in good PROVE n \in good
    <2>1. PICK g : Loop(g, n - 1)
      BY <1>2
    <2>2. PICK h : h = [k \in 0..n |-> IF k = n THEN CloseStep(g[n - 1], fds, n) ELSE g[k]]
      OBVIOUS
    <2>3. ASSUME NEW k \in 0..n
          PROVE  h[k] = IF k = 0 THEN t ELSE CloseStep(h[k - 1], fds, k)
      <3>1. CASE k = 0
        BY <1>0, <2>1, <2>2, <3>1
      <3>2. CASE k # 0 /\ k # n
        <4>1. k \in 0..(n - 1) /\ k - 1 \in 0..n /\ k - 1 # n
          BY <1>0, <3>2
        <4>2. h[k] = g[k] /\ h[k - 1] = g[k - 1]
          BY <2>2, <3>2, <4>1
        <4>3. g[k] = CloseStep(g[k - 1], fds, k)
          BY <2>1, <3>2, <4>1
        <4>. QED
          BY <3>2, <4>2, <4>3
      <3>3. CASE k = n
        <4>1. k # 0 /\ k - 1 \in 0..n /\ k - 1 # n
          BY <1>0, <3>3
        <4>2. h[k - 1] = g[n - 1] /\ h[k] = CloseStep(g[n - 1], fds, n)
          BY <2>2, <3>3, <4>1
        <4>. QED
          BY <3>3, <4>1, <4>2
      <3>. QED
        BY <3>1, <3>2, <3>3
    <2>4. Loop(h, n)
      <3>1. h = [k \in 0..n |-> h[k]]
        BY <2>2
      <3>. QED
        BY <2>3, <3>1
    <2>. QED
      BY <1>0, <2>4
  <1>3. MaxFd \in good
    <2>. HIDE DEF good
    <2>1. \A n \in 0..MaxFd : n \in good
      BY <1>0, <1>1, <1>2, UpTo
    <2>. QED
      BY <1>0, <2>1
  <1>4. PICK T : T = CHOOSE g : Loop(g, MaxFd)
    OBVIOUS
  <1>5. Loop(T, MaxFd)
    BY <1>3, <1>4, Zenon
  <1>6. close_all(t, fds) = T[MaxFd]
    BY <1>4 DEF close_all, CloseStep
  <1>7. T[0] = t /\ \A n \in 1..MaxFd : T[n] = CloseStep(T[n - 1], fds, n)
    BY <1>0, <1>5
  <1>. QED
    BY <1>6, <1>7

\* So does dup_all.
LEMMA DupLoop ==
    ASSUME NEW t, NEW fds
    PROVE  \E T : /\ T[0] = t
                  /\ \A n \in 1..MaxFd : T[n] = DupStep(T[n - 1], fds, n)
                  /\ dup_all(t, fds) = T[MaxFd]
  <1>. DEFINE Loop(g, n) ==
         g = [k \in 0..n |-> IF k = 0 THEN t ELSE DupStep(g[k - 1], fds, k)]
  <1>. DEFINE good == {n \in 0..MaxFd : \E g : Loop(g, n)}
  <1>0. MaxFd \in Nat
    BY SizeAssumption
  <1>1. 0 \in good
    <2>1. PICK g : g = [k \in 0..0 |-> t]
      OBVIOUS
    <2>2. Loop(g, 0)
      BY <2>1
    <2>. QED
      BY <1>0, <2>2
  <1>2. ASSUME NEW n \in 1..MaxFd, n - 1 \in good PROVE n \in good
    <2>1. PICK g : Loop(g, n - 1)
      BY <1>2
    <2>2. PICK h : h = [k \in 0..n |-> IF k = n THEN DupStep(g[n - 1], fds, n) ELSE g[k]]
      OBVIOUS
    <2>3. ASSUME NEW k \in 0..n
          PROVE  h[k] = IF k = 0 THEN t ELSE DupStep(h[k - 1], fds, k)
      <3>1. CASE k = 0
        BY <1>0, <2>1, <2>2, <3>1
      <3>2. CASE k # 0 /\ k # n
        <4>1. k \in 0..(n - 1) /\ k - 1 \in 0..n /\ k - 1 # n
          BY <1>0, <3>2
        <4>2. h[k] = g[k] /\ h[k - 1] = g[k - 1]
          BY <2>2, <3>2, <4>1
        <4>3. g[k] = DupStep(g[k - 1], fds, k)
          BY <2>1, <3>2, <4>1
        <4>. QED
          BY <3>2, <4>2, <4>3
      <3>3. CASE k = n
        <4>1. k # 0 /\ k - 1 \in 0..n /\ k - 1 # n
          BY <1>0, <3>3
        <4>2. h[k - 1] = g[n - 1] /\ h[k] = DupStep(g[n - 1], fds, n)
          BY <2>2, <3>3, <4>1
        <4>. QED
          BY <3>3, <4>1, <4>2
      <3>. QED
        BY <3>1, <3>2, <3>3
    <2>4. Loop(h, n)
      <3>1. h = [k \in 0..n |-> h[k]]
        BY <2>2
      <3>. QED
        BY <2>3, <3>1
    <2>. QED
      BY <1>0, <2>4
  <1>3. MaxFd \in good
    <2>. HIDE DEF good
    <2>1. \A n \in 0..MaxFd : n \in good
      BY <1>0, <1>1, <1>2, UpTo
    <2>. QED
      BY <1>0, <2>1
  <1>4. PICK T : T = CHOOSE g : Loop(g, MaxFd)
    OBVIOUS
  <1>5. Loop(T, MaxFd)
    BY <1>3, <1>4, Zenon
  <1>6. dup_all(t, fds) = T[MaxFd]
    BY <1>4 DEF dup_all, DupStep
  <1>7. T[0] = t /\ \A n \in 1..MaxFd : T[n] = DupStep(T[n - 1], fds, n)
    BY <1>0, <1>5
  <1>. QED
    BY <1>6, <1>7

\* A file that a descriptor refers to is open.
LEMMA Referred ==
    ASSUME NEW d, NEW t, Agree(d, t), NEW p \in Procs, NEW fd \in Fds,
           NEW f, f = d[p][fd], f # Null
    PROVE  f \in FileIds /\ t.file[f].type # "FREE"
  <1>1. f \in FileIds
    BY DEF Agree, AllFds
  <1>2. <<p, fd>> \in Refs(d, f)
    BY DEF Refs
  <1>. QED
    BY <1>1, <1>2 DEF Agree, Exact

\* terminate_proc: every descriptor of a process is closed.
LEMMA CloseAll ==
    ASSUME NEW d, NEW t, Agree(d, t), NEW p \in Procs,
           NEW e, e = [d EXCEPT ![p] = [fd \in Fds |-> Null]],
           NEW u, u = close_all(t, d[p])
    PROVE  Agree(e, u) /\ LeavesLost(t, u) /\ (WithinBound(t) => WithinBound(u))
  <1>. DEFINE Part(n) == [q \in Procs |-> [k \in Fds |->
                            IF q = p /\ k <= n THEN Null ELSE d[q][k]]]
  <1>1. MaxFd \in Nat /\ d \in AllFds
    BY SizeAssumption DEF Agree
  <1>2. PICK T : /\ T[0] = t
                 /\ \A n \in 1..MaxFd : T[n] = CloseStep(T[n - 1], d[p], n)
                 /\ u = T[MaxFd]
    BY CloseLoop
  <1>. DEFINE good == {n \in 0..MaxFd : /\ Agree(Part(n), T[n]) /\ LeavesLost(t, T[n])
                                        /\ WithinBound(t) => WithinBound(T[n])}
  <1>3. 0 \in good
    <2>1. Part(0) = d
      BY <1>1 DEF AllFds, Fds
    <2>2. LeavesLost(t, t)
      BY DEF LeavesLost
    <2>. QED
      BY <1>1, <1>2, <2>1, <2>2
  <1>4. ASSUME NEW n \in 1..MaxFd, n - 1 \in good PROVE n \in good
    <2>1. n \in Fds /\ n \in 0..MaxFd
      BY <1>1 DEF Fds
    <2>2. PICK a : a = Part(n - 1)
      OBVIOUS
    <2>3. PICK b : b = Part(n)
      OBVIOUS
    <2>4. /\ Agree(a, T[n - 1]) /\ LeavesLost(t, T[n - 1])
          /\ WithinBound(t) => WithinBound(T[n - 1])
      BY <1>4, <2>2
    <2>5. T[n] = CloseStep(T[n - 1], d[p], n)
      BY <1>2
    <2>6. \A k \in Fds : k <= n <=> k <= n - 1 \/ k = n
      BY <1>1 DEF Fds
    <2>7. ~(n <= n - 1)
      BY <1>1
    <2>8. a[p][n] = d[p][n]
      BY <1>1, <2>1, <2>2, <2>7
    <2>9. CASE d[p][n] = Null
      <3>1. b = a
        BY <1>1, <2>2, <2>3, <2>6, <2>9
      <3>2. T[n] = T[n - 1]
        BY <2>5, <2>9 DEF CloseStep
      <3>. QED
        BY <2>1, <2>3, <2>4, <3>1, <3>2
    <2>10. CASE d[p][n] # Null
      <3>1. b = With(a, p, n, Null)
        BY <1>1, <2>1, <2>2, <2>3, <2>6 DEF With
      <3>2. T[n] = fs_close(T[n - 1], a[p][n])
        BY <2>5, <2>8, <2>10 DEF CloseStep
      <3>3. Agree(b, T[n]) /\ LeavesLost(T[n - 1], T[n])
            /\ (WithinBound(T[n - 1]) => WithinBound(T[n]))
        BY <2>1, <2>4, <2>8, <2>10, <3>1, <3>2, CloseOne
      <3>4. LeavesLost(t, T[n])
        BY <2>4, <3>3, LeavesLostAgain
      <3>. QED
        BY <2>1, <2>3, <2>4, <3>3, <3>4
    <2>. QED
      BY <2>9, <2>10
  <1>5. MaxFd \in good
    <2>. HIDE DEF good
    <2>1. \A n \in 0..MaxFd : n \in good
      BY <1>1, <1>3, <1>4, UpTo
    <2>. QED
      BY <1>1, <2>1
  <1>6. Part(MaxFd) = e
    <2>1. \A k \in Fds : k <= MaxFd
      BY <1>1 DEF Fds
    <2>2. \A q \in Procs : Part(MaxFd)[q] = IF q = p THEN [k \in Fds |-> Null] ELSE d[q]
      BY <1>1, <2>1 DEF AllFds
    <2>3. e = [q \in Procs |-> IF q = p THEN [k \in Fds |-> Null] ELSE d[q]]
      BY <1>1 DEF AllFds
    <2>. QED
      BY <2>2, <2>3
  <1>. QED
    BY <1>2, <1>5, <1>6

\* proc_fork_current: a process without descriptors gets those of another.
LEMMA DupAll ==
    ASSUME NEW d, NEW t, Agree(d, t), NEW p \in Procs, NEW c \in Procs, c # p,
           \A k \in Fds : d[c][k] = Null,
           NEW e, e = [d EXCEPT ![c] = d[p]], NEW u, u = dup_all(t, d[p])
    PROVE  Agree(e, u) /\ LeavesLost(t, u)
  <1>. DEFINE Part(n) == [q \in Procs |-> [k \in Fds |->
                            IF q = c /\ k <= n THEN d[p][k] ELSE d[q][k]]]
  <1>1. MaxFd \in Nat /\ d \in AllFds
    BY SizeAssumption DEF Agree
  <1>2. PICK T : /\ T[0] = t
                 /\ \A n \in 1..MaxFd : T[n] = DupStep(T[n - 1], d[p], n)
                 /\ u = T[MaxFd]
    BY DupLoop
  <1>. DEFINE good == {n \in 0..MaxFd : Agree(Part(n), T[n]) /\ LeavesLost(t, T[n])}
  <1>3. 0 \in good
    <2>1. Part(0) = d
      BY <1>1 DEF AllFds, Fds
    <2>2. LeavesLost(t, t)
      BY DEF LeavesLost
    <2>. QED
      BY <1>1, <1>2, <2>1, <2>2
  <1>4. ASSUME NEW n \in 1..MaxFd, n - 1 \in good PROVE n \in good
    <2>1. n \in Fds /\ n \in 0..MaxFd
      BY <1>1 DEF Fds
    <2>2. PICK a : a = Part(n - 1)
      OBVIOUS
    <2>3. PICK b : b = Part(n)
      OBVIOUS
    <2>4. Agree(a, T[n - 1]) /\ LeavesLost(t, T[n - 1])
      BY <1>4, <2>2
    <2>5. T[n] = DupStep(T[n - 1], d[p], n)
      BY <1>2
    <2>6. \A k \in Fds : k <= n <=> k <= n - 1 \/ k = n
      BY <1>1 DEF Fds
    <2>7. ~(n <= n - 1)
      BY <1>1
    <2>8. a[p][n] = d[p][n] /\ a[c][n] = Null
      BY <1>1, <2>1, <2>2, <2>7
    <2>9. CASE d[p][n] = Null
      <3>1. b = a
        BY <1>1, <2>2, <2>3, <2>6, <2>9
      <3>2. T[n] = T[n - 1]
        BY <2>5, <2>9 DEF DupStep
      <3>. QED
        BY <2>1, <2>3, <2>4, <3>1, <3>2
    <2>10. CASE d[p][n] # Null
      <3>1. PICK f : f = d[p][n]
        OBVIOUS
      <3>2. f \in FileIds /\ T[n - 1].file[f].type # "FREE"
        BY <2>1, <2>4, <2>8, <2>10, <3>1, Referred
      <3>3. b = With(a, c, n, f)
        BY <1>1, <2>1, <2>2, <2>3, <2>6, <3>1 DEF With
      <3>4. T[n] = fs_dup(T[n - 1], f)
        BY <2>5, <2>10, <3>1 DEF DupStep
      <3>5. Agree(b, T[n]) /\ LeavesLost(T[n - 1], T[n])
        BY <2>1, <2>4, <2>8, <3>2, <3>3, <3>4, DupOne
      <3>6. LeavesLost(t, T[n])
        BY <2>4, <3>5, LeavesLostAgain
      <3>. QED
        BY <2>1, <2>3, <3>5, <3>6
    <2>. QED
      BY <2>9, <2>10
  <1>5. MaxFd \in good
    <2>. HIDE DEF good
    <2>1. \A n \in 0..MaxFd : n \in good
      BY <1>1, <1>3, <1>4, UpTo
    <2>. QED
      BY <1>1, <2>1
  <1>6. Part(MaxFd) = e
    <2>1. \A k \in Fds : k <= MaxFd
      BY <1>1 DEF Fds
    <2>2. \A q \in Procs : Part(MaxFd)[q] = IF q = c THEN d[p] ELSE d[q]
      BY <1>1, <2>1 DEF AllFds
    <2>3. e = [q \in Procs |-> IF q = c THEN d[p] ELSE d[q]]
      BY <1>1 DEF AllFds
    <2>. QED
      BY <2>2, <2>3
  <1>. QED
    BY <1>2, <1>5, <1>6


-----------------------------------------------------------------------------
(* A new file for a free descriptor.                                       *)

\* File x, new among the tables t, is no end of a pipe or a new end of a pipe of
\* the table P.
NewEnd(t, P, x) ==
    x.type = "PIPE" =>
        /\ x.pipe_id \in PipeIds /\ x.pipe_end \in {"read", "write"}
        /\ P[x.pipe_id].used /\ 1 <= Counted(P[x.pipe_id], x.pipe_end)
        /\ ~LostPipe(t, x.pipe_id)
        /\ \A g \in FileIds : t.file[g].type = "PIPE" /\ t.file[g].pipe_id = x.pipe_id
                                => t.file[g].pipe_end # x.pipe_end

\* A free file is given to a free descriptor; pipes in use are left alone.
LEMMA NewFile ==
    ASSUME NEW d, NEW t, Agree(d, t), NEW p \in Procs, NEW fd \in Fds, d[p][fd] = Null,
           NEW f \in FileIds, t.file[f].type = "FREE",
           NEW x \in OpenFile, x.type # "FREE", x.ref = 1,
           NEW P \in [PipeIds -> OpenPipe],
           \A k \in PipeIds : t.pipe[k].used => P[k] = t.pipe[k],
           NewEnd(t, P, x),
           NEW e, e = With(d, p, fd, f),
           NEW u, u = [file |-> [t.file EXCEPT ![f] = x], pipe |-> P]
    PROVE  Agree(e, u) /\ LeavesLost(t, u)
  <1>1. d \in AllFds /\ t \in AllTables /\ Exact(d, t) /\ Apart(t)
    BY DEF Agree
  <1>2. /\ e \in AllFds
        /\ Cardinality(Refs(e, f)) = Cardinality(Refs(d, f)) + 1
        /\ Refs(e, f) # {}
        /\ \A g \in FileIds : g # f => Refs(e, g) = Refs(d, g)
    BY <1>1, RefsSet
  <1>3. Cardinality(Refs(e, f)) = 1
    <2>1. Refs(d, f) = {}
      BY <1>1 DEF Exact
    <2>2. Cardinality(Refs(d, f)) = 0
      BY <2>1, FS_EmptySet
    <2>. QED
      BY <1>2, <2>2
  <1>4. /\ u \in AllTables /\ u.pipe = P /\ u.file[f] = x
        /\ \A g \in FileIds : g # f => u.file[g] = t.file[g]
    <2>1. t.file \in [FileIds -> OpenFile]
      BY <1>1 DEF AllTables
    <2>. QED
      BY <2>1 DEF AllTables
  <1>5. Exact(e, u)
    BY <1>1, <1>2, <1>3, <1>4 DEF Exact
  <1>6. Apart(u)
    <2>. SUFFICES ASSUME NEW g \in FileIds, NEW h \in FileIds,
                         u.file[g].type = "PIPE", u.file[h].type = "PIPE",
                         u.file[g].pipe_id = u.file[h].pipe_id,
                         u.file[g].pipe_end = u.file[h].pipe_end, g # h
                  PROVE  FALSE
      BY DEF Apart
    <2>1. CASE g # f /\ h # f
      BY <1>1, <1>4, <2>1 DEF Apart
    <2>2. CASE g = f \/ h = f
      BY <1>4, <2>2 DEF NewEnd
    <2>. QED
      BY <2>1, <2>2
  <1>7. ASSUME NEW g \in FileIds, u.file[g].type = "PIPE" PROVE Covered(u, g)
    <2>1. CASE g = f
      BY <1>4, <1>7, <2>1 DEF NewEnd, Covered
    <2>2. CASE g # f
      <3>1. Covered(t, g) /\ u.file[g] = t.file[g]
        BY <1>4, <1>7, <2>2 DEF Agree
      <3>. QED
        BY <1>4, <3>1 DEF Covered
    <2>. QED
      BY <2>1, <2>2
  <1>8. LeavesLost(t, u)
    <2>. SUFFICES ASSUME NEW k \in PipeIds, LostPipe(t, k)
                  PROVE  u.pipe[k] = t.pipe[k] /\ LostPipe(u, k)
      BY DEF LeavesLost
    <2>1. u.pipe[k] = t.pipe[k]
      BY <1>4 DEF LostPipe
    <2>2. x.type = "PIPE" => x.pipe_id # k
      BY DEF NewEnd
    <2>. QED
      BY <1>4, <2>1, <2>2 DEF LostPipe
  <1>. QED
    BY <1>2, <1>4, <1>5, <1>6, <1>7, <1>8 DEF Agree

-----------------------------------------------------------------------------
(* The invariant and the system calls.                                     *)

FilesInv ==
    /\ Agree(fd_table, Tables)
    /\ WithinBound(Tables)
    /\ DeadHoldNothing
    /\ alive \subseteq Procs

\* What a step keeps: the invariant, and lost pipes as they are.
Keeps == FilesInv' /\ LeavesLost(Tables, Tables')

\* A step leaves the tables u and the descriptors e.
LEMMA Becomes ==
    ASSUME NEW u \in AllTables, Become(u)
    PROVE  Tables' = u
  BY DEF Become, Tables, AllTables

\* What a step has to show.
LEMMA StepKeeps ==
    ASSUME NEW e, NEW t, NEW u, t = Tables, Agree(e, u), LeavesLost(t, u), WithinBound(u),
           fd_table' = e, Become(u), alive' \subseteq Procs,
           \A q \in Procs \ alive', k \in Fds : e[q][k] = Null
    PROVE  Keeps
  <1>1. Tables' = u
    BY Becomes DEF Agree
  <1>2. DeadHoldNothing'
    BY DEF DeadHoldNothing
  <1>. QED
    BY <1>1, <1>2 DEF Keeps, FilesInv

\* The dead hold nothing after a descriptor of a living process was set.
LEMMA StillDead ==
    ASSUME FilesInv, NEW p \in alive, NEW fd \in Fds, NEW f, NEW d, d = fd_table,
           NEW e, e = With(d, p, fd, f)
    PROVE  \A q \in Procs \ alive, k \in Fds : e[q][k] = Null
  <1>. SUFFICES ASSUME NEW q \in Procs \ alive, NEW k \in Fds PROVE e[q][k] = Null
    OBVIOUS
  <1>1. q # p /\ d[q][k] = Null /\ d \in [Procs -> [Fds -> FileIds \cup {Null}]]
    BY DEF FilesInv, DeadHoldNothing, Agree, AllFds
  <1>. QED
    BY <1>1 DEF With

\* The least and the next of a set of two and more.
LEMMA TwoLeast ==
    ASSUME NEW S, S \subseteq Nat, IsFiniteSet(S), Cardinality(S) >= 2
    PROVE  Min(S) \in S /\ Min(S \ {Min(S)}) \in S \ {Min(S)}
  <1>1. S # {}
    BY FS_EmptySet
  <1>2. PICK x \in S : x = Min(S)
    BY <1>1, MinMember
  <1>3. Cardinality(S \ {x}) = Cardinality(S) - 1 /\ Cardinality(S) \in Nat
    BY FS_RemoveElement, FS_CardinalityType
  <1>4. Cardinality(S \ {x}) # 0
    BY <1>3
  <1>5. S \ {x} # {}
    BY <1>4, FS_EmptySet
  <1>6. Min(S \ {x}) \in S \ {x}
    BY <1>5, MinMember
  <1>. QED
    BY <1>2, <1>6

\* sys_open gives a new file to a free descriptor.
LEMMA OpenKeeps ==
    ASSUME FilesInv, NEW p \in alive, sys_open(p)
    PROVE  Keeps
  <1>1. PICK d, t : d = fd_table /\ t = Tables
    OBVIOUS
  <1>2. Agree(d, t) /\ WithinBound(t) /\ p \in Procs /\ alive \subseteq Procs
    BY <1>1 DEF FilesInv
  <1>3. PICK f \in FreeFiles, fd \in FreeFds(p) : f = Min(FreeFiles) /\ fd = Min(FreeFds(p))
    <2>1. FreeFiles \subseteq Nat /\ FreeFds(p) \subseteq Nat
      BY DEF FreeFiles, FreeFds, FileIds, Fds
    <2>2. FreeFiles # {} /\ FreeFds(p) # {}
      BY DEF sys_open
    <2>. QED
      BY <2>1, <2>2, MinMember
  <1>4. f \in FileIds /\ t.file[f].type = "FREE" /\ fd \in Fds /\ d[p][fd] = Null
    BY <1>1, <1>3 DEF FreeFiles, FreeFds, Tables
  <1>5. PICK x : x = InodeFile
    OBVIOUS
  <1>6. x \in OpenFile /\ x.type = "INODE" /\ x.ref = 1
    BY <1>5 DEF InodeFile, FreeFile, OpenFile, FileTypes, Ends
  <1>7. PICK P \in [PipeIds -> OpenPipe] : P = t.pipe
    BY <1>2 DEF Agree, AllTables
  <1>8. PICK e : e = With(d, p, fd, f)
    OBVIOUS
  <1>9. PICK u : u = [file |-> [t.file EXCEPT ![f] = x], pipe |-> P]
    OBVIOUS
  <1>10. NewEnd(t, P, x)
    BY <1>6 DEF NewEnd
  <1>11. Agree(e, u) /\ LeavesLost(t, u)
    BY <1>2, <1>4, <1>6, <1>7, <1>8, <1>9, <1>10, NewFile
  <1>12. fd_table' = e /\ Become(u) /\ alive' = alive
    BY <1>1, <1>3, <1>5, <1>7, <1>8, <1>9 DEF sys_open, With, Become, Tables
  <1>13. WithinBound(u)
    BY <1>2, <1>7, <1>9 DEF WithinBound
  <1>14. \A q \in Procs \ alive', k \in Fds : e[q][k] = Null
    BY <1>1, <1>4, <1>8, <1>12, StillDead
  <1>. QED
    BY <1>1, <1>2, <1>11, <1>12, <1>13, <1>14, StepKeeps

\* sys_close closes one descriptor.
LEMMA CloseKeeps ==
    ASSUME FilesInv, NEW p \in alive, NEW fd \in Fds, sys_close(p, fd)
    PROVE  Keeps
  <1>1. PICK d, t, f : d = fd_table /\ t = Tables /\ f = d[p][fd]
    OBVIOUS
  <1>2. Agree(d, t) /\ WithinBound(t) /\ p \in Procs /\ alive \subseteq Procs /\ f # Null
    BY <1>1 DEF FilesInv, sys_close
  <1>3. PICK e, u : e = With(d, p, fd, Null) /\ u = fs_close(t, f)
    OBVIOUS
  <1>4. Agree(e, u) /\ LeavesLost(t, u) /\ WithinBound(u)
    BY <1>1, <1>2, <1>3, CloseOne
  <1>5. fd_table' = e /\ Become(u) /\ alive' = alive
    BY <1>1, <1>3 DEF sys_close, With
  <1>6. \A q \in Procs \ alive', k \in Fds : e[q][k] = Null
    BY <1>1, <1>3, <1>5, StillDead
  <1>. QED
    BY <1>1, <1>2, <1>4, <1>5, <1>6, StepKeeps

\* sys_dup sets a free descriptor to a file that is open.
LEMMA DupKeeps ==
    ASSUME FilesInv, NEW p \in alive, NEW oldfd \in Fds, sys_dup(p, oldfd)
    PROVE  Keeps
  <1>1. PICK d, t, f : d = fd_table /\ t = Tables /\ f = d[p][oldfd]
    OBVIOUS
  <1>2. Agree(d, t) /\ p \in Procs /\ alive \subseteq Procs /\ f # Null
    BY <1>1 DEF FilesInv, sys_dup
  <1>3. f \in FileIds /\ t.file[f].type # "FREE"
    BY <1>1, <1>2, Referred
  <1>4. PICK fd \in FreeFds(p) : fd = Min(FreeFds(p))
    <2>1. FreeFds(p) \subseteq Nat /\ FreeFds(p) # {}
      BY DEF FreeFds, Fds, sys_dup
    <2>. QED
      BY <2>1, MinMember
  <1>5. fd \in Fds /\ d[p][fd] = Null
    BY <1>1 DEF FreeFds
  <1>6. PICK e, u : e = With(d, p, fd, f) /\ u = fs_dup(t, f)
    OBVIOUS
  <1>7. Agree(e, u) /\ LeavesLost(t, u)
    BY <1>2, <1>3, <1>5, <1>6, DupOne
  <1>8. fd_table' = e /\ Become(u) /\ alive' = alive /\ WithinBound(u)
    BY <1>1, <1>4, <1>6 DEF sys_dup, With
  <1>9. \A q \in Procs \ alive', k \in Fds : e[q][k] = Null
    BY <1>1, <1>5, <1>6, <1>8, StillDead
  <1>. QED
    BY <1>1, <1>2, <1>7, <1>8, <1>9, StepKeeps

\* Closing newfd does not free the file of oldfd, which still refers to it.
LEMMA Dup2Keeps ==
    ASSUME FilesInv, NEW p \in alive, NEW oldfd \in Fds, NEW newfd \in Fds,
           sys_dup2(p, oldfd, newfd)
    PROVE  Keeps
  <1>1. PICK d, t, f, g : /\ d = fd_table /\ t = Tables
                          /\ f = d[p][oldfd] /\ g = d[p][newfd]
    OBVIOUS
  <1>2. /\ Agree(d, t) /\ p \in Procs /\ alive \subseteq Procs
        /\ f # Null /\ oldfd # newfd /\ d \in AllFds
    BY <1>1 DEF FilesInv, sys_dup2, Agree
  <1>3. PICK a, c : /\ a = With(d, p, newfd, Null)
                    /\ c = IF g = Null THEN t ELSE fs_close(t, g)
    OBVIOUS
  <1>4. a[p][newfd] = Null /\ a[p][oldfd] = f
    BY <1>1, <1>2, <1>3 DEF With, AllFds
  <1>5. Agree(a, c) /\ LeavesLost(t, c)
    <2>1. CASE g = Null
      <3>1. a = d
        BY <1>1, <1>2, <1>3, <2>1 DEF With, AllFds
      <3>2. LeavesLost(t, t)
        BY DEF LeavesLost
      <3>. QED
        BY <1>2, <1>3, <2>1, <3>1, <3>2
    <2>2. CASE g # Null
      BY <1>1, <1>2, <1>3, <2>2, CloseOne
    <2>. QED
      BY <2>1, <2>2
  <1>6. f \in FileIds /\ c.file[f].type # "FREE"
    BY <1>2, <1>4, <1>5, Referred
  <1>7. PICK e, u : e = With(a, p, newfd, f) /\ u = fs_dup(c, f)
    OBVIOUS
  <1>8. Agree(e, u) /\ LeavesLost(c, u)
    BY <1>2, <1>4, <1>5, <1>6, <1>7, DupOne
  <1>9. LeavesLost(t, u)
    BY <1>5, <1>8, LeavesLostAgain
  <1>10. e = With(d, p, newfd, f)
    BY <1>2, <1>3, <1>7 DEF With, AllFds
  <1>11. fd_table' = e /\ Become(u) /\ alive' = alive /\ WithinBound(u)
    BY <1>1, <1>3, <1>7, <1>10 DEF sys_dup2, With
  <1>12. \A q \in Procs \ alive', k \in Fds : e[q][k] = Null
    BY <1>1, <1>10, <1>11, StillDead
  <1>. QED
    BY <1>1, <1>2, <1>8, <1>9, <1>11, <1>12, StepKeeps

\* The two ends are two new files, one after the other.
LEMMA PipeKeeps ==
    ASSUME FilesInv, NEW p \in alive, sys_pipe(p)
    PROVE  Keeps
  <1>1. PICK d, t : d = fd_table /\ t = Tables
    OBVIOUS
  <1>2. Agree(d, t) /\ WithinBound(t) /\ p \in Procs /\ alive \subseteq Procs
    BY <1>1 DEF FilesInv
  <1>3. d \in AllFds /\ t.file \in [FileIds -> OpenFile] /\ t.pipe \in [PipeIds -> OpenPipe]
    BY <1>2 DEF Agree, AllTables
  <1>4. PICK id \in FreePipes : id = Min(FreePipes)
    <2>1. FreePipes \subseteq Nat /\ FreePipes # {}
      BY DEF FreePipes, PipeIds, sys_pipe
    <2>. QED
      BY <2>1, MinMember
  <1>5. PICK r, w : /\ r = Min(FreeFiles) /\ w = Min(FreeFiles \ {r})
                    /\ r \in FreeFiles /\ w \in FreeFiles \ {r}
    <2>1. FreeFiles \subseteq Nat /\ FreeFiles \subseteq FileIds
      BY DEF FreeFiles, FileIds
    <2>2. IsFiniteSet(FileIds)
      BY SizeAssumption, FS_Interval DEF FileIds
    <2>3. IsFiniteSet(FreeFiles) /\ Cardinality(FreeFiles) >= 2
      BY <2>1, <2>2, FS_Subset DEF sys_pipe
    <2>. QED
      BY <2>1, <2>3, TwoLeast
  <1>6. PICK rfd, wfd : /\ rfd = Min(FreeFds(p)) /\ wfd = Min(FreeFds(p) \ {rfd})
                        /\ rfd \in FreeFds(p) /\ wfd \in FreeFds(p) \ {rfd}
    <2>1. FreeFds(p) \subseteq Nat /\ FreeFds(p) \subseteq Fds
      BY DEF FreeFds, Fds
    <2>2. IsFiniteSet(Fds)
      BY SizeAssumption, FS_Interval DEF Fds
    <2>3. IsFiniteSet(FreeFds(p)) /\ Cardinality(FreeFds(p)) >= 2
      BY <2>1, <2>2, FS_Subset DEF sys_pipe
    <2>. QED
      BY <2>1, <2>3, TwoLeast
  <1>7. /\ id \in PipeIds /\ ~t.pipe[id].used
        /\ r \in FileIds /\ t.file[r].type = "FREE"
        /\ w \in FileIds /\ t.file[w].type = "FREE" /\ w # r
        /\ rfd \in Fds /\ d[p][rfd] = Null
        /\ wfd \in Fds /\ d[p][wfd] = Null /\ wfd # rfd
    BY <1>1, <1>4, <1>5, <1>6 DEF FreePipes, FreeFiles, FreeFds, Tables
  <1>8. PICK x, y : x = PipeFile(id, "read") /\ y = PipeFile(id, "write")
    OBVIOUS
  <1>9. /\ x \in OpenFile /\ x.type = "PIPE" /\ x.ref = 1 /\ x.pipe_id = id
        /\ x.pipe_end = "read"
        /\ y \in OpenFile /\ y.type = "PIPE" /\ y.ref = 1 /\ y.pipe_id = id
        /\ y.pipe_end = "write"
    BY <1>7, <1>8 DEF PipeFile, OpenFile, FileTypes, Ends
  <1>10. PICK z : z = [used |-> TRUE, readers |-> 1, writers |-> 1]
    OBVIOUS
  <1>11. PICK P : P = [t.pipe EXCEPT ![id] = z]
    OBVIOUS
  <1>12. /\ P \in [PipeIds -> OpenPipe] /\ P[id] = z
         /\ \A k \in PipeIds : k # id => P[k] = t.pipe[k]
    BY <1>3, <1>7, <1>10, <1>11 DEF OpenPipe
  <1>13. \A g \in FileIds : t.file[g].type = "PIPE" => t.file[g].pipe_id # id
    BY <1>2, <1>7 DEF Agree, Covered
  <1>14. PICK a, b : /\ a = With(d, p, rfd, r)
                     /\ b = [file |-> [t.file EXCEPT ![r] = x], pipe |-> P]
    OBVIOUS
  <1>15. Agree(a, b) /\ LeavesLost(t, b)
    <2>1. NewEnd(t, P, x)
      BY <1>7, <1>9, <1>10, <1>12, <1>13 DEF NewEnd, LostPipe, Counted
    <2>2. \A k \in PipeIds : t.pipe[k].used => P[k] = t.pipe[k]
      BY <1>7, <1>12
    <2>. QED
      BY <1>2, <1>7, <1>9, <1>12, <1>14, <2>1, <2>2, NewFile
  <1>16. /\ b.file[r] = x /\ b.pipe = P
         /\ \A g \in FileIds : g # r => b.file[g] = t.file[g]
    BY <1>3, <1>7, <1>14
  <1>17. PICK e, u : /\ e = With(a, p, wfd, w)
                     /\ u = [file |-> [b.file EXCEPT ![w] = y], pipe |-> P]
    OBVIOUS
  <1>18. Agree(e, u) /\ LeavesLost(b, u)
    <2>1. NewEnd(b, P, y)
      BY <1>7, <1>9, <1>10, <1>12, <1>13, <1>16 DEF NewEnd, LostPipe, Counted
    <2>2. a[p][wfd] = Null
      BY <1>2, <1>3, <1>7, <1>14 DEF With, AllFds
    <2>3. b.file[w].type = "FREE"
      BY <1>7, <1>16
    <2>4. \A k \in PipeIds : b.pipe[k].used => P[k] = b.pipe[k]
      BY <1>16
    <2>. QED
      BY <1>2, <1>7, <1>9, <1>12, <1>15, <1>17, <2>1, <2>2, <2>3, <2>4, NewFile
  <1>19. LeavesLost(t, u)
    BY <1>15, <1>18, LeavesLostAgain
  <1>20. fd_table' = e /\ Become(u) /\ alive' = alive
    <2>1. fd_table' = [d EXCEPT ![p][rfd] = r, ![p][wfd] = w] /\ alive' = alive
      BY <1>1, <1>4, <1>5, <1>6 DEF sys_pipe
    <2>2. file_table' = [t.file EXCEPT ![r] = x, ![w] = y] /\ pipe_table' = P
      BY <1>1, <1>4, <1>5, <1>8, <1>10, <1>11 DEF sys_pipe, Tables
    <2>3. u.file = [t.file EXCEPT ![r] = x, ![w] = y] /\ u.pipe = P
      BY <1>3, <1>14, <1>17
    <2>4. e = [d EXCEPT ![p][rfd] = r, ![p][wfd] = w]
      BY <1>14, <1>17 DEF With
    <2>. QED
      BY <2>1, <2>2, <2>3, <2>4 DEF Become
  <1>21. WithinBound(u)
    <2>. SUFFICES ASSUME NEW k \in PipeIds
                  PROVE  P[k].readers <= MaxEnds /\ P[k].writers <= MaxEnds
      BY <1>17 DEF WithinBound
    <2>1. CASE k = id
      BY <1>10, <1>12, <2>1, SizeAssumption
    <2>2. CASE k # id
      BY <1>2, <1>12, <2>2 DEF WithinBound
    <2>. QED
      BY <2>1, <2>2
  <1>22. \A q \in Procs \ alive', k \in Fds : e[q][k] = Null
    <2>1. \A q \in Procs \ alive, k \in Fds : a[q][k] = Null
      BY <1>1, <1>7, <1>14, StillDead
    <2>2. a \in AllFds
      BY <1>15 DEF Agree
    <2>. QED
      BY <1>17, <1>20, <2>1, <2>2 DEF With, AllFds
  <1>. QED
    BY <1>1, <1>2, <1>18, <1>19, <1>20, <1>21, <1>22, StepKeeps

\* The child had no descriptor, being dead.
LEMMA ForkKeeps ==
    ASSUME FilesInv, NEW p \in alive, NEW child \in Procs, fork(p, child)
    PROVE  Keeps
  <1>1. PICK d, t : d = fd_table /\ t = Tables
    OBVIOUS
  <1>2. /\ Agree(d, t) /\ p \in Procs /\ alive \subseteq Procs /\ d \in AllFds
        /\ child # p /\ child \notin alive
    BY <1>1 DEF FilesInv, fork, Agree
  <1>3. \A k \in Fds : d[child][k] = Null
    BY <1>1, <1>2 DEF FilesInv, DeadHoldNothing
  <1>4. PICK e, u : e = [d EXCEPT ![child] = d[p]] /\ u = dup_all(t, d[p])
    OBVIOUS
  <1>5. Agree(e, u) /\ LeavesLost(t, u)
    BY <1>2, <1>3, <1>4, DupAll
  <1>6. fd_table' = e /\ Become(u) /\ alive' = alive \cup {child} /\ WithinBound(u)
    BY <1>1, <1>4 DEF fork
  <1>7. \A q \in Procs \ alive', k \in Fds : e[q][k] = Null
    BY <1>1, <1>2, <1>4, <1>6 DEF FilesInv, DeadHoldNothing, AllFds
  <1>8. alive' \subseteq Procs
    BY <1>2, <1>6
  <1>. QED
    BY <1>1, <1>5, <1>6, <1>7, <1>8, StepKeeps

\* terminate_proc closes every descriptor of a process.
LEMMA TerminateKeeps ==
    ASSUME FilesInv, NEW p \in alive, terminate(p)
    PROVE  Keeps
  <1>1. PICK d, t : d = fd_table /\ t = Tables
    OBVIOUS
  <1>2. Agree(d, t) /\ WithinBound(t) /\ p \in Procs /\ alive \subseteq Procs /\ d \in AllFds
    BY <1>1 DEF FilesInv, Agree
  <1>3. PICK e, u : /\ e = [d EXCEPT ![p] = [fd \in Fds |-> Null]]
                    /\ u = close_all(t, d[p])
    OBVIOUS
  <1>4. Agree(e, u) /\ LeavesLost(t, u) /\ WithinBound(u)
    BY <1>2, <1>3, CloseAll
  <1>5. fd_table' = e /\ Become(u) /\ alive' = alive \ {p}
    BY <1>1, <1>3 DEF terminate
  <1>6. \A q \in Procs \ alive', k \in Fds : e[q][k] = Null
    BY <1>1, <1>2, <1>3, <1>5 DEF FilesInv, DeadHoldNothing, AllFds
  <1>. QED
    BY <1>1, <1>2, <1>4, <1>5, <1>6, StepKeeps

\* The first process has one descriptor for each of its files.
LEMMA InitHolds ==
    ASSUME FilesInit
    PROVE  FilesInv
  <1>1. PICK d, t : d = fd_table /\ t = Tables
    OBVIOUS
  <1>2. /\ d = [q \in Procs |-> [k \in Fds |-> IF q = 1 /\ k <= NStdio THEN k ELSE Null]]
        /\ t.file = [f \in FileIds |-> IF f <= NStdio THEN InodeFile ELSE FreeFile]
        /\ t.pipe = [i \in PipeIds |-> FreePipe]
        /\ t = [file |-> t.file, pipe |-> t.pipe]
    BY <1>1 DEF FilesInit, Tables
  <1>3. 1 \in Procs /\ \A k \in Fds : k <= NStdio => k \in FileIds
    BY SizeAssumption DEF Procs, Fds, FileIds
  <1>4. d \in AllFds
    BY <1>2, <1>3 DEF AllFds
  <1>5. InodeFile \in OpenFile /\ FreeFile \in OpenFile /\ FreePipe \in OpenPipe
    BY DEF InodeFile, FreeFile, FreePipe, OpenFile, OpenPipe, FileTypes, Ends
  <1>6. t \in AllTables
    BY <1>2, <1>5 DEF AllTables
  <1>7. ASSUME NEW f \in FileIds
        PROVE  /\ t.file[f].ref = Cardinality(Refs(d, f))
               /\ t.file[f].type = "FREE" <=> Refs(d, f) = {}
               /\ t.file[f].type # "PIPE"
    <2>1. f # Null
      BY DEF FileIds, Null
    <2>2. CASE f <= NStdio
      <3>1. f \in Fds
        BY <2>2, SizeAssumption DEF Fds, FileIds
      <3>2. ASSUME NEW x \in Procs \X Fds PROVE d[x[1]][x[2]] = f <=> x = <<1, f>>
        BY <1>2, <2>1, <2>2, <3>2
      <3>3. Refs(d, f) = {<<1, f>>}
        BY <1>3, <3>1, <3>2 DEF Refs
      <3>4. Cardinality(Refs(d, f)) = 1
        BY <3>3, FS_Singleton
      <3>. QED
        BY <1>2, <2>2, <3>3, <3>4 DEF InodeFile, FreeFile
    <2>3. CASE ~(f <= NStdio)
      <3>1. Refs(d, f) = {}
        <4>. SUFFICES ASSUME NEW x \in Procs \X Fds PROVE d[x[1]][x[2]] # f
          BY DEF Refs
        <4>. QED
          BY <1>2, <2>1, <2>3
      <3>2. Cardinality(Refs(d, f)) = 0
        BY <3>1, FS_EmptySet
      <3>. QED
        BY <1>2, <2>3, <3>1, <3>2 DEF FreeFile
    <2>. QED
      BY <2>2, <2>3
  <1>8. Agree(d, t)
    BY <1>4, <1>6, <1>7 DEF Agree, Exact, Apart
  <1>9. WithinBound(t)
    BY <1>2, SizeAssumption DEF WithinBound, FreePipe
  <1>10. DeadHoldNothing /\ alive \subseteq Procs
    BY <1>1, <1>2, <1>3 DEF DeadHoldNothing, FilesInit
  <1>. QED
    BY <1>1, <1>8, <1>9, <1>10 DEF FilesInv

\* Every system call keeps the invariant and leaves lost pipes as they are.
LEMMA NextKeeps ==
    ASSUME FilesInv, [FilesNext]_filesVars
    PROVE  Keeps
  <1>1. CASE FilesNext
    <2>1. PICK p \in alive :
            \/ sys_open(p)
            \/ sys_pipe(p)
            \/ \E fd \in Fds : sys_close(p, fd) \/ sys_dup(p, fd)
            \/ \E oldfd, newfd \in Fds : sys_dup2(p, oldfd, newfd)
            \/ \E child \in Procs : fork(p, child)
            \/ terminate(p)
      BY <1>1, Zenon DEF FilesNext
    <2>. QED
      BY <2>1, OpenKeeps, PipeKeeps, CloseKeeps, DupKeeps, Dup2Keeps, ForkKeeps,
         TerminateKeeps, Zenon
  <1>2. CASE UNCHANGED filesVars
    <2>1. PICK d, t : d = fd_table /\ t = Tables
      OBVIOUS
    <2>2. fd_table' = d /\ Tables' = t /\ alive' = alive
      BY <1>2, <2>1 DEF filesVars, Tables
    <2>3. LeavesLost(t, t)
      BY DEF LeavesLost
    <2>4. DeadHoldNothing'
      BY <2>1, <2>2 DEF FilesInv, DeadHoldNothing
    <2>. QED
      BY <2>1, <2>2, <2>3, <2>4 DEF Keeps, FilesInv
  <1>. QED
    BY <1>1, <1>2

\* The reference counts of open files are exact, every end of a pipe is an end
\* of an allocated pipe that counts it often enough, and the dead hold nothing
\* (fs_close, fs_dup, sys_open, sys_pipe, sys_dup, sys_dup2, fork, exit).
THEOREM FilesInvHolds == FilesSpec => []FilesInv
  <1>1. FilesInit => FilesInv
    BY InitHolds
  <1>2. FilesInv /\ [FilesNext]_filesVars => FilesInv'
    BY NextKeeps DEF Keeps
  <1>. QED
    BY <1>1, <1>2, PTL DEF FilesSpec

\* The invariant contains what the descriptors, files and pipes promise.
LEMMA InvConsistent ==
    ASSUME FilesInv
    PROVE  FilesConsistent
  <1>1. PICK d, t : d = fd_table /\ t = Tables
    OBVIOUS
  <1>2. Agree(d, t) /\ WithinBound(t) /\ DeadHoldNothing /\ alive \subseteq Procs
    BY <1>1 DEF FilesInv
  <1>3. d \in AllFds /\ t \in AllTables /\ t.file = file_table /\ t.pipe = pipe_table
    BY <1>1, <1>2 DEF Agree, Tables
  <1>4. FilesTypeOK
    <2>1. file_table \in [FileIds -> File]
      BY <1>3 DEF AllTables, OpenFile, File
    <2>2. ASSUME NEW k \in PipeIds PROVE t.pipe[k] \in Pipe
      <3>1. t.pipe[k] \in OpenPipe
        BY <1>3 DEF AllTables
      <3>2. t.pipe[k].readers <= MaxEnds /\ t.pipe[k].writers <= MaxEnds
        BY <1>2 DEF WithinBound
      <3>. QED
        BY <3>1, <3>2, SizeAssumption DEF OpenPipe, Pipe
    <2>3. pipe_table \in [PipeIds -> Pipe]
      BY <1>3, <2>2 DEF AllTables
    <2>4. fd_table \in [Procs -> [Fds -> FileIds \cup {Null}]]
      BY <1>1, <1>3 DEF AllFds
    <2>. QED
      BY <1>2, <2>1, <2>3, <2>4 DEF FilesTypeOK
  <1>5. \A f \in FileIds : RefsTo(f) = Refs(d, f)
    BY <1>1 DEF RefsTo, Refs
  <1>6. RefsExact
    BY <1>2, <1>3, <1>5 DEF RefsExact, Agree, Exact
  <1>7. PipeEndsCovered
    <2>. SUFFICES ASSUME NEW id \in PipeIds, NEW end \in {"read", "write"},
                         NEW f \in EndFiles(id, end)
                  PROVE  /\ EndFiles(id, end) = {f}
                         /\ pipe_table[id].used
                         /\ Cardinality(RefsTo(f)) <= Counted(pipe_table[id], end)
      BY DEF PipeEndsCovered
    <2>1. /\ f \in FileIds /\ t.file[f].type = "PIPE"
          /\ t.file[f].pipe_id = id /\ t.file[f].pipe_end = end
      BY <1>3 DEF EndFiles
    <2>2. Covered(t, f) /\ t.file[f].ref = Cardinality(RefsTo(f))
      BY <1>2, <1>5, <2>1 DEF Agree, Exact
    <2>3. EndFiles(id, end) = {f}
      BY <1>2, <1>3, <2>1 DEF EndFiles, Agree, Apart
    <2>. QED
      BY <1>3, <2>1, <2>2, <2>3 DEF Covered
  <1>. QED
    BY <1>2, <1>4, <1>6, <1>7 DEF FilesConsistent

\* FilesConsistent holds for any number of processes, descriptors, files and
\* pipes: no system call frees a file or a pipe that is in use, or keeps a file
\* that is not.
THEOREM FilesAlwaysConsistent == FilesSpec => []FilesConsistent
  BY FilesInvHolds, InvConsistent, PTL

\* LostPipeStaysLost: no system call touches a pipe that is allocated and has no
\* end left, so fs_dup counting more than fs_close costs a slot for good.
THEOREM PipesStayLost == FilesSpec => LostPipeStaysLost
  <1>. DEFINE Stay ==
         \A id \in PipeIds :
           (/\ pipe_table[id].used
            /\ EndFiles(id, "read") \cup EndFiles(id, "write") = {})
           => /\ pipe_table'[id] = pipe_table[id]
              /\ (EndFiles(id, "read") \cup EndFiles(id, "write"))' = {}
  <1>1. ASSUME FilesInv, [FilesNext]_filesVars PROVE Stay
    <2>1. Keeps
      BY <1>1, NextKeeps
    <2>2. PICK t, u : t = Tables /\ u = Tables'
      OBVIOUS
    <2>3. /\ t.file = file_table /\ t.pipe = pipe_table
          /\ u.file = file_table' /\ u.pipe = pipe_table'
      BY <2>2 DEF Tables
    <2>4. LeavesLost(t, u) /\ \A f \in FileIds : t.file[f].type = "PIPE" => Covered(t, f)
      BY <1>1, <2>1, <2>2 DEF Keeps, FilesInv, Agree
    <2>. SUFFICES ASSUME NEW id \in PipeIds, pipe_table[id].used,
                         EndFiles(id, "read") \cup EndFiles(id, "write") = {}
                  PROVE  /\ pipe_table'[id] = pipe_table[id]
                         /\ (EndFiles(id, "read") \cup EndFiles(id, "write"))' = {}
      OBVIOUS
    <2>5. LostPipe(t, id)
      BY <2>3, <2>4 DEF LostPipe, EndFiles, Covered
    <2>6. u.pipe[id] = t.pipe[id] /\ LostPipe(u, id)
      BY <2>4, <2>5 DEF LeavesLost
    <2>. QED
      BY <2>3, <2>6 DEF LostPipe, EndFiles
  <1>2. FilesSpec => [][Stay]_filesVars
    BY <1>1, FilesInvHolds, PTL DEF FilesSpec
  <1>. QED
    BY <1>2 DEF LostPipeStaysLost

-----------------------------------------------------------------------------
(* The ring.                                                               *)

-----------------------------------------------------------------------------
(* Arithmetic of the ring.                                                 *)

\* Within one turn around the ring the remainder is a subtraction.
LEMMA SlotForward ==
    ASSUME NEW p \in Slots, NEW k \in 0..PipeBufSize
    PROVE  /\ Slot(p, k) \in Slots
           /\ Slot(p, k) = IF p + k < PipeBufSize THEN p + k ELSE p + k - PipeBufSize
  <1>. DEFINE x == p + k
  <1>1. PipeBufSize \in Nat /\ PipeBufSize > 0 /\ x \in Nat /\ x < 2 * PipeBufSize
    BY PipeAssumption DEF Slots
  <1>2. x < PipeBufSize => x % PipeBufSize = x
    BY <1>1
  <1>3. x >= PipeBufSize => x % PipeBufSize = x - PipeBufSize
    BY <1>1
  <1>. QED
    BY <1>1, <1>2, <1>3 DEF Slot, Slots

\* Going back round the ring.
LEMMA SlotBackward ==
    ASSUME NEW p \in Slots, NEW q \in Slots
    PROVE  /\ Slot(p, -q) \in Slots
           /\ Slot(p, -q) = IF p >= q THEN p - q ELSE p - q + PipeBufSize
  <1>. DEFINE x == p - q
  <1>1. /\ PipeBufSize \in Nat /\ PipeBufSize > 0 /\ x \in Int
        /\ x < PipeBufSize /\ x > -PipeBufSize /\ p + (-q) = x
    BY PipeAssumption DEF Slots
  <1>2. x >= 0 => x % PipeBufSize = x
    BY <1>1
  <1>3. x < 0 => x % PipeBufSize = x + PipeBufSize
    BY <1>1
  <1>. QED
    BY <1>1, <1>2, <1>3 DEF Slot, Slots

-----------------------------------------------------------------------------
(* The inductive invariant.                                                *)

\* While a write runs, the loop counter and the bytes left agree, until the
\* break drops what did not fit.
WriteLeft ==
    op = "write" => /\ left <= Len(todo)
                    /\ ~short => left = Len(todo)
                    /\ short => left = 0

\* The end a call works on stays open while it runs, and only reads have bytes
\* to show.
CallShape ==
    /\ op = "read" => readers
    /\ op = "write" => writers
    /\ op # "read" => got = <<>>

Inv == TypeOK /\ PositionsAgree /\ ShortOnlyAtLimit /\ WriteLeft /\ CallShape

\* The invariant holds of an empty pipe.
LEMMA InvInit == Init => Inv
  <1>. SUFFICES ASSUME Init PROVE Inv
    OBVIOUS
  <1>1. 0 \in Slots /\ Slot(0, 0) = 0
    BY PipeAssumption, SlotForward DEF Slots
  <1>. QED
    BY <1>1, PipeAssumption
    DEF Init, Inv, TypeOK, PositionsAgree, ShortOnlyAtLimit, WriteLeft, CallShape

\* How much a turn of a loop moves.
LEMMA CanRead ==
    ASSUME TypeOK, left > 0
    PROVE  LET chunk == Least(left, CopyChunk)
               can == can_read(chunk)
           IN  /\ chunk \in 1..left /\ can \in 0..chunk /\ can <= count
               /\ can < chunk => can = count
  BY PipeAssumption DEF TypeOK, Least, can_read

\* A chunk is cut to the free space, and to nothing when no reader is left.
LEMMA CanWrite ==
    ASSUME TypeOK, left > 0
    PROVE  LET chunk == Least(left, CopyChunk)
               can == can_write(chunk)
           IN  /\ chunk \in 1..left /\ can \in 0..chunk /\ can + count <= PipeBufSize
               /\ can < chunk => can + count = PipeBufSize \/ ~readers
               /\ can > 0 => readers
  BY PipeAssumption DEF TypeOK, Least, can_write

\* Two moves forward in the ring are one.
LEMMA SlotOfSlot ==
    ASSUME NEW p \in Slots, NEW k \in Nat, NEW m \in Nat, k + m <= PipeBufSize
    PROVE  Slot(Slot(p, k), m) = Slot(p, k + m)
  <1>1. PipeBufSize \in Nat /\ k \in 0..PipeBufSize /\ m \in 0..PipeBufSize
        /\ k + m \in 0..PipeBufSize
    BY PipeAssumption
  <1>2. /\ Slot(p, k) \in Slots
        /\ Slot(p, k) = IF p + k < PipeBufSize THEN p + k ELSE p + k - PipeBufSize
    BY <1>1, SlotForward
  <1>. DEFINE q == Slot(p, k)
  <1>. HIDE DEF q
  <1>3. Slot(q, m) = IF q + m < PipeBufSize THEN q + m ELSE q + m - PipeBufSize
    BY <1>1, <1>2, SlotForward DEF q
  <1>4. Slot(p, k + m) = IF p + (k + m) < PipeBufSize THEN p + (k + m)
                         ELSE p + (k + m) - PipeBufSize
    BY <1>1, SlotForward
  <1>. QED
    BY <1>1, <1>2, <1>3, <1>4 DEF Slots, q

\* A turn of the read loop, as a step of the queue.
LEMMA ReadTurn ==
    ASSUME Inv, pipe_read
    PROVE  /\ Inv'
           /\ \E k \in 0..count :
                /\ Contents' = SubSeq(Contents, k + 1, count)
                /\ got' = got \o SubSeq(Contents, 1, k)
  <1>. DEFINE chunk == Least(left, CopyChunk)
              can == can_read(chunk)
              taken == [i \in 1..can |-> buf[Slot(rpos, i - 1)]]
  <1>1. /\ chunk \in 1..left /\ can \in 0..chunk /\ can <= count
        /\ can < chunk => can = count
    BY CanRead DEF Inv, pipe_read
  <1>2. /\ count \in 0..PipeBufSize /\ PipeBufSize \in Nat /\ rpos \in Slots
        /\ left \in 0..MaxLen /\ MaxLen \in Nat
        /\ buf \in [Slots -> Byte] /\ got \in Seq(Byte)
    BY PipeAssumption DEF Inv, TypeOK
  <1>3. /\ got' = got \o taken /\ rpos' = Slot(rpos, can) /\ count' = count - can
        /\ short' = (can < chunk) /\ left' = IF can < chunk THEN 0 ELSE left - can
        /\ UNCHANGED <<buf, wpos, readers, writers, op, todo>> /\ op = "read"
    BY DEF pipe_read
  <1>. HIDE DEF chunk, can
  <1>4. \A i \in 1..count : Slot(rpos, i - 1) \in Slots
    BY <1>2, SlotForward
  <1>5. rpos' \in Slots
    BY <1>1, <1>2, <1>3, SlotForward
  <1>6. taken \in Seq(Byte) /\ Len(taken) = can
    BY <1>1, <1>2, <1>4
  <1>7. got' \in Seq(Byte)
    BY <1>2, <1>3, <1>6, ConcatProperties
  <1>8. TypeOK'
    BY <1>1, <1>2, <1>3, <1>5, <1>7 DEF Inv, TypeOK
  <1>9. PositionsAgree'
    <2>1. Slot(Slot(rpos, can), count - can) = Slot(rpos, count)
      <3>1. can \in Nat /\ count - can \in Nat /\ can + (count - can) = count
        BY <1>1, <1>2
      <3>. QED
        BY <3>1, <1>2, SlotOfSlot
    <2>. QED
      BY <2>1, <1>3 DEF Inv, PositionsAgree
  <1>10. ShortOnlyAtLimit' /\ WriteLeft'
    <2>1. (can < chunk) => count' = 0
      BY <1>1, <1>2, <1>3
    <2>2. op' = "read" /\ (short' => count' = 0)
      BY <2>1, <1>3
    <2>. QED
      BY <2>2 DEF ShortOnlyAtLimit, WriteLeft
  <1>14. CallShape'
    BY <1>3 DEF Inv, CallShape
  <1>11. Contents' = SubSeq(Contents, can + 1, count)
    <2>1. \A i \in 1..(count - can) : Slot(rpos', i - 1) = Slot(rpos, can + i - 1)
      <3>. SUFFICES ASSUME NEW i \in 1..(count - can)
                    PROVE  Slot(rpos', i - 1) = Slot(rpos, can + i - 1)
        OBVIOUS
      <3>1. can \in Nat /\ i - 1 \in Nat /\ can + (i - 1) <= PipeBufSize
            /\ can + (i - 1) = can + i - 1
        BY <1>1, <1>2
      <3>. QED
        BY <3>1, <1>2, <1>3, SlotOfSlot
    <2>2. Contents' = [i \in 1..(count - can) |-> buf[Slot(rpos, can + i - 1)]]
      BY <2>1, <1>3 DEF Contents
    <2>3. SubSeq(Contents, can + 1, count)
            = [i \in 1..(count - can) |-> Contents[can + i]]
      BY <1>1, <1>2 DEF Contents
    <2>4. \A i \in 1..(count - can) : Contents[can + i] = buf[Slot(rpos, can + i - 1)]
      BY <1>1, <1>2 DEF Contents
    <2>. QED
      BY <2>2, <2>3, <2>4
  <1>12. taken = SubSeq(Contents, 1, can)
    BY <1>1, <1>2 DEF Contents
  <1>13. can \in 0..count
    BY <1>1, <1>2
  <1>. QED
    BY <1>3, <1>8, <1>9, <1>10, <1>11, <1>12, <1>13, <1>14 DEF Inv

\* The slots a write fills are behind the contents, in order.
LEMMA WrittenSlots ==
    ASSUME NEW p \in Slots, NEW c \in Nat, NEW k \in Nat, c + k <= PipeBufSize,
           NEW i \in 1..(c + k)
    PROVE  LET off == Slot(Slot(p, i - 1), -Slot(p, c))
           IN  IF i <= c THEN off >= k /\ off \in Slots ELSE off = i - 1 - c
  <1>1. /\ PipeBufSize \in Nat /\ i - 1 \in 0..PipeBufSize /\ c \in 0..PipeBufSize
    BY PipeAssumption
  <1>. DEFINE j == Slot(p, i - 1)
              w == Slot(p, c)
  <1>2. /\ j \in Slots
        /\ j = IF p + (i - 1) < PipeBufSize THEN p + (i - 1)
               ELSE p + (i - 1) - PipeBufSize
    BY <1>1, SlotForward
  <1>3. /\ w \in Slots
        /\ w = IF p + c < PipeBufSize THEN p + c ELSE p + c - PipeBufSize
    BY <1>1, SlotForward
  <1>. HIDE DEF j, w
  <1>4. /\ Slot(j, -w) \in Slots
        /\ Slot(j, -w) = IF j >= w THEN j - w ELSE j - w + PipeBufSize
    BY <1>2, <1>3, SlotBackward
  <1>5. CASE i <= c
    <2>1. Slot(j, -w) >= k
      BY <1>1, <1>2, <1>3, <1>4, <1>5 DEF Slots
    <2>. QED
      BY <1>4, <1>5, <2>1 DEF j, w
  <1>6. CASE i > c
    <2>1. Slot(j, -w) = i - 1 - c
      BY <1>1, <1>2, <1>3, <1>4, <1>6 DEF Slots
    <2>. QED
      BY <1>6, <2>1 DEF j, w
  <1>. QED
    BY <1>5, <1>6, <1>1

\* A concatenation, position by position.
LEMMA ConcatPointwise ==
    ASSUME NEW S, NEW s \in Seq(S), NEW t \in Seq(S)
    PROVE  s \o t = [i \in 1..(Len(s) + Len(t)) |->
                      IF i <= Len(s) THEN s[i] ELSE t[i - Len(s)]]
  <1>. DEFINE c == s \o t
              n == Len(s) + Len(t)
  <1>1. /\ c \in Seq(S) /\ Len(c) = n
        /\ \A i \in 1..n : c[i] = IF i <= Len(s) THEN s[i] ELSE t[i - Len(s)]
    BY ConcatProperties
  <1>. HIDE DEF c, n
  <1>2. c = [i \in 1..n |-> c[i]]
    BY <1>1
  <1>3. c = [i \in 1..n |-> IF i <= Len(s) THEN s[i] ELSE t[i - Len(s)]]
    BY <1>1, <1>2, Zenon
  <1>. QED
    BY <1>3 DEF c, n

\* A turn of the write loop, as a step of the queue.
LEMMA WriteTurn ==
    ASSUME Inv, pipe_write
    PROVE  /\ Inv'
           /\ \E k \in 0..Len(todo) :
                /\ k > 0 => readers
                /\ count + k <= PipeBufSize
                /\ Contents' = Contents \o SubSeq(todo, 1, k)
                /\ todo' = SubSeq(todo, k + 1, Len(todo))
  <1>. DEFINE chunk == Least(left, CopyChunk)
              can == can_write(chunk)
  <1>1. /\ chunk \in 1..left /\ can \in 0..chunk /\ can + count <= PipeBufSize
        /\ can < chunk => can + count = PipeBufSize \/ ~readers
        /\ can > 0 => readers
    BY CanWrite DEF Inv, pipe_write
  <1>2. /\ count \in 0..PipeBufSize /\ PipeBufSize \in Nat /\ rpos \in Slots
        /\ left \in 0..MaxLen /\ MaxLen \in Nat /\ wpos = Slot(rpos, count)
        /\ buf \in [Slots -> Byte] /\ todo \in Seq(Byte) /\ wpos \in Slots
        /\ left <= Len(todo) /\ Len(todo) \in Nat
    BY PipeAssumption DEF Inv, TypeOK, PositionsAgree, WriteLeft, pipe_write
  <1>3. /\ buf' = [j \in Slots |->
                     IF Slot(j, -wpos) < can THEN todo[Slot(j, -wpos) + 1] ELSE buf[j]]
        /\ wpos' = Slot(wpos, can) /\ count' = count + can
        /\ todo' = SubSeq(todo, can + 1, Len(todo))
        /\ short' = (can < chunk) /\ left' = IF can < chunk THEN 0 ELSE left - can
        /\ UNCHANGED <<rpos, readers, writers, op, got>> /\ op = "write"
    BY DEF pipe_write
  <1>. HIDE DEF chunk, can
  <1>4. can \in 0..Len(todo) /\ can \in Nat
    BY <1>1, <1>2
  <1>5. todo' \in Seq(Byte) /\ Len(todo') = Len(todo) - can
    BY <1>2, <1>3, <1>4
  <1>6. buf' \in [Slots -> Byte]
    <2>1. \A j \in Slots : Slot(j, -wpos) \in Slots
      BY <1>2, SlotBackward
    <2>2. \A j \in Slots : Slot(j, -wpos) < can => todo[Slot(j, -wpos) + 1] \in Byte
      BY <2>1, <1>2, <1>4, SMTT(30) DEF Slots
    <2>. QED
      BY <2>2, <1>2, <1>3
  <1>7. wpos' = Slot(rpos, count + can) /\ wpos' \in Slots
    BY <1>1, <1>2, <1>3, <1>4, SlotOfSlot, SlotForward
  <1>8. TypeOK'
    BY <1>1, <1>2, <1>3, <1>5, <1>6, <1>7 DEF Inv, TypeOK
  <1>9. PositionsAgree' /\ CallShape'
    BY <1>3, <1>7 DEF Inv, PositionsAgree, CallShape
  <1>10. WriteLeft'
    <2>1. left' <= Len(todo') /\ (~(can < chunk) => left' = Len(todo'))
      <3>1. CASE can < chunk
        BY <3>1, <1>2, <1>3, <1>4, <1>5
      <3>2. CASE ~(can < chunk)
        <4>1. left = Len(todo)
          BY <1>1, <1>2 DEF Inv, WriteLeft, ShortOnlyAtLimit, pipe_write
        <4>. QED
          BY <3>2, <4>1, <1>2, <1>3, <1>4, <1>5
      <3>. QED
        BY <3>1, <3>2
    <2>. QED
      BY <2>1, <1>2, <1>3 DEF WriteLeft
  <1>11. ShortOnlyAtLimit'
    <2>1. (can < chunk) => count' = PipeBufSize \/ ~readers'
      BY <1>1, <1>2, <1>3
    <2>2. op' = "write" /\ (short' => count' = PipeBufSize \/ ~readers')
      BY <2>1, <1>3
    <2>3. left' = 0 /\ ~short' => todo' = <<>>
      BY <1>5, <1>10, <2>2 DEF WriteLeft
    <2>. QED
      BY <2>2, <2>3 DEF ShortOnlyAtLimit
  <1>12. Contents' = Contents \o SubSeq(todo, 1, can)
    <2>1. \A i \in 1..(count + can) :
            buf'[Slot(rpos, i - 1)] = IF i <= count THEN buf[Slot(rpos, i - 1)]
                                      ELSE todo[i - count]
      <3>. SUFFICES ASSUME NEW i \in 1..(count + can)
                    PROVE  buf'[Slot(rpos, i - 1)] =
                             IF i <= count THEN buf[Slot(rpos, i - 1)]
                             ELSE todo[i - count]
        OBVIOUS
      <3>. DEFINE j == Slot(rpos, i - 1)
                  off == Slot(j, -wpos)
      <3>1. j \in Slots
        BY <1>1, <1>2, <1>4, SlotForward
      <3>2. IF i <= count THEN off >= can /\ off \in Slots ELSE off = i - 1 - count
        <4>1. count \in Nat /\ count + can <= PipeBufSize
          BY <1>1, <1>2, <1>4
        <4>. QED
          BY <4>1, <1>2, <1>4, WrittenSlots
      <3>3. buf'[j] = IF off < can THEN todo[off + 1] ELSE buf[j]
        BY <3>1, <1>3
      <3>. HIDE DEF j, off
      <3>4. buf'[j] = IF i <= count THEN buf[j] ELSE todo[i - count]
        <4>1. CASE i <= count
          BY <4>1, <3>2, <3>3, <1>4 DEF Slots
        <4>2. CASE i > count
          <5>1. off < can /\ off + 1 = i - count
            BY <4>2, <3>2, <1>2, <1>4
          <5>. QED
            BY <4>2, <5>1, <3>3, <1>2
        <4>. QED
          BY <4>1, <4>2, <1>2
      <3>. QED
        BY <3>4 DEF j
    <2>2. Contents' = [i \in 1..(count + can) |->
                         IF i <= count THEN buf[Slot(rpos, i - 1)] ELSE todo[i - count]]
      BY <2>1, <1>3 DEF Contents
    <2>3. \A i \in 1..count : Slot(rpos, i - 1) \in Slots
      BY <1>2, SlotForward
    <2>4. Contents \in Seq(Byte) /\ Len(Contents) = count
      BY <2>3, <1>2 DEF Contents
    <2>5. SubSeq(todo, 1, can) \in Seq(Byte) /\ Len(SubSeq(todo, 1, can)) = can
      BY <1>2, <1>4
    <2>6. \A i \in 1..count : Contents[i] = buf[Slot(rpos, i - 1)]
      BY <1>2 DEF Contents
    <2>7. \A i \in (count + 1)..(count + can) :
            SubSeq(todo, 1, can)[i - count] = todo[i - count]
      BY <1>2, <1>4
    <2>8. Contents \o SubSeq(todo, 1, can)
            = [i \in 1..(count + can) |->
                 IF i <= count THEN buf[Slot(rpos, i - 1)] ELSE todo[i - count]]
      <3>. DEFINE b == SubSeq(todo, 1, can)
      <3>1. Contents \o b = [i \in 1..(count + can) |->
                              IF i <= count THEN Contents[i] ELSE b[i - count]]
        <4>1. Contents \o b = [i \in 1..(Len(Contents) + Len(b)) |->
                                IF i <= Len(Contents) THEN Contents[i]
                                ELSE b[i - Len(Contents)]]
          <5>. HIDE DEF b
          <5>. QED
            BY <2>4, <2>5, ConcatPointwise DEF b
        <4>. HIDE DEF b
        <4>. QED
          BY <4>1, <2>4, <2>5 DEF b
      <3>2. \A i \in 1..(count + can) :
              (IF i <= count THEN Contents[i] ELSE b[i - count])
                = IF i <= count THEN buf[Slot(rpos, i - 1)] ELSE todo[i - count]
        <4>. SUFFICES ASSUME NEW i \in 1..(count + can)
                      PROVE  (IF i <= count THEN Contents[i] ELSE b[i - count])
                               = IF i <= count THEN buf[Slot(rpos, i - 1)]
                                 ELSE todo[i - count]
          OBVIOUS
        <4>. HIDE DEF b
        <4>1. CASE i <= count
          <5>1. i \in 1..count
            BY <4>1, <1>2, <1>4
          <5>. QED
            BY <4>1, <5>1, <2>6
        <4>2. CASE ~(i <= count)
          <5>1. i \in (count + 1)..(count + can)
            BY <4>2, <1>2, <1>4
          <5>2. b[i - count] = todo[i - count]
            BY <5>1, <2>7 DEF b
          <5>. QED
            BY <4>2, <5>2
        <4>. QED
          BY <4>1, <4>2
      <3>. HIDE DEF b
      <3>3. Contents \o b = [i \in 1..(count + can) |->
                 IF i <= count THEN buf[Slot(rpos, i - 1)] ELSE todo[i - count]]
        BY <3>1, <3>2
      <3>. QED
        BY <3>3 DEF b
    <2>. QED
      BY <2>2, <2>8
  <1>13. count + can <= PipeBufSize
    BY <1>1, <1>2, <1>4
  <1>. QED
    BY <1>1, <1>3, <1>4, <1>8, <1>9, <1>10, <1>11, <1>12, <1>13 DEF Inv

-----------------------------------------------------------------------------
(* Every step keeps the invariant and is a step of the queue.              *)

\* The ring holds count bytes.
LEMMA ContentsType ==
    ASSUME Inv
    PROVE  Contents \in Seq(Byte) /\ Len(Contents) = count /\ count \in Nat
  <1>1. /\ count \in 0..PipeBufSize /\ PipeBufSize \in Nat /\ rpos \in Slots
        /\ buf \in [Slots -> Byte]
    BY PipeAssumption DEF Inv, TypeOK
  <1>2. \A i \in 1..count : Slot(rpos, i - 1) \in Slots
    BY <1>1, SlotForward
  <1>. QED
    BY <1>1, <1>2 DEF Contents

\* An empty ring has no contents, wherever its positions are.
LEMMA EmptyContents ==
    ASSUME count' = 0
    PROVE  Contents' = <<>>
  BY DEF Contents

\* A message is a bounded sequence of bytes.
LEMMA MessageType ==
    ASSUME NEW s \in Messages
    PROVE  s \in Seq(Byte) /\ Len(s) \in 0..MaxLen
  <1>1. PICK n \in 0..MaxLen : s \in [1..n -> Byte]
    BY DEF Messages
  <1>2. n \in Nat
    BY PipeAssumption
  <1>. QED
    BY <1>1, <1>2

\* Creating the pipe empties the queue.
LEMMA CreateStep ==
    ASSUME Inv, fs_pipe_create
    PROVE  Inv' /\ Queue!Create
  <1>1. 0 \in Slots /\ Slot(0, 0) = 0
    BY PipeAssumption, SlotForward DEF Slots
  <1>2. TypeOK'
    BY <1>1, PipeAssumption DEF Inv, TypeOK, fs_pipe_create, Idle
  <1>3. PositionsAgree' /\ ShortOnlyAtLimit' /\ WriteLeft' /\ CallShape'
    BY <1>1
    DEF Inv, fs_pipe_create, Idle, PositionsAgree, ShortOnlyAtLimit, WriteLeft, CallShape
  <1>4. Queue!Create
    BY EmptyContents DEF fs_pipe_create, Idle, Queue!Create
  <1>. QED
    BY <1>2, <1>3, <1>4 DEF Inv

\* Closing an end closes that end of the queue.
LEMMA EndCloses ==
    ASSUME Inv, close_end
    PROVE  Inv' /\ Queue!Close
  <1>1. 0 \in Slots /\ Slot(0, 0) = 0
    BY PipeAssumption, SlotForward DEF Slots
  <1>2. /\ op = "idle" /\ UNCHANGED <<op, left, todo, got, short, buf>>
    BY DEF close_end, Idle
  <1>5. /\ readers' \in BOOLEAN /\ writers' \in BOOLEAN
        /\ readers' => readers
        /\ writers' => writers
    <2>1. readers \in BOOLEAN /\ writers \in BOOLEAN
      BY DEF Inv, TypeOK
    <2>2. CASE readers /\ readers' = FALSE /\ UNCHANGED writers
      BY <2>1, <2>2
    <2>3. CASE writers /\ writers' = FALSE /\ UNCHANGED readers
      BY <2>1, <2>3
    <2>. QED
      BY <2>2, <2>3 DEF close_end
  <1>3. CASE ~readers' /\ ~writers'
    <2>1. rpos' = 0 /\ wpos' = 0 /\ count' = 0
      BY <1>3 DEF close_end
    <2>2. TypeOK'
      BY <1>1, <1>2, <1>5, <2>1, PipeAssumption DEF Inv, TypeOK
    <2>3. PositionsAgree' /\ ShortOnlyAtLimit' /\ WriteLeft' /\ CallShape'
      BY <1>1, <1>2, <2>1 DEF Inv, PositionsAgree, ShortOnlyAtLimit, WriteLeft, CallShape
    <2>4. Queue!Close
      BY <1>2, <1>3, <1>5, <2>1, EmptyContents DEF Queue!Close
    <2>. QED
      BY <2>2, <2>3, <2>4 DEF Inv
  <1>4. CASE readers' \/ writers'
    <2>1. UNCHANGED <<rpos, wpos, count>>
      BY <1>4 DEF close_end
    <2>2. TypeOK'
      BY <1>2, <1>5, <2>1 DEF Inv, TypeOK
    <2>3. PositionsAgree' /\ ShortOnlyAtLimit' /\ WriteLeft' /\ CallShape'
      BY <1>2, <2>1
      DEF Inv, PositionsAgree, ShortOnlyAtLimit, WriteLeft, CallShape
    <2>4. Queue!Close
      BY <1>2, <1>4, <1>5, <2>1 DEF Queue!Close, Contents
    <2>. QED
      BY <2>2, <2>3, <2>4 DEF Inv
  <1>. QED
    BY <1>3, <1>4

\* A read begins a call of the queue, which changes no content.
LEMMA ReadBegins ==
    ASSUME Inv, NEW n \in 0..MaxLen, sys_read(n)
    PROVE  Inv' /\ Queue!Call
  <1>1. TypeOK'
    BY EmptySeq DEF Inv, TypeOK, sys_read, ring
  <1>2. PositionsAgree' /\ ShortOnlyAtLimit' /\ WriteLeft' /\ CallShape'
    BY DEF Inv, sys_read, ring, PositionsAgree, ShortOnlyAtLimit, WriteLeft, CallShape
  <1>3. Queue!Call
    BY <1>1 DEF TypeOK, sys_read, ring, Queue!Call, Contents
  <1>. QED
    BY <1>1, <1>2, <1>3 DEF Inv

\* A write begins a call of the queue, which changes no content.
LEMMA WriteBegins ==
    ASSUME Inv, NEW s \in Messages, sys_write(s)
    PROVE  Inv' /\ Queue!Call
  <1>1. s \in Seq(Byte) /\ Len(s) \in 0..MaxLen
    BY MessageType
  <1>2. op = "idle" /\ writers /\ op' = "write" /\ left' = Len(s) /\ todo' = s
        /\ short' = FALSE
        /\ UNCHANGED <<buf, rpos, wpos, count, readers, writers, got>>
    BY DEF sys_write, ring
  <1>3. TypeOK'
    BY <1>1, <1>2 DEF Inv, TypeOK
  <1>4. PositionsAgree' /\ WriteLeft' /\ CallShape'
    BY <1>1, <1>2, PipeAssumption DEF Inv, PositionsAgree, WriteLeft, CallShape
  <1>5. left' = 0 => todo' = <<>>
    BY <1>1, <1>2, EmptySeq
  <1>6. ShortOnlyAtLimit'
    BY <1>2, <1>5 DEF ShortOnlyAtLimit
  <1>7. got' = <<>>
    BY <1>2 DEF Inv, CallShape
  <1>8. Queue!Call
    BY <1>1, <1>2, <1>7 DEF Queue!Call, Contents
  <1>. QED
    BY <1>3, <1>4, <1>6, <1>8 DEF Inv

\* A return ends a call of the queue, which changes no content.
LEMMA CallEnds ==
    ASSUME Inv, call_returns
    PROVE  Inv' /\ Queue!Call
  <1>1. TypeOK'
    BY EmptySeq DEF Inv, TypeOK, call_returns, ring
  <1>2. PositionsAgree' /\ ShortOnlyAtLimit' /\ WriteLeft' /\ CallShape'
    BY DEF Inv, call_returns, ring, PositionsAgree, ShortOnlyAtLimit, WriteLeft,
           CallShape
  <1>3. Queue!Call
    BY <1>1 DEF TypeOK, call_returns, ring, Queue!Call, Contents
  <1>. QED
    BY <1>1, <1>2, <1>3 DEF Inv

\* A stuttering step stutters in the queue.
LEMMA StutterStep ==
    ASSUME Inv, UNCHANGED vars
    PROVE  Inv' /\ UNCHANGED <<Contents, readers, writers, todo, got>>
  BY DEF Inv, vars, TypeOK, PositionsAgree, ShortOnlyAtLimit, WriteLeft, CallShape,
         Slot, Contents

\* A turn of the read loop takes from the queue, or finds it empty.
LEMMA ReadIsTake ==
    ASSUME Inv, pipe_read
    PROVE  /\ Inv'
           /\ \/ \E k \in 1..Len(Contents) : Queue!Take(k)
              \/ UNCHANGED <<Contents, readers, writers, todo, got>>
  <1>1. Inv'
    BY ReadTurn
  <1>2. PICK k \in 0..count : /\ Contents' = SubSeq(Contents, k + 1, count)
                              /\ got' = got \o SubSeq(Contents, 1, k)
    BY ReadTurn
  <1>3. Contents \in Seq(Byte) /\ Len(Contents) = count /\ count \in Nat
    BY ContentsType
  <1>4. readers /\ UNCHANGED <<readers, writers, todo>> /\ got \in Seq(Byte)
    BY DEF Inv, CallShape, TypeOK, pipe_read
  <1>5. CASE k = 0
    <2>1. SubSeq(Contents, 1, count) = Contents /\ SubSeq(Contents, 1, 0) = <<>>
      BY <1>3
    <2>2. got \o <<>> = got
      BY <1>4
    <2>. QED
      BY <1>1, <1>2, <1>4, <1>5, <2>1, <2>2
  <1>6. CASE k # 0
    <2>1. k \in 1..Len(Contents)
      BY <1>3, <1>6
    <2>2. Queue!Take(k)
      BY <1>2, <1>3, <1>4 DEF Queue!Take
    <2>. QED
      BY <1>1, <2>1, <2>2
  <1>. QED
    BY <1>5, <1>6

\* A turn of the write loop puts into the queue, or finds no room or no reader.
LEMMA WriteIsPut ==
    ASSUME Inv, pipe_write
    PROVE  /\ Inv'
           /\ \/ \E k \in 1..Len(todo) : Queue!Put(k)
              \/ UNCHANGED <<Contents, readers, writers, todo, got>>
  <1>1. Inv'
    BY WriteTurn
  <1>2. PICK k \in 0..Len(todo) : /\ k > 0 => readers
                                  /\ count + k <= PipeBufSize
                                  /\ Contents' = Contents \o SubSeq(todo, 1, k)
                                  /\ todo' = SubSeq(todo, k + 1, Len(todo))
    BY WriteTurn
  <1>3. Contents \in Seq(Byte) /\ Len(Contents) = count /\ count \in Nat
    BY ContentsType
  <1>4. /\ writers /\ UNCHANGED <<readers, writers, got>>
        /\ todo \in Seq(Byte) /\ Len(todo) \in Nat
    BY DEF Inv, CallShape, TypeOK, pipe_write
  <1>5. CASE k = 0
    <2>1. SubSeq(todo, 1, Len(todo)) = todo /\ SubSeq(todo, 1, 0) = <<>>
      BY <1>4
    <2>2. Contents \o <<>> = Contents
      BY <1>3
    <2>3. /\ Contents' = Contents \o SubSeq(todo, 1, 0)
          /\ todo' = SubSeq(todo, 0 + 1, Len(todo))
      BY <1>2, <1>5, Zenon
    <2>4. 0 + 1 = 1
      OBVIOUS
    <2>5. Contents' = Contents /\ todo' = todo
      BY <2>1, <2>2, <2>3, <2>4, Zenon
    <2>. QED
      BY <1>1, <1>4, <2>5
  <1>6. CASE k # 0
    <2>1. k \in 1..Len(todo) /\ k > 0
      BY <1>4, <1>6
    <2>2. Queue!Put(k)
      BY <1>2, <1>3, <1>4, <2>1 DEF Queue!Put
    <2>. QED
      BY <1>1, <2>1, <2>2
  <1>. QED
    BY <1>5, <1>6

\* Every step keeps the invariant and is a step of the queue, or stutters.
LEMMA RingStep ==
    ASSUME Inv, [Next]_vars
    PROVE  Inv' /\ [Queue!Next]_(Queue!vars)
  <1>1. CASE fs_pipe_create
    BY <1>1, CreateStep DEF Queue!Next
  <1>2. CASE close_end
    BY <1>2, EndCloses DEF Queue!Next
  <1>3. CASE \E n \in 0..MaxLen : sys_read(n)
    BY <1>3, ReadBegins DEF Queue!Next
  <1>4. CASE pipe_read
    BY <1>4, ReadIsTake DEF Queue!Next, Queue!vars
  <1>5. CASE \E s \in Messages : sys_write(s)
    BY <1>5, WriteBegins DEF Queue!Next
  <1>6. CASE pipe_write
    BY <1>6, WriteIsPut DEF Queue!Next, Queue!vars
  <1>7. CASE call_returns
    BY <1>7, CallEnds DEF Queue!Next
  <1>8. CASE UNCHANGED vars
    BY <1>8, StutterStep DEF Queue!vars
  <1>. QED
    BY <1>1, <1>2, <1>3, <1>4, <1>5, <1>6, <1>7, <1>8 DEF Next

-----------------------------------------------------------------------------
(* The theorems.                                                           *)

\* Inv is an inductive invariant of the pipe.
THEOREM InvHolds == Spec => []Inv
  <1>1. Init => Inv
    BY InvInit
  <1>2. Inv /\ [Next]_vars => Inv'
    BY RingStep
  <1>. QED
    BY <1>1, <1>2, PTL DEF Spec

\* rpos and wpos of pipe_read and pipe_write stay inside buf, and count within
\* PIPE_BUF_SIZE.
THEOREM TypeCorrect == Spec => []TypeOK
  <1>1. Inv => TypeOK
    BY DEF Inv
  <1>. QED
    BY <1>1, InvHolds, PTL

\* wpos is always where the contents end, although pipe_read and pipe_write move
\* the three counters separately and pipe_maybe_free resets them.
THEOREM PositionsAlwaysAgree == Spec => []PositionsAgree
  <1>1. Inv => PositionsAgree
    BY DEF Inv
  <1>. QED
    BY <1>1, InvHolds, PTL

\* sys_read and sys_write move less than asked only at an empty pipe, a full
\* pipe or one without readers.
THEOREM ShortAlwaysAtLimit == Spec => []ShortOnlyAtLimit
  <1>1. Inv => ShortOnlyAtLimit
    BY DEF Inv
  <1>. QED
    BY <1>1, InvHolds, PTL

\* The ring as its callers find it, for any size of ring, chunk and call.
THEOREM RingAlwaysConsistent == Spec => []RingConsistent
  BY TypeCorrect, PositionsAlwaysAgree, ShortAlwaysAtLimit, PTL DEF RingConsistent

\* The ring and the chunked loops around it implement a bounded queue of bytes,
\* for every size of the ring, of the chunk and of a call.
THEOREM RingImplementsQueue == Spec => ImplementsByteQueue
  <1>1. Init => Queue!Init
    BY DEF Init, Queue!Init, Contents
  <1>2. Inv /\ [Next]_vars => [Queue!Next]_(Queue!vars)
    BY RingStep
  <1>. QED
    BY <1>1, <1>2, InvHolds, PTL DEF Spec, ImplementsByteQueue, Queue!Spec
=============================================================================
