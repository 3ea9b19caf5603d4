----------------------------- MODULE MCPrograms -----------------------------
(* What stands between a path and a running program, for TLC: the file     *)
(* behind the path, the arguments and segments of its image, the pages     *)
(* they are in, and the file manager that shows the paths.  The four share *)
(* no variable, and TLC takes one of them at a time.                       *)
EXTENDS Lookup, Exec, AddrSpaces, FileList

CONSTANTS MaxName, MaxPath, a, Starts, Sizes, MaxSegs, MaxLen, MaxCount

VARIABLE part

\* Paths of up to MaxPath characters.
SomeNames == SeqOf(Letter, MaxName) \ {<<>>}
SomePaths == SeqOf(Letter \cup {Slash}, MaxPath)
DeviceName == <<a>>

\* Program headers are sorted by address and the segments do not overlap.
Segments == {s \in [vaddr : Starts, memsz : Sizes, filesz : Sizes \cup {0}] :
                /\ s.filesz <= s.memsz
                /\ s.vaddr + s.memsz <= Pages * PGSIZE}
SomePrograms ==
    {p \in UNION {[1..n -> Segments] : n \in 1..MaxSegs} :
        \A k \in 1..(Len(p) - 1) : p[k].vaddr + p[k].memsz <= p[k + 1].vaddr}
SmallProgram == <<[vaddr |-> 0, memsz |-> 1, filesz |-> 1]>>
SomeArgs == UNION {[1..n -> 0..MaxLen] : n \in 0..MaxCount}

\* Two levels of directories, in an order that is not theirs on the screen and
\* with more entries than the screen and the list have room for.
D(n) == [name |-> n, is_dir |-> TRUE]
F(n) == [name |-> n, is_dir |-> FALSE]
MCDirs == [p \in {<<>>, <<3>>, <<6>>, <<3, 1>>} |->
    CASE p = <<>> -> <<F(2), D(6), F(1), D(3), F(5), F(4)>>
      [] p = <<3>> -> <<F(5), F(2), D(1)>>
      [] p = <<6>> -> <<>>
      [] p = <<3, 1>> -> <<F(1)>>]

\* All programs with one list of arguments, and all lists with one program; parts
\* that rest have one state.
ProgramsInit ==
    /\ part \in {"lookup", "exec", "pages", "list"}
    /\ IF part = "lookup" THEN LookupInit
       ELSE LookupStart([i \in {DirInode, RootFile, DirFile} |-> <<a>>], <<>>)
    /\ IF part = "exec" THEN \/ \E p \in Programs : ExecStart(p, <<>>)
                             \/ \E v \in ArgLists : ExecStart(SmallProgram, v)
       ELSE ExecStart(SmallProgram, <<>>)
    /\ Init
    /\ IF part = "list" THEN ListInit ELSE ListStart({})

ProgramsNext ==
    \/ part = "lookup" /\ LookupNext /\ UNCHANGED <<part, execVars, vars, listVars>>
    \/ part = "exec" /\ ExecNext /\ UNCHANGED <<part, lookupVars, vars, listVars>>
    \/ part = "pages" /\ Next /\ UNCHANGED <<part, lookupVars, execVars, listVars>>
    \/ part = "list" /\ ListNext /\ UNCHANGED <<part, lookupVars, execVars, vars>>

ProgramsSpec ==
    ProgramsInit /\ [][ProgramsNext]_<<part, lookupVars, execVars, vars, listVars>>

\* States that differ only in which of the physical pages is where are one to TLC:
\* the view keeps, for every page, the set of places that lead to it.
PageView ==
    <<{Uses(x) : x \in Phys}, Cardinality(free), Cardinality(lost),
      {e \in Procs \X VA : pte[e[1]][e[2]] \in Shared},
      live, max_brk, mmap_base, op, panicked>>
ProgramsView ==
    <<part, lookupVars, execVars, listVars, IF part = "pages" THEN PageView ELSE <<>>>>
=============================================================================
