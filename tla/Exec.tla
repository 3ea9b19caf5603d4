-------------------------------- MODULE Exec --------------------------------
(***************************************************************************)
(* What a new program finds: sys_execve copies the arguments into the      *)
(* kernel, context_uload lays them out on the last page of the stack, and  *)
(* loader (kernel/proc/loader.c) brings the segments of the file into      *)
(* fresh pages.  Pages that cannot be had are the subject of AddrSpaces.   *)
(* Memory is counted in cells of a byte.                                   *)
(***************************************************************************)
EXTENDS Integers, Sequences

CONSTANTS
    Programs,   \* programs: sequences of segments [vaddr, memsz, filesz]
    ArgLists,   \* argument vectors: sequences of lengths of strings
    PathLen,    \* length of the path
    PGSIZE,     \* cells of a page
    Word,       \* cells of a pointer
    MaxArgs,    \* MAX_EXEC_ARGS
    MaxArgLen,  \* MAX_EXEC_ARG_LEN
    Pages,      \* pages for segments
    EndAddr     \* as.end: where the stack begins

\* The kernel's arguments: argc, a pointer for each, two null pointers, strings.
Room(argc, chars) == Word + (argc + 2) * Word + chars

\* In the code 16 arguments of 64 bytes take 1104 of the 4096 bytes of a page.
\* No segment is empty or below address 0, and none has more in the file than in memory.
ASSUME ExecAssumption ==
    /\ PGSIZE \in Nat \ {0} /\ Word \in Nat \ {0} /\ EndAddr \in Nat
    /\ PGSIZE % Word = 0 /\ EndAddr % PGSIZE = 0
    /\ Pages \in Nat /\ PathLen \in Nat /\ ArgLists \subseteq Seq(Nat)
    /\ MaxArgs \in Nat /\ MaxArgs > 1 /\ MaxArgLen \in Nat \ {0}
    /\ Room(MaxArgs - 1, (MaxArgs - 1) * MaxArgLen) <= PGSIZE
    /\ \A p \in Programs :
          /\ p \in Seq([vaddr : Nat, memsz : Nat \ {0}, filesz : Nat])
          /\ \A k \in 1..Len(p) :
                p[k].filesz <= p[k].memsz /\ p[k].vaddr + p[k].memsz <= Pages * PGSIZE

VARIABLES
    program, argv,   \* what the caller asked for
    load_pc,              \* "copy", "stack", "strings", "segment", "page", "done" or "panic"
    kargv,           \* the arguments in the kernel: which string, how many characters
    stk,             \* the last page of the stack
    sp,              \* where the arguments begin in it
    strpos,          \* where the next string goes
    v_strpos,        \* the same as the program will see it
    nstr,            \* strings done
    mem,             \* the cells of the segments' pages
    seg,             \* number of the segment being loaded
    addr, zero_bytes, filesz, offset,   \* the variables of the loop over its pages
    new_brk

args == <<program, argv, kargv>>
stack == <<stk, sp, strpos, v_strpos, nstr>>
image == <<mem, seg, addr, zero_bytes, filesz, offset, new_brk>>
execVars == <<args, load_pc, stack, image>>

Unmapped == -1
EndOfString == <<"char", 0, 0>>
Char(k, j) == <<"char", k, j>>
Pointer(v) == <<"word", v>>

Least(a, b) == IF a < b THEN a ELSE b
Larger(a, b) == IF a > b THEN a ELSE b
PageStart(a) == (a \div PGSIZE) * PGSIZE

\* Characters of the first n strings, each with its end.
CharsUpTo[n \in 0..Len(kargv)] ==
    IF n = 0 THEN 0 ELSE CharsUpTo[n - 1] + kargv[n].len + 1

\* The call of execve with a program and its arguments.
ExecStart(p, v) ==
    /\ program = p /\ argv = v
    /\ load_pc = "copy"
    /\ kargv = <<>>
    /\ stk = [c \in 0..(PGSIZE - 1) |-> EndOfString] /\ sp = 0 /\ strpos = 0 /\ v_strpos = 0 /\ nstr = 0
    /\ mem = [a \in 0..(Pages * PGSIZE - 1) |-> Unmapped]
    /\ seg = 0 /\ addr = 0 /\ zero_bytes = 0 /\ filesz = 0 /\ offset = 0 /\ new_brk = 0

ExecInit == \E p \in Programs, v \in ArgLists : ExecStart(p, v)

-----------------------------------------------------------------------------
(* The arguments.                                                          *)

\* copy_user_cstr: a string that is too long loses its end.
copied(k, len) == [id |-> k, len |-> Least(len, MaxArgLen - 1)]

\* sys_execve: the arguments that fit, or the path when there are none.
copy_args ==
    /\ load_pc = "copy"
    /\ kargv' = IF argv = <<>> THEN <<copied(0, PathLen)>>
                ELSE [k \in 1..Least(Len(argv), MaxArgs - 1) |-> copied(k, argv[k])]
    /\ load_pc' = "stack"
    /\ UNCHANGED <<program, argv, stack, image>>

\* Down to the cell of a pointer.
aligned(a) == (a \div Word) * Word

argc == Len(kargv)

\* context_uload: the layout, and argc.
build_stack ==
    /\ load_pc = "stack"
    /\ LET room == Room(argc, CharsUpTo[argc])
           s == aligned(PGSIZE - room)
       IN  IF room > PGSIZE
           THEN load_pc' = "panic" /\ UNCHANGED <<sp, strpos, v_strpos, stk>>
           ELSE /\ load_pc' = "strings"
                /\ sp' = s
                /\ strpos' = s + Word + (argc + 2) * Word
                /\ v_strpos' = EndAddr - (PGSIZE - s) + Word + (argc + 2) * Word
                /\ stk' = [stk EXCEPT ![s] = Pointer(argc)]
    /\ UNCHANGED <<args, nstr, image>>

\* Where the string after this one goes.
next_string(pos) == pos + kargv[nstr + 1].len + 1

\* One argument: its pointer, and strcpy.
put_string ==
    /\ load_pc = "strings" /\ nstr < argc
    /\ LET s == kargv[nstr + 1]
           ptr == sp + Word + nstr * Word
       IN  stk' = [c \in DOMAIN stk |->
                      CASE c \in strpos..(strpos + s.len - 1) -> Char(s.id, c - strpos)
                        [] c = strpos + s.len -> EndOfString
                        [] c = ptr -> Pointer(v_strpos)
                        [] OTHER -> stk[c]]
    /\ strpos' = next_string(strpos) /\ v_strpos' = next_string(v_strpos)
    /\ nstr' = nstr + 1
    /\ UNCHANGED <<args, load_pc, sp, image>>

\* The null pointers behind argv and envp; the kernel passes no environment.
strings_end ==
    /\ load_pc = "strings" /\ nstr = argc
    /\ stk' = [stk EXCEPT ![sp + Word + argc * Word] = Pointer(0),
                          ![sp + Word + (argc + 1) * Word] = Pointer(0)]
    /\ load_pc' = "segment"
    /\ UNCHANGED <<args, sp, strpos, v_strpos, nstr, image>>

-----------------------------------------------------------------------------
(* The segments.  The k-th cell of the file has the value k + 1.           *)

\* p_offset: the segments lie behind each other in the file.
FileOffset[k \in 0..Len(program)] ==
    IF k <= 1 THEN 0 ELSE FileOffset[k - 1] + program[k - 1].filesz

\* The next program header.
next_segment ==
    /\ load_pc = "segment" /\ seg < Len(program)
    /\ LET p == program[seg + 1]
       IN  /\ new_brk' = Larger(new_brk, p.vaddr + p.memsz)
           /\ addr' = PageStart(p.vaddr)
           /\ zero_bytes' = p.vaddr - PageStart(p.vaddr)
           /\ filesz' = p.filesz
           /\ offset' = FileOffset[seg + 1]
    /\ seg' = seg + 1
    /\ load_pc' = "page"
    /\ UNCHANGED <<args, stack, mem>>

\* Mutated form of first_bytes: what fits the page, whatever the file has.
first_bytes_all == PGSIZE - zero_bytes

\* avail_bytes: what the file has for the first page of a segment.
first_bytes == Least(filesz, PGSIZE - zero_bytes)

\* What is copied to this page.
bytes == IF zero_bytes # 0 THEN first_bytes ELSE Least(filesz, PGSIZE)

next_page == addr + PGSIZE

SegmentEnd == program[seg].vaddr + program[seg].memsz

\* One page: new_page clears it, map panics when there is one already.
load_page ==
    /\ load_pc = "page" /\ addr < SegmentEnd
    /\ IF mem[addr] # Unmapped
       THEN load_pc' = "panic" /\ UNCHANGED <<mem, filesz, offset, zero_bytes, addr>>
       ELSE /\ mem' = [a \in DOMAIN mem |->
                          CASE PageStart(a) # addr -> mem[a]
                            [] a - addr \in zero_bytes..(zero_bytes + bytes - 1) ->
                                   offset + (a - addr - zero_bytes) + 1
                            [] OTHER -> 0]
            /\ offset' = offset + bytes /\ filesz' = filesz - bytes
            /\ zero_bytes' = 0
            /\ addr' = next_page
            /\ UNCHANGED load_pc
    /\ UNCHANGED <<args, stack, seg, new_brk>>

segment_ends ==
    /\ load_pc = "page" /\ addr >= SegmentEnd
    /\ load_pc' = "segment"
    /\ UNCHANGED <<args, stack, image>>

\* ROUNDUP.
rounded(a) == PageStart(a + PGSIZE - 1)

\* The end of the loop, and the context with the stack pointer in a0.
enters ==
    /\ load_pc = "segment" /\ seg = Len(program)
    /\ new_brk' = rounded(new_brk)
    /\ load_pc' = "done"
    /\ UNCHANGED <<args, stack, mem, seg, addr, zero_bytes, filesz, offset>>

ExecNext ==
    \/ copy_args
    \/ build_stack
    \/ put_string
    \/ strings_end
    \/ next_segment
    \/ load_page
    \/ segment_ends
    \/ enters

ExecSpec == ExecInit /\ [][ExecNext]_execVars

-----------------------------------------------------------------------------
(* Properties.                                                             *)

SegmentCells(k) == program[k].vaddr..(program[k].vaddr + program[k].memsz - 1)
SegmentPages(k) == {PageStart(a) : a \in SegmentCells(k)}

\* The arguments and all that strcpy writes stay on the page that was made for
\* them, and the stack begins at a pointer's address.
StackFits == load_pc \notin {"copy", "stack"} => sp >= 0 /\ sp % Word = 0 /\ strpos <= PGSIZE

\* The cell of the stack page at an address of the program.
At(v) == stk[v - (EndAddr - PGSIZE)]
V_sp == EndAddr - (PGSIZE - sp)

\* call_main (crt0) finds argc, every argument whole up to the kernel's limits and
\* in order, or the path when there were none, and argv and envp ended by null.
ArgsArrive ==
    load_pc = "done" =>
        LET n == IF argv = <<>> THEN 1 ELSE Least(Len(argv), MaxArgs - 1)
            Arg(k) == IF argv = <<>> THEN 0 ELSE k
            Length(k) == Least(IF argv = <<>> THEN PathLen ELSE argv[k], MaxArgLen - 1)
        IN  /\ At(V_sp) = Pointer(n)
            /\ \A k \in 1..n :
                  LET v == At(V_sp + k * Word)[2]
                  IN  /\ \A j \in 0..(Length(k) - 1) : At(v + j) = Char(Arg(k), j)
                      /\ At(v + Length(k)) = EndOfString
            /\ At(V_sp + (n + 1) * Word) = Pointer(0)
            /\ At(V_sp + (n + 2) * Word) = Pointer(0)

\* The program's memory is its file: every cell of a segment that the file has is
\* at its address, all others of its pages are zero, nothing else is mapped, and
\* the heap begins behind all of them.
ImageExact ==
    load_pc = "done" =>
        /\ \A k \in 1..Len(program), a \in DOMAIN mem :
              a \in SegmentCells(k) =>
                  mem[a] = IF a - program[k].vaddr < program[k].filesz
                           THEN FileOffset[k] + (a - program[k].vaddr) + 1 ELSE 0
        /\ \A a \in DOMAIN mem :
              LET owners == {k \in 1..Len(program) : PageStart(a) \in SegmentPages(k)}
              IN  /\ owners = {} => mem[a] = Unmapped
                  /\ owners # {} => mem[a] # Unmapped /\ a < new_brk
                  /\ (\A k \in owners : a \notin SegmentCells(k)) /\ owners # {} => mem[a] = 0
        /\ new_brk % PGSIZE = 0

\* Loading panics for one reason only: two segments want the same page.
PanicOnlyIfShared ==
    load_pc = "panic" => \E j, k \in 1..Len(program) :
                        j # k /\ SegmentPages(j) \cap SegmentPages(k) # {}

\* A program starts with the memory its file describes and the arguments it was
\* given, and only an image that cannot be mapped halts the kernel (loader,
\* context_uload, call_main).
ProgramExact ==
    /\ ImageExact
    /\ PanicOnlyIfShared
    /\ StackFits
    /\ ArgsArrive
=============================================================================
