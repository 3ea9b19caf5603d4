------------------------------- MODULE Lookup -------------------------------
(***************************************************************************)
(* How a path finds its file: mkfs (usr/mkfs.c) writes the names of the    *)
(* host's files into directory entries, and fs_open with skipelem          *)
(* (kernel/fs) walks a path over them, comparing arrays of DIRSIZ          *)
(* characters.  The image has a root, one directory in it and files in     *)
(* both; the kernel never changes a directory.                             *)
(***************************************************************************)
EXTENDS Integers, Sequences, SequencesExt

CONSTANTS
    Letter,    \* characters of names
    Slash,     \* the character between names
    NUL,       \* the end of a string
    DIRSIZ,    \* characters of a directory entry's name
    Device,    \* the name "device"
    Names,     \* names of files on the host
    Paths      \* paths that are opened

ASSUME LookupAssumption ==
    /\ DIRSIZ \in Nat \ {0, 1}
    /\ Slash \notin Letter /\ NUL \notin Letter \cup {Slash}
    /\ Names \subseteq Seq(Letter) \ {<<>>} /\ Device \in Seq(Letter)
    /\ Paths \subseteq Seq(Letter \cup {Slash})

RootInode == 1
DirInode == 2    \* the directory in the root
RootFile == 3    \* a file in the root
DirFile == 4     \* a file in the directory
Failed == 0

IsDir(i) == i \in {RootInode, DirInode}

VARIABLES
    names,       \* the names on the host, of inodes 2, 3 and 4
    path,        \* what is opened
    rest,        \* the part of the path not looked at yet
    name,        \* the array name[DIRSIZ]
    curr_inum,
    off,         \* entries of the directory passed
    is_device,
    walk_pc,          \* "elem", "scan", "done"
    result       \* the inode and the kind of the file, or failure

lookupVars == <<names, path, rest, name, curr_inum, off, is_device, walk_pc, result>>

-----------------------------------------------------------------------------
(* The image.                                                              *)

\* dir_add: strncpy into an entry that was cleared.
dir_name(n) == [k \in 1..DIRSIZ |-> IF k <= Len(n) THEN n[k] ELSE NUL]

\* The entries of a directory, as populate_dir appends them.
Entries(i) ==
    IF i = RootInode THEN <<[inum |-> DirInode, name |-> dir_name(names[DirInode])],
                            [inum |-> RootFile, name |-> dir_name(names[RootFile])]>>
    ELSE <<[inum |-> DirFile, name |-> dir_name(names[DirFile])]>>

\* The call of fs_open with a path, over files of these names.
LookupStart(n, p) ==
    /\ names = n
    /\ path = p /\ rest = p
    /\ name = [k \in 1..DIRSIZ |-> NUL]
    /\ curr_inum = RootInode /\ off = 0
    /\ is_device = FALSE
    /\ walk_pc = "elem"
    /\ result = [inum |-> Failed, type |-> "none"]

LookupInit ==
    \E n \in [{DirInode, RootFile, DirFile} -> Names], p \in Paths :
        n[DirInode] # n[RootFile] /\ LookupStart(n, p)

-----------------------------------------------------------------------------
(* fs_open.                                                                *)

\* A path without the slashes in front.
skip_slashes(p) ==
    LET n == SelectInSeq(p, LAMBDA c : c # Slash)
    IN  IF n = 0 THEN <<>> ELSE SubSeq(p, n, Len(p))

\* Its first element, up to a slash or the end.
element(p) ==
    LET n == SelectInSeq(p, LAMBDA c : c = Slash)
    IN  IF n = 0 THEN p ELSE SubSeq(p, 1, n - 1)

\* What is behind it.
after_element(p) == skip_slashes(SubSeq(p, Len(element(p)) + 1, Len(p)))

\* Mutated form of put_name: without the end of the string.
put_name_open(e) == [k \in 1..DIRSIZ |-> IF k <= Len(e) THEN e[k] ELSE name[k]]

\* What skipelem leaves in the array: a long element is cut, and behind the end of
\* a short one the last element is still there.
put_name(e) ==
    LET len == IF Len(e) >= DIRSIZ THEN DIRSIZ - 1 ELSE Len(e)
    IN  [k \in 1..DIRSIZ |-> IF k <= len THEN e[k] ELSE IF k = len + 1 THEN NUL ELSE name[k]]

\* The string in an array, up to its end.
StringIn(a) ==
    LET n == SelectInSeq(a, LAMBDA c : c = NUL)
    IN  IF n = 0 THEN a ELSE SubSeq(a, 1, n - 1)

\* The comparison of fs_open: all DIRSIZ characters, or up to a common end.
match(a, b) ==
    \A k \in 1..DIRSIZ : (\A j \in 1..(k - 1) : b[j] # NUL) => a[k] = b[k]

\* The file: a device is a file found below /device.
file_type(i) == IF IsDir(i) THEN "dir" ELSE IF is_device THEN "device" ELSE "normal"

\* The path is at its end: filealloc, which module Files models.
opens ==
    /\ walk_pc = "elem" /\ skip_slashes(rest) = <<>>
    /\ result' = [inum |-> curr_inum, type |-> file_type(curr_inum)]
    /\ walk_pc' = "done"
    /\ UNCHANGED <<names, path, rest, name, curr_inum, off, is_device>>

fails ==
    /\ walk_pc' = "done"
    /\ UNCHANGED <<names, path, off, curr_inum, result>>

\* The name "device" in the root.
enters_device(a) == StringIn(a) = Device /\ curr_inum = RootInode

\* skipelem, and a file in the middle of the path fails.
next_element ==
    /\ walk_pc = "elem"
    /\ LET p == skip_slashes(rest)
       IN  p # <<>> /\ rest' = after_element(p) /\ name' = put_name(element(p))
    /\ IF IsDir(curr_inum)
       THEN /\ is_device' = (is_device \/ enters_device(name'))
            /\ off' = 0 /\ walk_pc' = "scan"
            /\ UNCHANGED <<names, path, curr_inum, result>>
       ELSE fails /\ UNCHANGED is_device

\* One directory entry.
scan_entry ==
    /\ walk_pc = "scan" /\ off < Len(Entries(curr_inum))
    /\ LET de == Entries(curr_inum)[off + 1]
       IN  IF match(de.name, name)
           THEN curr_inum' = de.inum /\ walk_pc' = "elem" /\ UNCHANGED off
           ELSE off' = off + 1 /\ UNCHANGED <<curr_inum, walk_pc>>
    /\ UNCHANGED <<names, path, rest, name, is_device, result>>

not_found ==
    /\ walk_pc = "scan" /\ off = Len(Entries(curr_inum))
    /\ fails
    /\ UNCHANGED <<rest, name, is_device>>

LookupNext == opens \/ next_element \/ scan_entry \/ not_found

LookupSpec == LookupInit /\ [][LookupNext]_lookupVars

-----------------------------------------------------------------------------
(* Properties.                                                             *)

\* What the path has behind its first k elements.
Behind[k \in 0..Len(path)] ==
    IF k = 0 THEN skip_slashes(path) ELSE after_element(Behind[k - 1])

\* Its elements.
Elements == [k \in {j \in 1..Len(path) : Behind[j - 1] # <<>>} |-> element(Behind[k - 1])]

\* What the host has under these elements.
OnHost(es) ==
    CASE es = <<>> -> RootInode
      [] es = <<names[DirInode]>> -> DirInode
      [] es = <<names[RootFile]>> -> RootFile
      [] es = <<names[DirInode], names[DirFile]>> -> DirFile
      [] OTHER -> Failed

\* A path opens the file that the host had there, and no path opens anything else;
\* files are devices exactly below /device.  Names longer than an entry holds are
\* left out on both sides.
LookupExact ==
    LET es == Elements
        i == OnHost(es)
        short == /\ \A k \in DOMAIN names : Len(names[k]) < DIRSIZ
                 /\ \A k \in DOMAIN es : Len(es[k]) < DIRSIZ
    IN  walk_pc = "done" /\ short =>
            /\ result.inum = i
            /\ result.type = CASE i = Failed -> "none"
                               [] IsDir(i) -> "dir"
                               [] i = DirFile /\ es[1] = Device -> "device"
                               [] i = RootFile /\ es[1] = Device -> "device"
                               [] OTHER -> "normal"
=============================================================================
