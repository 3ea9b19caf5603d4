------------------------------- MODULE Files --------------------------------
(***************************************************************************)
(* Open files: the descriptor tables of the processes, the global table of *)
(* open files with its reference counts, and the table of pipes            *)
(* (kernel/fs/fs.c, the descriptor system calls of kernel/system/          *)
(* syscall.c, and what fork and exit of kernel/proc/proc.c do to           *)
(* descriptors).  What a pipe holds is the subject of module PipeBuffer.   *)
(*                                                                         *)
(* The kernel is not preempted, so a system call is one step.  Calls that  *)
(* fail give back what they allocated and change nothing; they have no     *)
(* action here.                                                            *)
(***************************************************************************)
EXTENDS Integers, FiniteSets, FiniteSetsExt

CONSTANTS
    NProcs,     \* process slots
    MaxFd,      \* MAX_FD
    NFile,      \* NFILE
    MaxPipes,   \* MAX_PIPES
    NStdio,     \* descriptors the first process starts with
    MaxEnds     \* bound on the readers and writers counters

ASSUME SizeAssumption ==
    /\ NProcs \in Nat \ {0} /\ MaxFd \in Nat /\ NFile \in Nat
    /\ MaxPipes \in Nat /\ MaxEnds \in Nat \ {0}
    /\ NStdio \in 0..MaxFd /\ NStdio <= NFile

VARIABLES
    fd_table,     \* fd_table[p][fd], 0 where the descriptor is closed
    file_table,
    pipe_table,
    alive         \* processes that exist and have not ended

filesVars == <<fd_table, file_table, pipe_table, alive>>

Procs == 1..NProcs
Fds == 1..MaxFd
FileIds == 1..NFile
PipeIds == 1..MaxPipes
Null == 0
NoPipe == -1

FileTypes == {"FREE", "INODE", "PIPE"}   \* "INODE": normal, directory, device
Ends == {"none", "read", "write"}

File == [type : FileTypes, ref : Nat, pipe_id : PipeIds \cup {NoPipe},
         pipe_end : Ends]
Pipe == [used : BOOLEAN, readers : 0..MaxEnds, writers : 0..MaxEnds]

\* One type invariant for the module: the shape of the three tables.
FilesTypeOK ==
    /\ fd_table \in [Procs -> [Fds -> FileIds \cup {Null}]]
    /\ file_table \in [FileIds -> File]
    /\ pipe_table \in [PipeIds -> Pipe]
    /\ alive \subseteq Procs

-----------------------------------------------------------------------------
(* fs.c, on a pair of tables t = [file |-> ..., pipe |-> ...].             *)

Tables == [file |-> file_table, pipe |-> pipe_table]

FreeFile == [type |-> "FREE", ref |-> 0, pipe_id |-> NoPipe, pipe_end |-> "none"]
InodeFile == [FreeFile EXCEPT !.type = "INODE", !.ref = 1]
PipeFile(id, end) ==
    [type |-> "PIPE", ref |-> 1, pipe_id |-> id, pipe_end |-> end]
FreePipe == [used |-> FALSE, readers |-> 0, writers |-> 0]

FreeFiles == {f \in FileIds : file_table[f].type = "FREE"}
\* Mutated form of FreePipes: a pipe without readers counts as free.
FreePipes_unread == {i \in PipeIds : pipe_table[i].readers = 0}

FreePipes == {i \in PipeIds : ~pipe_table[i].used}
FreeFds(p) == {fd \in Fds : fd_table[p][fd] = Null}

\* The counter of one end of a pipe.
Counted(pipe, end) == IF end = "read" THEN pipe.readers ELSE pipe.writers
Recount(pipe, end, n) ==
    IF end = "read" THEN [pipe EXCEPT !.readers = n]
                    ELSE [pipe EXCEPT !.writers = n]

\* pipe_maybe_free
pipe_maybe_free(pipe) ==
    IF pipe.readers = 0 /\ pipe.writers = 0 THEN FreePipe ELSE pipe

\* One reference is dropped.  Only with the last one does the pipe learn that
\* the end was closed, and its counter goes down by one.
fs_close(t, f) ==
    LET file == t.file[f]
        pipe == t.pipe[file.pipe_id]
        left == Counted(pipe, file.pipe_end) - 1
    IN  IF file.ref > 1
        THEN [t EXCEPT !.file[f].ref = @ - 1]
        ELSE [file |-> [t.file EXCEPT ![f] = FreeFile],
              pipe |-> IF file.type # "PIPE" THEN t.pipe
                       ELSE [t.pipe EXCEPT ![file.pipe_id] =
                               pipe_maybe_free(Recount(pipe, file.pipe_end,
                                                 IF left < 0 THEN 0 ELSE left))]]

\* One reference is added, and the pipe's counter goes up with every one.
fs_dup(t, f) ==
    LET file == t.file[f]
        pipe == t.pipe[file.pipe_id]
    IN  [file |-> [t.file EXCEPT ![f].ref = @ + 1],
         pipe |-> IF file.type # "PIPE" THEN t.pipe
                  ELSE [t.pipe EXCEPT ![file.pipe_id] =
                          Recount(pipe, file.pipe_end,
                                  Counted(pipe, file.pipe_end) + 1)]]

\* The loops over fd_table of terminate_proc and proc_fork_current, descriptor by
\* descriptor: upto[n] is the state after the first n of them.
close_all(t, fds) ==
    LET upto[n \in 0..MaxFd] ==
            IF n = 0 THEN t
            ELSE IF fds[n] = Null THEN upto[n - 1] ELSE fs_close(upto[n - 1], fds[n])
    IN  upto[MaxFd]
dup_all(t, fds) ==
    LET upto[n \in 0..MaxFd] ==
            IF n = 0 THEN t
            ELSE IF fds[n] = Null THEN upto[n - 1] ELSE fs_dup(upto[n - 1], fds[n])
    IN  upto[MaxFd]

\* A step leaves the kernel with tables t.
Become(t) == file_table' = t.file /\ pipe_table' = t.pipe

\* The bound on the counters.
WithinBound(t) ==
    \A i \in PipeIds : t.pipe[i].readers <= MaxEnds /\ t.pipe[i].writers <= MaxEnds

-----------------------------------------------------------------------------
(* System calls of a living process p.                                     *)

FilesInit ==
    /\ alive = {1}
    /\ fd_table = [p \in Procs |-> [fd \in Fds |->
                     IF p = 1 /\ fd <= NStdio THEN fd ELSE Null]]
    /\ file_table = [f \in FileIds |-> IF f <= NStdio THEN InodeFile ELSE FreeFile]
    /\ pipe_table = [i \in PipeIds |-> FreePipe]

\* open() of a path that exists.
sys_open(p) ==
    /\ FreeFiles # {} /\ FreeFds(p) # {}
    /\ file_table' = [file_table EXCEPT ![Min(FreeFiles)] = InodeFile]
    /\ fd_table' = [fd_table EXCEPT ![p][Min(FreeFds(p))] = Min(FreeFiles)]
    /\ UNCHANGED <<pipe_table, alive>>

sys_close(p, fd) ==
    /\ fd_table[p][fd] # Null
    /\ Become(fs_close(Tables, fd_table[p][fd]))
    /\ fd_table' = [fd_table EXCEPT ![p][fd] = Null]
    /\ UNCHANGED alive

\* The first two free files become the ends of the first free pipe.
sys_pipe(p) ==
    /\ FreePipes # {}
    /\ Cardinality(FreeFiles) >= 2
    /\ Cardinality(FreeFds(p)) >= 2
    /\ LET id == Min(FreePipes)
           r == Min(FreeFiles)
           w == Min(FreeFiles \ {r})
           rfd == Min(FreeFds(p))
           wfd == Min(FreeFds(p) \ {rfd})
       IN  /\ file_table' = [file_table EXCEPT ![r] = PipeFile(id, "read"),
                                               ![w] = PipeFile(id, "write")]
           /\ pipe_table' = [pipe_table EXCEPT
                                ![id] = [used |-> TRUE, readers |-> 1, writers |-> 1]]
           /\ fd_table' = [fd_table EXCEPT ![p][rfd] = r, ![p][wfd] = w]
    /\ UNCHANGED alive

sys_dup(p, oldfd) ==
    LET f == fd_table[p][oldfd]
    IN  /\ f # Null
        /\ FreeFds(p) # {}
        /\ WithinBound(fs_dup(Tables, f))
        /\ fd_table' = [fd_table EXCEPT ![p][Min(FreeFds(p))] = f]
        /\ Become(fs_dup(Tables, f))
        /\ UNCHANGED alive

\* Mutated form of sys_dup2: an open newfd is overwritten without being closed.
sys_dup2_no_close(p, oldfd, newfd) ==
    LET f == fd_table[p][oldfd]
    IN  /\ f # Null
        /\ oldfd # newfd
        /\ WithinBound(fs_dup(Tables, f))
        /\ Become(fs_dup(Tables, f))
        /\ fd_table' = [fd_table EXCEPT ![p][newfd] = f]
        /\ UNCHANGED alive

\* newfd is closed first if it is open, then oldfd is duplicated onto it.
sys_dup2(p, oldfd, newfd) ==
    LET f == fd_table[p][oldfd]
        g == fd_table[p][newfd]
        closed == IF g = Null THEN Tables ELSE fs_close(Tables, g)
    IN  /\ f # Null
        /\ oldfd # newfd
        /\ WithinBound(fs_dup(closed, f))
        /\ Become(fs_dup(closed, f))
        /\ fd_table' = [fd_table EXCEPT ![p][newfd] = f]
        /\ UNCHANGED alive

\* proc_fork_current: the child gets every descriptor of its parent.
fork(p, child) ==
    /\ child \notin alive
    /\ WithinBound(dup_all(Tables, fd_table[p]))
    /\ Become(dup_all(Tables, fd_table[p]))
    /\ fd_table' = [fd_table EXCEPT ![child] = fd_table[p]]
    /\ alive' = alive \cup {child}

\* terminate_proc, by exit or kill: every descriptor is closed in turn.
terminate(p) ==
    /\ Become(close_all(Tables, fd_table[p]))
    /\ fd_table' = [fd_table EXCEPT ![p] = [fd \in Fds |-> Null]]
    /\ alive' = alive \ {p}

FilesNext ==
    \E p \in alive :
        \/ sys_open(p)
        \/ sys_pipe(p)
        \/ \E fd \in Fds : sys_close(p, fd) \/ sys_dup(p, fd)
        \/ \E oldfd, newfd \in Fds : sys_dup2(p, oldfd, newfd)
        \/ \E child \in Procs : fork(p, child)
        \/ terminate(p)

FilesSpec == FilesInit /\ [][FilesNext]_filesVars

-----------------------------------------------------------------------------
(* Properties.                                                             *)

\* The descriptors of all processes that refer to file f.
RefsTo(f) == {x \in Procs \X Fds : fd_table[x[1]][x[2]] = f}

\* The file that is one end of a pipe, as a set of at most one.
EndFiles(id, end) ==
    {f \in FileIds : /\ file_table[f].type = "PIPE"
                     /\ file_table[f].pipe_id = id
                     /\ file_table[f].pipe_end = end}

\* The reference count of an open file is the number of descriptors of all
\* processes that refer to it, and a file is free exactly when that is 0: open,
\* close, pipe, dup, dup2, fork and exit never free a file that is in use, and
\* never keep one that is not.
RefsExact ==
    \A f \in FileIds :
        /\ file_table[f].ref = Cardinality(RefsTo(f))
        /\ file_table[f].type = "FREE" <=> RefsTo(f) = {}

\* A process that has ended holds no descriptor.
DeadHoldNothing ==
    \A p \in Procs \ alive, fd \in Fds : fd_table[p][fd] = Null

\* As long as a descriptor refers to an end of a pipe, the pipe is allocated and
\* its counter covers every such descriptor, so that pipe_read and pipe_write do
\* not fail and the slot is not handed to another pipe; and an end is one file.
PipeEndsCovered ==
    \A id \in PipeIds, end \in {"read", "write"} :
        \A f \in EndFiles(id, end) :
            /\ EndFiles(id, end) = {f}
            /\ pipe_table[id].used
            /\ Cardinality(RefsTo(f)) <= Counted(pipe_table[id], end)

\* A pipe whose last descriptor is gone and which is still allocated stays so:
\* fs_close counts a pipe end down once however often fs_dup counted it up.
LostPipeStaysLost ==
    [][\A id \in PipeIds :
         (/\ pipe_table[id].used
          /\ EndFiles(id, "read") \cup EndFiles(id, "write") = {})
         => /\ pipe_table'[id] = pipe_table[id]
            /\ (EndFiles(id, "read") \cup EndFiles(id, "write"))' = {}]_filesVars

\* What a test program relies on (syscall-extended-smoke.c:53 asserts that
\* pipe() succeeds): a slot is free for a new pipe when no pipe is open.
PipeAvailable ==
    (\A f \in FileIds : file_table[f].type # "PIPE") => FreePipes # {}

\* Descriptors, reference counts and pipe ends agree: nothing is freed that is in
\* use, and the dead hold nothing (fs_close, fs_dup, sys_dup2, fork, exit).
FilesConsistent ==
    /\ FilesTypeOK
    /\ RefsExact
    /\ DeadHoldNothing
    /\ PipeEndsCovered
=============================================================================
