-------------------------------- MODULE Proc --------------------------------
(***************************************************************************)
(* The process table of the kernel and its round-robin scheduler           *)
(* (kernel/proc/proc.c, the process system calls of kernel/system/         *)
(* syscall.c, the timer trap of kernel/irq/handler.c) together with the    *)
(* waitpid loop of the user library (usr/libs/libos/src/syscall.c).        *)
(*                                                                         *)
(* The machine has one hart and the kernel runs with interrupts off, so    *)
(* every trap is one step; processes interleave only between traps.        *)
(* A pid is the index of a slot of PCBs plus one, as in pid_from_pcb.      *)
(***************************************************************************)
EXTENDS Integers

CONSTANTS
    MaxProcs,      \* MAX_PROCS, the slots of the table
    MaxSubProcs,   \* MAX_SUB_PROCS, the children one process can have
    ExitCodes,     \* the statuses programs pass to exit()
    Signals,       \* the signals programs pass to kill()
    SleepSeconds,  \* the arguments programs pass to sleep()
    TicksPerSec,   \* TICKS_PER_SEC
    MaxTime        \* bound: the clock stops here

ASSUME TableAssumption == MaxProcs \in Nat \ {0} /\ MaxSubProcs \in Nat
ASSUME ProgramAssumption ==
    /\ ExitCodes \subseteq Int
    /\ Signals \subseteq Nat
    /\ SleepSeconds \subseteq Nat
ASSUME ClockAssumption == TicksPerSec \in Nat \ {0} /\ MaxTime \in Nat

VARIABLES
    PCBs,      \* the process table
    current,   \* pid of current_proc
    now,       \* timer_get_time()
    panic,     \* why the kernel halted, "no" while it runs
    upc,       \* where a program is: its own code, or the waitpid loop
    target     \* the pid the waitpid loop of a program waits for

vars == <<PCBs, current, now, panic, upc, target>>

Pids == 1..MaxProcs
Subs == 1..MaxSubProcs
NoPid == -1

ProcStates == {"EMPTY", "RUNNING", "SLEEPING", "ZOMBIE"}
PanicReasons == {"no", "no runnable process", "out of memory", "bad program"}
UserPcs == {"app", "yield", "retry"}

PCB == [ cp : BOOLEAN,                         \* a saved context exists
         state : ProcStates,
         sub_procs : [Subs -> Pids \cup {NoPid}],
         parent_pid : Pids \cup {NoPid},
         exit_status : Int,
         sleep_deadline : Nat ]

\* One type invariant for the module: the shape of the process table.
TypeOK ==
    /\ PCBs \in [Pids -> PCB]
    /\ current \in Pids
    /\ now \in Nat
    /\ panic \in PanicReasons
    /\ upc \in [Pids -> UserPcs]
    /\ target \in [Pids -> Pids \cup {NoPid}]

-----------------------------------------------------------------------------
(* Helpers of proc.c on a process table pcbs.                              *)

\* reset_pcb_slot
EmptyPCB ==
    [ cp |-> FALSE, state |-> "EMPTY", sub_procs |-> [i \in Subs |-> NoPid],
      parent_pid |-> NoPid, exit_status |-> 0, sleep_deadline |-> 0 ]

Live(pcb) == pcb.state \in {"RUNNING", "SLEEPING"}

\* The slots of PCBs[p].sub_procs that hold child c.
SlotsOf(pcbs, p, c) == {i \in Subs : pcbs[p].sub_procs[i] = c}

\* parent_has_child_pid(pcb_from_pid(p), c); p may be no pid at all
parent_has_child_pid(pcbs, p, c) == p \in Pids /\ SlotsOf(pcbs, p, c) # {}

First(S) == CHOOSE i \in S : \A j \in S : i <= j

EmptySlots == {p \in Pids : PCBs[p].state = "EMPTY"}

\* Mutated form of terminate_proc: the child is struck off its parent's list and
\* its slot freed at once, as if the parent had waited for it.
terminate_proc_reaps(pcbs, p, status) ==
    [q \in Pids |->
        IF q = p THEN EmptyPCB
        ELSE [pcbs[q] EXCEPT !.sub_procs =
                 [i \in Subs |-> IF @[i] = p THEN NoPid ELSE @[i]]]]

\* Mutated form of terminate_proc: a zombie forgets the children it lists.
terminate_proc_forgets_children(pcbs, p, status) ==
    IF parent_has_child_pid(pcbs, pcbs[p].parent_pid, p)
    THEN [pcbs EXCEPT ![p] = [EmptyPCB EXCEPT !.state = "ZOMBIE",
                                              !.exit_status = status,
                                              !.parent_pid = pcbs[p].parent_pid]]
    ELSE [pcbs EXCEPT ![p] = EmptyPCB]

\* A live process dies.  It stays as a zombie when its parent lists it;
\* nobody will wait for it otherwise, and its slot is freed at once.  The
\* children it lists are left alone, and stay listed if it is a zombie.
terminate_proc(pcbs, p, status) ==
    IF parent_has_child_pid(pcbs, pcbs[p].parent_pid, p)
    THEN [pcbs EXCEPT ![p] = [@ EXCEPT !.cp = FALSE, !.state = "ZOMBIE",
                                       !.exit_status = status,
                                       !.sleep_deadline = 0]]
    ELSE [pcbs EXCEPT ![p] = EmptyPCB]

\* Mutated form of wake_sleepers: a sleeper is woken one tick late.
wake_sleepers_late(pcbs) ==
    [p \in Pids |->
        IF /\ pcbs[p].state = "SLEEPING"
           /\ pcbs[p].sleep_deadline # 0
           /\ now > pcbs[p].sleep_deadline
        THEN [pcbs[p] EXCEPT !.state = "RUNNING", !.sleep_deadline = 0]
        ELSE pcbs[p]]

\* Sleepers whose deadline has come are made runnable.
wake_sleepers(pcbs) ==
    [p \in Pids |->
        IF /\ pcbs[p].state = "SLEEPING"
           /\ pcbs[p].sleep_deadline # 0
           /\ now >= pcbs[p].sleep_deadline
        THEN [pcbs[p] EXCEPT !.state = "RUNNING", !.sleep_deadline = 0]
        ELSE pcbs[p]]

Runnable(pcb) == pcb.cp /\ pcb.state = "RUNNING"

\* Mutated form of turn: the search starts at the first slot every time.
turn_from_first(i) == i

\* The slot the round robin tries in turn i, the current one last.
turn(i) == ((current - 1 + i) % MaxProcs) + 1

ReadyTurns(pcbs) == {i \in Pids : Runnable(pcbs[turn(i)])}

\* schedule(), on the table a system call or the timer trap leaves behind.
schedule(pcbs) ==
    LET woken == wake_sleepers(pcbs)
        ready == ReadyTurns(woken)
    IN  /\ PCBs' = woken
        /\ \/ /\ ready # {}
              /\ current' = turn(First(ready))
              /\ panic' = panic
           \/ /\ ready = {}
              /\ panic' = "no runnable process"
              /\ current' = current

-----------------------------------------------------------------------------
(* System calls of the current process.                                    *)

Init ==
    /\ PCBs = [p \in Pids |->
                 IF p = 1 THEN [EmptyPCB EXCEPT !.cp = TRUE, !.state = "RUNNING"]
                          ELSE EmptyPCB]
    /\ current = 1
    /\ now = 0
    /\ panic = "no"
    /\ upc = [p \in Pids |-> "app"]
    /\ target = [p \in Pids |-> NoPid]

\* The current program runs its own code and makes a system call.
InApp == panic = "no" /\ upc[current] = "app"

Unlooped == UNCHANGED <<upc, target>>

\* A program that dies takes its waitpid loop with it.
LeaveLoop(p) ==
    /\ upc' = [upc EXCEPT ![p] = "app"]
    /\ target' = [target EXCEPT ![p] = NoPid]

ForkedPCB(parent) ==
    [EmptyPCB EXCEPT !.cp = TRUE, !.state = "RUNNING", !.parent_pid = parent]

\* A full table, or a parent without a free entry in sub_procs, fails the call
\* and changes nothing; so does a failed clone_user_pages, which is rolled back
\* (reset_pcb_slot, remove_child_pid).
proc_fork_current ==
    /\ InApp
    /\ EmptySlots # {}
    /\ SlotsOf(PCBs, current, NoPid) # {}
    /\ LET child == First(EmptySlots)
           entry == First(SlotsOf(PCBs, current, NoPid))
       IN  PCBs' = [PCBs EXCEPT ![current].sub_procs[entry] = child,
                                ![child] = ForkedPCB(current)]
    /\ UNCHANGED <<current, now, panic>>
    /\ Unlooped

\* protect() or new_page() finds no free page half way through a fork.  The
\* kernel halts, and the half-built child is never looked at again.
ForkPanics ==
    /\ InApp
    /\ EmptySlots # {}
    /\ SlotsOf(PCBs, current, NoPid) # {}
    /\ panic' = "out of memory"
    /\ UNCHANGED <<PCBs, current, now>>
    /\ Unlooped

\* execve has given the old address space back before it reads the file: it
\* succeeds, with the process as before in this table, or the loader panics.
ExecPanics ==
    /\ InApp
    /\ panic' = "bad program"
    /\ UNCHANGED <<PCBs, current, now>>
    /\ Unlooped

\* Mutated form of sys_exit: returns to the caller instead of scheduling.
sys_exit_returns(status) ==
    /\ InApp
    /\ PCBs' = terminate_proc(PCBs, current, status)
    /\ LeaveLoop(current)
    /\ UNCHANGED <<current, now, panic>>

sys_exit(status) ==
    /\ InApp
    /\ schedule(terminate_proc(PCBs, current, status))
    /\ LeaveLoop(current)
    /\ UNCHANGED now

kill_status(sig) == 128 + (sig % 128)

\* A killer that names itself does not return: the handler calls schedule().
proc_kill_self(sig) ==
    /\ InApp
    /\ PCBs[current].cp
    /\ schedule(terminate_proc(PCBs, current, kill_status(sig)))
    /\ LeaveLoop(current)
    /\ UNCHANGED now

\* Mutated form of proc_kill_pid: a zombie can be killed again.
proc_kill_pid_any(pid, sig) ==
    /\ InApp
    /\ pid # current
    /\ PCBs[pid].state # "EMPTY"
    /\ PCBs' = terminate_proc(PCBs, pid, kill_status(sig))
    /\ LeaveLoop(pid)
    /\ UNCHANGED <<current, now, panic>>

proc_kill_pid(pid, sig) ==
    /\ InApp
    /\ pid # current
    /\ Live(PCBs[pid])
    /\ PCBs[pid].cp
    /\ PCBs' = terminate_proc(PCBs, pid, kill_status(sig))
    /\ LeaveLoop(pid)
    /\ UNCHANGED <<current, now, panic>>

proc_sleep_current(seconds) ==
    /\ InApp
    /\ seconds # 0
    /\ now + seconds * TicksPerSec <= MaxTime
    /\ schedule([PCBs EXCEPT
            ![current].sleep_deadline = now + seconds * TicksPerSec,
            ![current].state = "SLEEPING"])
    /\ UNCHANGED now
    /\ Unlooped

sys_yield ==
    /\ InApp
    /\ schedule(PCBs)
    /\ UNCHANGED now
    /\ Unlooped

-----------------------------------------------------------------------------
(* waitpid: the system call and the loop of the user library around it.    *)

\* The entries of sub_procs that a wait of the current process looks at, and
\* those among them whose child is a zombie; pid NoPid waits for any child.
Matches(pid) ==
    {i \in Subs : /\ PCBs[current].sub_procs[i] # NoPid
                  /\ pid # NoPid => PCBs[current].sub_procs[i] = pid}

\* Mutated form of ZombieMatches: the search stops before the last entry.
ZombieMatches_short(pid) ==
    {i \in Matches(pid) : /\ i < MaxSubProcs
                          /\ PCBs[PCBs[current].sub_procs[i]].state = "ZOMBIE"}

ZombieMatches(pid) ==
    {i \in Matches(pid) : PCBs[PCBs[current].sub_procs[i]].state = "ZOMBIE"}

\* Mutated form of Reaped: remove_child_pid is forgotten.
Reaped_still_listed(pid) ==
    LET child == PCBs[current].sub_procs[First(ZombieMatches(pid))]
    IN  [PCBs EXCEPT ![child] = EmptyPCB]

\* The first zombie among the children waited for is reaped.
Reaped(pid) ==
    LET entry == First(ZombieMatches(pid))
        child == PCBs[current].sub_procs[entry]
    IN  [PCBs EXCEPT ![current].sub_procs[entry] = NoPid, ![child] = EmptyPCB]

\* The caller is inside waitpid(): it has just entered, or yielded and retries.
InWait(pid) ==
    /\ panic = "no"
    /\ \/ upc[current] = "app"
       \/ upc[current] = "retry" /\ target[current] = pid

\* A zombie was found: waitpid returns its pid.
wait_reaps(pid) ==
    /\ InWait(pid)
    /\ ZombieMatches(pid) # {}
    /\ PCBs' = Reaped(pid)
    /\ LeaveLoop(current)
    /\ UNCHANGED <<current, now, panic>>

\* Children, but no zombie: the system call returns -2 and the library yields.
\* With WNOHANG it returns 0 instead, and nothing changes.
wait_blocks(pid) ==
    /\ InWait(pid)
    /\ Matches(pid) # {}
    /\ ZombieMatches(pid) = {}
    /\ upc' = [upc EXCEPT ![current] = "yield"]
    /\ target' = [target EXCEPT ![current] = pid]
    /\ UNCHANGED <<PCBs, current, now, panic>>

\* No such child: waitpid returns -1.
wait_fails(pid) ==
    /\ InWait(pid)
    /\ Matches(pid) = {}
    /\ LeaveLoop(current)
    /\ UNCHANGED <<PCBs, current, now, panic>>

wait_yields ==
    /\ panic = "no"
    /\ upc[current] = "yield"
    /\ upc' = [upc EXCEPT ![current] = "retry"]
    /\ schedule(PCBs)
    /\ UNCHANGED <<now, target>>

\* One step of the waitpid loop of process p.
WaitLoop(p) ==
    /\ current = p
    /\ upc[p] # "app"
    /\ \/ wait_yields
       \/ wait_reaps(target[p])
       \/ wait_blocks(target[p])
       \/ wait_fails(target[p])

-----------------------------------------------------------------------------
(* The machine.                                                            *)

\* IRQ_TIMER: preempts whatever program runs.
timer_trap ==
    /\ panic = "no"
    /\ schedule(PCBs)
    /\ UNCHANGED now
    /\ Unlooped

clock_ticks ==
    /\ panic = "no"
    /\ now < MaxTime
    /\ now' = now + 1
    /\ UNCHANGED <<PCBs, current, panic>>
    /\ Unlooped

\* panic(): interrupts off, wait for ever.
panic_loop == panic # "no" /\ UNCHANGED vars

AppCall ==
    \/ proc_fork_current
    \/ ForkPanics
    \/ ExecPanics
    \/ \E status \in ExitCodes : sys_exit(status)
    \/ \E sig \in Signals : proc_kill_self(sig)
    \/ \E pid \in Pids, sig \in Signals : proc_kill_pid(pid, sig)
    \/ \E seconds \in SleepSeconds : proc_sleep_current(seconds)
    \/ sys_yield

Wait ==
    \E pid \in Pids \cup {NoPid} :
        wait_reaps(pid) \/ wait_blocks(pid) \/ wait_fails(pid)

Next ==
    \/ AppCall
    \/ Wait
    \/ wait_yields
    \/ timer_trap
    \/ clock_ticks
    \/ panic_loop

Spec == Init /\ [][Next]_vars

\* The timer and the clock never stop.  A time slice (TIMER_INTERVAL) is far
\* longer than a turn of the waitpid loop, so a program that is scheduled again
\* and again inside the loop also takes the loop's steps.
Fairness ==
    /\ WF_vars(timer_trap)
    /\ WF_vars(clock_ticks)
    /\ \A p \in Pids : SF_vars(WaitLoop(p))

FairSpec == Spec /\ Fairness

-----------------------------------------------------------------------------
(* Properties.                                                             *)

Listed(pcbs, c) == parent_has_child_pid(pcbs, pcbs[c].parent_pid, c)

\* p lists c only if both slots are in use, c names p as its parent, and no
\* other entry of p holds c.
Family(pcbs) ==
    \A p \in Pids, i \in Subs :
        LET c == pcbs[p].sub_procs[i]
        IN  c # NoPid =>
              /\ pcbs[p].state # "EMPTY"
              /\ pcbs[c].state # "EMPTY"
              /\ pcbs[c].parent_pid = p
              /\ \A j \in Subs : pcbs[p].sub_procs[j] = c => j = i

\* A pid in a sub_procs array is the child its owner forked, for as long as it
\* is there: parent and child slots are in use, the child names the owner as its
\* parent, and no entry is repeated.  Pids are slot numbers and are reused, so
\* this is what keeps fork, exit, kill and wait of several processes from
\* handing one process's child to another (add_child_pid, remove_child_pid,
\* reset_pcb_slot, terminate_proc).
FamilyConsistent == Family(PCBs)

Acyclic(pcbs) ==
    \A S \in (SUBSET Pids) \ {{}} :
        \E c \in S : \A p \in S : SlotsOf(pcbs, p, c) = {}

\* The sub_procs arrays never describe a process as its own descendant, although
\* parent_pid fields of orphans may point at a slot reused by a descendant:
\* every set of processes has a member that no member of the set lists.
FamilyAcyclic == Acyclic(PCBs)

\* While the kernel runs, schedule() has left it with a process that has a saved
\* context and is not asleep, dead or reaped, whatever it or others did before.
CurrentRuns == panic = "no" => Runnable(PCBs[current])

\* A process has a saved context exactly when it is alive; proc_kill_pid and
\* schedule rely on both tests agreeing.
ContextIffLive == \A p \in Pids : PCBs[p].cp <=> Live(PCBs[p])

\* schedule() panics only when no process can run and no sleeper is overdue.
IdlePanicJustified ==
    panic = "no runnable process" =>
        \A p \in Pids : /\ ~Runnable(PCBs[p])
                        /\ PCBs[p].state = "SLEEPING" =>
                             now < PCBs[p].sleep_deadline

\* A program blocked in waitpid always still has a child to wait for: nobody
\* else can reap it, so a blocked call never turns into an error.
WaitStaysValid ==
    \A p \in Pids :
        upc[p] # "app" =>
            \E i \in Subs : /\ PCBs[p].sub_procs[i] # NoPid
                            /\ target[p] \in {NoPid, PCBs[p].sub_procs[i]}

\* A zombie keeps its exit status, its parent and the children it lists until
\* the parent that lists it waits for it: no other process and no other call
\* changes or frees its slot.
ZombieKept ==
    [][\A p \in Pids : PCBs[p].state = "ZOMBIE" =>
         \/ PCBs'[p] = PCBs[p]
         \/ /\ PCBs'[p] = EmptyPCB
            /\ current = PCBs[p].parent_pid
            /\ Listed(PCBs, p)]_vars

\* What becomes of a zombie nobody can wait for: it drops out of its parent's
\* list only when the parent's own slot is freed, and from then on its slot is
\* never freed (terminate_proc does not release the children of the process
\* that dies, and reset_pcb_slot forgets them).
ZombieLostForEver ==
    [][\A p \in Pids : PCBs[p].state = "ZOMBIE" =>
         IF Listed(PCBs, p)
         THEN \/ PCBs'[p].state = "EMPTY"
              \/ Listed(PCBs', p)
              \/ PCBs'[PCBs[p].parent_pid] = EmptyPCB
         ELSE PCBs'[p].state = "ZOMBIE" /\ ~Listed(PCBs', p)]_vars

\* Round robin with a timer starves nobody: a process that can run does run,
\* unless it is killed first or the kernel halts.
NoStarvation ==
    \A p \in Pids : Runnable(PCBs[p]) ~>
        (current = p \/ ~Runnable(PCBs[p]) \/ panic # "no")

\* A sleeper wakes, unless it is killed or the kernel halts.
SleepersWake ==
    \A p \in Pids : PCBs[p].state = "SLEEPING" ~>
        (PCBs[p].state # "SLEEPING" \/ panic # "no")

\* A waitpid whose child is a zombie returns, unless the waiter is killed or the
\* kernel halts: the yield-and-retry loop of the library makes progress.
WaitersServed ==
    \A p \in Pids :
        (/\ upc[p] # "app"
         /\ \E i \in Subs : /\ PCBs[p].sub_procs[i] # NoPid
                            /\ target[p] \in {NoPid, PCBs[p].sub_procs[i]}
                            /\ PCBs[PCBs[p].sub_procs[i]].state = "ZOMBIE")
        ~> (upc[p] = "app" \/ panic # "no")

\* Who is whose child: the two sides of the link agree and nobody is his own
\* descendant, whatever slots are reused by fork, exit, kill and wait.
FamilySound ==
    /\ FamilyConsistent
    /\ FamilyAcyclic

\* The table has its shape, and the kernel returns from a trap only into a process
\* that is alive, awake and has a context; neither holds by itself (schedule).
TypedAndRunning ==
    /\ TypeOK
    /\ CurrentRuns

\* Contexts exist for exactly the live processes, and schedule() panics only when
\* there is really none to run (terminate_proc, schedule).
SchedulerSound ==
    /\ ContextIffLive
    /\ IdlePanicJustified

\* Nobody starves, awake or asleep (the scan of schedule, proc_wakeup_sleepers).
EveryoneRuns ==
    /\ NoStarvation
    /\ SleepersWake
=============================================================================
