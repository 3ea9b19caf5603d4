----------------------------- MODULE ProcProofs -----------------------------
(* Theorems about the process table, for any number of slots and children. *)
EXTENDS Proc, WellFoundedInduction, TLAPS

USE DEF Pids, Subs, NoPid

Tables == [Pids -> PCB]

-----------------------------------------------------------------------------
(* Helpers.                                                                *)

\* A nonempty set of naturals has a least element, so First is a member.
LEMMA FirstMember ==
    ASSUME NEW S, S \subseteq Nat, S # {}
    PROVE  First(S) \in S /\ \A j \in S : First(S) <= j
  <1>1. PICK x \in S : \A y \in S : ~(<<y, x>> \in OpToRel(<, Nat))
    BY NatLessThanWellFounded, WFMin
  <1>2. \A y \in S : ~(y < x)
    BY <1>1, Zenon DEF OpToRel
  <1>3. \A y \in S : x <= y
    BY <1>2
  <1>. QED
    BY <1>3, Zenon DEF First

\* The round robin looks only at slots of the table.
LEMMA TurnInTable ==
    ASSUME current \in Pids, NEW i \in Pids
    PROVE  turn(i) \in Pids
  <1>. DEFINE x == current - 1 + i
  <1>1. x \in Nat /\ MaxProcs \in Nat /\ MaxProcs > 0
    BY TableAssumption
  <1>2. x % MaxProcs \in 0..(MaxProcs - 1)
    BY <1>1
  <1>. QED
    BY <1>1, <1>2 DEF turn

\* An emptied slot is a PCB.
LEMMA EmptyPCBType == EmptyPCB \in PCB
  BY DEF EmptyPCB, PCB, ProcStates

\* terminate_proc leaves a table of PCBs.
LEMMA TerminateType ==
    ASSUME NEW pcbs \in Tables, NEW p \in Pids, NEW status \in Int
    PROVE  terminate_proc(pcbs, p, status) \in Tables
  BY EmptyPCBType DEF terminate_proc, Tables, PCB, ProcStates

\* wake_sleepers leaves a table of PCBs.
LEMMA WakeType ==
    ASSUME NEW pcbs \in Tables
    PROVE  wake_sleepers(pcbs) \in Tables
  BY DEF wake_sleepers, Tables, PCB, ProcStates

\* schedule() leaves a table of PCBs and picks a slot of it.
LEMMA ScheduleType ==
    ASSUME NEW pcbs \in Tables, current \in Pids, panic \in PanicReasons,
           schedule(pcbs)
    PROVE  PCBs' \in Tables /\ current' \in Pids /\ panic' \in PanicReasons
  <1>. DEFINE woken == wake_sleepers(pcbs)
              ready == ReadyTurns(woken)
  <1>1. ready \subseteq Pids /\ ready \subseteq Nat
    BY DEF ReadyTurns
  <1>2. ready # {} => turn(First(ready)) \in Pids
    BY <1>1, FirstMember, TurnInTable
  <1>. QED
    BY <1>2, WakeType DEF schedule, PanicReasons

\* fork finds an empty slot and a free list entry when there is one, and the
\* child it builds is a PCB.
LEMMA ForkType ==
    ASSUME TypeOK, EmptySlots # {}, SlotsOf(PCBs, current, NoPid) # {}
    PROVE  /\ First(EmptySlots) \in EmptySlots
           /\ First(SlotsOf(PCBs, current, NoPid)) \in SlotsOf(PCBs, current, NoPid)
           /\ ForkedPCB(current) \in PCB
  <1>1. EmptySlots \subseteq Nat /\ SlotsOf(PCBs, current, NoPid) \subseteq Nat
    BY DEF EmptySlots, SlotsOf
  <1>2. ForkedPCB(current) \in PCB
    BY EmptyPCBType DEF ForkedPCB, TypeOK, PCB, ProcStates
  <1>. QED
    BY <1>1, <1>2, FirstMember

\* The entry of the zombie that a wait reaps, and the zombie.
LEMMA ReapedEntry ==
    ASSUME TypeOK, NEW pid, ZombieMatches(pid) # {}
    PROVE  \E i \in Subs :
             /\ PCBs[current].sub_procs[i] \in Pids
             /\ PCBs[PCBs[current].sub_procs[i]].state = "ZOMBIE"
             /\ Reaped(pid) = [PCBs EXCEPT ![current].sub_procs[i] = NoPid,
                                  ![PCBs[current].sub_procs[i]] = EmptyPCB]
  <1>. DEFINE i == First(ZombieMatches(pid))
  <1>1. ZombieMatches(pid) \subseteq Nat
    BY DEF ZombieMatches, Matches
  <1>2. i \in ZombieMatches(pid)
    BY <1>1, FirstMember
  <1>3. i \in Subs /\ PCBs[current].sub_procs[i] # NoPid
                   /\ PCBs[PCBs[current].sub_procs[i]].state = "ZOMBIE"
    BY <1>2 DEF ZombieMatches, Matches
  <1>4. PCBs[current].sub_procs[i] \in Pids
    <2>1. PCBs[current] \in PCB
      BY DEF TypeOK
    <2>2. PCBs[current].sub_procs \in [Subs -> Pids \cup {NoPid}]
      BY <2>1 DEF PCB
    <2>. HIDE DEF i
    <2>. QED
      BY <1>3, <2>2
  <1>. QED
    BY <1>3, <1>4 DEF Reaped

-----------------------------------------------------------------------------
(* What a step does to the table.  Every later proof has these cases.      *)

ForkStep ==
    \E child \in EmptySlots, entry \in SlotsOf(PCBs, current, NoPid) :
        PCBs' = [PCBs EXCEPT ![current].sub_procs[entry] = child,
                             ![child] = ForkedPCB(current)]

TerminateStep ==
    \E p \in Pids, status \in Int :
        LET pcbs == terminate_proc(PCBs, p, status)
        IN  /\ Live(PCBs[p])
            /\ \/ PCBs' = wake_sleepers(pcbs)
               \/ p # current /\ PCBs' = pcbs

SleepStep ==
    \E deadline \in Nat :
        PCBs' = wake_sleepers([PCBs EXCEPT
                    ![current].sleep_deadline = deadline,
                    ![current].state = "SLEEPING"])

ReapStep ==
    \E i \in Subs :
        /\ PCBs[current].sub_procs[i] \in Pids
        /\ PCBs[PCBs[current].sub_procs[i]].state = "ZOMBIE"
        /\ PCBs' = [PCBs EXCEPT ![current].sub_procs[i] = NoPid,
                                ![PCBs[current].sub_procs[i]] = EmptyPCB]

TableStep ==
    \/ PCBs' = PCBs
    \/ PCBs' = wake_sleepers(PCBs)
    \/ panic = "no" /\ (ForkStep \/ TerminateStep \/ SleepStep \/ ReapStep)

\* The status of a killed process is an integer.
LEMMA KillStatusType == ASSUME NEW sig \in Nat PROVE kill_status(sig) \in Int
  BY DEF kill_status

\* Every step changes the table in one of the ways TableStep lists.
LEMMA StepsOfTheTable ==
    ASSUME TypeOK, CurrentRuns, [Next]_vars
    PROVE  TableStep
  <1>0. panic = "no" => Live(PCBs[current]) /\ current \in Pids
    BY DEF TypeOK, CurrentRuns, Runnable, Live
  <1>1. CASE proc_fork_current
    <2>1. ForkStep
      BY <1>1, ForkType DEF proc_fork_current, ForkStep
    <2>. QED
      BY <1>1, <2>1 DEF TableStep, proc_fork_current, InApp
  <1>2. CASE ForkPanics \/ ExecPanics
    BY <1>2 DEF ForkPanics, ExecPanics, TableStep
  <1>3. ASSUME NEW status \in ExitCodes, sys_exit(status) PROVE TableStep
    <2>1. status \in Int
      BY ProgramAssumption
    <2>. QED
      BY <1>0, <1>3, <2>1 DEF sys_exit, InApp, schedule, TableStep, TerminateStep
  <1>4. ASSUME NEW sig \in Signals, proc_kill_self(sig) PROVE TableStep
    <2>1. kill_status(sig) \in Int
      BY KillStatusType, ProgramAssumption
    <2>. QED
      BY <1>0, <1>4, <2>1
      DEF proc_kill_self, InApp, schedule, TableStep, TerminateStep
  <1>5. ASSUME NEW pid \in Pids, NEW sig \in Signals, proc_kill_pid(pid, sig)
        PROVE  TableStep
    <2>1. kill_status(sig) \in Int
      BY KillStatusType, ProgramAssumption
    <2>. QED
      BY <1>5, <2>1 DEF proc_kill_pid, InApp, TableStep, TerminateStep
  <1>6. ASSUME NEW seconds \in SleepSeconds, proc_sleep_current(seconds)
        PROVE  TableStep
    <2>1. now + seconds * TicksPerSec \in Nat
      BY ProgramAssumption, ClockAssumption DEF TypeOK
    <2>. QED
      BY <1>6, <2>1 DEF proc_sleep_current, InApp, schedule, TableStep, SleepStep
  <1>7. CASE sys_yield \/ wait_yields \/ timer_trap
    BY <1>7 DEF sys_yield, wait_yields, timer_trap, schedule, TableStep
  <1>8. ASSUME NEW pid, wait_reaps(pid) PROVE TableStep
    <2>1. ReapStep
      BY <1>8, ReapedEntry DEF wait_reaps, ReapStep
    <2>. QED
      BY <1>8, <2>1 DEF TableStep, wait_reaps, InWait
  <1>9. ASSUME NEW pid, wait_blocks(pid) \/ wait_fails(pid) PROVE TableStep
    BY <1>9 DEF wait_blocks, wait_fails, TableStep
  <1>10. CASE clock_ticks \/ panic_loop \/ UNCHANGED vars
    BY <1>10 DEF clock_ticks, panic_loop, vars, TableStep
  <1>. QED
    BY <1>1, <1>2, <1>3, <1>4, <1>5, <1>6, <1>7, <1>8, <1>9, <1>10
    DEF Next, AppCall, Wait

-----------------------------------------------------------------------------
(* Types, and the process that runs.                                       *)

\* After schedule() the current process can run, unless the kernel halted.
LEMMA ScheduleRuns ==
    ASSUME NEW pcbs \in Tables, current \in Pids, panic = "no", schedule(pcbs)
    PROVE  CurrentRuns'
  <1>. DEFINE woken == wake_sleepers(pcbs)
              ready == ReadyTurns(woken)
  <1>1. ready \subseteq Nat
    BY DEF ReadyTurns
  <1>2. ready # {} => Runnable(woken[turn(First(ready))])
    BY <1>1, FirstMember DEF ReadyTurns
  <1>. QED
    BY <1>2 DEF schedule, CurrentRuns, Runnable

\* Leaving the waitpid loop keeps the user side typed.
LEMMA UserTypes ==
    ASSUME TypeOK, NEW p \in Pids, LeaveLoop(p)
    PROVE  upc' \in [Pids -> UserPcs] /\ target' \in [Pids -> Pids \cup {NoPid}]
  BY DEF TypeOK, LeaveLoop, UserPcs

\* Every step keeps the types and leaves a runnable process current.
LEMMA TypedAndRunningStep == TypedAndRunning /\ [Next]_vars => TypedAndRunning'
  <1>. SUFFICES ASSUME TypeOK, CurrentRuns, [Next]_vars
                PROVE  TypeOK' /\ CurrentRuns'
    BY DEF TypedAndRunning
  <1>. USE DEF Tables
  <1>1. CASE proc_fork_current
    <2>1. PICK child \in EmptySlots, entry \in SlotsOf(PCBs, current, NoPid) :
             PCBs' = [PCBs EXCEPT ![current].sub_procs[entry] = child,
                                  ![child] = ForkedPCB(current)]
      BY <1>1, ForkType DEF proc_fork_current
    <2>2. child \in Pids /\ entry \in Subs /\ child # current
      BY <1>1 DEF EmptySlots, SlotsOf, CurrentRuns, Runnable, proc_fork_current, InApp
    <2>3. [PCBs[current] EXCEPT !.sub_procs[entry] = child] \in PCB
      BY <2>2, ZenonT(60) DEF TypeOK, PCB
    <2>4. PCBs' \in [Pids -> PCB]
      BY <1>1, <2>1, <2>2, <2>3, ForkType DEF TypeOK, proc_fork_current
    <2>5. Runnable(PCBs'[current])
      BY <1>1, <2>1, <2>2 DEF TypeOK, PCB, CurrentRuns, Runnable, proc_fork_current, InApp
    <2>. QED
      BY <1>1, <2>4, <2>5 DEF TypeOK, CurrentRuns, proc_fork_current, Unlooped
  <1>2. CASE ForkPanics \/ ExecPanics
    BY <1>2 DEF ForkPanics, ExecPanics, TypeOK, CurrentRuns, PanicReasons, Unlooped
  <1>3. ASSUME NEW status \in Int, panic = "no",
               schedule(terminate_proc(PCBs, current, status)),
               LeaveLoop(current), UNCHANGED now
        PROVE  TypeOK' /\ CurrentRuns'
    <2>1. terminate_proc(PCBs, current, status) \in Tables
      BY TerminateType DEF TypeOK
    <2>. QED
      BY <1>3, <2>1, ScheduleType, ScheduleRuns, UserTypes DEF TypeOK
  <1>4. ASSUME NEW status \in ExitCodes, sys_exit(status)
        PROVE  TypeOK' /\ CurrentRuns'
    BY <1>3, <1>4, ProgramAssumption DEF sys_exit, InApp
  <1>5. ASSUME NEW sig \in Signals, proc_kill_self(sig)
        PROVE  TypeOK' /\ CurrentRuns'
    BY <1>3, <1>5, KillStatusType, ProgramAssumption DEF proc_kill_self, InApp
  <1>6. ASSUME NEW pid \in Pids, NEW sig \in Signals, proc_kill_pid(pid, sig)
        PROVE  TypeOK' /\ CurrentRuns'
    <2>1. kill_status(sig) \in Int
      BY KillStatusType, ProgramAssumption
    <2>2. PCBs' \in Tables
      BY <1>6, <2>1, TerminateType DEF proc_kill_pid, TypeOK
    <2>3. PCBs'[current] = PCBs[current]
      BY <1>6 DEF proc_kill_pid, terminate_proc, TypeOK
    <2>. QED
      BY <1>6, <2>2, <2>3, UserTypes DEF proc_kill_pid, TypeOK, CurrentRuns, Runnable
  <1>7. ASSUME NEW seconds \in SleepSeconds, proc_sleep_current(seconds)
        PROVE  TypeOK' /\ CurrentRuns'
    <2>1. now + seconds * TicksPerSec \in Nat
      BY ProgramAssumption, ClockAssumption DEF TypeOK
    <2>2. [PCBs EXCEPT ![current].sleep_deadline = now + seconds * TicksPerSec,
                       ![current].state = "SLEEPING"] \in Tables
      BY <2>1, ZenonT(60) DEF TypeOK, PCB, ProcStates
    <2>. QED
      BY <1>7, <2>2, ScheduleType, ScheduleRuns
      DEF proc_sleep_current, InApp, Unlooped, TypeOK
  <1>8. CASE sys_yield \/ timer_trap
    BY <1>8, ScheduleType, ScheduleRuns
    DEF sys_yield, timer_trap, InApp, Unlooped, TypeOK
  <1>9. CASE wait_yields
    <2>1. upc' \in [Pids -> UserPcs]
      BY <1>9 DEF wait_yields, TypeOK, UserPcs
    <2>. QED
      BY <1>9, <2>1, ScheduleType, ScheduleRuns DEF wait_yields, TypeOK
  <1>10. ASSUME NEW pid, wait_reaps(pid) PROVE TypeOK' /\ CurrentRuns'
    <2>1. PICK i \in Subs :
             /\ PCBs[current].sub_procs[i] \in Pids
             /\ PCBs[PCBs[current].sub_procs[i]].state = "ZOMBIE"
             /\ PCBs' = [PCBs EXCEPT ![current].sub_procs[i] = NoPid,
                                  ![PCBs[current].sub_procs[i]] = EmptyPCB]
      BY <1>10, ReapedEntry DEF wait_reaps
    <2>. DEFINE child == PCBs[current].sub_procs[i]
    <2>2. panic = "no" /\ child # current
      BY <1>10, <2>1 DEF wait_reaps, InWait, CurrentRuns, Runnable
    <2>3. [PCBs[current] EXCEPT !.sub_procs[i] = NoPid] \in PCB
      BY ZenonT(60) DEF TypeOK, PCB
    <2>. HIDE DEF child
    <2>4. PCBs' \in [Pids -> PCB]
      BY <2>1, <2>3, EmptyPCBType DEF TypeOK, child
    <2>5. Runnable(PCBs'[current])
      BY <2>1, <2>2, EmptyPCBType DEF TypeOK, PCB, CurrentRuns, Runnable, child
    <2>. QED
      BY <1>10, <2>4, <2>5, UserTypes DEF wait_reaps, TypeOK, CurrentRuns
  <1>11. ASSUME NEW pid \in Pids \cup {NoPid}, wait_blocks(pid)
         PROVE  TypeOK' /\ CurrentRuns'
    BY <1>11 DEF wait_blocks, TypeOK, UserPcs, CurrentRuns, Runnable
  <1>12. ASSUME NEW pid, wait_fails(pid) PROVE TypeOK' /\ CurrentRuns'
    BY <1>12, UserTypes DEF wait_fails, TypeOK, CurrentRuns, Runnable
  <1>13. CASE clock_ticks
    BY <1>13 DEF clock_ticks, TypeOK, CurrentRuns, Runnable, Unlooped
  <1>14. CASE panic_loop \/ UNCHANGED vars
    BY <1>14 DEF panic_loop, vars, TypeOK, CurrentRuns, Runnable
  <1>. QED
    BY <1>1, <1>2, <1>4, <1>5, <1>6, <1>7, <1>8, <1>9, <1>10, <1>11, <1>12,
       <1>13, <1>14 DEF Next, AppCall, Wait

\* At boot the first process is typed and runs.
LEMMA TypedAndRunningInit == Init => TypedAndRunning
  <1>. SUFFICES ASSUME Init PROVE TypedAndRunning
    OBVIOUS
  <1>1. [EmptyPCB EXCEPT !.cp = TRUE, !.state = "RUNNING"] \in PCB
    BY EmptyPCBType DEF PCB, ProcStates
  <1>2. 1 \in Pids
    BY TableAssumption
  <1>3. TypeOK
    BY <1>1, <1>2, EmptyPCBType DEF Init, TypeOK, PanicReasons, UserPcs
  <1>4. Runnable(PCBs[current])
    BY <1>2 DEF Init, Runnable, EmptyPCB
  <1>. QED
    BY <1>3, <1>4 DEF TypedAndRunning, CurrentRuns

\* The inductive invariant of the scheduler holds in every reachable state.
THEOREM TypedAndRunningInvariant == Spec => []TypedAndRunning
  BY TypedAndRunningInit, TypedAndRunningStep, PTL DEF Spec

\* The type invariant of the process table, for a table of any size.
THEOREM TypeCorrect == Spec => []TypeOK
  BY TypedAndRunningInvariant, PTL DEF TypedAndRunning

\* The kernel never returns from a trap into a process that is asleep, dead or
\* reaped: the scheduler's choice is runnable, and no system call takes that away.
THEOREM CurrentAlwaysRuns == Spec => []CurrentRuns
  BY TypedAndRunningInvariant, PTL DEF TypedAndRunning

-----------------------------------------------------------------------------
(* Parents and children.                                                   *)

\* Two tables with the same family ties.
SameTies(a, b) ==
    \A p \in Pids : /\ b[p].sub_procs = a[p].sub_procs
                    /\ b[p].parent_pid = a[p].parent_pid
                    /\ b[p].state = "EMPTY" <=> a[p].state = "EMPTY"

\* The fields of a slot have their types.
LEMMA SubProcsType ==
    ASSUME NEW pcbs \in Tables, NEW p \in Pids
    PROVE  /\ pcbs[p] \in PCB
           /\ pcbs[p].sub_procs \in [Subs -> Pids \cup {NoPid}]
           /\ pcbs[p].parent_pid \in Pids \cup {NoPid}
           /\ \A i \in Subs : pcbs[p].sub_procs[i] \in Pids \cup {NoPid}
  <1>1. pcbs[p] \in PCB
    BY DEF Tables
  <1>. QED
    BY <1>1 DEF PCB

\* Family depends only on the ties.
LEMMA FamilyOfSameTies ==
    ASSUME NEW a \in Tables, NEW b \in Tables, SameTies(a, b), Family(a)
    PROVE  Family(b)
  <1>. SUFFICES ASSUME NEW q \in Pids, NEW i \in Subs, b[q].sub_procs[i] # NoPid
                PROVE  LET c == b[q].sub_procs[i]
                       IN  /\ b[q].state # "EMPTY"
                           /\ b[c].state # "EMPTY"
                           /\ b[c].parent_pid = q
                           /\ \A j \in Subs : b[q].sub_procs[j] = c => j = i
    BY DEF Family
  <1>1. b[q].sub_procs = a[q].sub_procs
    BY DEF SameTies
  <1>2. a[q].sub_procs[i] \in Pids
    BY <1>1, SubProcsType
  <1>. QED
    BY <1>1, <1>2 DEF SameTies, Family

\* Dropping entries of sub_procs makes no cycle.
LEMMA AcyclicOfFewerTies ==
    ASSUME NEW a, NEW b, Acyclic(a),
           \A p \in Pids, c \in Pids : SlotsOf(b, p, c) \subseteq SlotsOf(a, p, c)
    PROVE  Acyclic(b)
  <1>. SUFFICES ASSUME NEW S \in (SUBSET Pids) \ {{}}
                PROVE  \E c \in S : \A p \in S : SlotsOf(b, p, c) = {}
    BY DEF Acyclic
  <1>1. PICK c \in S : \A p \in S : SlotsOf(a, p, c) = {}
    BY DEF Acyclic
  <1>. QED
    BY <1>1

\* Acyclic depends only on the ties.
LEMMA AcyclicOfSameTies ==
    ASSUME NEW a \in Tables, NEW b \in Tables, SameTies(a, b), Acyclic(a)
    PROVE  Acyclic(b)
  <1>1. \A p \in Pids, c \in Pids : SlotsOf(b, p, c) = SlotsOf(a, p, c)
    BY DEF SameTies, SlotsOf
  <1>. QED
    BY <1>1, AcyclicOfFewerTies

\* Waking sleepers touches neither the ties nor the dead.
LEMMA WakeKeepsTies ==
    ASSUME NEW pcbs \in Tables
    PROVE  /\ SameTies(pcbs, wake_sleepers(pcbs))
           /\ \A p \in Pids : pcbs[p].state # "SLEEPING" =>
                                wake_sleepers(pcbs)[p] = pcbs[p]
  <1>. SUFFICES ASSUME NEW p \in Pids
                PROVE  LET w == wake_sleepers(pcbs)[p]
                       IN  /\ w.sub_procs = pcbs[p].sub_procs
                           /\ w.parent_pid = pcbs[p].parent_pid
                           /\ w.state = "EMPTY" <=> pcbs[p].state = "EMPTY"
                           /\ pcbs[p].state # "SLEEPING" => w = pcbs[p]
    BY DEF SameTies
  <1>1. pcbs[p] \in PCB
    BY DEF Tables
  <1>. QED
    BY <1>1 DEF wake_sleepers, PCB

\* Somebody who lists c is its parent, so terminate_proc's test of one parent
\* finds out whether anybody lists c.
LEMMA UnlistedByAll ==
    ASSUME NEW pcbs \in Tables, Family(pcbs), NEW c \in Pids,
           ~Listed(pcbs, c)
    PROVE  \A p \in Pids, i \in Subs : pcbs[p].sub_procs[i] # c
  <1>. SUFFICES ASSUME NEW p \in Pids, NEW i \in Subs, pcbs[p].sub_procs[i] = c
                PROVE  FALSE
    OBVIOUS
  <1>1. c # NoPid
    BY TableAssumption
  <1>2. pcbs[c].parent_pid = p
    BY <1>1 DEF Family
  <1>3. i \in SlotsOf(pcbs, p, c)
    BY DEF SlotsOf
  <1>. QED
    BY <1>2, <1>3 DEF Listed, parent_has_child_pid

\* Ending a process keeps the family tree: only a listed process stays, as a
\* zombie, and no other slot changes.
LEMMA TerminateTies ==
    ASSUME NEW pcbs \in Tables, Family(pcbs), NEW p \in Pids, Live(pcbs[p]),
           NEW status \in Int
    PROVE  /\ Family(terminate_proc(pcbs, p, status))
           /\ Acyclic(pcbs) => Acyclic(terminate_proc(pcbs, p, status))
  <1>. DEFINE new == terminate_proc(pcbs, p, status)
  <1>0. new \in Tables
    BY TerminateType
  <1>1. CASE Listed(pcbs, p)
    <2>1. new = [pcbs EXCEPT ![p] = [@ EXCEPT !.cp = FALSE, !.state = "ZOMBIE",
                      !.exit_status = status, !.sleep_deadline = 0]]
      BY <1>1 DEF terminate_proc, Listed
    <2>2. pcbs[p] \in PCB /\ pcbs[p].state # "EMPTY"
      BY DEF Tables, Live
    <2>3. SameTies(pcbs, new)
      BY <2>1, <2>2 DEF SameTies, PCB, Tables
    <2>. QED
      BY <1>0, <2>3, FamilyOfSameTies, AcyclicOfSameTies
  <1>2. CASE ~Listed(pcbs, p)
    <2>1. new = [pcbs EXCEPT ![p] = EmptyPCB]
      BY <1>2 DEF terminate_proc, Listed
    <2>2. \A q \in Pids, i \in Subs : pcbs[q].sub_procs[i] # p
      BY <1>2, UnlistedByAll
    <2>3. \A q \in Pids : q # p => new[q] = pcbs[q]
      BY <2>1 DEF Tables
    <2>4. \A i \in Subs : new[p].sub_procs[i] = NoPid
      BY <2>1 DEF Tables, EmptyPCB
    <2>5. Family(new)
      <3>. SUFFICES ASSUME NEW q \in Pids, NEW i \in Subs,
                           new[q].sub_procs[i] # NoPid
                    PROVE  LET c == new[q].sub_procs[i]
                           IN  /\ new[q].state # "EMPTY"
                               /\ new[c].state # "EMPTY"
                               /\ new[c].parent_pid = q
                               /\ \A j \in Subs : new[q].sub_procs[j] = c => j = i
        BY DEF Family
      <3>. HIDE DEF new
      <3>1. new[q] = pcbs[q]
        BY <2>3, <2>4
      <3>2. pcbs[q].sub_procs[i] \in Pids
        BY <3>1, SubProcsType
      <3>3. new[pcbs[q].sub_procs[i]] = pcbs[pcbs[q].sub_procs[i]]
        BY <2>2, <2>3, <3>2
      <3>. QED
        BY <3>1, <3>3 DEF Family
    <2>6. \A q \in Pids, c \in Pids : SlotsOf(new, q, c) \subseteq SlotsOf(pcbs, q, c)
      <3>. HIDE DEF new
      <3>. QED
        BY <2>3, <2>4, TableAssumption DEF SlotsOf
    <2>7. Acyclic(pcbs) => Acyclic(new)
      BY <2>6, AcyclicOfFewerTies
    <2>. QED
      BY <2>5, <2>7
  <1>. QED
    BY <1>1, <1>2

\* fork adds one tie, to a slot nobody listed.
LEMMA ForkTies ==
    ASSUME TypeOK, Family(PCBs), current \in Pids, PCBs[current].state # "EMPTY",
           PCBs' \in Tables, ForkStep
    PROVE  Family(PCBs') /\ (Acyclic(PCBs) => Acyclic(PCBs'))
  <1>1. PICK child \in EmptySlots, entry \in SlotsOf(PCBs, current, NoPid) :
           PCBs' = [PCBs EXCEPT ![current].sub_procs[entry] = child,
                                ![child] = ForkedPCB(current)]
    BY DEF ForkStep
  <1>2. /\ child \in Pids /\ PCBs[child].state = "EMPTY" /\ child # current
        /\ entry \in Subs /\ PCBs[current].sub_procs[entry] = NoPid
    BY DEF EmptySlots, SlotsOf
  <1>3. PCBs \in Tables
    BY DEF TypeOK, Tables
  <1>4. \A q \in Pids, i \in Subs : PCBs[q].sub_procs[i] # child
    BY <1>2, TableAssumption DEF Family
  <1>5. PCBs'[child] = ForkedPCB(current)
    BY <1>1, <1>2, <1>3 DEF Tables
  <1>6. /\ PCBs'[child].state = "RUNNING" /\ PCBs'[child].parent_pid = current
        /\ \A i \in Subs : PCBs'[child].sub_procs[i] = NoPid
    BY <1>5 DEF ForkedPCB, EmptyPCB
  <1>7. /\ PCBs'[current].state = PCBs[current].state
        /\ PCBs'[current].parent_pid = PCBs[current].parent_pid
        /\ PCBs'[current].sub_procs =
             [PCBs[current].sub_procs EXCEPT ![entry] = child]
    <2>1. PCBs'[current] = [PCBs[current] EXCEPT !.sub_procs[entry] = child]
      BY <1>1, <1>2, <1>3 DEF Tables
    <2>. QED
      BY <2>1, <1>3, SubProcsType DEF PCB
  <1>8. \A q \in Pids \ {child, current} : PCBs'[q] = PCBs[q]
    BY <1>1, <1>2, <1>3 DEF Tables
  <1>9. PCBs'[current].sub_procs[entry] = child
    BY <1>2, <1>3, <1>7, SubProcsType
  <1>10. \A i \in Subs \ {entry} :
            PCBs'[current].sub_procs[i] = PCBs[current].sub_procs[i]
    BY <1>2, <1>3, <1>7, SubProcsType
  <1>11. Family(PCBs')
    <2>. SUFFICES ASSUME NEW q \in Pids, NEW i \in Subs,
                         PCBs'[q].sub_procs[i] # NoPid
                  PROVE  LET c == PCBs'[q].sub_procs[i]
                         IN  /\ PCBs'[q].state # "EMPTY"
                             /\ PCBs'[c].state # "EMPTY"
                             /\ PCBs'[c].parent_pid = q
                             /\ \A j \in Subs : PCBs'[q].sub_procs[j] = c => j = i
      BY DEF Family
    <2>1. CASE q = current /\ i = entry
      <3>1. \A j \in Subs : PCBs'[q].sub_procs[j] = child => j = i
        BY <2>1, <1>4, <1>10
      <3>. QED
        BY <2>1, <3>1, <1>2, <1>6, <1>7, <1>9
    <2>2. CASE q = current /\ i # entry
      <3>1. PCBs'[q].sub_procs[i] = PCBs[q].sub_procs[i]
        BY <2>2, <1>10
      <3>2. PCBs[q].sub_procs[i] \in Pids /\ PCBs[q].sub_procs[i] # child
        BY <3>1, <1>3, <1>4, SubProcsType
      <3>3. /\ PCBs[PCBs[q].sub_procs[i]].state # "EMPTY"
            /\ PCBs[PCBs[q].sub_procs[i]].parent_pid = q
            /\ \A j \in Subs : PCBs[q].sub_procs[j] = PCBs[q].sub_procs[i] => j = i
        BY <3>1 DEF Family
      <3>4. \A j \in Subs : PCBs'[q].sub_procs[j] = PCBs[q].sub_procs[i] => j = i
        BY <2>2, <3>2, <3>3, <1>9, <1>10
      <3>. QED
        BY <2>2, <3>1, <3>2, <3>3, <3>4, <1>7, <1>8
    <2>3. CASE q # current
      <3>1. q # child /\ PCBs'[q] = PCBs[q]
        BY <2>3, <1>6, <1>8
      <3>2. PCBs[q].sub_procs[i] \in Pids /\ PCBs[q].sub_procs[i] # child
        BY <3>1, <1>3, <1>4, SubProcsType
      <3>3. /\ PCBs[q].state # "EMPTY"
            /\ PCBs[PCBs[q].sub_procs[i]].state # "EMPTY"
            /\ PCBs[PCBs[q].sub_procs[i]].parent_pid = q
            /\ \A j \in Subs : PCBs[q].sub_procs[j] = PCBs[q].sub_procs[i] => j = i
        BY <3>1 DEF Family
      <3>. QED
        BY <3>1, <3>2, <3>3, <1>7, <1>8
    <2>. QED
      BY <2>1, <2>2, <2>3
  <1>12. ASSUME Acyclic(PCBs) PROVE Acyclic(PCBs')
    <2>. SUFFICES ASSUME NEW S \in (SUBSET Pids) \ {{}}
                  PROVE  \E c \in S : \A p \in S : SlotsOf(PCBs', p, c) = {}
      BY DEF Acyclic
    <2>1. \A p \in Pids, c \in Pids :
             c # child => SlotsOf(PCBs', p, c) \subseteq SlotsOf(PCBs, p, c)
      <3>. SUFFICES ASSUME NEW p \in Pids, NEW c \in Pids, c # child,
                           NEW i \in Subs, PCBs'[p].sub_procs[i] = c
                    PROVE  PCBs[p].sub_procs[i] = c
        BY DEF SlotsOf
      <3>. QED
        BY <1>6, <1>8, <1>9, <1>10, TableAssumption
    <2>2. CASE S = {child}
      BY <2>2, <1>2, <1>6, TableAssumption DEF SlotsOf
    <2>3. CASE S # {child}
      <3>1. S \ {child} \in (SUBSET Pids) \ {{}}
        BY <2>3
      <3>2. PICK c \in S \ {child} : \A p \in S \ {child} : SlotsOf(PCBs, p, c) = {}
        BY <1>12, <3>1 DEF Acyclic
      <3>3. SlotsOf(PCBs', child, c) = {}
        BY <1>6, TableAssumption DEF SlotsOf
      <3>. QED
        BY <2>1, <3>2, <3>3
    <2>. QED
      BY <2>2, <2>3
  <1>. QED
    BY <1>11, <1>12

\* Reaping removes the tie to the zombie together with the zombie.
LEMMA ReapTies ==
    ASSUME TypeOK, Family(PCBs), current \in Pids, PCBs[current].state # "ZOMBIE",
           PCBs' \in Tables, ReapStep
    PROVE  Family(PCBs') /\ (Acyclic(PCBs) => Acyclic(PCBs'))
  <1>1. PICK k \in Subs :
           /\ PCBs[current].sub_procs[k] \in Pids
           /\ PCBs[PCBs[current].sub_procs[k]].state = "ZOMBIE"
           /\ PCBs' = [PCBs EXCEPT ![current].sub_procs[k] = NoPid,
                                   ![PCBs[current].sub_procs[k]] = EmptyPCB]
    BY DEF ReapStep
  <1>. DEFINE child == PCBs[current].sub_procs[k]
  <1>2. child \in Pids /\ child # current /\ child # NoPid
    BY <1>1, TableAssumption
  <1>3. PCBs \in Tables
    BY DEF TypeOK, Tables
  <1>4. \A q \in Pids, i \in Subs :
           PCBs[q].sub_procs[i] = child => q = current /\ i = k
    BY <1>2 DEF Family
  <1>5. PCBs' = [PCBs EXCEPT ![current].sub_procs[k] = NoPid, ![child] = EmptyPCB]
    BY <1>1
  <1>. HIDE DEF child
  <1>6. \A i \in Subs : PCBs'[child].sub_procs[i] = NoPid
    BY <1>2, <1>3, <1>5 DEF Tables, EmptyPCB
  <1>7. /\ PCBs'[current].state = PCBs[current].state
        /\ PCBs'[current].parent_pid = PCBs[current].parent_pid
        /\ PCBs'[current].sub_procs = [PCBs[current].sub_procs EXCEPT ![k] = NoPid]
    <2>1. PCBs'[current] = [PCBs[current] EXCEPT !.sub_procs[k] = NoPid]
      BY <1>2, <1>3, <1>5 DEF Tables
    <2>. QED
      BY <2>1, <1>3, SubProcsType DEF PCB
  <1>8. \A q \in Pids \ {child, current} : PCBs'[q] = PCBs[q]
    BY <1>2, <1>3, <1>5 DEF Tables
  <1>9. PCBs'[current].sub_procs[k] = NoPid
    BY <1>3, <1>7, SubProcsType
  <1>10. \A i \in Subs \ {k} :
            PCBs'[current].sub_procs[i] = PCBs[current].sub_procs[i]
    BY <1>3, <1>7, SubProcsType
  \* An entry that is left is an old entry, and not one of the reaped child.
  <1>11. \A q \in Pids, i \in Subs : PCBs'[q].sub_procs[i] # NoPid =>
            /\ q # child
            /\ PCBs'[q].sub_procs[i] = PCBs[q].sub_procs[i]
            /\ PCBs[q].sub_procs[i] \in Pids \ {child}
    <2>. SUFFICES ASSUME NEW q \in Pids, NEW i \in Subs,
                         PCBs'[q].sub_procs[i] # NoPid
                  PROVE  /\ q # child
                         /\ PCBs'[q].sub_procs[i] = PCBs[q].sub_procs[i]
                         /\ PCBs[q].sub_procs[i] \in Pids \ {child}
      OBVIOUS
    <2>1. q # child /\ ~(q = current /\ i = k)
      BY <1>6, <1>9
    <2>2. PCBs'[q].sub_procs[i] = PCBs[q].sub_procs[i]
      BY <2>1, <1>8, <1>10
    <2>. QED
      BY <2>1, <2>2, <1>3, <1>4, SubProcsType
  <1>12. Family(PCBs')
    <2>. SUFFICES ASSUME NEW q \in Pids, NEW i \in Subs,
                         PCBs'[q].sub_procs[i] # NoPid
                  PROVE  LET c == PCBs'[q].sub_procs[i]
                         IN  /\ PCBs'[q].state # "EMPTY"
                             /\ PCBs'[c].state # "EMPTY"
                             /\ PCBs'[c].parent_pid = q
                             /\ \A j \in Subs : PCBs'[q].sub_procs[j] = c => j = i
      BY DEF Family
    <2>1. /\ q # child
          /\ PCBs'[q].sub_procs[i] = PCBs[q].sub_procs[i]
          /\ PCBs[q].sub_procs[i] \in Pids \ {child}
      BY <1>11
    <2>2. /\ PCBs[q].state # "EMPTY"
          /\ PCBs[PCBs[q].sub_procs[i]].state # "EMPTY"
          /\ PCBs[PCBs[q].sub_procs[i]].parent_pid = q
          /\ \A j \in Subs : PCBs[q].sub_procs[j] = PCBs[q].sub_procs[i] => j = i
      BY <2>1 DEF Family
    <2>3. \A j \in Subs : PCBs'[q].sub_procs[j] = PCBs[q].sub_procs[i] => j = i
      BY <1>11, <2>1, <2>2
    <2>. QED
      BY <2>1, <2>2, <2>3, <1>7, <1>8
  <1>13. \A q \in Pids, c \in Pids : SlotsOf(PCBs', q, c) \subseteq SlotsOf(PCBs, q, c)
    BY <1>11, TableAssumption DEF SlotsOf
  <1>14. Acyclic(PCBs) => Acyclic(PCBs')
    BY <1>13, AcyclicOfFewerTies
  <1>. QED
    BY <1>12, <1>14

\* Going to sleep changes no tie.
LEMMA SleepTies ==
    ASSUME TypeOK, NEW deadline \in Nat, PCBs[current].state # "EMPTY"
    PROVE  LET asleep == [PCBs EXCEPT ![current].sleep_deadline = deadline,
                                      ![current].state = "SLEEPING"]
           IN  asleep \in Tables /\ SameTies(PCBs, asleep)
  <1>. DEFINE asleep == [PCBs EXCEPT ![current].sleep_deadline = deadline,
                                     ![current].state = "SLEEPING"]
              pcb == [PCBs[current] EXCEPT !.sleep_deadline = deadline,
                                           !.state = "SLEEPING"]
  <1>1. PCBs \in Tables /\ current \in Pids /\ PCBs[current] \in PCB
    BY DEF TypeOK, Tables
  <1>2. asleep = [PCBs EXCEPT ![current] = pcb]
    BY <1>1 DEF Tables
  <1>3. /\ pcb \in PCB
        /\ pcb.sub_procs = PCBs[current].sub_procs
        /\ pcb.parent_pid = PCBs[current].parent_pid
        /\ pcb.state # "EMPTY"
    BY <1>1 DEF PCB, ProcStates
  <1>. HIDE DEF pcb
  <1>. QED
    BY <1>1, <1>2, <1>3 DEF Tables, SameTies

FamilyInv == Family(PCBs) /\ Acyclic(PCBs)

\* Every step keeps the family tree.
LEMMA FamilyStep ==
    TypedAndRunning /\ TypedAndRunning' /\ FamilyInv /\ [Next]_vars => FamilyInv'
  <1>. SUFFICES ASSUME TypeOK, CurrentRuns, TypeOK', FamilyInv, [Next]_vars
                PROVE  Family(PCBs') /\ Acyclic(PCBs')
    BY DEF TypedAndRunning, FamilyInv
  <1>1. PCBs \in Tables /\ PCBs' \in Tables /\ current \in Pids
    BY DEF TypeOK, Tables
  <1>2. panic = "no" => PCBs[current].state = "RUNNING"
    BY DEF CurrentRuns, Runnable
  <1>3. CASE PCBs' = PCBs
    BY <1>3 DEF FamilyInv
  \* Waking sleepers after anything that kept the ties in order.
  <1>4. ASSUME NEW pcbs \in Tables, Family(pcbs), Acyclic(pcbs),
               PCBs' = wake_sleepers(pcbs)
        PROVE  Family(PCBs') /\ Acyclic(PCBs')
    BY <1>4, WakeType, WakeKeepsTies, FamilyOfSameTies, AcyclicOfSameTies
  <1>5. CASE PCBs' = wake_sleepers(PCBs)
    BY <1>1, <1>4, <1>5 DEF FamilyInv
  <1>6. CASE panic = "no" /\ ForkStep
    BY <1>1, <1>2, <1>6, ForkTies DEF FamilyInv
  <1>7. CASE panic = "no" /\ ReapStep
    BY <1>1, <1>2, <1>7, ReapTies DEF FamilyInv
  <1>8. CASE panic = "no" /\ TerminateStep
    <2>1. PICK p \in Pids, status \in Int :
             /\ Live(PCBs[p])
             /\ \/ PCBs' = wake_sleepers(terminate_proc(PCBs, p, status))
                \/ PCBs' = terminate_proc(PCBs, p, status)
      BY <1>8 DEF TerminateStep
    <2>2. LET new == terminate_proc(PCBs, p, status)
          IN  new \in Tables /\ Family(new) /\ Acyclic(new)
      BY <1>1, <2>1, TerminateType, TerminateTies DEF FamilyInv
    <2>. QED
      BY <1>4, <2>1, <2>2
  <1>9. CASE panic = "no" /\ SleepStep
    <2>1. PICK deadline \in Nat :
             PCBs' = wake_sleepers([PCBs EXCEPT
                        ![current].sleep_deadline = deadline,
                        ![current].state = "SLEEPING"])
      BY <1>9 DEF SleepStep
    <2>. DEFINE asleep == [PCBs EXCEPT ![current].sleep_deadline = deadline,
                                       ![current].state = "SLEEPING"]
    <2>2. asleep \in Tables /\ SameTies(PCBs, asleep)
      BY <1>2, <1>9, SleepTies
    <2>3. Family(asleep) /\ Acyclic(asleep)
      BY <1>1, <2>2, FamilyOfSameTies, AcyclicOfSameTies DEF FamilyInv
    <2>. QED
      BY <1>4, <2>1, <2>2, <2>3
  <1>. QED
    BY <1>3, <1>5, <1>6, <1>7, <1>8, <1>9, StepsOfTheTable DEF TableStep

\* At boot nobody has a child.
LEMMA FamilyInit == Init => FamilyInv
  <1>. SUFFICES ASSUME Init PROVE Family(PCBs) /\ Acyclic(PCBs)
    BY DEF FamilyInv
  <1>1. \A p \in Pids, i \in Subs : PCBs[p].sub_procs[i] = NoPid
    BY DEF Init, EmptyPCB
  <1>2. \A p \in Pids, c \in Pids : SlotsOf(PCBs, p, c) = {}
    BY <1>1, TableAssumption DEF SlotsOf
  <1>3. Family(PCBs)
    BY <1>1 DEF Family
  <1>4. Acyclic(PCBs)
    <2>. SUFFICES ASSUME NEW S \in (SUBSET Pids) \ {{}}
                  PROVE  \E c \in S : \A p \in S : SlotsOf(PCBs, p, c) = {}
      BY DEF Acyclic
    <2>. PICK c : c \in S
      OBVIOUS
    <2>. QED
      BY <1>2
  <1>. QED
    BY <1>3, <1>4

\* The inductive invariant of the process tree holds in every reachable state.
THEOREM FamilyInvariant == Spec => []FamilyInv
  BY FamilyInit, FamilyStep, TypedAndRunningInvariant, PTL DEF Spec

\* Slots are reused, but never while somebody's sub_procs still names them: a
\* listed pid is always the child its lister forked.
THEOREM FamilyAlwaysConsistent == Spec => []FamilyConsistent
  BY FamilyInvariant, PTL DEF FamilyInv, FamilyConsistent

\* No process is its own descendant, for any number of slots.
THEOREM FamilyAlwaysAcyclic == Spec => []FamilyAcyclic
  BY FamilyInvariant, PTL DEF FamilyInv, FamilyAcyclic

\* Both together: parents and children agree and form a forest, for any sequence of
\* fork, exit, kill and wait.
THEOREM FamilyAlwaysSound == Spec => []FamilySound
  BY FamilyAlwaysConsistent, FamilyAlwaysAcyclic, PTL DEF FamilySound

-----------------------------------------------------------------------------
(* The dead.                                                               *)

\* What one step may do to slot q: add only children from empty slots, drop a
\* child only by emptying q or the child, and touch a zombie only to let the
\* parent that lists it reap it.
SlotStep(q) ==
    /\ \A i \in Subs : PCBs'[q].sub_procs[i]
                         \in {NoPid, PCBs[q].sub_procs[i]} \cup EmptySlots
    /\ \/ PCBs'[q] = EmptyPCB
       \/ \A i \in Subs : PCBs[q].sub_procs[i] \in Pids =>
            \/ PCBs'[q].sub_procs[i] = PCBs[q].sub_procs[i]
            \/ PCBs'[PCBs[q].sub_procs[i]] = EmptyPCB
    /\ PCBs[q].state = "ZOMBIE" =>
         \/ PCBs'[q] = PCBs[q]
         \/ /\ PCBs'[q] = EmptyPCB
            /\ current = PCBs[q].parent_pid
            /\ Listed(PCBs, q)

\* An emptied slot lists no child.
LEMMA EmptyFields ==
    EmptyPCB.state = "EMPTY" /\ \A i \in Subs : EmptyPCB.sub_procs[i] = NoPid
  BY DEF EmptyPCB

\* Waking sleepers after a change of the slot is still one step of the slot.
LEMMA SlotStepOfWake ==
    ASSUME NEW q \in Pids, NEW pcbs \in Tables, PCBs' = wake_sleepers(pcbs),
           \/ pcbs[q] = EmptyPCB /\ PCBs[q].state # "ZOMBIE"
           \/ /\ pcbs[q].sub_procs = PCBs[q].sub_procs
              /\ PCBs[q].state = "ZOMBIE" => pcbs[q] = PCBs[q]
    PROVE  SlotStep(q)
  <1>1. PCBs'[q].sub_procs = pcbs[q].sub_procs
    BY WakeKeepsTies DEF SameTies
  <1>2. pcbs[q].state # "SLEEPING" => PCBs'[q] = pcbs[q]
    BY WakeKeepsTies
  <1>3. CASE pcbs[q] = EmptyPCB /\ PCBs[q].state # "ZOMBIE"
    BY <1>2, <1>3, EmptyFields DEF SlotStep
  <1>4. CASE /\ pcbs[q].sub_procs = PCBs[q].sub_procs
             /\ PCBs[q].state = "ZOMBIE" => pcbs[q] = PCBs[q]
    BY <1>1, <1>2, <1>4 DEF SlotStep
  <1>. QED
    BY <1>3, <1>4

\* Ending a process touches no other slot.
LEMMA TerminateSlot ==
    ASSUME NEW pcbs \in Tables, NEW p \in Pids, NEW status \in Int, NEW q \in Pids
    PROVE  LET new == terminate_proc(pcbs, p, status)
           IN  IF q = p THEN new[q] = EmptyPCB \/ new[q].sub_procs = pcbs[q].sub_procs
                        ELSE new[q] = pcbs[q]
  <1>1. pcbs[p] \in PCB
    BY DEF Tables
  <1>. QED
    BY <1>1 DEF terminate_proc, Tables, PCB

\* Every step of the system is, for each slot, one of the steps SlotStep lists.
LEMMA SlotSteps ==
    ASSUME TypeOK, CurrentRuns, Family(PCBs), [Next]_vars, NEW q \in Pids
    PROVE  SlotStep(q)
  <1>1. PCBs \in Tables /\ current \in Pids /\ PCBs[q] \in PCB
    BY DEF TypeOK, Tables
  <1>2. panic = "no" => PCBs[current].state = "RUNNING"
    BY DEF CurrentRuns, Runnable
  <1>3. CASE PCBs' = PCBs
    BY <1>3 DEF SlotStep
  <1>4. CASE PCBs' = wake_sleepers(PCBs)
    BY <1>1, <1>4, SlotStepOfWake
  <1>5. CASE panic = "no" /\ ForkStep
    <2>1. PICK child \in EmptySlots, entry \in SlotsOf(PCBs, current, NoPid) :
             PCBs' = [PCBs EXCEPT ![current].sub_procs[entry] = child,
                                  ![child] = ForkedPCB(current)]
      BY <1>5 DEF ForkStep
    <2>2. /\ child \in Pids /\ PCBs[child].state = "EMPTY" /\ child # current
          /\ entry \in Subs /\ PCBs[current].sub_procs[entry] = NoPid
      BY <1>2, <1>5 DEF EmptySlots, SlotsOf
    <2>3. CASE q = child
      <3>1. \A i \in Subs : PCBs[q].sub_procs[i] = NoPid
        BY <1>1, <2>2, <2>3, SubProcsType DEF Family
      <3>2. PCBs'[q] = ForkedPCB(current)
        BY <1>1, <2>1, <2>2, <2>3 DEF Tables
      <3>. QED
        BY <2>2, <2>3, <3>1, <3>2, TableAssumption DEF SlotStep, ForkedPCB, EmptyPCB
    <2>4. CASE q = current
      <3>1. PCBs'[q] = [PCBs[q] EXCEPT !.sub_procs[entry] = child]
        BY <1>1, <2>1, <2>2, <2>4 DEF Tables
      <3>2. PCBs'[q].sub_procs = [PCBs[q].sub_procs EXCEPT ![entry] = child]
        BY <1>1, <3>1 DEF PCB
      <3>. QED
        BY <1>1, <1>2, <1>5, <2>2, <2>4, <3>2, SubProcsType, TableAssumption
        DEF SlotStep
    <2>5. CASE q # child /\ q # current
      <3>1. PCBs'[q] = PCBs[q]
        BY <1>1, <2>1, <2>2, <2>5 DEF Tables
      <3>. QED
        BY <3>1 DEF SlotStep
    <2>. QED
      BY <2>3, <2>4, <2>5
  <1>6. CASE panic = "no" /\ TerminateStep
    <2>1. PICK p \in Pids, status \in Int :
             /\ Live(PCBs[p])
             /\ \/ PCBs' = wake_sleepers(terminate_proc(PCBs, p, status))
                \/ PCBs' = terminate_proc(PCBs, p, status)
      BY <1>6 DEF TerminateStep
    <2>. DEFINE new == terminate_proc(PCBs, p, status)
    <2>2. new \in Tables
      BY <1>1, TerminateType
    <2>3. PCBs[p].state # "ZOMBIE"
      BY <2>1 DEF Live
    <2>4. \/ new[q] = EmptyPCB /\ PCBs[q].state # "ZOMBIE"
          \/ /\ new[q].sub_procs = PCBs[q].sub_procs
             /\ PCBs[q].state = "ZOMBIE" => new[q] = PCBs[q]
      BY <1>1, <2>3, TerminateSlot
    <2>. HIDE DEF new
    <2>5. CASE PCBs' = wake_sleepers(new)
      BY <2>2, <2>4, <2>5, SlotStepOfWake
    <2>6. CASE PCBs' = new
      BY <2>4, <2>6, EmptyFields DEF SlotStep
    <2>. QED
      BY <2>1, <2>5, <2>6 DEF new
  <1>7. CASE panic = "no" /\ SleepStep
    <2>1. PICK deadline \in Nat :
             PCBs' = wake_sleepers([PCBs EXCEPT
                        ![current].sleep_deadline = deadline,
                        ![current].state = "SLEEPING"])
      BY <1>7 DEF SleepStep
    <2>. DEFINE asleep == [PCBs EXCEPT ![current].sleep_deadline = deadline,
                                       ![current].state = "SLEEPING"]
    <2>2. asleep \in Tables /\ asleep[q].sub_procs = PCBs[q].sub_procs
      BY <1>2, <1>7, SleepTies DEF SameTies
    <2>3. q # current => asleep[q] = PCBs[q]
      BY <1>1 DEF Tables
    <2>. HIDE DEF asleep
    <2>4. PCBs' = wake_sleepers(asleep)
      BY <2>1 DEF asleep
    <2>. QED
      BY <1>2, <1>7, <2>2, <2>3, <2>4, SlotStepOfWake
  <1>8. CASE panic = "no" /\ ReapStep
    <2>1. PICK k \in Subs :
             /\ PCBs[current].sub_procs[k] \in Pids
             /\ PCBs[PCBs[current].sub_procs[k]].state = "ZOMBIE"
             /\ PCBs' = [PCBs EXCEPT ![current].sub_procs[k] = NoPid,
                                     ![PCBs[current].sub_procs[k]] = EmptyPCB]
      BY <1>8 DEF ReapStep
    <2>. DEFINE child == PCBs[current].sub_procs[k]
    <2>2. child \in Pids /\ child # current /\ child # NoPid
      BY <1>2, <1>8, <2>1, TableAssumption
    <2>3. PCBs[child].parent_pid = current
      BY <1>1, <2>2 DEF Family
    <2>4. Listed(PCBs, child)
      BY <1>1, <2>3 DEF Listed, parent_has_child_pid, SlotsOf
    <2>5. PCBs' = [PCBs EXCEPT ![current].sub_procs[k] = NoPid, ![child] = EmptyPCB]
      BY <2>1
    <2>6. PCBs'[child] = EmptyPCB
      BY <1>1, <2>2, <2>5 DEF Tables
    <2>7. CASE q = child
      <3>. HIDE DEF child
      <3>. QED
        BY <2>3, <2>4, <2>6, <2>7, EmptyFields DEF SlotStep
    <2>8. CASE q = current
      <3>1. child = PCBs[q].sub_procs[k]
        BY <2>8
      <3>. HIDE DEF child
      <3>2. PCBs'[q] = [PCBs[q] EXCEPT !.sub_procs[k] = NoPid]
        BY <1>1, <2>2, <2>5, <2>8 DEF Tables
      <3>3. PCBs'[q].sub_procs = [PCBs[q].sub_procs EXCEPT ![k] = NoPid]
        BY <1>1, <3>2 DEF PCB
      <3>4. \A i \in Subs : PCBs'[q].sub_procs[i] =
                              IF i = k THEN NoPid ELSE PCBs[q].sub_procs[i]
        BY <1>1, <3>3, SubProcsType
      <3>. QED
        BY <1>2, <1>8, <2>6, <2>8, <3>1, <3>4 DEF SlotStep
    <2>9. CASE q # child /\ q # current
      <3>. HIDE DEF child
      <3>1. PCBs'[q] = PCBs[q]
        BY <1>1, <2>2, <2>5, <2>9 DEF Tables
      <3>. QED
        BY <3>1 DEF SlotStep
    <2>. QED
      BY <2>7, <2>8, <2>9
  <1>. QED
    BY <1>3, <1>4, <1>5, <1>6, <1>7, <1>8, StepsOfTheTable DEF TableStep

\* The step that ZombieKept allows.
LEMMA ZombieKeptStep ==
    ASSUME TypeOK, CurrentRuns, Family(PCBs), [Next]_vars, NEW p \in Pids,
           PCBs[p].state = "ZOMBIE"
    PROVE  \/ PCBs'[p] = PCBs[p]
           \/ /\ PCBs'[p] = EmptyPCB
              /\ current = PCBs[p].parent_pid
              /\ Listed(PCBs, p)
  BY SlotSteps DEF SlotStep

\* A listed zombie stays listed until it is reaped or its parent's slot is
\* emptied; an unlisted one stays a zombie for ever.
LEMMA ZombieLostStep ==
    ASSUME TypeOK, CurrentRuns, Family(PCBs), [Next]_vars, NEW p \in Pids,
           PCBs[p].state = "ZOMBIE"
    PROVE  IF Listed(PCBs, p)
           THEN \/ PCBs'[p].state = "EMPTY"
                \/ Listed(PCBs', p)
                \/ PCBs'[PCBs[p].parent_pid] = EmptyPCB
           ELSE PCBs'[p].state = "ZOMBIE" /\ ~Listed(PCBs', p)
  <1>. DEFINE q == PCBs[p].parent_pid
  <1>1. PCBs \in Tables
    BY DEF TypeOK, Tables
  <1>2. CASE Listed(PCBs, p)
    <2>1. q \in Pids /\ SlotsOf(PCBs, q, p) # {}
      BY <1>2 DEF Listed, parent_has_child_pid
    <2>2. PICK i \in Subs : PCBs[q].sub_procs[i] = p
      BY <2>1 DEF SlotsOf
    <2>3. CASE PCBs'[p] = EmptyPCB
      BY <1>2, <2>3 DEF EmptyPCB
    <2>4. CASE PCBs'[p] # EmptyPCB /\ PCBs'[q] # EmptyPCB
      <3>1. PCBs'[p] = PCBs[p]
        BY <2>4, ZombieKeptStep
      <3>2. PCBs'[q].sub_procs[i] = p
        BY <2>1, <2>2, <2>4, SlotSteps DEF SlotStep
      <3>. QED
        BY <1>2, <2>1, <3>1, <3>2 DEF Listed, parent_has_child_pid, SlotsOf
    <2>. QED
      BY <1>2, <2>3, <2>4
  <1>3. CASE ~Listed(PCBs, p)
    <2>1. PCBs'[p] = PCBs[p]
      BY <1>3, ZombieKeptStep
    <2>2. \A i \in Subs : q \in Pids => PCBs[q].sub_procs[i] # p
      BY <1>1, <1>3, UnlistedByAll
    <2>3. p \notin EmptySlots /\ p # NoPid
      BY TableAssumption DEF EmptySlots
    <2>4. \A i \in Subs : q \in Pids => PCBs'[q].sub_procs[i] # p
      BY <2>2, <2>3, SlotSteps DEF SlotStep
    <2>5. ~Listed(PCBs', p)
      BY <2>1, <2>4 DEF Listed, parent_has_child_pid, SlotsOf
    <2>. QED
      BY <1>3, <2>1, <2>5
  <1>. QED
    BY <1>2, <1>3

\* An exit status waits for the parent that lists the zombie, and for nobody
\* else, whatever the other processes do meanwhile.
THEOREM ZombieAlwaysKept == Spec => ZombieKept
  <1>1. TypedAndRunning /\ FamilyInv /\ [Next]_vars =>
          [\A p \in Pids : PCBs[p].state = "ZOMBIE" =>
             \/ PCBs'[p] = PCBs[p]
             \/ /\ PCBs'[p] = EmptyPCB
                /\ current = PCBs[p].parent_pid
                /\ Listed(PCBs, p)]_vars
    BY ZombieKeptStep DEF TypedAndRunning, FamilyInv
  <1>. QED
    BY <1>1, TypedAndRunningInvariant, FamilyInvariant, PTL DEF Spec, ZombieKept

\* A zombie whose parent's slot was freed first keeps its own slot for ever: the
\* table loses that slot, for any number of processes.
THEOREM LostZombieStaysLost == Spec => ZombieLostForEver
  <1>1. TypedAndRunning /\ FamilyInv /\ [Next]_vars =>
          [\A p \in Pids : PCBs[p].state = "ZOMBIE" =>
             IF Listed(PCBs, p)
             THEN \/ PCBs'[p].state = "EMPTY"
                  \/ Listed(PCBs', p)
                  \/ PCBs'[PCBs[p].parent_pid] = EmptyPCB
             ELSE PCBs'[p].state = "ZOMBIE" /\ ~Listed(PCBs', p)]_vars
    BY ZombieLostStep DEF TypedAndRunning, FamilyInv
  <1>. QED
    BY <1>1, TypedAndRunningInvariant, FamilyInvariant, PTL
    DEF Spec, ZombieLostForEver

-----------------------------------------------------------------------------
(* Contexts, deadlines and the idle panic.                                 *)

\* The round robin looks at every slot of the table.
LEMMA TurnCoversTable ==
    ASSUME current \in Pids, NEW p \in Pids
    PROVE  \E i \in Pids : turn(i) = p
  <1>. DEFINE i == IF p > current THEN p - current ELSE p - current + MaxProcs
              x == current - 1 + i
  <1>1. MaxProcs \in Nat /\ MaxProcs > 0 /\ i \in Pids /\ x \in Nat
    BY TableAssumption
  <1>2. p > current => x = p - 1 /\ x < MaxProcs
    BY <1>1
  <1>3. ~(p > current) => x = p - 1 + MaxProcs
    BY <1>1
  <1>4. p > current => x % MaxProcs = p - 1
    BY <1>1, <1>2
  <1>5. ~(p > current) => x % MaxProcs = p - 1
    <2>. HIDE DEF x
    <2>1. p - 1 \in 0..(MaxProcs - 1)
      BY <1>1
    <2>. QED
      BY <1>1, <1>3, <2>1
  <1>6. (x % MaxProcs) + 1 = p
    BY <1>1, <1>4, <1>5
  <1>7. turn(i) = p
    BY <1>6 DEF turn
  <1>. HIDE DEF i
  <1>. QED
    BY <1>1, <1>7

\* A context exactly for the live, and a deadline for every sleeper.
Contexts(pcbs) ==
    \A p \in Pids : /\ pcbs[p].cp <=> Live(pcbs[p])
                    /\ pcbs[p].state = "SLEEPING" => pcbs[p].sleep_deadline # 0

SchedInv == Contexts(PCBs) /\ IdlePanicJustified

\* Waking sleepers keeps contexts and deadlines.
LEMMA WakeContexts ==
    ASSUME NEW pcbs \in Tables, Contexts(pcbs)
    PROVE  Contexts(wake_sleepers(pcbs))
  <1>. SUFFICES ASSUME NEW p \in Pids
                PROVE  LET w == wake_sleepers(pcbs)[p]
                       IN  /\ w.cp <=> Live(w)
                           /\ w.state = "SLEEPING" => w.sleep_deadline # 0
    BY DEF Contexts
  <1>1. pcbs[p] \in PCB
    BY DEF Tables
  <1>. QED
    BY <1>1 DEF Contexts, wake_sleepers, PCB, Live

\* Ending a process frees its context with it.
LEMMA TerminateContexts ==
    ASSUME NEW pcbs \in Tables, Contexts(pcbs), NEW p \in Pids, NEW status \in Int
    PROVE  Contexts(terminate_proc(pcbs, p, status))
  <1>1. pcbs[p] \in PCB
    BY DEF Tables
  <1>. QED
    BY <1>1 DEF Contexts, terminate_proc, Tables, PCB, Live, EmptyPCB

\* A forked child has a context and runs.
LEMMA ForkContexts ==
    ASSUME TypeOK, Contexts(PCBs), NEW child \in EmptySlots, NEW entry \in Subs,
           child # current,
           PCBs' = [PCBs EXCEPT ![current].sub_procs[entry] = child,
                                ![child] = ForkedPCB(current)]
    PROVE  Contexts(PCBs')
  <1>1. PCBs[current] \in PCB /\ child \in Pids
    BY DEF TypeOK, EmptySlots
  <1>2. PCBs'[child].cp /\ PCBs'[child].state = "RUNNING"
    BY <1>1 DEF TypeOK, ForkedPCB, EmptyPCB
  <1>3. \A p \in Pids \ {child} : /\ PCBs'[p].cp = PCBs[p].cp
                                  /\ PCBs'[p].state = PCBs[p].state
                                  /\ PCBs'[p].sleep_deadline = PCBs[p].sleep_deadline
    BY <1>1 DEF TypeOK, PCB
  <1>. SUFFICES ASSUME NEW p \in Pids
                PROVE  /\ PCBs'[p].cp <=> Live(PCBs'[p])
                       /\ PCBs'[p].state = "SLEEPING" => PCBs'[p].sleep_deadline # 0
    BY DEF Contexts
  <1>4. CASE p = child
    BY <1>2, <1>4 DEF Live
  <1>5. CASE p # child
    BY <1>3, <1>5 DEF Contexts, Live
  <1>. QED
    BY <1>4, <1>5

\* A sleeper with a deadline other than zero keeps its context.
LEMMA SleepContexts ==
    ASSUME TypeOK, Contexts(PCBs), PCBs[current].cp, NEW deadline \in Nat \ {0}
    PROVE  Contexts([PCBs EXCEPT ![current].sleep_deadline = deadline,
                                 ![current].state = "SLEEPING"])
  <1>1. PCBs[current] \in PCB /\ current \in Pids
    BY DEF TypeOK
  <1>. QED
    BY <1>1 DEF TypeOK, Contexts, PCB, Live

\* Reaping empties a slot that has no context.
LEMMA ReapContexts ==
    ASSUME TypeOK, Contexts(PCBs), NEW k \in Subs, NEW child \in Pids,
           child # current
    PROVE  Contexts([PCBs EXCEPT ![current].sub_procs[k] = NoPid,
                                 ![child] = EmptyPCB])
  <1>1. PCBs[current] \in PCB /\ current \in Pids
    BY DEF TypeOK
  <1>. QED
    BY <1>1 DEF TypeOK, Contexts, PCB, Live, EmptyPCB

\* schedule() gives up only after it has looked at every slot, and after it has
\* woken everybody whose time has come.
LEMMA ScheduleJustified ==
    ASSUME NEW pcbs \in Tables, Contexts(pcbs), current \in Pids, panic = "no",
           now \in Nat, now' = now, schedule(pcbs)
    PROVE  Contexts(PCBs') /\ IdlePanicJustified'
  <1>. DEFINE woken == wake_sleepers(pcbs)
  <1>1. PCBs' = woken /\ Contexts(woken) /\ woken \in Tables
    BY WakeContexts, WakeType DEF schedule
  <1>2. ASSUME panic' = "no runnable process", NEW p \in Pids
        PROVE  ~Runnable(woken[p])
    <2>1. ReadyTurns(woken) = {}
      BY <1>2 DEF schedule
    <2>2. PICK i \in Pids : turn(i) = p
      BY TurnCoversTable
    <2>. QED
      BY <2>1, <2>2 DEF ReadyTurns
  <1>3. ASSUME NEW p \in Pids, woken[p].state = "SLEEPING"
        PROVE  now < woken[p].sleep_deadline
    <2>1. pcbs[p] \in PCB
      BY DEF Tables
    <2>2. pcbs[p].state = "SLEEPING" /\ woken[p] = pcbs[p]
      BY <1>3, <2>1 DEF wake_sleepers, PCB
    <2>3. pcbs[p].sleep_deadline # 0 /\ ~(now >= pcbs[p].sleep_deadline)
      BY <1>3, <2>1, <2>2 DEF wake_sleepers, PCB, Contexts
    <2>. QED
      BY <2>1, <2>2, <2>3 DEF PCB
  <1>. QED
    BY <1>1, <1>2, <1>3 DEF IdlePanicJustified

\* Every step keeps the scheduler's invariant.
LEMMA SchedStep == TypedAndRunning /\ SchedInv /\ [Next]_vars => SchedInv'
  <1>. SUFFICES ASSUME TypeOK, CurrentRuns, Contexts(PCBs), IdlePanicJustified,
                       [Next]_vars
                PROVE  Contexts(PCBs') /\ IdlePanicJustified'
    BY DEF TypedAndRunning, SchedInv
  <1>0. PCBs \in Tables /\ current \in Pids /\ now \in Nat
    BY DEF TypeOK, Tables
  <1>1. panic = "no" => /\ PCBs[current].state = "RUNNING"
                        /\ PCBs[current].cp
    BY DEF CurrentRuns, Runnable
  <1>2. CASE proc_fork_current
    <2>1. PICK child \in EmptySlots, entry \in SlotsOf(PCBs, current, NoPid) :
             PCBs' = [PCBs EXCEPT ![current].sub_procs[entry] = child,
                                  ![child] = ForkedPCB(current)]
      BY <1>2, ForkType DEF proc_fork_current
    <2>2. child # current /\ entry \in Subs /\ panic' = "no"
      BY <1>1, <1>2 DEF proc_fork_current, InApp, EmptySlots, SlotsOf
    <2>. QED
      BY <2>1, <2>2, ForkContexts DEF IdlePanicJustified
  <1>3. CASE ForkPanics \/ ExecPanics
    BY <1>3 DEF ForkPanics, ExecPanics, IdlePanicJustified, Contexts
  <1>4. ASSUME NEW status \in Int, panic = "no", now' = now,
               schedule(terminate_proc(PCBs, current, status))
        PROVE  Contexts(PCBs') /\ IdlePanicJustified'
    BY <1>0, <1>4, TerminateType, TerminateContexts, ScheduleJustified
  <1>5. ASSUME NEW status \in ExitCodes, sys_exit(status)
        PROVE  Contexts(PCBs') /\ IdlePanicJustified'
    BY <1>4, <1>5, ProgramAssumption DEF sys_exit, InApp
  <1>6. ASSUME NEW sig \in Signals, proc_kill_self(sig)
        PROVE  Contexts(PCBs') /\ IdlePanicJustified'
    BY <1>4, <1>6, KillStatusType, ProgramAssumption DEF proc_kill_self, InApp
  <1>7. ASSUME NEW pid \in Pids, NEW sig \in Signals, proc_kill_pid(pid, sig)
        PROVE  Contexts(PCBs') /\ IdlePanicJustified'
    <2>1. kill_status(sig) \in Int
      BY KillStatusType, ProgramAssumption
    <2>. QED
      BY <1>0, <1>7, <2>1, TerminateContexts
      DEF proc_kill_pid, InApp, IdlePanicJustified
  <1>8. ASSUME NEW seconds \in SleepSeconds, proc_sleep_current(seconds)
        PROVE  Contexts(PCBs') /\ IdlePanicJustified'
    <2>. DEFINE deadline == now + seconds * TicksPerSec
                asleep == [PCBs EXCEPT ![current].sleep_deadline = deadline,
                                       ![current].state = "SLEEPING"]
    <2>1. seconds \in Nat \ {0} /\ TicksPerSec \in Nat \ {0}
      BY <1>8, ProgramAssumption, ClockAssumption DEF proc_sleep_current
    <2>2. seconds * TicksPerSec \in Nat \ {0}
      BY <2>1
    <2>3. deadline \in Nat \ {0}
      BY <1>0, <2>2
    <2>4. panic = "no" /\ schedule(asleep) /\ now' = now
      BY <1>8 DEF proc_sleep_current, InApp
    <2>. HIDE DEF deadline
    <2>5. Contexts(asleep)
      BY <1>1, <2>3, <2>4, SleepContexts
    <2>6. asleep \in Tables
      BY <1>1, <2>3, <2>4, SleepTies
    <2>. HIDE DEF asleep
    <2>. QED
      BY <1>0, <2>4, <2>5, <2>6, ScheduleJustified
  <1>9. CASE sys_yield \/ wait_yields \/ timer_trap
    BY <1>0, <1>9, ScheduleJustified DEF sys_yield, wait_yields, timer_trap, InApp
  <1>10. ASSUME NEW pid, wait_reaps(pid)
         PROVE  Contexts(PCBs') /\ IdlePanicJustified'
    <2>1. PICK k \in Subs :
             /\ PCBs[current].sub_procs[k] \in Pids
             /\ PCBs[PCBs[current].sub_procs[k]].state = "ZOMBIE"
             /\ PCBs' = [PCBs EXCEPT ![current].sub_procs[k] = NoPid,
                                     ![PCBs[current].sub_procs[k]] = EmptyPCB]
      BY <1>10, ReapedEntry DEF wait_reaps
    <2>2. panic' = "no" /\ panic = "no"
      BY <1>10 DEF wait_reaps, InWait
    <2>. QED
      BY <1>1, <2>1, <2>2, ReapContexts DEF IdlePanicJustified
  <1>11. ASSUME NEW pid, wait_blocks(pid) \/ wait_fails(pid)
         PROVE  Contexts(PCBs') /\ IdlePanicJustified'
    BY <1>11 DEF wait_blocks, wait_fails, InWait, IdlePanicJustified, Contexts
  <1>12. CASE clock_ticks
    BY <1>12 DEF clock_ticks, IdlePanicJustified, Contexts
  <1>13. CASE panic_loop \/ UNCHANGED vars
    BY <1>13 DEF panic_loop, vars, IdlePanicJustified, Contexts, Runnable
  <1>. QED
    BY <1>2, <1>3, <1>5, <1>6, <1>7, <1>8, <1>9, <1>10, <1>11, <1>12, <1>13
    DEF Next, AppCall, Wait

\* At boot only the first process has a context.
LEMMA SchedInit == Init => SchedInv
  BY TableAssumption DEF Init, SchedInv, Contexts, IdlePanicJustified, EmptyPCB, Live

\* A context exists exactly for the live, a sleeper has a deadline, and schedule()
\* panics only after looking at every slot, for a table of any size.
THEOREM SchedInvariant == Spec => []SchedInv
  BY SchedInit, SchedStep, TypedAndRunningInvariant, PTL DEF Spec

\* The scheduler's two tests of a slot, its context and its state, always agree,
\* and the idle panic is never premature: nobody could run, and no sleeper was due.
THEOREM SchedulerAlwaysSound == Spec => []SchedulerSound
  <1>1. SchedInv => SchedulerSound
    BY DEF SchedInv, SchedulerSound, Contexts, ContextIffLive
  <1>. QED
    BY <1>1, SchedInvariant, PTL

-----------------------------------------------------------------------------
(* The waitpid loop.                                                       *)

\* A wait of p for t has something to wait for.
Waits(pcbs, p, t) ==
    \E i \in Subs : /\ pcbs[p].sub_procs[i] # NoPid
                    /\ t \in {NoPid, pcbs[p].sub_procs[i]}

\* Only a live process is in the loop, and it has a child to wait for.
WaitInv ==
    \A p \in Pids : upc[p] # "app" => Live(PCBs[p]) /\ Waits(PCBs, p, target[p])

\* Table b leaves what process p needs for its wait as it is in table a.
KeepsWait(a, b, p) ==
    /\ Live(a[p]) => Live(b[p])
    /\ \A t : Waits(a, p, t) => Waits(b, p, t)

\* A process that lives on with the same list of children can still be waited.
LEMMA SameListKeepsWait ==
    ASSUME NEW a, NEW b, NEW p,
           Live(a[p]) => Live(b[p]), b[p].sub_procs = a[p].sub_procs
    PROVE  KeepsWait(a, b, p)
  BY DEF KeepsWait, Waits

\* Waking sleepers invalidates no wait.
LEMMA WakeKeepsWait ==
    ASSUME NEW pcbs \in Tables, NEW p \in Pids
    PROVE  KeepsWait(pcbs, wake_sleepers(pcbs), p)
  <1>1. pcbs[p] \in PCB
    BY DEF Tables
  <1>2. Live(pcbs[p]) => Live(wake_sleepers(pcbs)[p])
    BY <1>1 DEF Live, wake_sleepers, PCB
  <1>3. wake_sleepers(pcbs)[p].sub_procs = pcbs[p].sub_procs
    BY WakeKeepsTies DEF SameTies
  <1>. QED
    BY <1>2, <1>3, SameListKeepsWait

\* The death of another process takes no child away from p.
LEMMA TerminateKeepsWait ==
    ASSUME NEW pcbs \in Tables, NEW dying \in Pids, NEW status \in Int,
           NEW p \in Pids, p # dying
    PROVE  KeepsWait(pcbs, terminate_proc(pcbs, dying, status), p)
  BY TerminateSlot, SameListKeepsWait

\* fork fills a free entry, so it invalidates no wait.
LEMMA ForkKeepsWait ==
    ASSUME TypeOK, NEW child \in EmptySlots,
           NEW entry \in SlotsOf(PCBs, current, NoPid), NEW p \in Pids, p # child,
           child # current,
           PCBs' = [PCBs EXCEPT ![current].sub_procs[entry] = child,
                                ![child] = ForkedPCB(current)]
    PROVE  KeepsWait(PCBs, PCBs', p)
  <1>1. /\ PCBs[current] \in PCB /\ current \in Pids /\ child \in Pids
        /\ entry \in Subs /\ PCBs[current].sub_procs[entry] = NoPid
    BY DEF TypeOK, EmptySlots, SlotsOf
  <1>2. CASE p # current
    <2>1. PCBs'[p] = PCBs[p]
      BY <1>1, <1>2 DEF TypeOK
    <2>. QED
      BY <2>1, SameListKeepsWait
  <1>3. CASE p = current
    <2>1. PCBs'[p] = [PCBs[p] EXCEPT !.sub_procs[entry] = child]
      BY <1>1, <1>3 DEF TypeOK
    <2>2. /\ PCBs'[p].state = PCBs[p].state
          /\ PCBs'[p].sub_procs = [PCBs[p].sub_procs EXCEPT ![entry] = child]
      BY <1>1, <1>3, <2>1 DEF PCB
    <2>3. PCBs[p].sub_procs \in [Subs -> Pids \cup {NoPid}]
      BY <1>1, <1>3 DEF PCB
    <2>4. \A i \in Subs : PCBs[p].sub_procs[i] # NoPid =>
                            PCBs'[p].sub_procs[i] = PCBs[p].sub_procs[i]
      <3>1. PICK s, t : s = PCBs[p].sub_procs /\ t = PCBs'[p].sub_procs
        OBVIOUS
      <3>2. /\ s \in [Subs -> Pids \cup {NoPid}] /\ s[entry] = NoPid
            /\ t = [s EXCEPT ![entry] = child]
        BY <1>1, <1>3, <2>2, <2>3, <3>1
      <3>3. \A i \in Subs : s[i] # NoPid => t[i] = s[i]
        BY <3>2
      <3>. QED
        BY <3>1, <3>3
    <2>. QED
      BY <2>2, <2>4 DEF KeepsWait, Waits, Live
  <1>. QED
    BY <1>2, <1>3

\* A step that keeps the wait of everybody who stays in the loop.
LEMMA WaitKept ==
    ASSUME WaitInv,
           \A p \in Pids : upc'[p] # "app" =>
             /\ upc[p] # "app" /\ target'[p] = target[p]
             /\ KeepsWait(PCBs, PCBs', p)
    PROVE  WaitInv'
  BY DEF WaitInv, KeepsWait

\* Every step keeps the waits valid.
LEMMA WaitStep == TypedAndRunning /\ WaitInv /\ [Next]_vars => WaitInv'
  <1>. SUFFICES ASSUME TypeOK, CurrentRuns, WaitInv, [Next]_vars
                PROVE  WaitInv'
    BY DEF TypedAndRunning
  <1>0. PCBs \in Tables /\ current \in Pids /\ upc \in [Pids -> UserPcs]
        /\ target \in [Pids -> Pids \cup {NoPid}]
    BY DEF TypeOK, Tables
  <1>1. panic = "no" => PCBs[current].state = "RUNNING"
    BY DEF CurrentRuns, Runnable
  <1>2. CASE proc_fork_current
    <2>1. PICK child \in EmptySlots, entry \in SlotsOf(PCBs, current, NoPid) :
             PCBs' = [PCBs EXCEPT ![current].sub_procs[entry] = child,
                                  ![child] = ForkedPCB(current)]
      BY <1>2, ForkType DEF proc_fork_current
    <2>2. child # current /\ child \in Pids /\ ~Live(PCBs[child])
      BY <1>1, <1>2 DEF proc_fork_current, InApp, EmptySlots, Live
    <2>3. upc[child] = "app" /\ upc' = upc /\ target' = target
      BY <1>2, <2>2 DEF WaitInv, proc_fork_current, Unlooped
    <2>. QED
      BY <2>1, <2>2, <2>3, ForkKeepsWait, WaitKept
  <1>3. ASSUME PCBs' = PCBs, UNCHANGED <<upc, target>> PROVE WaitInv'
    BY <1>3 DEF WaitInv
  <1>4. CASE ForkPanics \/ ExecPanics \/ clock_ticks \/ panic_loop \/ UNCHANGED vars
    BY <1>3, <1>4 DEF ForkPanics, ExecPanics, clock_ticks, panic_loop, vars, Unlooped
  <1>5. ASSUME NEW dying \in Pids, NEW status \in Int, LeaveLoop(dying),
               \/ PCBs' = terminate_proc(PCBs, dying, status)
               \/ PCBs' = wake_sleepers(terminate_proc(PCBs, dying, status))
        PROVE  WaitInv'
    <2>. SUFFICES ASSUME NEW p \in Pids, upc'[p] # "app"
                  PROVE  /\ upc[p] # "app" /\ target'[p] = target[p]
                         /\ KeepsWait(PCBs, PCBs', p)
      BY WaitKept
    <2>1. p # dying /\ upc'[p] = upc[p] /\ target'[p] = target[p]
      BY <1>0, <1>5 DEF LeaveLoop
    <2>2. KeepsWait(PCBs, terminate_proc(PCBs, dying, status), p)
      BY <1>0, <2>1, TerminateKeepsWait
    <2>3. KeepsWait(terminate_proc(PCBs, dying, status),
                    wake_sleepers(terminate_proc(PCBs, dying, status)), p)
      BY <1>0, TerminateType, WakeKeepsWait
    <2>. QED
      BY <1>5, <2>1, <2>2, <2>3 DEF KeepsWait
  <1>6. ASSUME NEW status \in ExitCodes, sys_exit(status) PROVE WaitInv'
    BY <1>0, <1>5, <1>6, ProgramAssumption DEF sys_exit, schedule
  <1>7. ASSUME NEW sig \in Signals, proc_kill_self(sig) PROVE WaitInv'
    BY <1>0, <1>5, <1>7, KillStatusType, ProgramAssumption DEF proc_kill_self, schedule
  <1>8. ASSUME NEW pid \in Pids, NEW sig \in Signals, proc_kill_pid(pid, sig)
        PROVE  WaitInv'
    BY <1>5, <1>8, KillStatusType, ProgramAssumption DEF proc_kill_pid
  <1>9. ASSUME NEW seconds \in SleepSeconds, proc_sleep_current(seconds)
        PROVE  WaitInv'
    <2>. DEFINE deadline == now + seconds * TicksPerSec
                asleep == [PCBs EXCEPT ![current].sleep_deadline = deadline,
                                       ![current].state = "SLEEPING"]
    <2>1. deadline \in Nat
      BY ProgramAssumption, ClockAssumption DEF TypeOK
    <2>2. /\ panic = "no" /\ PCBs' = wake_sleepers(asleep)
          /\ upc' = upc /\ target' = target
      BY <1>9 DEF proc_sleep_current, InApp, schedule, Unlooped
    <2>. HIDE DEF deadline
    <2>3. asleep \in Tables /\ SameTies(PCBs, asleep)
      BY <1>1, <2>1, <2>2, SleepTies
    <2>4. \A p \in Pids : Live(PCBs[p]) => Live(asleep[p])
      <3>1. PCBs[current] \in PCB
        BY <1>0 DEF Tables
      <3>. QED
        BY <1>0, <3>1 DEF Tables, PCB, Live
    <2>. HIDE DEF asleep
    <2>5. \A p \in Pids : KeepsWait(PCBs, asleep, p)
      BY <2>3, <2>4, SameListKeepsWait DEF SameTies
    <2>6. \A p \in Pids : KeepsWait(asleep, PCBs', p)
      BY <2>2, <2>3, WakeKeepsWait
    <2>7. \A p \in Pids : KeepsWait(PCBs, PCBs', p)
      BY <2>5, <2>6 DEF KeepsWait
    <2>. QED
      BY <2>2, <2>7, WaitKept
  <1>10. ASSUME PCBs' = wake_sleepers(PCBs), target' = target,
                \A p \in Pids : upc'[p] # "app" => upc[p] # "app"
         PROVE  WaitInv'
    BY <1>0, <1>10, WakeKeepsWait, WaitKept
  <1>11. CASE sys_yield \/ timer_trap
    BY <1>10, <1>11 DEF sys_yield, timer_trap, schedule, Unlooped
  <1>12. CASE wait_yields
    <2>1. \A p \in Pids : upc'[p] # "app" => upc[p] # "app"
      BY <1>0, <1>12 DEF wait_yields
    <2>. QED
      BY <1>10, <1>12, <2>1 DEF wait_yields, schedule
  <1>13. ASSUME NEW pid \in Pids \cup {NoPid}, wait_reaps(pid) PROVE WaitInv'
    <2>1. PICK k \in Subs :
             /\ PCBs[current].sub_procs[k] \in Pids
             /\ PCBs[PCBs[current].sub_procs[k]].state = "ZOMBIE"
             /\ PCBs' = [PCBs EXCEPT ![current].sub_procs[k] = NoPid,
                                     ![PCBs[current].sub_procs[k]] = EmptyPCB]
      BY <1>13, ReapedEntry DEF wait_reaps
    <2>. SUFFICES ASSUME NEW p \in Pids, upc'[p] # "app"
                  PROVE  /\ upc[p] # "app" /\ target'[p] = target[p]
                         /\ KeepsWait(PCBs, PCBs', p)
      BY WaitKept
    <2>2. p # current /\ upc'[p] = upc[p] /\ target'[p] = target[p]
      BY <1>0, <1>13 DEF wait_reaps, LeaveLoop
    \* Nobody waits in the zombie's slot.
    <2>3. p # PCBs[current].sub_procs[k]
      BY <2>1, <2>2 DEF WaitInv, Live
    <2>4. PCBs'[p] = PCBs[p]
      BY <1>0, <2>1, <2>2, <2>3 DEF Tables
    <2>. QED
      BY <2>2, <2>4, SameListKeepsWait
  <1>14. ASSUME NEW pid \in Pids \cup {NoPid}, wait_blocks(pid) PROVE WaitInv'
    <2>1. Live(PCBs[current]) /\ PCBs' = PCBs
      BY <1>1, <1>14 DEF wait_blocks, InWait, Live
    <2>2. Waits(PCBs, current, pid)
      BY <1>14 DEF wait_blocks, Matches, Waits
    <2>3. \A p \in Pids : \/ p = current /\ target'[p] = pid
                          \/ upc'[p] = upc[p] /\ target'[p] = target[p]
      BY <1>0, <1>14 DEF wait_blocks
    <2>. QED
      BY <2>1, <2>2, <2>3 DEF WaitInv, Waits
  <1>15. ASSUME NEW pid \in Pids \cup {NoPid}, wait_fails(pid) PROVE WaitInv'
    <2>1. PCBs' = PCBs
      BY <1>15 DEF wait_fails
    <2>2. \A p \in Pids : \/ upc'[p] = "app"
                          \/ upc'[p] = upc[p] /\ target'[p] = target[p]
      BY <1>0, <1>15 DEF wait_fails, LeaveLoop
    <2>. QED
      BY <2>1, <2>2 DEF WaitInv, Waits
  <1>. QED
    BY <1>2, <1>4, <1>6, <1>7, <1>8, <1>9, <1>11, <1>12, <1>13, <1>14, <1>15
    DEF Next, AppCall, Wait

\* At boot nobody waits.
LEMMA WaitInit == Init => WaitInv
  BY DEF Init, WaitInv

\* A program in the waitpid loop is alive and has a child to wait for, whatever
\* slots are freed and reused around it.
THEOREM WaitInvariant == Spec => []WaitInv
  BY WaitInit, WaitStep, TypedAndRunningInvariant, PTL DEF Spec

\* A waitpid that blocked never finds that its child is gone: neither the death of
\* others nor a wait of another process takes an entry out of its sub_procs.
THEOREM WaitAlwaysValid == Spec => []WaitStaysValid
  <1>1. WaitInv => WaitStaysValid
    BY DEF WaitInv, WaitStaysValid, Waits
  <1>. QED
    BY <1>1, WaitInvariant, PTL
=============================================================================
