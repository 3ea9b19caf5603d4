------------------------------ MODULE Desktop -------------------------------
(***************************************************************************)
(* The desktop (usr/apps/desktop): the main loop, its windows, and what it *)
(* shares with the kernel and the programs it starts: the process table    *)
(* (kernel/proc/proc.c), the focus (kernel/device/device.c) and the frame  *)
(* buffers (kernel/device/virtual_gpu.c).  A step of the desktop holds one *)
(* system call that others can see; programs run between any two of them.  *)
(* The list of damage is kept as the number of its rectangles; DamageList  *)
(* and AppDamage have the rectangles.                                      *)
(***************************************************************************)
EXTENDS Integers, Sequences, SequencesExt, FiniteSets

CONSTANTS
    MaxProcs,      \* MAX_PROCS; the desktop is pid 1
    MaxSubProcs,   \* MAX_SUB_PROCS, less than MAX_WINDOWS
    MaxBurst,      \* MAX_EVENT_BURST
    MaxDamage      \* MAX_DAMAGE_RECTS

ASSUME DesktopAssumption ==
    /\ MaxProcs \in Nat /\ MaxProcs > 1
    /\ MaxSubProcs \in Nat \ {0} /\ MaxBurst \in Nat \ {0}
    /\ MaxDamage \in Nat /\ MaxDamage > 1

VARIABLES
    proc,        \* proc_state of the other processes
    sub_procs,   \* the desktop's children
    shadow,      \* processes with a shadow frame buffer (shadow_fb_npages > 0)
    foreign,     \* slots whose shadow pages may hold the picture of an earlier process
                 \* (not in the code)
    dirty,       \* fb_dirty
    input_focus_pid,               \* the kernel's focus
    windows, focus_pid, ui_dirty,  \* of the desktop
    pending,     \* pending_child_dirty
    damages,     \* pending_damage_count
    pc, k, who,  \* where the main loop is, its index and the process at hand
    burst,       \* event_count
    unshown,     \* programs whose picture the desktop has to show (not in the code)
    dropped,     \* those of them with a part that only a frame of all windows will show,
                 \* when there is one (not in the code)
    moved        \* windows came, went or moved since all was drawn (not in the code)

kernel == <<proc, sub_procs, shadow, foreign, dirty, input_focus_pid>>
loop == <<windows, focus_pid, ui_dirty, pending, damages, pc, k, who, burst>>
debts == <<unshown, dropped>>
vars == <<kernel, loop, debts, moved>>

Apps == 2..MaxProcs
Pids == 1..MaxProcs
Window == [pid : Apps, fb : BOOLEAN, dragging : BOOLEAN]
Pcs == {"events", "close_wait", "refocus_events", "refocus_reap", "launched", "drag",
        "poll", "reap", "render", "frame", "windows", "damage"}

WindowPids == {windows[i].pid : i \in DOMAIN windows}
Alive(p) == p = 1 \/ (p \in Apps /\ proc[p] = "RUNNING")
Refocusing == pc \in {"refocus_events", "refocus_reap"}

\* One type invariant for the module.
TypeOK ==
    /\ proc \in [Apps -> {"EMPTY", "RUNNING", "ZOMBIE"}]
    /\ sub_procs \subseteq Apps /\ shadow \subseteq Apps /\ dirty \subseteq Apps
    /\ foreign \subseteq Apps
    /\ input_focus_pid \in Pids /\ focus_pid \in Pids
    /\ \A i \in DOMAIN windows : windows[i] \in Window
    /\ ui_dirty \in BOOLEAN /\ moved \in BOOLEAN
    /\ pending \subseteq Apps /\ damages \in 0..MaxDamage
    /\ unshown \subseteq Apps /\ dropped \subseteq unshown
    /\ pc \in Pcs /\ k \in Nat /\ who \in Pids
    /\ burst \in 0..MaxBurst

Init ==
    /\ proc = [p \in Apps |-> "EMPTY"]
    /\ sub_procs = {} /\ shadow = {} /\ dirty = {} /\ foreign = {}
    /\ input_focus_pid = 1 /\ focus_pid = 1
    /\ windows = <<>>
    /\ ui_dirty = TRUE /\ moved = FALSE
    /\ pending = {} /\ damages = 0 /\ unshown = {} /\ dropped = {}
    /\ pc = "events" /\ k = 1 /\ who = 1 /\ burst = 0

-----------------------------------------------------------------------------
(* The kernel.                                                             *)

FreeSlots == {p \in Apps : proc[p] = "EMPTY"}
FirstFree == CHOOSE p \in FreeSlots : \A q \in FreeSlots : p <= q

\* Mutated form of reset_displays: the shadow buffer is taken for mapped still.
reset_displays_dirty(p) ==
    /\ dirty' = dirty \ {p}
    /\ UNCHANGED shadow
    /\ unshown' = unshown \ {p} /\ dropped' = dropped \ {p}

\* virtual_gpu_reset_display; the pages keep their picture
reset_displays(p) ==
    /\ shadow' = shadow \ {p}
    /\ dirty' = dirty \ {p}
    /\ unshown' = unshown \ {p} /\ dropped' = dropped \ {p}

\* A process takes slot q, with whatever the last one there has drawn.
new_proc(q) ==
    /\ proc' = [proc EXCEPT ![q] = "RUNNING"]
    /\ reset_displays(q)
    /\ foreign' = foreign \cup {q}

\* terminate_proc: a child of the desktop waits as a zombie; the children of the
\* programs are waited for by them, or nobody does.
terminate_proc(p) ==
    /\ proc' = [proc EXCEPT ![p] = IF p \in sub_procs THEN "ZOMBIE" ELSE "EMPTY"]
    /\ reset_displays(p)
    /\ UNCHANGED <<sub_procs, foreign, input_focus_pid>>

\* input_focus_set and input_focus_current: a dead process gives way to the desktop
input_focus(p) == IF Alive(p) THEN p ELSE 1

-----------------------------------------------------------------------------
(* The programs.                                                           *)

\* A program maps its frame buffer, which is cleared (display_ensure_shadow).
app_maps(p) ==
    /\ proc[p] = "RUNNING"
    /\ p \notin shadow
    /\ shadow' = shadow \cup {p}
    /\ foreign' = foreign \ {p}
    /\ UNCHANGED <<proc, sub_procs, dirty, input_focus_pid, loop, debts, moved>>

\* It draws, and tells so (virtual_gpu_fbsync_write).
app_draws(p) ==
    /\ proc[p] = "RUNNING"
    /\ p \in shadow
    /\ dirty' = dirty \cup {p}
    /\ UNCHANGED <<proc, sub_procs, shadow, foreign, input_focus_pid, loop, debts, moved>>

\* It becomes another program (proc_exec_reclaim).
app_execs(p) ==
    /\ proc[p] = "RUNNING"
    /\ p \in shadow
    /\ reset_displays(p)
    /\ UNCHANGED <<proc, sub_procs, foreign, input_focus_pid, loop, moved>>

\* It starts another, which has no window.
app_forks(p) ==
    /\ proc[p] = "RUNNING"
    /\ FreeSlots # {}
    /\ new_proc(FirstFree)
    /\ UNCHANGED <<sub_procs, input_focus_pid, loop, moved>>

app_exits(p) ==
    /\ proc[p] = "RUNNING"
    /\ terminate_proc(p)
    /\ UNCHANGED <<loop, moved>>

\* Any process reads events: input_focus_current forgets a process that is over.
input_focus_lapses ==
    /\ ~Alive(input_focus_pid)
    /\ input_focus_pid' = 1
    /\ UNCHANGED <<proc, sub_procs, shadow, foreign, dirty, loop, debts, moved>>

App == input_focus_lapses \/ \E p \in Apps :
    app_maps(p) \/ app_draws(p) \/ app_execs(p) \/ app_forks(p) \/ app_exits(p)

-----------------------------------------------------------------------------
(* The desktop handles events.                                             *)

\* poll_events brings one of a bounded number of events.
Event ==
    /\ pc = "events"
    /\ burst < MaxBurst
    /\ burst' = burst + 1

\* set_focus_pid
set_focus(p) == focus_pid' = p /\ input_focus_pid' = input_focus(p)

\* close_window: kill; then, behind it, the wait.
closes(i) ==
    /\ k' = i
    /\ who' = windows[i].pid
    /\ pc' = "close_wait"
    /\ ui_dirty' = TRUE
    /\ IF Alive(windows[i].pid) THEN terminate_proc(windows[i].pid)
       ELSE UNCHANGED <<kernel, debts>>
    /\ UNCHANGED <<windows, focus_pid, pending, damages, moved>>

\* Escape closes the window on top, if the desktop has the keyboard.
key_escape ==
    /\ Event
    /\ input_focus(input_focus_pid) = 1
    /\ windows # <<>>
    /\ closes(Len(windows))

click_close == Event /\ \E i \in DOMAIN windows : closes(i)

\* Mutated form of removed: the windows behind the gap are not moved up.
removed_tail(i) == SubSeq(windows, 1, Len(windows) - 1)

\* The array without window i.
removed(i) == RemoveAt(windows, i)

\* waitpid reaps the child; the window is unmapped and the array compacted.
close_wait ==
    /\ pc = "close_wait"
    /\ proc[who] = "ZOMBIE"
    /\ proc' = [proc EXCEPT ![who] = "EMPTY"]
    /\ sub_procs' = sub_procs \ {who}
    /\ windows' = removed(k)
    /\ moved' = TRUE
    /\ pc' = IF focus_pid = who THEN "refocus_events" ELSE "events"
    /\ k' = 1 /\ who' = 1
    /\ UNCHANGED <<shadow, foreign, dirty, input_focus_pid, focus_pid, ui_dirty, pending,
                   damages, burst, debts>>

\* The window that had the focus is gone; before this write, the kernel's focus
\* is a free slot that a new process may take.
focus_top_window_or_desktop ==
    /\ Refocusing
    /\ set_focus(IF windows = <<>> THEN 1 ELSE Last(windows).pid)
    /\ pc' = IF pc = "refocus_reap" THEN "reap" ELSE "events"
    /\ UNCHANGED <<proc, sub_procs, shadow, foreign, dirty, windows, ui_dirty, pending,
                   damages, k, who, burst, debts, moved>>

\* A click on a window raises it and gives it the focus; on its title bar, drags.
click_window ==
    /\ Event
    /\ \E i \in DOMAIN windows, ht \in BOOLEAN :
          LET clicked == [windows[i] EXCEPT !.dragging = @ \/ ht]
          IN  /\ windows' = Append(removed(i), clicked)
              /\ set_focus(clicked.pid)
    /\ ui_dirty' = TRUE /\ moved' = TRUE
    /\ UNCHANGED <<proc, sub_procs, shadow, foreign, dirty, pending, damages, pc, k, who,
                   debts>>

\* A click on an icon: fork in launch_app.
launch_app ==
    /\ Event
    /\ FreeSlots # {}
    /\ Cardinality(sub_procs) < MaxSubProcs
    /\ new_proc(FirstFree)
    /\ sub_procs' = sub_procs \cup {FirstFree}
    /\ who' = FirstFree
    /\ pc' = "launched"
    /\ UNCHANGED <<input_focus_pid, windows, focus_pid, ui_dirty, pending, damages, k,
                   moved>>

launch_app_fails ==
    /\ Event
    /\ FreeSlots = {} \/ Cardinality(sub_procs) = MaxSubProcs
    /\ ui_dirty' = TRUE
    /\ UNCHANGED <<kernel, windows, focus_pid, pending, damages, pc, k, who, debts,
                   moved>>

\* The rest of launch_app: the window.  The program runs already, or is over.
launched ==
    /\ pc = "launched"
    /\ windows' = Append(windows, [pid |-> who, fb |-> FALSE, dragging |-> FALSE])
    /\ set_focus(who)
    /\ ui_dirty' = TRUE /\ moved' = TRUE
    /\ pc' = "events" /\ who' = 1
    /\ UNCHANGED <<proc, sub_procs, shadow, foreign, dirty, pending, damages, k, burst,
                   debts>>

\* A click on the background or on the task bar.
click_desktop ==
    /\ Event
    /\ set_focus(1)
    /\ ui_dirty' = TRUE
    /\ UNCHANGED <<proc, sub_procs, shadow, foreign, dirty, windows, pending, damages, pc,
                   k, who, debts, moved>>

\* The button is let go: all drags end.
button_up ==
    /\ Event
    /\ windows' = [i \in DOMAIN windows |-> [windows[i] EXCEPT !.dragging = FALSE]]
    /\ UNCHANGED <<kernel, focus_pid, ui_dirty, pending, damages, pc, k, who, debts,
                   moved>>

\* An event that only moves the pointer, or that the desktop does not look at.
other_event ==
    /\ Event
    /\ UNCHANGED <<kernel, windows, focus_pid, ui_dirty, pending, damages, pc, k, who,
                   debts, moved>>

\* No event is left, or there were enough.
events_end ==
    /\ pc = "events"
    /\ pc' = "drag"
    /\ burst' = 0
    /\ UNCHANGED <<kernel, windows, focus_pid, ui_dirty, pending, damages, k, who, debts,
                   moved>>

-----------------------------------------------------------------------------
(* The rest of a turn of the main loop.                                    *)

\* A window that is dragged follows the pointer.
drag ==
    /\ pc = "drag"
    /\ pc' = "poll"
    /\ \/ UNCHANGED <<ui_dirty, moved>>
       \/ /\ \E i \in DOMAIN windows : windows[i].dragging
          /\ ui_dirty' = TRUE /\ moved' = TRUE
    /\ UNCHANGED <<kernel, windows, focus_pid, pending, damages, k, who, burst, debts>>

\* Mutated form of collects: what was pending is forgotten.
collects_anew(new) ==
    /\ pending' = dirty
    /\ unshown' = unshown \cup new
    /\ damages' = Cardinality(new)
    /\ UNCHANGED dropped

\* add_damage_rect for the programs of new: what touches is merged, and a full list
\* starts anew with one rectangle.  Once there are two rectangles besides the new one,
\* its slips may leave the damage of any program out, or no rectangle at all.
collects(new) ==
    LET added == damages + Cardinality(new)
    IN  /\ pending' = pending \cup dirty
        /\ unshown' = unshown \cup new
        /\ IF new = {} THEN UNCHANGED <<damages, dropped>>
           ELSE \E lost \in SUBSET unshown', n \in 0..MaxDamage :
                    /\ lost # {} => added > 2
                    /\ n <= added
                    /\ n = 0 => lost = unshown'
                    /\ damages' = n
                    /\ dropped' = dropped \cup lost

\* poll_dirty reads and clears the marks of all programs, also of those without a
\* window.  Damage outside of what the window shows is passed over.
poll_dirty ==
    /\ pc = "poll"
    /\ \E shown \in SUBSET (dirty \cap WindowPids) : collects(shown)
    /\ dirty' = {}
    /\ pc' = "reap" /\ k' = 1
    /\ UNCHANGED <<proc, sub_procs, shadow, foreign, input_focus_pid, windows, focus_pid,
                   ui_dirty, who, burst, moved>>

\* reap_children: the next window whose child is over goes.
reap_child ==
    /\ pc = "reap"
    /\ k <= Len(windows)
    /\ LET p == windows[k].pid
       IN  /\ proc[p] = "ZOMBIE"
           /\ proc' = [proc EXCEPT ![p] = "EMPTY"]
           /\ sub_procs' = sub_procs \ {p}
           /\ pc' = IF focus_pid = p THEN "refocus_reap" ELSE "reap"
    /\ windows' = removed(k)
    /\ ui_dirty' = TRUE /\ moved' = TRUE
    /\ UNCHANGED <<shadow, foreign, dirty, input_focus_pid, focus_pid, pending, damages,
                   k, who, burst, debts>>

reap_next ==
    /\ pc = "reap"
    /\ k <= Len(windows)
    /\ proc[windows[k].pid] # "ZOMBIE"
    /\ k' = k + 1
    /\ UNCHANGED <<kernel, windows, focus_pid, ui_dirty, pending, damages, pc, who, burst,
                   debts, moved>>

reap_ends ==
    /\ pc = "reap"
    /\ k > Len(windows)
    /\ pc' = "render" /\ k' = 1
    /\ UNCHANGED <<kernel, windows, focus_pid, ui_dirty, pending, damages, who, burst,
                   debts, moved>>

\* Everything is drawn, or what the programs have drawn, or nothing.
render_frame ==
    /\ pc = "render" /\ ui_dirty
    /\ pc' = "frame"
    /\ UNCHANGED <<kernel, windows, focus_pid, ui_dirty, pending, damages, k, who, burst,
                   debts, moved>>

\* Without a rectangle in the list, all windows are.
render_damage ==
    /\ pc = "render" /\ ~ui_dirty /\ pending # {}
    /\ pc' = IF damages > 0 THEN "damage" ELSE "windows"
    /\ UNCHANGED <<kernel, windows, focus_pid, ui_dirty, pending, damages, k, who, burst,
                   debts, moved>>

\* COMPOSITOR_FRAME_MS is not over yet, or there is nothing to draw.
render_not ==
    /\ pc = "render" /\ ~ui_dirty
    /\ pc' = "events"
    /\ UNCHANGED <<kernel, windows, focus_pid, ui_dirty, pending, damages, k, who, burst,
                   debts, moved>>

\* mmap_child_fb: only a buffer the program has mapped (virtual_gpu_existing_fb_page);
\* also then open may find no file, or mmap no page or no addresses.
mmap_child_fb(p) == {mapped \in BOOLEAN : mapped => p \in shadow}

\* Window k, in a frame of all windows or for the rectangle of the list at hand: its
\* buffer is mapped if it is not yet, then it is copied.  What is not shown yet is
\* shown with all of its window, or when it was there for every rectangle.
composite_window ==
    /\ pc \in {"frame", "windows", "damage"}
    /\ k <= Len(windows)
    /\ \E fb \in IF windows[k].fb THEN {TRUE} ELSE mmap_child_fb(windows[k].pid) :
          LET p == windows[k].pid
              all == pc # "damage"
          IN  /\ windows' = [windows EXCEPT ![k].fb = fb]
              /\ unshown' = IF fb /\ (all \/ (damages = 1 /\ p \notin dropped))
                            THEN unshown \ {p} ELSE unshown
              /\ dropped' = IF fb /\ all THEN dropped \ {p}
                            ELSE IF ~fb THEN dropped \cup (unshown \cap {p})
                            ELSE dropped
    /\ k' = k + 1
    /\ UNCHANGED <<kernel, focus_pid, ui_dirty, pending, damages, pc, who, burst, moved>>

\* The next rectangle of the list.
next_rect ==
    /\ pc = "damage"
    /\ k > Len(windows) /\ damages > 1
    /\ damages' = damages - 1
    /\ k' = 1
    /\ UNCHANGED <<kernel, windows, focus_pid, ui_dirty, pending, pc, who, burst, debts,
                   moved>>

\* The frame is flushed; yield.
rendered ==
    /\ pc \in {"frame", "windows", "damage"}
    /\ k > Len(windows)
    /\ pc = "damage" => damages = 1
    /\ ui_dirty' = FALSE
    /\ pending' = {} /\ damages' = 0
    /\ moved' = (moved /\ pc # "frame")
    /\ pc' = "events" /\ k' = 1
    /\ UNCHANGED <<kernel, windows, focus_pid, who, burst, debts>>

-----------------------------------------------------------------------------
Events ==
    \/ key_escape \/ click_close \/ click_window \/ launch_app \/ launch_app_fails
    \/ click_desktop \/ button_up \/ other_event

\* The steps that are due whatever the user does.
Turn ==
    \/ close_wait \/ focus_top_window_or_desktop \/ launched \/ events_end
    \/ drag \/ poll_dirty \/ reap_child \/ reap_next \/ reap_ends
    \/ render_frame \/ render_not \/ composite_window \/ next_rect \/ rendered

Next == App \/ Events \/ Turn \/ render_damage

Spec == Init /\ [][Next]_vars

\* The scheduler gives the desktop its turn, a burst of events is bounded, and the
\* clock moves on, so that a frame is due again and again.
FairSpec == Spec /\ WF_vars(Turn) /\ SF_vars(render_damage)

-----------------------------------------------------------------------------
(* Properties.                                                             *)

\* Every window has a child of the desktop that nobody has waited for, each its own,
\* and every child a window, once launch_app is through: no window shows a slot that
\* another process may take, and no child stays a zombie for ever (launch_app,
\* close_window, reap_children).
WindowsAreChildren ==
    /\ \A i, j \in DOMAIN windows : windows[i].pid = windows[j].pid => i = j
    /\ sub_procs = WindowPids \cup (IF pc = "launched" THEN {who} ELSE {})
    /\ \A p \in WindowPids : proc[p] # "EMPTY"

\* The keyboard belongs to the desktop or to a process with a window, whoever dies
\* and whatever slot is taken again; only between waitpid and the write that moves
\* the focus may a new process have it (set_focus_pid, input_focus_current).
KeysGoToWindow ==
    ~Refocusing => input_focus(input_focus_pid) \in {1} \cup WindowPids

\* The desktop and the kernel agree who has the focus, unless its program is over
\* (focus_pid of the desktop, input_focus_pid of the kernel).
FocusAgrees ==
    ~Refocusing => /\ focus_pid \in {1} \cup WindowPids
                   /\ Alive(focus_pid) => input_focus_pid = focus_pid

\* A window never shows what an earlier process of the same slot has drawn, although
\* the pages are the same and keep their picture (reset_display, ensure_shadow,
\* mmap_child_fb).
NoForeignPicture ==
    \A i \in DOMAIN windows : windows[i].fb => windows[i].pid \notin foreign

\* Drawing the damage alone is enough: no window has come, gone or moved since all
\* was drawn (ui_dirty in main).
DamageIsEnough == pc \in {"damage", "windows"} => ~moved

\* What the desktop has taken out of the kernel's marks and has not shown stays marked
\* in its own mask, from one turn to the next and while it draws, unless a slip of
\* add_damage_rect or a buffer that could not be mapped has left it out
\* (pending_child_dirty in main).
NothingForgotten == unshown \subseteq pending \cup dropped

\* The marks of all programs are taken again and again, whatever they do, and every
\* picture that they tell of comes to the screen, but for what the slips of
\* add_damage_rect leave out and for a buffer that could not be mapped (poll_dirty, the
\* rendering in main).
PictureIsShown ==
    /\ []<>(dirty = {})
    /\ []<>(unshown \subseteq dropped)

\* A program that is over is waited for, and its window goes (reap_children,
\* close_window).
ZombiesGo == \A p \in Apps : []<>(proc[p] # "ZOMBIE")

\* Windows, children and focus agree between desktop and kernel, although programs
\* die and slots are taken again between any two calls (window.c, input_focus_set).
WindowsTrue ==
    /\ TypeOK
    /\ WindowsAreChildren
    /\ KeysGoToWindow
    /\ FocusAgrees

\* The screen shows neither the picture of another process nor windows as they were, and
\* no picture is forgotten (virtual_gpu_reset_display, mmap_child_fb, ui_dirty,
\* pending_child_dirty).
PicturesTrue ==
    /\ NoForeignPicture
    /\ DamageIsEnough
    /\ NothingForgotten

\* Pictures come to the screen and dead programs leave it, whatever events arrive
\* (poll_dirty, reap_children).
DesktopKeepsUp ==
    /\ PictureIsShown
    /\ ZombiesGo
=============================================================================
