----------------------------- MODULE MCDisplay ------------------------------
(* The lists of damage with the way from a program to the desktop, and the *)
(* desktop itself, for TLC.  Desktop keeps damage per program and shares   *)
(* no variable with the lists: TLC takes one of them at a time.            *)
EXTENDS Desktop, AppDamage

VARIABLE part

\* The shape in which a merge slips: a corner, a column, and a strip below the
\* corner that leads to the column.
MCMarks == { [x |-> 0, y |-> 0, w |-> 1, h |-> 1], [x |-> 2, y |-> 0, w |-> 1, h |-> 3],
             [x |-> -1, y |-> 2, w |-> 3, h |-> 1], [x |-> 4, y |-> 1, w |-> 1, h |-> 9] }

\* A drag sets ui_dirty, as a click does, and an exec forgets the marks of its program
\* with its picture: the run desktop has both, this one neither.
NoDrag == \A i \in DOMAIN windows' : ~windows'[i].dragging
NoExec == \A p \in Apps : ~app_execs(p)

DisplayInit ==
    /\ part \in {"damage", "desktop"}
    /\ Init /\ AppInit
    /\ part = "desktop" => owner = "desktop"

DisplayNext ==
    \/ part = "damage" /\ AppNext /\ UNCHANGED <<part, vars>>
    \/ part = "desktop" /\ Next /\ NoDrag /\ NoExec /\ UNCHANGED <<part, appVars>>

\* The mark of a program is handed over; a frame is due.
Shown ==
    \/ part = "damage" /\ gpu_sync /\ UNCHANGED <<owner, vars>>
    \/ part = "desktop" /\ render_damage /\ UNCHANGED appVars

\* The fairness of both modules, of each in its own part; two actions of different
\* parts share a formula.
DisplayFairness ==
    /\ WF_appVars(part = "damage" /\ fbsync_read /\ UNCHANGED owner)
    /\ WF_appVars(part = "damage" /\ fbdraw_merges /\ UNCHANGED owner)
    /\ SF_appVars(part = "damage" /\ list_flushes /\ UNCHANGED owner)
    /\ SF_<<vars, appVars>>(Shown)
    /\ WF_vars(part = "desktop" /\ Turn)

DisplaySpec == DisplayInit /\ [][DisplayNext]_<<part, vars, appVars>> /\ DisplayFairness
=============================================================================
