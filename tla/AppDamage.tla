----------------------------- MODULE AppDamage ------------------------------
(***************************************************************************)
(* The way of a program's damage to the desktop: the list of the library   *)
(* (usr/libs/libam/src/am.c), the one rectangle the kernel keeps for each  *)
(* program (kernel/device/virtual_gpu.c), and the read of the desktop that *)
(* takes it over (usr/apps/desktop/window.c, poll_dirty).                  *)
(***************************************************************************)
EXTENDS DamageList

VARIABLE box   \* fb_dirty and the rectangle fb_dirty_x, _y, _w, _h

appVars == <<owner, rects, count, merge, owed, lost, box>>

NoBox == [dirty |-> FALSE, r |-> [x |-> 0, y |-> 0, w |-> 0, h |-> 0]]
Full == corners(0, 0, ScreenW, ScreenH)

\* The type of the box; the list has a type invariant of its own.
BoxOK == box.dirty \in BOOLEAN /\ (box.dirty => box.r \in Rect) /\ (~box.dirty => box = NoBox)

AppInit == DamageInit /\ box = NoBox

\* Marking damage, and merging it, leave the kernel's rectangle alone.
am_gpu_fbdraw(m) == mark(m) /\ UNCHANGED box
fbdraw_merges == merge_step /\ UNCHANGED box

\* Mutated form of display_dirty_add: the new rectangle replaces the old one.
display_dirty_add_replaces(b, r) == [dirty |-> TRUE, r |-> r]

\* The box grows to hold a rectangle.
display_dirty_add(b, r) ==
    [dirty |-> TRUE, r |-> IF b.dirty THEN rect_union(b.r, r) ELSE r]

\* Mutated form of fbsync_write: the last rectangle is left out.
fbsync_write_short(b, n) ==
    LET upto[k \in 0..MaxRects] ==
            IF k = 0 THEN b ELSE display_dirty_add(upto[k - 1], rects[k - 1])
    IN  upto[n - 1]

\* virtual_gpu_fbsync_write: the n rectangles of one write to /device/fbsync are
\* added in turn; upto[k] is the box after the first k of them.
fbsync_write(b, n) ==
    LET upto[k \in 0..MaxRects] ==
            IF k = 0 THEN b ELSE display_dirty_add(upto[k - 1], rects[k - 1])
    IN  upto[n]

\* gpu_sync with a list writes all of it.
gpu_sync ==
    /\ owner = "library" /\ ~merge.on
    /\ count > 0
    /\ box' = fbsync_write(box, count)
    /\ count' = 0
    /\ rects' = kept(rects, 0)
    /\ UNCHANGED <<merge, owed, lost>>

\* gpu_sync with an empty list writes one byte, for which the kernel marks the
\* whole screen (display_dirty_mark_full_if_empty) unless something is marked.
gpu_sync_empty ==
    /\ owner = "library" /\ ~merge.on
    /\ count = 0
    /\ box' = IF box.dirty THEN box ELSE [dirty |-> TRUE, r |-> Full]
    /\ lost' = lost \ Pixels(box'.r)
    /\ UNCHANGED <<rects, count, merge, owed>>

\* virtual_gpu_fbsync_read: the desktop takes the box over, in the middle of
\* whatever the program does.
fbsync_read ==
    /\ box.dirty
    /\ box' = NoBox
    /\ owed' = owed \ Pixels(box.r)
    /\ lost' = lost \ Pixels(box.r)
    /\ UNCHANGED <<rects, count, merge>>

\* virtual_gpu_reset_display: execve or the end of the program, of which the
\* library's list goes too.
reset_display ==
    /\ owner = "library" /\ ~merge.on
    /\ box' = NoBox
    /\ count' = 0
    /\ rects' = kept(rects, 0)
    /\ owed' = {}
    /\ lost' = {}
    /\ UNCHANGED merge

\* The list of the kernel, or of the desktop, is drawn.
list_flushes == flush /\ UNCHANGED box

AppNext ==
    /\ UNCHANGED owner
    /\ \/ \E m \in Marks : am_gpu_fbdraw(m)
       \/ fbdraw_merges
       \/ list_flushes
       \/ gpu_sync
       \/ gpu_sync_empty
       \/ fbsync_read
       \/ reset_display

\* The desktop reads and draws in every turn of its loop, library calls return, and
\* a program that draws syncs again and again.
AppFairness ==
    /\ WF_appVars(fbsync_read /\ UNCHANGED owner)
    /\ WF_appVars(fbdraw_merges /\ UNCHANGED owner)
    /\ SF_appVars(gpu_sync /\ UNCHANGED owner)
    /\ SF_appVars(list_flushes /\ UNCHANGED owner)

AppSpec == AppInit /\ [][AppNext]_appVars /\ AppFairness

-----------------------------------------------------------------------------
\* Damage that was marked is at every moment in the list, in the kernel's rectangle
\* of the program or drawn, whatever is merged, synced and read in whatever order,
\* but for what two slips of the list drop: a merge whose rectangle is the last of
\* the list or already behind it, and a full list started over by the desktop
\* (fb_mark_dirty, add_damage_rect, gpu_sync, fbsync_write, fbsync_read).
NothingDropped == owed \subseteq Cover \cup Pixels(box.r) \cup lost

\* What is marked is drawn or reaches the desktop in the end, unless a slip of the
\* list drops it; said of the first pixel of each rectangle (gpu_sync, fbsync_read,
\* virtio_gpu_fbsync).
DrawnIsHandedOver ==
    \A m \in Marks :
        LET px == <<rect_clip(m).x, rect_clip(m).y>>
        IN  []<>(px \notin owed \/ px \in lost)

\* Rectangles stay on the screen and no damage is dropped on the way to the desktop
\* but by the two slips of the list (fb_mark_dirty, fbsync_write, fbsync_read).
DamageConsistent ==
    /\ DamageTypeOK
    /\ BoxOK
    /\ NothingDropped

\* Merging ends, and what is marked is drawn or handed over (fb_mark_dirty, gpu_sync,
\* fbsync_read, virtio_gpu_fbsync).
DamageComesThrough ==
    /\ MergeEnds
    /\ DrawnIsHandedOver
=============================================================================
