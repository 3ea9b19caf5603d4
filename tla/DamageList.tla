----------------------------- MODULE DamageList -----------------------------
(***************************************************************************)
(* The list of damaged rectangles.  The code has it four times: fb_mark_   *)
(* dirty of the kernel (kernel/device/virtio_gpu.c), dirty_add_screen and  *)
(* gpu_dirty_add of the libraries (usr/libs/libndl/src/NDL.c, usr/libs/    *)
(* libam/src/am.c) and add_damage_rect of the desktop (usr/apps/desktop/   *)
(* geometry.c), which differs when the list is full.  The loop that merges *)
(* rectangles is one step per turn: its indices into the list, while the   *)
(* list shrinks under them, are what is hard to get right.                 *)
(***************************************************************************)
EXTENDS Integers, FiniteSets, FiniteSetsExt

CONSTANTS
    ScreenW, ScreenH,  \* the screen
    MaxRects,          \* length of the list
    Marks              \* the rectangles the callers mark

ASSUME DamageAssumption ==
    /\ ScreenW \in Nat \ {0} /\ ScreenH \in Nat \ {0} /\ MaxRects \in Nat \ {0}
    /\ Marks \subseteq [x : Int, y : Int, w : Nat, h : Nat]

VARIABLES
    owner,    \* whose list it is: "kernel", "library" or "desktop"
    rects,    \* the array; what is at and after count is left over
    count,    \* dirty_count
    merge,    \* the inner loop: whether it runs, and its indices i and j
    owed,     \* pixels marked and not yet flushed (not in the code)
    lost      \* pixels dropped by a slip: a merge whose rectangle i is the last
              \* of the list, or a full list started over (not in the code)

Rect == [x : 0..(ScreenW - 1), y : 0..(ScreenH - 1), w : 1..ScreenW, h : 1..ScreenH]
Slots == 0..(MaxRects - 1)
Unused == [x |-> 0, y |-> 0, w |-> 1, h |-> 1]
NoMerge == [on |-> FALSE, i |-> 0, j |-> 0]

x2(r) == r.x + r.w
y2(r) == r.y + r.h
lower(a, b) == IF a < b THEN a ELSE b
upper(a, b) == IF a > b THEN a ELSE b

\* The rectangle between two corners; empty unless x1 < xx /\ y1 < yy.
corners(x1, y1, xx, yy) == [x |-> x1, y |-> y1, w |-> xx - x1, h |-> yy - y1]

\* rect_clip, and whether anything is left (the caller returns otherwise)
rect_clip(r) ==
    corners(upper(r.x, 0), upper(r.y, 0), lower(x2(r), ScreenW), lower(y2(r), ScreenH))
on_screen(r) == r.w > 0 /\ r.h > 0 /\ rect_clip(r).w > 0 /\ rect_clip(r).h > 0

rect_contains(a, b) == a.x <= b.x /\ a.y <= b.y /\ x2(a) >= x2(b) /\ y2(a) >= y2(b)

rect_touch_or_overlap(a, b) ==
    a.x <= x2(b) /\ x2(a) >= b.x /\ a.y <= y2(b) /\ y2(a) >= b.y

\* rect_union_into: the smallest rectangle around both
rect_union(a, b) ==
    corners(lower(a.x, b.x), lower(a.y, b.y), upper(x2(a), x2(b)), upper(y2(a), y2(b)))

Pixels(r) == (r.x..(x2(r) - 1)) \X (r.y..(y2(r) - 1))
Screen == (0..(ScreenW - 1)) \X (0..(ScreenH - 1))
CoverOf(a, n) == UNION {Pixels(a[k]) : k \in {k \in Slots : k < n}}
Cover == CoverOf(rects, count)

\* One type invariant for the module: rectangles lie on the screen.
DamageTypeOK ==
    /\ owner \in {"kernel", "library", "desktop"}
    /\ rects \in [Slots -> Rect]
    /\ \A k \in Slots : x2(rects[k]) <= ScreenW /\ y2(rects[k]) <= ScreenH
    /\ count \in 0..MaxRects
    /\ merge \in [on : BOOLEAN, i : Slots, j : 0..MaxRects]
    /\ owed \subseteq Screen
    /\ lost \subseteq Screen

DamageInit ==
    /\ owner \in {"kernel", "library", "desktop"}
    /\ rects = [k \in Slots |-> Unused]
    /\ count = 0
    /\ merge = NoMerge
    /\ owed = {}
    /\ lost = {}

-----------------------------------------------------------------------------
\* The first n rectangles.  What is left over behind them is never read once a call
\* has returned, and not told apart from then on.
kept(a, n) == [k \in Slots |-> IF k < n THEN a[k] ELSE Unused]

\* The rectangles that a new one meets.
hits(r) == {k \in Slots : k < count /\ rect_touch_or_overlap(rects[k], r)}

\* A rectangle for itself is appended.
append(r) ==
    /\ hits(r) = {}
    /\ count < MaxRects
    /\ rects' = [rects EXCEPT ![count] = r]
    /\ count' = count + 1
    /\ lost' = lost \ Pixels(r)
    /\ UNCHANGED merge

\* fb_collapse_dirty: a full list becomes the rectangle around everything.
collapse(r) ==
    /\ hits(r) = {}
    /\ count = MaxRects
    /\ owner # "desktop"
    /\ LET all == {rects[k] : k \in Slots} \cup {r}
       IN  rects' = kept([rects EXCEPT ![0] =
              corners(Min({a.x : a \in all}), Min({a.y : a \in all}),
                      Max({x2(a) : a \in all}), Max({y2(a) : a \in all}))], 1)
    /\ count' = 1
    /\ lost' = lost \ Pixels(r)
    /\ UNCHANGED merge

\* The desktop keeps the first rectangle of a full list, grown by the new one.
start_over(r) ==
    /\ hits(r) = {}
    /\ count = MaxRects
    /\ owner = "desktop"
    /\ rects' = kept([rects EXCEPT ![0] = rect_union(rects[0], r)], 1)
    /\ count' = 1
    /\ lost' = (lost \cup Cover) \ CoverOf(rects', 1)
    /\ UNCHANGED merge

\* The first rectangle met takes the new one in, and looks for others to take.
absorb(r) ==
    /\ hits(r) # {}
    /\ LET i == Min(hits(r))
       IN  IF owner # "desktop" /\ rect_contains(rects[i], r)
           THEN UNCHANGED <<rects, merge>>
           ELSE /\ rects' = [rects EXCEPT ![i] = rect_union(rects[i], r)]
                /\ merge' = [on |-> TRUE, i |-> i, j |-> 0]
    /\ lost' = lost \ Pixels(r)
    /\ UNCHANGED count

\* fb_mark_dirty, dirty_add_screen, gpu_dirty_add, add_damage_rect
mark(m) ==
    LET r == rect_clip(m) IN
    /\ ~merge.on
    /\ on_screen(m)
    /\ append(r) \/ collapse(r) \/ start_over(r) \/ absorb(r)
    /\ owed' = owed \cup Pixels(r)

\* Rectangle j is not taken.
merge_skips ==
    /\ merge.on
    /\ merge.j < count
    /\ merge.j = merge.i \/ ~rect_touch_or_overlap(rects[merge.i], rects[merge.j])
    /\ merge' = [merge EXCEPT !.j = @ + 1]
    /\ UNCHANGED <<rects, count, owed, lost>>

\* Rectangle i takes rectangle j in; the last one fills the hole.
taken(i, j) ==
    LET grown == [rects EXCEPT ![i] = rect_union(rects[i], rects[j])]
    IN  [grown EXCEPT ![j] = grown[count - 1]]

\* Rectangle j is taken.  When i is the last one, it is what fills the hole: i
\* now points behind the list, and j at a copy of i which is taken next.
merge_takes ==
    /\ merge.on
    /\ merge.j < count
    /\ merge.j # merge.i
    /\ rect_touch_or_overlap(rects[merge.i], rects[merge.j])
    /\ rects' = taken(merge.i, merge.j)
    /\ count' = count - 1
    /\ lost' = IF merge.i >= count - 1 THEN lost \cup (Cover \ CoverOf(rects', count'))
               ELSE lost
    /\ UNCHANGED <<merge, owed>>

merge_ends ==
    /\ merge.on
    /\ merge.j >= count
    /\ merge' = NoMerge
    /\ rects' = kept(rects, count)
    /\ UNCHANGED <<count, owed, lost>>

merge_step == merge_skips \/ merge_takes \/ merge_ends

\* virtio_gpu_fbsync, or a frame the desktop draws from its damage; what the
\* library does with its list is in AppDamage.
flush ==
    /\ owner # "library" /\ ~merge.on
    /\ count > 0
    /\ count' = 0
    /\ rects' = kept(rects, 0)
    /\ owed' = owed \ Cover
    /\ lost' = lost \ Cover
    /\ UNCHANGED merge

-----------------------------------------------------------------------------
(* Properties.                                                             *)

\* The merge loop, which takes back its index each time the list gets shorter,
\* comes to an end (the inner loop of fb_mark_dirty).
MergeEnds == []<>~merge.on
=============================================================================
