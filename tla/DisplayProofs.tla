--------------------------- MODULE DisplayProofs ----------------------------
(***************************************************************************)
(* Theorems about the display.  The damage of the screen, for any size of  *)
(* the screen, length of the list and rectangles that are marked:          *)
(* rectangles stay on the screen, and no damage is dropped between the     *)
(* call that marks it and the desktop that draws it, but by the two slips  *)
(* of the list.  The desktop, for any number of processes and windows: its *)
(* windows, children and focus agree with the kernel's, no window shows    *)
(* what is not its own, and no picture is forgotten.                       *)
(***************************************************************************)
EXTENDS Desktop, AppDamage, SequenceTheorems, WellFoundedInduction, TLAPS

-----------------------------------------------------------------------------
(* Damage.                                                                 *)

\* A rectangle that lies on the screen.
OnScreen(r) == r \in Rect /\ x2(r) <= ScreenW /\ y2(r) <= ScreenH

\* A rectangle whose numbers are integers, and a pixel of it.
IsRect(r) == r.x \in Int /\ r.y \in Int /\ r.w \in Int /\ r.h \in Int
Has(r, px) ==
    /\ px \in Int \X Int
    /\ r.x <= px[1] /\ px[1] < x2(r) /\ r.y <= px[2] /\ px[2] < y2(r)

\* Pixels, with no set of pairs in it.
LEMMA PixelsAre ==
    ASSUME NEW r, IsRect(r), NEW px
    PROVE  px \in Pixels(r) <=> Has(r, px)
  <1>1. PICK a \in Int, b \in Int, c \in Int, d \in Int :
            a = r.x /\ b = x2(r) /\ c = r.y /\ d = y2(r)
    BY DEF IsRect, x2, y2
  <1>2. Pixels(r) = (a..(b - 1)) \X (c..(d - 1))
    BY <1>1 DEF Pixels
  <1>3. \A n \in Int : (n \in a..(b - 1) <=> a <= n /\ n < b)
                       /\ (n \in c..(d - 1) <=> c <= n /\ n < d)
    OBVIOUS
  <1>4. px \in Pixels(r) <=> px \in Int \X Int /\ px[1] \in a..(b - 1) /\ px[2] \in c..(d - 1)
    BY <1>2
  <1>. QED
    BY <1>1, <1>3, <1>4 DEF Has

\* The numbers of a rectangle on the screen.
LEMMA OnScreenIsRect ==
    ASSUME NEW r, OnScreen(r)
    PROVE  IsRect(r) /\ r.w >= 1 /\ r.h >= 1 /\ r.x >= 0 /\ r.y >= 0
  BY DEF OnScreen, Rect, IsRect

\* A rectangle between two corners lies on the screen if they do.
LEMMA CornersOnScreen ==
    ASSUME NEW a \in Int, NEW b \in Int, NEW c \in Int, NEW d \in Int,
           0 <= a, a < c, c <= ScreenW, 0 <= b, b < d, d <= ScreenH
    PROVE  OnScreen(corners(a, b, c, d))
  <1>1. /\ a \in 0..(ScreenW - 1) /\ b \in 0..(ScreenH - 1)
        /\ c - a \in 1..ScreenW /\ d - b \in 1..ScreenH
        /\ a + (c - a) = c /\ b + (d - b) = d
    BY DamageAssumption
  <1>. QED
    BY <1>1 DEF corners, OnScreen, Rect, x2, y2

\* The pixels between two corners.
LEMMA CornersHas ==
    ASSUME NEW a \in Int, NEW b \in Int, NEW c \in Int, NEW d \in Int, NEW px \in Int \X Int,
           a <= px[1], px[1] < c, b <= px[2], px[2] < d
    PROVE  px \in Pixels(corners(a, b, c, d))
  <1>1. PICK r : r = corners(a, b, c, d)
    OBVIOUS
  <1>2. IsRect(r) /\ r.x = a /\ r.y = b /\ x2(r) = c /\ y2(r) = d
    BY <1>1 DEF corners, IsRect, x2, y2
  <1>3. Has(r, px)
    BY <1>2 DEF Has
  <1>. QED
    BY <1>1, <1>2, <1>3, PixelsAre

\* rect_union lies on the screen and holds both.
LEMMA UnionHolds ==
    ASSUME NEW a, NEW b, OnScreen(a), OnScreen(b), NEW u, u = rect_union(a, b)
    PROVE  OnScreen(u) /\ Pixels(a) \subseteq Pixels(u) /\ Pixels(b) \subseteq Pixels(u)
  <1>1. PICK ax \in Int, ay \in Int, aX \in Int, aY \in Int :
            ax = a.x /\ ay = a.y /\ aX = x2(a) /\ aY = y2(a)
    BY OnScreenIsRect DEF IsRect, x2, y2
  <1>2. PICK bx \in Int, by \in Int, bX \in Int, bY \in Int :
            bx = b.x /\ by = b.y /\ bX = x2(b) /\ bY = y2(b)
    BY OnScreenIsRect DEF IsRect, x2, y2
  <1>3. /\ 0 <= ax /\ ax < aX /\ aX <= ScreenW /\ 0 <= ay /\ ay < aY /\ aY <= ScreenH
        /\ 0 <= bx /\ bx < bX /\ bX <= ScreenW /\ 0 <= by /\ by < bY /\ bY <= ScreenH
    BY <1>1, <1>2, OnScreenIsRect DEF OnScreen, x2, y2, IsRect
  <1>4. PICK x \in Int, y \in Int, X \in Int, Y \in Int :
            x = lower(ax, bx) /\ y = lower(ay, by) /\ X = upper(aX, bX) /\ Y = upper(aY, bY)
    BY DEF lower, upper
  <1>5. /\ x <= ax /\ x <= bx /\ y <= ay /\ y <= by /\ aX <= X /\ bX <= X /\ aY <= Y /\ bY <= Y
        /\ 0 <= x /\ 0 <= y /\ X <= ScreenW /\ Y <= ScreenH
    BY <1>3, <1>4 DEF lower, upper
  <1>6. u = corners(x, y, X, Y)
    BY <1>1, <1>2, <1>4 DEF rect_union
  <1>7. OnScreen(u)
    <2>1. x < X /\ y < Y
      BY <1>3, <1>5
    <2>. QED
      BY <1>5, <1>6, <2>1, CornersOnScreen
  <1>8. Pixels(a) \subseteq Pixels(u)
    <2>. SUFFICES ASSUME NEW px \in Pixels(a) PROVE px \in Pixels(u)
      OBVIOUS
    <2>1. px \in Int \X Int /\ ax <= px[1] /\ px[1] < aX /\ ay <= px[2] /\ px[2] < aY
      BY <1>1, PixelsAre, OnScreenIsRect DEF Has
    <2>2. x <= px[1] /\ px[1] < X /\ y <= px[2] /\ px[2] < Y
      BY <1>5, <2>1
    <2>. QED
      BY <1>6, <2>1, <2>2, CornersHas
  <1>9. Pixels(b) \subseteq Pixels(u)
    <2>. SUFFICES ASSUME NEW px \in Pixels(b) PROVE px \in Pixels(u)
      OBVIOUS
    <2>1. px \in Int \X Int /\ bx <= px[1] /\ px[1] < bX /\ by <= px[2] /\ px[2] < bY
      BY <1>2, PixelsAre, OnScreenIsRect DEF Has
    <2>2. x <= px[1] /\ px[1] < X /\ y <= px[2] /\ px[2] < Y
      BY <1>5, <2>1
    <2>. QED
      BY <1>6, <2>1, <2>2, CornersHas
  <1>. QED
    BY <1>7, <1>8, <1>9

\* rect_contains means what it says.
LEMMA ContainsHolds ==
    ASSUME NEW a, NEW b, OnScreen(a), OnScreen(b), rect_contains(a, b)
    PROVE  Pixels(b) \subseteq Pixels(a)
  <1>. SUFFICES ASSUME NEW px \in Pixels(b) PROVE px \in Pixels(a)
    OBVIOUS
  <1>1. IsRect(a) /\ IsRect(b)
    BY OnScreenIsRect
  <1>2. Has(b, px)
    BY <1>1, PixelsAre
  <1>3. Has(a, px)
    BY <1>1, <1>2 DEF Has, rect_contains, IsRect, x2, y2
  <1>. QED
    BY <1>1, <1>3, PixelsAre

\* rect_clip of a mark that leaves something lies on the screen.
LEMMA ClipOnScreen ==
    ASSUME NEW m \in Marks, on_screen(m)
    PROVE  OnScreen(rect_clip(m))
  <1>1. PICK x \in Int, y \in Int, X \in Int, Y \in Int :
            x = m.x /\ y = m.y /\ X = x2(m) /\ Y = y2(m)
    BY DamageAssumption DEF x2, y2
  <1>2. PICK a \in Int, b \in Int, c \in Int, d \in Int :
            /\ a = upper(x, 0) /\ b = upper(y, 0)
            /\ c = lower(X, ScreenW) /\ d = lower(Y, ScreenH)
    BY DamageAssumption DEF upper, lower
  <1>3. 0 <= a /\ 0 <= b /\ c <= ScreenW /\ d <= ScreenH
    BY <1>2, DamageAssumption DEF upper, lower
  <1>4. rect_clip(m) = corners(a, b, c, d)
    BY <1>1, <1>2 DEF rect_clip
  <1>5. rect_clip(m).w = c - a /\ rect_clip(m).h = d - b
    BY <1>4 DEF corners
  <1>6. a < c /\ b < d
    BY <1>5 DEF on_screen
  <1>. QED
    BY <1>3, <1>4, <1>6, CornersOnScreen

\* Its pixels are pixels of the screen.
LEMMA OnScreenPixels ==
    ASSUME NEW r, OnScreen(r)
    PROVE  Pixels(r) \subseteq Screen
  <1>. SUFFICES ASSUME NEW px \in Pixels(r) PROVE px \in Screen
    OBVIOUS
  <1>1. Has(r, px) /\ IsRect(r) /\ r.x >= 0 /\ r.y >= 0
    BY OnScreenIsRect, PixelsAre
  <1>2. px \in Int \X Int /\ px[1] \in 0..(ScreenW - 1) /\ px[2] \in 0..(ScreenH - 1)
    BY <1>1, DamageAssumption DEF Has, OnScreen, IsRect, x2, y2
  <1>. QED
    BY <1>2 DEF Screen

\* The least of a nonempty set of naturals.
LEMMA MinIs ==
    ASSUME NEW S, S \subseteq Nat, S # {}
    PROVE  Min(S) \in S /\ \A y \in S : Min(S) <= y
  <1>1. PICK x \in S : \A y \in S : ~(<<y, x>> \in OpToRel(<, Nat))
    BY NatLessThanWellFounded, WFMin
  <1>2. \A y \in S : ~(y < x)
    BY <1>1, Zenon DEF OpToRel
  <1>3. \A y \in S : x <= y
    BY <1>2
  <1>. QED
    BY <1>3, Zenon DEF Min

\* The greatest of a nonempty set of naturals up to N.
LEMMA MaxIs ==
    ASSUME NEW N \in Nat, NEW S, S \subseteq 0..N, S # {}
    PROVE  Max(S) \in S /\ \A y \in S : y <= Max(S)
  <1>1. PICK R : R = {N - y : y \in S}
    OBVIOUS
  <1>2. R \subseteq Nat /\ R # {}
    <2>1. ASSUME NEW z \in R PROVE z \in Nat
      <3>1. PICK y \in S : z = N - y
        BY <1>1
      <3>2. y \in 0..N
        OBVIOUS
      <3>. QED
        BY <3>1, <3>2
    <2>2. PICK y \in S : TRUE
      OBVIOUS
    <2>3. N - y \in R
      BY <1>1
    <2>. QED
      BY <2>1, <2>3
  <1>3. PICK m \in R : \A z \in R : m <= z
    BY <1>2, MinIs
  <1>4. PICK x \in S : m = N - x
    BY <1>1, <1>3
  <1>5. \A y \in S : x >= y
    <2>. SUFFICES ASSUME NEW y \in S PROVE x >= y
      OBVIOUS
    <2>1. N - x <= N - y
      BY <1>1, <1>3, <1>4
    <2>2. x \in 0..N /\ y \in 0..N
      OBVIOUS
    <2>. QED
      BY <2>1, <2>2
  <1>6. Max(S) \in S /\ \A y \in S : Max(S) >= y
    BY <1>5, Zenon DEF Max
  <1>7. PICK z \in S : z = Max(S) /\ \A y \in S : z >= y
    BY <1>6
  <1>8. \A y \in S : y <= z
    BY <1>7
  <1>. QED
    BY <1>7, <1>8

\* What holds at 0 and goes from n to n + 1 holds of every number up to N.
LEMMA UpTo ==
    ASSUME NEW N \in Nat, NEW good, 0 \in good,
           \A n \in 1..N : n - 1 \in good => n \in good
    PROVE  \A n \in 0..N : n \in good
  <1>. SUFFICES ASSUME NEW b \in 0..N, b \notin good PROVE FALSE
    OBVIOUS
  <1>1. PICK S : S = {n \in 0..N : n \notin good}
    OBVIOUS
  <1>2. S \subseteq Nat /\ S # {}
    BY <1>1
  <1>3. PICK x \in S : \A y \in S : x <= y
    BY <1>2, MinIs
  <1>4. x \in 0..N /\ x \notin good /\ x # 0
    BY <1>1, <1>3
  <1>5. x \in 1..N /\ x - 1 \in 0..N /\ ~(x <= x - 1)
    BY <1>4
  <1>6. x - 1 \in good
    BY <1>1, <1>3, <1>5
  <1>. QED
    BY <1>4, <1>5, <1>6

\* The rectangle around all rectangles of S.
Around(S) == corners(Min({a.x : a \in S}), Min({a.y : a \in S}),
                     Max({x2(a) : a \in S}), Max({y2(a) : a \in S}))

\* It lies on the screen and holds them.
LEMMA AroundHolds ==
    ASSUME NEW S, S # {}, \A a \in S : OnScreen(a),
           NEW u, u = Around(S)
    PROVE  OnScreen(u) /\ \A a \in S : Pixels(a) \subseteq Pixels(u)
  <1>1. \A a \in S : /\ a.x \in Nat /\ a.y \in Nat /\ a.x < x2(a) /\ a.y < y2(a)
                     /\ x2(a) \in 0..ScreenW /\ y2(a) \in 0..ScreenH
    <2>. SUFFICES ASSUME NEW a \in S
                  PROVE  /\ a.x \in Nat /\ a.y \in Nat /\ a.x < x2(a) /\ a.y < y2(a)
                         /\ x2(a) \in 0..ScreenW /\ y2(a) \in 0..ScreenH
      OBVIOUS
    <2>1. OnScreen(a) /\ IsRect(a) /\ a.w >= 1 /\ a.h >= 1 /\ a.x >= 0 /\ a.y >= 0
      BY OnScreenIsRect
    <2>. QED
      BY <2>1, DamageAssumption DEF OnScreen, IsRect, x2, y2
  <1>2. PICK A, B, C, D : /\ A = {a.x : a \in S} /\ B = {a.y : a \in S}
                          /\ C = {x2(a) : a \in S} /\ D = {y2(a) : a \in S}
    OBVIOUS
  <1>3. PICK x, y, X, Y : x = Min(A) /\ y = Min(B) /\ X = Max(C) /\ Y = Max(D)
    OBVIOUS
  <1>4. (x \in A /\ \A n \in A : x <= n) /\ (y \in B /\ \A n \in B : y <= n)
    <2>1. A \subseteq Nat /\ A # {} /\ B \subseteq Nat /\ B # {}
      BY <1>1, <1>2
    <2>. QED
      BY <1>3, <2>1, MinIs
  <1>5. (X \in C /\ \A n \in C : n <= X) /\ (Y \in D /\ \A n \in D : n <= Y)
    <2>1. C \subseteq 0..ScreenW /\ C # {} /\ D \subseteq 0..ScreenH /\ D # {}
      BY <1>1, <1>2
    <2>. QED
      BY <1>3, <2>1, MaxIs, DamageAssumption
  <1>6. x \in Nat /\ y \in Nat /\ X \in 0..ScreenW /\ Y \in 0..ScreenH
    BY <1>1, <1>2, <1>4, <1>5
  <1>7. \A a \in S : x <= a.x /\ y <= a.y /\ x2(a) <= X /\ y2(a) <= Y
    BY <1>2, <1>4, <1>5
  <1>8. u = corners(x, y, X, Y)
    BY <1>2, <1>3 DEF Around
  <1>9. OnScreen(u)
    <2>1. PICK a \in S : TRUE
      OBVIOUS
    <2>2. PICK ax \in Int, ay \in Int, aX \in Int, aY \in Int :
              ax = a.x /\ ay = a.y /\ aX = x2(a) /\ aY = y2(a)
      BY <1>1
    <2>3. x <= ax /\ ax < aX /\ aX <= X /\ y <= ay /\ ay < aY /\ aY <= Y
      BY <1>1, <1>7, <2>2
    <2>4. x < X /\ y < Y /\ 0 <= x /\ 0 <= y /\ X <= ScreenW /\ Y <= ScreenH
      BY <1>6, <2>3, DamageAssumption
    <2>. QED
      BY <1>6, <1>8, <2>4, CornersOnScreen
  <1>10. ASSUME NEW a \in S, NEW px \in Pixels(a) PROVE px \in Pixels(u)
    <2>1. Has(a, px)
      BY <1>10, PixelsAre, OnScreenIsRect
    <2>2. PICK ax \in Int, ay \in Int, aX \in Int, aY \in Int :
              ax = a.x /\ ay = a.y /\ aX = x2(a) /\ aY = y2(a)
      BY <1>1, <1>10
    <2>3. /\ px \in Int \X Int /\ ax <= px[1] /\ px[1] < aX /\ ay <= px[2] /\ px[2] < aY
          /\ x <= ax /\ aX <= X /\ y <= ay /\ aY <= Y
      BY <1>7, <1>10, <2>1, <2>2 DEF Has
    <2>4. x <= px[1] /\ px[1] < X /\ y <= px[2] /\ px[2] < Y
      BY <1>6, <2>3
    <2>. QED
      BY <1>6, <1>8, <2>3, <2>4, CornersHas
  <1>. QED
    BY <1>9, <1>10

-----------------------------------------------------------------------------
(* The box of a program.                                                   *)

\* A box that is empty, or a rectangle of the screen.
BoxOnScreen(b) ==
    /\ b.dirty \in BOOLEAN
    /\ b.dirty => OnScreen(b.r)
    /\ ~b.dirty => b = NoBox

\* An empty box has no pixel.
LEMMA NoBoxEmpty ==
    Pixels(NoBox.r) = {}
  <1>1. Pixels(NoBox.r) = (0..(0 + 0 - 1)) \X (0..(0 + 0 - 1))
    BY DEF Pixels, NoBox, x2, y2
  <1>2. 0..(0 + 0 - 1) = {}
    OBVIOUS
  <1>. QED
    BY <1>1, <1>2

\* display_dirty_add keeps what the box holds and adds the rectangle.
LEMMA AddHolds ==
    ASSUME NEW b, BoxOnScreen(b), NEW r, OnScreen(r), NEW c, c = display_dirty_add(b, r)
    PROVE  BoxOnScreen(c) /\ Pixels(b.r) \subseteq Pixels(c.r) /\ Pixels(r) \subseteq Pixels(c.r)
  <1>1. c.dirty = TRUE
    BY DEF display_dirty_add
  <1>2. CASE b.dirty
    <2>1. c.r = rect_union(b.r, r)
      BY <1>2 DEF display_dirty_add
    <2>2. OnScreen(b.r)
      BY <1>2 DEF BoxOnScreen
    <2>. QED
      BY <1>1, <2>1, <2>2, UnionHolds DEF BoxOnScreen
  <1>3. CASE ~b.dirty
    <2>1. c.r = r
      BY <1>3 DEF display_dirty_add
    <2>2. Pixels(b.r) = {}
      BY <1>3, NoBoxEmpty DEF BoxOnScreen
    <2>. QED
      BY <1>1, <2>1, <2>2 DEF BoxOnScreen
  <1>. QED
    BY <1>2, <1>3

\* virtual_gpu_fbsync_write goes from one rectangle to the next: the function it
\* is defined by exists, since one up to n - 1 extends to n.
LEMMA WriteLoop ==
    ASSUME NEW b, NEW m \in 0..MaxRects
    PROVE  \E T : /\ T[0] = b
                  /\ \A n \in 1..MaxRects : T[n] = display_dirty_add(T[n - 1], rects[n - 1])
                  /\ fbsync_write(b, m) = T[m]
  <1>1. PICK list : list = rects
    OBVIOUS
  <1>. DEFINE Loop(g, n) ==
         g = [e \in 0..n |-> IF e = 0 THEN b ELSE display_dirty_add(g[e - 1], list[e - 1])]
  <1>. DEFINE good == {n \in 0..MaxRects : \E g : Loop(g, n)}
  <1>2. MaxRects \in Nat
    BY DamageAssumption
  <1>3. 0 \in good
    <2>1. PICK g : g = [e \in 0..0 |-> b]
      OBVIOUS
    <2>2. Loop(g, 0)
      BY <2>1
    <2>. QED
      BY <1>2, <2>2
  <1>4. ASSUME NEW n \in 1..MaxRects, n - 1 \in good PROVE n \in good
    <2>1. PICK g : Loop(g, n - 1)
      BY <1>4
    <2>2. PICK h : h = [e \in 0..n |-> IF e = n THEN display_dirty_add(g[n - 1], list[n - 1])
                                       ELSE g[e]]
      OBVIOUS
    <2>3. ASSUME NEW e \in 0..n
          PROVE  h[e] = IF e = 0 THEN b ELSE display_dirty_add(h[e - 1], list[e - 1])
      <3>1. CASE e = 0
        BY <1>2, <2>1, <2>2, <3>1
      <3>2. CASE e # 0 /\ e # n
        <4>1. e \in 0..(n - 1) /\ e - 1 \in 0..n /\ e - 1 # n
          BY <1>2, <3>2
        <4>2. h[e] = g[e] /\ h[e - 1] = g[e - 1]
          BY <2>2, <3>2, <4>1
        <4>3. g[e] = display_dirty_add(g[e - 1], list[e - 1])
          BY <2>1, <3>2, <4>1
        <4>. QED
          BY <3>2, <4>2, <4>3
      <3>3. CASE e = n
        <4>1. e # 0 /\ e - 1 \in 0..n /\ e - 1 # n
          BY <1>2, <3>3
        <4>2. h[e - 1] = g[n - 1] /\ h[e] = display_dirty_add(g[n - 1], list[n - 1])
          BY <2>2, <3>3, <4>1
        <4>. QED
          BY <3>3, <4>1, <4>2
      <3>. QED
        BY <3>1, <3>2, <3>3
    <2>4. Loop(h, n)
      <3>1. h = [e \in 0..n |-> h[e]]
        BY <2>2
      <3>. QED
        BY <2>3, <3>1
    <2>. QED
      BY <1>2, <2>4
  <1>5. MaxRects \in good
    <2>. HIDE DEF good
    <2>1. \A n \in 0..MaxRects : n \in good
      BY <1>2, <1>3, <1>4, UpTo
    <2>. QED
      BY <1>2, <2>1
  <1>6. PICK T : T = CHOOSE g : Loop(g, MaxRects)
    OBVIOUS
  <1>7. Loop(T, MaxRects)
    BY <1>5, <1>6, Zenon
  <1>8. fbsync_write(b, m) = T[m]
    BY <1>1, <1>6 DEF fbsync_write
  <1>9. T[0] = b /\ \A n \in 1..MaxRects : T[n] = display_dirty_add(T[n - 1], rects[n - 1])
    BY <1>1, <1>2, <1>7
  <1>. QED
    BY <1>8, <1>9

\* The box after a write of m rectangles holds what it held and all of them.
LEMMA WriteHolds ==
    ASSUME NEW b, BoxOnScreen(b), NEW m \in 0..MaxRects,
           NEW list, list = rects, \A e \in Slots : OnScreen(list[e]),
           NEW c, c = fbsync_write(b, m)
    PROVE  /\ BoxOnScreen(c) /\ Pixels(b.r) \subseteq Pixels(c.r)
           /\ \A e \in Slots : e < m => Pixels(list[e]) \subseteq Pixels(c.r)
  <1>1. MaxRects \in Nat
    BY DamageAssumption
  <1>2. PICK T : /\ T[0] = b
                 /\ \A n \in 1..MaxRects : T[n] = display_dirty_add(T[n - 1], list[n - 1])
                 /\ c = T[m]
    BY WriteLoop
  <1>. DEFINE good ==
         {n \in 0..MaxRects :
            /\ BoxOnScreen(T[n]) /\ Pixels(b.r) \subseteq Pixels(T[n].r)
            /\ \A e \in Slots : e < n => Pixels(list[e]) \subseteq Pixels(T[n].r)}
  <1>3. 0 \in good
    BY <1>1, <1>2 DEF Slots
  <1>4. ASSUME NEW n \in 1..MaxRects, n - 1 \in good PROVE n \in good
    <2>1. n - 1 \in Slots /\ n \in 0..MaxRects
      BY <1>1 DEF Slots
    <2>2. PICK old, new : old = T[n - 1] /\ new = T[n]
      OBVIOUS
    <2>3. new = display_dirty_add(old, list[n - 1])
      BY <1>2, <2>2
    <2>4. BoxOnScreen(old) /\ OnScreen(list[n - 1])
      BY <1>4, <2>1, <2>2
    <2>5. /\ BoxOnScreen(new) /\ Pixels(old.r) \subseteq Pixels(new.r)
          /\ Pixels(list[n - 1]) \subseteq Pixels(new.r)
      BY <2>3, <2>4, AddHolds
    <2>6. /\ Pixels(b.r) \subseteq Pixels(old.r)
          /\ \A e \in Slots : e < n - 1 => Pixels(list[e]) \subseteq Pixels(old.r)
      BY <1>4, <2>2
    <2>7. \A e \in Slots : e < n => e < n - 1 \/ e = n - 1
      BY <1>1 DEF Slots
    <2>8. \A e \in Slots : e < n => Pixels(list[e]) \subseteq Pixels(new.r)
      BY <2>5, <2>6, <2>7
    <2>. QED
      BY <2>1, <2>2, <2>5, <2>6, <2>8
  <1>5. m \in good
    <2>. HIDE DEF good
    <2>1. \A n \in 0..MaxRects : n \in good
      BY <1>1, <1>3, <1>4, UpTo
    <2>. QED
      BY <2>1
  <1>. QED
    BY <1>2, <1>5

-----------------------------------------------------------------------------
(* The invariant.                                                          *)

\* The kernel's rectangle of a program lies on the screen: this is what keeps it
\* from growing wider than the screen as others are added.
DamageInv == DamageTypeOK /\ BoxOnScreen(box) /\ NothingDropped

\* A pixel of the list.
LEMMA CoverIs ==
    ASSUME NEW a, NEW n, NEW px
    PROVE  px \in CoverOf(a, n) <=> \E e \in Slots : e < n /\ px \in Pixels(a[e])
  BY DEF CoverOf

\* The list of rectangles on the screen.
IsList(a) == a \in [Slots -> Rect] /\ \A e \in Slots : OnScreen(a[e])

\* DamageTypeOK in these words.
LEMMA TypeIs ==
    DamageTypeOK <=>
        /\ owner \in {"kernel", "library", "desktop"}
        /\ IsList(rects)
        /\ count \in 0..MaxRects
        /\ merge \in [on : BOOLEAN, i : Slots, j : 0..MaxRects]
        /\ owed \subseteq Screen
        /\ lost \subseteq Screen
  BY DEF DamageTypeOK, IsList, OnScreen

\* The pixels of a list lie on the screen.
LEMMA CoverOnScreen ==
    ASSUME NEW a, IsList(a), NEW n
    PROVE  CoverOf(a, n) \subseteq Screen
  BY CoverIs, OnScreenPixels DEF IsList

\* The list with r in place e.
Put(a, e, r) == [a EXCEPT ![e] = r]

\* One place of the list is set.
LEMMA SetList ==
    ASSUME NEW a, IsList(a), NEW e \in Slots, NEW r, OnScreen(r), NEW b, b = Put(a, e, r)
    PROVE  /\ IsList(b) /\ b[e] = r /\ \A i \in Slots : i # e => b[i] = a[i]
  BY DEF IsList, OnScreen, Put

\* The places from n on are cleared.
LEMMA KeptList ==
    ASSUME NEW a, IsList(a), NEW n
    PROVE  IsList(kept(a, n)) /\ CoverOf(kept(a, n), n) = CoverOf(a, n)
  <1>1. OnScreen(Unused)
    BY DamageAssumption DEF OnScreen, Unused, Rect, x2, y2
  <1>2. IsList(kept(a, n))
    BY <1>1 DEF IsList, kept, OnScreen
  <1>3. \A e \in Slots : e < n => kept(a, n)[e] = a[e]
    BY DEF kept
  <1>4. PICK b : b = kept(a, n)
    OBVIOUS
  <1>5. ASSUME NEW px PROVE px \in CoverOf(b, n) <=> px \in CoverOf(a, n)
    BY <1>3, <1>4, CoverIs
  <1>6. CoverOf(b, n) = CoverOf(a, n)
    BY <1>5
  <1>. QED
    BY <1>2, <1>4, <1>6

-----------------------------------------------------------------------------
(* Marking damage.                                                         *)

\* What a call that marks r has to show.
LEMMA MarkKeeps ==
    ASSUME DamageInv, NEW r, OnScreen(r), UNCHANGED <<owner, box>>,
           owed' = owed \cup Pixels(r),
           IsList(rects'), count' \in 0..MaxRects,
           merge' \in [on : BOOLEAN, i : Slots, j : 0..MaxRects], lost' \subseteq Screen,
           CoverOf(rects, count) \cup lost \subseteq CoverOf(rects', count') \cup lost',
           Pixels(r) \subseteq CoverOf(rects', count')
    PROVE  DamageInv'
  <1>1. owed' \subseteq Screen
    BY OnScreenPixels, TypeIs DEF DamageInv
  <1>2. DamageTypeOK'
    <2>1. owner' \in {"kernel", "library", "desktop"}
      BY TypeIs DEF DamageInv
    <2>. QED
      BY <1>1, <2>1 DEF DamageTypeOK, IsList, OnScreen
  <1>3. BoxOnScreen(box)' /\ box' = box
    BY DEF DamageInv, BoxOnScreen
  <1>4. NothingDropped'
    BY <1>3 DEF DamageInv, NothingDropped, Cover
  <1>. QED
    BY <1>2, <1>3, <1>4 DEF DamageInv

\* A rectangle for itself is one more of the list.
LEMMA AppendKeeps ==
    ASSUME DamageInv, NEW r, OnScreen(r), UNCHANGED <<owner, box>>,
           owed' = owed \cup Pixels(r), append(r)
    PROVE  DamageInv'
  <1>1. PICK a, n, b, m : a = rects /\ n = count /\ b = rects' /\ m = count'
    OBVIOUS
  <1>2. IsList(a) /\ n \in 0..MaxRects /\ n < MaxRects /\ m = n + 1 /\ b = Put(a, n, r)
    BY <1>1, TypeIs DEF DamageInv, append, Put
  <1>3. n \in Slots /\ m \in 0..MaxRects /\ \A e \in Slots : e < n => e < m /\ e # n
    BY <1>2, DamageAssumption DEF Slots
  <1>4. IsList(b) /\ b[n] = r /\ \A i \in Slots : i # n => b[i] = a[i]
    BY <1>2, <1>3, SetList
  <1>5. Pixels(r) \subseteq CoverOf(b, m)
    <2>1. n < m
      BY <1>2
    <2>. QED
      BY <1>3, <1>4, <2>1, CoverIs
  <1>6. CoverOf(a, n) \subseteq CoverOf(b, m)
    <2>. SUFFICES ASSUME NEW px \in CoverOf(a, n) PROVE px \in CoverOf(b, m)
      OBVIOUS
    <2>. QED
      BY <1>3, <1>4, CoverIs
  <1>7. lost' = lost \ Pixels(r) /\ lost \subseteq Screen /\ merge' = merge
        /\ merge \in [on : BOOLEAN, i : Slots, j : 0..MaxRects]
    BY TypeIs DEF append, DamageInv
  <1>. QED
    BY <1>1, <1>3, <1>4, <1>5, <1>6, <1>7, MarkKeeps

\* The rectangle around everything is the first and only one.
LEMMA CollapseKeeps ==
    ASSUME DamageInv, NEW r, OnScreen(r), UNCHANGED <<owner, box>>,
           owed' = owed \cup Pixels(r), collapse(r)
    PROVE  DamageInv'
  <1>1. PICK a, n, b, m : a = rects /\ n = count /\ b = rects' /\ m = count'
    OBVIOUS
  <1>2. PICK all, u : all = {a[e] : e \in Slots} \cup {r} /\ u = Around(all)
    OBVIOUS
  <1>3. IsList(a) /\ m = 1 /\ b = kept(Put(a, 0, u), 1)
    BY <1>1, <1>2, TypeIs DEF DamageInv, collapse, Put, Around
  <1>4. OnScreen(u) /\ \A c \in all : Pixels(c) \subseteq Pixels(u)
    <2>1. all # {} /\ \A c \in all : OnScreen(c)
      BY <1>2, <1>3 DEF IsList
    <2>. QED
      BY <1>2, <2>1, AroundHolds
  <1>5. 0 \in Slots /\ 0 < 1 /\ m \in 0..MaxRects
    BY <1>3, DamageAssumption DEF Slots
  <1>6. IsList(b) /\ b[0] = u
    <2>1. PICK c : c = Put(a, 0, u)
      OBVIOUS
    <2>2. IsList(c) /\ c[0] = u
      BY <1>3, <1>4, <1>5, <2>1, SetList
    <2>3. IsList(kept(c, 1)) /\ kept(c, 1)[0] = u
      BY <1>5, <2>2, KeptList DEF kept
    <2>. QED
      BY <1>3, <2>1, <2>3
  <1>7. Pixels(u) \subseteq CoverOf(b, m)
    BY <1>3, <1>5, <1>6, CoverIs
  <1>8. Pixels(r) \subseteq CoverOf(b, m)
    BY <1>2, <1>4, <1>7
  <1>9. CoverOf(a, n) \subseteq CoverOf(b, m)
    <2>. SUFFICES ASSUME NEW px \in CoverOf(a, n) PROVE px \in CoverOf(b, m)
      OBVIOUS
    <2>1. PICK e \in Slots : px \in Pixels(a[e])
      BY CoverIs
    <2>2. a[e] \in all
      BY <1>2
    <2>. QED
      BY <1>4, <1>7, <2>1, <2>2
  <1>10. lost' = lost \ Pixels(r) /\ lost \subseteq Screen /\ merge' = merge
         /\ merge \in [on : BOOLEAN, i : Slots, j : 0..MaxRects]
    BY TypeIs DEF collapse, DamageInv
  <1>. QED
    BY <1>1, <1>5, <1>6, <1>8, <1>9, <1>10, MarkKeeps

\* What the desktop's list loses is counted as lost.
LEMMA StartOverKeeps ==
    ASSUME DamageInv, NEW r, OnScreen(r), UNCHANGED <<owner, box>>,
           owed' = owed \cup Pixels(r), start_over(r)
    PROVE  DamageInv'
  <1>1. PICK a, n, b, m : a = rects /\ n = count /\ b = rects' /\ m = count'
    OBVIOUS
  <1>2. 0 \in Slots /\ 0 < 1 /\ 1 \in 0..MaxRects
    BY DamageAssumption DEF Slots
  <1>3. PICK u : u = rect_union(a[0], r)
    OBVIOUS
  <1>4. IsList(a) /\ m = 1 /\ b = kept(Put(a, 0, u), 1)
    BY <1>1, <1>3, TypeIs DEF DamageInv, start_over, Put
  <1>5. OnScreen(u) /\ Pixels(r) \subseteq Pixels(u)
    BY <1>2, <1>3, <1>4, UnionHolds DEF IsList
  <1>6. IsList(b) /\ b[0] = u
    <2>1. PICK c : c = Put(a, 0, u)
      OBVIOUS
    <2>2. IsList(c) /\ c[0] = u
      BY <1>2, <1>4, <1>5, <2>1, SetList
    <2>3. IsList(kept(c, 1)) /\ kept(c, 1)[0] = u
      BY <1>2, <2>2, KeptList DEF kept
    <2>. QED
      BY <1>4, <2>1, <2>3
  <1>7. Pixels(r) \subseteq CoverOf(b, m)
    BY <1>2, <1>4, <1>5, <1>6, CoverIs
  <1>8. lost' = (lost \cup CoverOf(a, n)) \ CoverOf(b, m) /\ merge' = merge
        /\ merge \in [on : BOOLEAN, i : Slots, j : 0..MaxRects] /\ lost \subseteq Screen
    BY <1>1, <1>4, TypeIs DEF start_over, DamageInv, Cover
  <1>9. lost' \subseteq Screen
    BY <1>4, <1>8, CoverOnScreen
  <1>. QED
    BY <1>1, <1>2, <1>4, <1>6, <1>7, <1>8, <1>9, MarkKeeps

\* The first rectangle met holds the new one, or grows to.
LEMMA AbsorbKeeps ==
    ASSUME DamageInv, NEW r, OnScreen(r), UNCHANGED <<owner, box>>,
           owed' = owed \cup Pixels(r), absorb(r)
    PROVE  DamageInv'
  <1>1. PICK a, n, b, m : a = rects /\ n = count /\ b = rects' /\ m = count'
    OBVIOUS
  <1>2. /\ IsList(a) /\ m = n /\ n \in 0..MaxRects /\ lost' = lost \ Pixels(r)
        /\ lost \subseteq Screen /\ merge \in [on : BOOLEAN, i : Slots, j : 0..MaxRects]
    BY <1>1, TypeIs DEF DamageInv, absorb
  <1>3. PICK i \in hits(r) : i = Min(hits(r))
    <2>1. hits(r) \subseteq Nat /\ hits(r) # {}
      BY DamageAssumption DEF hits, Slots, absorb
    <2>. QED
      BY <2>1, MinIs
  <1>4. i \in Slots /\ i < n
    BY <1>1, <1>3 DEF hits
  <1>5. CASE rect_contains(a[i], r) /\ UNCHANGED <<rects, merge>>
    <2>1. Pixels(r) \subseteq Pixels(a[i])
      BY <1>2, <1>4, <1>5, ContainsHolds DEF IsList
    <2>2. Pixels(r) \subseteq CoverOf(a, n)
      BY <1>4, <2>1, CoverIs
    <2>. QED
      BY <1>1, <1>2, <1>5, <2>2, MarkKeeps
  <1>6. CASE /\ b = Put(a, i, rect_union(a[i], r))
             /\ merge' = [on |-> TRUE, i |-> i, j |-> 0]
    <2>1. PICK u : u = rect_union(a[i], r)
      OBVIOUS
    <2>2. OnScreen(u) /\ Pixels(a[i]) \subseteq Pixels(u) /\ Pixels(r) \subseteq Pixels(u)
      BY <1>2, <1>4, <2>1, UnionHolds DEF IsList
    <2>3. IsList(b) /\ b[i] = u /\ \A e \in Slots : e # i => b[e] = a[e]
      <3>1. b = Put(a, i, u)
        BY <1>6, <2>1
      <3>2. IsList(a) /\ i \in Slots /\ OnScreen(u)
        BY <1>2, <1>4, <2>2
      <3>. QED
        BY <3>1, <3>2, SetList
    <2>4. Pixels(u) \subseteq CoverOf(b, n)
      BY <1>4, <2>3, CoverIs
    <2>5. Pixels(r) \subseteq CoverOf(b, n)
      BY <2>2, <2>4
    <2>6. CoverOf(a, n) \subseteq CoverOf(b, n)
      <3>. SUFFICES ASSUME NEW px \in CoverOf(a, n) PROVE px \in CoverOf(b, n)
        OBVIOUS
      <3>1. PICK e \in Slots : e < n /\ px \in Pixels(a[e])
        BY CoverIs
      <3>2. CASE e = i
        BY <2>2, <2>4, <3>1, <3>2
      <3>3. CASE e # i
        BY <2>3, <3>1, <3>3, CoverIs
      <3>. QED
        BY <3>2, <3>3
    <2>7. merge' \in [on : BOOLEAN, i : Slots, j : 0..MaxRects]
      BY <1>4, <1>6, DamageAssumption
    <2>. QED
      BY <1>1, <1>2, <2>3, <2>5, <2>6, <2>7, MarkKeeps
  <1>. QED
    BY <1>1, <1>3, <1>5, <1>6 DEF absorb, Put

\* fb_mark_dirty, dirty_add_screen, gpu_dirty_add and add_damage_rect.
LEMMA MarkingKeeps ==
    ASSUME DamageInv, NEW m \in Marks, mark(m), UNCHANGED <<owner, box>>
    PROVE  DamageInv'
  <1>1. PICK r : r = rect_clip(m)
    OBVIOUS
  <1>2. OnScreen(r)
    BY <1>1, ClipOnScreen DEF mark
  <1>3. owed' = owed \cup Pixels(r) /\ (append(r) \/ collapse(r) \/ start_over(r) \/ absorb(r))
    BY <1>1 DEF mark
  <1>. QED
    BY <1>2, <1>3, AppendKeeps, CollapseKeeps, StartOverKeeps, AbsorbKeeps

-----------------------------------------------------------------------------
(* The merge loop.                                                         *)

\* What a step that marks nothing and leaves the box alone has to show.
LEMMA QuietKeeps ==
    ASSUME DamageInv, UNCHANGED <<owner, box>>, owed' \subseteq owed,
           IsList(rects'), count' \in 0..MaxRects,
           merge' \in [on : BOOLEAN, i : Slots, j : 0..MaxRects], lost' \subseteq Screen,
           owed' \cap (CoverOf(rects, count) \cup lost) \subseteq CoverOf(rects', count') \cup lost'
    PROVE  DamageInv'
  <1>1. DamageTypeOK'
    <2>1. owner' \in {"kernel", "library", "desktop"} /\ owed' \subseteq Screen
      BY TypeIs DEF DamageInv
    <2>. QED
      BY <2>1 DEF DamageTypeOK, IsList, OnScreen
  <1>2. BoxOnScreen(box)' /\ box' = box
    BY DEF DamageInv, BoxOnScreen
  <1>3. NothingDropped'
    BY <1>2 DEF DamageInv, NothingDropped, Cover
  <1>. QED
    BY <1>1, <1>2, <1>3 DEF DamageInv

\* j goes on to the next rectangle.
LEMMA SkipKeeps ==
    ASSUME DamageInv, merge_skips, UNCHANGED <<owner, box>>
    PROVE  DamageInv'
  <1>1. PICK m, n : m = merge /\ n = count
    OBVIOUS
  <1>2. /\ m \in [on : BOOLEAN, i : Slots, j : 0..MaxRects] /\ n \in 0..MaxRects
        /\ m.j < n /\ merge' = [m EXCEPT !.j = @ + 1]
    BY <1>1, TypeIs DEF DamageInv, merge_skips
  <1>3. merge' \in [on : BOOLEAN, i : Slots, j : 0..MaxRects]
    BY <1>2, DamageAssumption
  <1>4. UNCHANGED <<rects, count, owed, lost>> /\ IsList(rects) /\ lost \subseteq Screen
    BY TypeIs DEF DamageInv, merge_skips
  <1>. QED
    BY <1>1, <1>2, <1>3, <1>4, QuietKeeps

\* Rectangle i takes rectangle j in, and the last fills the hole: as long as i is
\* not the last itself, the shorter list holds what the longer one held.
LEMMA TakenHolds ==
    ASSUME NEW a, IsList(a), NEW n \in 0..MaxRects, NEW i \in Slots, NEW j \in Slots,
           j < n, i # j, NEW u, u = rect_union(a[i], a[j]),
           NEW g, g = Put(a, i, u), NEW b, b = Put(g, j, g[n - 1])
    PROVE  IsList(b) /\ (i < n - 1 => CoverOf(a, n) \subseteq CoverOf(b, n - 1))
  <1>1. OnScreen(u) /\ Pixels(a[i]) \subseteq Pixels(u) /\ Pixels(a[j]) \subseteq Pixels(u)
    BY UnionHolds DEF IsList
  <1>2. IsList(g) /\ g[i] = u /\ \A e \in Slots : e # i => g[e] = a[e]
    BY <1>1, SetList
  <1>3. n - 1 \in Slots
    BY DamageAssumption DEF Slots
  <1>4. IsList(b) /\ b[j] = g[n - 1] /\ \A e \in Slots : e # j => b[e] = g[e]
    <2>1. OnScreen(g[n - 1])
      BY <1>2, <1>3 DEF IsList
    <2>. QED
      BY <1>2, <2>1, SetList
  <1>5. ASSUME i < n - 1, NEW px \in CoverOf(a, n) PROVE px \in CoverOf(b, n - 1)
    <2>1. PICK e \in Slots : e < n /\ px \in Pixels(a[e])
      BY <1>5, CoverIs
    <2>2. b[i] = u
      BY <1>2, <1>4
    <2>3. CASE e = i \/ e = j
      <3>1. px \in Pixels(b[i])
        BY <1>1, <2>1, <2>2, <2>3
      <3>. QED
        BY <1>5, <3>1, CoverIs
    <2>4. CASE e # i /\ e # j /\ e = n - 1
      <3>1. j < n - 1
        BY <2>4, DamageAssumption DEF Slots
      <3>2. b[j] = a[e]
        BY <1>2, <1>4, <2>4
      <3>. QED
        BY <2>1, <3>1, <3>2, CoverIs
    <2>5. CASE e # i /\ e # j /\ e # n - 1
      <3>1. e < n - 1
        BY <2>1, <2>5, DamageAssumption DEF Slots
      <3>2. b[e] = a[e]
        BY <1>2, <1>4, <2>5
      <3>. QED
        BY <2>1, <3>1, <3>2, CoverIs
    <2>. QED
      BY <2>3, <2>4, <2>5
  <1>. QED
    BY <1>4, <1>5

\* A rectangle is taken; what a slip of the loop loses is counted as lost.
LEMMA TakeKeeps ==
    ASSUME DamageInv, merge_takes, UNCHANGED <<owner, box>>
    PROVE  DamageInv'
  <1>1. PICK a, n, i, j, b : a = rects /\ n = count /\ i = merge.i /\ j = merge.j /\ b = rects'
    OBVIOUS
  <1>2. /\ IsList(a) /\ n \in 0..MaxRects /\ i \in Slots /\ j \in 0..MaxRects
        /\ merge \in [on : BOOLEAN, i : Slots, j : 0..MaxRects] /\ lost \subseteq Screen
    BY <1>1, TypeIs DEF DamageInv
  <1>3. /\ j < n /\ j # i /\ count' = n - 1 /\ merge' = merge /\ owed' = owed
        /\ lost' = IF i >= n - 1 THEN lost \cup (CoverOf(a, n) \ CoverOf(b, n - 1)) ELSE lost
        /\ b = taken(i, j)
    BY <1>1 DEF merge_takes, Cover
  <1>4. j \in Slots /\ n - 1 \in 0..MaxRects
    BY <1>2, <1>3, DamageAssumption DEF Slots
  <1>5. PICK u, g : u = rect_union(a[i], a[j]) /\ g = Put(a, i, u)
    OBVIOUS
  <1>6. b = Put(g, j, g[n - 1])
    BY <1>1, <1>3, <1>5 DEF taken, Put
  <1>7. IsList(b) /\ (i < n - 1 => CoverOf(a, n) \subseteq CoverOf(b, n - 1))
    BY <1>2, <1>3, <1>4, <1>5, <1>6, TakenHolds
  <1>8. CASE i >= n - 1
    <2>1. lost' = lost \cup (CoverOf(a, n) \ CoverOf(b, n - 1))
      BY <1>3, <1>8
    <2>2. lost' \subseteq Screen
      BY <1>2, <2>1, CoverOnScreen
    <2>. QED
      BY <1>1, <1>2, <1>3, <1>4, <1>7, <2>1, <2>2, QuietKeeps
  <1>9. CASE ~(i >= n - 1)
    <2>1. i < n - 1 /\ lost' = lost
      BY <1>2, <1>3, <1>9, DamageAssumption DEF Slots
    <2>. QED
      BY <1>1, <1>2, <1>3, <1>4, <1>7, <2>1, QuietKeeps
  <1>. QED
    BY <1>8, <1>9

\* The loop is over.
LEMMA EndKeeps ==
    ASSUME DamageInv, merge_ends, UNCHANGED <<owner, box>>
    PROVE  DamageInv'
  <1>1. PICK a, n : a = rects /\ n = count
    OBVIOUS
  <1>2. /\ IsList(a) /\ n \in 0..MaxRects /\ lost \subseteq Screen
        /\ rects' = kept(a, n) /\ merge' = NoMerge /\ UNCHANGED <<count, owed, lost>>
    BY <1>1, TypeIs DEF DamageInv, merge_ends
  <1>3. IsList(kept(a, n)) /\ CoverOf(kept(a, n), n) = CoverOf(a, n)
    BY <1>2, KeptList
  <1>4. NoMerge \in [on : BOOLEAN, i : Slots, j : 0..MaxRects]
    BY DamageAssumption DEF NoMerge, Slots
  <1>. QED
    BY <1>1, <1>2, <1>3, <1>4, QuietKeeps

-----------------------------------------------------------------------------
(* Damage leaves the list.                                                 *)

\* The kernel or the desktop draws what its list holds.
LEMMA FlushKeeps ==
    ASSUME DamageInv, list_flushes, UNCHANGED owner
    PROVE  DamageInv'
  <1>1. PICK a, n : a = rects /\ n = count
    OBVIOUS
  <1>2. /\ IsList(a) /\ lost \subseteq Screen
        /\ merge \in [on : BOOLEAN, i : Slots, j : 0..MaxRects]
        /\ rects' = kept(a, 0) /\ merge' = merge /\ count' = 0 /\ box' = box
        /\ owed' = owed \ CoverOf(a, n) /\ lost' = lost \ CoverOf(a, n)
    BY <1>1, TypeIs DEF DamageInv, list_flushes, flush, Cover
  <1>3. IsList(kept(a, 0))
    BY <1>2, KeptList
  <1>4. 0 \in 0..MaxRects
    BY DamageAssumption
  <1>. QED
    BY <1>1, <1>2, <1>3, <1>4, QuietKeeps

\* What a step that changes the box has to show.
LEMMA BoxKeeps ==
    ASSUME DamageInv, NEW c, box' = c, BoxOnScreen(c), owner' = owner, merge' = merge,
           IsList(rects'), count' \in 0..MaxRects, owed' \subseteq owed, lost' \subseteq lost,
           owed' \cap (CoverOf(rects, count) \cup Pixels(box.r) \cup lost)
             \subseteq CoverOf(rects', count') \cup Pixels(c.r) \cup lost'
    PROVE  DamageInv'
  <1>1. DamageTypeOK'
    <2>1. /\ owner' \in {"kernel", "library", "desktop"} /\ owed' \subseteq Screen
          /\ lost' \subseteq Screen /\ merge' \in [on : BOOLEAN, i : Slots, j : 0..MaxRects]
      BY TypeIs DEF DamageInv
    <2>. QED
      BY <2>1 DEF DamageTypeOK, IsList, OnScreen
  <1>2. NothingDropped'
    BY DEF DamageInv, NothingDropped, Cover
  <1>. QED
    BY <1>1, <1>2 DEF DamageInv

\* The box takes the list over.
LEMMA SyncKeeps ==
    ASSUME DamageInv, gpu_sync, UNCHANGED owner
    PROVE  DamageInv'
  <1>1. PICK a, n, b, c : a = rects /\ n = count /\ b = box /\ c = fbsync_write(b, n)
    OBVIOUS
  <1>2. /\ IsList(a) /\ n \in 0..MaxRects /\ BoxOnScreen(b) /\ box' = c
        /\ rects' = kept(a, 0) /\ count' = 0 /\ UNCHANGED <<merge, owed, lost>>
    BY <1>1, TypeIs DEF DamageInv, gpu_sync
  <1>3. /\ BoxOnScreen(c) /\ Pixels(b.r) \subseteq Pixels(c.r)
        /\ \A e \in Slots : e < n => Pixels(a[e]) \subseteq Pixels(c.r)
    BY <1>1, <1>2, WriteHolds DEF IsList
  <1>4. CoverOf(a, n) \subseteq Pixels(c.r)
    BY <1>3, CoverIs
  <1>5. IsList(kept(a, 0)) /\ 0 \in 0..MaxRects
    BY <1>2, KeptList, DamageAssumption
  <1>. QED
    BY <1>1, <1>2, <1>3, <1>4, <1>5, BoxKeeps

\* The whole screen is a rectangle on the screen.
LEMMA FullOnScreen ==
    OnScreen(Full)
  BY CornersOnScreen, DamageAssumption DEF Full

\* An empty list makes the box the whole screen, unless it holds something.
LEMMA SyncEmptyKeeps ==
    ASSUME DamageInv, gpu_sync_empty, UNCHANGED owner
    PROVE  DamageInv'
  <1>1. PICK a, n, b, c : a = rects /\ n = count /\ b = box /\ c = box'
    OBVIOUS
  <1>2. /\ IsList(a) /\ n \in 0..MaxRects /\ BoxOnScreen(b)
        /\ c = IF b.dirty THEN b ELSE [dirty |-> TRUE, r |-> Full]
        /\ lost' = lost \ Pixels(c.r) /\ UNCHANGED <<rects, count, merge, owed>>
    BY <1>1, TypeIs DEF DamageInv, gpu_sync_empty
  <1>3. BoxOnScreen(c) /\ Pixels(b.r) \subseteq Pixels(c.r)
    <2>1. CASE b.dirty
      BY <1>2, <2>1
    <2>2. CASE ~b.dirty
      <3>1. c.dirty = TRUE /\ c.r = Full /\ Pixels(b.r) = {}
        BY <1>2, <2>2, NoBoxEmpty DEF BoxOnScreen
      <3>. QED
        BY <3>1, FullOnScreen DEF BoxOnScreen
    <2>. QED
      BY <2>1, <2>2
  <1>. QED
    BY <1>1, <1>2, <1>3, BoxKeeps

\* The desktop takes the box over.
LEMMA ReadKeeps ==
    ASSUME DamageInv, fbsync_read, UNCHANGED owner
    PROVE  DamageInv'
  <1>1. BoxOnScreen(NoBox)
    BY DEF BoxOnScreen, NoBox
  <1>2. /\ box' = NoBox /\ owed' = owed \ Pixels(box.r) /\ lost' = lost \ Pixels(box.r)
        /\ UNCHANGED <<rects, count, merge>> /\ IsList(rects) /\ count \in 0..MaxRects
    BY TypeIs DEF fbsync_read, DamageInv
  <1>. QED
    BY <1>1, <1>2, BoxKeeps

\* Nothing is owed to a program that is gone.
LEMMA ResetKeeps ==
    ASSUME DamageInv, reset_display, UNCHANGED owner
    PROVE  DamageInv'
  <1>1. PICK a : a = rects
    OBVIOUS
  <1>2. BoxOnScreen(NoBox)
    BY DEF BoxOnScreen, NoBox
  <1>3. /\ box' = NoBox /\ owed' = {} /\ lost' = {} /\ merge' = merge
        /\ rects' = kept(a, 0) /\ count' = 0 /\ IsList(a)
    BY <1>1, TypeIs DEF reset_display, DamageInv
  <1>4. IsList(kept(a, 0)) /\ 0 \in 0..MaxRects
    BY <1>3, KeptList, DamageAssumption
  <1>. QED
    BY <1>2, <1>3, <1>4, BoxKeeps

-----------------------------------------------------------------------------
\* Rectangles stay on the screen, and damage that was marked is in the list, in
\* the kernel's rectangle of the program, drawn, or dropped by one of two slips
\* (fb_mark_dirty, add_damage_rect, gpu_sync, fbsync_write, fbsync_read), for any
\* screen, any list and any marks.
THEOREM DamageInvHolds == AppSpec => []DamageInv
  <1>1. AppInit => DamageInv
    <2>. SUFFICES ASSUME AppInit PROVE DamageInv
      OBVIOUS
    <2>1. OnScreen(Unused)
      BY DamageAssumption DEF OnScreen, Unused, Rect, x2, y2
    <2>2. IsList(rects)
      BY <2>1 DEF IsList, AppInit, DamageInit, OnScreen
    <2>3. merge \in [on : BOOLEAN, i : Slots, j : 0..MaxRects] /\ count \in 0..MaxRects
      BY DamageAssumption DEF AppInit, DamageInit, NoMerge, Slots
    <2>4. DamageTypeOK
      BY <2>2, <2>3, TypeIs DEF AppInit, DamageInit
    <2>5. BoxOnScreen(box)
      BY DEF AppInit, BoxOnScreen, NoBox
    <2>6. NothingDropped
      BY DEF AppInit, DamageInit, NothingDropped
    <2>. QED
      BY <2>4, <2>5, <2>6 DEF DamageInv
  <1>2. DamageInv /\ [AppNext]_appVars => DamageInv'
    <2>. SUFFICES ASSUME DamageInv, [AppNext]_appVars PROVE DamageInv'
      OBVIOUS
    <2>1. CASE \E m \in Marks : am_gpu_fbdraw(m) /\ UNCHANGED owner
      BY <2>1, MarkingKeeps DEF am_gpu_fbdraw
    <2>2. CASE fbdraw_merges /\ UNCHANGED owner
      BY <2>2, SkipKeeps, TakeKeeps, EndKeeps DEF fbdraw_merges, merge_step
    <2>3. CASE UNCHANGED appVars
      <3>1. UNCHANGED <<owner, rects, count, merge, owed, lost, box>>
        BY <2>3 DEF appVars
      <3>2. DamageTypeOK'
        BY <3>1 DEF DamageInv, DamageTypeOK
      <3>3. NothingDropped'
        BY <3>1 DEF DamageInv, NothingDropped, Cover
      <3>. QED
        BY <3>1, <3>2, <3>3 DEF DamageInv, BoxOnScreen
    <2>. QED
      BY <2>1, <2>2, <2>3, FlushKeeps, SyncKeeps, SyncEmptyKeeps, ReadKeeps, ResetKeeps
      DEF AppNext
  <1>. QED
    BY <1>1, <1>2, PTL DEF AppSpec

\* DamageConsistent holds of every screen and every list.
THEOREM DamageAlwaysConsistent == AppSpec => []DamageConsistent
  <1>1. DamageInv => DamageConsistent
    BY DEF DamageInv, DamageConsistent, BoxOnScreen, BoxOK, OnScreen
  <1>. QED
    BY <1>1, DamageInvHolds, PTL

-----------------------------------------------------------------------------
(* The desktop.                                                            *)

\* The windows in an array without gaps, and an index that starts at 1.
Shaped == TypeOK /\ windows \in Seq(Window) /\ k # 0

\* In the middle of launch_app the child has no window yet; behind the kill of
\* close_window the child waits to be reaped.
MidCall ==
    /\ pc = "launched" => who \in Apps /\ who \notin WindowPids /\ proc[who] # "EMPTY"
    /\ pc = "close_wait" => k \in DOMAIN windows /\ windows[k].pid = who
                            /\ proc[who] = "ZOMBIE"

\* The kernel's focus is the desktop's idea of it, or has fallen back.
FocusFollows == input_focus_pid \in {1, focus_pid}

\* The inductive invariant of windows, children and focus.
WindowsInv ==
    /\ Shaped
    /\ WindowsAreChildren
    /\ MidCall
    /\ FocusFollows
    /\ FocusAgrees

\* The first free slot is free.
LEMMA FirstFreeIs ==
    ASSUME TypeOK, FreeSlots # {}
    PROVE  FirstFree \in Apps /\ proc[FirstFree] = "EMPTY"
  <1>1. FreeSlots \subseteq Nat
    BY DesktopAssumption DEF FreeSlots, Apps
  <1>2. PICK x \in FreeSlots : \A y \in FreeSlots : ~(<<y, x>> \in OpToRel(<, Nat))
    BY <1>1, NatLessThanWellFounded, WFMin
  <1>3. \A y \in FreeSlots : ~(y < x)
    BY <1>1, <1>2, Zenon DEF OpToRel
  <1>4. \A y \in FreeSlots : x <= y
    BY <1>1, <1>3
  <1>5. FirstFree \in FreeSlots
    BY <1>4 DEF FirstFree
  <1>. QED
    BY <1>5 DEF FreeSlots

\* Taking a window out of the array moves up those behind it.
LEMMA RemovedIs ==
    ASSUME NEW i \in DOMAIN windows, windows \in Seq(Window)
    PROVE  /\ removed(i) \in Seq(Window) /\ Len(removed(i)) = Len(windows) - 1
           /\ Len(windows) \in Nat /\ i \in 1..Len(windows)
           /\ DOMAIN removed(i) = 1..(Len(windows) - 1)
           /\ \A j \in 1..(Len(windows) - 1) :
                  removed(i)[j] = IF j < i THEN windows[j] ELSE windows[j + 1]
  <1>. DEFINE n == Len(windows)
              a == SubSeq(windows, 1, i - 1)
              b == SubSeq(windows, i + 1, n)
  <1>1. n \in Nat /\ i \in 1..n /\ \A j \in 1..n : windows[j] \in Window
    OBVIOUS
  <1>2. /\ a \in Seq(Window) /\ Len(a) = i - 1
        /\ \A j \in 1..(i - 1) : a[j] = windows[j]
    BY <1>1
  <1>3. /\ b \in Seq(Window) /\ Len(b) = n - i
        /\ \A j \in 1..(n - i) : b[j] = windows[i + j]
    BY <1>1
  <1>4. removed(i) = a \o b
    BY DEF removed, RemoveAt
  <1>. HIDE DEF a, b
  <1>5. /\ a \o b \in Seq(Window) /\ Len(a \o b) = n - 1
        /\ \A j \in 1..(n - 1) : (a \o b)[j] = IF j <= i - 1 THEN a[j] ELSE b[j - (i - 1)]
    <2>1. /\ a \o b \in Seq(Window) /\ Len(a \o b) = Len(a) + Len(b)
          /\ \A j \in 1..(Len(a) + Len(b)) :
                 (a \o b)[j] = IF j <= Len(a) THEN a[j] ELSE b[j - Len(a)]
      BY <1>2, <1>3, ConcatProperties
    <2>2. Len(a) + Len(b) = n - 1
      BY <1>1, <1>2, <1>3
    <2>. QED
      BY <1>2, <2>1, <2>2
  <1>6. ASSUME NEW j \in 1..(n - 1)
        PROVE  (a \o b)[j] = IF j < i THEN windows[j] ELSE windows[j + 1]
    <2>1. CASE j < i
      BY <1>1, <1>2, <1>5, <2>1
    <2>2. CASE ~(j < i)
      <3>1. j - (i - 1) \in 1..(n - i) /\ i + (j - (i - 1)) = j + 1 /\ ~(j <= i - 1)
        BY <1>1, <2>2
      <3>. QED
        BY <1>3, <1>5, <2>2, <3>1
    <2>. QED
      BY <2>1, <2>2
  <1>7. DOMAIN (a \o b) = 1..(n - 1)
    BY <1>5
  <1>. QED
    BY <1>1, <1>4, <1>5, <1>6, <1>7

\* When the windows are distinct, those left are all but the one taken out.
LEMMA RemovedPids ==
    ASSUME windows \in Seq(Window), NEW i \in DOMAIN windows,
           \A a, b \in DOMAIN windows : windows[a].pid = windows[b].pid => a = b
    PROVE  /\ \A a, b \in DOMAIN removed(i) : removed(i)[a].pid = removed(i)[b].pid => a = b
           /\ {removed(i)[a].pid : a \in DOMAIN removed(i)} = WindowPids \ {windows[i].pid}
  <1>. DEFINE n == Len(windows)
              r == removed(i)
              From(j) == IF j < i THEN j ELSE j + 1
  <1>1. /\ n \in Nat /\ i \in 1..n /\ DOMAIN windows = 1..n /\ DOMAIN r = 1..(n - 1)
        /\ \A j \in 1..(n - 1) : r[j] = windows[From(j)]
    BY RemovedIs
  <1>. HIDE DEF r
  <1>2. /\ \A j \in 1..(n - 1) : From(j) \in 1..n /\ From(j) # i
        /\ \A j, m \in 1..(n - 1) : From(j) = From(m) => j = m
    BY <1>1
  <1>3. \A j \in 1..n : j # i => \E m \in 1..(n - 1) : From(m) = j
    <2>. SUFFICES ASSUME NEW j \in 1..n, j # i
                  PROVE  \E m \in 1..(n - 1) : From(m) = j
      OBVIOUS
    <2>1. CASE j < i
      BY <1>1, <2>1
    <2>2. CASE j > i
      <3>1. j - 1 \in 1..(n - 1) /\ From(j - 1) = j
        BY <1>1, <2>2
      <3>. QED
        BY <3>1
    <2>. QED
      BY <1>1, <2>1, <2>2
  <1>. HIDE DEF From
  <1>4. \A a, b \in DOMAIN r : r[a].pid = r[b].pid => a = b
    BY <1>1, <1>2
  <1>5. {r[a].pid : a \in DOMAIN r} = WindowPids \ {windows[i].pid}
    <2>1. ASSUME NEW p, p \in {r[a].pid : a \in DOMAIN r}
          PROVE  p \in WindowPids \ {windows[i].pid}
      <3>1. PICK a \in 1..(n - 1) : p = r[a].pid
        BY <1>1, <2>1
      <3>2. From(a) \in DOMAIN windows /\ p = windows[From(a)].pid /\ From(a) # i
        BY <1>1, <1>2, <3>1
      <3>. QED
        BY <1>1, <3>2 DEF WindowPids
    <2>2. ASSUME NEW p \in WindowPids, p # windows[i].pid
          PROVE  p \in {r[a].pid : a \in DOMAIN r}
      <3>1. PICK j \in DOMAIN windows : p = windows[j].pid
        BY DEF WindowPids
      <3>2. PICK m \in 1..(n - 1) : From(m) = j
        BY <1>1, <1>3, <2>2, <3>1
      <3>. QED
        BY <1>1, <3>1, <3>2
    <2>. QED
      BY <2>1, <2>2
  <1>. QED
    BY <1>4, <1>5 DEF r

\* The types of everything but the windows.
Typed ==
    /\ proc \in [Apps -> {"EMPTY", "RUNNING", "ZOMBIE"}]
    /\ sub_procs \subseteq Apps /\ shadow \subseteq Apps /\ dirty \subseteq Apps
    /\ foreign \subseteq Apps
    /\ input_focus_pid \in Pids /\ focus_pid \in Pids
    /\ ui_dirty \in BOOLEAN /\ moved \in BOOLEAN
    /\ pending \subseteq Apps /\ damages \in 0..MaxDamage
    /\ unshown \subseteq Apps /\ dropped \subseteq unshown
    /\ pc \in Pcs /\ k \in Nat \ {0} /\ who \in Pids
    /\ burst \in 0..MaxBurst

\* The windows and the rest have their types apart.
LEMMA ShapedIs ==
    /\ Shaped <=> Typed /\ windows \in Seq(Window)
    /\ Shaped' <=> Typed' /\ windows' \in Seq(Window)
  <1>1. \A w \in Seq(Window) : \A i \in DOMAIN w : w[i] \in Window
    OBVIOUS
  <1>. QED
    BY <1>1 DEF Shaped, Typed, TypeOK

\* Pids of the desktop and of the programs.
LEMMA PidsAre == Apps \subseteq Pids /\ 1 \in Pids /\ 1 \notin Apps
  BY DesktopAssumption DEF Apps, Pids

\* A focus that is set is a pid.
LEMMA FocusType ==
    ASSUME NEW p \in Pids
    PROVE  input_focus(p) \in Pids /\ input_focus(p) \in {1, p}
  BY PidsAre DEF input_focus

\* A process that starts or ends keeps the kernel's types.
LEMMA KernelTypes ==
    ASSUME Typed, NEW p \in Apps
    PROVE  /\ new_proc(p) => /\ proc' \in [Apps -> {"EMPTY", "RUNNING", "ZOMBIE"}]
                             /\ shadow' \subseteq Apps /\ dirty' \subseteq Apps
                             /\ unshown' \subseteq Apps /\ dropped' \subseteq unshown'
                             /\ foreign' \subseteq Apps
           /\ terminate_proc(p) => /\ proc' \in [Apps -> {"EMPTY", "RUNNING", "ZOMBIE"}]
                                   /\ shadow' \subseteq Apps /\ dirty' \subseteq Apps
                                   /\ unshown' \subseteq Apps
                                   /\ dropped' \subseteq unshown'
  BY DEF Typed, new_proc, terminate_proc, reset_displays

\* The programs keep the types.
LEMMA AppTypes ==
    ASSUME Shaped, App
    PROVE  Shaped'
  <1>a. UNCHANGED windows
    BY DEF App, input_focus_lapses, app_maps, app_draws, app_execs, app_forks,
                app_exits, loop
  <1>. SUFFICES Typed'
    BY <1>a, ShapedIs
  <1>0. Typed
    BY ShapedIs
  <1>1. CASE input_focus_lapses
    BY <1>0, <1>1, PidsAre DEF input_focus_lapses, loop, debts, Typed
  <1>2. ASSUME NEW p \in Apps, app_maps(p)
        PROVE  Typed'
    BY <1>0, <1>2 DEF app_maps, loop, debts, Typed
  <1>3. ASSUME NEW p \in Apps, app_draws(p)
        PROVE  Typed'
    BY <1>0, <1>3 DEF app_draws, loop, debts, Typed
  <1>4. ASSUME NEW p \in Apps, app_execs(p)
        PROVE  Typed'
    BY <1>0, <1>4 DEF app_execs, reset_displays, loop, Typed
  <1>5. ASSUME NEW p \in Apps, app_forks(p)
        PROVE  Typed'
    <2>1. FirstFree \in Apps
      BY <1>5, FirstFreeIs DEF app_forks, Shaped
    <2>. QED
      BY <1>0, <1>5, <2>1, KernelTypes DEF app_forks, loop, Typed
  <1>6. ASSUME NEW p \in Apps, app_exits(p)
        PROVE  Typed'
    BY <1>0, <1>6, KernelTypes DEF app_exits, terminate_proc, loop, Typed
  <1>. QED
    BY <1>1, <1>2, <1>3, <1>4, <1>5, <1>6 DEF App

\* One window changed, and its pid not.
LEMMA WindowChanged ==
    ASSUME windows \in Seq(Window), NEW i \in DOMAIN windows, NEW b \in BOOLEAN
    PROVE  LET w == [windows EXCEPT ![i].fb = b]
           IN  /\ w \in Seq(Window) /\ DOMAIN w = DOMAIN windows
               /\ \A j \in DOMAIN windows : w[j].pid = windows[j].pid
               /\ \A j \in DOMAIN windows :
                      w[j].fb = IF j = i THEN b ELSE windows[j].fb
  <1>. DEFINE x == [windows[i] EXCEPT !.fb = b]
              w == [windows EXCEPT ![i].fb = b]
  <1>1. windows[i] \in Window /\ i \in 1..Len(windows)
    OBVIOUS
  <1>2. x \in Window /\ x.pid = windows[i].pid /\ x.fb = b
    BY <1>1 DEF Window
  <1>3. w = [windows EXCEPT ![i] = x]
    OBVIOUS
  <1>. HIDE DEF x
  <1>4. /\ w \in Seq(Window) /\ Len(w) = Len(windows)
        /\ \A j \in 1..Len(windows) : w[j] = IF j = i THEN x ELSE windows[j]
    BY <1>1, <1>2, <1>3, ExceptSeq
  <1>. QED
    BY <1>1, <1>2, <1>4

\* No window is dragged any more.
LEMMA WindowsDropped ==
    ASSUME windows \in Seq(Window)
    PROVE  LET w == [i \in DOMAIN windows |-> [windows[i] EXCEPT !.dragging = FALSE]]
           IN  /\ w \in Seq(Window) /\ DOMAIN w = DOMAIN windows
               /\ \A j \in DOMAIN windows : /\ w[j].pid = windows[j].pid
                                            /\ w[j].fb = windows[j].fb
  <1>. DEFINE n == Len(windows)
              w == [i \in 1..n |-> [windows[i] EXCEPT !.dragging = FALSE]]
  <1>1. n \in Nat /\ DOMAIN windows = 1..n /\ \A j \in 1..n : windows[j] \in Window
    OBVIOUS
  <1>2. \A j \in 1..n : /\ w[j] \in Window /\ w[j].pid = windows[j].pid
                        /\ w[j].fb = windows[j].fb
    BY <1>1 DEF Window
  <1>3. w \in [1..n -> Window]
    BY <1>2
  <1>4. w \in Seq(Window)
    BY <1>1, <1>3, SeqDef
  <1>. QED
    BY <1>1, <1>2, <1>4

\* What composite_window makes of window k when its buffer is mapped or not.
shows(b) ==
    LET p == windows[k].pid
        all == pc # "damage"
    IN  /\ windows' = [windows EXCEPT ![k].fb = b]
        /\ unshown' = IF b /\ (all \/ (damages = 1 /\ p \notin dropped)) THEN unshown \ {p}
                      ELSE unshown
        /\ dropped' = IF b /\ all THEN dropped \ {p}
                      ELSE IF ~b THEN dropped \cup (unshown \cap {p})
                      ELSE dropped

\* Its outcomes; a buffer that was not mapped is one its program has.
LEMMA ShowsIs ==
    ASSUME composite_window, windows[k] \in Window
    PROVE  \E b \in BOOLEAN : shows(b) /\ (b => windows[k].fb \/ windows[k].pid \in shadow)
  <1>1. PICK b \in IF windows[k].fb THEN {TRUE} ELSE mmap_child_fb(windows[k].pid) : shows(b)
    BY DEF composite_window, shows
  <1>2. b \in BOOLEAN /\ (b => windows[k].fb \/ windows[k].pid \in shadow)
    BY <1>1 DEF mmap_child_fb, Window
  <1>. QED
    BY <1>1, <1>2

\* The desktop keeps the types.
LEMMA DesktopTypes ==
    ASSUME WindowsInv, Events \/ Turn \/ render_damage
    PROVE  Shaped'
  <1>0. /\ Typed /\ windows \in Seq(Window) /\ TypeOK
        /\ \A i \in DOMAIN windows : windows[i].pid \in Apps
    <2>1. Typed /\ windows \in Seq(Window) /\ TypeOK
      BY ShapedIs DEF WindowsInv, Shaped
    <2>2. \A i \in DOMAIN windows : windows[i] \in Window
      BY <2>1
    <2>. QED
      BY <2>1, <2>2 DEF Window
  <1>. SUFFICES Typed' /\ windows' \in Seq(Window)
    BY ShapedIs
  <1>1. CASE \E i \in DOMAIN windows : Event /\ closes(i)
    <2>1. PICK i \in DOMAIN windows : Event /\ closes(i)
      BY <1>1
    <2>2. i \in Nat \ {0} /\ windows[i].pid \in Apps
      BY <1>0
    <2>3. burst' \in 0..MaxBurst
      BY <1>0, <2>1, DesktopAssumption DEF Event, Typed
    <2>4. CASE Alive(windows[i].pid)
      BY <1>0, <2>1, <2>2, <2>3, <2>4, KernelTypes, PidsAre
         DEF closes, terminate_proc, Typed, Pcs
    <2>5. CASE ~Alive(windows[i].pid)
      BY <1>0, <2>1, <2>2, <2>3, <2>5, PidsAre DEF closes, kernel, debts, Typed, Pcs
    <2>. QED
      BY <2>4, <2>5
  <1>2. CASE key_escape
    <2>1. Len(windows) \in DOMAIN windows /\ Event /\ closes(Len(windows))
      BY <1>0, <1>2, EmptySeq DEF key_escape
    <2>. QED
      BY <1>1, <2>1
  <1>3. CASE click_close
    BY <1>1, <1>3 DEF click_close
  <1>4. CASE click_window
    <2>1. PICK i \in DOMAIN windows, ht \in BOOLEAN :
              LET clicked == [windows[i] EXCEPT !.dragging = @ \/ ht]
              IN  windows' = Append(removed(i), clicked) /\ set_focus(clicked.pid)
      BY <1>4 DEF click_window
    <2>. DEFINE clicked == [windows[i] EXCEPT !.dragging = @ \/ ht]
    <2>2. clicked \in Window /\ clicked.pid \in Apps
      <3>1. PICK b \in BOOLEAN : b = (windows[i].dragging \/ ht)
        OBVIOUS
      <3>2. windows[i] \in Window /\ clicked = [windows[i] EXCEPT !.dragging = b]
        BY <1>0, <3>1
      <3>. QED
        BY <3>2 DEF Window
    <2>3. windows' = Append(removed(i), clicked) /\ set_focus(clicked.pid)
      BY <2>1
    <2>. HIDE DEF clicked
    <2>4. windows' \in Seq(Window)
      BY <1>0, <2>2, <2>3, RemovedIs
    <2>5. focus_pid' \in Pids /\ input_focus_pid' \in Pids
      BY <2>2, <2>3, PidsAre, FocusType DEF set_focus
    <2>6. burst' \in 0..MaxBurst
      BY <1>0, <1>4, DesktopAssumption DEF click_window, Event, Typed
    <2>. QED
      BY <1>0, <1>4, <2>4, <2>5, <2>6 DEF click_window, debts, Typed
  <1>5. CASE launch_app
    <2>1. FirstFree \in Apps
      BY <1>0, <1>5, FirstFreeIs DEF launch_app
    <2>2. burst' \in 0..MaxBurst
      BY <1>0, <1>5, DesktopAssumption DEF launch_app, Event, Typed
    <2>. QED
      BY <1>0, <1>5, <2>1, <2>2, KernelTypes, PidsAre DEF launch_app, Typed, Pcs
  <1>6. CASE launch_app_fails \/ click_desktop \/ other_event
    <2>1. burst' \in 0..MaxBurst
      BY <1>0, <1>6, DesktopAssumption
         DEF launch_app_fails, click_desktop, other_event, Event, Typed
    <2>. QED
      BY <1>0, <1>6, <2>1, PidsAre, FocusType
         DEF launch_app_fails, click_desktop, other_event, set_focus, kernel, debts, Typed
  <1>7. CASE button_up
    <2>1. burst' \in 0..MaxBurst
      BY <1>0, <1>7, DesktopAssumption DEF button_up, Event, Typed
    <2>2. windows' \in Seq(Window)
      BY <1>0, <1>7, WindowsDropped DEF button_up
    <2>. QED
      BY <1>0, <1>7, <2>1, <2>2 DEF button_up, kernel, debts, Typed
  <1>8. CASE close_wait
    <2>1. k \in DOMAIN windows
      BY <1>8 DEF close_wait, WindowsInv, MidCall
    <2>. QED
      <3>1. windows' \in Seq(Window)
        BY <1>0, <1>8, <2>1, RemovedIs DEF close_wait
      <3>2. proc' \in [Apps -> {"EMPTY", "RUNNING", "ZOMBIE"}]
        BY <1>0, <1>8 DEF close_wait, Typed
      <3>3. pc' \in Pcs
        BY <1>8 DEF close_wait, Pcs
      <3>4. k' \in Nat \ {0} /\ who' \in Pids
        BY <1>8, PidsAre DEF close_wait
      <3>. QED
        BY <1>0, <1>8, <3>1, <3>2, <3>3, <3>4 DEF close_wait, debts, Typed
  <1>9. CASE focus_top_window_or_desktop
    <2>1. windows # <<>> => Last(windows).pid \in Apps
      BY <1>0, EmptySeq DEF Last
    <2>. QED
      BY <1>0, <1>9, <2>1, PidsAre, FocusType
         DEF focus_top_window_or_desktop, set_focus, debts, Typed, Pcs
  <1>10. CASE launched
    <2>1. who \in Apps
      BY <1>10 DEF launched, WindowsInv, MidCall
    <2>2. [pid |-> who, fb |-> FALSE, dragging |-> FALSE] \in Window
      BY <2>1 DEF Window
    <2>. QED
      BY <1>0, <1>10, <2>1, <2>2, PidsAre, FocusType DEF launched, set_focus, debts, Typed, Pcs
  <1>11. CASE events_end
    BY <1>0, <1>11, DesktopAssumption DEF events_end, kernel, debts, Typed, Pcs
  <1>12. CASE drag
    BY <1>0, <1>12 DEF drag, kernel, debts, Typed, Pcs
  <1>13. CASE poll_dirty
    <2>1. PICK new \in SUBSET (dirty \cap WindowPids) : collects(new)
      BY <1>13 DEF poll_dirty
    <2>2. /\ pending' \subseteq Apps /\ unshown' \subseteq Apps
          /\ dropped' \subseteq unshown' /\ damages' \in 0..MaxDamage
      <3>1. pending' = pending \cup dirty /\ unshown' = unshown \cup new
        BY <2>1 DEF collects
      <3>2. CASE new = {}
        BY <1>0, <2>1, <3>1, <3>2 DEF collects, Typed
      <3>3. CASE new # {}
        <4>1. PICK slipped \in SUBSET unshown', n \in 0..MaxDamage :
                  damages' = n /\ dropped' = dropped \cup slipped
          BY <2>1, <3>3 DEF collects
        <4>. QED
          BY <1>0, <3>1, <4>1 DEF Typed
      <3>. QED
        BY <3>2, <3>3
    <2>. QED
      BY <1>0, <1>13, <2>2 DEF poll_dirty, Typed, Pcs
  <1>14. CASE reap_child
    <2>1. k \in DOMAIN windows
      BY <1>0, <1>14 DEF reap_child, Typed
    <2>. QED
      BY <1>0, <1>14, <2>1, RemovedIs DEF reap_child, debts, Typed, Pcs
  <1>15. CASE reap_next \/ reap_ends \/ render_frame \/ render_not \/ render_damage
    BY <1>0, <1>15
       DEF reap_next, reap_ends, render_frame, render_not, render_damage, kernel, debts,
           Typed, Pcs
  <1>16. CASE composite_window
    <2>1. k \in DOMAIN windows /\ k + 1 \in Nat \ {0}
      BY <1>0, <1>16 DEF composite_window, Typed
    <2>2. windows[k] \in Window
      BY <1>0, <2>1 DEF Typed
    <2>3. PICK b \in BOOLEAN :
              /\ windows' = [windows EXCEPT ![k].fb = b]
              /\ unshown' \in {unshown, unshown \ {windows[k].pid}}
              /\ dropped' \subseteq unshown'
      <3>1. PICK b \in BOOLEAN : shows(b)
        BY <1>16, <2>2, ShowsIs
      <3>. QED
        BY <1>0, <3>1 DEF shows, Typed
    <2>4. windows' \in Seq(Window)
      BY <1>0, <2>1, <2>3, WindowChanged
    <2>5. unshown' \subseteq Apps
      BY <1>0, <2>3 DEF Typed
    <2>. QED
      BY <1>0, <1>16, <2>1, <2>3, <2>4, <2>5 DEF composite_window, kernel, Typed
  <1>18. CASE next_rect
    <2>1. damages' \in 0..MaxDamage
      BY <1>0, <1>18, DesktopAssumption DEF next_rect, Typed
    <2>. QED
      BY <1>0, <1>18, <2>1 DEF next_rect, kernel, debts, Typed
  <1>17. CASE rendered
    <2>1. moved' \in BOOLEAN /\ ui_dirty' \in BOOLEAN
      BY <1>17, Zenon DEF rendered
    <2>2. /\ UNCHANGED <<kernel, windows, focus_pid, who, burst, debts>>
          /\ pending' = {} /\ damages' = 0 /\ pc' = "events" /\ k' = 1
      BY <1>17, Zenon DEF rendered
    <2>3. pending' \subseteq Apps /\ damages' \in 0..MaxDamage /\ pc' \in Pcs /\ k' \in Nat \ {0}
      BY <2>2, DesktopAssumption DEF Pcs
    <2>. QED
      BY <1>0, <2>1, <2>2, <2>3, Zenon DEF kernel, debts, Typed
  <1>. QED
    BY <1>2, <1>3, <1>4, <1>5, <1>6, <1>7, <1>8, <1>9, <1>10, <1>11, <1>12, <1>13, <1>14,
       <1>15, <1>16, <1>17, <1>18 DEF Events, Turn

\* What may become of the slots while the desktop is between two of its calls: free
\* ones are taken, programs end, and only a child of the desktop is kept as a zombie.
SlotsMove ==
    \A p \in Apps :
        \/ proc'[p] = proc[p]
        \/ proc[p] = "EMPTY" /\ proc'[p] = "RUNNING"
        \/ proc[p] = "RUNNING" /\ proc'[p] = IF p \in sub_procs THEN "ZOMBIE" ELSE "EMPTY"

\* A slot with a window is not taken again: children and focus stay as they were.
LEMMA SlotsMoveBasics ==
    ASSUME WindowsInv, SlotsMove, UNCHANGED <<sub_procs, windows, focus_pid>>,
           Refocusing' = Refocusing, (pc' = "launched") = (pc = "launched"),
           pc = "launched" => who' = who,
           \/ input_focus_pid' = input_focus_pid
           \/ ~Alive(input_focus_pid) /\ input_focus_pid' = 1
    PROVE  /\ WindowsAreChildren' /\ FocusFollows' /\ FocusAgrees'
           /\ WindowPids' = WindowPids /\ WindowPids \subseteq sub_procs
           /\ \A p \in sub_procs : p \in Apps /\ (proc[p] # "EMPTY" => proc'[p] # "EMPTY")
           /\ \A p \in Apps : proc[p] = "ZOMBIE" => proc'[p] = "ZOMBIE"
  <1>1. /\ WindowPids' = WindowPids /\ WindowPids \subseteq sub_procs /\ WindowPids \subseteq Apps
    BY DEF WindowsInv, WindowsAreChildren, WindowPids, Shaped, TypeOK
  <1>2. \A p \in sub_procs : p \in Apps
    BY DEF WindowsInv, Shaped, TypeOK
  <1>3. \A p \in sub_procs : proc[p] # "EMPTY" => proc'[p] # "EMPTY"
    BY <1>2 DEF SlotsMove
  <1>4. WindowsAreChildren'
    BY <1>1, <1>3 DEF WindowsInv, WindowsAreChildren
  <1>5. \A p \in Apps : proc[p] = "ZOMBIE" => proc'[p] = "ZOMBIE"
    BY DEF SlotsMove
  <1>6. FocusFollows'
    BY DEF WindowsInv, FocusFollows
  <1>7. FocusAgrees'
    <2>. SUFFICES ASSUME ~Refocusing, Alive(focus_pid)'
                  PROVE  input_focus_pid' = focus_pid
      BY <1>1 DEF WindowsInv, FocusAgrees
    <2>1. focus_pid \in {1} \cup WindowPids
      BY DEF WindowsInv, FocusAgrees
    <2>2. CASE focus_pid = 1
      BY <2>2 DEF WindowsInv, FocusFollows
    <2>3. CASE focus_pid \in WindowPids /\ focus_pid # 1
      <3>1. proc[focus_pid] # "EMPTY" /\ proc'[focus_pid] = "RUNNING" /\ focus_pid \in Apps
        BY <1>1, <2>3 DEF WindowsInv, WindowsAreChildren, Alive
      <3>2. proc[focus_pid] = "RUNNING"
        BY <3>1 DEF SlotsMove
      <3>3. Alive(focus_pid) /\ input_focus_pid = focus_pid
        BY <3>1, <3>2 DEF Alive, WindowsInv, FocusAgrees
      <3>. QED
        BY <3>3
    <2>. QED
      BY <2>1, <2>2, <2>3
  <1>. QED
    BY <1>1, <1>2, <1>3, <1>4, <1>5, <1>6, <1>7

\* So the programs disturb neither windows nor focus, whatever call the desktop is in.
LEMMA SlotsMoveKeeps ==
    ASSUME WindowsInv, Shaped', SlotsMove, UNCHANGED <<sub_procs, windows, focus_pid, pc, k, who>>,
           \/ input_focus_pid' = input_focus_pid
           \/ ~Alive(input_focus_pid) /\ input_focus_pid' = 1
    PROVE  WindowsInv'
  <1>1. /\ WindowsAreChildren' /\ FocusFollows' /\ FocusAgrees'
        /\ WindowPids' = WindowPids /\ WindowPids \subseteq sub_procs
        /\ \A p \in sub_procs : p \in Apps /\ (proc[p] # "EMPTY" => proc'[p] # "EMPTY")
        /\ \A p \in Apps : proc[p] = "ZOMBIE" => proc'[p] = "ZOMBIE"
    BY SlotsMoveBasics DEF Refocusing
  <1>2. pc = "launched" => who \in sub_procs
    BY DEF WindowsInv, WindowsAreChildren
  <1>3. pc = "close_wait" => who \in Apps
    BY <1>1 DEF WindowsInv, MidCall, WindowPids
  <1>4. MidCall'
    BY <1>1, <1>2, <1>3 DEF WindowsInv, MidCall
  <1>. QED
    BY <1>1, <1>4 DEF WindowsInv

\* Programs run without disturbing windows or focus.
LEMMA AppKeeps ==
    ASSUME WindowsInv, App
    PROVE  WindowsInv'
  <1>1. Shaped' /\ proc \in [Apps -> {"EMPTY", "RUNNING", "ZOMBIE"}] /\ TypeOK
    BY AppTypes DEF WindowsInv, Shaped, TypeOK
  <1>2. UNCHANGED <<sub_procs, windows, focus_pid, pc, k, who>>
    BY DEF App, input_focus_lapses, app_maps, app_draws, app_execs, app_forks, app_exits,
           terminate_proc, loop
  <1>3. CASE input_focus_lapses
    BY <1>1, <1>2, <1>3, SlotsMoveKeeps DEF input_focus_lapses, SlotsMove
  <1>4. ASSUME NEW p \in Apps, app_maps(p) \/ app_draws(p) \/ app_execs(p)
        PROVE  WindowsInv'
    BY <1>1, <1>2, <1>4, SlotsMoveKeeps DEF app_maps, app_draws, app_execs, SlotsMove
  <1>5. ASSUME NEW p \in Apps, app_forks(p)
        PROVE  WindowsInv'
    <2>1. FirstFree \in Apps /\ proc[FirstFree] = "EMPTY"
      BY <1>1, <1>5, FirstFreeIs DEF app_forks
    <2>2. proc' = [proc EXCEPT ![FirstFree] = "RUNNING"] /\ input_focus_pid' = input_focus_pid
      BY <1>5 DEF app_forks, new_proc
    <2>3. SlotsMove
      BY <1>1, <2>1, <2>2 DEF SlotsMove
    <2>. QED
      BY <1>1, <1>2, <2>2, <2>3, SlotsMoveKeeps
  <1>6. ASSUME NEW p \in Apps, app_exits(p)
        PROVE  WindowsInv'
    <2>1. SlotsMove /\ input_focus_pid' = input_focus_pid
      BY <1>1, <1>6 DEF app_exits, terminate_proc, SlotsMove
    <2>. QED
      BY <1>1, <1>2, <2>1, SlotsMoveKeeps
  <1>. QED
    BY <1>3, <1>4, <1>5, <1>6 DEF App

\* A step of the desktop that leaves slots, focus and the windows' programs alone.
LEMMA QuietKeepsWindows ==
    ASSUME WindowsInv, Shaped', UNCHANGED <<proc, sub_procs, focus_pid, input_focus_pid>>,
           DOMAIN windows' = DOMAIN windows,
           \A i \in DOMAIN windows : windows'[i].pid = windows[i].pid,
           {pc, pc'} \cap {"launched", "close_wait", "refocus_events", "refocus_reap"} = {}
    PROVE  WindowsInv'
  <1>1. WindowPids' = WindowPids
    BY DEF WindowPids
  <1>2. /\ ~Refocusing /\ ~Refocusing'
        /\ pc # "launched" /\ pc' # "launched" /\ pc' # "close_wait"
    BY DEF Refocusing
  <1>. QED
    BY <1>1, <1>2 DEF WindowsInv, WindowsAreChildren, MidCall, FocusFollows, FocusAgrees, Alive

\* close_window kills a child, which is kept as a zombie for the wait that follows.
LEMMA ClosesKeeps ==
    ASSUME WindowsInv, Shaped', pc = "events", NEW i \in DOMAIN windows, closes(i)
    PROVE  WindowsInv'
  <1>. DEFINE p == windows[i].pid
  <1>1. /\ p \in WindowPids /\ p \in Apps /\ p \in sub_procs /\ proc[p] # "EMPTY"
        /\ proc \in [Apps -> {"EMPTY", "RUNNING", "ZOMBIE"}] /\ p # 1
    <2>1. p \in WindowPids
      BY DEF WindowPids
    <2>. QED
      BY <2>1, PidsAre DEF WindowsInv, WindowsAreChildren, Shaped, TypeOK
  <1>2. UNCHANGED <<sub_procs, windows, focus_pid, input_focus_pid>>
    BY DEF closes, terminate_proc, kernel
  <1>3. SlotsMove /\ proc'[p] = "ZOMBIE"
    <2>1. CASE Alive(p)
      BY <1>1, <2>1 DEF closes, terminate_proc, SlotsMove, Alive
    <2>2. CASE ~Alive(p)
      BY <1>1, <2>2 DEF closes, kernel, SlotsMove, Alive
    <2>. QED
      BY <2>1, <2>2
  <1>4. pc' = "close_wait" /\ k' = i /\ who' = p
    BY DEF closes
  <1>5. WindowsAreChildren' /\ FocusFollows' /\ FocusAgrees'
    BY <1>2, <1>3, <1>4, SlotsMoveBasics DEF Refocusing
  <1>6. MidCall'
    BY <1>2, <1>3, <1>4 DEF MidCall
  <1>. QED
    BY <1>5, <1>6 DEF WindowsInv

\* A window goes together with the child that is reaped; if it had the focus, the
\* desktop goes on to move the focus.
LEMMA RemoveKeeps ==
    ASSUME WindowsInv, Shaped', NEW i \in DOMAIN windows, NEW p, p = windows[i].pid,
           proc[p] = "ZOMBIE", proc' = [proc EXCEPT ![p] = "EMPTY"],
           sub_procs' = sub_procs \ {p}, windows' = removed(i),
           UNCHANGED <<focus_pid, input_focus_pid>>,
           ~Refocusing, pc # "launched", pc' # "launched", pc' # "close_wait",
           focus_pid = p => Refocusing'
    PROVE  WindowsInv'
  <1>1. /\ windows \in Seq(Window) /\ proc \in [Apps -> {"EMPTY", "RUNNING", "ZOMBIE"}]
        /\ \A a, b \in DOMAIN windows : windows[a].pid = windows[b].pid => a = b
        /\ sub_procs = WindowPids /\ sub_procs \subseteq Apps
    BY DEF WindowsInv, WindowsAreChildren, Shaped, TypeOK
  <1>2. /\ \A a, b \in DOMAIN windows' : windows'[a].pid = windows'[b].pid => a = b
        /\ WindowPids' = WindowPids \ {p}
    <2>1. /\ \A a, b \in DOMAIN removed(i) : removed(i)[a].pid = removed(i)[b].pid => a = b
          /\ {removed(i)[a].pid : a \in DOMAIN removed(i)} = WindowPids \ {windows[i].pid}
      BY <1>1, RemovedPids
    <2>2. WindowPids' = {windows'[a].pid : a \in DOMAIN windows'}
      BY DEF WindowPids
    <2>. QED
      BY <2>1, <2>2
  <1>3. p \in WindowPids /\ p \in Apps /\ p # 1
    BY <1>1, PidsAre DEF WindowPids
  <1>4. WindowsAreChildren'
    BY <1>1, <1>2 DEF WindowsAreChildren, WindowsInv
  <1>5. MidCall' /\ FocusFollows'
    BY DEF MidCall, WindowsInv, FocusFollows
  <1>6. FocusAgrees'
    BY <1>1, <1>2, <1>3 DEF WindowsInv, FocusAgrees, Alive
  <1>. QED
    BY <1>4, <1>5, <1>6 DEF WindowsInv

\* Setting the focus to the desktop or to a window makes both sides agree on it, or
\* the kernel falls back to the desktop if the program is over.
LEMMA SetFocusKeeps ==
    ASSUME Shaped', WindowsAreChildren', NEW p \in {1} \cup WindowPids', set_focus(p),
           proc' = proc, pc' # "launched", pc' # "close_wait"
    PROVE  WindowsInv'
  <1>1. MidCall'
    BY DEF MidCall
  <1>2. focus_pid' = p /\ input_focus_pid' \in {1, p} /\ (Alive(p) => input_focus_pid' = p)
    BY DEF set_focus, input_focus
  <1>3. Alive(focus_pid)' => Alive(p)
    BY <1>2 DEF Alive
  <1>. QED
    BY <1>1, <1>2, <1>3 DEF WindowsInv, FocusFollows, FocusAgrees

\* Raising a window moves it to the end of the array and changes no program.
LEMMA RaisedPids ==
    ASSUME windows \in Seq(Window), NEW i \in DOMAIN windows, NEW w \in Window,
           w.pid = windows[i].pid,
           \A a, b \in DOMAIN windows : windows[a].pid = windows[b].pid => a = b,
           windows' = Append(removed(i), w)
    PROVE  /\ \A a, b \in DOMAIN windows' : windows'[a].pid = windows'[b].pid => a = b
           /\ WindowPids' = WindowPids
  <1>. DEFINE r == removed(i)
              n == Len(r)
  <1>1. /\ r \in Seq(Window) /\ n \in Nat /\ DOMAIN r = 1..n
        /\ \A a, b \in DOMAIN r : r[a].pid = r[b].pid => a = b
        /\ {r[a].pid : a \in DOMAIN r} = WindowPids \ {w.pid}
    BY RemovedIs, RemovedPids
  <1>2. w.pid \in WindowPids /\ \A a \in 1..n : r[a].pid # w.pid
    BY <1>1, ZenonT(60) DEF WindowPids
  <1>. HIDE DEF r
  <1>3. /\ DOMAIN windows' = 1..(n + 1) /\ windows'[n + 1] = w
        /\ \A a \in 1..n : windows'[a] = r[a]
    BY <1>1, AppendProperties DEF r
  <1>4. \A a, b \in DOMAIN windows' : windows'[a].pid = windows'[b].pid => a = b
    <2>. SUFFICES ASSUME NEW a \in 1..(n + 1), NEW b \in 1..(n + 1),
                         windows'[a].pid = windows'[b].pid
                  PROVE  a = b
      BY <1>3
    <2>1. CASE a \in 1..n /\ b \in 1..n
      BY <1>1, <1>3, <2>1
    <2>2. CASE a = n + 1 /\ b \in 1..n
      BY <1>2, <1>3, <2>2
    <2>3. CASE a \in 1..n /\ b = n + 1
      BY <1>2, <1>3, <2>3
    <2>. QED
      BY <1>1, <2>1, <2>2, <2>3
  <1>5. WindowPids' = {windows'[a].pid : a \in DOMAIN windows'}
    BY DEF WindowPids
  <1>6. ASSUME NEW p \in WindowPids'
        PROVE  p \in WindowPids
    <2>1. PICK a \in 1..(n + 1) : p = windows'[a].pid
      BY <1>3, <1>5
    <2>2. CASE a \in 1..n
      BY <1>1, <1>3, <2>1, <2>2, SMTT(30)
    <2>3. CASE a = n + 1
      BY <1>2, <1>3, <2>1, <2>3
    <2>. QED
      BY <1>1, <2>2, <2>3
  <1>7. ASSUME NEW p \in WindowPids
        PROVE  p \in WindowPids'
    <2>1. CASE p = w.pid
      <3>1. n + 1 \in DOMAIN windows' /\ p = windows'[n + 1].pid
        BY <1>1, <1>3, <2>1
      <3>. QED
        BY <1>5, <3>1
    <2>2. CASE p # w.pid
      <3>1. PICK a \in 1..n : p = r[a].pid
        BY <1>1, <2>2
      <3>2. a \in DOMAIN windows' /\ p = windows'[a].pid
        BY <1>1, <1>3, <3>1
      <3>. QED
        BY <1>5, <3>2
    <2>. QED
      BY <2>1, <2>2
  <1>. QED
    BY <1>4, <1>6, <1>7

\* A window that is added has its program, and the others theirs.
LEMMA AddedPids ==
    ASSUME windows \in Seq(Window), NEW w \in Window, w.pid \notin WindowPids,
           \A a, b \in DOMAIN windows : windows[a].pid = windows[b].pid => a = b,
           windows' = Append(windows, w)
    PROVE  /\ \A a, b \in DOMAIN windows' : windows'[a].pid = windows'[b].pid => a = b
           /\ WindowPids' = WindowPids \cup {w.pid}
  <1>. DEFINE n == Len(windows)
  <1>1. /\ n \in Nat /\ DOMAIN windows = 1..n
        /\ DOMAIN windows' = 1..(n + 1) /\ windows'[n + 1] = w
        /\ \A a \in 1..n : windows'[a] = windows[a]
    BY AppendProperties
  <1>2. \A a \in 1..n : windows[a].pid \in WindowPids
    BY <1>1 DEF WindowPids
  <1>3. \A a, b \in DOMAIN windows' : windows'[a].pid = windows'[b].pid => a = b
    <2>. SUFFICES ASSUME NEW a \in 1..(n + 1), NEW b \in 1..(n + 1),
                         windows'[a].pid = windows'[b].pid
                  PROVE  a = b
      BY <1>1
    <2>1. CASE a \in 1..n /\ b \in 1..n
      BY <1>1, <2>1
    <2>2. CASE a = n + 1 /\ b \in 1..n
      BY <1>1, <1>2, <2>2
    <2>3. CASE a \in 1..n /\ b = n + 1
      BY <1>1, <1>2, <2>3
    <2>. QED
      BY <1>1, <2>1, <2>2, <2>3
  <1>4. WindowPids' = {windows'[a].pid : a \in DOMAIN windows'}
    BY DEF WindowPids
  <1>5. ASSUME NEW p \in WindowPids'
        PROVE  p \in WindowPids \cup {w.pid}
    <2>1. PICK a \in 1..(n + 1) : p = windows'[a].pid
      BY <1>1, <1>4
    <2>2. a \in 1..n \/ a = n + 1
      BY <1>1
    <2>. QED
      BY <1>1, <1>2, <2>1, <2>2
  <1>6. ASSUME NEW p \in WindowPids \cup {w.pid}
        PROVE  p \in WindowPids'
    <2>1. CASE p = w.pid
      <3>1. n + 1 \in DOMAIN windows' /\ p = windows'[n + 1].pid
        BY <1>1, <2>1
      <3>. QED
        BY <1>4, <3>1
    <2>2. CASE p \in WindowPids
      <3>1. PICK a \in 1..n : p = windows[a].pid
        BY <1>1, <2>2 DEF WindowPids
      <3>2. a \in DOMAIN windows' /\ p = windows'[a].pid
        BY <1>1, <3>1
      <3>. QED
        BY <1>4, <3>2
    <2>. QED
      BY <2>1, <2>2
  <1>. QED
    BY <1>3, <1>5, <1>6

\* The steps of the desktop keep the invariant.
LEMMA DesktopKeeps ==
    ASSUME WindowsInv, Events \/ Turn \/ render_damage
    PROVE  WindowsInv'
  <1>0. /\ Shaped' /\ Shaped /\ windows \in Seq(Window) /\ k \in Nat \ {0}
        /\ proc \in [Apps -> {"EMPTY", "RUNNING", "ZOMBIE"}]
        /\ \A a, b \in DOMAIN windows : windows[a].pid = windows[b].pid => a = b
        /\ \A i \in DOMAIN windows : windows[i] \in Window /\ windows[i].pid \in WindowPids
    <2>1. windows \in Seq(Window)
      BY DEF WindowsInv, Shaped
    <2>2. \A i \in DOMAIN windows : windows[i] \in Window
      BY <2>1
    <2>. QED
      BY <2>1, <2>2, DesktopTypes DEF WindowsInv, WindowsAreChildren, WindowPids, Shaped, TypeOK
  <1>1. CASE key_escape
    <2>1. Len(windows) \in DOMAIN windows
      BY <1>0, <1>1, EmptySeq DEF key_escape
    <2>. QED
      BY <1>0, <1>1, <2>1, ClosesKeeps DEF key_escape, Event
  <1>2. CASE click_close
    BY <1>0, <1>2, ClosesKeeps DEF click_close, Event
  <1>3. CASE click_window
    <2>1. PICK i \in DOMAIN windows, ht \in BOOLEAN :
              LET clicked == [windows[i] EXCEPT !.dragging = @ \/ ht]
              IN  windows' = Append(removed(i), clicked) /\ set_focus(clicked.pid)
      BY <1>3 DEF click_window
    <2>2. PICK b \in BOOLEAN : b = (windows[i].dragging \/ ht)
      OBVIOUS
    <2>3. PICK w : w = [windows[i] EXCEPT !.dragging = b]
      OBVIOUS
    <2>4. w \in Window /\ w.pid = windows[i].pid
      BY <1>0, <2>3 DEF Window
    <2>5. windows' = Append(removed(i), w) /\ set_focus(w.pid)
      BY <2>1, <2>2, <2>3
    <2>6. /\ \A x, y \in DOMAIN windows' : windows'[x].pid = windows'[y].pid => x = y
          /\ WindowPids' = WindowPids
      BY <1>0, <2>4, <2>5, RaisedPids
    <2>7. /\ UNCHANGED <<proc, sub_procs, pc>> /\ pc = "events"
      BY <1>3 DEF click_window, Event
    <2>8. WindowsAreChildren'
      BY <2>6, <2>7 DEF WindowsInv, WindowsAreChildren
    <2>. QED
      BY <1>0, <2>4, <2>5, <2>6, <2>7, <2>8, SetFocusKeeps
  <1>4. CASE launch_app
    <2>1. FirstFree \in Apps /\ proc[FirstFree] = "EMPTY"
      BY <1>0, <1>4, FirstFreeIs DEF launch_app, Shaped
    <2>2. /\ proc' = [proc EXCEPT ![FirstFree] = "RUNNING"] /\ pc = "events"
          /\ sub_procs' = sub_procs \cup {FirstFree} /\ who' = FirstFree
          /\ pc' = "launched" /\ UNCHANGED <<windows, focus_pid, input_focus_pid>>
      BY <1>4 DEF launch_app, new_proc, Event
    <2>3. WindowPids' = WindowPids /\ FirstFree \notin WindowPids
      BY <2>1, <2>2 DEF WindowsInv, WindowsAreChildren, WindowPids
    <2>4. WindowsAreChildren'
      BY <1>0, <2>1, <2>2, <2>3 DEF WindowsInv, WindowsAreChildren
    <2>5. MidCall' /\ FocusFollows'
      BY <1>0, <2>1, <2>2, <2>3 DEF WindowsInv, MidCall, FocusFollows
    <2>6. FocusAgrees'
      <3>1. focus_pid \in {1} \cup WindowPids /\ focus_pid # FirstFree
        BY <2>1, <2>2, <2>3, PidsAre DEF WindowsInv, FocusAgrees, Refocusing
      <3>2. Alive(focus_pid)' => Alive(focus_pid)
        BY <1>0, <2>1, <2>2, <3>1 DEF Alive
      <3>. QED
        BY <2>2, <2>3, <3>1, <3>2 DEF WindowsInv, FocusAgrees, Refocusing
    <2>. QED
      BY <1>0, <2>4, <2>5, <2>6 DEF WindowsInv
  <1>5. CASE click_desktop
    <2>1. UNCHANGED <<proc, sub_procs, windows, pc>> /\ pc = "events" /\ set_focus(1)
      BY <1>5 DEF click_desktop, Event
    <2>2. WindowsAreChildren'
      BY <2>1 DEF WindowsInv, WindowsAreChildren, WindowPids
    <2>. QED
      BY <1>0, <2>1, <2>2, SetFocusKeeps
  <1>6. CASE button_up
    <2>1. /\ DOMAIN windows' = DOMAIN windows
          /\ \A i \in DOMAIN windows : windows'[i].pid = windows[i].pid
      BY <1>0, <1>6, WindowsDropped DEF button_up
    <2>2. UNCHANGED <<proc, sub_procs, focus_pid, input_focus_pid, pc>> /\ pc = "events"
      BY <1>6 DEF button_up, Event, kernel
    <2>. QED
      BY <1>0, <2>1, <2>2, QuietKeepsWindows
  <1>7. CASE \/ launch_app_fails \/ other_event \/ events_end \/ drag \/ poll_dirty
             \/ reap_next \/ reap_ends \/ render_frame \/ render_not \/ render_damage
    <2>1. UNCHANGED <<proc, sub_procs, focus_pid, input_focus_pid, windows>>
      BY <1>7 DEF launch_app_fails, other_event, events_end, drag, poll_dirty, reap_next,
                  reap_ends, render_frame, render_not, render_damage, kernel
    <2>2. {pc, pc'} \cap {"launched", "close_wait", "refocus_events", "refocus_reap"} = {}
      BY <1>7 DEF launch_app_fails, other_event, events_end, drag, poll_dirty, reap_next,
                  reap_ends, render_frame, render_not, render_damage, Event
    <2>. QED
      BY <1>0, <2>1, <2>2, QuietKeepsWindows
  <1>8. CASE close_wait
    <2>1. k \in DOMAIN windows /\ who = windows[k].pid
      BY <1>8 DEF close_wait, WindowsInv, MidCall
    <2>. QED
      BY <1>0, <1>8, <2>1, RemoveKeeps DEF close_wait, Refocusing
  <1>9. CASE focus_top_window_or_desktop
    <2>1. windows # <<>> => Last(windows).pid \in WindowPids
      BY <1>0, EmptySeq DEF Last
    <2>2. UNCHANGED <<proc, sub_procs, windows>> /\ pc # "launched"
          /\ pc' # "launched" /\ pc' # "close_wait"
      BY <1>9 DEF focus_top_window_or_desktop, Refocusing
    <2>3. WindowsAreChildren' /\ WindowPids' = WindowPids
      BY <2>2 DEF WindowsInv, WindowsAreChildren, WindowPids
    <2>. QED
      BY <1>0, <1>9, <2>1, <2>2, <2>3, SetFocusKeeps DEF focus_top_window_or_desktop
  <1>10. CASE launched
    <2>1. who \in Apps /\ who \notin WindowPids /\ proc[who] # "EMPTY" /\ pc = "launched"
      BY <1>10 DEF launched, WindowsInv, MidCall
    <2>2. PICK w : w = [pid |-> who, fb |-> FALSE, dragging |-> FALSE]
      OBVIOUS
    <2>3. w \in Window /\ w.pid = who
      BY <2>1, <2>2 DEF Window
    <2>4. windows' = Append(windows, w) /\ UNCHANGED <<proc, sub_procs>>
          /\ set_focus(who) /\ pc' = "events"
      BY <1>10, <2>2 DEF launched
    <2>5. /\ \A x, y \in DOMAIN windows' : windows'[x].pid = windows'[y].pid => x = y
          /\ WindowPids' = WindowPids \cup {who}
      BY <1>0, <2>1, <2>3, <2>4, AddedPids
    <2>6. WindowsAreChildren'
      BY <2>1, <2>4, <2>5 DEF WindowsInv, WindowsAreChildren
    <2>. QED
      BY <1>0, <2>4, <2>5, <2>6, SetFocusKeeps
  <1>11. CASE reap_child
    <2>1. k \in DOMAIN windows
      BY <1>0, <1>11 DEF reap_child
    <2>. QED
      BY <1>0, <1>11, <2>1, RemoveKeeps DEF reap_child, Refocusing
  <1>12. CASE composite_window
    <2>1. k \in DOMAIN windows
      BY <1>0, <1>12 DEF composite_window
    <2>2. PICK b \in BOOLEAN : windows' = [windows EXCEPT ![k].fb = b]
      BY <1>0, <1>12, <2>1, ShowsIs DEF shows
    <2>3. /\ DOMAIN windows' = DOMAIN windows
          /\ \A i \in DOMAIN windows : windows'[i].pid = windows[i].pid
      BY <1>0, <2>1, <2>2, WindowChanged
    <2>4. UNCHANGED <<proc, sub_procs, focus_pid, input_focus_pid, pc>>
          /\ pc \in {"frame", "windows", "damage"}
      BY <1>12 DEF composite_window, kernel
    <2>. QED
      BY <1>0, <2>3, <2>4, QuietKeepsWindows
  <1>13. CASE next_rect \/ rendered
    <2>1. UNCHANGED <<proc, sub_procs, focus_pid, input_focus_pid, windows>>
          /\ pc \in {"frame", "windows", "damage"} /\ pc' \in {"damage", "events"}
      BY <1>13 DEF next_rect, rendered, kernel
    <2>. QED
      BY <1>0, <2>1, QuietKeepsWindows
  <1>. QED
    BY <1>1, <1>2, <1>3, <1>4, <1>5, <1>6, <1>7, <1>8, <1>9, <1>10, <1>11, <1>12, <1>13
       DEF Events, Turn

\* The inductive invariant of what the screen shows: a buffer that is mapped has been
\* cleared or drawn by its own program, and all is drawn again behind any change of
\* the windows.
PagesOwn == shadow \cap foreign = {}
DrawnWhole ==
    /\ moved => ui_dirty
    /\ pc = "close_wait" => ui_dirty
    /\ pc \in {"damage", "windows"} => ~ui_dirty
PicturesInv == NoForeignPicture /\ PagesOwn /\ DrawnWhole

\* The inductive invariant of what the desktop owes: only to programs that run and have
\* a window, and in a frame nothing to the windows it is through with, but for what was
\* dropped.
Through == \A i \in DOMAIN windows : i < k => windows[i].pid \notin unshown \ dropped
DebtInv ==
    /\ \A p \in dirty \cup unshown : proc[p] = "RUNNING"
    /\ unshown \subseteq WindowPids
    /\ NothingForgotten
    /\ pc = "render" => k = 1
    /\ pc \in {"frame", "windows"} \/ (pc = "damage" /\ damages = 1) => Through

\* Windows that show only what a window showed before.
LEMMA PicturesKept ==
    ASSUME NoForeignPicture, foreign' = foreign,
           \A j \in DOMAIN windows' : windows'[j].fb =>
               \E i \in DOMAIN windows : windows[i].fb /\ windows[i].pid = windows'[j].pid
    PROVE  NoForeignPicture'
  BY DEF NoForeignPicture

\* A slot that is taken shows nothing: it has no window yet, and no buffer.
LEMMA NewProcShows ==
    ASSUME WindowsInv, NoForeignPicture, PagesOwn, NEW q \in Apps, proc[q] = "EMPTY",
           new_proc(q), windows' = windows
    PROVE  NoForeignPicture' /\ PagesOwn'
  <1>2. foreign' = foreign \cup {q}
    BY DEF new_proc
  <1>3. PagesOwn'
    BY <1>2 DEF PagesOwn, new_proc, reset_displays
  <1>4. \A i \in DOMAIN windows : windows[i].pid \in Apps /\ windows[i].pid # q
    <2>1. \A i \in DOMAIN windows : windows[i].pid \in WindowPids
      BY DEF WindowPids
    <2>2. \A p \in WindowPids : proc[p] # "EMPTY" /\ p \in Apps
      BY DEF WindowsInv, WindowsAreChildren, Shaped, TypeOK
    <2>. QED
      BY <2>1, <2>2
  <1>5. NoForeignPicture'
    BY <1>2, <1>4 DEF NoForeignPicture
  <1>. QED
    BY <1>3, <1>5

\* The programs draw in their own buffers.
LEMMA AppPictures ==
    ASSUME WindowsInv, NoForeignPicture, PagesOwn, App
    PROVE  NoForeignPicture' /\ PagesOwn'
  <1>0. shadow \subseteq Apps /\ TypeOK /\ windows' = windows
    BY DEF WindowsInv, Shaped, TypeOK, App, input_focus_lapses, app_maps, app_draws,
           app_execs, app_forks, app_exits, loop
  <1>1. CASE input_focus_lapses
    BY <1>0, <1>1 DEF input_focus_lapses, NoForeignPicture, PagesOwn
  <1>2. ASSUME NEW p \in Apps, app_maps(p) \/ app_draws(p)
        PROVE  NoForeignPicture' /\ PagesOwn'
    <2>1. foreign' \subseteq foreign /\ shadow' \cap foreign' \subseteq shadow \cap foreign
      BY <1>2 DEF app_maps, app_draws
    <2>. QED
      BY <1>0, <2>1 DEF NoForeignPicture, PagesOwn
  <1>3. ASSUME NEW p \in Apps, app_execs(p) \/ app_exits(p)
        PROVE  NoForeignPicture' /\ PagesOwn'
    BY <1>0, <1>3 DEF app_execs, app_exits, terminate_proc, reset_displays,
                      NoForeignPicture, PagesOwn
  <1>4. ASSUME NEW p \in Apps, app_forks(p)
        PROVE  NoForeignPicture' /\ PagesOwn'
    BY <1>0, <1>4, FirstFreeIs, NewProcShows DEF app_forks
  <1>. QED
    BY <1>1, <1>2, <1>3, <1>4 DEF App

\* The desktop maps only buffers their programs have mapped.
LEMMA DesktopPictures ==
    ASSUME WindowsInv, NoForeignPicture, PagesOwn, Events \/ Turn \/ render_damage
    PROVE  NoForeignPicture' /\ PagesOwn'
  <1>0. /\ windows \in Seq(Window) /\ k \in Nat \ {0} /\ TypeOK
        /\ \A i \in DOMAIN windows : windows[i] \in Window
    <2>1. windows \in Seq(Window)
      BY DEF WindowsInv, Shaped
    <2>. QED
      BY <2>1 DEF WindowsInv, Shaped, TypeOK
  <1>1. CASE launch_app
    BY <1>0, <1>1, FirstFreeIs, NewProcShows DEF launch_app
  <1>2. CASE \E i \in DOMAIN windows : closes(i)
    <2>1. UNCHANGED <<windows, foreign>> /\ shadow' \subseteq shadow
      BY <1>2 DEF closes, terminate_proc, reset_displays, kernel
    <2>. QED
      BY <2>1 DEF NoForeignPicture, PagesOwn
  <1>3. CASE key_escape \/ click_close
    <2>1. windows # <<>> => Len(windows) \in DOMAIN windows
      BY <1>0, EmptySeq
    <2>. QED
      BY <1>2, <1>3, <2>1 DEF key_escape, click_close
  <1>4. ASSUME ~launch_app, ~key_escape, ~click_close
        PROVE  foreign' = foreign /\ shadow' = shadow
    BY <1>4 DEF Events, Turn, click_window, launch_app_fails, click_desktop, button_up,
                other_event, close_wait, focus_top_window_or_desktop, launched, events_end,
                drag, poll_dirty, reap_child, reap_next, reap_ends, render_frame, render_not,
                render_damage, composite_window, next_rect, rendered, kernel
  <1>. SUFFICES ASSUME ~launch_app, ~key_escape, ~click_close
                PROVE  NoForeignPicture'
    BY <1>1, <1>3, <1>4 DEF PagesOwn
  <1>5. CASE UNCHANGED windows
    BY <1>4, <1>5 DEF NoForeignPicture
  <1>6. CASE button_up
    BY <1>0, <1>4, <1>6, WindowsDropped DEF button_up, NoForeignPicture
  <1>7. CASE click_window
    <2>1. PICK i \in DOMAIN windows, b \in BOOLEAN :
              windows' = Append(removed(i), [windows[i] EXCEPT !.dragging = b])
      BY <1>7 DEF click_window
    <2>2. PICK w : w = [windows[i] EXCEPT !.dragging = b]
      OBVIOUS
    <2>3. w \in Window /\ w.pid = windows[i].pid /\ w.fb = windows[i].fb
      BY <1>0, <2>2 DEF Window
    <2>. DEFINE n == Len(windows)
    <2>4. /\ removed(i) \in Seq(Window) /\ Len(removed(i)) = n - 1 /\ n \in Nat /\ i \in 1..n
          /\ DOMAIN windows = 1..n
          /\ \A j \in 1..(n - 1) :
                  removed(i)[j] = IF j < i THEN windows[j] ELSE windows[j + 1]
      BY <1>0, RemovedIs
    <2>5. /\ DOMAIN windows' = 1..n /\ windows'[n] = w
          /\ \A j \in 1..(n - 1) : windows'[j] = removed(i)[j]
      BY <2>1, <2>2, <2>3, <2>4, AppendProperties
    <2>6. ASSUME NEW j \in DOMAIN windows'
          PROVE  \E m \in DOMAIN windows : windows[m].fb = windows'[j].fb
                                           /\ windows[m].pid = windows'[j].pid
      <3>1. CASE j = n
        BY <2>3, <2>5, <3>1
      <3>2. CASE j \in 1..(n - 1)
        <4>1. j \in DOMAIN windows /\ j + 1 \in DOMAIN windows
          BY <2>4, <3>2
        <4>. QED
          BY <2>4, <2>5, <3>2, <4>1
      <3>. QED
        BY <2>4, <2>5, <3>1, <3>2
    <2>. QED
      BY <1>4, <2>6, PicturesKept
  <1>8. ASSUME k \in DOMAIN windows, windows' = removed(k)
        PROVE  NoForeignPicture'
    <2>1. /\ DOMAIN windows' = 1..(Len(windows) - 1) /\ Len(windows) \in Nat
          /\ \A j \in 1..(Len(windows) - 1) :
                 windows'[j] = IF j < k THEN windows[j] ELSE windows[j + 1]
      BY <1>0, <1>8, RemovedIs
    <2>2. ASSUME NEW j \in DOMAIN windows'
          PROVE  \E m \in DOMAIN windows : windows[m] = windows'[j]
      <3>1. j \in DOMAIN windows /\ j + 1 \in DOMAIN windows
        BY <1>0, <2>1
      <3>. QED
        BY <2>1, <3>1
    <2>. QED
      BY <1>4, <2>2, PicturesKept
  <1>9. CASE close_wait \/ reap_child
    <2>1. k \in DOMAIN windows /\ windows' = removed(k)
      BY <1>0, <1>9 DEF close_wait, reap_child, WindowsInv, MidCall
    <2>. QED
      BY <1>8, <2>1
  <1>10. CASE launched
    <2>1. PICK w : w = [pid |-> who, fb |-> FALSE, dragging |-> FALSE]
      OBVIOUS
    <2>2. w \in Window /\ ~w.fb /\ windows' = Append(windows, w)
      BY <1>10, <2>1 DEF launched, WindowsInv, MidCall, Window
    <2>3. /\ DOMAIN windows' = 1..(Len(windows) + 1) /\ Len(windows) \in Nat
          /\ windows'[Len(windows) + 1] = w
          /\ \A j \in 1..Len(windows) : windows'[j] = windows[j]
      BY <1>0, <2>2, AppendProperties
    <2>4. ASSUME NEW j \in DOMAIN windows', windows'[j].fb
          PROVE  j \in DOMAIN windows /\ windows[j] = windows'[j]
      BY <1>0, <2>2, <2>3, <2>4
    <2>. QED
      BY <1>4, <2>4, PicturesKept
  <1>11. CASE composite_window
    <2>1. k \in DOMAIN windows
      BY <1>0, <1>11 DEF composite_window
    <2>2. PICK b \in BOOLEAN : /\ windows' = [windows EXCEPT ![k].fb = b]
                               /\ b => windows[k].fb \/ windows[k].pid \in shadow
      BY <1>0, <1>11, <2>1, ShowsIs DEF shows
    <2>3. /\ DOMAIN windows' = DOMAIN windows
          /\ \A j \in DOMAIN windows : windows'[j].pid = windows[j].pid
          /\ \A j \in DOMAIN windows : windows'[j].fb = IF j = k THEN b ELSE windows[j].fb
      BY <1>0, <2>1, <2>2, WindowChanged
    <2>. QED
      BY <1>4, <2>1, <2>2, <2>3 DEF NoForeignPicture, PagesOwn
  <1>. QED
    BY <1>5, <1>6, <1>7, <1>9, <1>10, <1>11
       DEF Events, Turn, launch_app_fails, click_desktop, other_event,
           focus_top_window_or_desktop, events_end, drag, poll_dirty, reap_next, reap_ends,
           render_frame, render_not, render_damage, next_rect, rendered

\* ui_dirty is set with every change of the windows, and only a frame clears it.
LEMMA DrawnStep ==
    ASSUME DrawnWhole, Next
    PROVE  DrawnWhole'
  <1>1. CASE App
    <2>1. UNCHANGED <<moved, ui_dirty, pc>>
      BY <1>1 DEF App, input_focus_lapses, app_maps, app_draws, app_execs, app_forks,
                  app_exits, loop
    <2>. QED
      BY <2>1, Zenon DEF DrawnWhole
  <1>2. CASE key_escape \/ click_close
    <2>1. ui_dirty' = TRUE /\ pc' = "close_wait"
      BY <1>2 DEF key_escape, click_close, closes
    <2>. QED
      BY <2>1 DEF DrawnWhole
  <1>3. CASE click_window \/ launch_app_fails \/ click_desktop \/ launched
    <2>1. ui_dirty' = TRUE /\ pc' = "events"
      BY <1>3 DEF click_window, launch_app_fails, click_desktop, launched, Event
    <2>. QED
      BY <2>1 DEF DrawnWhole
  <1>4. CASE launch_app \/ button_up \/ other_event \/ events_end \/ poll_dirty
             \/ reap_next \/ reap_ends \/ focus_top_window_or_desktop \/ render_frame
             \/ render_not
    <2>1. UNCHANGED <<moved, ui_dirty>> /\ pc' \notin {"close_wait", "damage", "windows"}
      BY <1>4 DEF launch_app, button_up, other_event, events_end, poll_dirty, reap_next,
                  reap_ends, focus_top_window_or_desktop, render_frame, render_not, Event
    <2>. QED
      BY <2>1 DEF DrawnWhole
  <1>5. CASE close_wait
    <2>1. ui_dirty /\ ui_dirty' = ui_dirty /\ pc' \notin {"close_wait", "damage", "windows"}
      BY <1>5 DEF close_wait, DrawnWhole
    <2>. QED
      BY <2>1 DEF DrawnWhole
  <1>6. CASE drag
    <2>1. pc' = "poll" /\ (UNCHANGED <<ui_dirty, moved>> \/ ui_dirty' = TRUE)
      BY <1>6 DEF drag
    <2>. QED
      BY <2>1 DEF DrawnWhole
  <1>7. CASE reap_child
    <2>1. ui_dirty' = TRUE /\ pc' \notin {"damage", "windows"}
      BY <1>7 DEF reap_child
    <2>. QED
      BY <2>1 DEF DrawnWhole
  <1>8. CASE render_damage
    <2>1. UNCHANGED <<moved, ui_dirty>> /\ ~ui_dirty /\ pc' \in {"damage", "windows"}
      BY <1>8 DEF render_damage
    <2>. QED
      BY <2>1 DEF DrawnWhole
  <1>9. CASE composite_window \/ next_rect
    <2>1. UNCHANGED <<moved, ui_dirty, pc>>
      BY <1>9 DEF composite_window, next_rect
    <2>. QED
      BY <2>1, Zenon DEF DrawnWhole
  <1>10. CASE rendered
    <2>1. pc' = "events" /\ (moved' => moved /\ pc \in {"damage", "windows"})
      BY <1>10, Zenon DEF rendered
    <2>2. ~moved'
      BY <2>1, Zenon DEF DrawnWhole
    <2>. QED
      BY <2>1, <2>2 DEF DrawnWhole
  <1>. QED
    BY <1>1, <1>2, <1>3, <1>4, <1>5, <1>6, <1>7, <1>8, <1>9, <1>10 DEF Next, Events, Turn

\* Debts that only go as a whole, with a process that ends, stay in order while the
\* desktop stays where it is, starts with the windows, or does not draw.
LEMMA DebtsMove ==
    ASSUME DebtInv, NEW gone, unshown' = unshown \ gone, dropped' = dropped \ gone,
           pending \subseteq pending', unshown' \subseteq WindowPids',
           \A p \in dirty' \cup unshown' : proc'[p] = "RUNNING",
           \/ UNCHANGED <<pc, k, windows, damages>>
           \/ pc' \notin {"render", "frame", "windows", "damage"}
           \/ k' = 1 /\ windows \in Seq(Window) /\ windows' = windows
    PROVE  DebtInv'
  <1>1. NothingForgotten'
    BY DEF DebtInv, NothingForgotten
  <1>2. CASE UNCHANGED <<pc, k, windows, damages>>
    BY <1>1, <1>2 DEF DebtInv, Through
  <1>3. CASE pc' \notin {"render", "frame", "windows", "damage"}
    BY <1>1, <1>3 DEF DebtInv
  <1>4. CASE k' = 1 /\ windows \in Seq(Window) /\ windows' = windows
    <2>1. Through'
      BY <1>4 DEF Through
    <2>. QED
      BY <1>1, <1>4, <2>1 DEF DebtInv
  <1>. QED
    BY <1>2, <1>3, <1>4

\* The programs: one that ends or becomes another takes its debt with it.
LEMMA AppDebts ==
    ASSUME WindowsInv, DebtInv, App
    PROVE  DebtInv'
  <1>0. /\ proc \in [Apps -> {"EMPTY", "RUNNING", "ZOMBIE"}] /\ dirty \subseteq Apps
        /\ unshown \subseteq Apps /\ TypeOK
    BY DEF WindowsInv, Shaped, TypeOK
  <1>1. /\ UNCHANGED <<pc, k, windows, damages, pending>>
        /\ unshown \subseteq WindowPids /\ WindowPids' = WindowPids
        /\ \A p \in dirty \cup unshown : proc[p] = "RUNNING"
    BY DEF App, input_focus_lapses, app_maps, app_draws, app_execs, app_forks, app_exits, loop,
           DebtInv, WindowPids
  <1>2. ASSUME NEW p \in Apps, input_focus_lapses \/ app_maps(p) \/ app_draws(p)
        PROVE  DebtInv'
    <2>1. UNCHANGED <<unshown, dropped, proc>> /\ \A q \in dirty' : proc[q] = "RUNNING"
      BY <1>0, <1>1, <1>2 DEF input_focus_lapses, app_maps, app_draws, debts
    <2>2. unshown' = unshown \ {} /\ dropped' = dropped \ {}
      BY <2>1
    <2>. QED
      BY <1>1, <2>1, <2>2, DebtsMove
  <1>3. ASSUME NEW p \in Apps, app_execs(p) \/ app_exits(p)
        PROVE  DebtInv'
    <2>1. /\ unshown' = unshown \ {p} /\ dropped' = dropped \ {p} /\ dirty' = dirty \ {p}
          /\ \A q \in Apps : q # p => proc'[q] = proc[q]
      BY <1>0, <1>3 DEF app_execs, app_exits, terminate_proc, reset_displays
    <2>. QED
      BY <1>0, <1>1, <2>1, DebtsMove
  <1>4. ASSUME NEW p \in Apps, app_forks(p)
        PROVE  DebtInv'
    <2>1. FirstFree \in Apps
      BY <1>0, <1>4, FirstFreeIs DEF app_forks
    <2>2. /\ unshown' = unshown \ {FirstFree} /\ dropped' = dropped \ {FirstFree}
          /\ dirty' = dirty \ {FirstFree}
          /\ \A q \in Apps : q # FirstFree => proc'[q] = proc[q]
      BY <1>0, <1>4 DEF app_forks, new_proc, reset_displays
    <2>. QED
      BY <1>0, <1>1, <2>2, DebtsMove
  <1>5. CASE input_focus_lapses
    <2>1. PICK p \in Apps : TRUE
      BY DesktopAssumption DEF Apps
    <2>. QED
      BY <1>2, <1>5
  <1>. QED
    BY <1>2, <1>3, <1>4, <1>5 DEF App

\* The rectangles of a poll: what is taken is marked in the desktop's mask.
LEMMA PollDebts ==
    ASSUME WindowsInv, DebtInv, poll_dirty
    PROVE  DebtInv'
  <1>1. PICK new \in SUBSET (dirty \cap WindowPids) : collects(new)
    BY DEF poll_dirty
  <1>2. /\ pending' = pending \cup dirty /\ unshown' = unshown \cup new
        /\ dropped \subseteq dropped'
    <2>1. CASE new = {}
      BY <1>1, <2>1 DEF collects
    <2>2. CASE new # {}
      BY <1>1, <2>2 DEF collects
    <2>. QED
      BY <2>1, <2>2
  <1>3. /\ UNCHANGED <<proc, windows>> /\ dirty' = {} /\ pc' = "reap"
        /\ WindowPids' = WindowPids
    BY DEF poll_dirty, WindowPids
  <1>4. NothingForgotten'
    BY <1>2 DEF DebtInv, NothingForgotten
  <1>. QED
    BY <1>2, <1>3, <1>4 DEF DebtInv

\* A window drawn, or left out for want of its buffer: the desktop is through with it.
LEMMA CompositeDebts ==
    ASSUME WindowsInv, DebtInv, composite_window
    PROVE  DebtInv'
  <1>1. /\ windows \in Seq(Window) /\ k \in Nat \ {0} /\ k \in DOMAIN windows
        /\ windows[k] \in Window
    <2>1. windows \in Seq(Window) /\ k \in Nat \ {0}
      BY DEF WindowsInv, Shaped, TypeOK
    <2>2. k \in DOMAIN windows
      BY <2>1 DEF composite_window
    <2>. QED
      BY <2>1, <2>2
  <1>2. PICK b \in BOOLEAN : shows(b)
    BY <1>1, ShowsIs
  <1>3. /\ DOMAIN windows' = DOMAIN windows
        /\ \A i \in DOMAIN windows : windows'[i].pid = windows[i].pid
    BY <1>1, <1>2, WindowChanged DEF shows
  <1>4. WindowPids' = WindowPids
    BY <1>3 DEF WindowPids
  <1>. DEFINE p == windows[k].pid
  <1>5. /\ UNCHANGED <<proc, dirty, pending, damages, pc>> /\ k' = k + 1
        /\ pc \in {"frame", "windows", "damage"}
    BY DEF composite_window, kernel
  <1>6. unshown' \subseteq unshown /\ unshown' \ dropped' \subseteq unshown \ dropped
    BY <1>2 DEF shows
  <1>7. pc # "damage" \/ damages = 1 => p \notin unshown' \ dropped'
    BY <1>2 DEF shows
  <1>8. NothingForgotten'
    BY <1>5, <1>6 DEF DebtInv, NothingForgotten
  <1>9. ASSUME pc \in {"frame", "windows"} \/ (pc = "damage" /\ damages = 1)
        PROVE  Through'
    <2>. SUFFICES ASSUME NEW i \in DOMAIN windows, i < k + 1
                  PROVE  windows[i].pid \notin unshown' \ dropped'
      BY <1>3, <1>5 DEF Through
    <2>1. i < k \/ i = k
      BY <1>1
    <2>2. CASE i < k
      BY <1>6, <1>9, <2>2 DEF DebtInv, Through
    <2>3. CASE i = k
      BY <1>7, <1>9, <2>3
    <2>. QED
      BY <2>1, <2>2, <2>3
  <1>. QED
    BY <1>4, <1>5, <1>6, <1>8, <1>9 DEF DebtInv

\* A frame is over when the desktop is through with all windows: what it clears from
\* its mask was shown or dropped.
LEMMA RenderedDebts ==
    ASSUME WindowsInv, DebtInv, rendered
    PROVE  DebtInv'
  <1>1. windows \in Seq(Window) /\ k \in Nat
    BY DEF WindowsInv, Shaped, TypeOK
  <1>2. /\ UNCHANGED <<proc, dirty, windows, unshown, dropped>> /\ pc' = "events"
        /\ WindowPids' = WindowPids
    BY DEF rendered, kernel, debts, WindowPids
  <1>3. Through /\ k > Len(windows)
    BY DEF rendered, DebtInv
  <1>4. \A i \in DOMAIN windows : windows[i].pid \notin unshown \ dropped
    BY <1>1, <1>3 DEF Through
  <1>5. unshown \subseteq dropped
    BY <1>4 DEF DebtInv, WindowPids
  <1>. QED
    BY <1>2, <1>5 DEF DebtInv, NothingForgotten

\* The desktop: a window goes only with a program that is over and owed nothing.
LEMMA DesktopDebts ==
    ASSUME WindowsInv, DebtInv, Events \/ Turn \/ render_damage
    PROVE  DebtInv'
  <1>0. /\ windows \in Seq(Window) /\ k \in Nat \ {0} /\ TypeOK
        /\ proc \in [Apps -> {"EMPTY", "RUNNING", "ZOMBIE"}]
        /\ \A a, b \in DOMAIN windows : windows[a].pid = windows[b].pid => a = b
        /\ \A i \in DOMAIN windows : windows[i] \in Window /\ windows[i].pid \in Apps
        /\ unshown \subseteq WindowPids /\ dirty \cup unshown \subseteq Apps
        /\ \A p \in dirty \cup unshown : proc[p] = "RUNNING"
        /\ unshown = unshown \ {} /\ dropped = dropped \ {}
    <2>1. windows \in Seq(Window)
      BY DEF WindowsInv, Shaped
    <2>2. \A i \in DOMAIN windows : windows[i] \in Window
      BY <2>1
    <2>. QED
      BY <2>1, <2>2 DEF WindowsInv, WindowsAreChildren, Shaped, TypeOK, Window, DebtInv
  <1>1. ASSUME NEW i \in DOMAIN windows, closes(i)
        PROVE  DebtInv'
    <2>1. /\ UNCHANGED <<windows, pending>> /\ pc' = "close_wait" /\ WindowPids' = WindowPids
      BY <1>1 DEF closes, WindowPids
    <2>2. CASE Alive(windows[i].pid)
      <3>. DEFINE p == windows[i].pid
      <3>1. /\ unshown' = unshown \ {p} /\ dropped' = dropped \ {p} /\ dirty' = dirty \ {p}
            /\ \A q \in Apps : q # p => proc'[q] = proc[q]
        BY <1>0, <1>1, <2>2 DEF closes, terminate_proc, reset_displays
      <3>. QED
        BY <1>0, <2>1, <3>1, DebtsMove
    <2>3. CASE ~Alive(windows[i].pid)
      <3>1. UNCHANGED <<proc, dirty, unshown, dropped>>
        BY <1>1, <2>3 DEF closes, kernel, debts
      <3>. QED
        BY <1>0, <2>1, <3>1, DebtsMove
    <2>. QED
      BY <2>2, <2>3
  <1>2. CASE key_escape \/ click_close
    <2>1. windows # <<>> => Len(windows) \in DOMAIN windows
      BY <1>0, EmptySeq
    <2>. QED
      BY <1>1, <1>2, <2>1 DEF key_escape, click_close
  <1>3. CASE launch_app
    <2>1. FirstFree \in Apps
      BY <1>0, <1>3, FirstFreeIs DEF launch_app
    <2>2. /\ unshown' = unshown \ {FirstFree} /\ dropped' = dropped \ {FirstFree}
          /\ dirty' = dirty \ {FirstFree}
          /\ \A q \in Apps : q # FirstFree => proc'[q] = proc[q]
          /\ UNCHANGED <<windows, pending>> /\ pc' = "launched" /\ WindowPids' = WindowPids
      BY <1>0, <1>3 DEF launch_app, new_proc, reset_displays, WindowPids
    <2>. QED
      BY <1>0, <2>2, DebtsMove
  <1>4. ASSUME k \in DOMAIN windows, windows' = removed(k), proc[windows[k].pid] = "ZOMBIE",
               proc' = [proc EXCEPT ![windows[k].pid] = "EMPTY"],
               UNCHANGED <<dirty, unshown, dropped, pending>>,
               pc' \in {"events", "refocus_events", "reap", "refocus_reap"}
        PROVE  DebtInv'
    <2>. DEFINE p == windows[k].pid
    <2>1. {removed(k)[a].pid : a \in DOMAIN removed(k)} = WindowPids \ {p}
      BY <1>0, <1>4, RemovedPids
    <2>2. WindowPids' = WindowPids \ {p}
      BY <1>4, <2>1 DEF WindowPids
    <2>3. p \notin dirty \cup unshown
      BY <1>0, <1>4
    <2>4. \A q \in dirty' \cup unshown' : proc'[q] = "RUNNING"
      BY <1>0, <1>4, <2>3
    <2>. QED
      BY <1>0, <1>4, <2>2, <2>3, <2>4, DebtsMove
  <1>5. CASE close_wait
    <2>1. k \in DOMAIN windows /\ windows[k].pid = who
      BY <1>5 DEF close_wait, WindowsInv, MidCall
    <2>2. /\ windows' = removed(k) /\ proc[who] = "ZOMBIE"
          /\ proc' = [proc EXCEPT ![who] = "EMPTY"]
          /\ UNCHANGED <<dirty, unshown, dropped, pending>>
          /\ pc' \in {"events", "refocus_events"}
      BY <1>5 DEF close_wait, debts
    <2>. QED
      BY <1>4, <2>1, <2>2
  <1>6. CASE reap_child
    <2>1. k \in DOMAIN windows
      BY <1>0, <1>6 DEF reap_child
    <2>2. /\ windows' = removed(k) /\ proc[windows[k].pid] = "ZOMBIE"
          /\ proc' = [proc EXCEPT ![windows[k].pid] = "EMPTY"]
          /\ UNCHANGED <<dirty, unshown, dropped, pending>>
          /\ pc' \in {"reap", "refocus_reap"}
      BY <1>6 DEF reap_child, debts
    <2>. QED
      BY <1>4, <2>1, <2>2
  <1>7. ASSUME UNCHANGED <<proc, dirty, unshown, dropped, pending>>,
               WindowPids \subseteq WindowPids',
               \/ UNCHANGED <<pc, k, windows, damages>>
               \/ pc' \notin {"render", "frame", "windows", "damage"}
               \/ k' = 1 /\ windows' = windows
        PROVE  DebtInv'
    BY <1>0, <1>7, DebtsMove
  <1>8. CASE click_window
    <2>1. PICK i \in DOMAIN windows, ht \in BOOLEAN :
              windows' = Append(removed(i), [windows[i] EXCEPT !.dragging = @ \/ ht])
      BY <1>8 DEF click_window
    <2>2. PICK b \in BOOLEAN : b = (windows[i].dragging \/ ht)
      OBVIOUS
    <2>3. PICK w : w = [windows[i] EXCEPT !.dragging = b]
      OBVIOUS
    <2>4. w \in Window /\ w.pid = windows[i].pid /\ windows' = Append(removed(i), w)
      BY <1>0, <2>1, <2>2, <2>3 DEF Window
    <2>5. WindowPids' = WindowPids
      BY <1>0, <2>4, RaisedPids
    <2>. QED
      BY <1>7, <1>8, <2>5 DEF click_window, Event, debts
  <1>9. CASE launched
    <2>1. who \in Apps /\ who \notin WindowPids
      BY <1>9 DEF launched, WindowsInv, MidCall
    <2>2. PICK w : w = [pid |-> who, fb |-> FALSE, dragging |-> FALSE]
      OBVIOUS
    <2>3. w \in Window /\ w.pid = who /\ windows' = Append(windows, w)
      BY <1>9, <2>1, <2>2 DEF launched, Window
    <2>4. WindowPids' = WindowPids \cup {who}
      BY <1>0, <2>1, <2>3, AddedPids
    <2>. QED
      BY <1>7, <1>9, <2>4 DEF launched, debts
  <1>10. CASE button_up
    <2>1. WindowPids' = WindowPids
      BY <1>0, <1>10, WindowsDropped DEF button_up, WindowPids
    <2>. QED
      BY <1>7, <1>10, <2>1 DEF button_up, Event, kernel, debts
  <1>11. CASE \/ launch_app_fails \/ click_desktop \/ other_event \/ events_end \/ drag
              \/ focus_top_window_or_desktop \/ reap_next \/ reap_ends \/ render_not
    <2>1. UNCHANGED <<proc, dirty, unshown, dropped, pending, windows>>
      BY <1>11 DEF launch_app_fails, click_desktop, other_event, events_end, drag, reap_next,
                   focus_top_window_or_desktop, reap_ends, render_not, kernel, debts
    <2>2. pc' \notin {"render", "frame", "windows", "damage"} \/ k' = 1
      BY <1>11 DEF launch_app_fails, click_desktop, other_event, events_end, drag, reap_next,
                   focus_top_window_or_desktop, reap_ends, render_not, Event
    <2>. QED
      BY <1>7, <2>1, <2>2 DEF WindowPids
  <1>12. CASE render_frame \/ render_damage \/ next_rect
    <2>1. UNCHANGED <<proc, dirty, unshown, dropped, pending, windows>> /\ k' = 1
      BY <1>12 DEF render_frame, render_damage, next_rect, kernel, debts, DebtInv
    <2>. QED
      BY <1>7, <2>1 DEF WindowPids
  <1>. QED
    BY <1>2, <1>3, <1>5, <1>6, <1>8, <1>9, <1>10, <1>11, <1>12, PollDebts, CompositeDebts,
       RenderedDebts DEF Events, Turn

\* A stuttering step keeps all of them.
LEMMA DesktopStutters ==
    ASSUME WindowsInv, PicturesInv, DebtInv, UNCHANGED vars
    PROVE  WindowsInv' /\ PicturesInv' /\ DebtInv'
  <1>1. /\ UNCHANGED <<proc, sub_procs, shadow, foreign, dirty, input_focus_pid>>
        /\ UNCHANGED <<windows, focus_pid, ui_dirty, pending, damages, pc, k, who, burst>>
        /\ UNCHANGED <<unshown, dropped, moved>>
    BY DEF vars, kernel, loop, debts
  <1>2. Shaped'
    BY <1>1, ShapedIs DEF WindowsInv, Typed
  <1>3. WindowsInv'
    BY <1>1, <1>2, SlotsMoveKeeps DEF SlotsMove
  <1>4. NoForeignPicture' /\ PagesOwn'
    BY <1>1 DEF PicturesInv, NoForeignPicture, PagesOwn
  <1>5. DrawnWhole'
    BY <1>1, Zenon DEF PicturesInv, DrawnWhole
  <1>6. DebtInv'
    <2>1. WindowPids' = WindowPids
      BY <1>1 DEF WindowPids
    <2>2. unshown' = unshown \ {} /\ dropped' = dropped \ {}
      BY <1>1
    <2>. QED
      BY <1>1, <2>1, <2>2, DebtsMove DEF DebtInv
  <1>. QED
    BY <1>3, <1>4, <1>5, <1>6 DEF PicturesInv

\* The desktop starts alone, without windows, and with everything to draw.
LEMMA DesktopInit == Init => WindowsInv /\ PicturesInv /\ DebtInv
  <1>. SUFFICES ASSUME Init PROVE WindowsInv /\ PicturesInv /\ DebtInv
    OBVIOUS
  <1>1. windows = <<>> /\ windows \in Seq(Window) /\ DOMAIN windows = {}
    BY DEF Init
  <1>2. Typed
    <2>1. proc \in [Apps -> {"EMPTY", "RUNNING", "ZOMBIE"}]
      BY DEF Init
    <2>2. /\ input_focus_pid \in Pids /\ focus_pid \in Pids /\ who \in Pids
          /\ burst \in 0..MaxBurst /\ damages \in 0..MaxDamage /\ k \in Nat \ {0}
      BY PidsAre, DesktopAssumption DEF Init
    <2>3. ui_dirty \in BOOLEAN /\ moved \in BOOLEAN /\ pc \in Pcs
      BY DEF Init, Pcs
    <2>. QED
      BY <2>1, <2>2, <2>3 DEF Init, Typed
  <1>3. Shaped
    BY <1>1, <1>2, ShapedIs
  <1>4. WindowPids = {}
    BY <1>1 DEF WindowPids
  <1>5. WindowsInv
    BY <1>1, <1>3, <1>4 DEF Init, WindowsInv, WindowsAreChildren, MidCall, FocusFollows,
                            FocusAgrees
  <1>6. PicturesInv
    BY <1>1 DEF Init, PicturesInv, NoForeignPicture, PagesOwn, DrawnWhole
  <1>7. DebtInv
    BY <1>4 DEF Init, DebtInv, NothingForgotten
  <1>. QED
    BY <1>5, <1>6, <1>7

\* Every step of the desktop and of the programs keeps the invariants.
LEMMA DesktopStep ==
    WindowsInv /\ PicturesInv /\ DebtInv /\ [Next]_vars
        => WindowsInv' /\ PicturesInv' /\ DebtInv'
  <1>. SUFFICES ASSUME WindowsInv, PicturesInv, DebtInv, Next
                PROVE  WindowsInv' /\ PicturesInv' /\ DebtInv'
    BY DesktopStutters
  <1>1. DrawnWhole'
    BY DrawnStep DEF PicturesInv
  <1>2. App \/ (Events \/ Turn \/ render_damage)
    BY DEF Next
  <1>3. CASE App
    BY <1>1, <1>3, AppKeeps, AppPictures, AppDebts DEF PicturesInv
  <1>4. CASE Events \/ Turn \/ render_damage
    BY <1>1, <1>4, DesktopKeeps, DesktopPictures, DesktopDebts DEF PicturesInv
  <1>. QED
    BY <1>2, <1>3, <1>4

\* Windows, children, focus, pictures and what the desktop owes, with what the desktop
\* and the kernel know of a call that is half done.
THEOREM DesktopInvHolds == Spec => [](WindowsInv /\ PicturesInv /\ DebtInv)
  BY DesktopInit, DesktopStep, PTL DEF Spec

\* Every window has its own child of the desktop and every child its window, and the
\* keyboard belongs to the desktop or to a program with a window, although programs
\* die and slots are taken again between any two calls, for any number of slots
\* (launch_app, close_window, reap_children, input_focus_set).
THEOREM WindowsAlwaysTrue == Spec => []WindowsTrue
  <1>1. WindowsInv => WindowsTrue
    <2>. SUFFICES ASSUME WindowsInv PROVE WindowsTrue
      OBVIOUS
    <2>1. TypeOK /\ WindowsAreChildren /\ FocusAgrees /\ FocusFollows
      BY DEF WindowsInv, Shaped
    <2>2. ASSUME ~Refocusing
          PROVE  input_focus(input_focus_pid) \in {1} \cup WindowPids
      <3>1. input_focus(input_focus_pid) \in {1, input_focus_pid}
        BY DEF input_focus
      <3>2. input_focus_pid \in {1} \cup WindowPids
        BY <2>1, <2>2 DEF FocusFollows, FocusAgrees
      <3>. QED
        BY <3>1, <3>2
    <2>. QED
      BY <2>1, <2>2 DEF WindowsTrue, KeysGoToWindow
  <1>. QED
    BY <1>1, DesktopInvHolds, PTL

\* No window ever shows the picture of an earlier process of its slot, drawing the
\* damage alone is never too little, and what the desktop has taken from the kernel's
\* marks is in its mask until it is shown, but for the slips of add_damage_rect and
\* buffers that could not be mapped (virtual_gpu_reset_display, mmap_child_fb, ui_dirty,
\* pending_child_dirty).
THEOREM PicturesAlwaysTrue == Spec => []PicturesTrue
  <1>1. PicturesInv /\ DebtInv => PicturesTrue
    <2>. SUFFICES ASSUME PicturesInv, DebtInv PROVE PicturesTrue
      OBVIOUS
    <2>1. DamageIsEnough
      BY Zenon DEF PicturesInv, DrawnWhole, DamageIsEnough
    <2>. QED
      BY <2>1 DEF PicturesInv, DebtInv, PicturesTrue
  <1>. QED
    BY <1>1, DesktopInvHolds, PTL
=============================================================================
