------------------------------ MODULE Viewport ------------------------------
(***************************************************************************)
(* Where rows and columns lie on the screen (packages/render: axis.ts,     *)
(* viewport.ts, scroll-anchor.ts; packages/grid: resize-interaction.ts).   *)
(* Both directions follow the same rules, so an operator speaks of one of  *)
(* them.  A band is                                                        *)
(*   sizes   the size of each row (column)    begins  where each begins    *)
(*   frozen  how many do not move                                          *)
(*   header  the size of the header           extent  that of the screen   *)
(*   scroll  how far the others are scrolled  over    the overscan         *)
(* Positions count from 1, with 0 for the header; pixels from 0.           *)
(***************************************************************************)
EXTENDS Integers, Sequences, FiniteSetsExt, SequencesExt

CONSTANTS
  MinSize, MaxSize,  \* clampColumnWidth, clampRowHeight
  Handle             \* RESIZE_HANDLE_PX

ASSUME SizesAssumption ==
  MinSize \in Nat \ {0} /\ MaxSize \in Nat /\ MinSize <= MaxSize /\ Handle \in Nat

Within(i, low, high) == IF i < low THEN low ELSE IF i > high THEN high ELSE i

-----------------------------------------------------------------------------
(* The axis.                                                                *)

(* ensurePrefix: where each position begins, the end counting as one.       *)
Prefix(sizes) == FoldLeft(LAMBDA begins, size : Append(begins, begins[Len(begins)] + size), <<0>>, sizes)

OffsetOf(b, i) == b.begins[Within(i, 1, Len(b.begins))]

TotalSize(b) == OffsetOf(b, Len(b.begins))

(* indexAt: the last position that begins at the pixel or before, found by  *)
(* halving [low, high).                                                     *)
IndexAt(b, pixel) ==
  LET n == Len(b.sizes)
      search[low \in 1..n, high \in 1..(n + 1)] ==
        LET mid == (low + high) \div 2
        IN  IF low + 1 >= high THEN low
            ELSE IF b.begins[mid] <= pixel THEN search[mid, high] ELSE search[low, mid]
  IN  IF n = 0 \/ pixel <= 0 THEN 1
      ELSE IF pixel >= b.begins[n + 1] THEN n
      ELSE search[1, n + 1]

-----------------------------------------------------------------------------
(* The band on the screen.                                                  *)

Frozen(b) == Within(b.frozen, 0, Len(b.sizes))

FrozenSize(b) == OffsetOf(b, Frozen(b) + 1)

(* bodyOrigin: where the part that scrolls begins.                          *)
Seam(b) == b.header + FrozenSize(b)

(* colViewportX, rowViewportY.                                              *)
Edge(b, i) == b.header + OffsetOf(b, i) - (IF i <= Frozen(b) THEN 0 ELSE b.scroll)

(* The pixels of a position, cellRect in one direction.                     *)
Span(b, i) == Edge(b, i)..(Edge(b, i) + b.sizes[i] - 1)

Part == {"frozen", "scrolling"}

(* scrollColRange, scrollRowRange: the positions to draw, overscan          *)
(* included.                                                                *)
ScrollRange(b) ==
  LET first == IndexAt(b, FrozenSize(b) + b.scroll - b.over)
      last  == IndexAt(b, b.scroll + b.extent - b.header + b.over)
  IN  IF Seam(b) >= b.extent \/ Frozen(b) = Len(b.sizes) THEN {}
      ELSE Max({first, Frozen(b) + 1})..last

PartRange(b, part) == IF part = "frozen" THEN 1..Frozen(b) ELSE ScrollRange(b)

(* makeClip: the pixels a part may draw on.                                 *)
Clip(b, part) == IF part = "frozen" THEN b.header..(Seam(b) - 1) ELSE Seam(b)..(b.extent - 1)

(* hitTest.  Slip: past the end where all is frozen, or with nothing on the *)
(* axis, there is no such position and the code's getId throws.             *)
Hit(b, pixel) ==
  IF pixel < b.header THEN 0
  ELSE IF pixel < Seam(b) THEN Within(IndexAt(b, pixel - b.header), 1, Frozen(b))
  ELSE Within(IndexAt(b, pixel - b.header + b.scroll), Frozen(b) + 1, Len(b.sizes) + 1)

ScrollableSize(b) == b.header + TotalSize(b)

(* Slip: a position under the frozen part counts as visible.                *)
RevealUnderFrozen(b, i, visible) ==
  LET first == Edge(b, i)
      last  == first + b.sizes[i]
  IN  IF i <= b.frozen THEN b.scroll
      ELSE IF first < b.header THEN b.scroll + first - Seam(b)
      ELSE IF last > visible THEN b.scroll + last - visible
      ELSE b.scroll

(* ensureCellVisible: the smallest scroll that brings a position before the *)
(* end of the visible area.                                                 *)
Reveal(b, i, visible) ==
  LET first == Edge(b, i)
      last  == first + b.sizes[i]
  IN  IF i <= b.frozen THEN b.scroll
      ELSE IF first < Seam(b) THEN b.scroll + first - Seam(b)
      ELSE IF last > visible THEN b.scroll + last - visible
      ELSE b.scroll

(* resizeHitTest: the position whose end the pixel of the header is near,   *)
(* 0 if none.                                                               *)
ResizeHit(b, pixel) ==
  LET i == Hit(b, pixel)
      near(edge) == pixel - edge \in (-Handle)..Handle
      adjoins == i > 1 /\ Edge(b, i - 1) + b.sizes[i - 1] = Edge(b, i)
  IN  IF i \notin DOMAIN b.sizes THEN 0
      ELSE IF near(Edge(b, i) + b.sizes[i]) THEN i
      ELSE IF adjoins /\ near(Edge(b, i)) THEN i - 1
      ELSE 0

(* computeResizeSize.                                                       *)
Dragged(b, i, pixel) == Within(pixel - Edge(b, i), MinSize, MaxSize)

-----------------------------------------------------------------------------
(* The anchor: what is first in the part that scrolls, and how far into it  *)
(* the seam is.                                                             *)

CaptureAnchor(b, ids) ==
  LET top == FrozenSize(b) + b.scroll
      i   == Within(Within(IndexAt(b, top), Frozen(b) + 1, Len(b.sizes) + 1), 1, Len(b.sizes))
  IN  [id |-> ids[i], within |-> top - OffsetOf(b, i), hint |-> i]

(* Slip: the anchor is the place, whatever row is there now.                *)
CorrectScrollByPlace(b, ids, anchor) ==
  LET i == Within(anchor.hint, 1, IF Len(ids) = 0 THEN 1 ELSE Len(ids))
  IN  Max({0, OffsetOf(b, i) + anchor.within - FrozenSize(b)})

(* correctScroll: the scroll at which the anchor, or what took its place,   *)
(* is first again.                                                          *)
CorrectScroll(b, ids, anchor) ==
  LET same == {j \in DOMAIN ids : ids[j] = anchor.id}
      i    == IF same # {} THEN CHOOSE j \in same : TRUE
              ELSE Within(anchor.hint, 1, IF Len(ids) = 0 THEN 1 ELSE Len(ids))
      scroll == OffsetOf(b, i) + anchor.within - FrozenSize(b)
  IN  IF scroll < 0 THEN 0 ELSE scroll
=============================================================================
