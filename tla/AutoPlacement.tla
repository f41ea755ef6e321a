----------------------------- MODULE AutoPlacement -----------------------------
(***************************************************************************)
(* Where the visible signature of a document goes when nobody places it    *)
(* (packages/signer/src/autoPlacement.ts, on what analyzePdf.ts and        *)
(* textBands.ts read in the file), and what happens to the next signature  *)
(* of the same document: the stamps already there are obstacles.           *)
(*                                                                         *)
(* Lengths are whole units (a unit is some 7 points): halves round down    *)
(* and the epsilons of the code, all smaller than a unit, are nothing.     *)
(* Pages are numbered from 1.                                              *)
(***************************************************************************)
EXTENDS Integers, SequencesExt, FiniteSetsExt

CONSTANTS
  EdgeMargin, HalfGap, FooterStrip, BlockGap, MergeTolerance, ColumnSplit,
  MinWidth, MinHeight, MinLegible,
  SigBoxW, SigBoxH,                    \* the box of a signature by default
  WatermarkRatio,
  MaxSlots, MaxVertical, MaxSurveyed,  \* the bounds of the searches
  Papers,     \* the documents before anybody signs them in this application
  Anchors,    \* the positions preferred for a signature
  MaxStamps,  \* bound on the signatures of a document
  None

Gap == 2 * HalfGap

\* Why a place is refused for the signature itself (a length is always finite here).
Refusals == {"rect_too_small", "rect_out_of_media_box", "rect_outside_visible_area"}

\* A place that a search found.
Slot == [x : Int, y : Int, w : Nat, h : Nat, u : Nat, v : Nat]

\* What analyzePdf.ts and textBands.ts give of a document. A line without a
\* reliable beginning has None for one; so has one without a reliable end.
Sheets == [mediaW : Nat, mediaH : Nat, x : Int, y : Int, w : Nat, h : Nat,
           rotate : {0, 90, 180, 270}]

IsPaper(d) ==
  /\ {"pages", "lines", "stamps", "fields", "failure"} \subseteq DOMAIN d
  /\ d.pages \in Seq(Sheets)
  /\ IsFiniteSet(d.lines)
  /\ \A l \in d.lines : /\ {l.page, l.y, l.h} \subseteq Int
                        /\ {l.x, l.end} \subseteq Int \cup {None}
  /\ d.stamps \in Seq([page : DOMAIN d.pages, x : Int, y : Int, w : Nat, h : Nat, source : {"other"}])
  /\ d.fields \in Seq([page : DOMAIN d.pages, x : Int, y : Int, w : Nat, h : Nat])
  /\ d.pages = <<>> => d.failure \in {"encrypted", "unreadable"}

ASSUME LengthsAssumption ==
  /\ {EdgeMargin, HalfGap, FooterStrip, BlockGap, MergeTolerance, ColumnSplit} \subseteq Nat
  /\ {MinWidth, MinHeight, MinLegible, SigBoxW, SigBoxH} \subseteq Nat
  /\ {WatermarkRatio, MaxVertical, MaxSurveyed, MaxStamps} \subseteq Nat /\ MaxSlots \in Nat \ {0}
  /\ None \notin Int \cup Refusals \cup Slot

ASSUME PapersAssumption ==
  \A d \in Papers : IsPaper(d) /\ Len(d.stamps) <= MaxStamps

ASSUME AnchorsAssumption ==
  \A a \in Anchors : /\ a \in [page : Int, v : Int, u : Int \cup {None}, kind : STRING,
                                w : Nat \cup {None}, h : Nat \cup {None}]
                     /\ (a.w = None) = (a.h = None)

VARIABLES
  paper,    \* the document: pages, text, declared fields, stamps
  anchor,   \* the position preferred in the next analysis, or None
  analysis   \* of the analysis, or None

placementVars == <<paper, anchor, analysis>>

-----------------------------------------------------------------------------
(* Rectangles, on the page and as the reader sees it.                      *)

Least(a, b)    == IF a <= b THEN a ELSE b
Greatest(a, b) == IF a <= b THEN b ELSE a
Distance(a, b) == IF a <= b THEN b - a ELSE a - b

Top(r) == r.y + r.h

\* The first of two results, if there is one.
Otherwise(a, b) == IF a # None THEN a ELSE b

LeastOf(S) ==
  IF \E x \in S : \A y \in S : x <= y THEN CHOOSE x \in S : \A y \in S : x <= y ELSE None
GreatestOf(S) ==
  IF \E x \in S : \A y \in S : y <= x THEN CHOOSE x \in S : \A y \in S : y <= x ELSE None

\* A point of the page in the coordinates of the reader: from the corner that
\* is at the bottom left after the rotation, inside the visible area.
ToCanonical(g, x, y) ==
  CASE g.rotate = 0   -> <<x - g.x, y - g.y>>
    [] g.rotate = 180 -> <<g.x + g.w - x, g.y + g.h - y>>
    [] g.rotate = 90  -> <<y - g.y, g.x + g.w - x>>
    [] g.rotate = 270 -> <<g.y + g.h - y, x - g.x>>

FromCanonical(g, u, v) ==
  CASE g.rotate = 0   -> <<g.x + u, g.y + v>>
    [] g.rotate = 180 -> <<g.x + g.w - u, g.y + g.h - v>>
    [] g.rotate = 90  -> <<g.x + g.w - v, g.y + u>>
    [] g.rotate = 270 -> <<g.x + v, g.y + g.h - u>>

Between(a, b) ==
  [x |-> Least(a[1], b[1]), y |-> Least(a[2], b[2]),
   w |-> Distance(a[1], b[1]), h |-> Distance(a[2], b[2])]

RectToCanonical(g, r) ==
  Between(ToCanonical(g, r.x, r.y), ToCanonical(g, r.x + r.w, r.y + r.h))
RectFromCanonical(g, r) ==
  Between(FromCanonical(g, r.x, r.y), FromCanonical(g, r.x + r.w, r.y + r.h))

Across(g)    == g.rotate \in {90, 270}
OrientedW(g) == IF Across(g) THEN g.h ELSE g.w
OrientedH(g) == IF Across(g) THEN g.w ELSE g.h

RectsOverlap(a, b, pad) ==
  ~(\/ a.x + a.w + pad <= b.x \/ b.x + b.w + pad <= a.x
    \/ a.y + a.h + pad <= b.y \/ b.y + b.h + pad <= a.y)

IsFree(r, onPage) == \A o \in onPage : ~RectsOverlap(r, o, HalfGap)

Separation(a, b) ==
  Greatest(Greatest(b.x - (a.x + a.w), a.x - (b.x + b.w)),
           Greatest(b.y - (a.y + a.h), a.y - (b.y + b.h)))

Clearance(r, onPage) == LeastOf({Separation(r, o) : o \in onPage})

\* The checks of the signature itself; the page is taken to begin at (0, 0).
VisibleSigRejection(r, g) ==
  IF r.w < MinWidth \/ r.h < MinHeight THEN "rect_too_small"
  ELSE IF r.x < 0 \/ r.y < 0 \/ r.x + r.w > g.mediaW \/ r.y + r.h > g.mediaH
  THEN "rect_out_of_media_box"
  ELSE IF r.x < g.x \/ r.y < g.y \/ r.x + r.w > g.x + g.w \/ r.y + r.h > g.y + g.h
  THEN "rect_outside_visible_area"
  ELSE None

-----------------------------------------------------------------------------
(* Text: the lines of a page merge into bands as wide as the page; a band  *)
(* keeps where each of its lines begins and ends.                          *)

\* The elements that no lower one reaches: each begins a group.
Begins(S, tol) == {r \in S : \A q \in S : q.y < r.y => r.y - Top(q) > tol}

MergeBands(lines) ==
  LET low(y) == {l \in lines : l.y >= y /\ \A n \in Begins(lines, MergeTolerance) : n.y > y => l.y < n.y}
  IN {[y |-> y, h |-> GreatestOf({Top(l) : l \in low(y)}) - y,
       x |-> LeastOf({l.x : l \in {m \in low(y) : m.y = y /\ m.x # None}}),
       starts |-> {[x |-> l.x, y |-> l.y, end |-> l.end] : l \in {m \in low(y) : m.x # None}}] :
       y \in {l.y : l \in Begins(lines, MergeTolerance)}}

\* A text much taller than the others is across the page, and not on it.
WithoutWatermark(lines) ==
  LET n      == Cardinality(lines)
      upTo(h) == Cardinality({l \in lines : l.h <= h})
      median == LeastOf({h \in {l.h : l \in lines} : upTo(h) > n \div 2})
      kept   == {l \in lines : l.h <= median * WatermarkRatio}
  IN IF n < 3 \/ median <= 0 \/ kept = {} THEN lines ELSE kept

\* A page that was not read to its end counts as one nothing is known of.
Bands(d, p) ==
  IF p \in d.unread THEN {}
  ELSE {b \in MergeBands(WithoutWatermark({l \in d.lines : l.page = p})) : b.h \in Nat \ {0}}

BandRect(g, b) == [x |-> g.x, y |-> b.y, w |-> g.w, h |-> b.h]
Spot(g, x, y)  == RectToCanonical(g, [x |-> x, y |-> y, w |-> 1, h |-> 1])

\* The rows of the points: each begins at the lowest point that the row before
\* does not reach.
RowStarts(vs) ==
  FoldLeft(LAMBDA rows, v : IF \E r \in rows : v - r <= MergeTolerance THEN rows ELSE rows \cup {v},
           {}, SetToSortSeq(vs, <))

\* The leftmost point that is far enough from the one on its left in its row.
SecondColumn(g, points, rows) ==
  LET row(q)   == GreatestOf({v \in rows : v <= q.v})
      needed   == Least(ColumnSplit, OrientedW(g) \div 4)
      opens(q) == \E l \in points : /\ row(l) = row(q) /\ q.u - l.u >= needed /\ l.u < q.u
                                    /\ ~\E m \in points : row(m) = row(q) /\ l.u < m.u /\ m.u < q.u
  IN LeastOf({q.u : q \in {c \in points : opens(c)}})

LowestU(points) == LeastOf({q.u : q \in {l \in points : \A m \in points : l.v <= m.v}})

TwoColumns(points, second) ==
  IF second = None THEN None
  ELSE [boundary |-> second, u |-> LowestU({q \in points : q.u < second})]

StartsOf(g, b) == {LET r == Spot(g, s.x, s.y) IN [u |-> r.x, v |-> r.y] : s \in b.starts}

\* Two signers side by side: where the second column begins, and where the
\* lowest line of the first one does.
ColumnsOf(g, b) ==
  TwoColumns(StartsOf(g, b), SecondColumn(g, StartsOf(g, b), RowStarts({q.v : q \in StartsOf(g, b)})))

Obstacle(r, row) == [x |-> r.x, y |-> r.y, w |-> r.w, h |-> r.h, row |-> row]

\* A band of the footer that is the row of two signatures is no footer.
TextBandRects(g, bands) ==
  {LET r == RectToCanonical(g, BandRect(g, b)) IN
   Obstacle(r, Top(r) <= FooterStrip /\ ColumnsOf(g, b) # None) : b \in bands}

Stamps(d, p) == {s \in Range(d.stamps) : s.page = p}

StampRects(d, p) ==
  {Obstacle(RectToCanonical(d.pages[p], s), FALSE) : s \in Stamps(d, p)}

Obstacles(d, p) == StampRects(d, p) \cup TextBandRects(d.pages[p], Bands(d, p))

-----------------------------------------------------------------------------
(* The space a document left for its signature.                            *)

\* Above the block of text at the foot of the page (or above the row of two
\* signatures), if the box fits there with text above it. What ends inside the
\* footer is not part of the block.
BlockTop(onPage, boxH) ==
  LET body  == {r \in onPage : Top(r) > FooterStrip \/ r.row}
      start == LeastOf({r.y : r \in body})
      rest  == {r \in onPage : r.y > start} \cup {r \in body : r.y = start}
      above == LeastOf({r.y : r \in {q \in Begins(rest, BlockGap) : q.y > start}})
      top   == GreatestOf({Top(r) : r \in {q \in rest : q.y < above}})
  IN IF start = None \/ above = None \/ top = None \/ above - top < boxH + Gap THEN None ELSE top

\* mutant: a whole gap is left over the block
ReservedGapWide(onPage, boxH) ==
  LET top == BlockTop(onPage, boxH) IN IF top = None THEN None ELSE top + Gap

ReservedGapV(onPage, boxH) ==
  LET top == BlockTop(onPage, boxH) IN IF top = None THEN None ELSE top + HalfGap

\* The highest line that ends below the gap.
SignatureBlock(g, bands, gapV) ==
  LET tall(b) == RectToCanonical(g, [x |-> b.x, y |-> b.y, w |-> 1, h |-> b.h])
      below   == {b \in bands : b.x # None /\ Top(tall(b)) <= gapV}
      highest == {b \in below : \A c \in below : tall(c).y <= tall(b).y}
  IN IF highest = {} THEN None
     ELSE LET b == CHOOSE b \in highest : TRUE IN [u |-> tall(b).x, band |-> b]

ClampBlockU(g, u, w) == Greatest(EdgeMargin, Least(u, OrientedW(g) - EdgeMargin - w))
CenteredU(g, w) ==
  Greatest(EdgeMargin, Least((OrientedW(g) - w) \div 2, OrientedW(g) - EdgeMargin - w))

\* Narrower than the box, so as to leave the other signer's column alone,
\* unless nothing would be legible in what is left.
WidthWithinColumn(w, u, boundary) ==
  LET room == boundary - HalfGap - Greatest(EdgeMargin, u) IN
  IF room >= w \/ room < MinLegible THEN w ELSE room

\* The middle of the text of the first column, where its lines all have an end.
MiddleOf(lines) ==
  IF lines = {} THEN None ELSE (LeastOf({r.x : r \in lines}) + GreatestOf({r.x + r.w : r \in lines})) \div 2

ColumnCenterU(g, b, boundary) ==
  LET mine == {s \in b.starts : boundary = None \/ Spot(g, s.x, s.y).x < boundary}
      line(s) == RectToCanonical(g, [x |-> s.x, y |-> s.y, w |-> s.end - s.x, h |-> 1])
  IN IF Across(g) \/ (\E s \in mine : s.end = None \/ s.end <= s.x)
     THEN None
     ELSE MiddleOf({line(s) : s \in mine})

PageTextLeftU(g, bands) ==
  Greatest(EdgeMargin,
           Otherwise(LeastOf({Spot(g, s.x, s.y).x : s \in UNION {b.starts : b \in bands}}), EdgeMargin))

CenteredBetween(left, right, center, boxW) ==
  LET w == Least(boxW, right - left) IN
  IF center = None \/ right <= left \/ w < MinLegible THEN None
  ELSE [u |-> Greatest(left, Least(center - w \div 2, right - w)), w |-> w]

CenteredWithinColumn(g, bands, b, boundary, boxW) ==
  CenteredBetween(PageTextLeftU(g, bands),
                  IF boundary # None THEN boundary - HalfGap ELSE OrientedW(g) - EdgeMargin,
                  ColumnCenterU(g, b, boundary), boxW)

\* In the middle of a column, or from where its text begins.
InColumn(g, bands, band, boundary, u, w) ==
  Otherwise(CenteredWithinColumn(g, bands, band, boundary, w), [u |-> ClampBlockU(g, u, w), w |-> w])

OverColumns(g, bands, block, columns, boxW) ==
  IF columns = None THEN InColumn(g, bands, block.band, None, block.u, boxW)
  ELSE InColumn(g, bands, block.band, columns.boundary, columns.u,
                WidthWithinColumn(boxW, columns.u, columns.boundary))

OverBlock(g, bands, block, boxW, byDefault) ==
  CASE block = None -> None
    [] block # None /\ byDefault  -> OverColumns(g, bands, block, ColumnsOf(g, block.band), boxW)
    [] block # None /\ ~byDefault -> [u |-> ClampBlockU(g, block.u, boxW), w |-> boxW]

\* Where the box goes over the block below the gap, and how wide it is; None
\* when there is no block. Only a box of the default width adapts to columns.
BlockBox(g, bands, gapV, boxW, byDefault) ==
  IF gapV = None THEN None
  ELSE OverBlock(g, bands, SignatureBlock(g, bands, gapV), boxW, byDefault)

-----------------------------------------------------------------------------
(* The search for a free place.                                            *)

\* mutant: only the heights below the obstacles are tried
VerticalBelow(onPage, maxV, s) ==
  {v \in EdgeMargin..maxV : v = EdgeMargin \/ \E o \in onPage : v = o.y - HalfGap - s.h}

\* The heights tried, besides the one preferred. Where text is known, those
\* next to an obstacle; otherwise steps up from the lowest one.
VerticalCandidates(onPage, maxV, s) ==
  IF s.aware
  THEN {v \in EdgeMargin..maxV : \/ v = EdgeMargin
                                \/ \E o \in onPage : v = Top(o) + HalfGap \/ v = o.y - HalfGap - s.h}
  ELSE LET base == Greatest(EdgeMargin, LeastOf({o.y : o \in onPage})) IN
       {v \in EdgeMargin..maxV : \E k \in 0..(MaxVertical - 1) : v = base + k * (s.h + Gap)}

\* What is preferred comes first, then the lowest, then the leftmost.
Foremost(S) == {c \in S : \A d \in S : c.v < d.v \/ (c.v = d.v /\ c.u <= d.u)}
First(S)    == IF Foremost(S) = {} THEN None ELSE CHOOSE c \in Foremost(S) : TRUE

\* The positions tried that are free and do not overlap one found before. s is
\* a search: the box (w, h), the position preferred (u, v), and whether the text
\* of the page is known. A slot has its rank in each direction (u, v).
Slots(g, onPage, s) ==
  LET maxV    == OrientedH(g) - EdgeMargin - s.h
      fits    == {u \in EdgeMargin..(OrientedW(g) - EdgeMargin - s.w) :
                    u \in {EdgeMargin, s.u} \/ \E o \in onPage : u = o.x + o.w + Gap}
      heights == VerticalCandidates(onPage, maxV, s) \cup ({s.v} \ {None})
      rank(x, preferred) == IF x = preferred THEN 0 ELSE x + 1
      free    == {c \in {[x |-> u, y |-> Least(v, maxV), w |-> s.w, h |-> s.h,
                          u |-> rank(u, s.u), v |-> rank(v, s.v)] : u \in fits, v \in heights} :
                    IsFree(c, onPage)}
      found[n \in 0..MaxSlots] ==
        IF n = 0 THEN {}
        ELSE LET before == found[n - 1] IN
             before \cup Foremost({c \in free : \A d \in before : ~RectsOverlap(c, d, 0)})
  IN IF onPage = {} THEN {} ELSE free \cap found[MaxSlots]

Clamp(x, size, room) ==
  Greatest(0, IF Greatest(x, EdgeMargin) + size > room - EdgeMargin
              THEN room - EdgeMargin - size
              ELSE Greatest(x, EdgeMargin))

ClampRect(g, r) ==
  [r EXCEPT !.x = Clamp(r.x, r.w, OrientedW(g)), !.y = Clamp(r.y, r.h, OrientedH(g))]

\* mutant: the slot was checked where it was found
ClampOnly(g, onPage, r) == ClampRect(g, r)

\* A slot moved into the margins has to be free where it ends up.
ClampAndRevalidate(g, onPage, r) ==
  LET clamped == ClampRect(g, r) IN
  IF clamped # r /\ ~IsFree(clamped, onPage) THEN None ELSE clamped

-----------------------------------------------------------------------------
(* The placements.                                                         *)

Review(p, reason, alsoFits) ==
  [status |-> "needs_review", page |-> p, reason |-> reason, alsoFits |-> alsoFits]

Ok(d, p, r, source, clearance) ==
  [status |-> "ok", page |-> p, rect |-> RectFromCanonical(d.pages[p], r),
   source |-> source, clearance |-> clearance]

Rejected(d, p, r) == VisibleSigRejection(RectFromCanonical(d.pages[p], r), d.pages[p])

DefaultFooter(g, w, h) == [x |-> CenteredU(g, w), y |-> EdgeMargin, w |-> w, h |-> h]

\* What becomes of a place that was found: it may still be one where the
\* signature itself would be refused.
Settled(d, p, r, source, clearance, alsoFits) ==
  IF Rejected(d, p, r) # None THEN Review(p, Rejected(d, p, r), alsoFits)
  ELSE Ok(d, p, r, source, clearance)

\* The other pages where the box would have fitted; of a long document, the
\* last ones only.
PagesWithRoom(d, w, h, except) ==
  LET others == DOMAIN d.pages \ {except}
      asked(p) == [w |-> w, h |-> h, u |-> CenteredU(d.pages[p], w), v |-> None,
                   aware |-> Bands(d, p) # {}]
      first(p) == IF Obstacles(d, p) = {} THEN DefaultFooter(d.pages[p], w, h)
                  ELSE First(Slots(d.pages[p], Obstacles(d, p), asked(p)))
      signable(p, r) == r # None /\ Rejected(d, p, ClampRect(d.pages[p], r)) = None
  IN {p \in others : Cardinality({q \in others : q > p}) < MaxSurveyed /\ signable(p, first(p))}

\* At the position preferred, or the slot nearest to it within a tolerance.
Anchored(d, a, w, h, onPage, best, tolerance) ==
  LET g       == d.pages[a.page]
      clamped == ClampAndRevalidate(g, onPage, best)
  IN IF \/ best = None
        \/ Distance(best.y, a.v) >= tolerance
        \/ a.u # None /\ Distance(best.x, a.u) >= 2 * h
        \/ clamped = None
        \/ Rejected(d, a.page, clamped) # None
     THEN None
     ELSE Ok(d, a.page, clamped, "text-anchor", Clearance(clamped, onPage))

TryAnchor(d, a, w, h, tolerance) ==
  LET g       == d.pages[a.page]
      onPage  == Obstacles(d, a.page)
      off(c)  == Distance(c.y, a.v)
      nearest(slots) == First({c \in slots : \A e \in slots : off(c) <= off(e)})
  IN IF a.page \notin DOMAIN d.pages THEN None
     ELSE Anchored(d, a, w, h, onPage,
                   nearest(Slots(g, onPage, [w |-> w, h |-> h, u |-> a.u, v |-> a.v, aware |-> TRUE])),
                   tolerance)

\* A generic label is tried when there was no place at all.
RescueWithGenericAnchor(d, a, w, h) ==
  IF a = None \/ a.kind # "firma-label" THEN None ELSE TryAnchor(d, a, w, h, 2 * h)

\* Over the block, and as low as what is beside it allows; anywhere when the
\* document left no space.
OverReserved(d, p, onPage, box, reserved, w, h) ==
  LET beside == {o \in onPage : o.x < box.u + box.w + HalfGap /\ o.x + o.w > box.u - HalfGap}
      lower  == IF beside = onPage THEN None ELSE ReservedGapV(beside, h)
  IN IF box = None
     THEN [w |-> w, h |-> h, u |-> None, v |-> None, aware |-> Bands(d, p) # {}]
     ELSE [w |-> box.w, h |-> h, u |-> box.u, aware |-> TRUE, v |-> Otherwise(lower, reserved)]

\* The search on the last page that is signed already.
AntiOverlapSearch(d, a, p, boxW, boxH, byDefault) ==
  LET g == d.pages[p]
      w == Least(boxW, (6 * OrientedW(g)) \div 10)
      h == Least(boxH, OrientedH(g) \div 5)
      over(reserved) == OverReserved(d, p, Obstacles(d, p), BlockBox(g, Bands(d, p), reserved, w, byDefault),
                                     reserved, w, h)
  IN IF a # None /\ a.page = p
     THEN [w |-> w, h |-> h, u |-> a.u, v |-> a.v, aware |-> TRUE]
     ELSE over(ReservedGapV(Obstacles(d, p), h))

SignedPage(d) == GreatestOf({s.page : s \in Range(d.stamps)})

\* The first of the slots that is free once it is inside the margins.
BesideStamps(d, p, onPage, slots, boxW, boxH) ==
  LET inside(c) == ClampAndRevalidate(d.pages[p], onPage, c)
      settled(c) == Settled(d, p, c, "anti-overlap", Clearance(c, onPage), {})
      valid == First({c \in slots : inside(c) # None})
  IN IF valid = None
     THEN Review(p, "no_free_slot", PagesWithRoom(d, boxW, boxH, p))
     ELSE settled(inside(valid))

AntiOverlap(d, a, p, boxW, boxH, byDefault) ==
  BesideStamps(d, p, Obstacles(d, p),
               Slots(d.pages[p], Obstacles(d, p), AntiOverlapSearch(d, a, p, boxW, boxH, byDefault)),
               boxW, boxH)

\* Around the text of the last page, in the space left for a signature if there
\* is one.
LastPageSearch(d, boxW, boxH, byDefault) ==
  LET g     == Last(d.pages)
      bands == Bands(d, Len(d.pages))
      at(box, reserved) == [w |-> box.w, h |-> boxH, u |-> box.u, v |-> reserved, aware |-> TRUE]
      over(reserved) ==
        at(Otherwise(BlockBox(g, bands, reserved, boxW, byDefault), [u |-> CenteredU(g, boxW), w |-> boxW]),
           reserved)
  IN over(ReservedGapV(TextBandRects(g, bands), boxH))

\* None when nothing is known of the text.
PlaceOnLastPage(d, a, boxW, boxH, byDefault) ==
  LET p    == Len(d.pages)
      text == TextBandRects(d.pages[p], Bands(d, p))
      around(search, slot) ==
        IF slot = None
        THEN Otherwise(RescueWithGenericAnchor(d, a, boxW, boxH),
                       Review(p, "no_free_slot", PagesWithRoom(d, boxW, boxH, p)))
        ELSE Settled(d, p, slot, IF slot.y = search.v THEN "reserved-gap" ELSE "free-space",
                     Clearance(slot, text), PagesWithRoom(d, boxW, boxH, p))
      from(search) == around(search, First(Slots(d.pages[p], text, search)))
  IN IF text = {} THEN None ELSE from(LastPageSearch(d, boxW, boxH, byDefault))

SanitizedAnchor(d, a) ==
  IF a # None /\ a.page \in DOMAIN d.pages /\ (a.v < 0 \/ a.v > OrientedH(d.pages[a.page]))
  THEN None ELSE a

\* A field the document declares for a signature, as it is: the first one.
EmptyField(d) ==
  LET field == Head(d.fields) IN
  IF VisibleSigRejection(field, d.pages[field.page]) # None
  THEN Review(field.page, VisibleSigRejection(field, d.pages[field.page]), {})
  ELSE [status |-> "ok", page |-> field.page,
        rect |-> [x |-> field.x, y |-> field.y, w |-> field.w, h |-> field.h],
        source |-> "empty-field", clearance |-> None]

FooterOfLastPage(d, w, h) ==
  Settled(d, Len(d.pages), DefaultFooter(Last(d.pages), w, h), "default-footer", None, {})

\* If it does not fit on the page that is signed, in the space that the last
\* page left for a signature.
OnSignedDocument(d, found, rescue, last) ==
  IF found.status = "ok" \/ found.reason # "no_free_slot" THEN found
  ELSE Otherwise(rescue,
         IF found.page # Len(d.pages) /\ last # None /\ last.status = "ok" /\ last.source = "reserved-gap"
         THEN last ELSE found)

\* What a document without fields is offered, in order.
Offered(d, a, w, h, byDefault) ==
  Otherwise(IF a # None /\ a.kind # "firma-label" THEN TryAnchor(d, a, w, h, 1) ELSE None,
    IF SignedPage(d) # None
    THEN OnSignedDocument(d, AntiOverlap(d, a, SignedPage(d), w, h, byDefault),
                          RescueWithGenericAnchor(d, a, w, h), PlaceOnLastPage(d, a, w, h, byDefault))
    ELSE IF Bands(d, Len(d.pages)) # {} THEN PlaceOnLastPage(d, a, w, h, byDefault)
    ELSE FooterOfLastPage(d, w, h))

ByDefault(hint) == hint = None \/ hint.w = None
AskedW(hint) == IF ByDefault(hint) THEN SigBoxW ELSE hint.w
AskedH(hint) == IF ByDefault(hint) THEN SigBoxH ELSE hint.h

ComputeAutoPlacement(d, hint) ==
  IF d.fields # <<>> THEN EmptyField(d)
  ELSE Offered(d, SanitizedAnchor(d, hint), AskedW(hint), AskedH(hint), ByDefault(hint))

\* A file with signatures that only the other reader sees is put aside.
Screened(d, placement) ==
  IF placement.status = "ok" /\ placement.source = "empty-field" /\ d.hidden /\ d.stamps = <<>>
  THEN Review(placement.page, "empty_field_conflicts_with_prior_signature", {})
  ELSE placement

\* The analysis of a batch: a file that cannot be read is put aside too.
AnalyzeForPreflight(d, hint) ==
  IF d.pages = <<>> THEN Review(1, d.failure, {}) ELSE Screened(d, ComputeAutoPlacement(d, hint))

-----------------------------------------------------------------------------
PlacementInit == paper \in Papers /\ anchor = None /\ analysis = None

Analyze ==
  /\ analysis = None
  /\ analysis' = AnalyzeForPreflight(paper, anchor)
  /\ UNCHANGED <<paper, anchor>>

\* A position confirmed in another document of the batch is preferred here
\* (the only caller with an anchor; the labels of the text are exported, and
\* nobody asks for them yet).
Propagate ==
  /\ analysis # None /\ anchor = None
  /\ anchor' \in Anchors
  /\ analysis' = None
  /\ UNCHANGED paper

\* The signature is a widget of its own with the rectangle that was found: a
\* declared field is never filled. The next analysis reads it back.
Sign ==
  /\ analysis # None /\ analysis.status = "ok"
  /\ Len(paper.stamps) < MaxStamps
  /\ LET r == analysis.rect IN
     paper' = [paper EXCEPT !.stamps =
                 Append(@, [page |-> analysis.page, x |-> r.x, y |-> r.y, w |-> r.w, h |-> r.h,
                            source |-> analysis.source])]
  /\ anchor' = None
  /\ analysis' = None

PlacementNext == Analyze \/ Propagate \/ Sign
PlacementSpec == PlacementInit /\ [][PlacementNext]_placementVars

-----------------------------------------------------------------------------
(* Properties.                                                             *)

ClearOnPage(d, p, r) ==
  /\ \A s \in Stamps(d, p) : ~RectsOverlap(r, s, HalfGap)
  /\ \A b \in Bands(d, p) : ~RectsOverlap(r, BandRect(d.pages[p], b), HalfGap)

Placed == analysis # None /\ analysis.status = "ok"
Searched == Placed /\ analysis.source # "empty-field"

PlacementTypeOK ==
  /\ Len(paper.stamps) <= MaxStamps
  /\ anchor \in Anchors \cup {None}
  /\ Placed => analysis.page \in DOMAIN paper.pages

\* autoPlacement.ts, whatever was preferred, on a page of any rotation and crop:
\* what the search places is at least half a gap away from every stamp and every
\* band of known text of its page, and a signature may be written there.
PlacedIsClear ==
  Searched =>
    /\ ClearOnPage(paper, analysis.page, analysis.rect)
    /\ VisibleSigRejection(analysis.rect, paper.pages[analysis.page]) = None

\* Over the signatures of a document, one after the other: no stamp the search
\* placed lies on one that was there before, nor under one the search placed
\* later.
StampsStayApart ==
  \A i, j \in DOMAIN paper.stamps :
    LET s == paper.stamps[i] t == paper.stamps[j] IN
    i < j /\ s.page = t.page /\ t.source \notin {"other", "empty-field"} => ~RectsOverlap(s, t, HalfGap)

\* autoPlacement.ts:33-34: "si no hay hueco libre en la página, el documento se
\* aparta con no_free_slot en vez de colocarse encima de la firma anterior".
NeverOnASignature ==
  Placed => \A s \in Stamps(paper, analysis.page) : ~RectsOverlap(analysis.rect, s, 0)

\* The places of a box on a page, in the coordinates of the reader.
Places(g, w, h) ==
  {[x |-> u, y |-> v, w |-> w, h |-> h] :
     u \in EdgeMargin..(OrientedW(g) - EdgeMargin - w), v \in EdgeMargin..(OrientedH(g) - EdgeMargin - h)}

\* IsFree with the room the search leaves on the right of an obstacle.
Roomy(r, onPage) ==
  IsFree(r, onPage) /\ \A o \in onPage : o.x + o.w <= r.x => r.x - (o.x + o.w) >= Gap

SearchOf(d, hint, p) ==
  IF d.stamps # <<>>
  THEN AntiOverlapSearch(d, SanitizedAnchor(d, hint), p, AskedW(hint), AskedH(hint), ByDefault(hint))
  ELSE LastPageSearch(d, AskedW(hint), AskedH(hint), ByDefault(hint))

\* A place in the page, its margins included, that is free and can be signed.
HasRoom(d, p, w, h) ==
  \E u \in 0..OrientedW(d.pages[p]), v \in 0..OrientedH(d.pages[p]) :
    LET r == [x |-> u, y |-> v, w |-> w, h |-> h] IN
    IsFree(r, Obstacles(d, p)) /\ Rejected(d, p, r) = None

NothingIsRoomy(g, s, onPage) ==
  s.aware /\ (s.v = None \/ s.v >= EdgeMargin) => \A r \in Places(g, s.w, s.h) : ~Roomy(r, onPage)

\* A page whose text is known is said to be full only if it is: no place of the
\* box in it is free and a gap away from what is on its left. And the other pages
\* offered have a place where a signature may be written.
FullMeansFull ==
  analysis # None /\ analysis.status = "needs_review" /\ analysis.reason = "no_free_slot" =>
    /\ NothingIsRoomy(paper.pages[analysis.page], SearchOf(paper, anchor, analysis.page),
                      Obstacles(paper, analysis.page))
    /\ \A q \in analysis.alsoFits : HasRoom(paper, q, AskedW(anchor), AskedH(anchor))

\* A signature in the space left for it stands right on the block: half a gap
\* over a band of text.
ReservedGapStandsOnTheBlock ==
  Placed /\ analysis.source = "reserved-gap" =>
    /\ analysis.clearance = HalfGap
    /\ LET g == paper.pages[analysis.page]
           r == RectToCanonical(g, analysis.rect) IN
       \E b \in TextBandRects(g, Bands(paper, analysis.page)) : Top(b) + HalfGap = r.y

PlacementInv == PlacementTypeOK /\ PlacedIsClear /\ StampsStayApart

=============================================================================
