---------------------------- MODULE MCAutoPlacement ----------------------------
(* Documents for AutoPlacement: units of some 7 points.                    *)
EXTENDS AutoPlacement

\* A sheet of 48 x 72, whole or cropped, as it is turned.
Page(rotate, crop) ==
  IF crop THEN [mediaW |-> 48, mediaH |-> 72, x |-> 2, y |-> 3, w |-> 44, h |-> 66, rotate |-> rotate]
  ELSE [mediaW |-> 48, mediaH |-> 72, x |-> 0, y |-> 0, w |-> 48, h |-> 72, rotate |-> rotate]

Line(p, y, x, end) == [page |-> p, y |-> y, h |-> 1, x |-> x, end |-> end]

Watermark(p) == [page |-> p, y |-> 20, h |-> 24, x |-> 10, end |-> None]

Paragraph(p, low, high) == {Line(p, y, 6, 40) : y \in {low, high}}

\* The text of a page: none; a footer; a letter with its signer below and a
\* watermark across it; a contract
\* with two signers side by side; a page written all over.
Texts(p) ==
  { {},
    {Line(p, 4, 20, 24)},
    {Line(p, 4, 20, 24), Line(p, 16, 8, 18), Line(p, 18, 8, None), Watermark(p)} \cup Paragraph(p, 50, 52),
    {Line(p, 9, 6, 16), Line(p, 9, 28, 40)} \cup Paragraph(p, 36, 38),
    {Line(p, y, 6, 40) : y \in {8, 18, 28, 38, 48, 58}} }

Stamp(p, x, y, w, h) == [page |-> p, x |-> x, y |-> y, w |-> w, h |-> h, source |-> "other"]

Signed(p) ==
  { <<>>, <<Stamp(p, 20, 24, 12, 7)>>, <<Stamp(p, 4, 9, 14, 7), Stamp(p, 22, 40, 14, 8)>> }

Rotations == {0, 90, 180, 270}

Paper(pages, lines, unread, fields, stamps, hidden) ==
  [pages |-> pages, lines |-> lines, unread |-> unread, fields |-> fields, stamps |-> stamps,
   hidden |-> hidden, failure |-> None]

OnePage ==
  {Paper(<<g>>, t, {}, <<>>, s, FALSE) :
     g \in {Page(0, FALSE), Page(0, TRUE), Page(90, TRUE), Page(180, FALSE), Page(270, TRUE)},
     t \in Texts(1), s \in Signed(1)}
  \cup {Paper(<<Page(0, FALSE)>>, t, {1}, <<>>, s, FALSE) : t \in Texts(1), s \in Signed(1)}

\* What is on the last page, with a contract or nothing on the first.
TwoPages ==
  {Paper(<<Page(0, FALSE), Page(90, FALSE)>>, t1 \cup t2, {}, <<>>, s, FALSE) :
     t1 \in {{}, {Line(1, 9, 6, 16), Line(1, 9, 28, 40)} \cup Paragraph(1, 36, 38),
             {Line(1, y, 6, 40) : y \in {8, 18, 28, 38, 48, 58}}},
     t2 \in Texts(2), s \in Signed(1)}

Field(x, w) == [page |-> 1, x |-> x, y |-> 30, w |-> w, h |-> 8]

WithFields ==
  {Paper(<<Page(r, TRUE)>>, {}, {}, <<f>>, s, h) :
     r \in Rotations, h \in BOOLEAN, s \in Signed(1),
     f \in {Field(6, 16), Field(6, 2), Field(0, 16), Field(40, 16)}}

Unreadable ==
  {[Paper(<<>>, {}, {}, <<>>, <<>>, FALSE) EXCEPT !.failure = f] : f \in {"encrypted", "unreadable"}}

SomePapers == OnePage \cup TwoPages \cup WithFields \cup Unreadable

\* Those nobody signed yet: the stamps they get are the ones of Sign.
NotYetSigned == {d \in SomePapers : d.stamps = <<>>}

SomeAnchors ==
  {[page |-> 1, v |-> a[1], u |-> a[2], kind |-> "lote-propagacion", w |-> 12, h |-> 7] :
     a \in {<<1, 4>>, <<14, 22>>, <<30, 4>>}}
  \cup {[page |-> p, v |-> 20, u |-> None, kind |-> "firma-label", w |-> None, h |-> None] : p \in {1, 2}}
=============================================================================
