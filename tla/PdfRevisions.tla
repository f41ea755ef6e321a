---------------------------- MODULE PdfRevisions ----------------------------
(***************************************************************************)
(* A signed PDF as the sequence of its revisions: every signature after    *)
(* the first, the validation data and the archive stamp are appended to    *)
(* the file, each rewriting the catalog, the form and a page from what it  *)
(* reads of the revisions before it                                        *)
(* (packages/signer/src/incrementalUpdate.ts,                              *)
(* packages/dss-pdf/src/{incrementalDss,documentTimestamp,parseDss}.ts).   *)
(* Other programs append too.                                              *)
(*                                                                         *)
(* A revision maps object numbers to bodies, reduced to the references     *)
(* that the next signature may lose. Some programs pack their objects into *)
(* compressed streams, where a search of the text does not see them.       *)
(* Left out: the bytes of the signatures (the file only grows), nested     *)
(* page trees, drawings, what is refused before anything is written.       *)
(***************************************************************************)
EXTENDS Naturals, Sequences, FiniteSets

CONSTANTS
  NumPages,
  Forms,        \* of {"none", "ref", "inline"}: how the first revision holds its form
  Repacking,    \* TRUE: a program may pack what an earlier revision has in plain text
  MaxFieldName,      \* bound: names other programs give to their fields
  MaxRevisions  \* bound: revisions of a file

ASSUME RevisionsAssumption ==
  /\ NumPages \in Nat \ {0} /\ Forms \subseteq {"none", "ref", "inline"}
  /\ Repacking \in BOOLEAN /\ MaxFieldName \in Nat /\ MaxRevisions \in Nat

VARIABLES
  revisions,  \* [objs, packed, table, size], oldest first
  applied,    \* the signatures and stamps on it: [widget, page]
  owed,       \* what signPdfPades has still to append: "dss", "dts" or "nothing"
  embedded    \* TRUE: validation data was reported as embedded

pdfVars == <<revisions, applied, owed, embedded>>

Pages == 1..NumPages

\* An array is written in place, or as an object of its own.
Here(items) == [ref |-> 0, items |-> items]
At(n) == [ref |-> n, items |-> {}]

NoForm == [kind |-> "none", num |-> 0, fields |-> Here({})]
FormAt(n) == [kind |-> "ref", num |-> n, fields |-> Here({})]

CatalogBody(form, dss) == [type |-> "catalog", form |-> form, dss |-> dss]
FormBody(fields) == [type |-> "form", fields |-> fields]
PageBody(annots) == [type |-> "page", annots |-> annots]
ArrayBody(items) == [type |-> "array", items |-> items]
WidgetBody(name) == [type |-> "widget", name |-> name]
Body(type) == [type |-> type]
Missing == Body("missing")

\* The numbers of the objects of the first file; a signature's take the rest.
Catalog == 1
FirstForm == 2
FirstFields == 3
PageNum(p) == 3 + p
AnnotsNum(p) == 3 + NumPages + p
FirstSig == 4 + 2 * NumPages
FirstWidget == FirstSig + 1

-----------------------------------------------------------------------------
(* Reading                                                                 *)

Defines(i, n) == n \in DOMAIN revisions[i].objs
IsPlain(i, n) == Defines(i, n) /\ n \notin revisions[i].packed

LastOf(S) == CHOOSE i \in S : \A j \in S : j <= i
BodyIn(S, n) == IF S = {} THEN Missing ELSE revisions[LastOf(S)].objs[n]

\* What a viewer sees, and context.lookup of pdf-lib.
Viewed(n) == BodyIn({i \in DOMAIN revisions : Defines(i, n)}, n)

\* readObjectBody, readLastIndirectDictBody: the last occurrence in the text.
LastPlain(n) == BodyIn({i \in DOMAIN revisions : IsPlain(i, n)}, n)

\* getBody of parsePriorPdf: a packed dictionary only if the text has none.
GetBody(n) == IF LastPlain(n) = Missing THEN Viewed(n) ELSE LastPlain(n)

LastRevision == revisions[Len(revisions)]

\* resolveArrayInner: through pdf-lib.
Elements(a) == IF a.ref = 0 THEN a.items ELSE Viewed(a.ref).items

\* The fields and the annotations of the file, as a viewer finds them.
Fields ==
  LET form == Viewed(Catalog).form IN
  CASE form.kind = "none" -> {}
    [] form.kind = "inline" -> Elements(form.fields)
    [] form.kind = "ref" -> Elements(Viewed(form.num).fields)

Annots(p) == Elements(Viewed(PageNum(p)).annots)

\* Every name in the text, of whatever revision, and those pdf-lib finds.
NamesInUse ==
  LET NameOf(body) == IF body.type = "widget" THEN {body.name} ELSE {}
      NamesIn(r) == UNION {NameOf(r.objs[n]) : n \in DOMAIN r.objs \ r.packed}
  IN UNION ({NamesIn(revisions[i]) : i \in DOMAIN revisions}
            \cup {NameOf(Viewed(n)) : n \in Fields})

-----------------------------------------------------------------------------
(* Writing                                                                 *)

\* The file grows by one revision. The numbers below size are taken.
Write(objs, packed, table, size) ==
  revisions' = Append(revisions,
    [objs |-> objs, packed |-> packed, table |-> table, size |-> size])

MayGrow == Len(revisions) < MaxRevisions

\* Later entries of a revision's list of objects come from its left operand.
Over(f, g) == [n \in DOMAIN f \cup DOMAIN g |-> IF n \in DOMAIN f THEN f[n] ELSE g[n]]
Part(n, body) == [m \in {n} |-> body]
Nothing == [m \in {} |-> Missing]

\* mutant: the reference of the old array becomes an element of the new one
GrownNested(a, new) == IF a.ref = 0 THEN Here(a.items \cup new) ELSE Here({a.ref} \cup new)

\* An array gains references: rewritten where it stands, or as the object it is.
Grown(a, new) == IF a.ref = 0 THEN Here(a.items \cup new) ELSE a
GrownArray(a, new) ==
  IF a.ref = 0 THEN Nothing ELSE Part(a.ref, ArrayBody(Elements(a) \cup new))

\* The page's annotations: the page is rewritten, or only its array.
WithAnnots(num, page, new) ==
  IF page.annots.ref = 0
  THEN Part(num, PageBody(Grown(page.annots, new)))
  ELSE GrownArray(page.annots, new)

\* mutant: the number of signatures decides
PickByCount(existing, prior) == prior + 1

\* pickSignatureFieldName
PickName(existing, prior) ==
  CHOOSE n \in (prior + 1)..(prior + 1 + Cardinality(existing)) :
    n \notin existing /\ (prior + 1)..(n - 1) \subseteq existing

ArchiveName == 0  \* "doc-ts"

\* upsertAcroFormRefInCatalog: every other key is kept.
UpsertForm(catalog, form) == [catalog EXCEPT !.form = form]

Signed(widget, page) == applied' = applied \cup {[widget |-> widget, page |-> page]}

-----------------------------------------------------------------------------
(* addIncrementalSignature: on page p, with a link beside the stamp when   *)
(* it is visible.                                                          *)

AddIncrementalSignature(p, visible) ==
  /\ MayGrow /\ owed = "nothing"
  /\ applied # {}       \* without one signPdfPades writes the file anew
  /\ visible \/ p = 1
  /\ LET catalog == GetBody(Catalog)
         old == catalog.form
         known == old.kind = "ref" /\ GetBody(old.num) # Missing
         prior == Cardinality(applied)
         widget == LastRevision.size + 1
         formNum == IF old.kind = "ref" THEN old.num ELSE LastRevision.size + 3
         afterForm == LastRevision.size + (IF old.kind = "ref" THEN 3 ELSE 4)
         link == IF visible THEN {afterForm} ELSE {}
         fields == IF known THEN GetBody(old.num).fields ELSE Here({})
         page == GetBody(PageNum(p))
         new == {widget}
         objs ==
           Over(Over(WithAnnots(PageNum(p), page, new \cup link), GrownArray(fields, new)),
           Over(Part(formNum, FormBody(Grown(fields, new))),
           Over(Part(Catalog, UpsertForm(catalog, FormAt(formNum))),
           Over(Part(widget, WidgetBody(PickName(NamesInUse, prior))),
           Over(Part(LastRevision.size, Body("sig")),
           Over(Part(LastRevision.size + 2, Body("drawing")),
                [n \in link |-> Body("link")]))))))
     IN /\ Write(objs, {}, TRUE, afterForm + Cardinality(link))
        /\ Signed(widget, p)
  /\ UNCHANGED <<owed, embedded>>

\* appendDss: one stream and the dictionary that lists it. It reads the text only,
\* and refuses a file whose last index is not a table.
AppendDss ==
  /\ owed = "dss" /\ MayGrow
  /\ LastRevision.table /\ LastPlain(Catalog) # Missing
  /\ LET dss == LastRevision.size + 1 IN
     Write(Over(Part(LastRevision.size, Body("stream")),
           Over(Part(dss, [type |-> "dss", streams |-> {LastRevision.size}]),
                Part(Catalog, [LastPlain(Catalog) EXCEPT !.dss = dss]))),
           {}, TRUE, dss + 1)
  /\ owed' = "dts" /\ embedded' = TRUE
  /\ UNCHANGED applied

\* appendDocumentTimestamp, on the first page. It keeps the fields of a form it finds
\* by reference with its array in place, and those only.
AppendArchiveStamp ==
  /\ owed = "dts" /\ MayGrow
  /\ LastRevision.table /\ LastPlain(Catalog) # Missing
  /\ LET catalog == LastPlain(Catalog)
         old == catalog.form
         body == IF old.kind = "ref" THEN LastPlain(old.num) ELSE Missing
         kept == IF body = Missing THEN {} ELSE body.fields.items
         page == LastPlain(PageNum(1))
         annots == IF page.annots.ref = 0 THEN page.annots.items ELSE {page.annots.ref}
         widget == LastRevision.size + 1
         formNum == IF old.kind = "ref" THEN old.num ELSE LastRevision.size + 3
     IN /\ Write(Over(Part(LastRevision.size, Body("sig")),
                 Over(Part(widget, WidgetBody(ArchiveName)),
                 Over(Part(LastRevision.size + 2, Body("drawing")),
                 Over(Part(formNum, FormBody(Here(kept \cup {widget}))),
                 Over(Part(Catalog, [catalog EXCEPT !.form = FormAt(formNum)]),
                      Part(PageNum(1), PageBody(Here(annots \cup {widget})))))))),
                 {}, TRUE, LastRevision.size + (IF old.kind = "ref" THEN 3 ELSE 4))
        /\ Signed(widget, 1)
  /\ owed' = "nothing"
  /\ UNCHANGED embedded

\* No data, no answer of the authority, or the person wanted none: the signature stays.
LeaveOut ==
  /\ owed # "nothing"
  /\ owed' = "nothing"
  /\ UNCHANGED <<revisions, applied, embedded>>

-----------------------------------------------------------------------------
(* Other programs                                                          *)

\* One that does it right: it reads what a viewer reads, and writes plain text with a
\* table, or compressed streams with an index that is one too. A signature is never
\* inside one.
OtherSigns(p, name, pack) ==
  /\ MayGrow /\ owed = "nothing"
  /\ name \notin {Viewed(n).name : n \in Fields}
  /\ LET catalog == Viewed(Catalog)
         old == catalog.form
         widget == LastRevision.size + 1
         new == {widget}
         formNum == LastRevision.size + 2
         page == Viewed(PageNum(p))
         form ==
           CASE old.kind = "none" ->
                  Over(Part(formNum, FormBody(Here(new))),
                       Part(Catalog, [catalog EXCEPT !.form = FormAt(formNum)]))
             [] old.kind = "inline" /\ old.fields.ref = 0 ->
                  Part(Catalog, [catalog EXCEPT !.form.fields = Grown(@, new)])
             [] old.kind = "inline" /\ old.fields.ref # 0 -> GrownArray(old.fields, new)
             [] old.kind = "ref" ->
                  LET fields == Viewed(old.num).fields
                  IN IF fields.ref = 0 THEN Part(old.num, FormBody(Grown(fields, new)))
                     ELSE GrownArray(fields, new)
         rewritten == Over(form, WithAnnots(PageNum(p), page, new))
         objs == Over(rewritten, Over(Part(widget, WidgetBody(name)), Part(LastRevision.size, Body("sig"))))
     IN /\ pack /\ ~Repacking => \A n \in DOMAIN rewritten : LastPlain(n) = Missing
        /\ Write(objs, IF pack THEN DOMAIN objs \ {LastRevision.size} ELSE {}, ~pack,
                 IF old.kind = "none" THEN formNum + 1 ELSE formNum)
        /\ Signed(widget, p)
  /\ UNCHANGED <<owed, embedded>>

\* The first revision: of another program, without a signature, or what signPdfPades
\* saves: its library writes the fields, and the annotations of the pages it touches (the
\* first, and the one the stamp is moved to), in place.
FirstObjects(kind, apart, fieldsApart, widgets, page) ==
  LET fields == IF fieldsApart THEN At(FirstFields) ELSE Here(widgets)
      form == CASE kind = "none" -> NoForm
                [] kind = "ref" -> FormAt(FirstForm)
                [] kind = "inline" -> [NoForm EXCEPT !.kind = "inline", !.fields = fields]
      AnnotsOf(p) == IF p = page THEN widgets ELSE {}
      PageAt(p) == PageBody(IF p \in apart THEN At(AnnotsNum(p)) ELSE Here(AnnotsOf(p)))
  IN Over(Part(Catalog, CatalogBody(form, 0)),
     Over(IF kind = "ref" THEN Part(FirstForm, FormBody(fields)) ELSE Nothing,
     Over(IF fieldsApart THEN Part(FirstFields, ArrayBody(widgets)) ELSE Nothing,
     Over([n \in {PageNum(p) : p \in Pages} |-> PageAt(n - 3)],
     Over([n \in {AnnotsNum(p) : p \in apart} |-> ArrayBody(AnnotsOf(n - 3 - NumPages))],
     Over([n \in widgets |-> WidgetBody(1)],
          IF widgets = {} THEN Nothing ELSE Part(FirstSig, Body("sig"))))))))

RevisionsInit ==
  \E kind \in Forms, apart \in SUBSET Pages, page \in Pages,
    fieldsApart \in BOOLEAN, pack \in BOOLEAN, ours \in BOOLEAN :
    LET widgets == IF ours THEN {FirstWidget} ELSE {}
        objs == FirstObjects(kind, apart, fieldsApart, widgets, page)
    IN /\ kind = "none" => ~fieldsApart /\ ~ours
       /\ ours => ~pack /\ ~fieldsApart /\ apart \subseteq Pages \ {1, page}
       /\ ~ours => page = 1
       /\ revisions = <<[objs |-> objs, packed |-> IF pack THEN DOMAIN objs ELSE {},
                        table |-> ~pack, size |-> FirstWidget + 1]>>
       /\ applied = [widget : widgets, page : {page}]
       /\ owed = IF ours THEN "dss" ELSE "nothing"
       /\ embedded = FALSE

RevisionsNext ==
  \/ AppendDss \/ AppendArchiveStamp \/ LeaveOut
  \/ \E p \in Pages : \/ \E visible \in BOOLEAN : AddIncrementalSignature(p, visible)
                      \/ \E name \in 1..MaxFieldName, pack \in BOOLEAN : OtherSigns(p, name, pack)

RevisionsSpec == RevisionsInit /\ [][RevisionsNext]_pdfVars

-----------------------------------------------------------------------------
(* parseDssImpl: the validation data as the verifier finds it.             *)

\* parseAllXrefs goes from the last index back and stops at one that is not a table.
TableChain == {i \in DOMAIN revisions : \A j \in i..Len(revisions) : revisions[j].table}

\* readDictBody: by the tables, else the last occurrence in the text.
ByTables(n) ==
  LET found == {i \in TableChain : Defines(i, n)}
  IN IF found = {} THEN LastPlain(n) ELSE BodyIn(found, n)

\* findCatalogRef needs the trailer of a table, wherever it is.
DssFound ==
  IF \A i \in DOMAIN revisions : ~revisions[i].table THEN Missing
  ELSE LET catalog == ByTables(Catalog)
       IN IF catalog = Missing \/ catalog.dss = 0 THEN Missing ELSE ByTables(catalog.dss)

-----------------------------------------------------------------------------
(* Properties                                                              *)

Types == {"catalog", "form", "page", "array", "widget", "sig", "drawing", "link", "stream", "dss"}

RevisionsTypeOK ==
  /\ \A i \in DOMAIN revisions :
       LET r == revisions[i] IN
       /\ DOMAIN r.objs \subseteq 1..(r.size - 1) /\ r.packed \subseteq DOMAIN r.objs
       /\ \A n \in DOMAIN r.objs : r.objs[n].type \in Types
       /\ r.table \in BOOLEAN /\ r.size \in Nat
  /\ \A s \in applied : s.page \in Pages /\ Viewed(s.widget).type = "widget"
  /\ owed \in {"dss", "dts", "nothing"} /\ embedded \in BOOLEAN

\* A number is never given to a second object: whatever an earlier revision refers to is
\* still what it was (the allocation from /Size, incrementalUpdate.ts:196-209).
NumbersKeepTheirMeaning ==
  \A i, j \in DOMAIN revisions : \A n \in DOMAIN revisions[i].objs \cap DOMAIN revisions[j].objs :
    revisions[i].objs[n].type = revisions[j].objs[n].type

\* No two fields have the same name: a viewer would show one signature of the two
\* (pickSignatureFieldName, incrementalUpdate.ts:862-879).
NamesDiffer ==
  \A m, n \in Fields : m # n => Viewed(m).name # Viewed(n).name

\* Every signature and stamp is a field of the form the viewer finds, and an annotation
\* of its page: none disappears when another is added (incrementalUpdate.ts:22-31).
SignaturesStay ==
  \A s \in applied : s.widget \in Fields /\ s.widget \in Annots(s.page)

\* What the signer said it embedded, the verifier finds, whatever was appended since: the
\* writer keeps /DSS in the catalog, the reader looks for it its own way.
EmbeddedIsFound ==
  embedded => DssFound.type = "dss" /\ \A n \in DssFound.streams : ByTables(n).type = "stream"

RevisionsInv == RevisionsTypeOK /\ NumbersKeepTheirMeaning /\ NamesDiffer /\ EmbeddedIsFound

-----------------------------------------------------------------------------
\* Said of the code but not kept by it (README, section 5).

\* The header: "Updated AcroForm - prior dict preserved; /Fields gains the new widget
\* ref". No field leaves the form when a signature is added to it
\* (incrementalUpdate.ts:23).
FormKeepsItsFields == \A s \in applied : s.widget \in Fields
=============================================================================
