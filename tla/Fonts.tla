---- MODULE Fonts ----
\* Where glyphs come from: the faces that a selection finds among an
\* application's files and the installed ones, the face and the size that
\* a glyph is drawn with, and the atlas that a UI toolkit draws from,
\* which grows while its textures are in use.
EXTENDS Integers, SequencesExt, FiniteSetsExt

CONSTANTS
    Disks,          \* files found: [assets, installed], each a sequence sorted by path
    Selections,     \* FontSelection: preferred sources, automatic, include_family_styles
    Automatic,      \* the automatic families, in their order
    Builtin,        \* the embedded face
    Backends,       \* faces of a toolkit's font with the style it was asked for
    FixedHeights,   \* the heights of bitmap fonts, as sequences
    Glyphs,         \* the boxes that glyphs take in an atlas, padding included
    InitialSize,    \* of an atlas
    MaxGlyphs       \* bound: glyphs of an atlas

VARIABLES
    task,       \* what is asked: "load", "face", "size" or "atlas"
    question,   \* and about what
    scan,       \* the faces still to be looked at, and the candidates kept
    result,     \* the answer
    fontAtlas       \* FontBackend: texture_size_, next_row_, rows_, glyphs_, texture_ with its version
fontsVars == <<task, question, scan, result, fontAtlas>>

NotYet == <<>>
NoGlyphs == [size |-> InitialSize, next |-> 3, rows |-> <<>>, glyphs |-> <<>>, texture |-> "none", version |-> 0, published |-> <<>>]

--------------------
\* FontCollection::load().  A score is <<heavy, italic, distance>>.
Less(s, t) == \/ s[1] < t[1]
              \/ s[1] = t[1] /\ s[2] < t[2]
              \/ s[1] = t[1] /\ s[2] = t[2] /\ s[3] < t[3]

Ranges(seq) == {seq[i] : i \in DOMAIN seq}
\* The names that are looked for, in applications' files and among those
\* that are installed.
AssetNames(q) == {s.name : s \in {t \in Ranges(q.selection.preferred) : t.is = "name"}}
                 \cup (IF q.selection.automatic THEN Ranges(Automatic) ELSE {})
InstalledNames(q) == AssetNames(q) \cup {s.name : s \in {t \in Ranges(q.selection.preferred) : t.is = "family"}}

\* Discovery is best effort: a file is passed over whole when its first face
\* does not open, and else each later face that does not.  The count of
\* glyphs is looked at later.
FaceAt(file, i) == [path |-> file.path, index |-> i - 1, file |-> file.name] @@ file.faces[i]
OpenFaces(file) ==
  SelectSeq([i \in DOMAIN file.faces |-> FaceAt(file, i)], LAMBDA face : face.flaw # "unopened")

\* Mutant: the faces behind a first one that does not open are looked at.
FacesInLater(files) == FlattenSeq([f \in DOMAIN files |-> OpenFaces(files[f])])

FacesIn(files) ==
  FlattenSeq([f \in DOMAIN files |->
      IF files[f].faces = <<>> \/ files[f].faces[1].flaw = "unopened" THEN <<>> ELSE OpenFaces(files[f])])

NamesOf(origin, face) ==
  IF origin = "assets" /\ face.file # face.family THEN <<face.family, face.file>> ELSE <<face.family>>

\* Mutant: the last of equals stays.
RetainedLast(kept, face) ==
  IF kept # <<>> /\ Less(Head(kept).score, face.score) THEN kept ELSE <<face>>

\* Of a family one face is kept, the first of those with the best style, or
\* every face in the order of their styles.  What a better one replaces is
\* dropped before face_info() refuses it.
PassedOver(kept, face) == ~question.selection.styles /\ kept # <<>> /\ ~Less(face.score, Head(kept).score)
Refused(kept, face) == face.flaw = "glyphless" /\ ~PassedOver(kept, face)
Retained(kept, face) ==
  LET room == IF question.selection.styles THEN kept ELSE <<>>
      before == SelectSeq(room, LAMBDA k : ~Less(face.score, k.score))
  IN IF PassedOver(kept, face) THEN kept
     ELSE IF Refused(kept, face) THEN room
     ELSE before \o <<face>> \o SubSeq(room, Len(before) + 1, Len(room))

Names(origin) == IF origin = "assets" THEN AssetNames(question) ELSE InstalledNames(question)
AskFaces ==
  /\ task = "load" /\ question = NotYet
  /\ \E disk \in Disks, selection \in Selections :
        /\ question' = [disk |-> disk, selection |-> selection]
        /\ scan' = [assets |-> FacesIn(disk.assets), installed |-> FacesIn(disk.installed), kept |->
                      [o \in {"assets", "installed"} |-> [n \in {} |-> <<>>]]]
  /\ UNCHANGED <<task, result, fontAtlas>>
\* A face that is refused under its family is not kept under the file's name.
LookAtFace == \E origin \in {"assets", "installed"} :
    /\ task = "load" /\ question # NotYet /\ scan[origin] # <<>>
    /\ origin = "installed" => scan.assets = <<>>
    /\ LET face == Head(scan[origin])
           names == SelectSeq(NamesOf(origin, face), LAMBDA n : n \in Names(origin))
           old(kept, n) == IF n \in DOMAIN kept THEN kept[n] ELSE <<>>
           retain(a, n) ==
             IF a.refused THEN a
             ELSE [refused |-> Refused(old(a.kept, n), face),
                   kept |-> [m \in {n} |-> Retained(old(a.kept, n), face)] @@ a.kept]
       IN scan' = [scan EXCEPT ![origin] = Tail(@),
                      !.kept[origin] = FoldLeft(retain, [refused |-> FALSE, kept |-> @], names).kept]
    /\ UNCHANGED <<task, question, result, fontAtlas>>

\* Mutant: what is installed hides what the application brings.
FacesOfInstalled(name) ==
  IF name \in DOMAIN scan.kept.installed THEN scan.kept.installed[name]
  ELSE IF name \in DOMAIN scan.kept.assets THEN scan.kept.assets[name] ELSE <<>>

FacesOf(name) ==
  IF name \in DOMAIN scan.kept.assets THEN scan.kept.assets[name]
  ELSE IF name \in DOMAIN scan.kept.installed THEN scan.kept.installed[name] ELSE <<>>
Append1(faces, face) ==
  IF \E i \in DOMAIN faces : faces[i].path = face.path /\ faces[i].index = face.index
  THEN faces ELSE Append(faces, face)
OfSource(source) ==
  CASE source.is = "name" -> FacesOf(source.name)
    [] source.is = "family" -> IF source.name \in DOMAIN scan.kept.installed THEN scan.kept.installed[source.name] ELSE <<>>
    [] source.is = "file" -> source.faces
OfAutomatic(name) ==
  LET found == FacesOf(name) IN IF found = <<>> \/ Head(found).score[1] = 1 THEN <<>> ELSE <<Head(found)>>
\* An entry of which nothing is left hides what is installed under its name,
\* and has no front() for an automatic family to look at: that is undefined.
Emptied(name) ==
  FacesOf(name) = <<>> /\ name \in DOMAIN scan.kept.assets \cup DOMAIN scan.kept.installed
\* A file that is named and does not open fails the whole; a missing one
\* does not.
LoadFaces ==
  /\ task = "load" /\ question # NotYet /\ scan.assets = <<>> /\ scan.installed = <<>> /\ result = NotYet
  /\ LET preferred == question.selection.preferred
         automatic == IF question.selection.automatic THEN Automatic ELSE <<>>
         found == FlattenSeq([i \in DOMAIN preferred |-> OfSource(preferred[i])])
         more == FlattenSeq([i \in DOMAIN automatic |-> OfAutomatic(automatic[i])])
         end == IF \E s \in Ranges(preferred) : s.is = "file" /\ s.broken THEN "failed"
                ELSE IF \E name \in Ranges(automatic) : Emptied(name) THEN "undefined" ELSE "loaded"
     IN result' = [end |-> end,
                   faces |-> IF end = "loaded" THEN Append(FoldLeft(Append1, <<>>, found \o more), Builtin) ELSE <<>>]
  /\ UNCHANGED <<task, question, scan, fontAtlas>>
--------------------
\* FontBackend::face().  Faces come sorted by family; of each family only
\* the one next to the style is asked whether it covers a scalar.
Distance(a, b) == IF a < b THEN b - a ELSE a - b
Rank(face, style) == <<0, IF face.italic = style.italic THEN 0 ELSE 1, Distance(face.weight, style.weight)>>
Better(face, selected, style) == selected = NotYet \/ Less(Rank(face, style), Rank(selected, style))
Covering(selected) == selected # NotYet /\ selected.covers

FacesAsked(backend) ==
  FoldLeft(LAMBDA acc, face :
      IF acc.done THEN acc
      ELSE IF face.family # acc.family /\ Covering(acc.selected) THEN [acc EXCEPT !.done = TRUE]
      ELSE LET fresh == face.family # acc.family
               selected == IF fresh THEN NotYet ELSE acc.selected
           IN [acc EXCEPT !.family = face.family,
                          !.selected = IF Better(face, selected, backend.style) THEN face ELSE selected],
      [done |-> FALSE, family |-> 0, selected |-> NotYet], backend.faces)
Primary(backend) ==
  FoldLeft(LAMBDA selected, face : IF face.family = 0 /\ Better(face, selected, backend.style) THEN face ELSE selected,
           NotYet, backend.faces)

\* Mutant: the last family's choice is drawn whether it covers or not.
FaceForUncovered(backend) == FacesAsked(backend).selected

FaceFor(backend) == LET asked == FacesAsked(backend) IN IF Covering(asked.selected) THEN asked.selected ELSE Primary(backend)
ChooseFace ==
  /\ task = "face" /\ result = NotYet
  /\ \E backend \in Backends : question' = backend /\ result' = [face |-> FaceFor(backend)]
  /\ UNCHANGED <<task, scan, fontAtlas>>

\* set_size() of a bitmap font: a taller size is nearer than any lower one.
Penalty == 1000
SizeScore(height, wanted) == IF height < wanted THEN Penalty + (wanted - height) ELSE height - wanted
FixedSize(heights, wanted) ==
  FoldLeft(LAMBDA best, i :
      IF best = 0 \/ SizeScore(heights[i], wanted) < SizeScore(heights[best], wanted) THEN i ELSE best,
      0, [i \in DOMAIN heights |-> i])
ChooseSize ==
  /\ task = "size" /\ result = NotYet
  /\ \E heights \in FixedHeights, wanted \in 1..5 :
        question' = [heights |-> heights, wanted |-> wanted] /\ result' = [size |-> FixedSize(heights, wanted)]
  /\ UNCHANGED <<task, scan, fontAtlas>>
--------------------
\* FontBackend::reserve(): a row that fits closely, or a new one, for which
\* the atlas doubles until it has room.
Rows == DOMAIN fontAtlas.rows
Fits(row, box) == 10 * box[2] >= 7 * row.height /\ box[2] <= row.height /\ box[1] <= fontAtlas.size - row.width
Closest(box) == {r \in Rows : Fits(fontAtlas.rows[r], box)
                    /\ \A q \in Rows : Fits(fontAtlas.rows[q], box) => fontAtlas.rows[q].height >= fontAtlas.rows[r].height}
RowHeight(box) == box[2] + (box[2] \div 10)

\* Mutant: the room below is looked at, the width is not.
GrownLow(box) ==
  LET room(n) == fontAtlas.next + RowHeight(box) < n
  IN CHOOSE n \in {fontAtlas.size * 2^k : k \in 0..4} : room(n) /\ (n = fontAtlas.size \/ ~room(n \div 2))

Grown(box) ==
  LET room(n) == fontAtlas.next + RowHeight(box) < n /\ box[1] < n
  IN CHOOSE n \in {fontAtlas.size * 2^k : k \in 0..4} : room(n) /\ (n = fontAtlas.size \/ ~room(n \div 2))
Place(x, y, box) == [x |-> x, y |-> y, w |-> box[1], h |-> box[2]]

\* glyph(): a box that is drawn at once; the texture is of the past.
AddGlyph ==
  /\ task = "atlas" /\ Len(fontAtlas.glyphs) < MaxGlyphs
  /\ \E box \in Glyphs :
      LET close == Closest(box)
          r == Max(close)
      IN fontAtlas' = IF close # {}
          THEN [fontAtlas EXCEPT !.rows[r].width = @ + box[1], !.texture = "none",
                             !.glyphs = Append(@, Place(fontAtlas.rows[r].width, fontAtlas.rows[r].top, box))]
          ELSE [fontAtlas EXCEPT !.size = Grown(box), !.next = @ + RowHeight(box), !.texture = "none",
                             !.rows = Append(@, [width |-> box[1], top |-> fontAtlas.next, height |-> RowHeight(box)]),
                             !.glyphs = Append(@, Place(0, fontAtlas.next, box))]
  /\ UNCHANGED <<task, question, scan, result>>
\* getTexture(): what is drawn is published when it is asked for; a change
\* of scale drops the texture.
PublishTexture ==
  /\ task = "atlas" /\ fontAtlas.texture = "none" /\ fontAtlas.version <= MaxGlyphs
  /\ fontAtlas' = [fontAtlas EXCEPT !.texture = "live", !.version = @ + 1, !.published = [size |-> fontAtlas.size, glyphs |-> fontAtlas.glyphs]]
  /\ UNCHANGED <<task, question, scan, result>>
Rescale ==
  /\ task = "atlas" /\ fontAtlas.texture = "live" /\ fontAtlas.version <= MaxGlyphs
  /\ fontAtlas' = [fontAtlas EXCEPT !.texture = "none"]
  /\ UNCHANGED <<task, question, scan, result>>

FontsPartInit ==
  /\ task \in {"load", "face", "size", "atlas"} /\ question = NotYet /\ scan = NotYet /\ result = NotYet
  /\ fontAtlas = NoGlyphs
FontsPartNext == AskFaces \/ LookAtFace \/ LoadFaces \/ ChooseFace \/ ChooseSize \/ AddGlyph \/ PublishTexture \/ Rescale
--------------------
\* A collection is what its definition says: for each source in turn the
\* best face of its family - in the application's files, or else installed -
\* or all of them from best to worst, those of automatic families unless
\* heavy, none twice, and at last the embedded face.  A face without glyphs
\* may spoil the names it bears and no others: each other name has its
\* faces, every face is one that can be drawn with, and only an automatic
\* family that is spoilt makes the outcome undefined.
Bearing(origin, name) ==
  LET files == question.disk[origin] IN
  {x \in UNION {{f} \X DOMAIN files[f].faces : f \in DOMAIN files} :
      /\ \A i \in {1, x[2]} : files[x[1]].faces[i].flaw # "unopened"
      /\ name \in {files[x[1]].faces[x[2]].family} \cup IF origin = "assets" THEN {files[x[1]].name} ELSE {}}
Spoilt(name) == \E origin \in {"assets", "installed"} :
  \E x \in Bearing(origin, name) : question.disk[origin][x[1]].faces[x[2]].flaw = "glyphless"
FoundAt(origin, x) == FaceAt(question.disk[origin][x[1]], x[2])
Precedes(s, x, t, y) == Less(s, t) \/ (~Less(t, s) /\ (x[1] < y[1] \/ (x[1] = y[1] /\ x[2] < y[2])))
InOrderOf(origin, places) ==
  SetToSortSeq(places, LAMBDA x, y : Precedes(FoundAt(origin, x).score, x, FoundAt(origin, y).score, y))
OneOrAll(faces) == IF question.selection.styles \/ faces = <<>> THEN faces ELSE <<Head(faces)>>
Found(origin, places) == OneOrAll([i \in DOMAIN places |-> FoundAt(origin, places[i])])
FoundIn(origin, name) == Found(origin, InOrderOf(origin, Bearing(origin, name)))
FirstOf(own, installed) == IF own # <<>> THEN own ELSE installed
Best(name) == FirstOf(FoundIn("assets", name), FoundIn("installed", name))
UnlessHeavy(faces) == IF faces = <<>> \/ Head(faces).score[1] = 1 THEN <<>> ELSE <<Head(faces)>>
AskedFor ==
  LET source(s) == CASE s.is = "name" -> [spoilt |-> Spoilt(s.name), faces |-> Best(s.name)]
                     [] s.is = "family" -> [spoilt |-> Spoilt(s.name), faces |-> FoundIn("installed", s.name)]
                     [] OTHER -> [spoilt |-> FALSE, faces |-> s.faces]
      light(name) == [spoilt |-> Spoilt(name), faces |-> UnlessHeavy(Best(name))]
      preferred == question.selection.preferred
  IN [i \in DOMAIN preferred |-> source(preferred[i])]
     \o (IF question.selection.automatic THEN [i \in DOMAIN Automatic |-> light(Automatic[i])] ELSE <<>>)
Same(a, b) == a.path = b.path /\ a.index = b.index
OnceEach(all) ==
  LET first == {i \in DOMAIN all : \A j \in 1..i - 1 : ~Same(all[j], all[i])}
  IN [i \in 1..Cardinality(first) |-> all[SetToSortSeq(first, <)[i]]]
AsAsked(asked) ==
  LET spoilt == {i \in DOMAIN asked : asked[i].spoilt} IN
  /\ result.end = "undefined" => \E i \in spoilt : i > Len(question.selection.preferred)
  /\ result.end = "loaded" =>
       /\ spoilt = {} => result.faces = Append(OnceEach(FlattenSeq([i \in DOMAIN asked |-> asked[i].faces])), Builtin)
       /\ \A i \in DOMAIN asked \ spoilt : Ranges(asked[i].faces) \subseteq Ranges(result.faces)
       /\ Last(result.faces) = Builtin
       /\ \A i \in 1..Len(result.faces) - 1 :
            /\ result.faces[i].flaw = "none"
            /\ \A j \in 1..i - 1 : ~Same(result.faces[j], result.faces[i])
CollectionIsBest == task = "load" /\ result # NotYet => AsAsked(AskedFor)

\* A scalar is drawn with a face that covers it when the nearest face of
\* some family does - of the first such family - or else with the nearest of
\* the first family; a bitmap font is enlarged only when it has no taller
\* size, and no size between is passed over.
Nearest(family) ==
  LET mine == {i \in DOMAIN question.faces : question.faces[i].family = family}
  IN question.faces[CHOOSE i \in mine : \A j \in mine :
         LET ri == Rank(question.faces[i], question.style)
             rj == Rank(question.faces[j], question.style)
         IN Less(ri, rj) \/ (ri = rj /\ i <= j)]
FaceIsNearest == task = "face" /\ result # NotYet =>
    LET families == {question.faces[i].family : i \in DOMAIN question.faces}
        covered == {f \in families : Nearest(f).covers}
    IN result.face = IF covered = {} THEN Nearest(0) ELSE Nearest(Min(covered))
SizeIsNearest == task = "size" /\ result # NotYet =>
    LET heights == Ranges(question.heights)
        taller == {h \in heights : h >= question.wanted}
    IN question.heights[result.size] = IF taller # {} THEN Min(taller) ELSE Max(heights)

\* Glyphs of an atlas lie inside it and apart from each other and from the
\* white corner, as it grows; and the texture in use shows each of them
\* where it is said to be, at the size that its coordinates are divided by.
ApartFrom(a, b) == a.x + a.w <= b.x \/ b.x + b.w <= a.x \/ a.y + a.h <= b.y \/ b.y + b.h <= a.y
Corner == [x |-> 0, y |-> 0, w |-> 2, h |-> 2]
GlyphsApart ==
  /\ \A i \in DOMAIN fontAtlas.glyphs :
        LET g == fontAtlas.glyphs[i]
        IN g.x + g.w <= fontAtlas.size /\ g.y + g.h <= fontAtlas.size /\ ApartFrom(g, Corner)
           /\ \A j \in DOMAIN fontAtlas.glyphs : i # j => ApartFrom(g, fontAtlas.glyphs[j])
  /\ fontAtlas.texture = "live" => fontAtlas.published = [size |-> fontAtlas.size, glyphs |-> fontAtlas.glyphs]
FontsAreFound == CollectionIsBest /\ FaceIsNearest /\ SizeIsNearest /\ GlyphsApart
====================
