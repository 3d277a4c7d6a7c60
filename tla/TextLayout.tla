---- MODULE TextLayout ----
\* Text on the CPU: breaking a text into lines (layout.cpp) and packing
\* its rasterised glyphs into atlas pages (unicode-text.cpp).
\*
\* A text is a sequence of scalars: letters, a combining "mark", "space",
\* "tab", the line separator "ls" and the paragraph separators "cr" and
\* "lf".  A range (b, e] holds the scalars after the first b up to the
\* e-th.  ICU (graphemes, break opportunities) and HarfBuzz (advances) are
\* modelled from how layout.cpp uses them; scripts and visual order change
\* the shape of a glyph and not the extent of a line, and are left out.
EXTENDS Naturals, SequencesExt, FiniteSetsExt

CONSTANTS Faces,          \* the font collection: each face's set of scalars
          Advance,        \* the advance of a scalar's glyph
          MissingAdvance, \* the advance of U+FFFD in the last, builtin face
          Texts, Widths, Directions,   \* the layouts asked for; width 0: none
          GlyphSize,      \* glyph -> its bitmap's <<width, height>>
          Strings, Extents             \* the rasterisations asked for

VARIABLES asked,          \* the request
          lines,          \* the lines it was broken into
          atlas           \* the pages its glyphs were packed into
layoutVars == <<asked, lines, atlas>>

ControlScalars == {"ls", "cr", "lf"}

\* ICU's character breaks: a mark joins what precedes it, CR LF are one.
GraphemeEnds(t) ==
  {e \in DOMAIN t : \/ e = Len(t)
                    \/ IF t[e] \in ControlScalars THEN ~(t[e] = "cr" /\ t[e + 1] = "lf")
                       ELSE t[e + 1] # "mark"}

Graphemes(t, b, e) ==
  {g \in (b .. e) \X (b .. e) :
     /\ g[1] < g[2] /\ g[2] \in GraphemeEnds(t)
     /\ g[1] = b \/ g[1] \in GraphemeEnds(t)
     /\ \A i \in (g[1] + 1) .. (g[2] - 1) : i \notin GraphemeEnds(t)}

\* A face serves a whole grapheme or none of it; a tab is four spaces.
Covers(f, t, g) ==
  \A i \in (g[1] + 1) .. g[2] :
     \/ t[i] \in ControlScalars
     \/ (IF t[i] = "tab" THEN "space" ELSE t[i]) \in Faces[f]

FaceOf(t, g) ==
  LET able == {f \in DOMAIN Faces : Covers(f, t, g)}
  IN  IF able = {} THEN [face |-> Len(Faces), missing |-> TRUE]
      ELSE [face |-> Min(able), missing |-> FALSE]

ContentEnd(t, b, e) == Max({b} \cup {i \in (b + 1) .. e : t[i] \notin {"space", "tab", "ls"}})

\* A grapheme no face covers is one replacement glyph.
GraphemeAdvance(t, g) ==
  IF FaceOf(t, g).missing THEN MissingAdvance
  ELSE MapThenSumSet(LAMBDA i : IF t[i] \in ControlScalars THEN 0
                                ELSE IF t[i] = "tab" THEN 4 * Advance["space"]
                                ELSE Advance[t[i]],
                     (g[1] + 1) .. g[2])

LineWidth(t, b, e) ==
  LET c == ContentEnd(t, b, e)
  IN  MapThenSumSet(LAMBDA g : GraphemeAdvance(t, g), Graphemes(t, b, c))

\* ICU's line breaks in the paragraph (b, e].
Boundaries(t, b, e) ==
  {i \in (b + 1) .. e : \/ i = e \/ t[i] = "ls"
                        \/ t[i] = "space" /\ t[i + 1] \notin {"space", "ls"}
                        \/ t[i] = "tab" /\ t[i + 1] \notin {"space", "tab", "ls", "mark"}}

OpportunitiesInside(t, b, e) == Boundaries(t, b, e)
Opportunities(t, b, e) == {i \in Boundaries(t, b, e) : i \in GraphemeEnds(t) \/ i = e}

\* Where the line that starts after `start` ends: as many opportunities as fit,
\* up to a hard one; a word that does not fit is cut between graphemes.
LineEnd(t, b, e, start, width) ==
  LET ahead == {i \in Opportunities(t, b, e) : i > start}
      stop  == Min({i \in ahead : t[i] = "ls" \/ i = e})
      fits(i) == LineWidth(t, start, i) <= width
      within == {i \in ahead : i <= stop /\ \A j \in {k \in ahead : k <= i} : fits(j)}
      points == {i \in GraphemeEnds(t) : start < i /\ i <= Min(ahead)}
  IN  CASE width = 0    -> stop
        [] width # 0 /\ within # {} -> Max(within)
        [] OTHER -> Max({Min(points)}
                        \cup {i \in points : \A j \in {k \in points : k <= i} : fits(j)})

Line(t, b, e, width, rtl) ==
  LET extent == LineWidth(t, b, e)
      over   == width # 0 /\ extent > width
  IN  [begin |-> b, end |-> e, extent |-> extent, overflow |-> over,
       leading |-> IF rtl /\ width # 0 /\ ~over THEN width - extent ELSE 0]

ParagraphLines(t, b, e, width, rtl) ==
  LET from[s \in b .. e] ==
        IF s = e THEN <<>>
        ELSE LET next == LineEnd(t, b, e, s, width)
             IN  <<Line(t, s, next, width, rtl)>> \o from[next]
      blank == <<Line(t, e, e, width, rtl)>>
  IN  IF b = e THEN blank ELSE from[b] \o (IF t[e] = "ls" THEN blank ELSE <<>>)

\* CR LF ends one paragraph; the text after the last separator is one too.
Layout(t, width, rtl) ==
  LET ends == {i \in DOMAIN t : \/ t[i] = "cr"
                                \/ t[i] = "lf" /\ ~(i > 1 /\ t[i - 1] = "cr")}
      skip(i) == IF t[i] = "cr" /\ i < Len(t) /\ t[i + 1] = "lf" THEN i + 1 ELSE i
      begin(i) == Max({0} \cup {skip(j) : j \in {k \in ends : k < i}})
      paragraphs == SetToSortSeq(ends, <) \o <<Len(t) + 1>>
  IN  FlattenSeq([k \in DOMAIN paragraphs |->
                    ParagraphLines(t, begin(paragraphs[k]), paragraphs[k] - 1, width, rtl)])

\* ---- prepare(): each distinct glyph is rasterised once and packed in rows
\* with one clear pixel around it; the pages are cropped at the end.
Blank == [page |-> 0, x |-> 0, y |-> 0]
EmptyPage == [x |-> 1, y |-> 1, row |-> 0, right |-> 1, bottom |-> 1]
EmptyAtlas == [failed |-> FALSE, pages |-> <<>>, at |-> <<>>, draws |-> <<>>, runs |-> <<>>]

NextRowTight(p) == [p EXCEPT !.x = 1, !.y = @ + p.row, !.row = 0]
NextRow(p) == [p EXCEPT !.x = 1, !.y = @ + p.row + 1, !.row = 0]

PageFor(pages, w, h, extent) ==
  LET rows == IF pages # <<>> /\ Last(pages).x + w + 1 > extent
              THEN Append(Front(pages), NextRow(Last(pages))) ELSE pages
  IN  IF rows = <<>> \/ Last(rows).y + h + 1 > extent THEN Append(rows, EmptyPage) ELSE rows

Packed(a, g, extent) ==
  LET w == GlyphSize[g][1]
      h == GlyphSize[g][2]
      pages == PageFor(a.pages, w, h, extent)
      p  == Last(pages)
  IN  CASE w > extent - 2 \/ h > extent - 2 -> [a EXCEPT !.failed = TRUE]
        [] (w = 0 \/ h = 0) -> [a EXCEPT !.at = (g :> Blank) @@ @]
        [] OTHER -> [a EXCEPT
             !.at = (g :> [page |-> Len(pages), x |-> p.x, y |-> p.y]) @@ @,
             !.pages = Append(Front(pages), [p EXCEPT
                !.right = Max({@, p.x + w}), !.bottom = Max({@, p.y + h}),
                !.x = @ + w + 1, !.row = Max({@, h})])]

Drawn(a, g) ==
  LET page == a.at[g].page
  IN  IF a.at[g] = Blank THEN a
      ELSE [a EXCEPT !.draws = Append(@, g),
                     !.runs = IF @ # <<>> /\ Last(@).page = page
                              THEN Append(Front(@), [Last(@) EXCEPT !.count = @ + 1])
                              ELSE Append(@, [page |-> page, first |-> Len(a.draws),
                                              count |-> 1])]

Prepared(string, extent) ==
  FoldLeft(LAMBDA a, g :
             LET admitted == IF g \in DOMAIN a.at THEN a ELSE Packed(a, g, extent)
             IN  IF a.failed \/ admitted.failed THEN [a EXCEPT !.failed = TRUE]
                 ELSE Drawn(admitted, g),
           EmptyAtlas, string)

NotAsked == [text |-> <<>>, width |-> 0, rtl |-> FALSE, glyphs |-> <<>>, extent |-> 0]

LayoutInit == asked = NotAsked /\ lines = <<>> /\ atlas = EmptyAtlas

Ask ==
  /\ asked = NotAsked
  /\ \/ \E t \in Texts, w \in Widths, rtl \in Directions :
           asked' = [NotAsked EXCEPT !.text = t, !.width = w, !.rtl = rtl]
     \/ \E s \in Strings, x \in Extents :
           asked' = [NotAsked EXCEPT !.glyphs = s, !.extent = x]
  /\ UNCHANGED <<lines, atlas>>

LayOut ==
  /\ asked # NotAsked /\ asked.extent = 0 /\ lines = <<>>
  /\ lines' = Layout(asked.text, asked.width, asked.rtl)
  /\ UNCHANGED <<asked, atlas>>

Rasterize ==
  /\ asked.extent # 0 /\ atlas = EmptyAtlas
  /\ atlas' = Prepared(asked.glyphs, asked.extent)
  /\ UNCHANGED <<asked, lines>>

LayoutNext == Ask \/ LayOut \/ Rasterize
LayoutSpec == LayoutInit /\ [][LayoutNext]_layoutVars

--------------------
OneGrapheme(t, l) == \A i \in (l.begin + 1) .. (l.end - 1) : i \notin GraphemeEnds(t)

ParagraphEnd(t, i) == Min({Len(t)} \cup {j - 1 : j \in {k \in DOMAIN t : k > i /\ t[k] \in {"cr", "lf"}}})

\* What the line that ends at i would take next: up to the next place to
\* break or, inside a word too long for a line, the next grapheme.
NextPiece(t, i) ==
  LET places == Opportunities(t, 0, ParagraphEnd(t, i))
  IN  Min({j \in (IF i \in places THEN places ELSE GraphemeEnds(t)) : j > i})

\* Every scalar but the breaks is on exactly one line.  A line ends at the end
\* of a grapheme, is wider than was asked only if it is one grapheme or says so,
\* and ends early only where the next piece would not have fitted.
TextIsWrapped ==
  LET t == asked.text
      w == asked.width
  IN  lines # <<>> =>
      /\ \A i \in DOMAIN t :
           Cardinality({k \in DOMAIN lines : lines[k].begin < i /\ i <= lines[k].end})
             = IF t[i] \in {"cr", "lf"} THEN 0 ELSE 1
      /\ \A k \in DOMAIN lines :
           LET l == lines[k] IN
           /\ w # 0 /\ l.extent > w => OneGrapheme(t, l)
           /\ l.begin < l.end => l.end \in GraphemeEnds(t)
           /\ w # 0 => l.leading + l.extent <= w \/ l.overflow
           /\ w # 0 /\ l.begin < l.end /\ l.end < ParagraphEnd(t, l.end) /\ t[l.end] # "ls"
              => LineWidth(t, l.begin, NextPiece(t, l.end)) > w

BoxOf(g) == [page |-> atlas.at[g].page, x |-> atlas.at[g].x, y |-> atlas.at[g].y,
           w |-> GlyphSize[g][1], h |-> GlyphSize[g][2]]
Apart(a, b) == \/ a.page # b.page \/ a.x + a.w < b.x \/ b.x + b.w < a.x
               \/ a.y + a.h < b.y \/ b.y + b.h < a.y

\* Glyphs of one page lie apart with their margin and within the page, a page
\* within the extent, and the runs draw each visible glyph in order from the
\* page that holds it.
AtlasIsSound ==
  ~atlas.failed /\ asked.extent # 0 =>
    LET visible == {g \in DOMAIN atlas.at : atlas.at[g] # Blank} IN
    /\ \A g, h \in visible : g # h => Apart(BoxOf(g), BoxOf(h))
    /\ \A g \in visible :
         LET p == atlas.pages[BoxOf(g).page] IN
         /\ BoxOf(g).x >= 1 /\ BoxOf(g).y >= 1
         /\ BoxOf(g).x + BoxOf(g).w <= p.right /\ BoxOf(g).y + BoxOf(g).h <= p.bottom
         /\ p.right + 1 <= asked.extent /\ p.bottom + 1 <= asked.extent
    /\ atlas.draws = SelectSeq(asked.glyphs, LAMBDA g : g \in visible)
    /\ \A i \in DOMAIN atlas.draws :
         \E r \in ToSet(atlas.runs) : /\ r.first < i /\ i <= r.first + r.count
                                      /\ r.page = BoxOf(atlas.draws[i]).page

\* What is laid out shows all of the text, and what is drawn of it is all there.
TextIsLaidOut == TextIsWrapped /\ AtlasIsSound

--------------------
\* ---- Retained text (text-updater.cpp) and the catalogue of fonts it draws
\* its default from (font-service.cpp).
\* 
\* The updater is used by one owner: u is its State, futures included; the
\* worker that prepares and the platform that uploads complete a future
\* between two calls.  The font service is shared under a mutex: each call
\* is one step.
CONSTANTS TextRequests,       \* the texts asked for, compared by same_request
          MaxTextRevision,    \* bound: request events
          Configurations,     \* font catalogues an application configures
          Groups, References, \* names of groups and of families
          Embedded            \* the builtin family's reference
ASSUME FallbackAssumption == \A c \in Configurations : c.fallbacks \in Seq(References)

VARIABLES u,                  \* Updater::State
          fonts,              \* FontService::State::catalogue
          chosen              \* the last choice: [group, saved, font]
fontVars == <<fonts, chosen>>

None == [text |-> "none"]
Idle == "idle"
NoFailure == [stage |-> "none", revision |-> 0, of |-> None]

\* ---- The updater. ----
Fresh == [desired |-> None, desiredRevision |-> 0, settledRevision |-> 0,
          active |-> None, activeRevision |-> 0, successful |-> None, current |-> None,
          preparation |-> Idle, uploading |-> Idle, failure |-> NoFailure,
          lastFailed |-> FALSE]

Busy(s) == s.preparation # Idle \/ s.uploading # Idle
Pending(s) == Busy(s) \/ s.desiredRevision # s.settledRevision

SettledBy(s) == IF s.active = s.desired THEN s.desiredRevision ELSE s.activeRevision

FailForNewest(s, stage) ==
  [s EXCEPT !.failure = [stage |-> stage, revision |-> s.activeRevision, of |-> s.active],
            !.settledRevision = s.desiredRevision,
            !.preparation = Idle, !.uploading = Idle, !.active = None, !.lastFailed = TRUE]
Fail(s, stage) ==
  [s EXCEPT !.failure = [stage |-> stage, revision |-> s.activeRevision, of |-> s.active],
            !.settledRevision = SettledBy(s),
            !.preparation = Idle, !.uploading = Idle, !.active = None, !.lastFailed = TRUE]

\* The constructor that is given a text prepares and uploads it at once.
Constructed(r) == [Fresh EXCEPT !.desired = r, !.desiredRevision = 1, !.settledRevision = 1,
                                !.successful = r, !.current = r]

Request(r) ==
  /\ r # u.desired /\ u.desiredRevision < MaxTextRevision
  /\ LET next == [u EXCEPT !.desired = r, !.desiredRevision = @ + 1, !.failure = NoFailure]
     IN  u' = IF ~Busy(u) /\ u.successful = r
              THEN [next EXCEPT !.settledRevision = next.desiredRevision, !.lastFailed = FALSE]
              ELSE next

Retry ==
  /\ u.lastFailed /\ ~Pending(u) /\ u.desiredRevision < MaxTextRevision
  /\ u' = [u EXCEPT !.desiredRevision = @ + 1, !.failure = NoFailure, !.lastFailed = FALSE]

AdoptUpload(s) ==
  CASE s.uploading = "ready" ->
         [s EXCEPT !.uploading = Idle, !.current = s.active, !.settledRevision = SettledBy(s),
                   !.successful = s.active, !.active = None, !.lastFailed = FALSE]
    [] s.uploading = "failed" -> Fail(s, "upload")
    [] OTHER -> s

\* `accepted`: whether the platform takes the upload.
TakePrepared(s, accepted) ==
  CASE s.preparation = "ready" /\ accepted ->
         [s EXCEPT !.preparation = Idle, !.uploading = "queued"]
    [] s.preparation = "ready" /\ ~accepted -> Fail(s, "upload")
    [] s.preparation = "failed" -> Fail(s, "preparation")
    [] OTHER -> s

StartNewest(s, accepted) ==
  IF Busy(s) \/ s.desiredRevision = s.settledRevision THEN s
  ELSE LET next == [s EXCEPT !.activeRevision = s.desiredRevision, !.active = s.desired]
       IN  IF accepted THEN [next EXCEPT !.preparation = "queued"]
           ELSE Fail(next, "preparation")

Adopt ==
  /\ \E upload, prepare \in BOOLEAN :
        u' = StartNewest(TakePrepared(AdoptUpload(u), upload), prepare)

\* A worker prepares, the platform uploads; either may throw or be cancelled.
Complete ==
  /\ \E outcome \in {"ready", "failed"} :
        \/ u.preparation = "queued" /\ u' = [u EXCEPT !.preparation = outcome]
        \/ u.uploading = "queued" /\ u' = [u EXCEPT !.uploading = outcome]

\* ---- The font service.  A configuration has families (a sequence of
\* [reference, loads]), groups, fallbacks and a default.  A font is its
\* reference and the chain of families it falls back through.
Named(c) == {c.families[i].reference : i \in DOMAIN c.families}
            \cup UNION {ToSet(c.groups[g]) : g \in DOMAIN c.groups}
            \cup DOMAIN c.groups \cup ToSet(c.fallbacks) \cup ({c.default} \ {""})
Accepted(c) == /\ \A i, j \in DOMAIN c.families :
                    c.families[i].reference = c.families[j].reference => i = j
               /\ "" \notin Named(c) /\ Embedded \notin Named(c)

\* What q adds to the names retained: each of `names` once, in the order of q.
KeptOnce(first, q, names) ==
  FoldLeft(LAMBDA r, x : IF x \notin names \/ Contains(r, x) THEN r ELSE Append(r, x), first, q)
Loaded(c) == {f.reference : f \in {g \in ToSet(c.families) : g.loads}}
FontOf(c, r) ==
  [reference |-> r,
   chain |-> IF r = Embedded THEN <<Embedded>>
             ELSE Append(KeptOnce(<<r>>, c.fallbacks, Loaded(c)), Embedded)]

Catalogue(c) ==
  LET names == Loaded(c) \cup {Embedded}
  IN  [fonts |-> [r \in names |-> FontOf(c, r)],
       groups |-> [g \in DOMAIN c.groups |-> KeptOnce(<<>>, c.groups[g], ToSet(c.groups[g]))],
       default |-> FontOf(c, IF c.default \in names THEN c.default ELSE Embedded),
       fallbacks |-> LET order == Append(KeptOnce(<<>>, c.fallbacks, names), Embedded)
                    IN  [i \in DOMAIN order |-> FontOf(c, order[i])]]

\* What ensure() builds when nothing was configured.
NoConfiguration == [families |-> <<>>, groups |-> <<>>, fallbacks |-> <<>>, default |-> ""]

\* A configuration that is refused leaves the catalogue as it was.
Configure ==
  /\ \E c \in {d \in Configurations : Accepted(d)} : fonts' = Catalogue(c)
  /\ UNCHANGED chosen

Candidates(g) == IF g \notin DOMAIN fonts.groups THEN {}
                 ELSE ToSet(fonts.groups[g]) \cap DOMAIN fonts.fonts

RestoredByChance(g, saved) ==
  IF Candidates(g) = {} THEN {fonts.default} ELSE {fonts.fonts[r] : r \in Candidates(g)}
Restored(g, saved) ==
  CASE Candidates(g) = {} -> {fonts.default}
    [] saved \in Candidates(g) -> {fonts.fonts[saved]}
    [] OTHER -> {fonts.fonts[r] : r \in Candidates(g)}

\* restore_or_choose(): with a reference saved from an earlier choice, or none.
Choose ==
  /\ \E g \in Groups, saved \in References \cup {Embedded, ""} :
        \E f \in Restored(g, saved) :
           chosen' = [group |-> g, saved |-> saved, font |-> f,
                      able |-> Candidates(g), default |-> fonts.default]
  /\ UNCHANGED fonts

UpdaterInit == u \in {Fresh} \cup {Constructed(r) : r \in TextRequests}
UpdaterNext == \/ \E r \in TextRequests : Request(r)
               \/ Retry \/ Adopt \/ Complete

FontsInit ==
  /\ fonts = Catalogue(NoConfiguration)
  /\ chosen = [group |-> "", saved |-> "", font |-> fonts.default,
               able |-> {}, default |-> fonts.default]
FontsNext == Configure \/ Choose

--------------------
\* Once nothing is pending the newest text is shown, or its own failure is
\* reported: neither an older success nor an older failure passes for it.
NewestTextSettles ==
  /\ ~Pending(u) =>
       IF u.lastFailed THEN u.failure.of = u.desired ELSE u.current = u.desired
  /\ ~(u.preparation # Idle /\ u.uploading # Idle)
  /\ u.current = u.successful

\* A choice that was saved comes back while the group still offers it; no
\* choice leaves the group; every font ends in the builtin one.
ChoiceComesBack ==
  /\ chosen.saved \in chosen.able => chosen.font.reference = chosen.saved
  /\ chosen.able # {} => chosen.font.reference \in chosen.able
  /\ chosen.able = {} => chosen.font = chosen.default
  /\ Last(chosen.font.chain) = Embedded /\ IsInjective(chosen.font.chain)

\* The newest request wins over older results and the newest choice over
\* older configurations, and neither forgets what it falls back on.
NewestWins == NewestTextSettles /\ ChoiceComesBack
====================
