---- MODULE Tiles ----
\* Sprites and tilesets: the parser that admits an entry of a manifest,
\* the selection of an autotile from the terrain around it, and the
\* playback of a clip.  The parser's promise is that whatever it admits
\* can be used: each cell an admitted entry names lies in its grid, and a
\* selection or a tick of playback never has to refuse it.  JSON syntax,
\* identifiers, textures and pivots are left out.
EXTENDS Naturals, FiniteSetsExt, SequencesExt

CONSTANTS Entries,      \* sprite and tileset entries of manifests, see Parsed
          SamplesOf(_), \* by set of sites what a sampler may answer for them
          MaxSize,      \* the largest std::size_t
          MaxCells,     \* the most cells a grid may have for the renderer
          MaxDuration,  \* the largest count of std::chrono::milliseconds
          Seeds,        \* fractions of a selection's seed, in parts of Cardinality(Seeds)
          MaxPlay       \* bound: the time played

VARIABLES
    entry,      \* the entry under the parser
    asset,      \* "unread", "refused" or "parsed"
    chosen,     \* the last result of select_tile
    playing     \* the sprite's Animation: clip, frame, time in it; and history: since when

tileVars == <<entry, asset, chosen, playing>>

Plus(a, b) == (a + b) % (MaxSize + 1)
CellCount(g) == (g.rows * g.columns) % (MaxSize + 1)
CellIndex(g, row, column) == (row * g.columns + column) % (MaxSize + 1)

\* Mutant: the product is compared after it was computed.
GridValidLate(g) == g.rows >= 1 /\ g.columns >= 1 /\ CellCount(g) <= MaxCells

\* parse_grid and cell_count().
GridValid(g) ==
  /\ g.rows >= 1 /\ g.columns >= 1
  /\ g.columns <= MaxSize \div g.rows /\ CellCount(g) <= MaxCells

\* parse_cell: an index, or a row and a column.
CellValid(g, c) ==
  IF "index" \in DOMAIN c THEN c.index < CellCount(g) ELSE c.row < g.rows /\ c.column < g.columns
Cell(g, c) == IF "index" \in DOMAIN c THEN c.index ELSE CellIndex(g, c.row, c.column)

ViewValid(g, v) ==
  /\ v.rows >= 1 /\ v.columns >= 1 /\ v.row < g.rows /\ v.column < g.columns
  /\ v.rows <= g.rows - v.row /\ v.columns <= g.columns - v.column

FramesValid(g, frames) ==
  frames # <<>> /\ \A i \in DOMAIN frames : CellValid(g, frames[i].cell) /\ frames[i].duration >= 1
Frames(g, frames) == [i \in DOMAIN frames |-> [cell |-> Cell(g, frames[i].cell), duration |-> frames[i].duration]]

\* append_profile_animations: every facing shifts the rows of the clip.
ProfileValid(g, p) ==
  /\ p.facings # {} /\ p.columns # <<>> /\ IsInjective(p.columns) /\ p.duration >= 1
  /\ \A f \in p.facings : f <= MaxSize - p.row_offset /\ Plus(f, p.row_offset) < g.rows
  /\ \A i \in DOMAIN p.columns : p.columns[i] < g.columns
ProfileClip(g, p, f) ==
  [loop |-> p.loop,
   frames |-> [i \in DOMAIN p.columns |-> [cell |-> CellIndex(g, Plus(f, p.row_offset), p.columns[i]),
                                           duration |-> p.duration]]]
--------------------
\* Directions run clockwise from north; the even ones are cardinal.
Directions == 0..7
Canonical == [i \in 1..8 |-> i - 1]
SlotOf(type) == {d \in Directions : (d % 2 = 0) = (type = "edge")}

WangValid(g, w) ==
  /\ w.slot_order = Canonical /\ w.terrains # <<>> /\ IsInjective(w.terrains) /\ w.tiles # <<>>
  /\ \A i \in DOMAIN w.terrains : w.terrains[i] >= 1
  /\ \A i \in DOMAIN w.tiles :
       /\ CellValid(g, w.tiles[i].cell) /\ w.tiles[i].weight > 0
       /\ \A d \in Directions :
            w.tiles[i].wang[d] # 0 => w.tiles[i].wang[d] \in ToSet(w.terrains) /\ d \in SlotOf(w.type)
Variants(w, signature) ==
  SelectSeq([i \in DOMAIN w.tiles |-> i], LAMBDA i : w.tiles[i].wang = signature)

BitmaskValid(g, b) ==
  /\ b.bit_order # <<>> /\ IsInjective(b.bit_order) /\ b.cases # {}
  /\ Len(b.bit_order) <= IF b.type = "four" THEN 4 ELSE 8
  /\ \A i \in DOMAIN b.bit_order : b.type = "four" => b.bit_order[i] % 2 = 0
  /\ \A c \in b.cases : c.mask <= 2 ^ Len(b.bit_order) - 1 /\ CellValid(g, c.cell)

RuleValid(g, r) == IF r.type \in {"edge", "corner"} THEN WangValid(g, r) ELSE BitmaskValid(g, r)

\* parse_sprites: orientations are cells of the grid, like the views.
SpriteValid(e) ==
  /\ \A p \in e.profiles : ProfileValid(e.grid, p)
  /\ \A c \in e.clips : FramesValid(e.grid, c.frames)
\* parse_tilesets: a cell is the target of one clip at most.
TilesetValid(e) ==
  /\ \A c \in e.clips : CellValid(e.grid, c.target) /\ FramesValid(e.grid, c.frames)
  /\ \A c, d \in e.clips : Cell(e.grid, c.target) = Cell(e.grid, d.target) => c = d
  /\ RuleValid(e.grid, e.rule)
Parsed(e) ==
  /\ GridValid(e.grid) /\ \A v \in e.views : ViewValid(e.grid, v)
  /\ IF e.kind = "sprite" THEN SpriteValid(e) ELSE TilesetValid(e)

Clips(e) ==
  {[frames |-> Frames(e.grid, c.frames), loop |-> c.loop] : c \in e.clips}
      \cup IF e.kind = "sprite" THEN UNION {{ProfileClip(e.grid, p, f) : f \in p.facings} : p \in e.profiles}
           ELSE {}
--------------------
\* Clip::cell_at: the frame shown after some time.
Total(frames, n) == FoldLeft(LAMBDA sum, f : sum + f.duration, 0, SubSeq(frames, 1, n))
TooLong(clip) == Total(clip.frames, Len(clip.frames)) > MaxDuration
CellAt(clip, elapsed) ==
  LET n == Len(clip.frames)
      offset == IF clip.loop THEN elapsed % Total(clip.frames, n) ELSE elapsed
      shown == {i \in 1..n : offset < Total(clip.frames, i)}
  IN clip.frames[IF shown = {} THEN n ELSE Min(shown)].cell

\* sample_terrain: the labels a site resolves to, none if it stays open.
KnownTerrain(terrains, t) == t = 0 \/ t \in terrains
SampledTile(s, o, wang, terrains) ==
  LET fallback == IF s.state = "outside" THEN o.outside ELSE o.unknown IN
  IF s.state = "known" /\ (wang => KnownTerrain(terrains, s.terrain)) THEN {s.terrain}
  ELSE CASE fallback = "empty" -> {0} [] fallback = "center" -> {o.terrain} [] OTHER -> {}

Nearby(d) == {(d + 7) % 8, (d + 1) % 8}
Required(r, o) ==
  IF r.type \in {"edge", "corner"} THEN SlotOf(r.type)
  ELSE LET declared == ToSet(r.bit_order)
           diagonal == {d \in declared : d % 2 # 0 /\ o.diagonals = "cardinals"}
       IN declared \cup UNION {Nearby(d) : d \in diagonal}

\* weighted_cell: the cell whose share of the weight the seed falls into.
Weighted(w, candidates, seed) ==
  LET sum(n) == FoldLeft(LAMBDA s, i : s + w.tiles[i].weight, 0, SubSeq(candidates, 1, n))
      n == Len(candidates)
      hit == {i \in 1..n : seed * sum(n) < sum(i) * Cardinality(Seeds)}
  IN w.tiles[candidates[IF hit = {} THEN n ELSE Min(hit)]].cell

\* Mutant: a diagonal joins by itself.
JoinedAlone(r, o, label, d) == o.terrain # 0 /\ label[d] = o.terrain

Joined(r, o, label, d) ==
  LET connects(e) == o.terrain # 0 /\ label[e] = o.terrain IN
  connects(d) /\ (d % 2 = 0 \/ o.diagonals = "independent" \/ \A e \in Nearby(d) : connects(e))

\* select(): of a rule, for what the sampler answers at the required sites.
Select(e, o, sample, seed) ==
  LET r == e.rule
      wang == r.type \in {"edge", "corner"}
      terrains == IF wang THEN ToSet(r.terrains) ELSE {}
      got == [d \in Required(r, o) |-> SampledTile(sample[d], o, wang, terrains)]
      label == [d \in Directions |-> IF d \in Required(r, o) THEN CHOOSE l \in got[d] : TRUE ELSE 0]
      mask == FoldLeft(LAMBDA m, i : m + IF Joined(r, o, label, r.bit_order[i]) THEN 2 ^ (i - 1) ELSE 0,
                       0, [i \in DOMAIN r.bit_order |-> i])
      found == IF wang THEN Variants(r, label) ELSE SetToSeq({c \in r.cases : c.mask = mask})
  IN CASE wang /\ "center" \in {o.outside, o.unknown} /\ ~KnownTerrain(terrains, o.terrain) -> [is |-> "refusal"]
       [] OTHER ->
     IF \E d \in Required(r, o) : got[d] = {} THEN [is |-> "incomplete"]
     ELSE IF found = <<>> THEN [is |-> "missing"]
     ELSE [is |-> "cell", cell |-> Cell(e.grid, IF wang THEN Weighted(r, found, seed) ELSE found[1].cell)]
--------------------
Stopped == [clip |-> "none"]
Unasked == [result |-> [is |-> "none"]]
TilesInit ==
  entry \in Entries /\ asset = "unread" /\ chosen = Unasked /\ playing = Stopped

Parse ==
  /\ asset = "unread"
  /\ asset' = IF Parsed(entry) THEN "parsed" ELSE "refused"
  /\ UNCHANGED <<entry, chosen, playing>>

Options == [terrain : {0, 1, 3}, outside : {"empty", "center", "unresolved"},
            unknown : {"empty", "center", "unresolved"}, diagonals : {"independent", "cardinals"}]

\* Asset::select_tile: a selected cell with a clip shows that clip's frame.
SelectTile ==
  /\ asset = "parsed" /\ entry.kind = "tileset" /\ chosen = Unasked
  /\ \E o \in Options, seed \in Seeds, elapsed \in 0..1 :
     \E sample \in SamplesOf(Required(entry.rule, o)) :
       LET r == Select(entry, o, sample, seed)
           target == {c \in entry.clips : r.is = "cell" /\ Cell(entry.grid, c.target) = r.cell}
           clips == {[frames |-> Frames(entry.grid, c.frames), loop |-> c.loop] : c \in target}
           shown == IF r.is # "cell" \/ \E c \in clips : TooLong(c) THEN {}
                    ELSE IF clips = {} THEN {r.cell} ELSE {CellAt(c, elapsed) : c \in clips}
       IN chosen' = [result |-> r, shown |-> shown, options |-> o, sample |-> sample]
  /\ UNCHANGED <<entry, asset, playing>>

\* Sprites::Animation: made at its first frame, moved by ticks.
StartClip ==
  /\ asset = "parsed" /\ entry.kind = "sprite" /\ playing = Stopped
  /\ \E c \in Clips(entry) : playing' = [clip |-> c, index |-> 1, elapsed |-> 0, clock |-> 0, base |-> 0]
  /\ UNCHANGED <<entry, asset, chosen>>

\* Mutant: a tick moves on by one frame at most.
WalkedOnce(clip, index, elapsed) ==
  IF elapsed < clip.frames[index].duration THEN <<index, elapsed>>
  ELSE IF index < Len(clip.frames) THEN <<index + 1, elapsed - clip.frames[index].duration>>
  ELSE IF clip.loop THEN <<1, elapsed - clip.frames[index].duration>> ELSE <<index, 0>>

\* The loop of advance(): whole frames are taken off, at most to the end.
Walked(clip, index, elapsed) ==
  LET n == Len(clip.frames)
      step(at, i) ==
          LET f == clip.frames[at[1]].duration IN
          IF at[2] < f THEN at
          ELSE IF at[1] < n THEN <<at[1] + 1, at[2] - f>>
          ELSE IF clip.loop THEN <<1, at[2] - f>> ELSE <<n, 0>>
  IN FoldLeft(step, <<index, elapsed>>, [i \in 1..(2 * n) |-> i])
Advance(delta) ==
  /\ playing # Stopped /\ playing.clock + delta <= MaxPlay
  /\ LET c == playing.clip
         n == Len(c.frames)
         ended == ~c.loop /\ playing.index = n
         sum == playing.elapsed + delta
         cycle == Total(c.frames, n)
         within == IF c.loop /\ sum >= cycle THEN sum % cycle ELSE sum
         at == IF ended THEN <<n, playing.elapsed>> ELSE Walked(c, playing.index, within)
     IN playing' = [playing EXCEPT !.index = at[1], !.elapsed = at[2], !.clock = @ + delta]
  /\ UNCHANGED <<entry, asset, chosen>>
SetFrame(frame) ==
  /\ playing # Stopped
  /\ LET n == Len(playing.clip.frames)
         index == IF playing.clip.loop THEN (frame % n) + 1 ELSE Min({frame + 1, n})
     IN playing' = [playing EXCEPT !.index = index, !.elapsed = 0, !.clock = 0,
                                   !.base = Total(playing.clip.frames, index - 1)]
  /\ UNCHANGED <<entry, asset, chosen>>

TilesNext ==
  \/ Parse \/ SelectTile \/ StartClip
  \/ \E delta \in 0..MaxPlay : Advance(delta)
  \/ \E frame \in 0..2 : SetFrame(frame)
--------------------
InGrid(cell) == cell < entry.grid.rows * entry.grid.columns

\* The parser admits exactly what the unbounded arithmetic calls in range,
\* and each cell that an admitted entry's clips and views come to lies in
\* the grid: no product, sum or difference has wrapped on the way.
AdmittedIsUsable ==
  asset = "parsed" =>
      /\ entry.grid.rows * entry.grid.columns <= MaxCells
      /\ \A v \in entry.views : v.row + v.rows <= entry.grid.rows /\ v.column + v.columns <= entry.grid.columns
      /\ \A c \in Clips(entry) : \A i \in DOMAIN c.frames : InGrid(c.frames[i].cell)
      /\ entry.kind = "sprite" => \A p \in entry.profiles : \A f \in p.facings : f + p.row_offset < entry.grid.rows

\* A selection answers with a cell of a case or a variant that fits what the
\* sampler said, site by site; it is incomplete only where the caller asked
\* for unresolved sites, and refuses no admitted rule.
SelectionFits ==
  chosen # Unasked =>
      LET r == entry.rule
          o == chosen.options
          wang == r.type \in {"edge", "corner"}
          label(d) == SampledTile(chosen.sample[d], o, wang, IF wang THEN ToSet(r.terrains) ELSE {})
          same(d) == o.terrain # 0 /\ label(d) = {o.terrain}
          joins(d) == same(d) /\ (d % 2 = 1 /\ o.diagonals = "cardinals" => \A e \in Nearby(d) : same(e))
          fits(c) == \A i \in DOMAIN r.bit_order : (c.mask \div 2 ^ (i - 1)) % 2 = 1 <=> joins(r.bit_order[i])
          matches(t) == \A d \in Directions : IF d \in SlotOf(r.type) THEN label(d) = {t.wang[d]} ELSE t.wang[d] = 0
          choices == IF wang THEN SelectSeq(r.tiles, matches) ELSE SetToSeq({c \in r.cases : fits(c)})
      IN CASE chosen.result.is = "refusal" -> ~KnownTerrain(ToSet(r.terrains), o.terrain)
           [] chosen.result.is = "incomplete" -> "unresolved" \in {o.outside, o.unknown}
           [] chosen.result.is = "missing" -> choices = <<>>
           [] OTHER -> /\ \E i \in DOMAIN choices : Cell(entry.grid, choices[i].cell) = chosen.result.cell
                       /\ \A cell \in chosen.shown \cup {chosen.result.cell} : InGrid(cell)

\* However the time is cut into ticks, a clip shows the frame that its
\* timeline has at the sum: advance() agrees with cell_at().
PlaybackKeepsTime ==
  playing # Stopped =>
      playing.clip.frames[playing.index].cell = CellAt(playing.clip, playing.base + playing.clock)

\* What a manifest's tiles and clips may be asked for is in the grid, fits
\* its surroundings and is shown on time.
TilesAreSound == AdmittedIsUsable /\ SelectionFits /\ PlaybackKeepsTime
====================
