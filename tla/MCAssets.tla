---- MODULE MCAssets ----
\* From manifests to pixels: the preparation of a batch, the caches with
\* the loader that fills them, the catalogue of their changes, tiles and
\* clips, and the drawing of a frame.  They share no state here; a
\* behaviour is one of theirs, the one of its part.
EXTENDS Preparation, AssetLoading, Tiles, Drawing

VARIABLE part

Parts == {"preparation", "loading", "catalogue", "tiles", "drawing"}

\* Directories: an index that names documents twice or outside, documents
\* with each kind of flaw that checks compare, and images of two sizes.
NoFile == [class |-> "gone"]
BadFile == [class |-> "broken"]
Listing(documents) == [class |-> "index", documents |-> documents]
Text(i) == [class |-> "text", text |-> i]
ImageFile(width) == [class |-> "image", width |-> width, height |-> 2]
Integral(v) == [is |-> "integer", v |-> v]
Declared(key, type, default) == [key |-> key, type |-> type, default |-> default]
Effect ==
  [id |-> "x", program |-> "g", strip |-> TRUE, defaults |-> [count |-> Integral(3)], sampling |-> {"image"},
   parameters |-> {Declared("image", "sampler2d", [is |-> "none"]), Declared("count", "uint", Integral(7))}]
Recipe(id, fragment) == [id |-> id, vertex |-> "v", fragment |-> fragment]
Shaders(programs, material) == [class |-> "shader", programs |-> programs, materials |-> <<material>>]
Drawn(id, texture, shader, right) == [id |-> id, texture |-> texture, shader |-> shader, right |-> right, bottom |-> 1]
Art(texture, shader, entries) == [class |-> "assets", texture |-> texture, shader |-> shader, entries |-> entries]

MCOriginal ==
  [ind |-> Listing(<<"fx", "art">>), fx |-> Shaders(<<Recipe("g", "f"), Recipe("h", "f")>>, Effect),
   art |-> Art("p", "x", <<Drawn("a", "none", "inherit", 2), Drawn("b", "none", "none", 1)>>),
   v |-> Text(1), f |-> Text(3), p |-> ImageFile(2), q |-> ImageFile(2)]
MCVersions ==
  [ind |-> {Listing(<<"fx", "art">>), Listing(<<"art", "fx", "art">>), Listing(<<"fx", "out">>), NoFile, BadFile},
   fx |-> {MCOriginal.fx, NoFile, BadFile} \cup
          {Shaders(<<Recipe("g", "f")>>, e) :
              e \in {[Effect EXCEPT !.program = "z"], [Effect EXCEPT !.sampling = {"count"}],
                     [Effect EXCEPT !.defaults = [count |-> Integral(8)]]}} \cup
          {Shaders(<<Recipe("g", "out")>>, Effect)},
   art |-> {MCOriginal.art, NoFile, Art("none", "none", <<Drawn("a", "p", "x", 2)>>),
            Art("none", "none", <<Drawn("a", "none", "x", 2)>>),
            Art("p", "none", <<Drawn("a", "none", "none", 1), Drawn("a", "none", "none", 1)>>)},
   v |-> {Text(1), Text(2), NoFile}, f |-> {Text(3), NoFile},
   p |-> {ImageFile(1), ImageFile(2), NoFile, BadFile}, q |-> {ImageFile(2), BadFile}]
MCNamed == [ind |-> "index", fx |-> "json", art |-> "json", v |-> "other", f |-> "other", p |-> "png", q |-> "png"]
MCSelections == {<<>>, <<"ind">>, <<"fx">>}

--------------------
\* Batches: a material on a program; a plain sprite on an image; a sprite
\* on both, whose parts are in other batches or missing.
Program == [kind |-> "program", key |-> "g"]
Material == [kind |-> "material", key |-> "m", program |-> "g"]
Picture == [kind |-> "image", key |-> "i"]
Sprite == [kind |-> "sprite", key |-> "s", image |-> "i", shader |-> "m"]
PlainSprite == [kind |-> "sprite", key |-> "t", image |-> "i", shader |-> "none"]
MCBatches == {{Program, Material}, {Picture, PlainSprite}, {Sprite}}

--------------------
\* Manifests: grids up to and past the limits with every kind of cell, view,
\* profile and clip that can leave them, and rules of every type.
Grids == [rows : 0..3, columns : 0..3]
Nth(i) == [index |-> i]
At(r, c) == [row |-> r, column |-> c]
Long(loop) == [loop |-> loop, target |-> Nth(0),
               frames |-> <<[cell |-> Nth(1), duration |-> 1], [cell |-> At(0, 0), duration |-> 2],
                            [cell |-> Nth(1), duration |-> 1]>>]
Profile(facings, offset, columns) ==
  [facings |-> facings, row_offset |-> offset, columns |-> columns, duration |-> 2, loop |-> TRUE]
SpriteEntry(g, views, profiles, clips) ==
  [kind |-> "sprite", grid |-> g, views |-> views, profiles |-> profiles, clips |-> clips]
View(r, c, rows, columns) == [row |-> r, column |-> c, rows |-> rows, columns |-> columns]

Sheets ==
  {SpriteEntry(g, {View(1, 0, 2, n)}, {}, {}) : g \in Grids, n \in {0, 1, 2}}
  \cup {SpriteEntry(g, {}, {Profile({0, 1}, offset, <<1, 0>>)}, {}) : g \in Grids, offset \in {0, 1, 7, 8}}
  \cup {SpriteEntry(g, {}, {}, {Long(loop)}) : g \in Grids, loop \in BOOLEAN}

Signature(type, t) == [d \in Directions |-> IF d \in SlotOf(type) THEN IF d \in {0, 1} THEN t ELSE 1 ELSE 0]
Variant(type, t, i, weight) == [wang |-> Signature(type, t), cell |-> Nth(i), weight |-> weight]
WangRules ==
  {[type |-> type, slot_order |-> Canonical, terrains |-> <<1, 3>>,
    tiles |-> <<Variant(type, 1, 0, 1), Variant(type, 1, 1, 2), Variant(type, 3, i, 1)>>] :
       type \in {"edge", "corner"}, i \in {2, 4}}
MaskRules ==
  {[type |-> type, terrains |-> <<>>, bit_order |-> order,
    cases |-> {[mask |-> 0, cell |-> Nth(0)], [mask |-> m, cell |-> Nth(3)]}] :
       type \in {"four", "eight"}, m \in {1, 3, 7},
       order \in {<<0>>, <<2, 0>>, <<1>>, <<3, 1>>, <<0, 1, 2>>, <<2, 2>>}}
TileSets ==
  {[kind |-> "tileset", grid |-> [rows |-> 2, columns |-> 2], views |-> {}, clips |-> clips, rule |-> r] :
       clips \in {{}, {Long(TRUE)}}, r \in WangRules \cup MaskRules}

MCEntries == Sheets \cup TileSets
MCOdd == [state : {"outside", "unknown"}, terrain : {0}]
MCKnown == [state : {"known"}, terrain : 0..1]
\* Every answer for up to four sites; beyond that one site that is outside
\* or unknown among any others that are known.
MCSamplesOf(sites) ==
  IF Cardinality(sites) <= 4 THEN [sites -> MCOdd \cup MCKnown]
  ELSE {[known EXCEPT ![d] = s] : known \in [sites -> MCKnown], d \in sites, s \in MCOdd \cup MCKnown}
FirstEntry == CHOOSE e \in Sheets : e.grid.rows = 2
--------------------
\* Pipelines that share a program, one that has its own, and broken ones;
\* styles that set a value in each layer, with and without a clip.
Parameter(key, type, required, semantic, default) ==
  [key |-> key, type |-> type, required |-> required, semantic |-> semantic, default |-> default]
Uniform(name, type) == [name |-> name, type |-> type]
Bind(uniform, missing) == [uniform |-> uniform, missing |-> missing]
Image == Parameter("image", "image", TRUE, "custom", NoValue)
Tint == Parameter("tint", "scalar", FALSE, "custom", NoValue)
Model == Parameter("model", "scalar", TRUE, "model", NoValue)
Mask == Parameter("mask", "image", FALSE, "custom", ImageValue("white", "none", 1))
Flat == [blend |-> "alpha", depth |-> "off", mask |-> FALSE]
Solid == [blend |-> "opaque", depth |-> "less", mask |-> TRUE]
Always(uniform) == Bind(uniform, NoValue)

PlainPipe ==
  [contract |-> {Image, Tint, Model}, program |-> "p", linked |-> TRUE, state |-> Flat, layout |-> "plain",
   uniforms |-> {Uniform("u_image", "image"), Uniform("u_tint", "scalar"), Uniform("u_model", "scalar")},
   bindings |-> [image |-> Always("u_image"), tint |-> Bind("u_tint", Scalar(0)), model |-> Always("u_model")]]
SolidPipe == [PlainPipe EXCEPT !.bindings["tint"].missing = Scalar(1), !.state = Solid]
MaskedPipe ==
  [contract |-> {Image, Mask, Model}, program |-> "q", linked |-> TRUE, state |-> Flat, layout |-> "plain",
   uniforms |-> {Uniform("u_image", "image"), Uniform("u_mask", "image")},
   bindings |-> [image |-> Always("u_image"), mask |-> Always("u_mask"), model |-> Always("u_model")]]
BrokenPipes ==
  {[PlainPipe EXCEPT !.bindings["tint"].missing = NoValue], [PlainPipe EXCEPT !.linked = FALSE],
   [PlainPipe EXCEPT !.bindings["image"].uniform = "u_tint"]}
MCCandidates == {PlainPipe, SolidPipe, MaskedPipe} \cup BrokenPipes

Geometry(layout, vertices, ours) == [layout |-> layout, vertices |-> vertices, ours |-> ours]
MCGeometries == {Geometry("plain", 6, TRUE), Geometry("plain", 3, FALSE), Geometry("coloured", 6, TRUE)}
MCImages ==
  [white |-> [ours |-> TRUE, mipmaps |-> FALSE], a |-> [ours |-> TRUE, mipmaps |-> TRUE],
   b |-> [ours |-> FALSE, mipmaps |-> TRUE]]

Style(material, sampling, draw, clip, first) ==
  [model |-> 7, material |-> material, sampling |-> sampling, draw |-> draw,
   clip |-> clip, first |-> first, count |-> 3]
NoValues == <<>>
WithImage(n, u) == [image |-> ImageValue(n, "none", u)]
WithMask(u) == [mask |-> ImageValue("a", "near", u)]
Mipmapped == [image |-> "mipmapped"]
ClipOf(l, t, r, b) == [left |-> l, top |-> t, right |-> r, bottom |-> b, width |-> 2, height |-> 3]
MCStyles ==
  {Style(WithImage("a", 0), Mipmapped, NoValues, NoPacket, 3),
   Style(WithImage("b", 0), NoValues, NoValues, NoPacket, 0),
   Style(WithImage("a", 1), NoValues, [tint |-> Scalar(5)], ClipOf(-1, 1, 1, 2), 0),
   Style(WithImage("a", 0), NoValues, WithMask(1), ClipOf(1, 1, 1, 3), 0),
   Style(NoValues, NoValues, NoValues, NoPacket, 0)}
MCPasses ==
  {[values |-> WithImage("a", 1), constraints |-> [blend |-> "alpha"]],
   [values |-> WithImage("white", 0), constraints |-> NoValues]}
MCFramebuffers == {[width |-> 3, height |-> 4], [width |-> 0, height |-> 0]}
Shown == [width |-> 3, height |-> 4]
--------------------
Init ==
  /\ part \in Parts
  /\ PreparationInit /\ AssetInit /\ CatalogueInit /\ TilesInit /\ DrawingInit
  /\ part # "tiles" => entry = FirstEntry
  /\ part # "drawing" => framebuffer = Shown

PreparationStep == part = "preparation" /\ PreparationNext
    /\ UNCHANGED <<part, assetVars, catalogueVars, tileVars, drawVars>>
LoadingStep == part = "loading" /\ AssetNext
    /\ UNCHANGED <<part, preparationVars, catalogueVars, tileVars, drawVars>>
CatalogueStep == part = "catalogue" /\ CatalogueNext
    /\ UNCHANGED <<part, preparationVars, assetVars, tileVars, drawVars>>
TilesStep == part = "tiles" /\ TilesNext
    /\ UNCHANGED <<part, preparationVars, assetVars, catalogueVars, drawVars>>
DrawingStep == part = "drawing" /\ DrawingNext
    /\ UNCHANGED <<part, preparationVars, assetVars, catalogueVars, tileVars>>

Next == PreparationStep \/ LoadingStep \/ CatalogueStep \/ TilesStep \/ DrawingStep

allVars == <<part, preparationVars, assetVars, catalogueVars, tileVars, drawVars>>

Spec == Init /\ [][Next]_allVars
--------------------
\* What is uploaded was prepared as one whole, whatever became of the files,
\* and what became of the upload is told as it was.
LoadedAsPrepared == PreparedIsConsistent /\ LoadingIsTrue
====================
