---- MODULE Preparation ----
\* Loader::prepare(): from a directory to a batch of assets that owns all
\* it needs.  Files are found once, indexes select documents, documents
\* are parsed and checked against each other, shader sources are copied
\* and images decoded.  Nothing locks the directory: any file may be
\* edited or deleted between two reads.  The batch has to be consistent in
\* itself, whatever the directory looks like by then.  JSON syntax and the
\* spelling of identifiers are one bit: a file may be of class "broken".
EXTENDS Integers, FiniteSets, SequencesExt

CONSTANTS Versions,     \* by path what the file may contain, also of class "gone" and "broken"
          Named,        \* by path what its name says: "index", "json", "png" or "other"
          Enclosed,     \* paths below a directory named graphics
          Original,     \* by path what it contains at first
          Selections,   \* sequences of indexes asked for; <<>> asks for all
          MaxInt,       \* the largest int
          MaxEdits      \* bound: edits of the directory

VARIABLES
    disk,       \* external: by path the content
    edits,      \* history: how many edits there were
    prep,       \* prepare_selected() and the Prepared it builds
    reads       \* history: the contents this preparation has read, in order

preparationVars == <<disk, edits, prep, reads>>

Paths == DOMAIN Versions
NoPreparation ==
  [at |-> "idle", asked |-> <<>>, files |-> {}, images |-> {}, indexes |-> <<>>, documents |-> <<>>, loaded |-> {},
   shaders |-> <<>>, assets |-> <<>>, sources |-> <<>>, bytes |-> <<>>, pixels |-> <<>>]

PreparationInit ==
  /\ disk = Original /\ edits = 0 /\ prep = NoPreparation /\ reads = <<>>
--------------------
\* shader-manifest-loader.cpp
Components == [vec2 |-> 2, vec3 |-> 3, vec4 |-> 4, mat4 |-> 16]
IsLiteral(value, type) ==
  CASE type = "float" -> value.is \in {"integer", "number"}
    [] type = "bool" -> value.is = "boolean"
    [] type = "int" -> value.is = "integer" /\ value.v \in (-MaxInt - 1)..MaxInt
    [] type = "uint" -> value.is = "integer" /\ value.v \in 0..(2 * MaxInt + 1)
    [] type = "sampler2d" -> FALSE
    [] OTHER -> value.is = "array" /\ value.v = Components[type]

IsSampler(m, key) == \E q \in m.parameters : q.key = key /\ q.type = "sampler2d"

ParameterAdmitted(q) == q.default.is # "none" => IsLiteral(q.default, q.type)

\* material() and validate_material(): the contract's keys differ, and every
\* default and every sampling policy is one for a parameter of its type.
MaterialAdmitted(m) ==
  /\ \A q, r \in m.parameters : q.key = r.key => q = r
  /\ \A q \in m.parameters : ParameterAdmitted(q)
  /\ \A key \in DOMAIN m.defaults : \E q \in m.parameters : q.key = key /\ IsLiteral(m.defaults[key], q.type)
  /\ \A key \in m.sampling : IsSampler(m, key)

Ids(records) == [i \in DOMAIN records |-> records[i].id]

\* parse_shader(): identities are unique, references stay in the directory.
ShaderAdmitted(d) ==
  /\ IsInjective(Ids(d.programs) \o Ids(d.materials)) /\ d.programs \o d.materials # <<>>
  /\ \A g \in ToSet(d.programs) : {g.vertex, g.fragment} \subseteq Enclosed
  /\ \A m \in ToSet(d.materials) : MaterialAdmitted(m)

\* manifest-loader.cpp: each entry has a texture, its own or the document's;
\* what else an entry has to satisfy is in Tiles.
TextureOf(e, d) == IF e.texture # "none" THEN e.texture ELSE d.texture
ShaderOf(e, d) == IF e.shader # "inherit" THEN e.shader ELSE d.shader
AssetsAdmitted(d) == \A e \in ToSet(d.entries) : TextureOf(e, d) \in Enclosed
ManifestEntries(d) ==
  [i \in DOMAIN d.entries |->
      LET e == d.entries[i] IN [e EXCEPT !.texture = TextureOf(e, d), !.shader = ShaderOf(e, d)]]
--------------------
\* The directory is anybody's.
Edit(p) ==
  /\ edits < MaxEdits /\ edits' = edits + 1
  /\ \E content \in Versions[p] \ {disk[p]} : disk' = [disk EXCEPT ![p] = content]
  /\ UNCHANGED <<prep, reads>>

Readable(p) == disk[p].class \notin {"gone", "broken"}
Read(p) == reads' = Append(reads, [path |-> p, content |-> disk[p]])
Failed == prep' = [NoPreparation EXCEPT !.at = "failed"]
Otherwise(ok, next) == IF ok THEN prep' = next ELSE Failed

\* discover_files() and prepare_file_registry(); files that appear later are
\* not part of the preparation.  "asked" is history.
Discovered(selection, images) ==
  LET there == {p \in Paths : disk[p].class # "gone"}
      indexes == SetToSeq({p \in there : Named[p] = "index"}) IN
  [NoPreparation EXCEPT !.at = "index", !.asked = selection,
       !.files = {p \in there : Named[p] # "png"},
       !.images = IF images THEN {p \in there : Named[p] = "png"} ELSE {},
       !.indexes = IF selection = <<>> THEN indexes ELSE selection]
\* Mutant: every image is taken, whatever was selected.
DiscoverImages(selection, all) ==
  /\ prep.at \in {"idle", "failed", "done"}
  /\ prep' = Discovered(selection, TRUE) /\ reads' = <<>>
  /\ UNCHANGED <<disk, edits>>

Discover(selection, all) ==
  /\ prep.at \in {"idle", "failed", "done"}
  /\ prep' = Discovered(selection, all) /\ reads' = <<>>
  /\ UNCHANGED <<disk, edits>>

\* read_index().
ReadIndex ==
  /\ prep.at = "index" /\ prep.documents = <<>> /\ prep.indexes # <<>>
  /\ LET p == Head(prep.indexes) IN
     IF p \in prep.files /\ Named[p] = "index"
     THEN /\ Read(p)
          /\ Otherwise(Readable(p) /\ p \in Enclosed,
                       [prep EXCEPT !.documents = disk[p].documents, !.indexes = Tail(@)])
     ELSE Failed /\ UNCHANGED reads
  /\ UNCHANGED <<disk, edits>>

\* registered_document() and the parser of its class; a document that
\* several references name is one document.
ReadDocument ==
  /\ prep.at = "index" /\ prep.documents # <<>>
  /\ LET p == Head(prep.documents)
         rest == [prep EXCEPT !.documents = Tail(@), !.loaded = @ \cup {p}]
         d == disk[p] IN
     IF p \notin Enclosed \cap prep.files \/ Named[p] # "json" THEN Failed /\ UNCHANGED reads
     ELSE IF p \in prep.loaded THEN prep' = rest /\ UNCHANGED reads
     ELSE /\ Read(p)
          /\ IF ~Readable(p) THEN Failed
             ELSE IF d.class = "shader"
             THEN Otherwise(ShaderAdmitted(d), [rest EXCEPT !.shaders = Append(@, d)])
             ELSE Otherwise(AssetsAdmitted(d), [rest EXCEPT !.assets = @ \o ManifestEntries(d)])
  /\ UNCHANGED <<disk, edits>>

Programs == FlattenSeq([i \in DOMAIN prep.shaders |-> prep.shaders[i].programs])
Materials == FlattenSeq([i \in DOMAIN prep.shaders |-> prep.shaders[i].materials])
SourcesOf(g) == {g.vertex, g.fragment}

\* validate_shader_definitions(): identities are unique in the batch, what
\* is referred to was selected, and a sprite's shader draws its geometry.
ShadersAgree ==
  /\ IsInjective(Ids(Programs) \o Ids(Materials))
  /\ \A m \in ToSet(Materials) : \E g \in ToSet(Programs) : g.id = m.program
  /\ \A e \in ToSet(prep.assets) :
       e.shader # "none" => \E m \in ToSet(Materials) : m.id = e.shader /\ m.strip
Check ==
  /\ prep.at = "index" /\ prep.documents = <<>> /\ prep.indexes = <<>>
  /\ Otherwise(ShadersAgree,
         [prep EXCEPT !.at = "sources", !.bytes = [i \in DOMAIN Programs |-> <<>>],
                      !.sources = FlattenSeq([i \in DOMAIN Programs |->
                                      <<<<i, Programs[i].vertex>>, <<i, Programs[i].fragment>>>>])])
  /\ UNCHANGED <<disk, edits, reads>>

\* Mutant: each program reads its sources itself.
KnownBytesNever(p) == {}

\* What an earlier program has read of a source.
KnownBytes(p) == {prep.bytes[i][p] : i \in {j \in DOMAIN prep.bytes : p \in DOMAIN prep.bytes[j]}}

\* snapshot_shader_sources(), one source of one program.
Snapshot ==
  /\ prep.at = "sources" /\ prep.sources # <<>>
  /\ LET i == Head(prep.sources)[1]
         p == Head(prep.sources)[2]
         rest == [prep EXCEPT !.sources = Tail(@)]
         with(b) == [rest EXCEPT !.bytes[i] = [q \in DOMAIN @ \cup {p} |-> IF q = p THEN b ELSE @[q]]] IN
     IF p \notin prep.files THEN Failed /\ UNCHANGED reads
     ELSE IF KnownBytes(p) # {} THEN prep' = with(CHOOSE b \in KnownBytes(p) : TRUE) /\ UNCHANGED reads
     ELSE Read(p) /\ Otherwise(disk[p].class # "gone", with(disk[p]))
  /\ UNCHANGED <<disk, edits>>

\* Identities of sprites and tilesets are unique as well; the images that
\* are decoded are theirs and, for a whole directory, all that were found.
SelectImages ==
  /\ prep.at = "sources" /\ prep.sources = <<>>
  /\ Otherwise(IsInjective(Ids(prep.assets)),
         [prep EXCEPT !.at = "images", !.images = @ \cup {e.texture : e \in ToSet(prep.assets)}])
  /\ UNCHANGED <<disk, edits, reads>>
Decode ==
  /\ prep.at = "images" /\ prep.images \ DOMAIN prep.pixels # {}
  /\ LET p == Head(SetToSeq(prep.images \ DOMAIN prep.pixels)) IN
     /\ Read(p)
     /\ Otherwise(Readable(p) /\ disk[p].class = "image",
            [prep EXCEPT !.pixels = [q \in DOMAIN @ \cup {p} |-> IF q = p THEN disk[p] ELSE @[q]]])
  /\ UNCHANGED <<disk, edits>>

\* Mutant: the file is asked for its size again.
WithinFile(e) == Readable(e.texture) /\ e.right <= disk[e.texture].width /\ e.bottom <= disk[e.texture].height

\* validate_grid_bounds(), against the pixels that will be uploaded.
Within(e) == e.right <= prep.pixels[e.texture].width /\ e.bottom <= prep.pixels[e.texture].height
Finish ==
  /\ prep.at = "images" /\ prep.images \ DOMAIN prep.pixels = {}
  /\ Otherwise(\A e \in ToSet(prep.assets) : Within(e), [prep EXCEPT !.at = "done"])
  /\ UNCHANGED <<disk, edits, reads>>

PreparationNext ==
  \/ \E p \in Paths : Edit(p)
  \/ \E selection \in Selections, all \in BOOLEAN : (selection = <<>> <=> all) /\ Discover(selection, all)
  \/ ReadIndex \/ ReadDocument \/ Check \/ Snapshot \/ SelectImages \/ Decode \/ Finish

PreparationSpec == PreparationInit /\ [][PreparationNext]_preparationVars
--------------------
\* A prepared batch can be uploaded as it is, whatever becomes of its files:
\* all that its parts refer to is in it, grids lie in the pixels it owns,
\* programs that name one source were given one and the same text.  It was
\* made from one version of each file, indexes excepted, and only of what
\* was asked for: the indexes selected, documents that an index lists as it
\* was read, their sources and textures; of a whole directory any image.
PreparedIsConsistent ==
  prep.at = "done" =>
      /\ \A m \in ToSet(Materials) : \E g \in ToSet(Programs) : g.id = m.program
      /\ \A i \in DOMAIN Programs : DOMAIN prep.bytes[i] = SourcesOf(Programs[i])
      /\ \A i, j \in DOMAIN Programs :
           \A p \in SourcesOf(Programs[i]) \cap SourcesOf(Programs[j]) : prep.bytes[i][p] = prep.bytes[j][p]
      /\ \A e \in ToSet(prep.assets) :
           /\ e.texture \in DOMAIN prep.pixels
           /\ e.right <= prep.pixels[e.texture].width /\ e.bottom <= prep.pixels[e.texture].height
           /\ e.shader # "none" => \E i \in DOMAIN Materials : Materials[i].id = e.shader
      /\ \A i, k \in DOMAIN reads : (reads[i].path = reads[k].path /\ Named[reads[i].path] # "index") => i = k
      /\ \A i \in DOMAIN reads : LET p == reads[i].path IN
           \/ Named[p] = "index" /\ (prep.asked = <<>> \/ Contains(prep.asked, p))
           \/ \E j \in 1..i - 1 : Named[reads[j].path] = "index" /\ Contains(reads[j].content.documents, p)
           \/ \E g \in ToSet(Programs) : p \in SourcesOf(g)
           \/ \E e \in ToSet(prep.assets) : p = e.texture
           \/ prep.asked = <<>> /\ Named[p] = "png"
====================
