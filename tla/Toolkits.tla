---- MODULE Toolkits ----
\* What a UI toolkit and the engine do for each other.  First what crosses
\* the border once: recordings of what widgets and documents draw
\* (rendering.cpp of both modules), the fonts RmlUi knows by name and the
\* time that moves both toolkits' animations (session.cpp of both), and
\* the sizes that TGUI's layouts manage; one task per behaviour: tool.
\* Rectangles are intervals, of one axis.  Then the sessions: sharing one
\* keyboard focus and one tick of input, and uploading the scenes they
\* record (session.cpp and scene.cpp of both).
\*
\* One simulation owner makes every call; between two records of a batch
\* of input it is in the application's before_record, which may change
\* focus or views.  The toolkits are external: what they draw, load and
\* throw are choices.  Which widget of its own a toolkit has focused, with
\* clicks and keys or none, is left out, as is that release blurs it: a
\* widget gets the keys its session is given and no others.
EXTENDS Integers, Sequences, FiniteSets, SequencesExt, FiniteSetsExt

CONSTANTS TargetViews,    \* views of a target: an interval and its place
          Rects, Scissors, Atlases, Pictures,   \* clips, textures of widgets, of documents
          MaxDraws, MaxLayers, MaxHandles, MaxShapes, MaxLoads,      \* bounds
          TextFonts,      \* Engine fonts: a reference, and faces
          Lowered,        \* the lower case of each family name
          OwnFamilies,       \* family names the application gives itself
          MaxFallbacks,   \* bound on families made for fallbacks
          Clocks, MaxDelta, MaxSteps, MaxFollows,   \* sessions that keep time
          Addresses, Fractions, ParentSizes, MaxWidgets   \* widgets and their sizes

VARIABLES tool,     \* the task: widgets, documents, names, time or sizes
          target,   \* RenderTarget: what is being recorded
          wanted,   \* history: the draws asked for since it began
          sketch,   \* the RecordedScene of the last recording, or none
          names,    \* RmlUi: engine_fonts, the faces it has loaded; history: "behind", what
                    \* each load_fallbacks() that returned had chosen
          services, \* RuntimeServices: its owners, step and attachments
          clock,    \* each session: its attachment and the time it has seen
          widgets   \* TGUI: widgets at their addresses, and managed_sizes
toolkitVars == <<tool, target, wanted, sketch, names, services, clock, widgets>>

NoFont == [reference |-> "", faces |-> <<>>]
recordVars == <<target, wanted, sketch>>
NoneRecorded == [of |-> "none", draws |-> <<>>]

Meet(a, b) == LET l == Max({a.l, b.l}) IN [l |-> l, r |-> Max({l, Min({a.r, b.r})})]
Hollow(rect) == rect.l = rect.r

--------------------
\* Recording of either kind.  The draws of a recording end as a scene or
\* with nothing of them left.

TargetInit ==
  [configured |-> FALSE, on |-> FALSE, view |-> [l |-> 0, r |-> 0, at |-> 0, scale |-> 1], draws |-> <<>>,
   layers |-> <<>>, clip |-> [l |-> 0, r |-> 0], scissoring |-> FALSE, refused |-> FALSE,
   images |-> <<>>, shapes |-> <<>>, nextImage |-> 1, nextShape |-> 1]

Recorded(draw) == Append(target.draws, draw)
Asked(draw) == IF Hollow(draw.clip) THEN wanted.draws ELSE Append(wanted.draws, draw)

\* TGUI clips in view space and maps each edge of the result once.
Viewport(v) == [l |-> v.at, r |-> v.at + v.scale * (v.r - v.l)]
Placed(v, rect) ==
  IF Hollow(rect) THEN [l |-> 0, r |-> 0]
  ELSE [l |-> v.at + v.scale * (rect.l - v.l), r |-> v.at + v.scale * (rect.r - v.l)]
Drawable(v) == v.l < v.r

SetView(v) ==
  /\ ~target.on
  /\ target' = [target EXCEPT !.configured = TRUE, !.view = v, !.clip = Viewport(v)]
  /\ UNCHANGED <<wanted, sketch>>

BeginRecording ==
  /\ target.configured /\ ~target.on
  /\ target' = [target EXCEPT !.on = TRUE, !.draws = <<>>, !.clip = Viewport(target.view)]
  /\ wanted' = [wanted EXCEPT !.layers = <<>>, !.draws = <<>>] /\ sketch' = NoneRecorded

\* The toolkit's own stack holds each layer as it meets the one below.
Below(layers) == IF layers = <<>> THEN [l |-> target.view.l, r |-> target.view.r] ELSE Last(layers)
AddClippingLayer(rect) ==
  /\ target.on /\ Drawable(target.view) /\ Len(target.layers) < MaxLayers
  /\ LET layer == Meet(rect, Below(target.layers))
     IN  target' = [target EXCEPT !.layers = Append(@, layer), !.clip = Placed(target.view, layer)]
  /\ wanted' = [wanted EXCEPT !.layers = Append(@, rect)] /\ UNCHANGED sketch
RestoredClipToView(layers) == Viewport(target.view)
RestoredClip(layers) == Placed(target.view, Below(layers))
RemoveClippingLayer ==
  /\ target.on /\ target.layers # <<>>
  /\ target' = [target EXCEPT !.layers = Front(@), !.clip = RestoredClip(Front(target.layers))]
  /\ wanted' = [wanted EXCEPT !.layers = Front(@)] /\ UNCHANGED sketch

\* Every open layer narrows a draw, whatever was opened and closed before.
Within(v, layers) ==
  Placed(v, FoldLeft(LAMBDA clip, rect : Meet(rect, clip), [l |-> v.l, r |-> v.r], layers))

\* A texture is loaded anew as an atlas grows: what was drawn with it keeps
\* the pixels it had.
LoadTexture(t) ==
  /\ (IF t \in DOMAIN target.images THEN target.images[t].load ELSE 0) < MaxLoads
  /\ LET load == IF t \in DOMAIN target.images THEN target.images[t].load + 1 ELSE 1
     IN  target' = [target EXCEPT !.images = (t :> [image |-> t, load |-> load]) @@ @]
  /\ UNCHANGED <<wanted, sketch>>
DrawVertexArray(t) ==
  /\ target.on /\ Drawable(target.view) /\ t \in DOMAIN target.images /\ Len(target.draws) < MaxDraws
  /\ LET image == target.images[t]
     IN  /\ target' = IF Hollow(target.clip) THEN target
                      ELSE [target EXCEPT !.draws = Recorded([image |-> image, clip |-> target.clip])]
         /\ wanted' = [wanted EXCEPT !.draws = Asked([image |-> image, clip |-> Within(target.view, wanted.layers)])]
  /\ UNCHANGED sketch

\* drawGui() and record(): whatever throws, a layer left open included,
\* discards the recording.
DiscardedDraws == [target EXCEPT !.on = FALSE, !.draws = <<>>]
Discarded == [target EXCEPT !.on = FALSE, !.draws = <<>>, !.layers = <<>>, !.clip = Viewport(target.view)]
FinishRecording ==
  /\ target.on /\ wanted' = [wanted EXCEPT !.layers = <<>>]
  /\ IF target.layers = <<>>
     THEN /\ sketch' = [of |-> "widgets", draws |-> target.draws]
          /\ target' = [target EXCEPT !.on = FALSE, !.draws = <<>>]
     ELSE sketch' = NoneRecorded /\ target' = Discarded
WidgetThrows ==
  /\ target.on /\ target' = Discarded /\ sketch' = NoneRecorded
  /\ wanted' = [wanted EXCEPT !.layers = <<>>, !.draws = <<>>]

WidgetsNext ==
  \/ \E v \in TargetViews : SetView(v)
  \/ BeginRecording
  \/ \E rect \in Rects : AddClippingLayer(rect)
  \/ RemoveClippingLayer
  \/ \E t \in Atlases : LoadTexture(t) \/ DrawVertexArray(t)
  \/ FinishRecording
  \/ WidgetThrows

--------------------
\* RmlUi compiles geometry and textures into handles that are never given
\* twice, draws within one scissor, and refuses for good what it cannot do.
Whole == [l |-> 0, r |-> target.view.r]
SetDocumentView(v) ==
  /\ ~target.on
  /\ target' = [target EXCEPT !.configured = TRUE, !.view = v]
  /\ UNCHANGED <<wanted, sketch>>
BeginDocument ==
  /\ target.configured /\ ~target.on /\ ~target.refused
  /\ target' = [target EXCEPT !.on = TRUE, !.draws = <<>>, !.clip = Whole, !.scissoring = FALSE]
  /\ wanted' = [wanted EXCEPT !.draws = <<>>, !.scissor = FALSE] /\ sketch' = NoneRecorded

NextHandleWraps(n, most) == IF n = most THEN 1 ELSE n + 1
NextHandle(n, most) == IF n = most THEN 0 ELSE n + 1
Emplace(table, handle, value) == table @@ (handle :> value)
GenerateTexture(image) ==
  /\ target.nextImage # 0
  /\ target' = [target EXCEPT !.images = Emplace(@, target.nextImage, image), !.nextImage = NextHandle(@, MaxHandles)]
  /\ wanted' = [wanted EXCEPT !.meant = (target.nextImage :> image) @@ @] /\ UNCHANGED sketch
ReleaseTexture(handle) ==
  /\ handle \in DOMAIN target.images
  /\ target' = [target EXCEPT !.images = Restrict(@, DOMAIN @ \ {handle})]
  /\ UNCHANGED <<wanted, sketch>>
CompileGeometry(shape) ==
  /\ target.nextShape # 0
  /\ target' = [target EXCEPT !.shapes = Emplace(@, target.nextShape, shape), !.nextShape = NextHandle(@, MaxShapes)]
  /\ UNCHANGED <<wanted, sketch>>
ReleaseGeometry(handle) ==
  /\ handle \in DOMAIN target.shapes
  /\ target' = [target EXCEPT !.shapes = Restrict(@, DOMAIN @ \ {handle})]
  /\ UNCHANGED <<wanted, sketch>>
SetScissorRegion(rect) ==
  /\ target.clip # rect
  /\ target' = [target EXCEPT !.clip = rect] /\ UNCHANGED <<wanted, sketch>>
EnableScissorRegion(enable) ==
  /\ target.scissoring # enable
  /\ target' = [target EXCEPT !.scissoring = enable]
  /\ wanted' = [wanted EXCEPT !.scissor = enable] /\ UNCHANGED sketch
RenderGeometry(shape, handle) ==
  /\ target.on /\ shape \in DOMAIN target.shapes /\ handle \in DOMAIN target.images
  /\ Len(target.draws) < MaxDraws
  /\ LET clip == IF target.scissoring THEN Meet(target.clip, Whole) ELSE Whole
         image == target.images[handle]
     IN  target' = IF Hollow(clip) THEN target
                   ELSE [target EXCEPT !.draws = Recorded([image |-> image, clip |-> clip])]
  /\ wanted' = [wanted EXCEPT !.draws =
         Asked([image |-> wanted.meant[handle], clip |-> IF wanted.scissor THEN Meet(Whole, target.clip) ELSE Whole])]
  /\ UNCHANGED sketch
Reject ==
  /\ ~target.refused /\ target' = [target EXCEPT !.refused = TRUE]
  /\ UNCHANGED <<wanted, sketch>>
FinishDocument ==
  /\ target.on /\ UNCHANGED wanted
  /\ target' = [target EXCEPT !.on = FALSE, !.draws = <<>>]
  /\ sketch' = IF target.refused THEN NoneRecorded ELSE [of |-> "documents", draws |-> target.draws]
DocumentThrows ==
  /\ target.on /\ target' = DiscardedDraws /\ sketch' = NoneRecorded
  /\ wanted' = [wanted EXCEPT !.draws = <<>>]

DocumentsNext ==
  \/ \E v \in TargetViews : SetDocumentView(v)
  \/ BeginDocument \/ Reject \/ FinishDocument \/ DocumentThrows
  \/ \E image \in Pictures : GenerateTexture(image)
  \/ CompileGeometry("triangles")
  \/ \E handle \in DOMAIN target.images : ReleaseTexture(handle)
  \/ \E handle \in DOMAIN target.shapes : ReleaseGeometry(handle)
  \/ \E rect \in Scissors : SetScissorRegion(rect)
  \/ \E enable \in BOOLEAN : EnableScissorRegion(enable)
  \/ \E shape \in DOMAIN target.shapes, handle \in DOMAIN target.images : RenderGeometry(shape, handle)

\* A scene is every draw asked of its recording, in order, with the image
\* it had then and inside everything that clipped it then; and one that was
\* abandoned leaves nothing to the next.
ScenesAreAsDrawn ==
  tool \in {"widgets", "documents"} =>
      /\ target.on => target.draws = wanted.draws
      /\ ~target.on /\ sketch # NoneRecorded => sketch.draws = wanted.draws
      /\ ~target.on => target.draws = <<>> /\ target.layers = <<>>

--------------------
\* Names: RmlUi knows faces by a family's name, whatever its case; each name
\* belongs to one Engine font, to the application or to a fallback.
NamesInit == [open |-> FALSE, fonts |-> <<>>, loaded |-> {}, made |-> 0, fallbacks |-> FALSE, behind |-> {}]
Owned(owner, source, complete) == [owner |-> owner, source |-> source, complete |-> complete]
FallbackName == [k \in 0 .. MaxFallbacks |-> Append(<<"fallback">>, k)]

\* reserve_font(): one reference, in one spelling, with one set of faces.
Conflicts(n, font) ==
  LET family == Lowered[font.reference]
  IN  family \in DOMAIN n.fonts /\ n.fonts[family] \notin {Owned("engine", font, c) : c \in BOOLEAN}
Reserve(n, font) ==
  [n EXCEPT !.fonts = @ @@ (Lowered[font.reference] :> Owned("engine", font, FALSE))]

\* load_faces(): a slant that no face has is drawn with the faces there are.
LoadsOf(font, family, faces) ==
  LET lacks(italic) == \A i \in ToSet(faces) : font.faces[i].italic # italic
      load(i, italic) == [family |-> family, italic |-> italic, of |-> font, face |-> i]
  IN  FlattenSeq([k \in DOMAIN faces |->
          <<load(faces[k], font.faces[faces[k]].italic)>>
          \o (IF lacks(FALSE) THEN <<load(faces[k], FALSE)>> ELSE <<>>)
          \o (IF lacks(TRUE) THEN <<load(faces[k], TRUE)>> ELSE <<>>)])
\* left counts the loads that succeed before the toolkit refuses one.
LoadFamilyFaces(a, font, family, faces) ==
  LET loads == LoadsOf(font, family, faces)
      done == Min({a.left, Len(loads)})
  IN  [n |-> [a.n EXCEPT !.loaded = @ \cup ToSet(SubSeq(loads, 1, done))],
       left |-> a.left - done, ok |-> a.ok /\ done = Len(loads)]

PrimaryFaces(font) == SelectSeq([i \in DOMAIN font.faces |-> i], LAMBDA i : ~font.faces[i].fallback)
FallbackFaces(font) ==
  SelectSeq([i \in DOMAIN font.faces |-> i], LAMBDA i : font.faces[i].fallback \/ font.faces[i].builtin)

FontFamily(a, font) ==
  LET n == Reserve(a.n, font)  family == Lowered[font.reference]
      done == LoadFamilyFaces([a EXCEPT !.n = n], font, family, PrimaryFaces(font))
  IN  IF ~a.ok \/ n.fonts[family].complete THEN [a EXCEPT !.n = n]
      ELSE IF done.ok THEN [done EXCEPT !.n.fonts[family].complete = TRUE] ELSE done

\* load_fallbacks(): each run of faces of one family gets a name of its own.
NextFallback(n) == n.made
FreeFallback(n) == Min({k \in n.made .. MaxFallbacks : FallbackName[k] \notin DOMAIN n.fonts})
MadeFamily(n, font) ==
  LET k == FreeFallback(n)
  IN  [n EXCEPT !.fonts = @ @@ (FallbackName[k] :> Owned("fallback", font, FALSE)), !.made = k + 1]
RunsOf(font, faces) ==
  LET starts == {k \in DOMAIN faces : k = 1 \/ font.faces[faces[k]].family # font.faces[faces[k - 1]].family}
  IN  [r \in 1 .. Cardinality(starts) |->
          LET first == CHOOSE k \in starts : Cardinality({j \in starts : j < k}) = r - 1
          IN  SelectSeq(faces, LAMBDA i : \E k \in DOMAIN faces :
                  faces[k] = i /\ k >= first /\ \A j \in starts : j > first => k < j)]
LoadRuns(a, font, runs) ==
  FoldLeft(LAMBDA b, run :
      IF ~b.ok THEN b
      ELSE LET n == MadeFamily(b.n, font)
           IN  LoadFamilyFaces([b EXCEPT !.n = n], font, FallbackName[n.made - 1], run), a, runs)
Brought(a, font, faces) ==
  [a EXCEPT !.n.fallbacks = TRUE, !.n.behind = @ \cup {[of |-> font, faces |-> ToSet(faces)]}]

\* Mutant: the run in hand at the end is forgotten.
LoadFallbacksUnflushed(a, font, faces) ==
  LET runs == RunsOf(font, faces)
  IN  Brought(LoadRuns(a, font, IF runs = <<>> THEN runs ELSE Front(runs)), font, faces)

LoadFallbacks(a, font, faces) ==
  LET done == LoadRuns(a, font, RunsOf(font, faces))
  IN  IF done.ok THEN Brought(done, font, faces) ELSE done

\* Session::font_family(): the first font asked for brings its fallbacks.
NativeFamily(a, font) ==
  LET reserved == [a EXCEPT !.n = Reserve(@, font)]
      ready == IF a.n.fallbacks \/ ~a.ok THEN reserved
               ELSE LoadFallbacks(reserved, font, FallbackFaces(font))
  IN  IF ready.ok THEN FontFamily(ready, font) ELSE ready

\* A session opens with a whole catalogue or not at all.
OpenNames(catalogue, fallbacks) ==
  /\ ~names.open
  /\ LET start == [n |-> [NamesInit EXCEPT !.open = TRUE], left |-> 99, ok |-> TRUE]
         reserved == FoldLeft(LAMBDA a, f : [a EXCEPT !.ok = @ /\ ~Conflicts(a.n, f), !.n = Reserve(@, f)],
                              start, catalogue)
         behind == FoldLeft(LAMBDA a, f : LoadFallbacks(a, f, PrimaryFaces(f)), reserved, fallbacks)
         all == FoldLeft(LAMBDA a, f : FontFamily(a, f), behind, catalogue)
         done == IF catalogue = <<>> THEN all ELSE NativeFamily(all, catalogue[1])
     IN  done.ok /\ names' = done.n
RequestFamily(font, left) ==
  /\ names.open /\ ~Conflicts(names, font) /\ names.made + Len(font.faces) <= MaxFallbacks
  /\ names' = NativeFamily([n |-> names, left |-> left, ok |-> TRUE], font).n
LoadExplicit(family, loads) ==
  /\ names.open
  /\ family \in DOMAIN names.fonts => names.fonts[family].owner = "explicit"
  /\ names' = [names EXCEPT
         !.fonts = @ @@ (family :> Owned("explicit", NoFont, FALSE)),
         !.loaded = IF loads THEN @ \cup {[family |-> family, italic |-> FALSE, of |-> NoFont, face |-> 0]} ELSE @]

NamesNext ==
  \/ \E c \in SeqOf(TextFonts, 2), f \in SeqOf(TextFonts, 1) : OpenNames(c, f)
  \/ \E font \in TextFonts, left \in 0 .. 4 : RequestFamily(font, left)
  \/ \E family \in OwnFamilies, loads \in BOOLEAN : LoadExplicit(family, loads)

\* A name stands for the faces of one font or of the application alone, a
\* fallback's for those of one family; a font that is complete draws both
\* slants with every face it chose and has fallbacks behind it; and of what
\* is behind it each face chosen is there, whatever was refused before.
NamesAreOneFonts ==
  LET owner(x) == names.fonts[x.family].owner IN
  /\ \A x \in names.loaded :
      x.family \in DOMAIN names.fonts /\ names.fonts[x.family].source = x.of
  /\ \A x, y \in names.loaded :
      x.family = y.family /\ owner(x) = "fallback" => x.of.faces[x.face].family = y.of.faces[y.face].family
  /\ \A family \in DOMAIN names.fonts :
      LET reg == names.fonts[family]
          has(i, italic) == [family |-> family, italic |-> italic, of |-> reg.source, face |-> i] \in names.loaded
      IN  reg.owner = "engine" /\ reg.complete =>
              /\ \A i \in DOMAIN reg.source.faces :
                  ~reg.source.faces[i].fallback => has(i, reg.source.faces[i].italic)
              /\ \A italic \in BOOLEAN : \E i \in DOMAIN reg.source.faces : has(i, italic)
              /\ names.behind # {}
  /\ \A b \in names.behind : \A i \in b.faces :
      \E x \in names.loaded : owner(x) = "fallback" /\ x.of = b.of /\ x.face = i

--------------------
\* Time: a step is published to the attachments there were when it began;
\* a callback may attach, detach or advance by hand meanwhile.  elapsed is
\* what a session has seen since the last step began.
NoAttachment == 0
ClockInit == [open |-> TRUE, attached |-> NoAttachment, elapsed |-> 0, was |-> NoAttachment, byHand |-> 0]
ServicesInit ==
  [bound |-> FALSE, closed |-> FALSE, step |-> 0, delta |-> 0, publishing |-> FALSE,
   nodes |-> <<>>, todo |-> <<>>, next |-> 1]
IsOwner == services.bound /\ ~services.closed

BindSimulation ==
  /\ ~services.bound /\ ~services.closed
  /\ services' = [services EXCEPT !.bound = TRUE] /\ UNCHANGED clock
\* The new attachment is made before the old one is let go.
FollowTime(c) ==
  /\ clock[c].open /\ IsOwner /\ services.next <= MaxFollows
  /\ services' = [services EXCEPT !.nodes = Append(@, services.next), !.next = @ + 1]
  /\ clock' = [clock EXCEPT ![c].attached = services.next]
DetachTime(c) ==
  /\ clock[c].open /\ clock[c].attached # NoAttachment
  /\ clock' = [clock EXCEPT ![c].attached = NoAttachment] /\ UNCHANGED services
UpdateTime(c, delta) ==
  /\ clock[c].open /\ clock[c].byHand + delta <= MaxDelta
  /\ clock[c].attached = NoAttachment \/ services.closed
  /\ clock' = [clock EXCEPT ![c].elapsed = @ + delta, ![c].byHand = @ + delta]
  /\ UNCHANGED services
CloseSession(c) ==
  /\ clock[c].open
  /\ clock' = [clock EXCEPT ![c].open = FALSE, ![c].attached = NoAttachment] /\ UNCHANGED services

LiveNodes == SelectSeq(services.nodes, LAMBDA n : \E c \in Clocks : clock[c].attached = n)
BeginStep(delta) ==
  /\ IsOwner /\ ~services.publishing /\ services.step < MaxSteps
  /\ services' = [services EXCEPT !.step = @ + 1, !.delta = delta, !.publishing = TRUE,
                                  !.todo = services.nodes]
  /\ clock' = [c \in Clocks |-> [clock[c] EXCEPT !.was = clock[c].attached, !.elapsed = 0, !.byHand = 0]]
FollowingLive(todo) == Tail(todo) \o SelectSeq(services.nodes, LAMBDA n : n > services.todo[Len(services.todo)])
Following(todo) == Tail(todo)
EnterNext ==
  /\ services.publishing /\ services.todo # <<>>
  /\ services' = [services EXCEPT !.todo = Following(@)]
  /\ clock' = [c \in Clocks |->
                  IF clock[c].attached = Head(services.todo) /\ ~services.closed
                  THEN [clock[c] EXCEPT !.elapsed = @ + services.delta] ELSE clock[c]]
EndStep ==
  /\ services.publishing /\ services.todo = <<>>
  /\ services' = [services EXCEPT !.publishing = FALSE, !.nodes = LiveNodes] /\ UNCHANGED clock
CloseServices ==
  /\ ~services.closed /\ ~services.publishing
  /\ services' = [services EXCEPT !.closed = TRUE, !.nodes = <<>>] /\ UNCHANGED clock

TimeNext ==
  \/ BindSimulation \/ EnterNext \/ EndStep \/ CloseServices
  \/ \E delta \in 1 .. MaxDelta : BeginStep(delta)
  \/ \E c \in Clocks :
      \/ FollowTime(c) \/ DetachTime(c) \/ CloseSession(c)
      \/ \E delta \in 1 .. MaxDelta : UpdateTime(c, delta)

\* A session that follows a step from beginning to end has its time once; no
\* session has more of it, and none that did not follow as it began has any.
StepsAreCountedOnce ==
  \A c \in Clocks :
      LET gained == clock[c].elapsed - clock[c].byHand
      IN  services.step > 0 /\ services.bound =>
          /\ gained \in {0, services.delta}
          /\ clock[c].was = NoAttachment => gained = 0
          /\ clock[c].was # NoAttachment /\ clock[c].attached = clock[c].was /\ ~services.publishing => gained = services.delta

--------------------
\* Sizes: an axis that a layout scales follows the parent; one it releases
\* stays as large as it is; what the application sizes is its own.
Axes == {"w", "h"}
Fixed(v) == [is |-> "fixed", v |-> v]
Scaled(f, least) == [is |-> "scaled", f |-> f, least |-> least]
Native(f) == [is |-> "native", f |-> f]
Size(layout, parent) ==
  IF layout.is = "fixed" THEN layout.v
  ELSE IF layout.is = "native" THEN layout.f * parent
  ELSE Max({layout.least, layout.f * parent})
NoWidget == [id |-> 0]
SizesInit == [at |-> [a \in Addresses |-> NoWidget], made |-> 0, parent |-> 1, managed |-> <<>>]
Living == {a \in Addresses : widgets.at[a] # NoWidget}

CreateWidget(a, f) ==
  /\ a \notin Living /\ widgets.made < MaxWidgets
  /\ LET own == [x \in Axes |-> Native(f)]
     IN  widgets' = [widgets EXCEPT !.made = @ + 1,
                         !.at[a] = [id |-> widgets.made + 1, layout |-> own, due |-> own, scaled |-> {}]]
DestroyWidget(a) ==
  /\ a \in Living /\ widgets' = [widgets EXCEPT !.at[a] = NoWidget]
ResizeParent(v) == v # widgets.parent /\ widgets' = [widgets EXCEPT !.parent = v]

\* Entries of widgets that are gone are dropped before theirs is looked up,
\* as a new widget may live where one of them did.
Unpruned(managed) == managed
Unexpired(managed) ==
  Restrict(managed, {a \in DOMAIN managed : a \in Living /\ widgets.at[a].id = managed[a].id})
SetLayout(a, scale) ==
  /\ a \in Living
  /\ LET managed == Unexpired(widgets.managed)
         had == IF a \in DOMAIN managed THEN managed[a].axes ELSE {}
         widget == widgets.at[a]
         frozen(x) == Fixed(Size(widget.layout[x], widgets.parent))
         layout == [x \in Axes |-> IF x \in DOMAIN scale THEN scale[x]
                                   ELSE IF x \in had THEN frozen(x) ELSE widget.layout[x]]
         due == [x \in Axes |-> IF x \in DOMAIN scale THEN scale[x]
                                ELSE IF x \in widget.scaled THEN frozen(x) ELSE widget.due[x]]
     IN  widgets' = [widgets EXCEPT
             !.at[a] = [widget EXCEPT !.layout = layout, !.due = due, !.scaled = DOMAIN scale],
             !.managed = IF DOMAIN scale = {} THEN Restrict(managed, DOMAIN managed \ {a})
                         ELSE (a :> [id |-> widget.id, axes |-> DOMAIN scale]) @@ managed]

SizesNext ==
  \/ \E a \in Addresses, f \in Fractions : CreateWidget(a, f)
  \/ \E a \in Addresses : DestroyWidget(a)
  \/ \E v \in ParentSizes : ResizeParent(v)
  \/ \E a \in Addresses, axes \in SUBSET Axes, f \in Fractions, least \in {0, 3} :
      SetLayout(a, [x \in axes |-> Scaled(f, least)])

SizesAreTheirOwn == \A a \in Living : widgets.at[a].layout = widgets.at[a].due

--------------------
ToolkitsInit ==
  /\ tool \in {"widgets", "documents", "names", "time", "sizes"}
  /\ target = TargetInit /\ sketch = NoneRecorded
  /\ wanted = [layers |-> <<>>, draws |-> <<>>, scissor |-> FALSE, meant |-> <<>>]
  /\ names = NamesInit /\ services = ServicesInit /\ clock = [c \in Clocks |-> ClockInit]
  /\ widgets = SizesInit

ToolkitsNext ==
  /\ UNCHANGED tool
  /\ \/ tool = "widgets" /\ WidgetsNext /\ UNCHANGED <<names, services, clock, widgets>>
     \/ tool = "documents" /\ DocumentsNext /\ UNCHANGED <<names, services, clock, widgets>>
     \/ tool = "names" /\ NamesNext /\ UNCHANGED <<recordVars, services, clock, widgets>>
     \/ tool = "time" /\ TimeNext /\ UNCHANGED <<recordVars, names, widgets>>
     \/ tool = "sizes" /\ SizesNext /\ UNCHANGED <<recordVars, names, services, clock>>

\* What a toolkit is lent is what it was lent: a scene, a family, a step and
\* a size are each the one that was asked for.
ToolkitsAreServed == ScenesAreAsDrawn /\ NamesAreOneFonts /\ StepsAreCountedOnce /\ SizesAreTheirOwn

--------------------
\* Sessions: input, focus and scenes, by the target that a session routes to.

CONSTANTS Sessions,
          Rml,               \* the RmlUi sessions among them; the others are TGUI's
          MaxEpoch, MaxPolled, BatchSize,   \* bounds
          Textures, MaxImages                \* decoded images, bound on uploads

VARIABLES route,    \* Routing::Manager: the published request, and the next epoch
          ui,       \* each session's State
          batch,    \* the tick's records, and the sessions yet to handle it; history: those that broke off
          handling, \* the session in handle_input(), its entry epoch and place
          got,      \* history: key records each toolkit was given
          drained,  \* history: route.next when each session last drained a batch
          polled,   \* history: the records polled so far
          uploader, \* SceneUploader::State::images: texture -> image
          scene,    \* the submitted scene: its textures, its images or a failure
          shown,    \* the scene the application adopted
          decoded   \* the decoded images still alive
sessionVars == <<route, ui, batch, handling, got, drained, polled>>
sceneVars == <<uploader, scene, shown, decoded>>

Nobody == [epoch |-> 0, target |-> "nobody"]
NoHandling == [target |-> "nobody", epoch |-> 0, at |-> 0, selected |-> FALSE]

Closed == [open |-> FALSE, lease |-> 0, text |-> FALSE, epoch |-> 0, pointer |-> FALSE, view |-> FALSE]

Toolkit(s) == IF s \in Rml THEN Rml ELSE Sessions \ Rml

\* A toolkit's globals belong to one session at a time.
Open(s) ==
  /\ ~ui[s].open /\ \A o \in Toolkit(s) : ~ui[o].open
  /\ ui' = [ui EXCEPT ![s] = [Closed EXCEPT !.open = TRUE]]
  /\ UNCHANGED <<route, batch, handling, got, drained, polled>>

\* What resetting a lease does to the published request.
Without(e) == IF route.current.epoch = e THEN Nobody ELSE route.current

Close(s) ==
  /\ ui[s].open /\ handling.target # s
  /\ ui' = [ui EXCEPT ![s] = Closed]
  /\ route' = [route EXCEPT !.current = Without(ui[s].lease)]
  /\ batch' = [batch EXCEPT !.todo = @ \ {s}]
  /\ UNCHANGED <<handling, got, drained, polled>>

\* apply_view(), set by hand or by the attached view source.  TGUI keeps
\* nothing of the pointer, so that its view makes no difference here.
ApplyView(s, visible) ==
  /\ s \in Rml /\ ui[s].open /\ ui[s].view # visible
  /\ ui' = [ui EXCEPT ![s].view = visible]
  /\ UNCHANGED <<route, batch, handling, got, drained, polled>>

\* The new lease is published before the old one, moved over, is reset.  One
\* owner requests for all sessions, so that taking the epoch and publishing
\* it are one step here; in Input they are two.
RequestKeyboardFocus(s) ==
  /\ ui[s].open /\ route.next <= MaxEpoch
  /\ route' = [current |-> [epoch |-> route.next, target |-> s], next |-> route.next + 1]
  /\ ui' = [ui EXCEPT ![s].lease = route.next, ![s].text = TRUE, ![s].epoch = route.next]
  /\ UNCHANGED <<batch, handling, got, drained, polled>>

\* focus_epoch is kept: records already collected may still be drained.
Released(s) == [ui[s] EXCEPT !.lease = 0, !.text = FALSE]
ReleaseFocus(s) ==
  /\ ui[s].open /\ ui[s].lease # 0
  /\ ui' = [ui EXCEPT ![s] = Released(s)]
  /\ route' = [route EXCEPT !.current = Without(ui[s].lease)]
  /\ UNCHANGED <<batch, handling, got, drained, polled>>

\* The platform polls: one look at the focus stamps every record of the
\* batch.  "odd" is a key or a button that toolkits do not
\* know, or a clipboard shortcut.
Poll ==
  /\ handling = NoHandling /\ batch.todo = {} /\ polled < MaxPolled
  /\ \E kinds \in SeqOf({"key", "odd", "mouse"}, Min({BatchSize, MaxPolled - polled})) \ {<<>>} :
        /\ batch' = [records |-> [i \in DOMAIN kinds |->
                                 [kind |-> kinds[i], id |-> <<polled + 1, i>>,
                                  owner |-> route.current]],
                  todo |-> {s \in Sessions : ui[s].open}, broken |-> {}]
        /\ polled' = polled + Len(kinds)
  /\ UNCHANGED <<route, ui, handling, got, drained>>

HandleInput(s) ==
  /\ handling = NoHandling /\ s \in batch.todo
  /\ handling' = [target |-> s, epoch |-> ui[s].epoch, at |-> 1, selected |-> FALSE]
  /\ UNCHANGED <<route, ui, batch, got, drained, polled>>

\* leave_unselected_pointer(): RmlUi is told once that the pointer has left.
Left(state, s, selected) ==
  IF s \in Rml /\ (~selected \/ ~state.view) /\ state.pointer
  THEN [state EXCEPT !.pointer = FALSE] ELSE state

Wanted(s, record) == record.owner.target = s /\ handling.epoch # 0
                     /\ record.owner.epoch = handling.epoch

Selected(s) == IF s \in Rml THEN BOOLEAN ELSE {FALSE}

\* The state after a mouse record that the session takes, or any other.
Pointed(state, s, record, selected) ==
  IF record.kind = "mouse" /\ selected /\ state.view THEN [state EXCEPT !.pointer = TRUE] ELSE state

\* One record, with the pointer selection before_record returned for it.
HandleRecord(s) ==
  /\ handling.target = s /\ handling.at <= Len(batch.records)
  /\ \E selected \in Selected(s) :
       LET record == batch.records[handling.at]
       IN  /\ handling' = [handling EXCEPT !.at = @ + 1, !.selected = selected]
           /\ got' = IF record.kind = "key" /\ Wanted(s, record)
                     THEN [got EXCEPT ![s] = Append(@, record)] ELSE got
           /\ ui' = [ui EXCEPT ![s] = Pointed(Left(@, s, selected), s, record, selected)]
  /\ UNCHANGED <<route, batch, drained, polled>>
\* before_record, a record without what it must have, or the toolkit throws:
\* the rest of the batch is not handled and stale focus is not released.
HandleFails(s) ==
  /\ handling.target = s /\ handling.at <= Len(batch.records)
  /\ handling' = NoHandling
  /\ batch' = [batch EXCEPT !.todo = @ \ {s}, !.broken = @ \cup {s}]
  /\ \E selected \in Selected(s) :
       LET left == Left(ui[s], s, selected)
       IN  \E state \in {ui[s], left, Pointed(left, s, batch.records[handling.at], selected)} :
               ui' = [ui EXCEPT ![s] = state]
  /\ UNCHANGED <<route, got, drained, polled>>

\* The batch is drained; focus lost meanwhile to another is given up.
FinishKeeping(s) ==
  /\ handling.target = s /\ handling.at > Len(batch.records)
  /\ handling' = NoHandling /\ batch' = [batch EXCEPT !.todo = @ \ {s}]
  /\ ui' = [ui EXCEPT ![s] = Left(ui[s], s, handling.selected)]
  /\ drained' = [drained EXCEPT ![s] = route.next]
  /\ UNCHANGED <<route, got, polled>>
FinishInput(s) ==
  /\ handling.target = s /\ handling.at > Len(batch.records)
  /\ handling' = NoHandling /\ batch' = [batch EXCEPT !.todo = @ \ {s}]
  /\ LET lost == ui[s].lease # 0 /\ route.current.epoch # ui[s].lease
     IN  ui' = [ui EXCEPT ![s] = Left(IF lost THEN Released(s) ELSE ui[s], s, handling.selected)]
  /\ drained' = [drained EXCEPT ![s] = route.next]
  /\ UNCHANGED <<route, got, polled>>

SessionsInit ==
  /\ route = [current |-> Nobody, next |-> 1]
  /\ ui = [s \in Sessions |-> Closed]
  /\ batch = [records |-> <<>>, todo |-> {}, broken |-> {}]
  /\ handling = NoHandling /\ got = [s \in Sessions |-> <<>>]
  /\ drained = [s \in Sessions |-> 0] /\ polled = 0

SessionsNext ==
  \/ Poll
  \/ \E s \in Sessions :
       \/ Open(s) \/ Close(s) \/ RequestKeyboardFocus(s) \/ ReleaseFocus(s)
       \/ \E visible \in BOOLEAN : ApplyView(s, visible)
       \/ HandleInput(s) \/ HandleRecord(s) \/ HandleFails(s) \/ FinishInput(s)
SessionsSpec == SessionsInit /\ [][SessionsNext]_sessionVars

\* ---- Scenes: the simulation owner records the textures of its draws and
\* submits; the platform uploads, reusing the image of a texture while one
\* lives; the simulation owner adopts what is ready.  An image lives while
\* a scene holds it; images are numbered as they are uploaded.
NoScene == [state |-> "none", textures |-> <<>>, images |-> <<>>]
Images == {[id |-> n, of |-> t] : n \in 1 .. MaxImages, t \in Textures}
Alive == ToSet(scene.images) \cup ToSet(shown.images)

\* A texture lives while the toolkit or a recording holds it.
Record(textures) ==
  /\ scene.state = "none" /\ ToSet(textures) \subseteq decoded
  /\ scene' = [state |-> "submitted", textures |-> textures, images |-> <<>>]
  /\ UNCHANGED <<uploader, shown, decoded>>
Expire(t) ==
  /\ t \in decoded /\ t \notin ToSet(scene.textures)
  /\ decoded' = decoded \ {t}
  /\ UNCHANGED <<uploader, scene, shown>>

NextImage(cache, t) == [id |-> Max({0} \cup {i.id : i \in Alive \cup Range(cache)}) + 1, of |-> t]
ImageAlways(cache, t) == NextImage(cache, t)
ImageFor(cache, t) ==
  IF t \in DOMAIN cache THEN cache[t] ELSE NextImage(cache, t)

\* upload(): entries whose texture or image has gone are pruned; a draw that
\* fails drops the scene and, with it, the images made for it.
Pruned == RestrictDomain(uploader, LAMBDA t : t \in decoded /\ uploader[t] \in Alive)
Upload(fails) ==
  /\ scene.state = "submitted"
  /\ LET done == FoldLeft(LAMBDA a, t :
                    LET image == ImageFor(a.cache, t)
                    IN  [cache |-> (t :> image) @@ a.cache, images |-> Append(a.images, image)],
                    [cache |-> Pruned, images |-> <<>>],
                    SubSeq(scene.textures, 1, IF fails = 0 THEN Len(scene.textures) ELSE fails - 1))
     IN  /\ Range(done.cache) \subseteq Images
         /\ uploader' = IF fails = 0 THEN done.cache
                        ELSE RestrictDomain(done.cache, LAMBDA t : t \in DOMAIN Pruned)
         /\ scene' = IF fails = 0 THEN [scene EXCEPT !.state = "ready", !.images = done.images]
                     ELSE [scene EXCEPT !.state = "failed"]
  /\ UNCHANGED <<shown, decoded>>

\* adopt_scene(): a failure is rethrown and leaves the scene that is shown.
AdoptScene ==
  /\ scene.state \in {"ready", "failed"}
  /\ shown' = IF scene.state = "ready" THEN scene ELSE shown
  /\ scene' = NoScene /\ UNCHANGED <<uploader, decoded>>

ScenesInit == /\ uploader = <<>> /\ decoded = Textures
              /\ scene = NoScene /\ shown = NoScene
ScenesNext == \/ \E textures \in SeqOf(Textures, 3) : Record(textures)
              \/ \E t \in Textures : Expire(t)
              \/ \E fails \in 0 .. Len(scene.textures) : Upload(fails)
              \/ AdoptScene

--------------------
\* A scene draws each texture with the image made from it, and a texture has
\* one image for as long as a scene that is shown or submitted holds it.
OneImagePerTexture ==
  /\ \A s \in {scene, shown} :
       s.images # <<>> => /\ Len(s.images) = Len(s.textures)
                          /\ \A i \in DOMAIN s.images : s.images[i].of = s.textures[i]
  /\ \A i, j \in Alive : i.id = j.id => i = j
  /\ \A i, j \in Alive : i.of = j.of /\ i.of \in decoded => i = j

\* Each key is given, once and in order, to the session whose request was
\* published when the key was polled, and has been given to it once it has
\* drained the batch, unless it has requested anew or broke off; a session
\* whose focus another has taken keeps neither lease nor text capture past
\* the batch it drains next; no session holds the focus of another.
KeysReachTheirOwner ==
  \A s \in Sessions :
    /\ \A i, j \in DOMAIN got[s] :
         /\ got[s][i].owner.target = s
         /\ i < j => \/ got[s][i].id[1] < got[s][j].id[1]
                     \/ got[s][i].id[1] = got[s][j].id[1] /\ got[s][i].id[2] < got[s][j].id[2]
    /\ ui[s].open /\ s \notin batch.todo \cup batch.broken =>
         \A r \in ToSet(batch.records) :
            r.kind = "key" /\ r.owner = [epoch |-> ui[s].epoch, target |-> s] => Contains(got[s], r)
    /\ ui[s].lease # 0 /\ route.current.epoch # ui[s].lease => drained[s] < route.next
    /\ ui[s].text = (ui[s].lease # 0)
    /\ route.current.target = s => ui[s].lease = route.current.epoch

\* What is shown and who is spoken to do not get mixed up between sessions,
\* whatever is opened, closed or taken away in the middle of a batch.
SessionsStayApart == KeysReachTheirOwner /\ OneImagePerTexture
====================
