---- MODULE Drawing ----
\* From a draw request to the state the driver draws with: parameter
\* contracts and layers, materials, packets recorded in a frame, pipelines
\* and the OpenGL state they leave for whatever is drawn next.
EXTENDS Integers, Sequences, FiniteSets

CONSTANTS Candidates,   \* pipelines asked for: contract, bindings, program and its active uniforms, state, layout
          Geometries,   \* uploaded: layout, vertices, domain
          Images,       \* by name whether it is of this domain and has mipmaps
          Styles,       \* material values, sampling, draw values, clip, range
          PassSettings, \* pass values and constraints
          UnitLimit, Framebuffers,
          MaxDraws      \* bound of packets in a frame

NoValue == [type |-> "none"]
ImageValue(image, sampler, unit) == [type |-> "image", image |-> image, sampler |-> sampler, unit |-> unit]
Scalar(v) == [type |-> "scalar", v |-> v]
NoPacket == [none |-> TRUE]

VARIABLES
    frame,      \* Frame: its passes and how many of these are active
    rendering,  \* the packet that is drawn next, 0 when no frame is
    framebuffer,
    gl,         \* external: the context's state
    shown       \* history: the last packet drawn and the state it was drawn with

drawVars == <<frame, rendering, framebuffer, gl, shown>>
--------------------
\* parameters.cpp
ValidValue(d, value) == value.type = d.type /\ (value.type = "image" => value.image # "missing")
ValidContract(contract) ==
  /\ \A d, e \in contract : (d # e) => (d.key # e.key /\ (d.semantic = "custom" \/ d.semantic # e.semantic))
  /\ \A d \in contract : d.semantic # "custom" => (d.type = "scalar" /\ d.default = NoValue)
  /\ \A d \in contract : d.default # NoValue => ValidValue(d, d.default)
ValidValues(contract, values) ==
  /\ ValidContract(contract)
  /\ \A k \in DOMAIN values : \E d \in contract : d.key = k /\ d.semantic = "custom" /\ ValidValue(d, values[k])
ValidResolved(contract, values) ==
  /\ ValidContract(contract)
  /\ \A k \in DOMAIN values : \E d \in contract : d.key = k /\ ValidValue(d, values[k])
  /\ \A j, k \in DOMAIN values :
       (j # k /\ values[j].type = "image" /\ values[k].type = "image") => (values[j].unit # values[k].unit)
  /\ \A d \in contract : d.required => d.key \in DOMAIN values

\* resolve(): what the engine says, else the draw's value, the material's,
\* the pass's and the default; Material::resolve() fills in samplers.
Layered(contract, engine, pass, material, draw) ==
  LET said(d) == IF d.semantic # "custom" THEN engine[d.semantic]
                 ELSE IF d.key \in DOMAIN draw THEN draw[d.key]
                 ELSE IF d.key \in DOMAIN material THEN material[d.key]
                 ELSE IF d.key \in DOMAIN pass THEN pass[d.key] ELSE d.default
      defined == {d \in contract : said(d) # NoValue}
  IN [k \in {d.key : d \in defined} |-> said(CHOOSE d \in defined : d.key = k)]
Sampled(values, sampling) ==
  [k \in DOMAIN values |->
      IF k \in DOMAIN sampling /\ values[k].sampler = "none" THEN [values[k] EXCEPT !.sampler = sampling[k]] ELSE values[k]]

\* clip-region.cpp: edges are clamped to the view and rounded outwards.
Clamped(x, bound) == IF x < 0 THEN 0 ELSE IF x > bound THEN bound ELSE x
ValidClip(clip) == clip.left <= clip.right /\ clip.top <= clip.bottom /\ clip.width > 0 /\ clip.height > 0
Pixels(clip, size) ==
  LET l == Clamped(clip.left, clip.width)  r == Clamped(clip.right, clip.width)
      t == Clamped(clip.top, clip.height)  b == Clamped(clip.bottom, clip.height)
  IN IF l = r \/ t = b \/ size.width = 0 \/ size.height = 0 THEN [left |-> 0, top |-> 0, right |-> 0, bottom |-> 0]
     ELSE [left |-> (l * size.width) \div clip.width, top |-> (t * size.height) \div clip.height,
           right |-> (r * size.width + clip.width - 1) \div clip.width,
           bottom |-> (b * size.height + clip.height - 1) \div clip.height]
--------------------
\* Pipeline::Pipeline() of the OpenGL module.
UniformOf(c, d) == {u \in c.uniforms : u.name = c.bindings[d.key].uniform}
ImageUsable(value) == Images[value.image].ours /\ value.unit < UnitLimit /\ (value.sampler = "mipmapped" => Images[value.image].mipmaps)
Usable(values) == \A k \in DOMAIN values : values[k].type = "image" => ImageUsable(values[k])
Missing(c, d) == IF d.default # NoValue THEN d.default ELSE c.bindings[d.key].missing
ActiveOf(c) == {d \in c.contract : UniformOf(c, d) # {}}
Admitted(c) ==
  /\ ValidContract(c.contract) /\ c.linked
  /\ ~(c.state.depth = "off" /\ c.state.mask)
  /\ DOMAIN c.bindings = {d.key : d \in c.contract}
  /\ \A j, k \in DOMAIN c.bindings : (j # k) => (c.bindings[j].uniform # c.bindings[k].uniform)
  /\ \A d \in c.contract :
       /\ c.bindings[d.key].missing # NoValue =>
            (~d.required /\ d.semantic = "custom" /\ ValidValue(d, c.bindings[d.key].missing))
       /\ d.required => UniformOf(c, d) # {}
       /\ \A u \in UniformOf(c, d) : u.type = d.type
       /\ (d \in ActiveOf(c) /\ ~d.required /\ d.semantic = "custom") => Missing(c, d) # NoValue
  /\ UNION {UniformOf(c, d) : d \in c.contract} = c.uniforms
  /\ \A d \in c.contract : Missing(c, d).type = "image" => ImageUsable(Missing(c, d))
Pipelines == {c \in Candidates : Admitted(c)}

\* Pipeline::prepare_parameters(): what is missing is reset, never left over.
Effective(c, values) ==
  LET added == {d \in ActiveOf(c) : d.key \notin DOMAIN values /\ Missing(c, d) # NoValue}
  IN [k \in DOMAIN values \cup {d.key : d \in added} |->
         IF k \in DOMAIN values THEN values[k] ELSE Missing(c, CHOOSE d \in added : d.key = k)]
Preparable(c, values) ==
  /\ \A d \in ActiveOf(c) : d.key \in DOMAIN Effective(c, values)
  /\ ValidResolved(c.contract, Effective(c, values)) /\ Usable(Effective(c, values))

\* validate_draw() and validate_draw_packet().
ValidDraw(p, constraints) ==
  /\ p.clip # NoPacket => ValidClip(p.clip)
  /\ p.geometry.layout = p.pipeline.layout
  /\ p.count > 0 /\ p.first + p.count <= p.geometry.vertices
  /\ \A field \in DOMAIN constraints : p.pipeline.state[field] = constraints[field]
  /\ ValidResolved(p.pipeline.contract, p.values)
--------------------
NothingBound == [image |-> "none", sampler |-> "none"]
DrawingInit ==
  /\ frame = [passes |-> <<>>, active |-> 0] /\ rendering = 0 /\ framebuffer \in Framebuffers
  /\ gl = [scissor |-> NoPacket, state |-> [blend |-> "alpha", depth |-> "off", mask |-> TRUE],
           uniforms |-> [program \in {c.program : c \in Candidates} |-> <<>>], units |-> [u \in 0..(UnitLimit - 1) |-> NothingBound]]
  /\ shown = NoPacket

\* FrameWriter and PassWriter; the storage of a recycled frame is reused.
BeginPass(settings) ==
  /\ rendering = 0 /\ frame.active = 0     \* bound: one pass
  /\ frame' = IF frame.passes = <<>> THEN [passes |-> <<[settings |-> settings, draws |-> <<>>]>>, active |-> 1]
              ELSE [passes |-> [frame.passes EXCEPT ![1].settings = settings], active |-> 1]
  /\ UNCHANGED <<rendering, framebuffer, gl, shown>>
Recycle ==
  /\ rendering = 0
  /\ frame' = [passes |-> [i \in DOMAIN frame.passes |-> IF i <= frame.active THEN [frame.passes[i] EXCEPT !.draws = <<>>] ELSE frame.passes[i]],
               active |-> 0]
  /\ UNCHANGED <<rendering, framebuffer, gl, shown>>

\* resolve_draw_packet(), from a sprite, a tile, a graphic or text.
Packet(c, geometry, style, settings) ==
  LET engine == [model |-> Scalar(style.model)]
      values == Sampled(Layered(c.contract, engine, settings.values, style.material, style.draw), style.sampling)
  IN [pipeline |-> c, geometry |-> geometry, first |-> style.first, count |-> style.count, values |-> values, clip |-> style.clip]
Resolvable(c, geometry, settings) ==
  {style \in Styles :
      /\ \A layer \in {settings.values, style.material, style.draw} : ValidValues(c.contract, layer)
      /\ \A k \in DOMAIN style.sampling : \E d \in c.contract : d.key = k /\ d.type = "image"
      /\ ValidDraw(Packet(c, geometry, style, settings), settings.constraints)}
Add(c, geometry) ==
  /\ rendering = 0 /\ frame.active = 1 /\ Len(frame.passes[1].draws) < MaxDraws
  /\ \E style \in Resolvable(c, geometry, frame.passes[1].settings) :
       frame' = [frame EXCEPT !.passes[1].draws = Append(@, Packet(c, geometry, style, frame.passes[1].settings))]
  /\ UNCHANGED <<rendering, framebuffer, gl, shown>>

Resize(size) ==
  /\ rendering = 0 /\ framebuffer' = size
  /\ UNCHANGED <<frame, rendering, gl, shown>>
Render ==
  /\ rendering = 0 /\ frame.active = 1 /\ frame.passes[1].draws # <<>>
  /\ rendering' = 1 /\ shown' = NoPacket
  /\ UNCHANGED <<frame, framebuffer, gl>>

\* Mutant: an image is bound and the unit keeps the sampler it had.
BoundUnitsKeepSampler(values) ==
  LET at(u) == {k \in DOMAIN values : values[k].type = "image" /\ values[k].unit = u}
  IN [u \in DOMAIN gl.units |->
         IF at(u) = {} THEN gl.units[u]
         ELSE LET v == values[CHOOSE k \in at(u) : TRUE]
              IN [image |-> v.image, sampler |-> IF v.sampler = "none" THEN gl.units[u].sampler ELSE v.sampler]]

\* upload_parameter(): Texture::bind() takes the unit's sampler off first.
BoundUnits(values) ==
  LET at(u) == {k \in DOMAIN values : values[k].type = "image" /\ values[k].unit = u}
  IN [u \in DOMAIN gl.units |->
         IF at(u) = {} THEN gl.units[u]
         ELSE LET v == values[CHOOSE k \in at(u) : TRUE] IN [image |-> v.image, sampler |-> v.sampler]]

FixedState(c) == [gl.state EXCEPT !.blend = c.state.blend, !.depth = c.state.depth, !.mask = c.state.mask]

\* Renderer::render() and Pipeline::draw(): one packet.  Everything is
\* checked before the first command; what is refused ends the frame.
Following == IF rendering < Len(frame.passes[1].draws) THEN rendering' = rendering + 1 ELSE rendering' = 0
DrawNext ==
  /\ rendering > 0
  /\ LET p == frame.passes[1].draws[rendering]
         c == p.pipeline
         values == Effective(c, p.values)
         active == [k \in {d.key : d \in ActiveOf(c)} |-> values[k]]
         pixels == Pixels(p.clip, framebuffer)
         refused == ~p.geometry.ours \/ ~Preparable(c, p.values)
         hidden == p.clip # NoPacket /\ (pixels.left >= pixels.right \/ pixels.top >= pixels.bottom)
         uniforms == [name \in {u.name : u \in c.uniforms} |->
                         active[CHOOSE k \in DOMAIN active : c.bindings[k].uniform = name]]
     IN IF refused = TRUE THEN rendering' = 0 /\ UNCHANGED <<gl, shown>>
        ELSE IF hidden THEN Following /\ UNCHANGED <<gl, shown>>
        ELSE /\ Following
             /\ gl' = [gl EXCEPT !.scissor = IF p.clip = NoPacket THEN NoPacket ELSE pixels, !.state = FixedState(c),
                                 !.uniforms[c.program] = uniforms, !.units = BoundUnits(active)]
             /\ shown' = [packet |-> p, size |-> framebuffer, scissor |-> gl'.scissor, state |-> gl'.state, uniforms |-> gl'.uniforms[c.program], units |-> gl'.units]
  /\ UNCHANGED <<frame, framebuffer>>

Clear ==
  /\ rendering = 0 /\ gl' = [gl EXCEPT !.state.mask = TRUE, !.scissor = NoPacket]
  /\ UNCHANGED <<frame, rendering, framebuffer, shown>>
SetDepthTest(depth) ==
  /\ rendering = 0 /\ gl' = [gl EXCEPT !.state.depth = depth]
  /\ UNCHANGED <<frame, rendering, framebuffer, shown>>
UploadImage ==              \* works on unit 0 and leaves it empty
    /\ rendering = 0 /\ gl' = [gl EXCEPT !.units[0] = NothingBound]
    /\ UNCHANGED <<frame, rendering, framebuffer, shown>>

DrawingNext ==
  \/ \E settings \in PassSettings : BeginPass(settings)
  \/ Recycle \/ Render \/ DrawNext \/ Clear \/ UploadImage
  \/ \E depth \in {"off", "less"} : SetDepthTest(depth)
  \/ \E size \in Framebuffers : Resize(size)
  \/ \E c \in Pipelines, g \in Geometries : Add(c, g)

DrawingSpec == DrawingInit /\ [][DrawingNext]_drawVars
--------------------
\* A packet is drawn with what it asked for and with nothing else: every
\* active uniform has the value of its most specific layer or its reset,
\* every image its own sampler, the fixed state is the pipeline's and no
\* clip of an earlier draw is left, whatever was drawn before by pipelines
\* that share the program; a clip hides nothing it should show, within the
\* framebuffer; and no sampler needs mipmaps its image has not.
DrawnAsAsked ==
  shown # NoPacket =>
      LET p == shown.packet  c == p.pipeline
          asked(d) == IF d.key \in DOMAIN p.values THEN p.values[d.key] ELSE Missing(c, d)
          pixels == shown.scissor
      IN /\ DOMAIN shown.uniforms = {u.name : u \in c.uniforms}
         /\ \A d \in ActiveOf(c) :
              /\ shown.uniforms[c.bindings[d.key].uniform] = asked(d)
              /\ asked(d).type = "image" =>
                   /\ shown.units[asked(d).unit] = [image |-> asked(d).image, sampler |-> asked(d).sampler]
                   /\ asked(d).sampler = "mipmapped" => Images[asked(d).image].mipmaps
         /\ shown.state = c.state
         /\ (p.clip = NoPacket) <=> (pixels = NoPacket)
         /\ p.clip # NoPacket =>
              /\ pixels.left < pixels.right /\ pixels.top < pixels.bottom
              /\ pixels.right <= shown.size.width /\ pixels.bottom <= shown.size.height
              /\ pixels.left * p.clip.width <= Clamped(p.clip.left, p.clip.width) * shown.size.width
              /\ pixels.right * p.clip.width >= Clamped(p.clip.right, p.clip.width) * shown.size.width
              /\ pixels.top * p.clip.height <= Clamped(p.clip.top, p.clip.height) * shown.size.height
              /\ pixels.bottom * p.clip.height >= Clamped(p.clip.bottom, p.clip.height) * shown.size.height
====================
