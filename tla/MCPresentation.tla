---- MODULE MCPresentation ----
\* What a player does, hears and sees: semantic input, the notifications
\* of the audio system, the layout of text, text prepared off the owner's
\* thread, fonts with the faces and glyphs they stand for, and the sessions
\* of the UI toolkits with the scenes they submit.  They share no state
\* here; a behaviour is one of theirs, the one of its part.
EXTENDS Input, Audio, TextLayout, Fonts, Toolkits, TLC

VARIABLE part

Parts == {"input", "audio", "layout", "updater", "fonts", "sessions", "scenes", "faces", "toolkits"}

--------------------
\* Input: an action bound to a chord of two codes directly and to two chords
\* of its context, a motion that a key enables in the context, and two requests
\* for focus that may race.
MCDirect == [fire |-> {{"key", "pad"}}, zoom |-> {}]
MCLocal == [fire |-> {{"button"}, {"wheel"}}, zoom |-> {{"key"}}]
MCPolicies == <<"exclusive", "pass">>

--------------------
\* Audio: nothing tells a new voice from another: the first to play is 1,
\* and it alone may loop.
InOrder == (audio.data[2].generation > 0 => audio.data[1].generation > 0) /\ ~audio.data[2].looping

--------------------
\* Layout: two faces that both draw combining marks, every text of up to
\* three scalars and longer ones of the scalars that words are made of.
MCFaces == <<{"x", "space", "mark"}, {"y", "mark"}>>
Scalars == {"x", "y", "q", "space", "mark"}
MCAdvance == [c \in Scalars |-> IF c = "mark" THEN 0 ELSE IF c = "space" THEN 1 ELSE 2]
MCTexts ==
  UNION {[1..n -> Scalars \cup {"tab", "ls", "cr", "lf"}] : n \in 0..3}
  \cup [1..5 -> {"x", "space", "mark", "ls"}]
MCGlyphSize ==
  [g \in {"a", "b", "c", "d", "e"} |->
      CASE g = "a" -> <<1, 1>> [] g = "b" -> <<2, 1>> [] g = "c" -> <<1, 3>>
        [] g = "d" -> <<3, 2>> [] g = "e" -> <<0, 0>>]
MCStrings == UNION {[1..n -> DOMAIN MCGlyphSize] : n \in 1..4}

--------------------
\* Fonts: families whose file loads or does not, one of them twice.
Family(reference, loads) == [reference |-> reference, loads |-> loads]
MCFamilies ==
  {<<Family("s", loads), Family(other, TRUE)>> : loads \in BOOLEAN, other \in {"s", "t"}}
MCGroups ==
  {<<>>} \cup {[body |-> members] : members \in {<<"s", "t", "s">>, <<"s">>}}
MCConfigurations ==
  [families : MCFamilies, groups : MCGroups,
   fallbacks : {<<>>, <<"t", "s", "t">>}, default : {"", "s"}]
MCRequests == {[text |-> t] : t \in {"a", "b", "c"}}

--------------------
\* Faces: two places with files, some with faces that do not open or that
\* have no glyphs; selections of either kind of name and of files; a
\* toolkit's faces of two families; bitmap fonts of up to three sizes;
\* glyphs that share rows or make an atlas grow.
Face(family, heavy, italic, distance) ==
  [family |-> family, score |-> <<heavy, italic, distance>>, flaw |-> "none"]
File(path, name, faces) == [path |-> path, name |-> name, faces |-> faces]
Light == Face("a", 0, 0, 0)  Bold == Face("a", 1, 0, 3)
Unopened(face) == [face EXCEPT !.flaw = "unopened"]  Glyphless == [Light EXCEPT !.flaw = "glyphless"]
MCDisks ==
  [assets : {<<>>, <<File(1, "b", <<Bold>>)>>, <<File(1, "a", <<Bold, Light>>), File(2, "c", <<Unopened(Light), Light>>)>>,
             <<File(1, "b", <<Bold, Glyphless>>)>>},
   installed : {<<File(5, "x", <<Face("b", 0, 1, 0), Bold, Light>>), File(6, "y", <<Light, Face("b", 0, 0, 1)>>)>>,
                <<File(5, "x", <<Unopened(Light), Bold>>)>>,
                <<File(5, "x", <<Bold, Unopened(Light), Glyphless>>), File(6, "y", <<Bold, Face("b", 0, 0, 0)>>)>>}]
NameSource(is, name) == [is |-> is, name |-> name]
Explicit(broken, faces) == [is |-> "file", name |-> "", broken |-> broken, faces |-> faces]
Given == [path |-> 5, index |-> 2, file |-> "x"] @@ Light
MCSelections ==
  [preferred : {<<>>, <<NameSource("name", "a"), NameSource("family", "b")>>, <<NameSource("family", "a"), NameSource("name", "b")>>,
                <<Explicit(FALSE, <<Given>>), NameSource("name", "a")>>, <<Explicit(TRUE, <<>>)>>, <<Explicit(FALSE, <<>>)>>},
   automatic : BOOLEAN, styles : BOOLEAN]
MCAutomatic == <<"b", "a">>
MCBuiltin == [path |-> 0, index |-> 0]
ToolkitFaces == [family : {0, 1}, italic : BOOLEAN, weight : {400, 700}, covers : BOOLEAN]
MCBackends ==
  {[faces |-> f, style |-> [italic |-> i, weight |-> 600]] :
      f \in {g \in UNION {[1..n -> ToolkitFaces] : n \in 1..3} : g[1].family = 0 /\ \A i \in 2..Len(g) : g[i-1].family <= g[i].family},
      i \in BOOLEAN}
MCHeights == UNION {[1..n -> 1..5] : n \in 1..3}
MCGlyphs == {<<4, 4>>, <<4, 5>>, <<6, 10>>, <<9, 4>>, <<20, 5>>}

--------------------
\* Toolkits: a view and an empty one; rectangles that overlap and one that
\* reaches past the view; fonts of one reference in two spellings and another.
Interval(l, r) == [l |-> l, r |-> r]
MCTargetViews == {[l |-> 0, r |-> 4, at |-> 1, scale |-> 2], [l |-> 0, r |-> 0, at |-> 0, scale |-> 1]}
MCRects == {Interval(0, 2), Interval(1, 3), Interval(3, 5)}
MCScissors == {Interval(0, 2), Interval(3, 5)}
TextFace(italic, fallback, family, builtin) ==
  [italic |-> italic, fallback |-> fallback, family |-> family, builtin |-> builtin]
MCTextFonts ==
  {[reference |-> "A", faces |-> <<TextFace(FALSE, FALSE, 0, FALSE), TextFace(TRUE, FALSE, 0, FALSE),
                                   TextFace(FALSE, TRUE, 1, FALSE), TextFace(FALSE, TRUE, 2, TRUE)>>],
   [reference |-> "a", faces |-> <<TextFace(TRUE, FALSE, 0, FALSE)>>],
   [reference |-> "b", faces |-> <<TextFace(FALSE, FALSE, 0, FALSE), TextFace(TRUE, TRUE, 3, FALSE)>>]}
MCLowered == [A |-> <<"a">>, a |-> <<"a">>, b |-> <<"b">>]
MCOwnFamilies == {<<"a">>, <<"c">>, <<"fallback", 1>>}

--------------------
Init ==
  /\ part \in Parts
  /\ InputInit /\ AudioInit /\ LayoutInit /\ UpdaterInit /\ FontsInit /\ SessionsInit /\ ScenesInit /\ FontsPartInit /\ ToolkitsInit
  /\ part # "toolkits" => tool = "widgets"
  /\ part # "faces" => task = "load"
  /\ part # "updater" => u = Fresh

InputStep == part = "input" /\ InputNext
    /\ UNCHANGED <<part, audioVars, layoutVars, u, fontVars, sessionVars, sceneVars, fontsVars, toolkitVars>>
AudioStep == part = "audio" /\ AudioNext /\ InOrder'
    /\ UNCHANGED <<part, inputVars, layoutVars, u, fontVars, sessionVars, sceneVars, fontsVars, toolkitVars>>
LayoutStep == part = "layout" /\ LayoutNext
    /\ UNCHANGED <<part, inputVars, audioVars, u, fontVars, sessionVars, sceneVars, fontsVars, toolkitVars>>
UpdaterStep == part = "updater" /\ UpdaterNext
    /\ UNCHANGED <<part, inputVars, audioVars, layoutVars, fontVars, sessionVars, sceneVars, fontsVars, toolkitVars>>
FontsStep == part = "fonts" /\ FontsNext
    /\ UNCHANGED <<part, inputVars, audioVars, layoutVars, u, sessionVars, sceneVars, fontsVars, toolkitVars>>
SessionsStep == part = "sessions" /\ SessionsNext
    /\ UNCHANGED <<part, inputVars, audioVars, layoutVars, u, fontVars, sceneVars, fontsVars, toolkitVars>>
ScenesStep == part = "scenes" /\ ScenesNext
    /\ UNCHANGED <<part, inputVars, audioVars, layoutVars, u, fontVars, sessionVars, fontsVars, toolkitVars>>
FacesStep == part = "faces" /\ FontsPartNext
    /\ UNCHANGED <<part, inputVars, audioVars, layoutVars, u, fontVars, sessionVars, sceneVars, toolkitVars>>
ToolkitsStep == part = "toolkits" /\ ToolkitsNext
    /\ UNCHANGED <<part, inputVars, audioVars, layoutVars, u, fontVars, sessionVars, sceneVars, fontsVars>>

Next == InputStep \/ AudioStep \/ LayoutStep \/ UpdaterStep \/ FontsStep \/ SessionsStep \/ ScenesStep \/ FacesStep \/ ToolkitsStep

allVars == <<part, inputVars, audioVars, layoutVars, u, fontVars, sessionVars, sceneVars, fontsVars, toolkitVars>>

Spec == Init /\ [][Next]_allVars
--------------------
\* Text is drawn with the faces that were asked for, in the lines that its
\* opportunities and widths allow, from pages where no two glyphs meet.
TextIsShown == TextIsLaidOut /\ FontsAreFound

\* Sessions of UI toolkits keep their own input, focus, images and scenes,
\* and have from the engine what they asked of it.
ToolkitsStayApart == SessionsStayApart /\ ToolkitsAreServed
====================
