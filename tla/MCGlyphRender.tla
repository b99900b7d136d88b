---------------------------- MODULE MCGlyphRender ----------------------------
(***************************************************************************)
(* GlyphRender for TLC: glyphs of three sizes, one that is too large and   *)
(* one without pixels.                                                     *)
(***************************************************************************)
EXTENDS GlyphRender, TLC

CONSTANTS Small, Medium, Large, Huge, Space \* sets of glyphs, by their size

MCGlyphs == Small \union Medium \union Large \union Huge \union Space
MCExtent ==
  [g \in MCGlyphs |->
     IF g \in Small THEN GLYPH_MIN_SIZE - 1
     ELSE IF g \in Medium THEN GLYPH_MIN_SIZE + 1
     ELSE IF g \in Large THEN GLYPH_MIN_SIZE * 4
     ELSE IF g \in Huge THEN GLYPH_MAX_SIZE + 1 ELSE 0]
MCLeft == [g \in MCGlyphs |-> IF g \in Medium THEN 3 ELSE IF g \in Space THEN 0 ELSE -1]
MCAdvance == [g \in MCGlyphs |-> IF g \in Large THEN -2 ELSE MCExtent[g] + 1]

(* Each glyph; a list and a second one that starts three pixels back; a    *)
(* glyph that pushes out, or is refused, after another one is in.          *)
First(g) == [off |-> 5, glyph |-> g]
Second(g) == [off |-> -3, glyph |-> g]
Then(g) == [off |-> 0, glyph |-> g]
MCRequests ==
  [string : {<<First(g)>> : g \in Small \union Medium \union Large}
            \union {<<First(m), Then(s), Second(g)>> : m \in Medium, s \in Space, g \in Small}
            \union {<<First(m), Then(l)>> : m \in Medium, l \in Large}
            \union {<<First(m), Then(l)>> : m \in Medium, l \in Huge},
   masked : {TRUE}]
  \union [string : {<<First(m), Second(g)>> : m \in Medium, g \in Large}, masked : {FALSE}]

Symmetry ==
  Permutations(Small) \union Permutations(Medium) \union Permutations(Large)
=============================================================================
