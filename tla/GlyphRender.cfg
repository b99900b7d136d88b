CONSTANTS
  Small = {s1, s2}
  Medium = {m1}
  Large = {l1}
  Huge = {h}
  Space = {sp}
  Glyphs <- MCGlyphs
  Extent <- MCExtent
  Left <- MCLeft
  Advance <- MCAdvance
  Requests <- MCRequests
  CACHE_PICTURE_SIZE = 32
  GLYPH_MIN_SIZE = 8
  GLYPH_MAX_SIZE = 32
  NoGlyph = NoGlyph
SYMMETRY Symmetry
SPECIFICATION Spec
INVARIANTS
  BackPointers
  GlyphsDrawn
