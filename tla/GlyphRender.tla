----------------------------- MODULE GlyphRender -----------------------------
(***************************************************************************)
(* Text, from the request of a client to the destination                   *)
(* (etnaviv_Glyphs): all glyphs of the request are put into the glyph      *)
(* cache, and uploaded to its picture; then their places in the cache are  *)
(* looked up and the glyphs are added to a mask, through which the source  *)
(* comes to the destination.  What fails on the way leaves the whole       *)
(* request to the software, which takes each glyph from the server.        *)
(*                                                                         *)
(* The engine runs uploads and blits in their order.  Glyphs lie on a      *)
(* line: x stands for y as well, a glyph is as wide as high.  The clamps   *)
(* of GlyphExtents to 16 bits are left out.  A glyph whose format has no   *)
(* cache goes the way of one that is too large.                            *)
(***************************************************************************)
EXTENDS GlyphCache, Integers, Sequences

CONSTANTS
  Left,    \* glyph->info.x: from the left edge of a glyph to its origin
  Advance, \* glyph->info.xOff: from its origin to the next
  Requests \* what a client may ask for: [string, masked], where string is a
           \* sequence of [off, glyph], off is the xOff of a list whose first
           \* glyph it is, otherwise 0, and masked is: with a maskFormat?

ASSUME MetricsAssumption == Left \in [Glyphs -> Int] /\ Advance \in [Glyphs -> Int]

ASSUME RequestAssumption ==
  \A r \in Requests :
    r.string \in Seq([off : Int, glyph : Glyphs]) /\ r.masked \in BOOLEAN

VARIABLES
  pc,     \* where the request is
  string, \* the glyphs of the request
  masked, \* does it have a maskFormat?
  rest,   \* those that glyph_cache_preload did not come to yet
  drawn,  \* what came to the destination
  intact, \* history: the glyphs whose pixels are where the cache has them
  failed  \* history: the cached glyphs that could not be uploaded

request == <<pc, string, masked, rest, drawn>>
vars == <<cacheVars, request, intact, failed>>

TypeOK ==
  /\ CacheTypeOK
  /\ pc \in {"idle", "preload", "software", "done", "lost"}
  /\ masked \in BOOLEAN
  /\ intact \subseteq Glyphs /\ failed \subseteq Glyphs

Init ==
  /\ CacheInit
  /\ pc = "idle" /\ string = <<>> /\ masked = FALSE /\ rest = <<>> /\ drawn = <<>>
  /\ intact = {} /\ failed = {}

-----------------------------------------------------------------------------
(* Positions.                                                              *)

(* Where the i-th glyph of a string has its origin, and its left edge.     *)
Pen(s, i) ==
  LET x[j \in DOMAIN s] ==
        s[j].off + IF j = 1 THEN 0 ELSE x[j - 1] + Advance[s[j - 1].glyph]
  IN  x[i]
Edge(s, i) == Pen(s, i) - Left[s[i].glyph]

(* GlyphExtents                                                            *)
GlyphExtents(s) ==
  [x1 |-> Min({Edge(s, i) : i \in DOMAIN s}),
   x2 |-> Max({Edge(s, i) + Extent[s[i].glyph] : i \in DOMAIN s})]

HasPixels(g) == Extent[g] > 0
Visible(s) == {i \in DOMAIN s : HasPixels(s[i].glyph)}

(* A glyph at box in a mask that comes to x of the destination, with the   *)
(* source from xSrc on: what is seen where, and through which pixels.      *)
Seen(g, own, box, width, x, xSrc) ==
  [glyph |-> g, own |-> own, whole |-> 0 <= box /\ box + Extent[g] <= width,
   at |-> x + box, source |-> xSrc + box]

-----------------------------------------------------------------------------
(* etnaviv_accel_glyph_upload                                              *)

Apart(a, m, b, n) == a + m <= b \/ b + n <= a

(* Glyph g at p writes over glyph h at q.                                  *)
WritesOver(g, p, h, q) ==
  ~ (Apart(p.x, Extent[g], q.x, Extent[h]) \/ Apart(p.y, Extent[g], q.y, Extent[h]))

InPicture(g, p) ==
  p.x + Extent[g] <= CACHE_PICTURE_SIZE /\ p.y + Extent[g] <= CACHE_PICTURE_SIZE

(* Glyph g has just got its slot, others may have lost theirs.  The upload *)
(* fails for want of memory, of a bo on that memory, or of a mapping of    *)
(* the picture: nobody is told.                                            *)
Upload(g, uploaded) ==
  LET p == Pos[priv'[g].index]
      cached == {h \in Glyphs : priv'[h] # None} \ {g}
  IN  IF uploaded
        THEN /\ intact' = {h \in cached \intersect intact :
                              ~ WritesOver(g, p, h, Pos[priv'[h].index])}
                           \union {h \in {g} : InPicture(g, p)}
             /\ failed' = failed \intersect cached
        ELSE /\ intact' = intact \intersect cached
             /\ failed' = (failed \intersect cached) \union {g}

-----------------------------------------------------------------------------
(* etnaviv_Glyphs: without a maskFormat the engine is not asked.           *)
Request(r) ==
  /\ pc = "idle"
  /\ pc' = IF r.masked THEN "preload" ELSE "software"
  /\ string' = r.string /\ masked' = r.masked /\ rest' = r.string
  /\ UNCHANGED <<cacheVars, drawn, intact, failed>>

(* glyph_cache_preload: a glyph without pixels, or in the cache ...        *)
Preloaded ==
  /\ pc = "preload" /\ rest # <<>>
  /\ ~ HasPixels(Head(rest).glyph) \/ priv[Head(rest).glyph] # None
  /\ rest' = Tail(rest)
  /\ UNCHANGED <<cacheVars, pc, string, masked, drawn, intact, failed>>

(* ... one that is too large ...                                           *)
PreloadTooLarge ==
  /\ pc = "preload" /\ rest # <<>>
  /\ Extent[Head(rest).glyph] > GLYPH_MAX_SIZE
  /\ pc' = "software"
  /\ UNCHANGED <<cacheVars, string, masked, rest, drawn, intact, failed>>

(* ... and one that is given a place, which takes memory.                  *)
Cache(g, malloced) ==
  /\ Wanted(g)
  /\ \/ CacheFresh(g, malloced)
     \/ \E e \in Evictable(Size(g)) : CacheEvict(g, e, malloced)

Preload(uploaded) ==
  /\ pc = "preload" /\ rest # <<>>
  /\ Cache(Head(rest).glyph, TRUE)
  /\ Upload(Head(rest).glyph, uploaded)
  /\ rest' = Tail(rest)
  /\ UNCHANGED <<pc, string, masked, drawn>>

PreloadFails ==
  /\ pc = "preload" /\ rest # <<>>
  /\ Cache(Head(rest).glyph, FALSE)
  /\ pc' = "software"
  /\ UNCHANGED <<string, masked, rest, drawn, intact, failed>>

(* glyphs_assemble: glyph_cache_only finds the glyph, unless another one   *)
(* of the request has pushed it out since.                                 *)

(* Mutant: the first place of the picture is taken for it.                 *)
AssembledAlways == pc = "preload" /\ rest = <<>>

Assembled ==
  /\ pc = "preload" /\ rest = <<>>
  /\ \A i \in DOMAIN string : HasPixels(string[i].glyph) => priv[string[i].glyph] # None

(* etnaviv_accel_Glyphs: no glyph with pixels, so nothing to do.           *)
Accelerated ==
  LET box  == GlyphExtents(string)
      xSrc == 0 + box.x1 - string[1].off
  IN  /\ Assembled
      /\ drawn' = [i \in Visible(string) |->
                     LET g == string[i].glyph
                     IN  Seen(g, g \in intact, Edge(string, i) - box.x1,
                              box.x2 - box.x1, box.x1, xSrc)]
      /\ pc' = "done"
      /\ UNCHANGED <<cacheVars, string, masked, rest, intact, failed>>

(* A glyph was pushed out, or an allocation, the clear of the mask or a    *)
(* mapping fails.                                                          *)
Refused ==
  /\ pc = "preload" /\ rest = <<>> /\ Visible(string) # {}
  /\ pc' = "software"
  /\ UNCHANGED <<cacheVars, string, masked, rest, drawn, intact, failed>>

(* unaccel_Glyphs: through a mask of its own, or one by one.               *)
Unaccel ==
  LET box == IF masked THEN GlyphExtents(string) ELSE [x1 |-> 0, x2 |-> 0]
  IN  /\ pc = "software"
      /\ drawn' = [i \in Visible(string) |->
                     LET g == string[i].glyph
                     IN  IF masked
                           THEN Seen(g, TRUE, Edge(string, i) - box.x1,
                                     box.x2 - box.x1, box.x1, 0 + box.x1 - string[1].off)
                           ELSE Seen(g, TRUE, 0, Extent[g], Edge(string, i),
                                     0 + Edge(string, i) - string[1].off)]
      /\ pc' = "done"
      /\ UNCHANGED <<cacheVars, string, masked, rest, intact, failed>>

(* The server itself has no memory for the mask.                           *)
Lost ==
  /\ pc = "software" /\ masked
  /\ pc' = "lost"
  /\ UNCHANGED <<cacheVars, string, masked, rest, drawn, intact, failed>>

Return ==
  /\ pc \in {"done", "lost"}
  /\ pc' = "idle" /\ string' = <<>> /\ masked' = FALSE /\ rest' = <<>> /\ drawn' = <<>>
  /\ UNCHANGED <<cacheVars, intact, failed>>

(* etnaviv_UnrealizeGlyph                                                  *)
UnrealizeGlyph(g) ==
  /\ pc = "idle"
  /\ Remove(g)
  /\ intact' = intact \ {g}
  /\ failed' = failed \ {g}
  /\ UNCHANGED request

Next ==
  \/ \E r \in Requests : Request(r)
  \/ Preloaded \/ PreloadTooLarge \/ PreloadFails
  \/ \E uploaded \in BOOLEAN : Preload(uploaded)
  \/ Accelerated \/ Refused \/ Unaccel \/ Lost \/ Return
  \/ \E g \in Glyphs : UnrealizeGlyph(g)

Spec == Init /\ [][Next]_vars

-----------------------------------------------------------------------------
(* Properties.                                                             *)

(* Whatever was done in software, pushed out or uploaded on the way, every *)
(* glyph of the request comes to its pen position in full, with the part   *)
(* of the source that belongs there, and shows its own pixels: no upload   *)
(* wrote over them, and it was not drawn from a place it has lost.         *)
(* Two failures of the code are granted: a glyph that could not be         *)
(* uploaded shows what was in its place, and once a glyph was put behind   *)
(* the slots that are handed out, it may be written over.                  *)
GlyphsDrawn ==
  pc = "done" =>
    /\ DOMAIN drawn = Visible(string)
    /\ \A i \in Visible(string) :
         LET d == drawn[i]
         IN  /\ d.glyph = string[i].glyph /\ d.whole
             /\ d.at = Edge(string, i)
             /\ d.source = 0 + Edge(string, i) - string[1].off
             /\ d.own \/ d.glyph \in failed \/ behind

=============================================================================
