---------------------------- MODULE GlyphCache ------------------------------
(***************************************************************************)
(* The glyph cache of a picture format (common/glyph_cache.c): one large   *)
(* picture, cut into slots of GLYPH_MIN_SIZE squared.  A glyph of size s   *)
(* takes an aligned run of (s / GLYPH_MIN_SIZE)^2 slots, which is a square *)
(* of the picture.  Slots are handed out in order until they run out;      *)
(* from then on a random slot says which glyphs have to go.                *)
(*                                                                         *)
(* Slots may be left over when a large glyph finds too few of them.  If    *)
(* the random slot is one of those, the glyph goes behind the count, and   *)
(* the slots are handed out later all the same: see behind.                *)
(*                                                                         *)
(* The caches of the formats share nothing, so there is one.  The random   *)
(* slot, cache->evict, is drawn where it is used.  A glyph that is freed   *)
(* and another one that is allocated at its address are the same glyph.    *)
(***************************************************************************)
EXTENDS Naturals, FiniteSetsExt

CONSTANTS
  Glyphs,             \* the glyphs of the clients
  Extent,             \* the larger of the width and the height of each, 0 for
                      \* a glyph without pixels
  CACHE_PICTURE_SIZE, \* the size of the picture, in pixels
  GLYPH_MIN_SIZE,     \* the size of a slot
  GLYPH_MAX_SIZE,     \* the largest size of a glyph that is cached
  NoGlyph             \* NULL

ASSUME ExtentAssumption == Extent \in [Glyphs -> Nat] /\ NoGlyph \notin Glyphs

VARIABLES
  priv,   \* the struct glyph_priv of each glyph, or None
  glyphs, \* cache->glyphs: the glyph that starts at each slot
  count,  \* cache->count: the slots that were handed out
  behind  \* history: was a glyph put behind the count?

cacheVars == <<priv, glyphs, count, behind>>

GLYPH_RATIO_SIZE == GLYPH_MAX_SIZE \div GLYPH_MIN_SIZE
GLYPH_CACHE_SIZE ==
  (CACHE_PICTURE_SIZE * CACHE_PICTURE_SIZE) \div (GLYPH_MIN_SIZE * GLYPH_MIN_SIZE)
Slots == 0 .. GLYPH_CACHE_SIZE - 1

(* GLYPH_MIN_SIZE, and twice that, up to GLYPH_MAX_SIZE.  The index of a   *)
(* slot has 16 bits, two for each time.                                    *)
Doublings == {1, 2, 4, 8, 16, 32, 64, 128, 256}
GlyphSizes == {GLYPH_MIN_SIZE * d : d \in Doublings} \intersect 0 .. GLYPH_MAX_SIZE

None == [size |-> 0, index |-> 0]

CacheTypeOK ==
  /\ priv \in [Glyphs -> {None} \union [size : GlyphSizes, index : Slots]]
  /\ glyphs \in [Slots -> Glyphs \union {NoGlyph}]
  /\ count \in 0 .. GLYPH_CACHE_SIZE
  /\ behind \in BOOLEAN

(* glyph_cache_init                                                        *)
CacheInit ==
  /\ priv = [g \in Glyphs |-> None]
  /\ glyphs = [i \in Slots |-> NoGlyph]
  /\ count = 0
  /\ behind = FALSE

-----------------------------------------------------------------------------
(* glyph_size_to_count; index & glyph_count_to_mask(glyph_size_to_count)   *)
SizeToCount(size) == (size \div GLYPH_MIN_SIZE) * (size \div GLYPH_MIN_SIZE)

(* The largest size is one of the sizes, and squares of every size fill    *)
(* the picture without a rest.                                             *)
ASSUME SizeAssumption ==
  /\ GLYPH_MIN_SIZE \in Nat \ {0} /\ CACHE_PICTURE_SIZE \in Nat
  /\ GLYPH_MAX_SIZE \in GlyphSizes
  /\ CACHE_PICTURE_SIZE % GLYPH_MAX_SIZE = 0
  /\ \A s \in GlyphSizes :
       s >= GLYPH_MIN_SIZE /\ GLYPH_CACHE_SIZE % SizeToCount(s) = 0

Masked(index, size) == (index \div SizeToCount(size)) * SizeToCount(size)

(* The size of the square that a glyph takes.                              *)
Size(g) == Min({s \in GlyphSizes : Extent[g] <= s})

(* The slots that a square at a slot takes.                                *)
Run(index, size) == index .. index + SizeToCount(size) - 1

(* The smallest square around slot e, no smaller than size, that a glyph   *)
(* starts at.                                                              *)
Occupied(e, size) == {s \in GlyphSizes : s >= size /\ glyphs[Masked(e, s)] # NoGlyph}
Around(e, size) == Masked(e, Min(Occupied(e, size)))

(* The slots whose glyphs go: the glyph that fills such a square and more, *)
(* or else what is in the way.                                             *)
EvictedSlots(e, size) ==
  IF /\ Occupied(e, size) # {}
     /\ priv[glyphs[Around(e, size)]].size >= Min(Occupied(e, size))
    THEN {Around(e, size)}
    ELSE {i \in Run(Masked(e, size), size) : glyphs[i] # NoGlyph}

(* Glyph g goes to a slot, for which others are emptied.                   *)
Place(g, index, emptied) ==
  /\ glyphs' = [i \in Slots |-> IF i = index THEN g ELSE
                                IF i \in emptied THEN NoGlyph ELSE glyphs[i]]
  /\ priv' = [h \in Glyphs |->
                IF h = g THEN [size |-> Size(g), index |-> index] ELSE
                IF \E i \in emptied : glyphs[i] = h THEN None ELSE priv[h]]

(* The random slots that differ for a glyph of this size.                  *)
Evictable(size) == {e \in Slots : Masked(e, size) = e}

(* Where slots that were not handed out yet would start.                   *)
Handed(g) ==
  ((count + SizeToCount(Size(g)) - 1) \div SizeToCount(Size(g))) * SizeToCount(Size(g))

Wanted(g) == priv[g] = None /\ Extent[g] > 0 /\ Extent[g] <= GLYPH_MAX_SIZE

(* glyph_cache_preload, of a glyph that is not in the cache: __glyph_cache *)
(* finds slots that were not handed out yet ...                            *)
CacheFresh(g, malloced) ==
  /\ Wanted(g)
  /\ Handed(g) < GLYPH_CACHE_SIZE
  /\ count' = Handed(g) + SizeToCount(Size(g))
  /\ IF malloced
       THEN Place(g, Handed(g), {})
       ELSE UNCHANGED <<priv, glyphs>>
  /\ UNCHANGED behind

(* ... or evicts what is at a random slot.  A glyph_priv of a glyph that   *)
(* goes is used again, otherwise there may be no memory for one.           *)
CacheEvict(g, e, malloced) ==
  LET emptied == EvictedSlots(e, Size(g))
      index   == Masked(e, Size(g))
  IN  /\ Wanted(g)
      /\ Handed(g) >= GLYPH_CACHE_SIZE
      /\ emptied # {} => malloced
      /\ IF malloced
           THEN /\ Place(g, index, emptied)
                /\ behind' = (behind \/ index + SizeToCount(Size(g)) > count)
           ELSE UNCHANGED <<priv, glyphs, behind>>
      /\ UNCHANGED count

(* glyph_cache_remove, for a glyph that is freed.                          *)

(* Mutant: the slot keeps its pointer to the glyph.                        *)
RemoveStays(g) ==
  /\ priv[g] # None
  /\ priv' = [priv EXCEPT ![g] = None]
  /\ UNCHANGED <<glyphs, count, behind>>

Remove(g) ==
  /\ priv[g] # None
  /\ glyphs' = [glyphs EXCEPT ![priv[g].index] = NoGlyph]
  /\ priv' = [priv EXCEPT ![g] = None]
  /\ UNCHANGED <<count, behind>>

-----------------------------------------------------------------------------
(* priv->pos: the first pixel of a slot.                                   *)
Squared == GLYPH_RATIO_SIZE * GLYPH_RATIO_SIZE
PerRow == CACHE_PICTURE_SIZE \div GLYPH_MAX_SIZE

(* Every second bit of a number, from the lowest on, put together.         *)
SecondBits[n \in Nat] == IF n = 0 THEN 0 ELSE (n % 2) + 2 * SecondBits[n \div 4]

(* The bits of the index that choose within a square of GLYPH_MAX_SIZE     *)
(* alternate between x and y, the lowest for the smallest size.            *)
Pos ==
  [index \in Slots |->
    LET square == index \div Squared
        within == index % Squared
    IN  [x |-> (square % PerRow) * GLYPH_MAX_SIZE + GLYPH_MIN_SIZE * SecondBits[within],
         y |-> (square \div PerRow) * GLYPH_MAX_SIZE
                 + GLYPH_MIN_SIZE * SecondBits[within \div 2]]]

-----------------------------------------------------------------------------
(* Properties.                                                             *)

Cached == {g \in Glyphs : priv[g] # None}

(* A glyph and its slot point at each other, so that no slot is left that  *)
(* names a glyph that was freed or that has gone elsewhere.                *)
BackPointers ==
  /\ \A g \in Cached : glyphs[priv[g].index] = g
  /\ \A i \in Slots : glyphs[i] # NoGlyph =>
       priv[glyphs[i]] # None /\ priv[glyphs[i]].index = i

=============================================================================
