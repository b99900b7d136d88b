------------------------------ MODULE Composite ------------------------------
(***************************************************************************)
(* How a Render request, dst := (src IN mask) OP dst, is reduced to blits  *)
(* of the 2D engine (etnadrm/etnaviv_render.c): the blend modes of the     *)
(* operator, the workarounds for formats without alpha, the reduction of a *)
(* constant mask to the engine's global alpha, the source and mask that    *)
(* are first put together in a temporary pixmap, and what is left to the   *)
(* server's software.                                                      *)
(*                                                                         *)
(* A pixmap is one pixel, since the engine treats all alike, and a pixel   *)
(* has alpha and one colour, since it treats the colours alike.  Channels  *)
(* are numbers up to One, a multiple of what the products of three halves  *)
(* need.  A word is a pixel as it is stored: which of its halves is the    *)
(* alpha, if any, is a matter of the format, of which a pixmap may be      *)
(* given several.  Positions, transformations and regions are in reach: of *)
(* a picture: can the engine read the pixel, can only the software, does   *)
(* the pixel lie outside of the drawable, has the picture an alpha map?    *)
(***************************************************************************)
EXTENDS Naturals, FiniteSetsExt

CONSTANTS
  Words,    \* what a client may have drawn, [hi, lo]
  Sources,  \* the pictures that a client may name, without their pixmaps
  Masks,    \* (pix = 0): source, mask or NoPicture,
  Dsts,     \* and destination
  Places,   \* the pixmaps of the three, <<source, mask, destination>>
  A8Target  \* does the engine have the feature 2D_A8_TARGET?

One == 16
Half == One \div 2
Mul(a, b) == (a * b) \div One

VARIABLES
  pe20,        \* does the engine have the feature 2DPE20?
  word,        \* what is in each pixmap
  pict_format, \* vPix->pict_format of each pixmap
  temp,        \* state.pPixTemp, its content, or NoTemp
  req,         \* the request: operator and pictures
  dst_format,  \* state.dst.format
  final_blend, \* state.final_blend
  final_src,   \* what state.final_op reads: the format, and is it temp?
  pc,          \* where the request is
  before       \* history: what was in the pixmaps at the request

Pixmaps == 1 .. 3
NoTemp == [hi |-> One + 1, lo |-> 0]
NoPicture == [kind |-> "none", fmt |-> "a8", reach |-> "gpu", comp |-> FALSE, pix |-> 0]

renderVars == <<pe20, word, pict_format, temp, req, dst_format, final_blend, final_src, pc, before>>

-----------------------------------------------------------------------------
(* Formats.                                                                *)

Format(f, s) == [format |-> f, swizzle |-> s]

(* etnaviv_pict_format, PICT_FORMAT_A, PICT_FORMAT_RGB.  The formats with  *)
(* exchanged colours and with four bits behave like these.                 *)
PictFormat ==
  [a8r8g8b8 |-> Format("A8R8G8B8", "ARGB"), x8r8g8b8 |-> Format("X8R8G8B8", "ARGB"),
   b8g8r8a8 |-> Format("A8R8G8B8", "BGRA"), b8g8r8x8 |-> Format("X8R8G8B8", "BGRA"),
   a1r5g5b5 |-> Format("A1R5G5B5", "ARGB"), x1r5g5b5 |-> Format("X1R5G5B5", "ARGB"),
   r5g6b5   |-> Format("R5G6B5", "ARGB"),   a8       |-> Format("A8", "ARGB")]
PictFormats == DOMAIN PictFormat

AlphaFormats == {"A8R8G8B8", "A1R5G5B5", "A8"}
HasA(f) == PictFormat[f].format \in AlphaFormats
HasRGB(f) == f # "a8"

(* The size of a pixmap's pixel allows these formats.                      *)
Depth(f) == IF f \in {"a8r8g8b8", "b8g8r8a8"} THEN 32 ELSE
            IF f \in {"x8r8g8b8", "b8g8r8x8"} THEN 24 ELSE
            IF f = "x1r5g5b5" THEN 15 ELSE IF f = "a8" THEN 8 ELSE 16

(* etnaviv_src_format_valid, etnaviv_dst_format_valid                      *)
SrcFormatValid(fmt) == (fmt.swizzle = "ARGB" /\ fmt.format # "A8") \/ pe20
DstFormatValid(fmt) == (fmt.swizzle = "ARGB" \/ pe20) /\ (fmt.format = "A8" => A8Target)

(* etnaviv_workaround_nonalpha: does it apply, and what is it then?        *)

NonAlpha(fmt) == fmt.format \notin AlphaFormats
WithAlpha(fmt) ==
  CASE fmt.format = "X8R8G8B8" -> Format("A8R8G8B8", fmt.swizzle)
    [] fmt.format = "X1R5G5B5" -> Format("A1R5G5B5", fmt.swizzle)
    [] OTHER                   -> fmt

-----------------------------------------------------------------------------
(* The engine, as the comments of the code describe it.                    *)

TopBit(a) == IF a >= Half THEN One ELSE 0

(* The bits where a format has its alpha, or the bits it leaves unused.    *)
AlphaBits(fmt, w) ==
  IF fmt.format \in {"A1R5G5B5", "X1R5G5B5"} THEN TopBit(w.hi) ELSE
  IF fmt.swizzle = "BGRA" THEN w.lo ELSE w.hi

Read(fmt, w) ==
  [a |-> IF NonAlpha(fmt) THEN One ELSE AlphaBits(fmt, w),
   c |-> IF fmt.format = "A8" THEN 0 ELSE IF fmt.swizzle = "BGRA" THEN w.hi ELSE w.lo]

(* A destination without alpha: bits 31:24 are taken to be alpha, and 1.0. *)
ReadDst(fmt, w) ==
  IF NonAlpha(fmt) /\ fmt.swizzle = "BGRA" THEN [a |-> One, c |-> One] ELSE Read(fmt, w)

Write(fmt, v) ==
  LET a == IF fmt.format = "A1R5G5B5" THEN TopBit(v.a) ELSE IF NonAlpha(fmt) THEN 0 ELSE v.a
      c == IF fmt.format = "A8" THEN 0 ELSE v.c
  IN  IF fmt.swizzle = "BGRA" THEN [hi |-> c, lo |-> a] ELSE [hi |-> a, lo |-> c]

(* The source's alpha: replaced or scaled by the global one.  For a format *)
(* without alpha the mode is ignored, or scales the unused bits.           *)
SrcAlpha(b, fmt, w) ==
  CASE b.src_alpha_mode = "SCALED" -> Mul(AlphaBits(fmt, w), b.src_alpha)
    [] b.src_alpha_mode = "GLOBAL" /\ ~NonAlpha(fmt) -> b.src_alpha
    [] OTHER -> Read(fmt, w).a

(* PE1.0 limits what it takes of the source's alpha to the destination's.  *)
Limited(fmt, a) ==
  IF pe20 THEN a ELSE
  IF fmt.format = "R5G6B5" THEN One ELSE
  IF fmt.format \in {"A1R5G5B5", "X1R5G5B5"} THEN TopBit(a) ELSE a

(* A factor, from the other side's alpha and colour.                       *)
Factor(mode, alpha, colour) ==
  CASE mode = "ZERO"     -> 0
    [] mode = "ONE"      -> One
    [] mode = "NORMAL"   -> alpha
    [] mode = "INVERSED" -> One - alpha
    [] mode = "COLOR"    -> colour

(* A blit with blend b from a source word to a destination word.           *)
GpuBlend(b, sfmt, s, dfmt, d) ==
  LET sa == SrcAlpha(b, sfmt, s)
      sc == Read(sfmt, s).c
      dv == ReadDst(dfmt, d)
      da == IF b.dst_alpha_mode = "GLOBAL" THEN b.dst_alpha ELSE dv.a
      fa == Factor(b.src_mode, da, da)
      fb == Limited(dfmt, sa)
  IN  Write(dfmt,
        [a |-> Min({One, Mul(sa, fa) + Mul(dv.a, Factor(b.dst_mode, fb, fb))}),
         c |-> Min({One, Mul(sc, fa) + Mul(dv.c, Factor(b.dst_mode, fb, sc))})])

Blend(s, d) ==
  [src_mode |-> s, dst_mode |-> d, src_alpha_mode |-> "NORMAL", src_alpha |-> 0,
   dst_alpha_mode |-> "NORMAL", dst_alpha |-> 0]

(* etnaviv_composite_op                                                    *)

CompositeOp ==
  [Clear   |-> Blend("ZERO", "ZERO"),     Src         |-> Blend("ONE", "ZERO"),
   Dst     |-> Blend("ZERO", "ONE"),      Over        |-> Blend("ONE", "INVERSED"),
   OverReverse |-> Blend("INVERSED", "ONE"), In       |-> Blend("NORMAL", "ZERO"),
   InReverse |-> Blend("ZERO", "NORMAL"), Out         |-> Blend("INVERSED", "ZERO"),
   OutReverse |-> Blend("ZERO", "INVERSED"), Atop     |-> Blend("NORMAL", "INVERSED"),
   AtopReverse |-> Blend("INVERSED", "NORMAL"), Xor   |-> Blend("INVERSED", "INVERSED"),
   Add     |-> Blend("ONE", "ONE")]
Ops == DOMAIN CompositeOp


-----------------------------------------------------------------------------
(* Pictures: a drawable, one of 1x1 that is repeated, a solid fill or a    *)
(* gradient, the last two without a drawable and as if of a8r8g8b8.        *)

Pictures ==
  [kind : {"none", "drawable", "tile", "fill", "gradient"}, fmt : PictFormats,
   reach : {"gpu", "cpu", "outside", "alphamap"}, comp : BOOLEAN, pix : Pixmaps \union {0}]

(* etnaviv_pict_solid_argb                                                 *)
Solid(p) == p.kind \in {"tile", "fill"}
Argb(p) == Read(PictFormat[p.fmt], word[p.pix])

Component(m) == m.comp /\ HasRGB(m.fmt)

(* What a client may have: a picture without a drawable counts as a8r8g8b8, *)
(* and one that is repeated has no outside.                                *)
RealPictures ==
  {p \in Pictures : /\ p.kind # "none"
                    /\ p.kind \in {"fill", "gradient"} => p.fmt = "a8r8g8b8"
                    /\ Solid(p) => p.reach # "outside"}

ASSUME EngineAssumption == A8Target \in BOOLEAN
ASSUME WordsAssumption == Words \subseteq [hi : 0 .. One, lo : 0 .. One]
ASSUME PicturesAssumption ==
  /\ Sources \subseteq RealPictures
  /\ Masks \subseteq RealPictures \union {NoPicture}
  /\ Dsts \subseteq {p \in RealPictures : p.kind = "drawable" /\ p.reach = "gpu"}
  /\ Places \subseteq Pixmaps \X Pixmaps \X Pixmaps

RenderTypeOK ==
  /\ pe20 \in BOOLEAN
  /\ {word[p] : p \in Pixmaps} \union {before[p] : p \in Pixmaps} \union {temp}
       \subseteq [hi : 0 .. One + 1, lo : 0 .. One]
  /\ DOMAIN pict_format = Pixmaps
  /\ req.op \in Ops /\ {req.src, req.mask, req.dst} \subseteq Pictures
  /\ pc \in {"idle", "drawn", "clear", "srconly", "masked", "maskblend", "final", "unaccel", "done"}

Blank == [p \in Pixmaps |-> [hi |-> 0, lo |-> 0]]
NoRequest == [op |-> "Clear", src |-> NoPicture, mask |-> NoPicture, dst |-> NoPicture]

NoneAsked ==
  /\ word = Blank /\ before = Blank
  /\ pict_format = [p \in Pixmaps |-> PictFormat.a8]
  /\ temp = NoTemp /\ req = NoRequest
  /\ dst_format = PictFormat.a8 /\ final_src = [temp |-> TRUE, fmt |-> PictFormat.a8]
  /\ final_blend = CompositeOp.Clear
  /\ pc = "idle"

RenderInit == pe20 \in BOOLEAN /\ NoneAsked

(* Between the requests clients draw.                                      *)
ClientDraw ==
  /\ pc = "idle" /\ pc' = "drawn"
  /\ word' \in [Pixmaps -> Words]
  /\ UNCHANGED <<pe20, pict_format, temp, req, dst_format, final_blend, final_src, before>>

-----------------------------------------------------------------------------
(* The blend of the operator for a destination: one without alpha has 1.0. *)

DstBlend(o, fmt) ==
  LET b == CompositeOp[o]
  IN  IF ~NonAlpha(fmt) \/ o = "Clear" THEN b ELSE
      [b EXCEPT !.src_mode = CASE b.src_mode = "NORMAL"   -> "ONE"
                               [] b.src_mode = "INVERSED" -> "ZERO"
                               [] OTHER                   -> b.src_mode]

(* etnaviv_op_uses_source_alpha                                            *)
UsesSourceAlpha(b) == b.dst_mode \notin {"ZERO", "ONE"}

(* Can the engine do this to the destination?                              *)

DstAccepted(o, fmt) ==
  /\ DstFormatValid(fmt)
  /\ NonAlpha(fmt) /\ o # "Clear" /\ ~pe20 /\ WithAlpha(fmt).format # "A8R8G8B8"
       => ~UsesSourceAlpha(DstBlend(o, fmt))

(* etnaviv_accel_reduce_mask, for a mask of constant alpha: the alpha is   *)
(* used for the destination's, and scales or replaces the source's.        *)
GlobalAlpha(b, alpha, scaled) ==
  LET fa == b.src_mode \in {"NORMAL", "ONE"}
      fb == b.dst_mode \in {"NORMAL", "INVERSED"}
  IN  [src_mode |-> IF fa THEN "NORMAL" ELSE "ZERO",
       dst_mode |-> b.dst_mode,
       dst_alpha_mode |-> IF fa THEN "GLOBAL" ELSE "NORMAL",
       dst_alpha |-> IF fa THEN alpha ELSE 0,
       src_alpha_mode |-> IF ~fb THEN "NORMAL" ELSE IF scaled THEN "SCALED" ELSE "GLOBAL",
       src_alpha |-> IF fb THEN alpha ELSE 0]

(* The blend without the mask, or none if it cannot be reduced.            *)
ReduceMask(b, r) ==
  LET m == r.mask
      white == Argb(m) = [a |-> One, c |-> One]
  IN  IF m = NoPicture   THEN {b} ELSE
      IF Component(m)    THEN IF Solid(m) /\ white THEN {b} ELSE {} ELSE
      IF ~HasA(m.fmt)    THEN {b} ELSE
      IF ~Solid(m)       THEN {} ELSE
      IF Argb(m).a = One THEN {b} ELSE
      IF b.src_mode # "ZERO" /\ HasA(r.dst.fmt) THEN {}
        ELSE {GlobalAlpha(b, Argb(m).a, HasA(r.src.fmt))}

(* Pictures on one pixmap have its depth and size.                         *)
Together(p, q) ==
  p.pix = q.pix => /\ {p.kind, q.kind} \in {{"drawable"}, {"tile"}}
                   /\ Depth(p.fmt) = Depth(q.fmt)

(* etnaviv_Composite and etnaviv_accel_Composite, up to the switch between *)
(* their three ways.  A destination that has an alpha map or no bo, and an *)
(* operator of the disjoint kinds, are left to the server at once.         *)
Composite(r) ==
  LET fmt == PictFormat[r.dst.fmt]
      b   == DstBlend(r.op, fmt)
      rs  == ReduceMask(b, r)
  IN  /\ pc = "drawn"
      /\ Together(r.src, r.dst)
      /\ r.mask # NoPicture => Together(r.src, r.mask) /\ Together(r.mask, r.dst)
      /\ req' = r /\ before' = word
      /\ pict_format' = [pict_format EXCEPT ![r.dst.pix] = fmt]
      /\ dst_format' = WithAlpha(fmt)
      /\ IF ~DstAccepted(r.op, fmt) THEN pc' = "unaccel" /\ final_blend' = b ELSE
         IF r.op = "Clear"          THEN pc' = "clear" /\ final_blend' = b ELSE
         IF rs # {}                 THEN pc' = "srconly" /\ final_blend' \in rs
                                    ELSE pc' = "masked" /\ final_blend' = b
      /\ UNCHANGED <<pe20, word, temp, final_src>>

-----------------------------------------------------------------------------
(* What the Render extension asks for: factors of the operator, and the    *)
(* destination from source, mask and destination.                          *)

RenderFa(o, da) ==
  CASE o \in {"Clear", "Dst", "InReverse", "OutReverse"}     -> 0
    [] o \in {"Src", "Over", "Add"}                          -> One
    [] o \in {"In", "Atop"}                                  -> da
    [] o \in {"OverReverse", "Out", "AtopReverse", "Xor"}    -> One - da

RenderFb(o, sa) ==
  CASE o \in {"Clear", "Src", "In", "Out"}                   -> 0
    [] o \in {"Dst", "OverReverse", "Add"}                   -> One
    [] o \in {"InReverse", "AtopReverse"}                    -> sa
    [] o \in {"Over", "OutReverse", "Atop", "Xor"}           -> One - sa

(* A picture's pixel: none outside of a drawable, and alpha from its map.  *)
Pixel(p, w) ==
  LET v == Read(PictFormat[p.fmt], w[p.pix])
  IN  CASE p.reach = "outside"  -> [a |-> 0, c |-> 0]
        [] p.reach = "alphamap" -> [v EXCEPT !.a = Half]
        [] OTHER                -> v

(* src IN mask, and the alpha that goes with the colour.                   *)
In(s, m, w) ==
  LET v == Pixel(s, w)
      k == IF m = NoPicture THEN [a |-> One, c |-> One] ELSE
           IF Component(m) THEN Pixel(m, w) ELSE
           [a |-> Pixel(m, w).a, c |-> Pixel(m, w).a]
  IN  [a |-> Mul(v.a, k.a), c |-> Mul(v.c, k.c), ca |-> Mul(v.a, k.c)]

Render(r, w) ==
  LET v == In(r.src, r.mask, w)
      d == Pixel(r.dst, w)
      f == RenderFa(r.op, d.a)
  IN  [a |-> Min({One, Mul(v.a, f) + Mul(d.a, RenderFb(r.op, v.a))}),
       c |-> Min({One, Mul(v.c, f) + Mul(d.c, RenderFb(r.op, v.ca))})]

-----------------------------------------------------------------------------
(* The source of the final blend.                                          *)

Argb8888 == PictFormat.a8r8g8b8

(* etnaviv_acquire_drawable_picture: is it one the engine can read?  One   *)
(* of 1x1 may be all that is asked for.                                    *)
Acquired(p) ==
  p.kind \in {"drawable", "tile"} /\ p.reach = "gpu" /\ SrcFormatValid(PictFormat[p.fmt])

(* etnaviv_acquire_src: is the source read where it is?  A constant one is *)
(* filled into the temporary pixmap before that is looked at.              *)
InPlace(s) == ~Solid(s) /\ Acquired(s)

(* etnaviv_set_format of a picture with a drawable                         *)
SetFormat(p, formats) ==
  [q \in Pixmaps |-> IF p.kind \in {"drawable", "tile"} /\ q = p.pix
                       THEN PictFormat[p.fmt] ELSE formats[q]]
SetSrcFormat(s, formats) == IF Solid(s) THEN formats ELSE SetFormat(s, formats)

(* What the software puts into the temporary pixmap, by an OP of Src       *)
(* (etnaviv_composite_to_pixmap).                                          *)
InSoftware(m) == Write(Argb8888, In(req.src, m, word))

(* A step fails, an allocation or a mapping.  What it did to pict_format   *)
(* and to the temporary pixmap is not read again.                          *)
Fails ==
  /\ pc \in {"clear", "srconly", "masked", "maskblend"} /\ pc' = "unaccel"
  /\ UNCHANGED <<pe20, word, pict_format, temp, req, dst_format, final_blend, final_src, before>>

(* etnaviv_Composite_Clear                                                 *)
Clear ==
  /\ pc = "clear" /\ pc' = "final"
  /\ final_src' = [temp |-> FALSE, pix |-> req.dst.pix, fmt |-> dst_format]
  /\ UNCHANGED <<pe20, word, pict_format, temp, req, dst_format, final_blend, before>>

(* The workaround for a source without alpha: a global alpha of 1.0, if    *)
(* the mask's is not there.                                                *)

(* Mutant: it replaces the alpha of a mask.                                *)
OpaqueAlways(b, fmt) ==
  IF NonAlpha(fmt) THEN [b EXCEPT !.src_alpha_mode = "GLOBAL", !.src_alpha = One] ELSE b

Opaque(b, fmt) ==
  IF NonAlpha(fmt) /\ b.src_alpha_mode = "NORMAL"
    THEN [b EXCEPT !.src_alpha_mode = "GLOBAL", !.src_alpha = One] ELSE b

(* etnaviv_accel_composite_srconly: a solid source is filled into the      *)
(* temporary pixmap, one the engine cannot read is put there in software.  *)
SrcOnly ==
  LET s   == req.src
      fmt == PictFormat[s.fmt]
  IN  /\ pc = "srconly"
      /\ IF s.reach = "alphamap" \/ s.kind = "gradient"
           THEN pc' = "unaccel" /\ UNCHANGED <<pict_format, temp, final_blend, final_src>>
           ELSE /\ pc' = "final"
                /\ IF InPlace(s)
                     THEN /\ pict_format' = [SetFormat(s, pict_format) EXCEPT ![s.pix] = WithAlpha(@)]
                          /\ final_src' = [temp |-> FALSE, pix |-> s.pix, fmt |-> WithAlpha(fmt)]
                          /\ final_blend' = Opaque(final_blend, fmt)
                          /\ UNCHANGED temp
                     ELSE /\ pict_format' = SetSrcFormat(s, pict_format)
                          /\ temp' = IF Solid(s) THEN Write(Argb8888, Argb(s))
                                                 ELSE InSoftware(NoPicture)
                          /\ final_src' = [temp |-> TRUE, fmt |-> Argb8888]
                          /\ UNCHANGED final_blend
      /\ UNCHANGED <<pe20, word, req, dst_format, before>>

(* etnaviv_accel_composite_masked, up to its etnaviv_blend: the source is  *)
(* filled or copied into the temporary pixmap, where the mask is blended   *)
(* with it.  If the engine cannot, or the source cannot be had, which may  *)
(* always be, the software puts both there.                                *)
MaskTried ==
  /\ req.src.reach # "alphamap" /\ req.mask.reach # "alphamap"
  /\ req.src.kind # "gradient"
  /\ Component(req.mask) => pe20

(* etnaviv_acquire_src with force_vtemp                                    *)
CopiedSource(formats) ==
  LET s == req.src
  IN  IF Solid(s) THEN Write(Argb8888, Argb(s)) ELSE
      IF Acquired(s)
        THEN GpuBlend(Opaque(CompositeOp.Src, formats[s.pix]), WithAlpha(formats[s.pix]),
                      word[s.pix], Argb8888, [hi |-> 0, lo |-> 0])
        ELSE InSoftware(NoPicture)

Masked ==
  LET s == req.src
      m == req.mask
      formats == SetSrcFormat(s, SetFormat(m, pict_format))
  IN  /\ pc = "masked"
      /\ \/ /\ MaskTried /\ Acquired(m)
            /\ pict_format' = IF InPlace(s) THEN [formats EXCEPT ![s.pix] = WithAlpha(@)] ELSE formats
            /\ temp' = CopiedSource(formats)
            /\ pc' = "maskblend" /\ UNCHANGED final_src
         \/ /\ temp' = InSoftware(m)
            /\ pict_format' = IF ~MaskTried THEN pict_format ELSE
                              IF Acquired(m) THEN formats ELSE SetFormat(m, pict_format)
            /\ pc' = "final" /\ final_src' = [temp |-> TRUE, fmt |-> Argb8888]
      /\ UNCHANGED <<pe20, word, req, dst_format, final_blend, before>>

(* ... and the blend, which takes the mask in the format that its pixmap   *)
(* has by now.                                                             *)
MaskOp == IF Component(req.mask) THEN Blend("ZERO", "COLOR") ELSE CompositeOp.InReverse

MaskBlend ==
  /\ pc = "maskblend" /\ pc' = "final"
  /\ temp' = GpuBlend(MaskOp, pict_format[req.mask.pix], word[req.mask.pix], Argb8888, temp)
  /\ final_src' = [temp |-> TRUE, fmt |-> Argb8888]
  /\ UNCHANGED <<pe20, word, pict_format, req, dst_format, final_blend, before>>

-----------------------------------------------------------------------------
(* The final blend, after which the temporary pixmap is destroyed ...      *)
Final ==
  LET s == IF final_src.temp THEN temp ELSE word[final_src.pix]
      d == req.dst.pix
  IN  /\ pc = "final" /\ pc' = "done"
      /\ word' = [word EXCEPT ![d] = GpuBlend(final_blend, final_src.fmt, s, dst_format, @)]
      /\ temp' = NoTemp
      /\ UNCHANGED <<pe20, pict_format, req, dst_format, final_blend, final_src, before>>

(* ... or the server's Composite (unaccel_Composite).                      *)
Unaccel ==
  LET d == req.dst
  IN  /\ pc = "unaccel" /\ pc' = "done"
      /\ word' = [word EXCEPT ![d.pix] = Write(PictFormat[d.fmt], Render(req, word))]
      /\ temp' = NoTemp
      /\ UNCHANGED <<pe20, pict_format, req, dst_format, final_blend, final_src, before>>

Return ==
  /\ pc = "done"
  /\ word' = Blank /\ before' = Blank
  /\ pict_format' = [p \in Pixmaps |-> PictFormat.a8]
  /\ req' = NoRequest /\ dst_format' = PictFormat.a8
  /\ final_src' = [temp |-> TRUE, fmt |-> PictFormat.a8] /\ final_blend' = CompositeOp.Clear
  /\ pc' = "idle" /\ UNCHANGED <<pe20, temp>>

Placed(p, i) == IF p = NoPicture THEN p ELSE [p EXCEPT !.pix = i]

RenderNext ==
  \/ ClientDraw \/ Clear \/ SrcOnly \/ Masked \/ MaskBlend \/ Fails \/ Final \/ Unaccel \/ Return
  \/ /\ pc = "drawn"
     /\ \E o \in Ops, s \in Sources, m \in Masks, d \in Dsts, at \in Places :
          Composite([op |-> o, src |-> Placed(s, at[1]), mask |-> Placed(m, at[2]),
                     dst |-> Placed(d, at[3])])

RenderSpec == RenderInit /\ [][RenderNext]_renderVars

-----------------------------------------------------------------------------
(* Properties.                                                             *)

(* The requests that the engine is given though it cannot do them exactly: *)
(* a component mask under an operator that needs the source's alpha of     *)
(* each colour; a mask on the pixmap of the source, whose format it gets;  *)
(* a mask thought constant or opaque whose alpha is in a map, or whose     *)
(* drawable does not reach; PE1.0 with a one bit alpha; and the alpha of a *)
(* constant mask that replaces the source's, where the source is of r5g6b5 *)
(* or, though of a format without alpha, does not cover the destination.   *)
ComponentAlpha == Component(req.mask) /\ UsesSourceAlpha(CompositeOp[req.op])
SharedMask ==
  /\ req.mask # NoPicture /\ req.mask.pix = req.src.pix
  /\ req.mask.fmt # req.src.fmt \/ (Component(req.mask) /\ ~HasA(req.src.fmt))
MaskMisread ==
  /\ req.mask # NoPicture
  /\ \/ req.mask.reach = "alphamap" /\ (Solid(req.mask) \/ ~HasA(req.mask.fmt))
     \/ req.mask.reach = "outside" /\ ~HasA(req.mask.fmt)
OneBitAlpha == ~pe20 /\ req.dst.fmt = "a1r5g5b5" /\ UsesSourceAlpha(CompositeOp[req.op])
GlobalMask ==
  /\ req.mask # NoPicture /\ Solid(req.mask) /\ UsesSourceAlpha(CompositeOp[req.op])
  /\ req.src.fmt = "r5g6b5" \/ (req.src.reach = "outside" /\ ~HasA(req.src.fmt))
Inexact == ComponentAlpha \/ SharedMask \/ MaskMisread \/ OneBitAlpha \/ GlobalMask

(* However a request is done, by fills, copies, mask blends and global     *)
(* alpha, or in software after any of them, the destination is what Render *)
(* asks for, and nothing else that a client sees has changed.              *)
RenderEquation ==
  pc = "done" =>
    /\ \A p \in Pixmaps \ {req.dst.pix} : word[p] = before[p]
    /\ LET fmt == PictFormat[req.dst.fmt]
       IN  Inexact \/ Read(fmt, word[req.dst.pix]) = Read(fmt, Write(fmt, Render(req, before)))

=============================================================================
