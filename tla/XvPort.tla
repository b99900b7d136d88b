-------------------------------- MODULE XvPort --------------------------------
(***************************************************************************)
(* A port of the XVideo adaptor (etnadrm/etnaviv_xv.c) and the bos that it *)
(* holds: the client's image, which it imports for one request, and the    *)
(* bo of the vertical blit, stage1, which it keeps for the next requests   *)
(* and changes for a larger one.  The layout of the image and of stage1 is *)
(* kept too, until an image of another size or format comes.               *)
(*                                                                         *)
(* The server serves one request at a time, so that nobody else comes to   *)
(* the cache of bos in the middle of one, but time goes on.  GPU and bos   *)
(* are done with when a request is: it ends with etna_finish.  Steps of    *)
(* PutImage that fail before they change anything are left out, and so are *)
(* clipping, the scale factors, the vertical blank and the attributes.     *)
(***************************************************************************)
EXTENDS EtnaBo, FiniteSetsExt

CONSTANTS
  NoBo,         \* NULL
  Images,       \* what clients show: [fourcc, width, height], without the
                \* ones of no width or height, of which the clipping leaves nothing
  Heights,      \* the heights that are shown, and at which, after clipping
  PageSize,     \* getpagesize()
  BitsPerPixel, \* drawable->bitsPerPixel, of all windows
  PE20          \* chipMinorFeatures0 has 2DPE20

ASSUME PortAssumption ==
  /\ NoBo \notin Bos
  /\ Heights \subseteq Nat \ {0} /\ PageSize \in Nat \ {0}
  /\ \A im \in Images : im.width \in Nat \ {0} /\ im.height \in Nat \ {0}
  /\ BitsPerPixel \in Nat /\ BitsPerPixel >= 8

VARIABLES
  image,       \* width, height, fourcc and fmt of the port
  stage1_bo,   \* priv->stage1_bo
  stage1_size, \* priv->stage1_size
  usr,         \* PutImage: usr
  s_h,         \* PutImage: s_h, the height of what is shown, in lines
  drw_h,       \* PutImage: drw_h, the height of the drawn box
  at,          \* where PutImage is
  others       \* history: the bos that the rest of the server holds

port == <<image, stage1_bo, stage1_size, usr, s_h, drw_h, at>>
xvVars == <<vars, port, others>>

NoImage == [fourcc |-> "none", width |-> 0, height |-> 0]

XvInit ==
  /\ Init
  /\ image = NoImage
  /\ stage1_bo = NoBo /\ stage1_size = 0
  /\ usr = NoBo /\ s_h = 0 /\ drw_h = 0
  /\ at = "idle"
  /\ others = {}

-----------------------------------------------------------------------------
(* Layouts.                                                                *)

Align(n, a) == ((n + a - 1) \div a) * a
EtnavivPitch(width, bpp) == Align(width * (bpp \div 8), 16)

Planar == {"YV12", "I420"}
Yuv == Planar \union {"YUY2", "UYVY"}
Bpp(im) == IF im.fourcc \in Yuv THEN 16 ELSE 32

(* The planes of an image, [offset, size].                                 *)
Planes(im) ==
  IF im.fourcc \in Planar
    THEN LET y == Align(im.width, 16) * im.height
             u == Align(im.width \div 2, 8) * (im.height \div 2)
             second == Align(y, 64)
         IN  <<[offset |-> 0, size |-> y], [offset |-> second, size |-> u],
               [offset |-> Align(second + u, 64), size |-> u]>>
    ELSE <<[offset |-> 0, size |-> EtnavivPitch(im.width, Bpp(im)) * im.height]>>

(* etnaviv_get_fmt_info: what it returns                                   *)
ImageSize(im) ==
  LET p == Planes(im)
  IN  Align(IF im.fourcc \in Planar THEN p[1].size + p[2].size + p[3].size ELSE p[1].size,
            PageSize)

(* etnaviv_configure_format: the pitch of stage1                           *)
Stage1Pitch(im) ==
  EtnavivPitch(im.width,
    IF im.fourcc \notin Yuv THEN Max({BitsPerPixel, Bpp(im)})
    ELSE IF PE20 THEN 16 ELSE BitsPerPixel)

(* The vertical scaling stage: is it there, and what does it write?        *)
Scaled == s_h # drw_h
Stage1Needed == Stage1Pitch(image) * drw_h

-----------------------------------------------------------------------------
(* etnaviv_PutImage, up to the layout: the clipping leaves s lines of the  *)
(* image for h of the window, or ends it.                                  *)
PutImage(im, s, h) ==
  /\ up /\ at = "idle"
  /\ s <= im.height
  /\ image' = im
  /\ \/ at' = "import" /\ s_h' = s /\ drw_h' = h
     \/ UNCHANGED <<at, s_h, drw_h>>
  /\ UNCHANGED <<vars, stage1_bo, stage1_size, usr, others>>

(* It returns, also from bad_alloc.                                        *)
Returns ==
  /\ at' = "idle" /\ s_h' = 0 /\ drw_h' = 0 /\ usr' = NoBo

(* The memory of the client ...                                            *)
ImportUsermem(o) ==
  /\ at = "import"
  /\ BoImport(o, ImageSize(image))
  /\ usr' = o
  /\ at' = IF Scaled THEN "stage1" ELSE "blit"
  /\ UNCHANGED <<image, stage1_bo, stage1_size, s_h, drw_h, others>>

(* ... or the bo that it named, which may be too small ...                 *)
ImportXvbo(o, bytes) ==
  /\ at = "import"
  /\ BoImport(o, bytes)
  /\ usr' = o
  /\ at' = IF bytes < ImageSize(image) THEN "bad_alloc"
           ELSE IF Scaled THEN "stage1" ELSE "blit"
  /\ UNCHANGED <<image, stage1_bo, stage1_size, s_h, drw_h, others>>

(* ... or nothing.                                                         *)
ImportFails ==
  /\ at = "import"
  /\ Returns
  /\ UNCHANGED <<vars, image, stage1_bo, stage1_size, others>>

(* A larger stage1 is needed: etnaviv_realloc_stage1, and the old one goes *)
(* first.                                                                  *)

(* Mutant: the size of an image of the same height is not looked at again. *)
ReallocRows ==
  /\ at = "stage1"
  /\ stage1_bo = NoBo \/ drw_h * 16 > stage1_size

Realloc ==
  /\ at = "stage1"
  /\ Stage1Needed > stage1_size

ReallocDel ==
  /\ Realloc
  /\ IF stage1_bo = NoBo THEN UNCHANGED vars ELSE BoDel(stage1_bo)
  /\ stage1_bo' = NoBo
  /\ at' = "realloc"
  /\ UNCHANGED <<image, stage1_size, usr, s_h, drw_h, others>>

ReallocNew ==
  /\ at = "realloc"
  /\ \/ BoNewCached(Stage1Needed)
     \/ \E o \in Bos : BoNew(o, Stage1Needed)
  /\ stage1_bo' = CHOOSE o \in Bos : ref'[o] > ref[o]
  /\ stage1_size' = Stage1Needed
  /\ at' = "blit"
  /\ UNCHANGED <<image, usr, s_h, drw_h, others>>

ReallocFails ==
  /\ at = "realloc"
  /\ stage1_size' = 0
  /\ at' = "bad_alloc"
  /\ UNCHANGED <<vars, image, stage1_bo, usr, s_h, drw_h, others>>

(* stage1 is large enough.                                                 *)
Stage1Kept ==
  /\ at = "stage1" /\ ~ Realloc
  /\ at' = "blit"
  /\ UNCHANGED <<vars, image, stage1_bo, stage1_size, usr, s_h, drw_h, others>>

(* The blits are done, or not asked for: the import goes.                  *)
Done ==
  /\ at \in {"blit", "bad_alloc"}
  /\ BoDel(usr)
  /\ Returns
  /\ UNCHANGED <<image, stage1_bo, stage1_size, others>>

(* etnaviv_StopVideo, also from etnaviv_xv_CloseScreen                     *)
StopVideo ==
  /\ up /\ at = "idle"
  /\ IF stage1_bo = NoBo THEN UNCHANGED vars ELSE BoDel(stage1_bo)
  /\ stage1_bo' = NoBo /\ stage1_size' = 0
  /\ image' = NoImage
  /\ UNCHANGED <<usr, s_h, drw_h, at, others>>

(* The rest of the server, which does not know the bos of the port.        *)
Others ==
  /\ at = "idle"
  /\ \/ \E bytes \in Sizes : BoNewCached(bytes)
     \/ \E o \in Bos, bytes \in Sizes :
          BoNew(o, bytes) \/ BoImport(o, bytes) \/ BoFromDmabuf(o, bytes)
     \/ \E o \in others : BoFlink(o) \/ BoToDmabuf(o) \/ BoRef(o) \/ BoDel(o)
     \/ BoCacheFini
  /\ others' = {o \in Bos : ref'[o] > 0} \ {stage1_bo}
  /\ UNCHANGED port

Time == Tick /\ UNCHANGED <<port, others>>

XvNext ==
  \/ Time \/ Others
  \/ \E im \in Images, s, h \in Heights : PutImage(im, s, h)
  \/ \E o \in Bos : ImportUsermem(o) \/ \E bytes \in Sizes : ImportXvbo(o, bytes)
  \/ ImportFails
  \/ ReallocDel \/ ReallocNew \/ ReallocFails \/ Stage1Kept
  \/ Done \/ StopVideo

XvSpec == XvInit /\ [][XvNext]_xvVars

-----------------------------------------------------------------------------
(* Properties.                                                             *)

(* The planes end in the memory that the client was told to give, unless   *)
(* the engine's alignment has moved one of them.                           *)
PlanesInside(im) ==
  (\A i \in DOMAIN Planes(im) : Planes(im)[i].size % 64 = 0) =>
    \A i \in DOMAIN Planes(im) :
      Planes(im)[i].offset + Planes(im)[i].size <= ImageSize(im)

(* What the blits read and write are bos that are there and large enough   *)
(* for the layout of this request, whichever requests, failures and stops  *)
(* were before it; and of the bos in use each is the server's or the       *)
(* port's, so that no request leaves one behind.                           *)
BlitsInside ==
  /\ at = "blit" =>
       /\ ref[usr] > 0 /\ size[usr] >= ImageSize(image) /\ PlanesInside(image)
       /\ Scaled => stage1_bo # NoBo /\ ref[stage1_bo] > 0
                    /\ size[stage1_bo] >= Stage1Needed
  /\ {o \in Bos : ref[o] > 0} = others \union ({stage1_bo, usr} \ {NoBo})
  /\ stage1_bo \notin others

=============================================================================
