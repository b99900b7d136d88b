------------------------------ MODULE Scanout -------------------------------
(***************************************************************************)
(* What the CRTCs scan and who holds it (src/armada_drm.c and the mode set *)
(* of src/common_drm.c): the bo and the framebuffer of the screen over     *)
(* ScreenInit, a resize, page flips and CloseScreen, the shadows of the    *)
(* CRTCs that are rotated, and the scanout pixmaps of DRI clients.         *)
(*                                                                         *)
(* common_drm_crtc_apply runs for one CRTC after another, in a mode set,   *)
(* a resize or as the VT is entered; its two halves are actions, and the   *)
(* call that it runs in, with the CRTCs to come, is in call and todo.      *)
(* A page flip is one request to all CRTCs here; its requests and events   *)
(* are in PageFlip, the buffer manager is in ArmadaBo.  A resize and an    *)
(* allocation that fail take back what they did and change nothing.        *)
(***************************************************************************)
EXTENDS Naturals, FiniteSetsExt

CONSTANTS
  Crtcs, NoCrtc, \* xf86CrtcPtr
  Bos, NoBo,     \* struct drm_armada_bo
  Fbs, NoFb,     \* the framebuffer ids of the kernel, numbers
  Pixmaps,       \* the scanout pixmaps of clients
  Screen         \* the pixmap of the screen

ASSUME CrtcsAssumption == IsFiniteSet(Crtcs) /\ NoCrtc \notin Crtcs
ASSUME BosAssumption == NoBo \notin Bos
ASSUME FbsAssumption == Fbs \subseteq Nat /\ NoFb \notin Fbs
ASSUME PixmapsAssumption == IsFiniteSet(Pixmaps) /\ Screen \notin Pixmaps

VARIABLES
  ref,           \* bo->ref, 0 if the bo is free
  fbs,           \* the kernel's framebuffers and their bos
  scan,          \* the kernel: the framebuffer that each CRTC shows
  data,          \* common_pixmap->data of the pixmaps
  front_bo,      \* arm->front_bo
  fb_id,         \* drm->fb_id
  flip_old_fb_id, \* drm->flip_old_fb_id while a flip is due, or NoFb
  enabled,       \* crtc->enabled
  rotation,      \* the CRTCs that need a shadow for their crtc->rotation
  saved,         \* enabled and rotation before a mode set
  rotate_fb_id,  \* drmc->rotate_fb_id
  rotatedData,   \* crtc->rotatedData
  shadow_present, \* drm->shadow_present
  call, todo, at, \* the call that runs, its CRTCs to come, and the CRTC
                 \* that is rotated and whose mode is set next
  old_bo, old_fb_id, \* of a resize: what it replaces
  refused        \* history: the CRTCs whose last common_drm_crtc_apply failed

memory == <<ref, fbs, scan>>
pixmaps == <<data, front_bo, fb_id, flip_old_fb_id>>
shadows == <<rotate_fb_id, rotatedData, shadow_present>>
modes == <<enabled, rotation, saved>>
control == <<call, todo, at, old_bo, old_fb_id>>
vars == <<memory, pixmaps, shadows, modes, control, refused>>

Calls == {"closed", "none", "mode", "resize", "enter", "away", "exited"}

TypeOK ==
  /\ ref \in [Bos -> Nat]
  /\ fbs \in [Fbs -> Bos \union {NoBo}]
  /\ scan \in [Crtcs -> Fbs \union {NoFb}]
  /\ data \in [Pixmaps \union {Screen} -> Bos \union {NoBo}]
  /\ front_bo \in Bos \union {NoBo} /\ old_bo \in Bos \union {NoBo}
  /\ {fb_id, flip_old_fb_id, old_fb_id} \subseteq Fbs \union {NoFb}
  /\ enabled \subseteq Crtcs /\ rotation \subseteq Crtcs
  /\ saved \in [enabled : SUBSET Crtcs, rotation : SUBSET Crtcs]
  /\ rotate_fb_id \in [Crtcs -> Fbs \union {NoFb}]
  /\ rotatedData \in [Crtcs -> Bos \union {NoBo}]
  /\ shadow_present \in Nat
  /\ call \in Calls /\ {todo, refused} \subseteq SUBSET Crtcs /\ at \in Crtcs \union {NoCrtc}

Init ==
  /\ ref = [b \in Bos |-> 0]
  /\ fbs = [f \in Fbs |-> NoBo] /\ scan = [c \in Crtcs |-> NoFb]
  /\ data = [p \in Pixmaps \union {Screen} |-> NoBo]
  /\ front_bo = NoBo /\ fb_id = NoFb /\ flip_old_fb_id = NoFb
  /\ enabled \in SUBSET Crtcs /\ rotation = {}
  /\ saved = [enabled |-> {}, rotation |-> {}]
  /\ rotate_fb_id = [c \in Crtcs |-> NoFb]
  /\ rotatedData = [c \in Crtcs |-> NoBo] /\ shadow_present = 0
  /\ call = "closed" /\ todo = {} /\ at = NoCrtc
  /\ old_bo = NoBo /\ old_fb_id = NoFb /\ refused = {}

-----------------------------------------------------------------------------
(* The kernel and the buffer manager.                                      *)

FreeBos == {b \in Bos : ref[b] = 0}
FreeFbs == {f \in Fbs : fbs[f] = NoBo}

(* drmModeAddFB takes the lowest id that is free.                          *)
AddFB(f) == FreeFbs # {} /\ f = Min(FreeFbs)

(* armada_bo_alloc_framebuffer, drmModeAddFB                               *)
Alloc(b, f) ==
  /\ b \in FreeBos /\ AddFB(f)
  /\ ref' = [ref EXCEPT ![b] = 1]
  /\ fbs' = [fbs EXCEPT ![f] = b]

(* drm_armada_bo_put of some bos                                           *)
Puts(bos) == [b \in Bos |-> IF b \in bos THEN ref[b] - 1 ELSE ref[b]]

(* drmModeRmFB turns off what shows the framebuffers.                      *)
RmFBs(ids) ==
  /\ fbs' = [f \in Fbs |-> IF f \in ids THEN NoBo ELSE fbs[f]]
  /\ scan' = [c \in Crtcs |-> IF scan[c] \in ids THEN NoFb ELSE scan[c]]

-----------------------------------------------------------------------------
(* armada_drm_ScreenInit, which ends in common_drm_EnterVT.  When it fails *)
(* the server exits.                                                       *)
ScreenInit(b, f) ==
  /\ call = "closed"
  /\ Alloc(b, f)
  /\ front_bo' = b /\ fb_id' = f
  /\ call' = "enter" /\ todo' = enabled
  /\ UNCHANGED <<scan, data, flip_old_fb_id, shadows, modes, at, old_bo, old_fb_id, refused>>

(* armada_drm_CreateScreenResources, armada_drm_ModifyScanoutPixmap        *)
CreateScreenResources ==
  /\ call = "none" /\ front_bo # NoBo
  /\ data' = [data EXCEPT ![Screen] = front_bo]
  /\ front_bo' = NoBo
  /\ UNCHANGED <<memory, fb_id, flip_old_fb_id, shadows, modes, control, refused>>

Running == call = "none" /\ front_bo = NoBo

(* common_drm_EnterVT, common_drm_LeaveVT                                  *)
EnterVT ==
  /\ call = "away"
  /\ call' = "enter" /\ todo' = enabled
  /\ UNCHANGED <<memory, pixmaps, shadows, modes, at, old_bo, old_fb_id, refused>>

(* armada_drm_crtc_shadow_destroy for each CRTC that has a shadow.         *)

(* Mutant: rotate_fb_id stays, and the CRTC scans what was removed.        *)
DestroyShadowsKeepsId(cs) ==
  /\ ref' = Puts({rotatedData[c] : c \in cs})
  /\ RmFBs({rotate_fb_id[c] : c \in cs})
  /\ UNCHANGED rotate_fb_id
  /\ rotatedData' = [c \in Crtcs |-> IF c \in cs THEN NoBo ELSE rotatedData[c]]
  /\ shadow_present' = shadow_present - Cardinality(cs)

DestroyShadows(cs) ==
  /\ ref' = Puts({rotatedData[c] : c \in cs})
  /\ RmFBs({rotate_fb_id[c] : c \in cs})
  /\ rotate_fb_id' = [c \in Crtcs |-> IF c \in cs THEN NoFb ELSE rotate_fb_id[c]]
  /\ rotatedData' = [c \in Crtcs |-> IF c \in cs THEN NoBo ELSE rotatedData[c]]
  /\ shadow_present' = shadow_present - Cardinality(cs)

Shadowed == {c \in Crtcs : rotatedData[c] # NoBo}

LeaveVT ==
  /\ Running
  /\ DestroyShadows(Shadowed)
  /\ call' = "away"
  /\ UNCHANGED <<pixmaps, modes, todo, at, old_bo, old_fb_id, refused>>

-----------------------------------------------------------------------------
(* common_drm_crtc_set_mode_major, of a CRTC that gets a rotation.         *)
SetMode(c, rotated) ==
  /\ Running
  /\ saved' = [enabled |-> enabled, rotation |-> rotation]
  /\ rotation' = IF rotated THEN rotation \union {c} ELSE rotation \ {c}
  /\ enabled' = enabled \union {c}
  /\ call' = "mode" /\ todo' = {c}
  /\ UNCHANGED <<memory, pixmaps, shadows, at, old_bo, old_fb_id, refused>>

(* The server turns a CRTC off, common_drm_crtc_dpms: the kernel is not    *)
(* asked.                                                                  *)

TurnOff(c) ==
  /\ Running /\ c \in enabled
  /\ DestroyShadows({c} \intersect Shadowed)
  /\ enabled' = enabled \ {c} /\ rotation' = rotation \ {c}
  /\ UNCHANGED <<pixmaps, saved, control, refused>>

(* armada_drm_xf86crtc_resize, up to the loop of common_drm_crtc_resize.   *)
Resize(b, f) ==
  /\ Running
  /\ Alloc(b, f)
  /\ data' = [data EXCEPT ![Screen] = b]
  /\ fb_id' = f
  /\ old_bo' = data[Screen] /\ old_fb_id' = fb_id
  /\ call' = "resize" /\ todo' = enabled
  /\ UNCHANGED <<scan, front_bo, flip_old_fb_id, shadows, modes, at, refused>>

(* ... and what follows it.                                                *)

(* Mutant: the bo that was on screen is not put.                           *)
ResizeEndKeepsBo ==
  /\ call = "resize" /\ todo = {}
  /\ RmFBs({old_fb_id})
  /\ UNCHANGED ref
  /\ old_bo' = NoBo /\ old_fb_id' = NoFb
  /\ call' = "none"
  /\ UNCHANGED <<pixmaps, shadows, modes, todo, at, refused>>

ResizeEnd ==
  /\ call = "resize" /\ todo = {}
  /\ RmFBs({old_fb_id})
  /\ ref' = Puts({old_bo})
  /\ old_bo' = NoBo /\ old_fb_id' = NoFb
  /\ call' = "none"
  /\ UNCHANGED <<pixmaps, shadows, modes, todo, at, refused>>

(* The call goes on after common_drm_crtc_apply of a CRTC.  A mode set     *)
(* that failed takes what it set back,  one as the VT is entered makes the *)
(* server exit, and in a resize nobody looks.                              *)
Applied(c, ok) ==
  /\ todo' = todo \ {c} /\ at' = NoCrtc
  /\ call' = IF call = "enter" /\ ~ok THEN "exited" ELSE
             IF call = "mode" THEN "none" ELSE call
  /\ IF call = "mode" /\ ~ok
       THEN enabled' = saved.enabled /\ rotation' = saved.rotation
       ELSE UNCHANGED <<enabled, rotation>>
  /\ refused' = IF ok THEN refused \ {c} ELSE refused \union {c}
  /\ UNCHANGED <<saved, old_bo, old_fb_id>>

(* The end of common_drm_EnterVT turns the unused CRTCs off.               *)
Entered ==
  /\ call = "enter" /\ todo = {}
  /\ call' = "none"
  /\ scan' = [c \in Crtcs |-> IF c \in enabled THEN scan[c] ELSE NoFb]
  /\ UNCHANGED <<ref, fbs, pixmaps, shadows, modes, todo, at, old_bo, old_fb_id, refused>>

(* xf86CrtcRotate: the shadow goes if the CRTC is not rotated, or if its   *)
(* size has changed; one that fits is kept.                                *)
RotateDestroys(c) ==
  /\ c \in todo /\ at = NoCrtc /\ rotatedData[c] # NoBo
  /\ DestroyShadows({c})
  /\ UNCHANGED <<pixmaps, modes, control, refused>>

Rotated(c) ==
  /\ c \in todo /\ at = NoCrtc
  /\ c \in rotation <=> rotatedData[c] # NoBo
  /\ at' = c
  /\ UNCHANGED <<memory, pixmaps, shadows, modes, call, todo, old_bo, old_fb_id, refused>>

(* armada_drm_crtc_shadow_allocate                                         *)
ShadowAllocate(c, b, f) ==
  /\ c \in todo \intersect rotation /\ at = NoCrtc /\ rotatedData[c] = NoBo
  /\ Alloc(b, f)
  /\ rotate_fb_id' = [rotate_fb_id EXCEPT ![c] = f]
  /\ rotatedData' = [rotatedData EXCEPT ![c] = b]
  /\ shadow_present' = shadow_present + 1
  /\ at' = c
  /\ UNCHANGED <<scan, pixmaps, modes, call, todo, old_bo, old_fb_id, refused>>

ShadowAllocateFails(c) ==
  /\ c \in todo \intersect rotation /\ at = NoCrtc /\ rotatedData[c] = NoBo
  /\ Applied(c, FALSE)
  /\ UNCHANGED <<memory, pixmaps, shadows>>

(* The second half of common_drm_crtc_apply: drmModeSetCrtc.               *)
SetCrtc(c, ok) ==
  /\ at = c
  /\ scan' = IF ~ok THEN scan ELSE
             [scan EXCEPT ![c] = IF rotate_fb_id[c] # NoFb THEN rotate_fb_id[c] ELSE fb_id]
  /\ Applied(c, ok)
  /\ UNCHANGED <<ref, fbs, pixmaps, shadows>>

-----------------------------------------------------------------------------
(* armada_drm_alloc_dri_scanout, armada_drm_DestroyPixmap of the last      *)
(* reference.                                                              *)
AllocScanout(p, b) ==
  /\ Running /\ data[p] = NoBo /\ b \in FreeBos
  /\ ref' = [ref EXCEPT ![b] = 1]
  /\ data' = [data EXCEPT ![p] = b]
  /\ UNCHANGED <<fbs, scan, front_bo, fb_id, flip_old_fb_id, shadows, modes, control, refused>>

DestroyPixmap(p) ==
  /\ Running /\ data[p] # NoBo
  /\ ref' = Puts({data[p]})
  /\ data' = [data EXCEPT ![p] = NoBo]
  /\ UNCHANGED <<fbs, scan, front_bo, fb_id, flip_old_fb_id, shadows, modes, control, refused>>

(* common_drm_flip and common_drm_flip_pixmap, of a pixmap that can flip   *)
(* (common_dri2_can_flip).                                                 *)

(* Mutant: the bos are not exchanged.                                      *)
FlipKeepsBo(p, f) ==
  /\ Running /\ data[p] # NoBo /\ shadow_present = 0
  /\ flip_old_fb_id = NoFb /\ enabled # {} /\ AddFB(f)
  /\ fbs' = [fbs EXCEPT ![f] = data[p]]
  /\ scan' = [c \in Crtcs |-> IF c \in enabled THEN f ELSE scan[c]]
  /\ flip_old_fb_id' = fb_id /\ fb_id' = f
  /\ UNCHANGED <<ref, data, front_bo, shadows, modes, control, refused>>

Flip(p, f) ==
  /\ Running /\ data[p] # NoBo /\ shadow_present = 0
  /\ flip_old_fb_id = NoFb /\ enabled # {} /\ AddFB(f)
  /\ fbs' = [fbs EXCEPT ![f] = data[p]]
  /\ scan' = [c \in Crtcs |-> IF c \in enabled THEN f ELSE scan[c]]
  /\ flip_old_fb_id' = fb_id /\ fb_id' = f
  /\ data' = [data EXCEPT ![Screen] = data[p], ![p] = data[Screen]]
  /\ UNCHANGED <<ref, front_bo, shadows, modes, control, refused>>

(* common_drm_flip_handler, for the last of the events.                    *)
FlipDone ==
  /\ flip_old_fb_id # NoFb /\ call \in {"none", "away", "closed"}
  /\ RmFBs({flip_old_fb_id})
  /\ flip_old_fb_id' = NoFb
  /\ UNCHANGED <<ref, data, front_bo, fb_id, shadows, modes, control, refused>>

(* The CloseScreens, when the clients are gone: the server destroys the    *)
(* shadows, common_drm_CloseScreen removes the framebuffer and             *)
(* armada_drm_CloseScreen puts the bo of the screen.                       *)

CloseScreen ==
  /\ Running \/ call = "away"
  /\ \A p \in Pixmaps : data[p] = NoBo
  /\ ref' = Puts({data[Screen], front_bo} \union {rotatedData[c] : c \in Shadowed})
  /\ RmFBs({fb_id} \union {rotate_fb_id[c] : c \in Shadowed})
  /\ data' = [data EXCEPT ![Screen] = NoBo]
  /\ front_bo' = NoBo /\ fb_id' = NoFb
  /\ rotate_fb_id' = [c \in Crtcs |-> NoFb]
  /\ rotatedData' = [c \in Crtcs |-> NoBo]
  /\ shadow_present' = shadow_present - Cardinality(Shadowed)
  /\ call' = "closed"
  /\ UNCHANGED <<flip_old_fb_id, modes, todo, at, old_bo, old_fb_id, refused>>

Next ==
  /\ call # "exited"
  /\ \/ \E b \in Bos, f \in Fbs : ScreenInit(b, f) \/ Resize(b, f)
     \/ \E c \in Crtcs, b \in Bos, f \in Fbs : ShadowAllocate(c, b, f)
     \/ CreateScreenResources \/ EnterVT \/ Entered \/ LeaveVT \/ ResizeEnd
     \/ \E c \in Crtcs, t \in BOOLEAN : SetMode(c, t) \/ SetCrtc(c, t)
     \/ \E c \in Crtcs : TurnOff(c) \/ RotateDestroys(c) \/ Rotated(c) \/ ShadowAllocateFails(c)
     \/ \E p \in Pixmaps, b \in Bos : AllocScanout(p, b)
     \/ \E p \in Pixmaps, f \in Fbs : Flip(p, f)
     \/ \E p \in Pixmaps : DestroyPixmap(p)
     \/ FlipDone \/ CloseScreen

Spec == Init /\ [][Next]_vars

-----------------------------------------------------------------------------
(* Properties.                                                             *)

(* The holders of a bo: pixmaps, shadows, the screen that is being set up, *)
(* the resize that runs.                                                   *)
Holders(b) ==
  Cardinality({p \in DOMAIN data : data[p] = b})
  + Cardinality({c \in Crtcs : rotatedData[c] = b})
  + (IF front_bo = b THEN 1 ELSE 0) + (IF old_bo = b THEN 1 ELSE 0)

FbsKnown == {fb_id, flip_old_fb_id, old_fb_id} \union {rotate_fb_id[c] : c \in Crtcs}

(* A bo has one reference for each of its holders, and the kernel has the  *)
(* framebuffers that the driver knows of, each known in one role only:     *)
(* none leaks, none is put or removed twice, whichever step of a rotation  *)
(* or resize fails, and none is left when the screen is closed.            *)
HeldExactly ==
  /\ \A b \in Bos : ref[b] = Holders(b)
  /\ {f \in Fbs : fbs[f] # NoBo} = FbsKnown \ {NoFb}
  /\ \A c, d \in Crtcs : rotate_fb_id[c] = rotate_fb_id[d] /\ c # d => rotate_fb_id[c] = NoFb

(* The framebuffer of the screen is made of the bo of the screen's pixmap, *)
(* and that of a shadow of the bo of the shadow: what is drawn is what is  *)
(* shown.  shadow_present, which forbids flips, counts the shadows.        *)
ShowsWhatIsDrawn ==
  /\ fb_id # NoFb => fbs[fb_id] = (IF front_bo # NoBo THEN front_bo ELSE data[Screen])
  /\ \A c \in Shadowed : rotate_fb_id[c] # NoFb /\ fbs[rotate_fb_id[c]] = rotatedData[c]
  /\ shadow_present = Cardinality(Shadowed)

(* Every enabled CRTC shows its shadow if it is rotated and the screen if  *)
(* it is not, whatever was flipped, resized or rotated.  One whose mode    *)
(* was last refused shows nothing, or the screen without its rotation (a   *)
(* flip asks only whether there is a shadow), and never what is stale.     *)
ScansRight ==
  Running => \A c \in enabled :
    \/ /\ scan[c] = IF c \in rotation THEN rotate_fb_id[c] ELSE fb_id
       /\ scan[c] # NoFb
    \/ c \in refused /\ scan[c] \in {NoFb, fb_id}

=============================================================================
