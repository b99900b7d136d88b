---------------------------- MODULE ScanoutProofs ---------------------------
(***************************************************************************)
(* For every number of CRTCs, bos, framebuffers and pixmaps: the bos and   *)
(* framebuffers of the screen, of the shadows and of client pixmaps are    *)
(* held exactly, what is drawn is what is shown, and every enabled CRTC    *)
(* shows its shadow or the screen.  One invariant, ScanInv, gives all      *)
(* three: an allocation is safe because every other role is known to use   *)
(* another bo and another framebuffer, a reference that is put was the     *)
(* only one, and what a CRTC of todo shows is one of what the call         *)
(* replaces, so that a mode that fails leaves nothing stale.               *)
(***************************************************************************)
EXTENDS Scanout, FunctionTheorems, FiniteSetTheorems, WellFoundedInduction, TLAPS

Pix == Pixmaps \union {Screen}

(* A CRTC is rotated, or its mode set, in a call that has it still to do,  *)
(* and what the call replaces is known while the call runs.                *)
ControlOK ==
  /\ call \in {"none", "away", "closed"} => todo = {} /\ at = NoCrtc
  /\ at # NoCrtc => at \in todo /\ (at \in rotation <=> rotatedData[at] # NoBo)
  /\ call = "mode" => \E c \in Crtcs : todo = {c}
  /\ old_bo # NoBo \/ old_fb_id # NoFb => call = "resize"
  /\ fb_id = NoFb <=> call = "closed"
  /\ front_bo # NoBo => call \in {"enter", "none", "exited"} /\ data[Screen] = NoBo
  /\ call = "closed" =>
       /\ \A p \in Pix : data[p] = NoBo
       /\ \A c \in Crtcs : rotatedData[c] = NoBo
  /\ call \in {"mode", "resize"} => todo \subseteq enabled

Held(b) ==
  \/ \E p \in Pix : data[p] = b
  \/ \E c \in Crtcs : rotatedData[c] = b
  \/ front_bo = b
  \/ old_bo = b

(* A bo has at most one holder, which has its only reference.              *)
BosOK ==
  /\ \A p, q \in Pix : data[p] = data[q] /\ p # q => data[p] = NoBo
  /\ \A c, d \in Crtcs : rotatedData[c] = rotatedData[d] /\ c # d => rotatedData[c] = NoBo
  /\ \A p \in Pix, c \in Crtcs : data[p] = rotatedData[c] => data[p] = NoBo
  /\ \A p \in Pix : data[p] \in {front_bo, old_bo} => data[p] = NoBo
  /\ \A c \in Crtcs : rotatedData[c] \in {front_bo, old_bo} => rotatedData[c] = NoBo
  /\ front_bo = old_bo => front_bo = NoBo
  /\ \A b \in Bos : ref[b] = IF Held(b) THEN 1 ELSE 0

(* A framebuffer is known in one role, and a CRTC has one if it has a shadow. *)
FbsOK ==
  /\ fb_id \in {flip_old_fb_id, old_fb_id} => fb_id = NoFb
  /\ flip_old_fb_id = old_fb_id => old_fb_id = NoFb
  /\ \A c \in Crtcs : rotate_fb_id[c] \in {fb_id, flip_old_fb_id, old_fb_id} => rotate_fb_id[c] = NoFb
  /\ \A c, d \in Crtcs : rotate_fb_id[c] = rotate_fb_id[d] /\ c # d => rotate_fb_id[c] = NoFb
  /\ \A f \in Fbs : fbs[f] # NoBo <=> f \in FbsKnown
  /\ \A c \in Crtcs : rotate_fb_id[c] = NoFb <=> rotatedData[c] = NoBo

(* What a CRTC shows after its mode was set, and after it was refused.     *)
Good(c) == scan[c] # NoFb /\ scan[c] = IF c \in rotation THEN rotate_fb_id[c] ELSE fb_id
Bad(c) == c \in refused /\ scan[c] \in {NoFb, fb_id}

ScanOK ==
  /\ call = "none" => \A c \in enabled : Good(c) \/ Bad(c)
  /\ call = "mode" =>
       /\ \A c \in enabled \ todo : Good(c) \/ Bad(c)
       /\ \A c \in todo :
            /\ enabled = saved.enabled \union {c}
            /\ \A d \in Crtcs \ {c} : d \in rotation <=> d \in saved.rotation
            /\ c \in saved.enabled =>
                 \/ scan[c] \in {NoFb, fb_id}
                 \/ c \in saved.rotation /\ scan[c] = rotate_fb_id[c]
  /\ call = "resize" =>
       /\ \A c \in enabled \ todo : Good(c) \/ Bad(c) \/ (c \in refused /\ scan[c] = old_fb_id)
       /\ \A c \in todo :
            \/ scan[c] \in {NoFb, fb_id, old_fb_id}
            \/ c \in rotation /\ scan[c] = rotate_fb_id[c]
  /\ call = "enter" => \A c \in enabled \ todo : Good(c)

ShadowsOK == shadow_present = Cardinality(Shadowed)

DrawnOK ==
  /\ fb_id # NoFb => fbs[fb_id] = (IF front_bo # NoBo THEN front_bo ELSE data[Screen])
  /\ \A c \in Crtcs : rotatedData[c] # NoBo => fbs[rotate_fb_id[c]] = rotatedData[c]

ScanInv == TypeOK /\ ControlOK /\ BosOK /\ FbsOK /\ DrawnOK /\ ShadowsOK /\ ScanOK

USE CrtcsAssumption, BosAssumption, FbsAssumption, PixmapsAssumption
  DEF memory, pixmaps, shadows, modes, control

-----------------------------------------------------------------------------
(* The framebuffer that the kernel adds is known in no role.               *)
LEMMA LeastId ==
  ASSUME NEW S \in SUBSET Nat, S # {}
  PROVE  Min(S) \in S
<1>1. PICK m \in S : \A y \in S : <<y, m>> \notin OpToRel(<, Nat)
  BY NatLessThanWellFounded, WFMin
<1>2. \A y \in S : ~ (y < m)
  BY <1>1 DEF OpToRel
<1>3. \A y \in S : m <= y
  BY <1>2
<1> QED BY <1>3 DEF Min

LEMMA NewFb ==
  ASSUME ScanInv, NEW f \in Fbs, AddFB(f)
  PROVE  /\ fbs[f] = NoBo /\ f # NoFb
         /\ f \notin {fb_id, flip_old_fb_id, old_fb_id}
         /\ \A c \in Crtcs : rotate_fb_id[c] # f
<1>1. f \in FreeFbs
  BY LeastId DEF AddFB, FreeFbs
<1>2. f \notin FbsKnown
  BY <1>1 DEF FreeFbs, ScanInv, FbsOK
<1> QED
  BY <1>1, <1>2 DEF FreeFbs, FbsKnown

(* A bo that is held is free when it is put.                               *)
LEMMA PutHeld ==
  ASSUME ScanInv, NEW bos, \A b \in bos : b = NoBo \/ Held(b)
  PROVE  Puts(bos) = [b \in Bos |-> IF b \in bos THEN 0 ELSE ref[b]]
<1>1. \A b \in Bos : b \in bos => ref[b] = 1
  BY DEF ScanInv, BosOK
<1> QED
  BY <1>1 DEF Puts

-----------------------------------------------------------------------------
LEMMA ShadowedFinite == IsFiniteSet(Shadowed) /\ Cardinality(Shadowed) \in Nat
BY FS_Subset, FS_CardinalityType DEF Shadowed

LEMMA ScanInitInv == Init => ScanInv
<1> SUFFICES ASSUME Init PROVE ScanInv
  OBVIOUS
<1>1. Shadowed = {}
  BY DEF Init, Shadowed
<1>2. ShadowsOK
  BY <1>1, FS_EmptySet DEF Init, ShadowsOK
<1>3. TypeOK
  BY DEF Init, TypeOK, Calls
<1>4. ControlOK
  BY DEF Init, ControlOK, Pix
<1>5. BosOK
  BY DEF Init, BosOK, Pix, Held
<1>6. FbsOK
  BY DEF Init, FbsOK, FbsKnown
<1>7. DrawnOK
  BY DEF Init, DrawnOK
<1>8. ScanOK
  BY DEF Init, ScanOK
<1> QED
  BY <1>2, <1>3, <1>4, <1>5, <1>6, <1>7, <1>8 DEF ScanInv

LEMMA ScreenInitKeeps ==
  ASSUME ScanInv, NEW b \in Bos, NEW f \in Fbs, ScreenInit(b, f)
  PROVE  ScanInv'
<1>0. /\ fbs[f] = NoBo /\ f # NoFb
      /\ f \notin {fb_id, flip_old_fb_id, old_fb_id}
      /\ \A d \in Crtcs : rotate_fb_id[d] # f
  BY NewFb DEF ScreenInit, Alloc
<1> USE DEF ScreenInit, Alloc, AddFB, FreeBos, FreeFbs, Calls
<1>1. TypeOK'
  BY DEF ScanInv, TypeOK
<1>2. ControlOK'
  BY DEF ScanInv, TypeOK, ControlOK, Pix
<1>3. BosOK'
  BY DEF ScanInv, TypeOK, ControlOK, BosOK, Pix, Held
<1>4. FbsOK'
  BY <1>0 DEF ScanInv, TypeOK, ControlOK, FbsOK, FbsKnown
<1>5. DrawnOK'
  BY <1>0 DEF ScanInv, TypeOK, ControlOK, FbsOK, FbsKnown, DrawnOK
<1>6. ShadowsOK'
  BY DEF ScanInv, ShadowsOK, Shadowed
<1>7. ScanOK'
  BY <1>0 DEF ScanInv, TypeOK, ControlOK, FbsOK, FbsKnown, ScanOK, Good, Bad
<1> QED
  BY <1>1, <1>2, <1>3, <1>4, <1>5, <1>6, <1>7 DEF ScanInv

LEMMA ResizeKeeps ==
  ASSUME ScanInv, NEW b \in Bos, NEW f \in Fbs, Resize(b, f)
  PROVE  ScanInv'
<1>0. /\ fbs[f] = NoBo /\ f # NoFb
      /\ f \notin {fb_id, flip_old_fb_id, old_fb_id}
      /\ \A d \in Crtcs : rotate_fb_id[d] # f
  BY NewFb DEF Resize, Alloc
<1> USE DEF Resize, Running, Alloc, AddFB, FreeBos, FreeFbs, Calls
<1>1. TypeOK'
  BY DEF ScanInv, TypeOK
<1>2. ControlOK'
  BY DEF ScanInv, TypeOK, ControlOK, Pix
<1>3. BosOK'
  BY DEF ScanInv, TypeOK, ControlOK, BosOK, Pix, Held
<1>4. FbsOK'
  BY <1>0 DEF ScanInv, TypeOK, ControlOK, FbsOK, FbsKnown
<1>5. DrawnOK'
  BY <1>0 DEF ScanInv, TypeOK, ControlOK, FbsOK, FbsKnown, DrawnOK
<1>6. ShadowsOK'
  BY DEF ScanInv, ShadowsOK, Shadowed
<1>7. ScanOK'
  BY <1>0 DEF ScanInv, TypeOK, ControlOK, FbsOK, FbsKnown, ScanOK, Good, Bad
<1> QED
  BY <1>1, <1>2, <1>3, <1>4, <1>5, <1>6, <1>7 DEF ScanInv

LEMMA ShadowAllocateKeeps ==
  ASSUME ScanInv, NEW c \in Crtcs, NEW b \in Bos, NEW f \in Fbs, ShadowAllocate(c, b, f)
  PROVE  ScanInv'
<1>0. /\ fbs[f] = NoBo /\ f # NoFb
      /\ f \notin {fb_id, flip_old_fb_id, old_fb_id}
      /\ \A d \in Crtcs : rotate_fb_id[d] # f
  BY NewFb DEF ShadowAllocate, Alloc
<1> USE DEF ShadowAllocate, Alloc, AddFB, FreeBos, FreeFbs
<1>1. TypeOK'
  BY DEF ScanInv, TypeOK
<1>2. ControlOK'
  BY DEF ScanInv, TypeOK, ControlOK, Pix
<1>3. BosOK'
  BY DEF ScanInv, TypeOK, ControlOK, BosOK, Pix, Held
<1>4. FbsOK'
  BY <1>0 DEF ScanInv, TypeOK, ControlOK, FbsOK, FbsKnown
<1>5. DrawnOK'
  BY <1>0 DEF ScanInv, TypeOK, ControlOK, FbsOK, FbsKnown, DrawnOK
<1>6. ShadowsOK'
  <2>1. c \notin Shadowed /\ Shadowed' = Shadowed \union {c}
    BY DEF ScanInv, TypeOK, Shadowed, ShadowAllocate, Alloc
  <2> QED
    BY <2>1, ShadowedFinite, FS_AddElement DEF ScanInv, ShadowsOK, ShadowAllocate
<1>7. ScanOK'
  BY <1>0 DEF ScanInv, TypeOK, ControlOK, FbsOK, FbsKnown, ScanOK, Good, Bad
<1> QED
  BY <1>1, <1>2, <1>3, <1>4, <1>5, <1>6, <1>7 DEF ScanInv

LEMMA CreateScreenResourcesKeeps ==
  ASSUME ScanInv, CreateScreenResources
  PROVE  ScanInv'
<1> USE DEF CreateScreenResources
<1>1. TypeOK'
  BY DEF ScanInv, TypeOK
<1>2. ControlOK'
  BY DEF ScanInv, TypeOK, ControlOK, Pix
<1>3. BosOK'
  BY DEF ScanInv, TypeOK, ControlOK, BosOK, Pix, Held
<1>4. FbsOK'
  BY DEF ScanInv, TypeOK, ControlOK, FbsOK, FbsKnown
<1>5. DrawnOK'
  BY DEF ScanInv, TypeOK, ControlOK, FbsOK, FbsKnown, DrawnOK
<1>6. ShadowsOK'
  BY DEF ScanInv, ShadowsOK, Shadowed
<1>7. ScanOK'
  BY DEF ScanInv, TypeOK, ControlOK, FbsOK, FbsKnown, ScanOK, Good, Bad
<1> QED
  BY <1>1, <1>2, <1>3, <1>4, <1>5, <1>6, <1>7 DEF ScanInv

LEMMA EnterVTKeeps ==
  ASSUME ScanInv, EnterVT
  PROVE  ScanInv'
<1> USE DEF EnterVT, Calls
<1>1. TypeOK'
  BY DEF ScanInv, TypeOK
<1>2. ControlOK'
  BY DEF ScanInv, TypeOK, ControlOK, Pix
<1>3. BosOK'
  BY DEF ScanInv, TypeOK, ControlOK, BosOK, Pix, Held
<1>4. FbsOK'
  BY DEF ScanInv, TypeOK, ControlOK, FbsOK, FbsKnown
<1>5. DrawnOK'
  BY DEF ScanInv, TypeOK, ControlOK, FbsOK, FbsKnown, DrawnOK
<1>6. ShadowsOK'
  BY DEF ScanInv, ShadowsOK, Shadowed
<1>7. ScanOK'
  BY DEF ScanInv, TypeOK, ControlOK, FbsOK, FbsKnown, ScanOK, Good, Bad
<1> QED
  BY <1>1, <1>2, <1>3, <1>4, <1>5, <1>6, <1>7 DEF ScanInv

LEMMA EnteredKeeps ==
  ASSUME ScanInv, Entered
  PROVE  ScanInv'
<1> USE DEF Entered, Calls
<1>1. TypeOK'
  BY DEF ScanInv, TypeOK
<1>2. ControlOK'
  BY DEF ScanInv, TypeOK, ControlOK, Pix
<1>3. BosOK'
  BY DEF ScanInv, TypeOK, ControlOK, BosOK, Pix, Held
<1>4. FbsOK'
  BY DEF ScanInv, TypeOK, ControlOK, FbsOK, FbsKnown
<1>5. DrawnOK'
  BY DEF ScanInv, TypeOK, ControlOK, FbsOK, FbsKnown, DrawnOK
<1>6. ShadowsOK'
  BY DEF ScanInv, ShadowsOK, Shadowed
<1>7. ScanOK'
  BY DEF ScanInv, TypeOK, ControlOK, FbsOK, FbsKnown, ScanOK, Good, Bad
<1> QED
  BY <1>1, <1>2, <1>3, <1>4, <1>5, <1>6, <1>7 DEF ScanInv

LEMMA SetModeKeeps ==
  ASSUME ScanInv, NEW c \in Crtcs, NEW t \in BOOLEAN, SetMode(c, t)
  PROVE  ScanInv'
<1> USE DEF SetMode, Running, Calls
<1>1. TypeOK'
  BY DEF ScanInv, TypeOK
<1>2. ControlOK'
  BY DEF ScanInv, TypeOK, ControlOK, Pix
<1>3. BosOK'
  BY DEF ScanInv, TypeOK, ControlOK, BosOK, Pix, Held
<1>4. FbsOK'
  BY DEF ScanInv, TypeOK, ControlOK, FbsOK, FbsKnown
<1>5. DrawnOK'
  BY DEF ScanInv, TypeOK, ControlOK, FbsOK, FbsKnown, DrawnOK
<1>6. ShadowsOK'
  BY DEF ScanInv, ShadowsOK, Shadowed
<1>7. ScanOK'
  BY DEF ScanInv, TypeOK, ControlOK, FbsOK, FbsKnown, ScanOK, Good, Bad
<1> QED
  BY <1>1, <1>2, <1>3, <1>4, <1>5, <1>6, <1>7 DEF ScanInv

LEMMA SetCrtcKeeps ==
  ASSUME ScanInv, NEW c \in Crtcs, NEW t \in BOOLEAN, SetCrtc(c, t)
  PROVE  ScanInv'
<1> USE DEF SetCrtc, Applied, Calls
<1>1. TypeOK'
  BY DEF ScanInv, TypeOK
<1>2. ControlOK'
  BY DEF ScanInv, TypeOK, ControlOK, Pix
<1>3. BosOK'
  BY DEF ScanInv, TypeOK, ControlOK, BosOK, Pix, Held
<1>4. FbsOK'
  BY DEF ScanInv, TypeOK, ControlOK, FbsOK, FbsKnown
<1>5. DrawnOK'
  BY DEF ScanInv, TypeOK, ControlOK, FbsOK, FbsKnown, DrawnOK
<1>6. ShadowsOK'
  BY DEF ScanInv, ShadowsOK, Shadowed
<1>7. ScanOK'
  BY DEF ScanInv, TypeOK, ControlOK, FbsOK, FbsKnown, ScanOK, Good, Bad
<1> QED
  BY <1>1, <1>2, <1>3, <1>4, <1>5, <1>6, <1>7 DEF ScanInv

LEMMA RotatedKeeps ==
  ASSUME ScanInv, NEW c \in Crtcs, Rotated(c)
  PROVE  ScanInv'
<1> USE DEF Rotated
<1>1. TypeOK'
  BY DEF ScanInv, TypeOK
<1>2. ControlOK'
  BY DEF ScanInv, TypeOK, ControlOK, Pix
<1>3. BosOK'
  BY DEF ScanInv, TypeOK, ControlOK, BosOK, Pix, Held
<1>4. FbsOK'
  BY DEF ScanInv, TypeOK, ControlOK, FbsOK, FbsKnown
<1>5. DrawnOK'
  BY DEF ScanInv, TypeOK, ControlOK, FbsOK, FbsKnown, DrawnOK
<1>6. ShadowsOK'
  BY DEF ScanInv, ShadowsOK, Shadowed
<1>7. ScanOK'
  BY DEF ScanInv, TypeOK, ControlOK, FbsOK, FbsKnown, ScanOK, Good, Bad
<1> QED
  BY <1>1, <1>2, <1>3, <1>4, <1>5, <1>6, <1>7 DEF ScanInv

LEMMA ShadowAllocateFailsKeeps ==
  ASSUME ScanInv, NEW c \in Crtcs, ShadowAllocateFails(c)
  PROVE  ScanInv'
<1> USE DEF ShadowAllocateFails, Applied, Calls
<1>1. TypeOK'
  BY DEF ScanInv, TypeOK
<1>2. ControlOK'
  BY DEF ScanInv, TypeOK, ControlOK, Pix
<1>3. BosOK'
  BY DEF ScanInv, TypeOK, ControlOK, BosOK, Pix, Held
<1>4. FbsOK'
  BY DEF ScanInv, TypeOK, ControlOK, FbsOK, FbsKnown
<1>5. DrawnOK'
  BY DEF ScanInv, TypeOK, ControlOK, FbsOK, FbsKnown, DrawnOK
<1>6. ShadowsOK'
  BY DEF ScanInv, ShadowsOK, Shadowed
<1>7. ScanOK'
  BY DEF ScanInv, TypeOK, ControlOK, FbsOK, FbsKnown, ScanOK, Good, Bad
<1> QED
  BY <1>1, <1>2, <1>3, <1>4, <1>5, <1>6, <1>7 DEF ScanInv

LEMMA AllocScanoutKeeps ==
  ASSUME ScanInv, NEW p \in Pixmaps, NEW b \in Bos, AllocScanout(p, b)
  PROVE  ScanInv'
<1> USE DEF AllocScanout, Running, FreeBos
<1>1. TypeOK'
  BY DEF ScanInv, TypeOK
<1>2. ControlOK'
  BY DEF ScanInv, TypeOK, ControlOK, Pix
<1>3. BosOK'
  BY DEF ScanInv, TypeOK, ControlOK, BosOK, Pix, Held
<1>4. FbsOK'
  BY DEF ScanInv, TypeOK, ControlOK, FbsOK, FbsKnown
<1>5. DrawnOK'
  BY DEF ScanInv, TypeOK, ControlOK, FbsOK, FbsKnown, DrawnOK
<1>6. ShadowsOK'
  BY DEF ScanInv, ShadowsOK, Shadowed
<1>7. ScanOK'
  BY DEF ScanInv, TypeOK, ControlOK, FbsOK, FbsKnown, ScanOK, Good, Bad
<1> QED
  BY <1>1, <1>2, <1>3, <1>4, <1>5, <1>6, <1>7 DEF ScanInv

LEMMA FlipKeeps ==
  ASSUME ScanInv, NEW p \in Pixmaps, NEW f \in Fbs, Flip(p, f)
  PROVE  ScanInv'
<1>0. /\ fbs[f] = NoBo /\ f # NoFb
      /\ f \notin {fb_id, flip_old_fb_id, old_fb_id}
      /\ \A d \in Crtcs : rotate_fb_id[d] # f
  BY NewFb DEF Flip
<1> USE DEF Flip, Running, AddFB, FreeFbs
<1>1. TypeOK'
  BY DEF ScanInv, TypeOK
<1>2. ControlOK'
  BY DEF ScanInv, TypeOK, ControlOK, Pix
<1>3. BosOK'
  BY DEF ScanInv, TypeOK, ControlOK, BosOK, Pix, Held
<1>4. FbsOK'
  BY <1>0 DEF ScanInv, TypeOK, ControlOK, FbsOK, FbsKnown
<1>5. DrawnOK'
  BY <1>0 DEF ScanInv, TypeOK, ControlOK, FbsOK, FbsKnown, DrawnOK
<1>6. ShadowsOK'
  BY DEF ScanInv, ShadowsOK, Shadowed
<1>a. \A c \in Crtcs : rotate_fb_id[c] = NoFb
  <2>1. Shadowed = {}
    BY ShadowedFinite, FS_EmptySet DEF ScanInv, ShadowsOK, Flip
  <2> QED
    BY <2>1 DEF Shadowed, ScanInv, FbsOK
<1>7. ScanOK'
  BY <1>0, <1>a DEF ScanInv, TypeOK, ControlOK, FbsOK, FbsKnown, ScanOK, Good, Bad
<1> QED
  BY <1>1, <1>2, <1>3, <1>4, <1>5, <1>6, <1>7 DEF ScanInv

LEMMA DestroyPixmapKeeps ==
  ASSUME ScanInv, NEW p \in Pixmaps, DestroyPixmap(p)
  PROVE  ScanInv'
<1>0. ref' = [b \in Bos |-> IF b = data[p] THEN 0 ELSE ref[b]]
  <2>1. data[p] = NoBo \/ Held(data[p])
    BY DEF Held, Pix
  <2> QED
    BY <2>1, PutHeld, ref' = Puts({data[p]}) DEF DestroyPixmap
<1> USE DEF DestroyPixmap, Running
<1>1. TypeOK'
  BY <1>0 DEF Puts, ScanInv, TypeOK
<1>2. ControlOK'
  BY DEF ScanInv, TypeOK, ControlOK, Pix
<1>3. BosOK'
  BY <1>0 DEF Puts, ScanInv, TypeOK, ControlOK, BosOK, Pix, Held
<1>4. FbsOK'
  BY DEF ScanInv, TypeOK, ControlOK, FbsOK, FbsKnown
<1>5. DrawnOK'
  BY DEF ScanInv, TypeOK, ControlOK, FbsOK, FbsKnown, DrawnOK
<1>6. ShadowsOK'
  BY DEF ScanInv, ShadowsOK, Shadowed
<1>7. ScanOK'
  BY DEF ScanInv, TypeOK, ControlOK, FbsOK, FbsKnown, ScanOK, Good, Bad
<1> QED
  BY <1>1, <1>2, <1>3, <1>4, <1>5, <1>6, <1>7 DEF ScanInv

LEMMA FlipDoneKeeps ==
  ASSUME ScanInv, FlipDone
  PROVE  ScanInv'
<1> USE DEF FlipDone, RmFBs
<1>1. TypeOK'
  BY DEF ScanInv, TypeOK
<1>2. ControlOK'
  BY DEF ScanInv, TypeOK, ControlOK, Pix
<1>3. BosOK'
  BY DEF ScanInv, TypeOK, ControlOK, BosOK, Pix, Held
<1>4. FbsOK'
  BY DEF ScanInv, TypeOK, ControlOK, FbsOK, FbsKnown
<1>5. DrawnOK'
  BY DEF ScanInv, TypeOK, ControlOK, FbsOK, FbsKnown, DrawnOK
<1>6. ShadowsOK'
  BY DEF ScanInv, ShadowsOK, Shadowed
<1>7. ScanOK'
  BY DEF ScanInv, TypeOK, ControlOK, FbsOK, FbsKnown, ScanOK, Good, Bad
<1> QED
  BY <1>1, <1>2, <1>3, <1>4, <1>5, <1>6, <1>7 DEF ScanInv

LEMMA ResizeEndKeeps ==
  ASSUME ScanInv, ResizeEnd
  PROVE  ScanInv'
<1>0. ref' = [b \in Bos |-> IF b = old_bo THEN 0 ELSE ref[b]]
  <2>1. old_bo = NoBo \/ Held(old_bo)
    BY DEF Held, Pix
  <2> QED
    BY <2>1, PutHeld, ref' = Puts({old_bo}) DEF ResizeEnd
<1> USE DEF ResizeEnd, RmFBs, Calls
<1>1. TypeOK'
  BY <1>0 DEF Puts, ScanInv, TypeOK
<1>2. ControlOK'
  BY DEF ScanInv, TypeOK, ControlOK, Pix
<1>3. BosOK'
  BY <1>0 DEF Puts, ScanInv, TypeOK, ControlOK, BosOK, Pix, Held
<1>4. FbsOK'
  BY DEF ScanInv, TypeOK, ControlOK, FbsOK, FbsKnown
<1>5. DrawnOK'
  BY DEF ScanInv, TypeOK, ControlOK, FbsOK, FbsKnown, DrawnOK
<1>6. ShadowsOK'
  BY DEF ScanInv, ShadowsOK, Shadowed
<1>7. ScanOK'
  BY DEF ScanInv, TypeOK, ControlOK, FbsOK, FbsKnown, ScanOK, Good, Bad
<1> QED
  BY <1>1, <1>2, <1>3, <1>4, <1>5, <1>6, <1>7 DEF ScanInv

-----------------------------------------------------------------------------
(* Shadows that go take their bos and framebuffers with them.              *)
LEMMA ShadowsGo ==
  ASSUME ScanInv, NEW cs \in SUBSET Shadowed, DestroyShadows(cs),
         UNCHANGED <<pixmaps, old_bo, old_fb_id>>
  PROVE  /\ ref' \in [Bos -> Nat] /\ fbs' \in [Fbs -> Bos \union {NoBo}]
         /\ scan' \in [Crtcs -> Fbs \union {NoFb}] /\ shadow_present' \in Nat
         /\ rotate_fb_id' \in [Crtcs -> Fbs \union {NoFb}]
         /\ rotatedData' \in [Crtcs -> Bos \union {NoBo}]
         /\ BosOK' /\ FbsOK' /\ DrawnOK' /\ ShadowsOK'
         /\ \A c \in Crtcs \ cs : scan[c] \in {fb_id, old_fb_id, rotate_fb_id[c]} => scan'[c] = scan[c]
         /\ \A c \in Crtcs : scan'[c] \in {scan[c], NoFb}
         /\ \A c \in cs : scan[c] = rotate_fb_id[c] => scan'[c] = NoFb
<1>0. /\ cs \subseteq Crtcs /\ \A c \in cs : rotatedData[c] \in Bos /\ rotate_fb_id[c] \in Fbs
      /\ \A c \in cs : rotatedData[c] # NoBo /\ rotate_fb_id[c] # NoFb
  BY DEF Shadowed, ScanInv, TypeOK, FbsOK
<1>1. ref' = [b \in Bos |-> IF b \in {rotatedData[c] : c \in cs} THEN 0 ELSE ref[b]]
  <2>1. \A b \in {rotatedData[c] : c \in cs} : b = NoBo \/ Held(b)
    BY <1>0 DEF Held
  <2> HIDE DEF Puts
  <2> QED
    BY <2>1, PutHeld DEF DestroyShadows
<1>2. /\ rotate_fb_id' = [c \in Crtcs |-> IF c \in cs THEN NoFb ELSE rotate_fb_id[c]]
      /\ rotatedData' = [c \in Crtcs |-> IF c \in cs THEN NoBo ELSE rotatedData[c]]
      /\ shadow_present' = shadow_present - Cardinality(cs)
      /\ UNCHANGED <<data, front_bo, old_bo, fb_id, flip_old_fb_id, old_fb_id>>
  BY DEF DestroyShadows
<1>3. /\ fbs' = [f \in Fbs |-> IF f \in {rotate_fb_id[c] : c \in cs} THEN NoBo ELSE fbs[f]]
      /\ scan' = [c \in Crtcs |-> IF scan[c] \in {rotate_fb_id[d] : d \in cs} THEN NoFb ELSE scan[c]]
  BY DEF DestroyShadows, RmFBs
<1>4. ShadowsOK' /\ shadow_present' \in Nat
  <2>1. Shadowed' = Shadowed \ cs
    BY <1>0, <1>2 DEF Shadowed
  <2>2. IsFiniteSet(cs) /\ Shadowed \intersect cs = cs
    BY ShadowedFinite, FS_Subset
  <2>3. Cardinality(Shadowed \ cs) = Cardinality(Shadowed) - Cardinality(cs)
    BY <2>2, ShadowedFinite, FS_Difference
  <2>4. IsFiniteSet(Shadowed') /\ Cardinality(Shadowed') \in Nat
    BY <2>1, ShadowedFinite, FS_Subset, FS_CardinalityType
  <2> QED
    BY <1>2, <2>1, <2>3, <2>4 DEF ShadowsOK, ScanInv
<1>5. BosOK'
  BY <1>0, <1>1, <1>2 DEF ScanInv, TypeOK, BosOK, Pix, Held
<1>6. FbsOK'
  BY <1>0, <1>2, <1>3 DEF ScanInv, TypeOK, FbsOK, FbsKnown
<1>7. DrawnOK'
  BY <1>0, <1>2, <1>3 DEF ScanInv, TypeOK, FbsOK, FbsKnown, DrawnOK
<1>8. \A c \in Crtcs \ cs : scan[c] \in {fb_id, old_fb_id, rotate_fb_id[c]} => scan'[c] = scan[c]
  BY <1>0, <1>3 DEF ScanInv, TypeOK, FbsOK
<1>9. \A c \in Crtcs : scan'[c] \in {scan[c], NoFb}
  BY <1>3
<1>10. \A c \in cs : scan[c] = rotate_fb_id[c] => scan'[c] = NoFb
  BY <1>0, <1>3
<1>11. ref' \in [Bos -> Nat] /\ fbs' \in [Fbs -> Bos \union {NoBo}]
  BY <1>1, <1>3 DEF ScanInv, TypeOK
<1>12. /\ scan' \in [Crtcs -> Fbs \union {NoFb}]
       /\ rotate_fb_id' \in [Crtcs -> Fbs \union {NoFb}]
       /\ rotatedData' \in [Crtcs -> Bos \union {NoBo}]
  BY <1>2, <1>3 DEF ScanInv, TypeOK
<1> QED
  BY <1>4, <1>5, <1>6, <1>7, <1>8, <1>9, <1>10, <1>11, <1>12

LEMMA LeaveVTKeeps ==
  ASSUME ScanInv, LeaveVT
  PROVE  ScanInv'
<1>1. Shadowed \in SUBSET Shadowed /\ DestroyShadows(Shadowed) /\ UNCHANGED <<pixmaps, old_bo, old_fb_id>>
  BY DEF LeaveVT, Shadowed
<1> DEFINE cs == Shadowed
<1>2. /\ ref' \in [Bos -> Nat] /\ fbs' \in [Fbs -> Bos \union {NoBo}]
      /\ scan' \in [Crtcs -> Fbs \union {NoFb}] /\ shadow_present' \in Nat
      /\ rotate_fb_id' \in [Crtcs -> Fbs \union {NoFb}]
      /\ rotatedData' \in [Crtcs -> Bos \union {NoBo}]
      /\ BosOK' /\ FbsOK' /\ DrawnOK' /\ ShadowsOK'
  BY <1>1, ShadowsGo
<1>3. /\ \A d \in Crtcs \ cs : scan[d] \in {fb_id, old_fb_id, rotate_fb_id[d]} => scan'[d] = scan[d]
      /\ \A d \in Crtcs : scan'[d] \in {scan[d], NoFb}
      /\ \A d \in cs : scan[d] = rotate_fb_id[d] => scan'[d] = NoFb
      /\ \A d \in Crtcs \ cs : rotate_fb_id'[d] = rotate_fb_id[d] /\ rotatedData'[d] = rotatedData[d]
      /\ \A d \in cs : rotate_fb_id'[d] = NoFb /\ rotatedData'[d] = NoBo /\ d \in Crtcs
  BY <1>1, ShadowsGo DEF DestroyShadows, Shadowed
<1>4. TypeOK'
  BY <1>2 DEF ScanInv, TypeOK, LeaveVT, Running, Calls
<1>5. ControlOK'
  BY <1>3 DEF ScanInv, TypeOK, ControlOK, Pix, LeaveVT, Running, Calls
<1>6. ScanOK'
  BY <1>3 DEF ScanInv, TypeOK, ControlOK, FbsOK, ScanOK, Good, Bad, LeaveVT, Running, Calls
<1> QED
  BY <1>2, <1>4, <1>5, <1>6 DEF ScanInv

LEMMA TurnOffKeeps ==
  ASSUME ScanInv, NEW c \in Crtcs, TurnOff(c)
  PROVE  ScanInv'
<1>1. {c} \intersect Shadowed \in SUBSET Shadowed /\ DestroyShadows({c} \intersect Shadowed) /\ UNCHANGED <<pixmaps, old_bo, old_fb_id>>
  BY DEF TurnOff, Shadowed
<1> DEFINE cs == {c} \intersect Shadowed
<1>2. /\ ref' \in [Bos -> Nat] /\ fbs' \in [Fbs -> Bos \union {NoBo}]
      /\ scan' \in [Crtcs -> Fbs \union {NoFb}] /\ shadow_present' \in Nat
      /\ rotate_fb_id' \in [Crtcs -> Fbs \union {NoFb}]
      /\ rotatedData' \in [Crtcs -> Bos \union {NoBo}]
      /\ BosOK' /\ FbsOK' /\ DrawnOK' /\ ShadowsOK'
  BY <1>1, ShadowsGo
<1>3. /\ \A d \in Crtcs \ cs : scan[d] \in {fb_id, old_fb_id, rotate_fb_id[d]} => scan'[d] = scan[d]
      /\ \A d \in Crtcs : scan'[d] \in {scan[d], NoFb}
      /\ \A d \in cs : scan[d] = rotate_fb_id[d] => scan'[d] = NoFb
      /\ \A d \in Crtcs \ cs : rotate_fb_id'[d] = rotate_fb_id[d] /\ rotatedData'[d] = rotatedData[d]
      /\ \A d \in cs : rotate_fb_id'[d] = NoFb /\ rotatedData'[d] = NoBo /\ d \in Crtcs
  BY <1>1, ShadowsGo DEF DestroyShadows, Shadowed
<1>4. TypeOK'
  BY <1>2 DEF ScanInv, TypeOK, TurnOff, Running
<1>5. ControlOK'
  BY <1>3 DEF ScanInv, TypeOK, ControlOK, Pix, TurnOff, Running
<1>6. ScanOK'
  BY <1>3 DEF ScanInv, TypeOK, ControlOK, FbsOK, ScanOK, Good, Bad, TurnOff, Running
<1> QED
  BY <1>2, <1>4, <1>5, <1>6 DEF ScanInv

LEMMA RotateDestroysKeeps ==
  ASSUME ScanInv, NEW c \in Crtcs, RotateDestroys(c)
  PROVE  ScanInv'
<1>1. {c} \in SUBSET Shadowed /\ DestroyShadows({c}) /\ UNCHANGED <<pixmaps, old_bo, old_fb_id>>
  BY DEF RotateDestroys, Shadowed
<1> DEFINE cs == {c}
<1>2. /\ ref' \in [Bos -> Nat] /\ fbs' \in [Fbs -> Bos \union {NoBo}]
      /\ scan' \in [Crtcs -> Fbs \union {NoFb}] /\ shadow_present' \in Nat
      /\ rotate_fb_id' \in [Crtcs -> Fbs \union {NoFb}]
      /\ rotatedData' \in [Crtcs -> Bos \union {NoBo}]
      /\ BosOK' /\ FbsOK' /\ DrawnOK' /\ ShadowsOK'
  BY <1>1, ShadowsGo
<1>3. /\ \A d \in Crtcs \ cs : scan[d] \in {fb_id, old_fb_id, rotate_fb_id[d]} => scan'[d] = scan[d]
      /\ \A d \in Crtcs : scan'[d] \in {scan[d], NoFb}
      /\ \A d \in cs : scan[d] = rotate_fb_id[d] => scan'[d] = NoFb
      /\ \A d \in Crtcs \ cs : rotate_fb_id'[d] = rotate_fb_id[d] /\ rotatedData'[d] = rotatedData[d]
      /\ \A d \in cs : rotate_fb_id'[d] = NoFb /\ rotatedData'[d] = NoBo /\ d \in Crtcs
  BY <1>1, ShadowsGo DEF DestroyShadows, Shadowed
<1>4. TypeOK'
  BY <1>2 DEF ScanInv, TypeOK, RotateDestroys
<1>5. ControlOK'
  BY <1>3 DEF ScanInv, TypeOK, ControlOK, Pix, RotateDestroys
<1>6. ScanOK'
  BY <1>3 DEF ScanInv, TypeOK, ControlOK, FbsOK, ScanOK, Good, Bad, RotateDestroys
<1> QED
  BY <1>2, <1>4, <1>5, <1>6 DEF ScanInv

LEMMA CloseScreenKeeps ==
  ASSUME ScanInv, CloseScreen
  PROVE  ScanInv'
<1>0. /\ old_bo = NoBo /\ old_fb_id = NoFb /\ todo = {} /\ at = NoCrtc
      /\ \A p \in Pixmaps : data[p] = NoBo
  BY DEF ScanInv, ControlOK, CloseScreen, Running
<1>1. ref' = [b \in Bos |-> 0]
  <2> DEFINE bos == {data[Screen], front_bo} \union {rotatedData[c] : c \in Shadowed}
  <2>1. \A b \in bos : b = NoBo \/ Held(b)
    BY DEF Held, Pix, Shadowed
  <2>2. ref' = [b \in Bos |-> IF b \in bos THEN 0 ELSE ref[b]]
    BY <2>1, PutHeld DEF CloseScreen
  <2>3. \A b \in Bos \ bos : ref[b] = 0
    BY <1>0 DEF ScanInv, BosOK, Held, Pix, Shadowed
  <2> QED
    BY <2>2, <2>3
<1>2. /\ data' = [data EXCEPT ![Screen] = NoBo] /\ front_bo' = NoBo /\ fb_id' = NoFb
      /\ rotate_fb_id' = [c \in Crtcs |-> NoFb] /\ rotatedData' = [c \in Crtcs |-> NoBo]
      /\ call' = "closed"
      /\ UNCHANGED <<flip_old_fb_id, modes, todo, at, old_bo, old_fb_id, refused>>
  BY DEF CloseScreen
<1>3. /\ fbs' = [f \in Fbs |-> IF f = flip_old_fb_id THEN fbs[f] ELSE NoBo]
      /\ scan' \in [Crtcs -> Fbs \union {NoFb}]
  <2> DEFINE ids == {fb_id} \union {rotate_fb_id[c] : c \in Shadowed}
  <2>1. /\ fbs' = [f \in Fbs |-> IF f \in ids THEN NoBo ELSE fbs[f]]
        /\ scan' = [c \in Crtcs |-> IF scan[c] \in ids THEN NoFb ELSE scan[c]]
    BY DEF CloseScreen, RmFBs
  <2>2. \A f \in Fbs : f = flip_old_fb_id => f \notin ids
    BY DEF ScanInv, FbsOK, Shadowed
  <2>3. \A f \in Fbs : f # flip_old_fb_id /\ f \notin ids => fbs[f] = NoBo
    BY <1>0 DEF ScanInv, FbsOK, FbsKnown, Shadowed
  <2> QED
    BY <2>1, <2>2, <2>3 DEF ScanInv, TypeOK
<1>4. shadow_present' = 0 /\ Cardinality(Shadowed') = 0
  <2>1. Shadowed' = {}
    BY <1>2 DEF Shadowed
  <2>2. shadow_present' = shadow_present - Cardinality(Shadowed)
    BY DEF CloseScreen
  <2> QED
    BY <2>1, <2>2, ShadowedFinite, FS_EmptySet DEF ScanInv, ShadowsOK
<1>5. TypeOK'
  BY <1>1, <1>2, <1>3, <1>4 DEF ScanInv, TypeOK, Calls
<1>6. ControlOK'
  BY <1>0, <1>2 DEF ScanInv, TypeOK, ControlOK, Pix
<1>7. BosOK'
  BY <1>0, <1>1, <1>2 DEF ScanInv, TypeOK, BosOK, Pix, Held
<1>8. FbsOK'
  BY <1>0, <1>2, <1>3 DEF ScanInv, TypeOK, FbsOK, FbsKnown
<1>9. DrawnOK' /\ ShadowsOK' /\ ScanOK'
  BY <1>2, <1>4 DEF DrawnOK, ShadowsOK, ScanOK
<1> QED
  BY <1>5, <1>6, <1>7, <1>8, <1>9 DEF ScanInv

LEMMA ScanStep == ScanInv /\ [Next]_vars => ScanInv'
<1> SUFFICES ASSUME ScanInv, [Next]_vars PROVE ScanInv'
  OBVIOUS
<1>1. CASE Next
  BY <1>1, ScreenInitKeeps, ResizeKeeps, ShadowAllocateKeeps, CreateScreenResourcesKeeps,
     EnterVTKeeps, EnteredKeeps, LeaveVTKeeps, ResizeEndKeeps, SetModeKeeps, SetCrtcKeeps,
     TurnOffKeeps, RotateDestroysKeeps, RotatedKeeps, ShadowAllocateFailsKeeps,
     AllocScanoutKeeps, FlipKeeps, DestroyPixmapKeeps, FlipDoneKeeps, CloseScreenKeeps DEF Next
<1>2. CASE UNCHANGED vars
  <2> USE <1>2 DEF vars
  <2>1. TypeOK' /\ ControlOK'
    BY DEF ScanInv, TypeOK, ControlOK, Pix
  <2>2. BosOK' /\ FbsOK'
    BY DEF ScanInv, BosOK, Pix, Held, FbsOK, FbsKnown
  <2>3. DrawnOK' /\ ShadowsOK'
    BY DEF ScanInv, DrawnOK, ShadowsOK, Shadowed
  <2>4. ScanOK'
    BY DEF ScanInv, ScanOK, Good, Bad
  <2> QED
    BY <2>1, <2>2, <2>3, <2>4 DEF ScanInv
<1> QED
  BY <1>1, <1>2

LEMMA ScanInvariant == Spec => []ScanInv
BY ScanInitInv, ScanStep, PTL DEF Spec

-----------------------------------------------------------------------------
(* The set of the indices at which at most one bo lies has one element or  *)
(* none.                                                                   *)
LEMMA OneIndex ==
  ASSUME NEW S, NEW x, NEW f, \A p, q \in S : f[p] = x /\ f[q] = x => p = q
  PROVE  Cardinality({p \in S : f[p] = x}) = IF \E p \in S : f[p] = x THEN 1 ELSE 0
<1>1. CASE \E p \in S : f[p] = x
  <2>1. PICK p \in S : f[p] = x
    BY <1>1
  <2>2. {q \in S : f[q] = x} = {p}
    BY <2>1
  <2> QED
    BY <1>1, <2>2, FS_Singleton
<1>2. CASE ~ \E p \in S : f[p] = x
  <2>1. {q \in S : f[q] = x} = {}
    BY <1>2
  <2> QED
    BY <1>2, <2>1, FS_EmptySet
<1> QED
  BY <1>1, <1>2

(* Every bo has one reference for each of its holders, and the kernel has  *)
(* the framebuffers the driver knows of, each in one role                  *)
(* (drm_armada_bo_put and drmModeRmFB over resizes, shadows, flips and     *)
(* CloseScreen).                                                           *)
THEOREM HeldCorrect == Spec => []HeldExactly
<1>1. ASSUME ScanInv PROVE HeldExactly
  <2>1. ASSUME NEW b \in Bos PROVE ref[b] = Holders(b)
    <3>1. DOMAIN data = Pix /\ b # NoBo
      BY <1>1 DEF ScanInv, TypeOK, Pix
    <3>2. Cardinality({p \in Pix : data[p] = b}) = IF \E p \in Pix : data[p] = b THEN 1 ELSE 0
      <4>1. \A p, q \in Pix : data[p] = b /\ data[q] = b => p = q
        BY <1>1, <3>1 DEF ScanInv, BosOK
      <4> HIDE DEF Pix
      <4> QED
        BY <4>1, OneIndex
    <3>3. Cardinality({c \in Crtcs : rotatedData[c] = b}) = IF \E c \in Crtcs : rotatedData[c] = b THEN 1 ELSE 0
      <4>1. \A c, d \in Crtcs : rotatedData[c] = b /\ rotatedData[d] = b => c = d
        BY <1>1, <3>1 DEF ScanInv, BosOK
      <4> QED
        BY <4>1, OneIndex
    <3>4. ref[b] = IF Held(b) THEN 1 ELSE 0
      BY <1>1 DEF ScanInv, BosOK
    <3>5. /\ (\E p \in Pix : data[p] = b) => b \notin {front_bo, old_bo} /\ \A c \in Crtcs : rotatedData[c] # b
          /\ (\E c \in Crtcs : rotatedData[c] = b) => b \notin {front_bo, old_bo}
          /\ ~(front_bo = b /\ old_bo = b)
      BY <1>1, <3>1 DEF ScanInv, BosOK
    <3> QED
      BY <3>1, <3>2, <3>3, <3>4, <3>5 DEF Holders, Held
  <2>2. {f \in Fbs : fbs[f] # NoBo} = FbsKnown \ {NoFb}
    <3>1. FbsKnown \ {NoFb} \subseteq Fbs
      BY <1>1 DEF ScanInv, TypeOK, FbsKnown
    <3> QED
      BY <1>1, <3>1 DEF ScanInv, FbsOK
  <2>3. \A c, d \in Crtcs : rotate_fb_id[c] = rotate_fb_id[d] /\ c # d => rotate_fb_id[c] = NoFb
    BY <1>1 DEF ScanInv, FbsOK
  <2> QED
    BY <2>1, <2>2, <2>3 DEF HeldExactly
<1> QED
  BY <1>1, ScanInvariant, PTL

(* The framebuffer of the screen or of a shadow is made of the bo that is  *)
(* drawn to, and shadow_present counts the shadows (common_drm_flip_pixmap, *)
(* armada_drm_xf86crtc_resize, armada_drm_crtc_shadow_allocate).           *)
THEOREM DrawnCorrect == Spec => []ShowsWhatIsDrawn
<1>1. ScanInv => ShowsWhatIsDrawn
  BY DEF ScanInv, DrawnOK, ShadowsOK, FbsOK, Shadowed, ShowsWhatIsDrawn
<1> QED
  BY <1>1, ScanInvariant, PTL

(* An enabled CRTC shows its shadow or the screen, and one whose mode was  *)
(* refused nothing that is stale (common_drm_crtc_apply,                   *)
(* common_drm_crtc_resize, common_drm_flip).                               *)
THEOREM ScansCorrect == Spec => []ScansRight
<1>1. ScanInv => ScansRight
  BY DEF ScanInv, ScanOK, ScansRight, Running, Good, Bad
<1> QED
  BY <1>1, ScanInvariant, PTL

=============================================================================
