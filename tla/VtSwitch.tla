------------------------------ MODULE VtSwitch ------------------------------
(***************************************************************************)
(* DRM master over VT switches and server generations (src/common_drm.c,   *)
(* src/armada_drm.c, src/armada_module.c), composed with the page flips of *)
(* PageFlip: the screens of a device share master_count, the kernel has    *)
(* one master at a time, and only the master may set a mode or flip.       *)
(*                                                                         *)
(* Either the driver manages master status or it never touches it: the     *)
(* device comes from logind, or the server is not privileged.  The server  *)
(* exits when a ScreenInit or an EnterVT returns FALSE.  The framebuffers  *)
(* of one screen, This, are modelled; CRTCs that another master uses show  *)
(* NoFb.                                                                   *)
(***************************************************************************)
EXTENDS PageFlip

CONSTANTS
  Screens,       \* the screens of the device
  This,          \* the one whose CRTCs and framebuffers are those of PageFlip
  MaxGenerations \* bound: the generations of the server

ASSUME ScreensAssumption ==
  IsFiniteSet(Screens) /\ This \in Screens /\ MaxGenerations \in Nat

VARIABLES
  managed,      \* ddx_managed_master of the device
  master_count, \* drm_dev->master_count
  vtSema,       \* the screens that have the VT
  generation,   \* how often the screens have been initialised
  master,       \* the kernel: whose DRM master is it?
  exited        \* has the server exited?

masterVars == <<managed, master_count, vtSema, generation, master, exited>>
vars == <<flipVars, masterVars>>

TypeOK ==
  /\ PageFlipTypeOK
  /\ managed \in BOOLEAN /\ exited \in BOOLEAN
  /\ master_count \in Nat
  /\ vtSema \subseteq Screens
  /\ generation \in 1 .. MaxGenerations
  /\ master \in {"us", "other", "none"}

-----------------------------------------------------------------------------
(* common_drm_get_master, with the master_count that it finds: does it     *)
(* return TRUE, and who is master then?                                    *)
GetMaster(n, m) == n > 0 \/ m # "other"
Got(n, m) == IF n = 0 /\ m # "other" THEN "us" ELSE m

(* common_drm_put_master                                                   *)

(* Mutant: drops master as soon as one screen leaves.                      *)
PutEager(n, m) == IF m = "us" THEN "none" ELSE m

Put(n, m) == IF n = 1 /\ m = "us" THEN "none" ELSE m

Exit == exited' = TRUE /\ UNCHANGED <<flipVars, managed, master_count, vtSema, generation, master>>

(* The desired modes, with the current framebuffer; the CRTCs that are not *)
(* used are turned off.                                                    *)
Shown(fb) == [c \in Crtcs |-> IF c \in enabled THEN fb ELSE NoFb]

(* armada_create_dev and common_alloc_dev, for a device that is master, and*)
(* the first ScreenInit of each screen.  It gets master itself, and again  *)
(* in its EnterVT, while LeaveVT puts it once: the count has one left for  *)
(* each screen of each generation, and no LeaveVT brings it to zero.       *)
Init ==
  /\ \E b \in Bos : PageFlipInit(b)
  /\ managed \in BOOLEAN
  /\ master_count = (IF managed THEN 0 ELSE 1) + 2 * Cardinality(Screens)
  /\ vtSema = Screens
  /\ generation = 1
  /\ master = "us"
  /\ exited = FALSE

(* common_drm_EnterVT.  logind hands master back before the server enters. *)
(* The modes can be set by the master only.                                *)
EnterVT(s) ==
  /\ s \notin vtSema
  /\ managed \/ master = "us"
  /\ LET m == Got(master_count, master)
     IN  IF GetMaster(master_count, master) /\ m = "us"
           THEN /\ master' = m
                /\ master_count' = master_count + 1
                /\ vtSema' = vtSema \union {s}
                /\ IF s = This THEN scan' = Shown(fb_id) /\ busy' = {}
                               ELSE UNCHANGED <<scan, busy>>
                /\ UNCHANGED <<fbs, inflight, driver, managed, generation, exited>>
           ELSE Exit

(* common_drm_LeaveVT: what the CRTCs show stays until another sets them.  *)
LeaveVT(s) ==
  /\ s \in vtSema
  /\ master' = Put(master_count, master)
  /\ master_count' = master_count - 1
  /\ vtSema' = vtSema \ {s}
  /\ UNCHANGED <<flipVars, managed, generation, exited>>

(* A new generation: common_drm_CloseScreen, which leaves the VT, and      *)
(* armada_drm_ScreenInit of each screen, which gets master, and does so    *)
(* again when it enters the VT.  The page flips that are due stay so.      *)
Regenerate(bo) ==
  LET n == master_count - Cardinality(vtSema)
      m == IF n = 0 /\ vtSema # {} THEN Put(1, master) ELSE master
  IN  /\ generation < MaxGenerations
      /\ IF GetMaster(n, m) /\ Got(n, m) = "us"
           THEN /\ master' = "us"
                /\ master_count' = n + 2 * Cardinality(Screens)
                /\ vtSema' = Screens
                /\ generation' = generation + 1
                /\ \E new \in Unused :
                     /\ new = Pick(Unused)
                     /\ fb_id' = new
                     /\ fbs' = [fbs EXCEPT ![fb_id] = NoBo, ![new] = bo]
                     /\ scan' = Shown(new)
                /\ busy' = {}
                /\ UNCHANGED <<inflight, enabled, flip_count, flip_event,
                               flip_old_fb_id, accepted, managed, exited>>
           ELSE Exit

(* A step of a screen may fail for want of memory or of a mode.            *)
ScreenFails == (vtSema # Screens \/ generation < MaxGenerations) /\ Exit

(* Another server or a console takes master when there is none, shows what *)
(* it likes, and lets go of it; logind takes master from a server that has *)
(* left the VT, and hands it back.                                         *)
OtherTakes ==
  /\ master = "none" \/ (~managed /\ vtSema = {} /\ master = "us")
  /\ master' = "other"
  /\ scan' = [c \in Crtcs |-> NoFb] /\ busy' = {}
  /\ UNCHANGED <<fbs, inflight, driver, managed, master_count, vtSema, generation, exited>>

OtherGives ==
  /\ master = "other"
  /\ master' = IF managed THEN "none" ELSE "us"
  /\ UNCHANGED <<flipVars, managed, master_count, vtSema, generation, exited>>

-----------------------------------------------------------------------------
(* The steps of PageFlip.  The kernel refuses the flips and the modes of a *)
(* server that is not master; framebuffers may be made and removed.        *)
FlipOnVT(bo, event) ==
  /\ event \notin accepted
  /\ OneAtATime => accepted = {}
  /\ \E failed \in IF master = "us" THEN Failures ELSE {Crtcs} :
       FlipTaken(bo, event, failed) \/ FlipRefused(bo, failed)

ResizeOnVT(bo) ==
  \E failed \in IF master = "us" THEN ResizeFailures ELSE {Crtcs} : Resize(bo, failed)

Next ==
  /\ ~exited
  /\ \/ \E s \in Screens : EnterVT(s) \/ LeaveVT(s)
     \/ \E bo \in Bos : Regenerate(bo)
     \/ ScreenFails \/ OtherTakes \/ OtherGives
     \/ /\ UNCHANGED masterVars
        /\ \/ \E bo \in Bos, event \in Events : FlipOnVT(bo, event)
           \/ \E e \in inflight : FlipHandler(e)
           \/ \E c \in Crtcs : Vblank(c) \/ Disable(c)
           \/ \E c \in Crtcs : master = "us" /\ SetMode(c)
           \/ \E bo \in Bos : ResizeOnVT(bo)

Spec == Init /\ [][Next]_vars

-----------------------------------------------------------------------------
(* Properties.                                                             *)

(* A screen that has the VT has a device that is master, whichever other   *)
(* screen has left or entered and whatever the other servers did, and its  *)
(* CRTCs show its current framebuffer, also after flips and resizes that   *)
(* came while it was away or that were due then.  The count covers the     *)
(* screens on the VT, which is assert(drm_dev->master_count), and never    *)
(* returns to zero for a device that the driver does not manage.           *)
OnVT ==
  /\ master_count >= Cardinality(vtSema) + (IF managed THEN 0 ELSE 1)
  /\ vtSema # {} /\ ~exited => master = "us"
  /\ This \in vtSema /\ ~exited => \A c \in enabled : scan[c] = fb_id

=============================================================================
