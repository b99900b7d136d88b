------------------------------ MODULE PageFlip ------------------------------
(***************************************************************************)
(* The framebuffer that is on screen and the page flip that replaces it    *)
(* (src/common_drm.c): common_drm_flip asks every enabled CRTC to show a   *)
(* new framebuffer, counts the requests the kernel takes, and when the     *)
(* last of them is done removes the old framebuffer and hands the caller's *)
(* event on.  A mode set and a resize of the screen come in between.       *)
(*                                                                         *)
(* The kernel's side: a CRTC shows one framebuffer and refuses a page flip *)
(* while one is due; removing a framebuffer turns off what shows it.       *)
(***************************************************************************)
EXTENDS Naturals, FiniteSets

CONSTANTS
  Crtcs,          \* xf86CrtcPtr
  Fbs, NoFb,      \* framebuffer ids of the kernel
  Bos, NoBo,      \* buffer objects a framebuffer is made of
  Events, NoEvent, \* struct common_drm_event of the callers of common_drm_flip
  PartialFailure, \* may the kernel refuse some CRTCs and serve others?
  OneAtATime      \* do callers wait for a flip before they ask for another?

ASSUME CrtcsAssumption == IsFiniteSet(Crtcs) /\ Crtcs # {}
ASSUME FbsAssumption == NoFb \notin Fbs /\ Fbs # {}
ASSUME BosAssumption == NoBo \notin Bos /\ NoEvent \notin Events
ASSUME FaultsAssumption == PartialFailure \in BOOLEAN /\ OneAtATime \in BOOLEAN

VARIABLES
  fbs,            \* the kernel's framebuffers and the bos they show
  scan,           \* the framebuffer each CRTC shows, or is about to show
  busy,           \* the CRTCs whose page flip is due
  inflight,       \* page flip events due, or not yet read by the server
  enabled,        \* crtc->enabled
  fb_id,          \* drm->fb_id
  flip_count,     \* drm->flip_count
  flip_event,     \* drm->flip_event
  flip_old_fb_id, \* drm->flip_old_fb_id
  accepted        \* the events common_drm_flip has returned TRUE for

kernel   == <<fbs, scan, busy, inflight>>
driver   == <<enabled, fb_id, flip_count, flip_event, flip_old_fb_id, accepted>>
flipVars == <<kernel, driver>>

PageFlipEvent == [crtc : Crtcs, fb : Fbs]

PageFlipTypeOK ==
  /\ fbs \in [Fbs -> Bos \union {NoBo}]
  /\ scan \in [Crtcs -> Fbs \union {NoFb}]
  /\ busy \subseteq Crtcs
  /\ inflight \subseteq PageFlipEvent
  /\ enabled \subseteq Crtcs
  /\ fb_id \in Fbs
  /\ flip_count \in Nat
  /\ flip_event \in Events \union {NoEvent}
  /\ flip_old_fb_id \in Fbs
  /\ accepted \subseteq Events

(* Of ids and addresses that are free it does not matter which is taken.   *)
Pick(S) == CHOOSE x \in S : TRUE

(* The screen's first framebuffer, shown by the CRTCs set up at start.     *)
PageFlipInit(bo) ==
  /\ fb_id = Pick(Fbs)
  /\ fbs = [f \in Fbs |-> IF f = fb_id THEN bo ELSE NoBo]
  /\ enabled \in SUBSET Crtcs
  /\ scan = [c \in Crtcs |-> IF c \in enabled THEN fb_id ELSE NoFb]
  /\ busy = {}
  /\ inflight = {}
  /\ flip_count = 0
  /\ flip_event = NoEvent
  /\ flip_old_fb_id = fb_id
  /\ accepted = {}

-----------------------------------------------------------------------------
(* The kernel.                                                             *)

Vblank(c) ==
  /\ c \in busy
  /\ busy' = busy \ {c}
  /\ UNCHANGED <<fbs, scan, inflight, driver>>

(* drmModeAddFB: an id that is free, and that no unread event carries.     *)
Unused == {f \in Fbs : fbs[f] = NoBo /\ \A e \in inflight : e.fb # f}

(* drmModeRmFB: what shows the framebuffer is turned off.                  *)
TurnedOff(at, f) == [c \in Crtcs |-> IF at[c] = f THEN NoFb ELSE at[c]]
RmFB(f) ==
  /\ fbs' = [fbs EXCEPT ![f] = NoBo]
  /\ scan' = TurnedOff(scan, f)
  /\ busy' = {c \in busy : scan[c] # f}

(* drmModePageFlip: the CRTCs that take the request.                       *)
Takes(failed) == {c \in enabled : scan[c] # NoFb /\ c \notin busy \union failed}
Failures == IF PartialFailure THEN SUBSET Crtcs ELSE {{}, Crtcs}

-----------------------------------------------------------------------------
(* common_drm_flip                                                         *)

Queue(bo, event, queued, count) ==
  /\ \E new \in Unused :
       /\ new = Pick(Unused)
       /\ fbs' = [fbs EXCEPT ![new] = bo]
       /\ fb_id' = new
       /\ scan' = [c \in Crtcs |-> IF c \in queued THEN new ELSE scan[c]]
       /\ inflight' = inflight \union {[crtc |-> c, fb |-> new] : c \in queued}
  /\ busy' = busy \union queued
  /\ flip_count' = count
  /\ flip_event' = event
  /\ flip_old_fb_id' = fb_id
  /\ accepted' = accepted \union {event}
  /\ UNCHANGED enabled

(* Mutant: the flip is accepted even if no CRTC takes it.                  *)
FlipTakenAlways(bo, event, failed) ==
  Queue(bo, event, Takes(failed), flip_count + Cardinality(Takes(failed)))

FlipTaken(bo, event, failed) ==
  LET count == flip_count + Cardinality(Takes(failed))
  IN  count > 0 /\ Queue(bo, event, Takes(failed), count)

(* Mutant: the new framebuffer stays current when no CRTC takes it.        *)
FlipRefusedStays(bo, failed) ==
  /\ flip_count + Cardinality(Takes(failed)) = 0
  /\ fb_id' \in Unused
  /\ UNCHANGED <<kernel, enabled, flip_count, flip_event, flip_old_fb_id, accepted>>

(* No CRTC takes the request: the new framebuffer is removed again.        *)
FlipRefused(bo, failed) ==
  /\ flip_count + Cardinality(Takes(failed)) = 0
  /\ Unused # {}
  /\ UNCHANGED flipVars

(* common_drm_event, common_drm_flip_handler                               *)
Due(e) == e.crtc \in busy /\ scan[e.crtc] = e.fb

(* Mutant: the framebuffer is removed with the first CRTC's event.         *)
FlipHandlerFirst(e) ==
  /\ e \in inflight
  /\ ~Due(e)
  /\ inflight' = inflight \ {e}
  /\ flip_count' = flip_count - 1
  /\ RmFB(flip_old_fb_id)
  /\ accepted' = IF flip_count' = 0 THEN accepted \ {flip_event} ELSE accepted
  /\ UNCHANGED <<enabled, fb_id, flip_event, flip_old_fb_id>>

FlipHandler(e) ==
  /\ e \in inflight
  /\ ~Due(e)
  /\ inflight' = inflight \ {e}
  /\ flip_count' = flip_count - 1
  /\ IF flip_count' = 0
       THEN /\ RmFB(flip_old_fb_id)
            /\ accepted' = accepted \ {flip_event}
       ELSE UNCHANGED <<fbs, scan, busy, accepted>>
  /\ UNCHANGED <<enabled, fb_id, flip_event, flip_old_fb_id>>

-----------------------------------------------------------------------------
(* common_drm_crtc_set_mode_major: a CRTC is set up, with the framebuffer  *)
(* that is current.                                                        *)
SetMode(c) ==
  /\ enabled' = enabled \union {c}
  /\ scan' = [scan EXCEPT ![c] = fb_id]
  /\ busy' = busy \ {c}
  /\ UNCHANGED <<fbs, inflight, fb_id, flip_count, flip_event, flip_old_fb_id,
                 accepted>>

(* The server stops using a CRTC; common_drm_crtc_dpms does nothing, and   *)
(* the CRTC goes on with what it shows.                                    *)
Disable(c) ==
  /\ c \in enabled
  /\ enabled' = enabled \ {c}
  /\ UNCHANGED <<kernel, fb_id, flip_count, flip_event, flip_old_fb_id, accepted>>

(* common_drm_crtc_resize, with the framebuffer that                       *)
(* armada_drm_xf86crtc_resize has made of a new bo.                        *)
Resize(bo, failed) ==
  LET set == enabled \ failed
  IN  \E new \in Unused :
        /\ new = Pick(Unused)
        /\ fb_id' = new
        /\ fbs' = [fbs EXCEPT ![new] = bo, ![fb_id] = NoBo]
        /\ scan' = TurnedOff([c \in Crtcs |-> IF c \in set THEN new ELSE scan[c]],
                             fb_id)
        /\ busy' = {c \in busy \ set : scan[c] # fb_id}
        /\ UNCHANGED <<inflight, enabled, flip_count, flip_event, flip_old_fb_id,
                       accepted>>
ResizeFailures == IF PartialFailure THEN SUBSET Crtcs ELSE {{}}

-----------------------------------------------------------------------------
(* A caller of common_drm_flip that uses an event again when it has it     *)
(* back, and that with OneAtATime waits for that.                          *)
Flip(bo, event) ==
  /\ event \notin accepted
  /\ OneAtATime => accepted = {}
  /\ \E failed \in Failures : FlipTaken(bo, event, failed) \/ FlipRefused(bo, failed)

PageFlipNext ==
  \/ \E bo \in Bos, event \in Events : Flip(bo, event)
  \/ \E e \in inflight : FlipHandler(e)
  \/ \E c \in Crtcs : Vblank(c) \/ SetMode(c) \/ Disable(c)
  \/ \E bo \in Bos, failed \in ResizeFailures : Resize(bo, failed)

PageFlipSpec ==
  /\ \E b \in Bos : PageFlipInit(b)
  /\ [][PageFlipNext]_flipVars

-----------------------------------------------------------------------------
(* Properties.                                                             *)

(* "Now pass the event on to the flip complete event handler"              *)
(* (common_drm_flip_handler): an event that common_drm_flip has accepted   *)
(* is the one the handler will pass on, when the last CRTC is done.        *)
EventKept ==
  \A event \in accepted : flip_event = event /\ flip_count > 0

(* flip_count counts exactly the page flip events the server has not read. *)
FlipCountExact == flip_count = Cardinality(inflight)

(* The framebuffers are the current one and, while a flip is pending, the  *)
(* one it replaces: none leaks, none is removed early or twice.            *)
FbsExact ==
  LET live == {f \in Fbs : fbs[f] # NoBo}
  IN  /\ fb_id \in live
      /\ live \subseteq IF flip_count = 0 THEN {fb_id} ELSE {fb_id, flip_old_fb_id}

(* The framebuffer of a CRTC in use is never removed from under it, which  *)
(* would turn it off.                                                      *)
ScannedFbExists ==
  \A c \in enabled : scan[c] # NoFb /\ fbs[scan[c]] # NoBo

=============================================================================
