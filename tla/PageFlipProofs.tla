-------------------------- MODULE PageFlipProofs --------------------------
(***************************************************************************)
(* Page flips for every set of CRTCs, framebuffers and callers that wait   *)
(* for their flip: the accepted event is passed on, no framebuffer leaks,  *)
(* and, if the kernel does not serve some CRTCs and refuse others, no CRTC *)
(* in use is turned off. The same over every order of VT switches, for     *)
(* every number of screens: none of them disturbs the flips that are due,  *)
(* and the screen is shown while it has the VT.  The same for DRI2, whose  *)
(* swaps are such callers, for every number of clients, drawables, buffers *)
(* and waits: references, the lists of waits and the account of swaps.     *)
(***************************************************************************)
EXTENDS VtSwitch, Dri2, FunctionTheorems, FiniteSetTheorems, TLAPS

(* What is known between two calls.  A CRTC whose flip is due has an event *)
(* to come, so that none is due when the count is back to 0; and the       *)
(* framebuffer that a pending flip replaces still exists, so that a new    *)
(* one does not take its id.                                               *)
FlipInv ==
  /\ PageFlipTypeOK
  /\ IsFiniteSet(inflight)
  /\ FlipCountExact
  /\ EventKept
  /\ flip_count > 0 => accepted # {}
  /\ FbsExact
  /\ flip_count > 0 => fbs[flip_old_fb_id] # NoBo /\ fb_id # flip_old_fb_id
  /\ \A c \in busy : scan[c] \in Fbs /\ [crtc |-> c, fb |-> scan[c]] \in inflight

(* The CRTCs in use show the current framebuffer.                          *)
ShowsCurrent == \A c \in enabled : scan[c] = fb_id

(* The events of a flip are as many as its CRTCs.                          *)
LEMMA EventsOfFlip ==
  ASSUME NEW queued \in SUBSET Crtcs, NEW new
  PROVE  LET es == {[crtc |-> c, fb |-> new] : c \in queued}
         IN  IsFiniteSet(es) /\ Cardinality(es) = Cardinality(queued)
<1> DEFINE es == {[crtc |-> c, fb |-> new] : c \in queued}
           F == [c \in queued |-> [crtc |-> c, fb |-> new]]
<1>1. IsFiniteSet(queued)
  BY CrtcsAssumption, FS_Subset
<1>2. F \in [queued -> es]
  OBVIOUS
<1>3. \A a, b \in queued : F[a] = F[b] => a = b
  OBVIOUS
<1>4. \A t \in es : \E s \in queued : F[s] = t
  OBVIOUS
<1>5. F \in Bijection(queued, es)
  <2> HIDE DEF F, es
  <2> QED BY <1>2, <1>3, <1>4, Fun_IsBij
<1>6. ExistsBijection(queued, es)
  BY <1>5 DEF ExistsBijection
<1>7. IsFiniteSet(es) /\ Cardinality(es) = Cardinality(queued)
  <2> HIDE DEF es
  <2> QED BY <1>1, <1>6, FS_Bijection
<1> QED BY <1>7

LEMMA NoneInFlight ==
  ASSUME FlipInv, flip_count = 0 PROVE inflight = {} /\ busy = {}
<1>1. inflight = {}
  BY FS_EmptySet DEF FlipInv, FlipCountExact
<1> QED BY <1>1 DEF FlipInv

LEMMA FlipInit ==
  ASSUME NEW b \in Bos, PageFlipInit(b) PROVE FlipInv /\ ShowsCurrent
<1>1. IsFiniteSet(inflight) /\ Cardinality(inflight) = 0
  BY FS_EmptySet DEF PageFlipInit
<1>2. fb_id \in Fbs
  BY FbsAssumption DEF PageFlipInit, Pick
<1> QED
  BY <1>1, <1>2, FbsAssumption, BosAssumption
  DEF PageFlipInit, FlipInv, ShowsCurrent, PageFlipTypeOK, PageFlipEvent,
      FlipCountExact, EventKept, FbsExact

(* A flip is taken when none is pending.                                   *)
LEMMA FlipTakenInv ==
  ASSUME FlipInv, accepted = {}, NEW b \in Bos, NEW event \in Events,
         NEW failed \in SUBSET Crtcs, FlipTaken(b, event, failed)
  PROVE  FlipInv'
<1> DEFINE queued == Takes(failed)
<1>1. flip_count = 0
  BY DEF FlipInv, PageFlipTypeOK
<1>2. inflight = {} /\ busy = {}
  BY <1>1, NoneInFlight
<1>3. queued \subseteq Crtcs
  BY DEF Takes, FlipInv, PageFlipTypeOK
<1>4. Cardinality(queued) \in Nat
  BY <1>3, CrtcsAssumption, FS_Subset, FS_CardinalityType
<1>5. flip_count' = Cardinality(queued) /\ Cardinality(queued) > 0
  BY <1>1, <1>4 DEF FlipTaken, Queue
<1>6. PICK new \in Unused :
        /\ fbs' = [fbs EXCEPT ![new] = b]
        /\ fb_id' = new
        /\ scan' = [c \in Crtcs |-> IF c \in queued THEN new ELSE scan[c]]
        /\ inflight' = inflight \union {[crtc |-> c, fb |-> new] : c \in queued}
  BY DEF FlipTaken, Queue
<1>7. new \in Fbs /\ fbs[new] = NoBo
  BY <1>6 DEF Unused
<1>8. /\ busy' = queued
      /\ flip_event' = event
      /\ flip_old_fb_id' = fb_id
      /\ accepted' = {event}
      /\ enabled' = enabled
  BY <1>2 DEF FlipTaken, Queue
<1>9. inflight' = {[crtc |-> c, fb |-> new] : c \in queued}
  BY <1>2, <1>6
<1> HIDE DEF queued
<1>10. IsFiniteSet(inflight') /\ flip_count' = Cardinality(inflight')
  BY <1>3, <1>5, <1>9, EventsOfFlip
<1>11. PageFlipTypeOK'
  BY <1>3, <1>4, <1>5, <1>6, <1>7, <1>8, <1>9
     DEF FlipInv, PageFlipTypeOK, PageFlipEvent
<1>12. FbsExact' /\ fbs'[flip_old_fb_id'] # NoBo /\ fb_id' # flip_old_fb_id'
  BY <1>1, <1>5, <1>6, <1>7, <1>8, BosAssumption DEF FlipInv, FbsExact, PageFlipTypeOK
<1>13. \A c \in busy' : scan'[c] \in Fbs /\ [crtc |-> c, fb |-> scan'[c]] \in inflight'
  BY <1>3, <1>6, <1>7, <1>8, <1>9
<1> QED
  BY <1>5, <1>8, <1>10, <1>11, <1>12, <1>13
  DEF FlipInv, FlipCountExact, EventKept

LEMMA FlipHandlerInv ==
  ASSUME FlipInv, NEW e \in inflight, FlipHandler(e) PROVE FlipInv'
<1>1. /\ inflight' = inflight \ {e} /\ ~Due(e)
      /\ flip_count' = flip_count - 1
      /\ UNCHANGED <<enabled, fb_id, flip_event, flip_old_fb_id>>
  BY DEF FlipHandler
<1>2. /\ IsFiniteSet(inflight') /\ Cardinality(inflight) \in Nat
      /\ Cardinality(inflight') = Cardinality(inflight) - 1
      /\ Cardinality(inflight') \in Nat
  BY <1>1, FS_RemoveElement, FS_CardinalityType DEF FlipInv
<1>3. flip_count' = Cardinality(inflight') /\ flip_count' \in Nat /\ flip_count > 0
  BY <1>1, <1>2 DEF FlipInv, FlipCountExact
<1>4. CASE flip_count' = 0
  <2>1. RmFB(flip_old_fb_id) /\ accepted' = accepted \ {flip_event}
    BY <1>4 DEF FlipHandler
  <2>2. /\ fbs' = [fbs EXCEPT ![flip_old_fb_id] = NoBo]
        /\ scan' = TurnedOff(scan, flip_old_fb_id)
        /\ busy' = {c \in busy : scan[c] # flip_old_fb_id}
    BY <2>1 DEF RmFB
  <2>3. PageFlipTypeOK'
    BY <1>1, <1>3, <2>1, <2>2 DEF FlipInv, PageFlipTypeOK, TurnedOff
  <2>4. accepted' = {}
    BY <2>1, <1>3 DEF FlipInv, EventKept
  <2>5. FbsExact'
    BY <1>1, <1>3, <1>4, <2>2 DEF FlipInv, FbsExact, PageFlipTypeOK
  <2>6. \A c \in busy' : scan'[c] \in Fbs /\ [crtc |-> c, fb |-> scan'[c]] \in inflight'
    BY <1>1, <2>2 DEF FlipInv, PageFlipTypeOK, TurnedOff, Due
  <2> QED
    BY <1>2, <1>3, <1>4, <2>3, <2>4, <2>5, <2>6 DEF FlipInv, FlipCountExact, EventKept
<1>5. CASE flip_count' # 0
  <2>1. UNCHANGED <<fbs, scan, busy, accepted>>
    BY <1>5 DEF FlipHandler
  <2>2. flip_count' > 0
    BY <1>3, <1>5
  <2>3. PageFlipTypeOK'
    BY <1>1, <1>3, <2>1 DEF FlipInv, PageFlipTypeOK
  <2>4. FbsExact'
    BY <1>1, <1>3, <1>5, <2>1 DEF FlipInv, FbsExact
  <2>5. \A c \in busy' : scan'[c] \in Fbs /\ [crtc |-> c, fb |-> scan'[c]] \in inflight'
    BY <1>1, <2>1 DEF FlipInv, PageFlipTypeOK, Due
  <2> QED
    BY <1>1, <1>2, <1>3, <2>1, <2>2, <2>3, <2>4, <2>5 DEF FlipInv, FlipCountExact, EventKept
<1> QED BY <1>4, <1>5

LEMMA ResizeInv ==
  ASSUME FlipInv, NEW b \in Bos, NEW failed \in SUBSET Crtcs, Resize(b, failed)
  PROVE  FlipInv'
<1> DEFINE set == enabled \ failed
<1>1. PICK new \in Unused :
        /\ fb_id' = new
        /\ fbs' = [fbs EXCEPT ![new] = b, ![fb_id] = NoBo]
        /\ scan' = TurnedOff([c \in Crtcs |-> IF c \in set THEN new ELSE scan[c]], fb_id)
        /\ busy' = {c \in busy \ set : scan[c] # fb_id}
        /\ UNCHANGED <<inflight, enabled, flip_count, flip_event, flip_old_fb_id, accepted>>
  BY DEF Resize
<1>2. new \in Fbs /\ fbs[new] = NoBo /\ new # fb_id
  BY <1>1 DEF Unused, FlipInv, FbsExact
<1>3. fbs' \in [Fbs -> Bos \union {NoBo}]
  BY <1>1, <1>2 DEF FlipInv, PageFlipTypeOK
<1>4. \A f \in Fbs : fbs'[f] = IF f = fb_id THEN NoBo ELSE IF f = new THEN b ELSE fbs[f]
  BY <1>1, <1>2 DEF FlipInv, PageFlipTypeOK
<1>5. PageFlipTypeOK'
  BY <1>1, <1>2, <1>3 DEF FlipInv, PageFlipTypeOK, TurnedOff
<1>6. FbsExact'
  BY <1>1, <1>2, <1>4, BosAssumption DEF FlipInv, FbsExact, PageFlipTypeOK
<1>7. flip_count' > 0 => fbs'[flip_old_fb_id'] # NoBo /\ fb_id' # flip_old_fb_id'
  BY <1>1, <1>2, <1>4 DEF FlipInv, PageFlipTypeOK
<1>8. \A c \in busy' : scan'[c] \in Fbs /\ [crtc |-> c, fb |-> scan'[c]] \in inflight'
  BY <1>1 DEF FlipInv, PageFlipTypeOK, TurnedOff
<1> QED
  BY <1>1, <1>5, <1>6, <1>7, <1>8 DEF FlipInv, FlipCountExact, EventKept

(* No flip is accepted while another is pending.                           *)
FlipsWait == accepted # {} => accepted' \subseteq accepted

LEMMA OneAtATimeWaits ==
  ASSUME OneAtATime, FlipInv, [PageFlipNext]_flipVars PROVE FlipsWait
<1>1. ASSUME NEW b \in Bos, NEW event \in Events, Flip(b, event) PROVE FlipsWait
  BY <1>1 DEF Flip, FlipsWait
<1>2. ASSUME NEW e \in inflight, FlipHandler(e) PROVE FlipsWait
  BY <1>2 DEF FlipHandler, FlipsWait
<1>3. ASSUME NEW c \in Crtcs, Vblank(c) \/ SetMode(c) \/ Disable(c) PROVE FlipsWait
  BY <1>3 DEF Vblank, SetMode, Disable, kernel, driver, FlipsWait
<1>4. ASSUME NEW b \in Bos, NEW failed \in ResizeFailures, Resize(b, failed) PROVE FlipsWait
  BY <1>4 DEF Resize, FlipsWait
<1>5. CASE UNCHANGED flipVars
  BY <1>5 DEF flipVars, driver, FlipsWait
<1> QED BY <1>1, <1>2, <1>3, <1>4, <1>5 DEF PageFlipNext

LEMMA FlipStep ==
  ASSUME FlipsWait, FlipInv, [PageFlipNext]_flipVars PROVE FlipInv'
<1>1. ASSUME NEW b \in Bos, NEW event \in Events, Flip(b, event) PROVE FlipInv'
  <2>1. event \notin accepted
    BY <1>1 DEF Flip
  <2>2. PICK failed \in Failures : FlipTaken(b, event, failed) \/ FlipRefused(b, failed)
    BY <1>1 DEF Flip
  <2>3. failed \in SUBSET Crtcs
    BY DEF Failures
  <2>4. CASE FlipTaken(b, event, failed)
    <3>1. accepted = {}
      BY <2>1, <2>4 DEF FlipTaken, Queue, FlipsWait
    <3> QED BY <2>3, <2>4, <3>1, FlipTakenInv
  <2>5. CASE FlipRefused(b, failed)
    BY <2>5 DEF FlipRefused, flipVars, kernel, driver, FlipInv, PageFlipTypeOK,
                FlipCountExact, EventKept, FbsExact
  <2> QED BY <2>2, <2>4, <2>5
<1>2. ASSUME NEW e \in inflight, FlipHandler(e) PROVE FlipInv'
  BY <1>2, FlipHandlerInv
<1>3. ASSUME NEW c \in Crtcs, Vblank(c) PROVE FlipInv'
  BY <1>3 DEF Vblank, driver, FlipInv, PageFlipTypeOK, FlipCountExact, EventKept, FbsExact
<1>4. ASSUME NEW c \in Crtcs, SetMode(c) PROVE FlipInv'
  BY <1>4 DEF SetMode, FlipInv, PageFlipTypeOK, FlipCountExact, EventKept, FbsExact
<1>5. ASSUME NEW c \in Crtcs, Disable(c) PROVE FlipInv'
  BY <1>5 DEF Disable, kernel, FlipInv, PageFlipTypeOK, FlipCountExact, EventKept, FbsExact
<1>6. ASSUME NEW b \in Bos, NEW failed \in ResizeFailures, Resize(b, failed) PROVE FlipInv'
  <2>1. failed \in SUBSET Crtcs
    BY DEF ResizeFailures
  <2> QED BY <1>6, <2>1, ResizeInv
<1>7. CASE UNCHANGED flipVars
  BY <1>7 DEF flipVars, kernel, driver, FlipInv, PageFlipTypeOK, FlipCountExact, EventKept, FbsExact
<1> QED BY <1>1, <1>2, <1>3, <1>4, <1>5, <1>6, <1>7 DEF PageFlipNext

LEMMA ShowsCurrentStep ==
  ASSUME FlipsWait, PartialFailure = FALSE, FlipInv, ShowsCurrent,
         [PageFlipNext]_flipVars
  PROVE  ShowsCurrent'
<1>1. ASSUME NEW b \in Bos, NEW event \in Events, Flip(b, event) PROVE ShowsCurrent'
  <2>1. PICK failed \in Failures : FlipTaken(b, event, failed) \/ FlipRefused(b, failed)
    BY <1>1 DEF Flip
  <2>2. failed \in {{}, Crtcs}
    BY DEF Failures
  <2>3. FlipTaken(b, event, failed) => flip_count = 0 /\ busy = {}
    <3>1. FlipTaken(b, event, failed) => accepted = {}
      BY <1>1 DEF Flip, FlipTaken, Queue, FlipsWait
    <3> QED BY <3>1, NoneInFlight DEF FlipInv, PageFlipTypeOK
  <2>4. CASE FlipRefused(b, failed)
    BY <2>4 DEF FlipRefused, kernel, driver, flipVars, ShowsCurrent
  <2>5. CASE FlipTaken(b, event, failed)
    <3>0. flip_count = 0 /\ busy = {}
      BY <2>3, <2>5
    <3>1. Takes(failed) # {}
      BY <3>0, <2>5, FS_EmptySet DEF FlipTaken
    <3>2. failed = {}
      BY <2>2, <3>1 DEF Takes, FlipInv, PageFlipTypeOK
    <3>3. Takes(failed) = enabled
      BY <3>0, <3>2, FbsAssumption DEF Takes, ShowsCurrent, FlipInv, PageFlipTypeOK
    <3> QED BY <2>5, <3>3 DEF FlipTaken, Queue, ShowsCurrent, FlipInv, PageFlipTypeOK
  <2> QED BY <2>1, <2>4, <2>5
<1>2. ASSUME NEW e \in inflight, FlipHandler(e) PROVE ShowsCurrent'
  <2>1. flip_count > 0
    BY <1>2, FlipHandlerInv, FS_RemoveElement, FS_CardinalityType
       DEF FlipHandler, FlipInv, FlipCountExact, PageFlipTypeOK
  <2> QED
    BY <1>2, <2>1 DEF FlipHandler, RmFB, TurnedOff, ShowsCurrent, FlipInv, PageFlipTypeOK
<1>3. ASSUME NEW c \in Crtcs, Vblank(c) \/ SetMode(c) \/ Disable(c) PROVE ShowsCurrent'
  BY <1>3 DEF Vblank, SetMode, Disable, kernel, driver, ShowsCurrent, FlipInv, PageFlipTypeOK
<1>4. ASSUME NEW b \in Bos, NEW failed \in ResizeFailures, Resize(b, failed)
      PROVE  ShowsCurrent'
  <2>1. failed = {}
    BY DEF ResizeFailures
  <2>2. \A new \in Unused : new # fb_id
    BY DEF Unused, FlipInv, FbsExact
  <2> QED
    BY <1>4, <2>1, <2>2 DEF Resize, TurnedOff, ShowsCurrent, FlipInv, PageFlipTypeOK
<1>5. CASE UNCHANGED flipVars
  BY <1>5 DEF flipVars, kernel, driver, ShowsCurrent
<1> QED BY <1>1, <1>2, <1>3, <1>4, <1>5 DEF PageFlipNext

LEMMA FlipNext ==
  ASSUME OneAtATime, FlipInv, [PageFlipNext]_flipVars PROVE FlipInv'
BY OneAtATimeWaits, FlipStep

LEMMA ShowsCurrentNext ==
  ASSUME OneAtATime, PartialFailure = FALSE, FlipInv, ShowsCurrent,
         [PageFlipNext]_flipVars
  PROVE  ShowsCurrent'
BY OneAtATimeWaits, ShowsCurrentStep

-----------------------------------------------------------------------------
(* Callers that wait for their flip get their event back: the flip handler *)
(* still has it when the last CRTC is done (common_drm_flip_handler).      *)
THEOREM EventKeptCorrect ==
  ASSUME OneAtATime PROVE PageFlipSpec => []EventKept
<1>1. (\E b \in Bos : PageFlipInit(b)) => FlipInv
  BY FlipInit
<1>2. FlipInv /\ [PageFlipNext]_flipVars => FlipInv'
  BY FlipNext
<1>3. FlipInv => EventKept
  BY DEF FlipInv
<1> QED BY <1>1, <1>2, <1>3, PTL DEF PageFlipSpec

(* The kernel's framebuffers are exactly the current one and the one that  *)
(* a pending flip replaces (common_drm_flip, common_drm_flip_handler,      *)
(* common_drm_crtc_resize), and the state has its types.                   *)
THEOREM FbsCorrect ==
  ASSUME OneAtATime PROVE PageFlipSpec => [](PageFlipTypeOK /\ FlipCountExact /\ FbsExact)
<1>1. (\E b \in Bos : PageFlipInit(b)) => FlipInv
  BY FlipInit
<1>2. FlipInv /\ [PageFlipNext]_flipVars => FlipInv'
  BY FlipNext
<1>3. FlipInv => PageFlipTypeOK /\ FlipCountExact /\ FbsExact
  BY DEF FlipInv
<1> QED BY <1>1, <1>2, <1>3, PTL DEF PageFlipSpec

(* If the kernel takes a page flip on all of the CRTCs or on none, and     *)
(* sets every mode, a CRTC in use is never turned off by the removal of    *)
(* its framebuffer.                                                        *)
THEOREM ScannedFbCorrect ==
  ASSUME OneAtATime, PartialFailure = FALSE PROVE PageFlipSpec => []ScannedFbExists
<1>1. (\E b \in Bos : PageFlipInit(b)) => FlipInv /\ ShowsCurrent
  BY FlipInit
<1>2. FlipInv /\ ShowsCurrent /\ [PageFlipNext]_flipVars => (FlipInv /\ ShowsCurrent)'
  BY FlipNext, ShowsCurrentNext
<1>3. FlipInv /\ ShowsCurrent => ScannedFbExists
  BY FbsAssumption DEF FlipInv, ShowsCurrent, ScannedFbExists, FbsExact
<1> QED BY <1>1, <1>2, <1>3, PTL DEF PageFlipSpec
-----------------------------------------------------------------------------
(* VT switches.  The count covers the screens that have the VT, and one    *)
(* more for a device that the driver does not manage, so that the last of  *)
(* them drops master and no other; and a flip that is due when another     *)
(* master comes in between is still counted.                               *)
VtInv ==
  /\ FlipInv
  /\ managed \in BOOLEAN /\ exited \in BOOLEAN
  /\ master_count \in Nat
  /\ vtSema \subseteq Screens
  /\ master_count >= Cardinality(vtSema) + (IF managed THEN 0 ELSE 1)
  /\ vtSema # {} /\ ~exited => master = "us"

(* The CRTCs of the screen show its framebuffer while it has the VT, if    *)
(* the kernel serves all of them or none.                                  *)
OnScreen == ~PartialFailure /\ This \in vtSema /\ ~exited => ShowsCurrent

LEMMA Counted ==
  ASSUME NEW on \in SUBSET Screens
  PROVE  IsFiniteSet(on) /\ Cardinality(on) \in Nat
BY ScreensAssumption, FS_Subset, FS_CardinalityType

LEMMA VtInit == Init => VtInv /\ OnScreen
<1> SUFFICES ASSUME Init PROVE VtInv /\ OnScreen
  OBVIOUS
<1>1. FlipInv /\ ShowsCurrent
  BY FlipInit DEF Init
<1>2. Cardinality(Screens) \in Nat
  BY Counted
<1>3. master_count \in Nat /\ master_count >= Cardinality(Screens) + (IF managed THEN 0 ELSE 1)
  BY <1>2 DEF Init
<1> QED
  BY <1>1, <1>3 DEF Init, VtInv, OnScreen

(* Modes that are set, and CRTCs that are taken away, keep what is counted.*)
LEMMA ScanInv ==
  ASSUME FlipInv, scan' \in [Crtcs -> Fbs \union {NoFb}], busy' = {},
         UNCHANGED <<fbs, inflight, driver>>
  PROVE  FlipInv'
BY DEF driver, FlipInv, PageFlipTypeOK, FlipCountExact, EventKept, FbsExact

LEMMA EnterKeeps ==
  ASSUME VtInv, OnScreen, ~exited, NEW s \in Screens, EnterVT(s)
  PROVE  VtInv' /\ OnScreen'
<1> DEFINE m == Got(master_count, master)
<1>1. CASE ~(GetMaster(master_count, master) /\ m = "us")
  <2>1. Exit
    BY <1>1 DEF EnterVT
  <2>2. FlipInv'
    BY <2>1 DEF Exit, flipVars, kernel, driver, VtInv, FlipInv, PageFlipTypeOK,
                FlipCountExact, EventKept, FbsExact
  <2> QED
    BY <2>1, <2>2 DEF Exit, VtInv, OnScreen
<1>2. CASE GetMaster(master_count, master) /\ m = "us"
  <2>1. /\ s \notin vtSema /\ master' = "us" /\ master_count' = master_count + 1
        /\ vtSema' = vtSema \union {s}
        /\ IF s = This THEN scan' = Shown(fb_id) /\ busy' = {} ELSE UNCHANGED <<scan, busy>>
        /\ UNCHANGED <<fbs, inflight, driver, managed, exited>>
    BY <1>2 DEF EnterVT
  <2>2. IsFiniteSet(vtSema) /\ Cardinality(vtSema) \in Nat
    BY Counted DEF VtInv
  <2>3. Cardinality(vtSema') = Cardinality(vtSema) + 1
    BY <2>1, <2>2, FS_AddElement
  <2>4. FlipInv' /\ OnScreen'
    <3>1. CASE s = This
      <4>1. scan' = [c \in Crtcs |-> IF c \in enabled THEN fb_id ELSE NoFb] /\ busy' = {}
            /\ UNCHANGED <<enabled, fb_id>>
        BY <2>1, <3>1 DEF Shown, driver
      <4>2. scan' \in [Crtcs -> Fbs \union {NoFb}] /\ enabled \subseteq Crtcs
        BY <4>1 DEF VtInv, FlipInv, PageFlipTypeOK
      <4>3. ShowsCurrent'
        BY <4>1, <4>2 DEF ShowsCurrent
      <4> QED
        BY <2>1, <4>1, <4>2, <4>3, ScanInv DEF VtInv, OnScreen
    <3>2. CASE s # This
      <4>1. FlipInv'
        BY <2>1, <3>2 DEF driver, VtInv, FlipInv, PageFlipTypeOK, FlipCountExact,
                          EventKept, FbsExact
      <4> QED
        BY <2>1, <3>2, <4>1 DEF driver, OnScreen, ShowsCurrent
    <3> QED
      BY <3>1, <3>2
  <2> QED
    BY <2>1, <2>2, <2>3, <2>4 DEF VtInv
<1> QED
  BY <1>1, <1>2

(* Only the last screen to leave finds a count that drops master.          *)
LEMMA LeaveKeeps ==
  ASSUME VtInv, OnScreen, ~exited, NEW s \in Screens, LeaveVT(s)
  PROVE  VtInv' /\ OnScreen'
<1>1. /\ s \in vtSema /\ master' = Put(master_count, master)
      /\ master_count' = master_count - 1 /\ vtSema' = vtSema \ {s}
      /\ UNCHANGED <<flipVars, managed, exited>>
  BY DEF LeaveVT
<1>2. IsFiniteSet(vtSema) /\ Cardinality(vtSema) \in Nat
  BY Counted DEF VtInv
<1>3. Cardinality(vtSema') = Cardinality(vtSema) - 1 /\ Cardinality(vtSema') \in Nat
  BY <1>1, <1>2, Counted, FS_RemoveElement DEF VtInv
<1>4. FlipInv' /\ OnScreen'
  BY <1>1 DEF flipVars, kernel, driver, VtInv, FlipInv, PageFlipTypeOK,
              FlipCountExact, EventKept, FbsExact, OnScreen, ShowsCurrent
<1>5. vtSema' # {} => master' = "us"
  <2> SUFFICES ASSUME vtSema' # {} PROVE master' = "us"
    OBVIOUS
  <2>1. Cardinality(vtSema') # 0
    BY <1>1, <1>2, Counted, FS_EmptySet DEF VtInv
  <2>2. master_count # 1 /\ master = "us"
    BY <1>1, <1>2, <1>3, <2>1 DEF VtInv
  <2> QED
    BY <1>1, <2>2 DEF Put
<1> QED
  BY <1>1, <1>2, <1>3, <1>4, <1>5 DEF VtInv

(* A new generation has a framebuffer of its own, and a flip of the last   *)
(* one still finds the framebuffer that it is to remove.                   *)
LEMMA RegenerateKeeps ==
  ASSUME VtInv, OnScreen, ~exited, NEW gen \in Bos, Regenerate(gen)
  PROVE  VtInv' /\ OnScreen'
<1> DEFINE n == master_count - Cardinality(vtSema)
           m == IF n = 0 /\ vtSema # {} THEN Put(1, master) ELSE master
<1>1. CASE ~(GetMaster(n, m) /\ Got(n, m) = "us")
  <2>1. Exit
    BY <1>1 DEF Regenerate
  <2>2. FlipInv'
    BY <2>1 DEF Exit, flipVars, kernel, driver, VtInv, FlipInv, PageFlipTypeOK,
                FlipCountExact, EventKept, FbsExact
  <2> QED
    BY <2>1, <2>2 DEF Exit, VtInv, OnScreen
<1>2. CASE GetMaster(n, m) /\ Got(n, m) = "us"
  <2>1. /\ master' = "us" /\ master_count' = n + 2 * Cardinality(Screens)
        /\ vtSema' = Screens /\ busy' = {}
        /\ UNCHANGED <<inflight, enabled, flip_count, flip_event,
                       flip_old_fb_id, accepted, managed, exited>>
    BY <1>2 DEF Regenerate
  <2>2. PICK new \in Unused : /\ fb_id' = new
                              /\ fbs' = [fbs EXCEPT ![fb_id] = NoBo, ![new] = gen]
                              /\ scan' = Shown(new)
    BY <1>2 DEF Regenerate
  <2>3. Cardinality(Screens) \in Nat /\ Cardinality(vtSema) \in Nat
    BY Counted DEF VtInv
  <2>4. n \in Nat /\ n >= (IF managed THEN 0 ELSE 1)
    BY <2>3 DEF VtInv
  <2>5. new \in Fbs /\ fbs[new] = NoBo /\ new # fb_id
    BY <2>2 DEF Unused, VtInv, FlipInv, FbsExact
  <2>6. scan' = [c \in Crtcs |-> IF c \in enabled THEN new ELSE NoFb]
    BY <2>2 DEF Shown
  <2>7. fbs' \in [Fbs -> Bos \union {NoBo}]
    BY <2>2 DEF VtInv, FlipInv, PageFlipTypeOK
  <2>8. \A f \in Fbs : fbs'[f] = IF f = new THEN gen ELSE IF f = fb_id THEN NoBo ELSE fbs[f]
    BY <2>2, <2>5 DEF VtInv, FlipInv, PageFlipTypeOK
  <2>9. PageFlipTypeOK'
    BY <2>1, <2>2, <2>5, <2>6, <2>7 DEF VtInv, FlipInv, PageFlipTypeOK
  <2>10. FbsExact'
    BY <2>1, <2>2, <2>5, <2>8, BosAssumption DEF VtInv, FlipInv, FbsExact, PageFlipTypeOK
  <2>11. flip_count' > 0 => fbs'[flip_old_fb_id'] # NoBo /\ fb_id' # flip_old_fb_id'
    BY <2>1, <2>2, <2>5, <2>8 DEF VtInv, FlipInv, PageFlipTypeOK
  <2>12. FlipInv'
    BY <2>1, <2>9, <2>10, <2>11 DEF VtInv, FlipInv, FlipCountExact, EventKept
  <2>13. OnScreen'
    BY <2>1, <2>2, <2>6 DEF OnScreen, ShowsCurrent, VtInv, FlipInv, PageFlipTypeOK
  <2> HIDE DEF n
  <2> QED
    BY <2>1, <2>3, <2>4, <2>12, <2>13 DEF VtInv
<1> QED
  BY <1>1, <1>2

(* A step of PageFlip, which the kernel refuses to a server that is not    *)
(* master.                                                                 *)
LEMMA FlipsOnVT ==
  ASSUME OneAtATime, VtInv, ~exited, UNCHANGED masterVars,
         \/ \E b \in Bos, event \in Events : FlipOnVT(b, event)
         \/ \E e \in inflight : FlipHandler(e)
         \/ \E c \in Crtcs : Vblank(c) \/ Disable(c)
         \/ \E c \in Crtcs : master = "us" /\ SetMode(c)
         \/ \E b \in Bos : ResizeOnVT(b)
  PROVE  /\ VtInv'
         /\ master = "us" => PageFlipNext
<1>1. ASSUME NEW b \in Bos, NEW event \in Events, FlipOnVT(b, event)
      PROVE  FlipInv' /\ (master = "us" => PageFlipNext)
  <2>1. accepted = {}
    BY <1>1 DEF FlipOnVT
  <2>2. PICK failed \in IF master = "us" THEN Failures ELSE {Crtcs} :
          FlipTaken(b, event, failed) \/ FlipRefused(b, failed)
    BY <1>1 DEF FlipOnVT
  <2>3. failed \in SUBSET Crtcs
    BY DEF Failures
  <2>4. FlipInv'
    <3>1. CASE FlipTaken(b, event, failed)
      BY <2>1, <2>3, <3>1, FlipTakenInv DEF VtInv
    <3>2. CASE FlipRefused(b, failed)
      BY <3>2 DEF FlipRefused, flipVars, kernel, driver, VtInv, FlipInv,
                  PageFlipTypeOK, FlipCountExact, EventKept, FbsExact
    <3> QED
      BY <2>2, <3>1, <3>2
  <2>5. master = "us" => Flip(b, event)
    BY <1>1, <2>2 DEF FlipOnVT, Flip
  <2> QED
    BY <2>4, <2>5 DEF PageFlipNext
<1>2. ASSUME NEW e \in inflight, FlipHandler(e) PROVE FlipInv' /\ PageFlipNext
  BY <1>2, FlipHandlerInv DEF VtInv, PageFlipNext
<1>3. ASSUME NEW c \in Crtcs, Vblank(c) \/ Disable(c) \/ SetMode(c)
      PROVE  FlipInv' /\ PageFlipNext
  <2>1. PageFlipNext
    BY <1>3 DEF PageFlipNext
  <2> QED
    BY <2>1, FlipNext DEF VtInv
<1>4. ASSUME NEW b \in Bos, ResizeOnVT(b)
      PROVE  FlipInv' /\ (master = "us" => PageFlipNext)
  <2>1. PICK failed \in IF master = "us" THEN ResizeFailures ELSE {Crtcs} : Resize(b, failed)
    BY <1>4 DEF ResizeOnVT
  <2>2. failed \in SUBSET Crtcs
    BY DEF ResizeFailures
  <2>3. FlipInv'
    BY <2>1, <2>2, ResizeInv DEF VtInv
  <2> QED
    BY <2>1, <2>3 DEF PageFlipNext
<1>5. FlipInv' /\ (master = "us" => PageFlipNext)
  BY <1>1, <1>2, <1>3, <1>4
<1> QED
  BY <1>5 DEF masterVars, VtInv

LEMMA VtNext ==
  ASSUME OneAtATime, VtInv, OnScreen, [Next]_vars PROVE VtInv' /\ OnScreen'
<1>0. ASSUME UNCHANGED flipVars PROVE FlipInv' /\ (ShowsCurrent => ShowsCurrent')
  BY <1>0 DEF flipVars, kernel, driver, VtInv, FlipInv, PageFlipTypeOK,
              FlipCountExact, EventKept, FbsExact, ShowsCurrent
<1>1. ASSUME NEW s \in Screens, ~exited, EnterVT(s) \/ LeaveVT(s) PROVE VtInv' /\ OnScreen'
  BY <1>1, EnterKeeps, LeaveKeeps
<1>2. ASSUME NEW new \in Bos, ~exited, Regenerate(new) PROVE VtInv' /\ OnScreen'
  BY <1>2, RegenerateKeeps
<1>3. ASSUME ScreenFails PROVE VtInv' /\ OnScreen'
  BY <1>0, <1>3 DEF ScreenFails, Exit, VtInv, OnScreen
<1>4. ASSUME OtherTakes, ~exited PROVE VtInv' /\ OnScreen'
  <2>1. /\ scan' = [c \in Crtcs |-> NoFb] /\ busy' = {} /\ master' = "other"
        /\ UNCHANGED <<fbs, inflight, driver, managed, master_count, vtSema, exited>>
    BY <1>4 DEF OtherTakes
  <2>2. vtSema = {}
    BY <1>4 DEF OtherTakes, VtInv
  <2>3. FlipInv'
    BY <2>1, ScanInv DEF VtInv
  <2> QED
    BY <2>1, <2>2, <2>3 DEF VtInv, OnScreen
<1>5. ASSUME OtherGives, ~exited PROVE VtInv' /\ OnScreen'
  <2>1. vtSema = {}
    BY <1>5 DEF OtherGives, VtInv
  <2> QED
    BY <1>0, <1>5, <2>1 DEF OtherGives, VtInv, OnScreen
<1>6. ASSUME ~exited, UNCHANGED masterVars,
             \/ \E b \in Bos, event \in Events : FlipOnVT(b, event)
             \/ \E e \in inflight : FlipHandler(e)
             \/ \E c \in Crtcs : Vblank(c) \/ Disable(c)
             \/ \E c \in Crtcs : master = "us" /\ SetMode(c)
             \/ \E b \in Bos : ResizeOnVT(b)
      PROVE  VtInv' /\ OnScreen'
  <2>1. VtInv' /\ (master = "us" => PageFlipNext)
    BY <1>6, FlipsOnVT
  <2>2. OnScreen'
    <3> SUFFICES ASSUME ~PartialFailure, (This \in vtSema)', ~exited' PROVE ShowsCurrent'
      BY DEF OnScreen
    <3>1. This \in vtSema /\ ~exited
      BY <1>6 DEF masterVars
    <3>2. PageFlipNext /\ ShowsCurrent
      BY <2>1, <3>1 DEF VtInv, OnScreen
    <3>3. PartialFailure = FALSE
      BY FaultsAssumption
    <3> QED
      BY <3>2, <3>3, ShowsCurrentNext DEF VtInv
  <2> QED
    BY <2>1, <2>2
<1>7. CASE UNCHANGED vars
  BY <1>0, <1>7 DEF vars, masterVars, VtInv, OnScreen
<1>8. CASE Next
  BY <1>1, <1>2, <1>3, <1>4, <1>5, <1>6, <1>8 DEF Next
<1> QED
  BY <1>7, <1>8

LEMMA VtInvariant == ASSUME OneAtATime PROVE Spec => [](VtInv /\ OnScreen)
<1>1. VtInv /\ OnScreen /\ [Next]_vars => (VtInv /\ OnScreen)'
  BY VtNext
<1> QED
  BY <1>1, VtInit, PTL DEF Spec

(* A device is master as long as one of its screens has the VT, whichever  *)
(* other has left it, and the screen that is modelled shows its current    *)
(* framebuffer then (common_drm_get_master, common_drm_put_master,         *)
(* common_drm_EnterVT, common_drm_LeaveVT).                                *)
THEOREM OnVTCorrect ==
  ASSUME OneAtATime, PartialFailure = FALSE PROVE Spec => []OnVT
<1>1. VtInv /\ OnScreen => OnVT
  BY DEF VtInv, OnScreen, OnVT, ShowsCurrent
<1> QED
  BY <1>1, VtInvariant, PTL

(* VT switches, other masters and new generations do not take the event of *)
(* a flip, nor leak a framebuffer.                                         *)
THEOREM FlipsOverVts ==
  ASSUME OneAtATime PROVE Spec => [](EventKept /\ FlipCountExact /\ FbsExact)
<1>1. VtInv => EventKept /\ FlipCountExact /\ FbsExact
  BY DEF VtInv, FlipInv
<1> QED
  BY <1>1, VtInvariant, PTL

-----------------------------------------------------------------------------
(* DRI2.  Whatever the callers of a flip wait for: what is on screen is    *)
(* current, and a flip that is pending has its event and another           *)
(* framebuffer to remove.                                                  *)
FlipKnown ==
  /\ PageFlipTypeOK /\ IsFiniteSet(inflight) /\ FlipCountExact
  /\ fbs[fb_id] # NoBo
  /\ flip_count > 0 => /\ flip_event \in Events
                       /\ fbs[flip_old_fb_id] # NoBo /\ fb_id # flip_old_fb_id

LEMMA TakenKnown ==
  ASSUME FlipKnown, NEW b \in Bos, NEW event \in Events,
         NEW failed \in SUBSET Crtcs, FlipTaken(b, event, failed)
  PROVE  FlipKnown' /\ fbs'[fb_id'] = b /\ flip_count' > 0 /\ flip_event' = event
<1> DEFINE queued == Takes(failed)
<1>1. queued \subseteq Crtcs
  BY DEF Takes, FlipKnown, PageFlipTypeOK
<1>2. Cardinality(queued) \in Nat /\ IsFiniteSet(queued)
  BY <1>1, CrtcsAssumption, FS_Subset, FS_CardinalityType
<1>3. flip_count' = flip_count + Cardinality(queued) /\ flip_count' > 0
  BY <1>2 DEF FlipTaken, Queue
<1>4. PICK new \in Unused :
        /\ fbs' = [fbs EXCEPT ![new] = b]
        /\ fb_id' = new
        /\ scan' = [c \in Crtcs |-> IF c \in queued THEN new ELSE scan[c]]
        /\ inflight' = inflight \union {[crtc |-> c, fb |-> new] : c \in queued}
  BY DEF FlipTaken, Queue
<1>5. new \in Fbs /\ fbs[new] = NoBo /\ \A e \in inflight : e.fb # new
  BY <1>4 DEF Unused
<1>6. /\ busy' = busy \union queued
      /\ flip_event' = event
      /\ flip_old_fb_id' = fb_id
      /\ accepted' = accepted \union {event}
      /\ enabled' = enabled
  BY DEF FlipTaken, Queue
<1> DEFINE es == {[crtc |-> c, fb |-> new] : c \in queued}
<1>7. IsFiniteSet(es) /\ Cardinality(es) = Cardinality(queued)
  BY <1>1, EventsOfFlip
<1>8. es \subseteq PageFlipEvent
  BY <1>1, <1>5 DEF PageFlipEvent
<1>9. inflight \cap es = {}
  BY <1>5
<1>10. inflight' = inflight \union es
  BY <1>4
<1> HIDE DEF queued, es
<1>11. IsFiniteSet(inflight) /\ flip_count = Cardinality(inflight)
  BY DEF FlipKnown, FlipCountExact
<1>12. /\ IsFiniteSet(inflight')
       /\ Cardinality(inflight') = Cardinality(inflight) + Cardinality(es)
  <2>1. /\ IsFiniteSet(inflight \union es)
        /\ Cardinality(inflight \union es)
             = Cardinality(inflight) + Cardinality(es) - Cardinality(inflight \cap es)
    BY <1>7, <1>11, FS_Union
  <2>2. Cardinality(inflight \cap es) = 0
    BY <1>9, FS_EmptySet
  <2>3. Cardinality(inflight) \in Nat /\ Cardinality(es) \in Nat
    BY <1>7, <1>11, FS_CardinalityType
  <2> QED BY <1>10, <2>1, <2>2, <2>3
<1>13. FlipCountExact'
  BY <1>3, <1>7, <1>11, <1>12 DEF FlipCountExact
<1>14. PageFlipTypeOK'
  BY <1>1, <1>2, <1>3, <1>4, <1>5, <1>6, <1>8, <1>10 DEF FlipKnown, PageFlipTypeOK
<1>15. fbs'[fb_id'] = b /\ fbs'[flip_old_fb_id'] # NoBo /\ fb_id' # flip_old_fb_id'
  BY <1>4, <1>5, <1>6, BosAssumption DEF FlipKnown, PageFlipTypeOK
<1> QED
  BY <1>3, <1>6, <1>12, <1>13, <1>14, <1>15, BosAssumption DEF FlipKnown

LEMMA HandlerKnown ==
  ASSUME FlipKnown, NEW e \in inflight, FlipHandler(e)
  PROVE  /\ FlipKnown' /\ fbs'[fb_id'] = fbs[fb_id]
         /\ flip_count > 0 /\ flip_count' = flip_count - 1
         /\ flip_event' = flip_event
<1>1. /\ inflight' = inflight \ {e} /\ flip_count' = flip_count - 1
      /\ UNCHANGED <<enabled, fb_id, flip_event, flip_old_fb_id>>
  BY DEF FlipHandler
<1>2. /\ IsFiniteSet(inflight') /\ Cardinality(inflight) \in Nat
      /\ Cardinality(inflight') = Cardinality(inflight) - 1
      /\ Cardinality(inflight') \in Nat
  BY <1>1, FS_RemoveElement, FS_CardinalityType DEF FlipKnown
<1>3. flip_count' = Cardinality(inflight') /\ flip_count' \in Nat /\ flip_count > 0
  BY <1>1, <1>2 DEF FlipKnown, FlipCountExact
<1>4. CASE flip_count' = 0
  <2>1. /\ fbs' = [fbs EXCEPT ![flip_old_fb_id] = NoBo]
        /\ scan' = TurnedOff(scan, flip_old_fb_id)
        /\ busy' = {c \in busy : scan[c] # flip_old_fb_id}
        /\ accepted' = accepted \ {flip_event}
    BY <1>4 DEF FlipHandler, RmFB
  <2>2. fbs'[fb_id'] = fbs[fb_id]
    BY <1>1, <1>3, <2>1 DEF FlipKnown, PageFlipTypeOK
  <2>3. PageFlipTypeOK'
    BY <1>1, <1>3, <2>1 DEF FlipKnown, PageFlipTypeOK, TurnedOff
  <2> QED
    BY <1>1, <1>2, <1>3, <1>4, <2>2, <2>3 DEF FlipKnown, FlipCountExact
<1>5. CASE flip_count' # 0
  <2>1. UNCHANGED <<fbs, scan, busy, accepted>>
    BY <1>5 DEF FlipHandler
  <2>2. PageFlipTypeOK'
    BY <1>1, <1>3, <2>1 DEF FlipKnown, PageFlipTypeOK
  <2> QED
    BY <1>1, <1>2, <1>3, <2>1, <2>2 DEF FlipKnown, FlipCountExact
<1> QED BY <1>4, <1>5

LEMMA ResizeKnown ==
  ASSUME FlipKnown, NEW b \in Bos, NEW failed \in SUBSET Crtcs, Resize(b, failed)
  PROVE  /\ FlipKnown' /\ fbs'[fb_id'] = b
         /\ UNCHANGED <<flip_count, flip_event>>
<1> DEFINE set == enabled \ failed
<1>1. PICK new \in Unused :
        /\ fb_id' = new
        /\ fbs' = [fbs EXCEPT ![new] = b, ![fb_id] = NoBo]
        /\ scan' = TurnedOff([c \in Crtcs |-> IF c \in set THEN new ELSE scan[c]], fb_id)
        /\ busy' = {c \in busy \ set : scan[c] # fb_id}
        /\ UNCHANGED <<inflight, enabled, flip_count, flip_event, flip_old_fb_id, accepted>>
  BY DEF Resize
<1>2. new \in Fbs /\ fbs[new] = NoBo /\ new # fb_id
  BY <1>1 DEF Unused, FlipKnown
<1>3. fbs' \in [Fbs -> Bos \union {NoBo}]
  BY <1>1, <1>2 DEF FlipKnown, PageFlipTypeOK
<1>4. \A f \in Fbs : fbs'[f] = IF f = fb_id THEN NoBo ELSE IF f = new THEN b ELSE fbs[f]
  BY <1>1, <1>2 DEF FlipKnown, PageFlipTypeOK
<1>5. PageFlipTypeOK'
  BY <1>1, <1>2, <1>3 DEF FlipKnown, PageFlipTypeOK, TurnedOff
<1>6. flip_count' > 0 => fbs'[flip_old_fb_id'] # NoBo /\ fb_id' # flip_old_fb_id'
  BY <1>1, <1>2, <1>4 DEF FlipKnown, PageFlipTypeOK
<1>7. fbs'[fb_id'] = b /\ b # NoBo
  BY <1>1, <1>2, <1>4, BosAssumption
<1> QED
  BY <1>1, <1>5, <1>6, <1>7 DEF FlipKnown, FlipCountExact

LEMMA OthersKnown ==
  ASSUME FlipKnown, \/ \E c \in Crtcs : Vblank(c) \/ SetMode(c) \/ Disable(c)
                    \/ UNCHANGED flipVars
  PROVE  FlipKnown' /\ UNCHANGED <<fbs, fb_id, flip_count, flip_event>>
<1>1. ASSUME NEW c \in Crtcs, Vblank(c) \/ SetMode(c) \/ Disable(c)
      PROVE  FlipKnown' /\ UNCHANGED <<fbs, fb_id, flip_count, flip_event>>
  BY <1>1 DEF Vblank, SetMode, Disable, kernel, driver, FlipKnown, PageFlipTypeOK, FlipCountExact
<1>2. CASE UNCHANGED flipVars
  BY <1>2 DEF flipVars, kernel, driver, FlipKnown, PageFlipTypeOK, FlipCountExact
<1> QED BY <1>1, <1>2

-----------------------------------------------------------------------------
(* Who refers to a buffer, and the swaps of a drawable.                    *)
Ref(b)        == IF buf[b] = Freed THEN 0 ELSE buf[b].ref
Holders(b)    == {d \in Drawables : b \in {core[d].front, core[d].back}}
Waiting(b)    == {w \in Live : b \in {wait[w].front, wait[w].back}}
ScreenBuffers == {b \in Buffers : buf[b] # Freed /\ buf[b].pixmap = Screen}
Swaps(d)      == {w \in Live : IsSwap(w) /\ wait[w].drawable_id = d}

(* A pair of buffers: the back buffer has a pixmap of its own.             *)
PairOK(x) ==
  /\ x.front \in Buffers /\ x.back \in Buffers
  /\ buf[x.back] # Freed /\ buf[x.back].pixmap = x.back

PairsOK ==
  /\ \A d \in Drawables : core[d] = NoBuffers \/ PairOK(core[d])
  /\ \A w \in Live : IF IsSwap(w) THEN PairOK(wait[w])
                     ELSE wait[w].front = NoBuffer /\ wait[w].back = NoBuffer

DataOK ==
  /\ bo[Screen] \in Bos
  /\ \A b \in Buffers : buf[b] # Freed /\ buf[b].pixmap = b => bo[b] \in Bos

ListsOK ==
  /\ \A x \in Clients \union Drawables :
       reslist[x] = {w \in Live : x \in {wait[w].client, wait[w].drawable_id}}
  /\ \A w \in Live : /\ wait[w].client \in clients \union {NoClient}
                     /\ wait[w].drawable_id \in drawables \union {NoDrawable}

(* An event to come has its wait.                                          *)
QueuedOK ==
  /\ vblanks \subseteq Live
  /\ flip_count > 0 => flip_event \in Live \ vblanks /\ IsSwap(flip_event)

Dri2Inv ==
  /\ Dri2TypeOK /\ FlipKnown
  /\ PairsOK /\ DataOK /\ ListsOK /\ QueuedOK
  /\ BufferRefs /\ ShownIsFront /\ SwapsAnswered

(* The sets that are counted are finite.                                   *)
LEMMA Counts ==
         /\ \A b : IsFiniteSet(Holders(b)) /\ IsFiniteSet(Waiting(b))
         /\ \A b : Cardinality(Holders(b)) \in Nat /\ Cardinality(Waiting(b)) \in Nat
         /\ IsFiniteSet(ScreenBuffers) /\ Cardinality(ScreenBuffers) \in Nat
         /\ \A d : IsFiniteSet(Swaps(d)) /\ Cardinality(Swaps(d)) \in Nat
<1>1. ASSUME NEW b PROVE IsFiniteSet(Holders(b)) /\ Cardinality(Holders(b)) \in Nat
  <2>1. Holders(b) \in SUBSET Drawables
    BY DEF Holders
  <2> QED BY <2>1, FiniteAssumption, FS_Subset, FS_CardinalityType
<1>2. ASSUME NEW b PROVE IsFiniteSet(Waiting(b)) /\ Cardinality(Waiting(b)) \in Nat
  <2>1. Waiting(b) \in SUBSET Events
    BY DEF Waiting, Live, Waits
  <2> QED BY <2>1, FiniteAssumption, FS_Subset, FS_CardinalityType
<1>3. IsFiniteSet(ScreenBuffers) /\ Cardinality(ScreenBuffers) \in Nat
  <2>1. ScreenBuffers \in SUBSET Buffers
    BY DEF ScreenBuffers
  <2> QED BY <2>1, FiniteAssumption, FS_Subset, FS_CardinalityType
<1>4. ASSUME NEW d PROVE IsFiniteSet(Swaps(d)) /\ Cardinality(Swaps(d)) \in Nat
  <2>1. Swaps(d) \in SUBSET Events
    BY DEF Swaps, Live, Waits
  <2> QED BY <2>1, FiniteAssumption, FS_Subset, FS_CardinalityType
<1> QED BY <1>1, <1>2, <1>3, <1>4

(* The counts of BufferRefs and of SwapsAnswered.                          *)
RefsKnown ==
  /\ \A b \in Buffers : Ref(b) = Cardinality(Holders(b)) + Cardinality(Waiting(b))
  /\ refcnt = 1 + Cardinality(ScreenBuffers)

LEMMA RefsAre == BufferRefs <=> RefsKnown
BY DEF BufferRefs, RefsKnown, Ref, Holders, Waiting, ScreenBuffers

SwapsKnown == \A d \in drawables : pending[d] = Cardinality(Swaps(d))

LEMMA SwapsAre == SwapsAnswered <=> SwapsKnown
BY DEF SwapsAnswered, SwapsKnown, Swaps

(* A buffer that somebody has is not free.                                 *)
HeldOK ==
  \A b \in Buffers :
    /\ Ref(b) \in Nat
    /\ Holders(b) # {} \/ Waiting(b) # {} => Ref(b) >= 1
    /\ Ref(b) >= 1 => buf[b] # Freed

LEMMA HeldRef == BufferRefs => HeldOK
<1> SUFFICES ASSUME BufferRefs, NEW b \in Buffers
             PROVE  /\ Ref(b) \in Nat
                    /\ Holders(b) # {} \/ Waiting(b) # {} => Ref(b) >= 1
                    /\ Ref(b) >= 1 => buf[b] # Freed
  BY DEF HeldOK
<1>1. /\ IsFiniteSet(Holders(b)) /\ IsFiniteSet(Waiting(b))
      /\ Cardinality(Holders(b)) \in Nat /\ Cardinality(Waiting(b)) \in Nat
  BY Counts
<1>2. Ref(b) = Cardinality(Holders(b)) + Cardinality(Waiting(b))
  BY RefsAre DEF RefsKnown
<1>3. /\ Cardinality(Holders(b)) = 0 <=> Holders(b) = {}
      /\ Cardinality(Waiting(b)) = 0 <=> Waiting(b) = {}
  BY <1>1, FS_EmptySet
<1> QED BY <1>1, <1>2, <1>3 DEF Ref

(* common_dri2_DestroyBuffer takes what is lost, and frees a buffer that   *)
(* nobody has any more.                                                    *)
LEMMA DestroyKeeps ==
  ASSUME Dri2TypeOK, DataOK, BufferRefs,
         NEW lost \in [Buffers -> {0, 1}], \A b \in Buffers : lost[b] = 1 => Ref(b) >= 1,
         DestroyBuffers(lost)
  PROVE  /\ buf' \in [Buffers -> Buffer \union {Freed}]
         /\ bo' \in [Pixmaps -> Bos \union {NoBo}]
         /\ \A b \in Buffers : Ref(b)' = Ref(b) - lost[b]
         /\ \A b \in Buffers : buf'[b] # Freed =>
              buf[b] # Freed /\ buf'[b].pixmap = buf[b].pixmap /\ bo'[b] = bo[b]
         /\ bo'[Screen] = bo[Screen]
         /\ DataOK'
         /\ refcnt' \in Nat /\ refcnt' = 1 + Cardinality(ScreenBuffers')
<1> DEFINE gone == {b \in Buffers : buf[b] # Freed /\ buf[b].ref - lost[b] = 0}
<1>1. /\ buf' = [b \in Buffers |->
                   IF buf[b] = Freed \/ b \in gone THEN Freed
                   ELSE [buf[b] EXCEPT !.ref = buf[b].ref - lost[b]]]
      /\ bo' = [p \in Pixmaps |-> IF p \in gone /\ buf[p].pixmap = p THEN NoBo ELSE bo[p]]
      /\ refcnt' = refcnt - Cardinality({b \in gone : buf[b].pixmap = Screen})
  BY DEF DestroyBuffers
<1>2. \A b \in Buffers : buf[b] # Freed => buf[b] \in [ref : Nat, pixmap : Pixmaps]
  BY DEF Dri2TypeOK, Buffer
<1>3. \A b \in Buffers \ gone : buf[b] # Freed => buf[b].ref - lost[b] \in Nat
  BY <1>2 DEF Ref
<1>4. \A b \in Buffers : b \notin gone /\ buf[b] # Freed =>
        /\ buf'[b] = [ref |-> buf[b].ref - lost[b], pixmap |-> buf[b].pixmap]
        /\ buf'[b] \in Buffer
  BY <1>1, <1>2, <1>3 DEF Buffer
<1>5. \A b \in Buffers : b \in gone \/ buf[b] = Freed => buf'[b] = Freed
  BY <1>1
<1>6. Freed \notin Buffer
  BY NoneAssumption
<1>7. buf' \in [Buffers -> Buffer \union {Freed}]
  <2>1. \A b \in Buffers : buf'[b] \in Buffer \union {Freed}
    BY <1>4, <1>5
  <2> QED BY <1>1, <2>1
<1>8. \A b \in Buffers : lost[b] = 0 \/ lost[b] = 1
  OBVIOUS
<1>9. \A b \in Buffers : Ref(b)' = Ref(b) - lost[b]
  <2> TAKE b \in Buffers
  <2>1. CASE buf[b] = Freed
    BY <1>5, <1>8, <2>1 DEF Ref
  <2>2. CASE buf[b] # Freed /\ b \in gone
    BY <1>2, <1>5, <1>8, <2>2 DEF Ref
  <2>3. CASE buf[b] # Freed /\ b \notin gone
    <3>1. buf'[b] = [ref |-> buf[b].ref - lost[b], pixmap |-> buf[b].pixmap] /\ buf'[b] # Freed
      BY <1>4, <1>6, <2>3
    <3> QED BY <2>3, <3>1 DEF Ref
  <2> QED BY <2>1, <2>2, <2>3
<1>10. Screen \notin gone /\ Screen \in Pixmaps /\ Buffers \subseteq Pixmaps
  BY NoneAssumption DEF Pixmaps
<1>11. bo' \in [Pixmaps -> Bos \union {NoBo}] /\ bo'[Screen] = bo[Screen]
  BY <1>1, <1>10 DEF Dri2TypeOK
<1>12. \A b \in Buffers : buf'[b] # Freed =>
         buf[b] # Freed /\ buf'[b].pixmap = buf[b].pixmap /\ bo'[b] = bo[b]
  BY <1>1, <1>4, <1>5, <1>10
<1>13. ScreenBuffers' = ScreenBuffers \ {b \in gone : buf[b].pixmap = Screen}
  <2>1. \A b \in Buffers : b \notin gone /\ buf[b] # Freed => buf'[b] # Freed
    BY <1>4, <1>6
  <2> HIDE DEF gone
  <2> QED BY <1>5, <1>12, <2>1 DEF ScreenBuffers
<1>14. refcnt' = 1 + Cardinality(ScreenBuffers')
  <2> DEFINE T == {b \in gone : buf[b].pixmap = Screen}
  <2>1. T \subseteq ScreenBuffers
    BY DEF ScreenBuffers
  <2>2. IsFiniteSet(ScreenBuffers) /\ Cardinality(ScreenBuffers) \in Nat
    BY Counts
  <2>3. IsFiniteSet(T) /\ Cardinality(T) \in Nat
    BY <2>1, <2>2, FS_Subset, FS_CardinalityType
  <2>4. ScreenBuffers \cap T = T
    BY <2>1
  <2> HIDE DEF T
  <2>5. Cardinality(ScreenBuffers \ T) = Cardinality(ScreenBuffers) - Cardinality(T)
    BY <2>2, <2>4, FS_Difference
  <2>6. refcnt = 1 + Cardinality(ScreenBuffers)
    BY RefsAre DEF RefsKnown
  <2>7. refcnt' = refcnt - Cardinality(T) /\ ScreenBuffers' = ScreenBuffers \ T
    BY <1>1, <1>13 DEF T
  <2> QED BY <2>2, <2>3, <2>5, <2>6, <2>7
<1>15. refcnt' \in Nat
  <2>1. ScreenBuffers' \subseteq Buffers
    BY DEF ScreenBuffers
  <2>2. Cardinality(ScreenBuffers') \in Nat
    BY <2>1, FiniteAssumption, FS_Subset, FS_CardinalityType
  <2> QED BY <1>14, <2>2
<1>16. DataOK'
  BY <1>11, <1>12 DEF DataOK
<1> QED BY <1>7, <1>9, <1>11, <1>12, <1>14, <1>15, <1>16

-----------------------------------------------------------------------------
(* common_dri2_wait_free: the wait goes from its lists and gives its       *)
(* references back.                                                        *)
LEMMA FreeKeeps ==
  ASSUME Dri2Inv, NEW w \in Live, Free(w), UNCHANGED <<core, clients, drawables>>
  PROVE  /\ buf' \in [Buffers -> Buffer \union {Freed}]
         /\ bo' \in [Pixmaps -> Bos \union {NoBo}] /\ bo'[Screen] = bo[Screen]
         /\ refcnt' \in Nat
         /\ wait' \in [Waits -> Wait \union {Freed}]
         /\ reslist' \in [Clients \union Drawables -> SUBSET Waits]
         /\ Live' = Live \ {w} /\ \A x \in Live \ {w} : wait'[x] = wait[x]
         /\ BufferRefs' /\ PairsOK' /\ DataOK' /\ ListsOK'
<1> DEFINE lost == Both(wait[w])
<1>1. /\ DestroyBuffers(lost)
      /\ wait' = [wait EXCEPT ![w] = Freed]
      /\ reslist' = [x \in Clients \union Drawables |-> reslist[x] \ {w}]
  BY DEF Free
<1>2. w \in Waits /\ wait[w] # Freed /\ wait \in [Waits -> Wait \union {Freed}]
  BY DEF Live, Dri2Inv, Dri2TypeOK
<1>3. Live' = Live \ {w} /\ \A x \in Live \ {w} : wait'[x] = wait[x]
  BY <1>1, <1>2 DEF Live
<1>4. /\ lost \in [Buffers -> {0, 1}]
      /\ \A b \in Buffers : lost[b] = IF w \in Waiting(b) THEN 1 ELSE 0
  BY DEF Both, Waiting
<1>5. \A b \in Buffers : lost[b] = 1 => Ref(b) >= 1
  BY <1>4, HeldRef DEF HeldOK, Dri2Inv
<1> HIDE DEF lost
<1>6. /\ buf' \in [Buffers -> Buffer \union {Freed}]
      /\ bo' \in [Pixmaps -> Bos \union {NoBo}]
      /\ \A b \in Buffers : Ref(b)' = Ref(b) - lost[b]
      /\ \A b \in Buffers : buf'[b] # Freed =>
           buf[b] # Freed /\ buf'[b].pixmap = buf[b].pixmap /\ bo'[b] = bo[b]
      /\ bo'[Screen] = bo[Screen]
      /\ DataOK'
      /\ refcnt' \in Nat /\ refcnt' = 1 + Cardinality(ScreenBuffers')
  BY <1>1, <1>4, <1>5, DestroyKeeps DEF Dri2Inv
<1>7. ASSUME NEW b \in Buffers
      PROVE  Ref(b)' = Cardinality(Holders(b)') + Cardinality(Waiting(b)')
  <2>1. Holders(b)' = Holders(b)
    BY DEF Holders
  <2>2. Waiting(b)' = Waiting(b) \ {w}
    BY <1>3 DEF Waiting
  <2>3. Ref(b) = Cardinality(Holders(b)) + Cardinality(Waiting(b))
    BY RefsAre DEF RefsKnown, Dri2Inv
  <2>4. IsFiniteSet(Waiting(b)) /\ Cardinality(Waiting(b)) \in Nat /\ Cardinality(Holders(b)) \in Nat
    BY Counts
  <2>5. Cardinality(Waiting(b) \ {w}) = IF w \in Waiting(b) THEN Cardinality(Waiting(b)) - 1
                                        ELSE Cardinality(Waiting(b))
    BY <2>4, FS_RemoveElement
  <2>6. Ref(b)' = Ref(b) - (IF w \in Waiting(b) THEN 1 ELSE 0)
    BY <1>4, <1>6
  <2> QED BY <2>1, <2>2, <2>3, <2>4, <2>5, <2>6
<1>8. BufferRefs'
  <2>1. RefsKnown'
    BY <1>6, <1>7 DEF RefsKnown
  <2>2. BufferRefs' <=> RefsKnown'
    BY RefsAre, PTL
  <2> QED BY <2>1, <2>2
<1>9. HeldOK'
  BY <1>8, HeldRef, PTL
<1>10. PairsOK'
  <2>1. ASSUME NEW d \in Drawables, core[d] # NoBuffers PROVE PairOK(core[d])'
    <3>1. PairOK(core[d])
      BY <2>1 DEF Dri2Inv, PairsOK
    <3>2. d \in Holders(core[d].back)'
      BY DEF Holders
    <3>3. buf'[core[d].back] # Freed
      BY <1>9, <3>1, <3>2 DEF HeldOK, PairOK
    <3> QED BY <1>6, <3>1, <3>3 DEF PairOK
  <2>2. ASSUME NEW x \in Live' PROVE IF IsSwap(x)' THEN PairOK(wait[x])'
                                     ELSE (wait[x].front = NoBuffer /\ wait[x].back = NoBuffer)'
    <3>1. wait'[x] = wait[x] /\ x \in Live
      BY <1>3, <2>2
    <3>2. CASE IsSwap(x)
      <4>1. PairOK(wait[x])
        BY <3>1, <3>2 DEF Dri2Inv, PairsOK
      <4>2. PICK b \in Buffers : b = wait[x].back
        BY <4>1 DEF PairOK
      <4>3. buf'[wait[x].back] # Freed
        <5>1. x \in Waiting(b)'
          BY <2>2, <3>1, <4>2 DEF Waiting
        <5> QED BY <1>9, <4>2, <5>1 DEF HeldOK
      <4>4. PairOK(wait[x])'
        BY <1>6, <3>1, <4>1, <4>3 DEF PairOK
      <4> QED BY <3>1, <3>2, <4>4 DEF IsSwap
    <3>3. CASE ~IsSwap(x)
      BY <3>1, <3>3 DEF IsSwap, Dri2Inv, PairsOK
    <3> QED BY <3>2, <3>3
  <2> QED BY <2>1, <2>2 DEF PairsOK
<1>11. ListsOK'
  <2>1. ASSUME NEW x \in Clients \union Drawables
        PROVE  reslist'[x] = {y \in Live' : x \in {wait'[y].client, wait'[y].drawable_id}}
    BY <1>1, <1>3 DEF Dri2Inv, ListsOK
  <2> QED BY <1>3, <2>1 DEF Dri2Inv, ListsOK
<1>12. reslist' \in [Clients \union Drawables -> SUBSET Waits]
  BY <1>1 DEF Dri2Inv, Dri2TypeOK
<1>13. wait' \in [Waits -> Wait \union {Freed}]
  BY <1>1, <1>2
<1> QED BY <1>3, <1>6, <1>8, <1>10, <1>11, <1>12, <1>13

(* An event that is passed on, or dropped for a drawable that is gone,     *)
(* ends the wait; the swap of a drawable is the only one that it has.      *)
LEMMA AnswerKeeps ==
  ASSUME Dri2Inv, NEW w \in Live, EventGone(w) \/ EventComplete(w),
         UNCHANGED <<core, clients, drawables>>
  PROVE  /\ Free(w)
         /\ pending' \in [Drawables -> 0 .. 1]
         /\ blocked' \subseteq Clients \X Drawables
         /\ SwapsAnswered'
<1>1. Free(w)
  BY DEF EventGone, EventComplete
<1>2. Live' = Live \ {w} /\ \A x \in Live \ {w} : wait'[x] = wait[x]
  BY <1>1, FreeKeeps
<1>3. pending \in [Drawables -> 0 .. 1] /\ blocked \subseteq Clients \X Drawables
      /\ drawables \subseteq Drawables
  BY DEF Dri2Inv, Dri2TypeOK
<1>4. \/ UNCHANGED <<pending, blocked>> /\ wait[w].drawable_id = NoDrawable
      \/ Complete(w)
  BY DEF EventGone, EventComplete
<1>5. pending' \in [Drawables -> 0 .. 1] /\ blocked' \subseteq Clients \X Drawables
  BY <1>3, <1>4 DEF Complete
<1>6. ASSUME NEW d \in drawables PROVE pending'[d] = Cardinality(Swaps(d)')
  <2>1. Swaps(d)' = Swaps(d) \ {w}
    BY <1>2 DEF Swaps, IsSwap
  <2>2. IsFiniteSet(Swaps(d)) /\ Cardinality(Swaps(d)) \in Nat
    BY Counts
  <2>3. pending[d] = Cardinality(Swaps(d)) /\ pending[d] \in 0 .. 1
    BY <1>3, SwapsAre DEF SwapsKnown, Dri2Inv
  <2>4. d \in Drawables /\ d # NoDrawable
    BY <1>3, NoneAssumption
  <2>5. CASE w \in Swaps(d)
    <3>1. Cardinality(Swaps(d) \ {w}) = Cardinality(Swaps(d)) - 1
          /\ IsFiniteSet(Swaps(d) \ {w})
      BY <2>2, <2>5, FS_RemoveElement
    <3>2. Cardinality(Swaps(d) \ {w}) \in Nat
      BY <3>1, FS_CardinalityType
    <3>3. pending'[d] = 0
      BY <1>4, <2>4, <2>5 DEF Swaps, Complete
    <3> QED BY <2>1, <2>2, <2>3, <3>1, <3>2, <3>3
  <2>6. CASE w \notin Swaps(d)
    <3>1. pending'[d] = pending[d]
      BY <1>4, <2>4, <2>6 DEF Swaps, Complete
    <3>2. Swaps(d) \ {w} = Swaps(d)
      BY <2>6
    <3> QED BY <2>1, <2>3, <3>1, <3>2
  <2> QED BY <2>5, <2>6
<1>7. SwapsKnown'
  BY <1>6 DEF SwapsKnown
<1>8. SwapsAnswered' <=> SwapsKnown'
  BY SwapsAre, PTL
<1> QED BY <1>1, <1>5, <1>7, <1>8

(* A wait for a swap takes a reference of both buffers.                    *)
LEMMA SwapAllocKeeps ==
  ASSUME Dri2Inv, NEW w \in Waits, NEW c, NEW d, MayAsk(c, d),
         core[d] # NoBuffers, pending[d] = 0,
         NEW func \in EventFuncs, func # "common_dri2_waitmsc",
         Alloc(w, c, d, func, core[d]), Reference(core[d]),
         pending' = [pending EXCEPT ![d] = 1],
         UNCHANGED <<clients, drawables, core, refcnt>>
  PROVE  /\ buf' \in [Buffers -> Buffer \union {Freed}]
         /\ wait' \in [Waits -> Wait \union {Freed}]
         /\ reslist' \in [Clients \union Drawables -> SUBSET Waits]
         /\ pending' \in [Drawables -> 0 .. 1]
         /\ w \notin Live /\ Live' = Live \union {w} /\ IsSwap(w)'
         /\ \A x \in Live : wait'[x] = wait[x]
         /\ \A b \in Buffers :
              /\ buf'[b] = Freed <=> buf[b] = Freed
              /\ buf[b] # Freed => buf'[b].pixmap = buf[b].pixmap
         /\ PairOK(core[d])
         /\ BufferRefs' /\ PairsOK' /\ ListsOK' /\ SwapsAnswered'
<1> DEFINE new == [client |-> c, drawable_id |-> d, event_func |-> func,
                   front |-> core[d].front, back |-> core[d].back]
<1>1. /\ wait[w] = Freed
      /\ wait' = [wait EXCEPT ![w] = new]
      /\ reslist' = [reslist EXCEPT ![c] = @ \union {w}, ![d] = @ \union {w}]
  BY DEF Alloc
<1>2. /\ c \in clients /\ d \in drawables /\ c \in Clients /\ d \in Drawables /\ c # d
      /\ c # NoClient /\ d # NoDrawable
  BY NoneAssumption, IdsAssumption DEF MayAsk, Dri2Inv, Dri2TypeOK
<1>3. PairOK(core[d])
  BY <1>2 DEF Dri2Inv, PairsOK
<1>4. new \in Wait /\ new # Freed
  BY <1>2, <1>3, NoneAssumption DEF Wait, PairOK
<1>5. wait \in [Waits -> Wait \union {Freed}]
  BY DEF Dri2Inv, Dri2TypeOK
<1>6. /\ wait' \in [Waits -> Wait \union {Freed}] /\ wait'[w] = new
      /\ wait'[w].client = c /\ wait'[w].drawable_id = d
  BY <1>1, <1>4, <1>5
<1>7. w \notin Live /\ Live' = Live \union {w} /\ \A x \in Live : wait'[x] = wait[x]
  BY <1>1, <1>4, <1>5 DEF Live
<1>8. IsSwap(w)'
  BY <1>6 DEF IsSwap
<1>9. ASSUME NEW b \in Buffers
      PROVE  /\ b \in {core[d].front, core[d].back} =>
                  /\ buf[b] # Freed /\ buf'[b] # Freed
                  /\ buf'[b].ref = buf[b].ref + 1 /\ buf'[b].pixmap = buf[b].pixmap
                  /\ buf'[b] \in Buffer
             /\ b \notin {core[d].front, core[d].back} => buf'[b] = buf[b]
  <2>1. buf'[b] = IF b \in {core[d].front, core[d].back} THEN [buf[b] EXCEPT !.ref = @ + 1] ELSE buf[b]
    BY DEF Reference
  <2>2. ASSUME b \in {core[d].front, core[d].back}
        PROVE  /\ buf[b] # Freed /\ buf'[b] # Freed
               /\ buf'[b].ref = buf[b].ref + 1 /\ buf'[b].pixmap = buf[b].pixmap
               /\ buf'[b] \in Buffer
    <3>1. d \in Holders(b)
      BY <1>2, <2>2 DEF Holders
    <3>2. buf[b] # Freed
      BY <3>1, HeldRef DEF HeldOK, Dri2Inv
    <3>3. buf[b] \in [ref : Nat, pixmap : Pixmaps]
      BY <3>2 DEF Dri2Inv, Dri2TypeOK, Buffer
    <3>4. buf'[b] = [ref |-> buf[b].ref + 1, pixmap |-> buf[b].pixmap]
      BY <2>1, <2>2, <3>3
    <3>5. buf'[b] \in Buffer
      BY <3>3, <3>4 DEF Buffer
    <3> QED BY <3>2, <3>4, <3>5, NoneAssumption
  <2> QED BY <2>1, <2>2
<1>10. buf' \in [Buffers -> Buffer \union {Freed}]
  <2>1. buf' = [b \in Buffers |-> buf'[b]]
    BY DEF Reference
  <2>2. \A b \in Buffers : buf'[b] \in Buffer \union {Freed}
    BY <1>9 DEF Dri2Inv, Dri2TypeOK
  <2> QED BY <2>1, <2>2
<1>11. \A b \in Buffers :
         /\ buf'[b] = Freed <=> buf[b] = Freed
         /\ buf[b] # Freed => buf'[b].pixmap = buf[b].pixmap
  BY <1>9
<1>12. ASSUME NEW b \in Buffers
       PROVE  Ref(b)' = Cardinality(Holders(b)') + Cardinality(Waiting(b)')
  <2>1. Holders(b)' = Holders(b)
    BY DEF Holders
  <2>2. Waiting(b)' = IF b \in {core[d].front, core[d].back} THEN Waiting(b) \union {w}
                      ELSE Waiting(b)
    BY <1>6, <1>7 DEF Waiting
  <2>3. Ref(b) = Cardinality(Holders(b)) + Cardinality(Waiting(b))
    BY RefsAre DEF RefsKnown, Dri2Inv
  <2>4. IsFiniteSet(Waiting(b)) /\ Cardinality(Waiting(b)) \in Nat /\ Cardinality(Holders(b)) \in Nat
    BY Counts
  <2>5. w \notin Waiting(b)
    BY <1>7 DEF Waiting
  <2>6. Cardinality(Waiting(b) \union {w}) = Cardinality(Waiting(b)) + 1
    BY <2>4, <2>5, FS_AddElement
  <2>7. Ref(b)' = IF b \in {core[d].front, core[d].back} THEN Ref(b) + 1 ELSE Ref(b)
    BY <1>9 DEF Ref
  <2> QED BY <2>1, <2>2, <2>3, <2>4, <2>6, <2>7
<1>13. BufferRefs'
  <2>1. ScreenBuffers' = ScreenBuffers
    BY <1>11 DEF ScreenBuffers
  <2>2. refcnt = 1 + Cardinality(ScreenBuffers)
    BY RefsAre DEF RefsKnown, Dri2Inv
  <2>3. RefsKnown'
    BY <1>12, <2>1, <2>2 DEF RefsKnown
  <2>4. BufferRefs' <=> RefsKnown'
    BY RefsAre, PTL
  <2> QED BY <2>3, <2>4
<1>14. PairsOK'
  <2>1. ASSUME NEW x \in Drawables, core[x] # NoBuffers PROVE PairOK(core[x])'
    BY <1>11, <2>1 DEF Dri2Inv, PairsOK, PairOK
  <2>2. ASSUME NEW x \in Live PROVE IF IsSwap(x)' THEN PairOK(wait[x])'
                                    ELSE (wait[x].front = NoBuffer /\ wait[x].back = NoBuffer)'
    BY <1>7, <1>11, <2>2 DEF Dri2Inv, PairsOK, PairOK, IsSwap
  <2>3. PairOK(wait[w])'
    BY <1>3, <1>6, <1>11 DEF PairOK
  <2> QED BY <1>7, <1>8, <2>1, <2>2, <2>3 DEF PairsOK
<1>15. reslist' \in [Clients \union Drawables -> SUBSET Waits]
       /\ \A x \in Clients \union Drawables :
            reslist'[x] = IF x \in {c, d} THEN reslist[x] \union {w} ELSE reslist[x]
  BY <1>1, <1>2 DEF Dri2Inv, Dri2TypeOK
<1>16. ListsOK'
  <2>1. ASSUME NEW x \in Clients \union Drawables
        PROVE  reslist'[x] = {y \in Live' : x \in {wait'[y].client, wait'[y].drawable_id}}
    <3>1. reslist[x] = {y \in Live : x \in {wait[y].client, wait[y].drawable_id}}
      BY DEF Dri2Inv, ListsOK
    <3>2. {y \in Live' : x \in {wait'[y].client, wait'[y].drawable_id}}
            = IF x \in {c, d} THEN reslist[x] \union {w} ELSE reslist[x]
      BY <1>6, <1>7, <3>1
    <3> QED BY <1>15, <3>2
  <2> QED BY <1>2, <1>6, <1>7, <2>1 DEF Dri2Inv, ListsOK
<1>17. pending' \in [Drawables -> 0 .. 1]
  BY <1>2 DEF Dri2Inv, Dri2TypeOK
<1>18. ASSUME NEW x \in drawables PROVE pending'[x] = Cardinality(Swaps(x)')
  <2>1. pending[x] = Cardinality(Swaps(x)) /\ x \in Drawables
    BY SwapsAre DEF SwapsKnown, Dri2Inv, Dri2TypeOK
  <2>2. Swaps(x)' = IF x = d THEN Swaps(x) \union {w} ELSE Swaps(x)
    BY <1>6, <1>7, <1>8 DEF Swaps, IsSwap
  <2>3. IsFiniteSet(Swaps(x)) /\ w \notin Swaps(x)
    BY <1>7, Counts DEF Swaps
  <2>4. Cardinality(Swaps(x) \union {w}) = Cardinality(Swaps(x)) + 1
    BY <2>3, FS_AddElement
  <2>5. pending'[x] = IF x = d THEN 1 ELSE pending[x]
    BY <2>1 DEF Dri2Inv, Dri2TypeOK
  <2> QED BY <2>1, <2>2, <2>4, <2>5
<1>19. SwapsAnswered'
  <2>1. SwapsKnown'
    BY <1>18 DEF SwapsKnown
  <2>2. SwapsAnswered' <=> SwapsKnown'
    BY SwapsAre, PTL
  <2> QED BY <2>1, <2>2
<1> QED BY <1>3, <1>6, <1>7, <1>8, <1>10, <1>11, <1>13, <1>14, <1>15, <1>16, <1>17, <1>19

-----------------------------------------------------------------------------
(* The steps.                                                              *)

(* What happens to the flips only.                                         *)
LEMMA FlipsOnly ==
  ASSUME Dri2Inv, FlipKnown', fbs'[fb_id'] = fbs[fb_id],
         UNCHANGED <<flip_count, flip_event, dri2Vars>>
  PROVE  Dri2Inv'
<1>1. UNCHANGED <<clients, drawables, top, core, pending, blocked, buf, bo, refcnt,
                  wait, vblanks, reslist>>
  BY DEF dri2Vars
<1>2. Live' = Live
  BY <1>1 DEF Live
<1>3. Dri2TypeOK'
  BY <1>1 DEF Dri2Inv, Dri2TypeOK, FlipKnown
<1>4. PairsOK' /\ DataOK' /\ ListsOK'
  BY <1>1, <1>2 DEF Dri2Inv, PairsOK, PairOK, DataOK, ListsOK, IsSwap
<1>5. QueuedOK' /\ ShownIsFront'
  BY <1>1, <1>2 DEF Dri2Inv, QueuedOK, ShownIsFront, IsSwap
<1>6. BufferRefs' /\ SwapsAnswered'
  BY <1>1, <1>2 DEF Dri2Inv, BufferRefs, SwapsAnswered, IsSwap
<1> QED BY <1>3, <1>4, <1>5, <1>6 DEF Dri2Inv

LEMMA RestackKeeps ==
  ASSUME Dri2Inv, NEW d \in Drawables \union {NoDrawable}, Restack(d)
  PROVE  Dri2Inv'
<1>1. /\ top' = d
      /\ UNCHANGED <<flipVars, clients, drawables, core, pending, blocked, buf, bo,
                     refcnt, wait, vblanks, reslist>>
  BY DEF Restack
<1>2. FlipKnown' /\ UNCHANGED <<fbs, fb_id, flip_count, flip_event>>
  BY <1>1, OthersKnown DEF Dri2Inv
<1>3. Live' = Live
  BY <1>1 DEF Live
<1>4. Dri2TypeOK'
  BY <1>1, <1>2 DEF Dri2Inv, Dri2TypeOK, FlipKnown
<1>5. PairsOK' /\ DataOK' /\ ListsOK'
  BY <1>1, <1>3 DEF Dri2Inv, PairsOK, PairOK, DataOK, ListsOK, IsSwap
<1>6. QueuedOK' /\ ShownIsFront'
  BY <1>1, <1>2, <1>3 DEF Dri2Inv, QueuedOK, ShownIsFront, IsSwap
<1>7. BufferRefs' /\ SwapsAnswered'
  BY <1>1, <1>3 DEF Dri2Inv, BufferRefs, SwapsAnswered, IsSwap
<1> QED BY <1>2, <1>4, <1>5, <1>6, <1>7 DEF Dri2Inv

LEMMA VblankEventKeeps ==
  ASSUME Dri2Inv, NEW w \in Waits, VblankEvent(w) PROVE Dri2Inv'
<1>1. /\ w \in vblanks /\ vblanks' = vblanks \ {w}
      /\ EventGone(w) \/ EventComplete(w)
      /\ UNCHANGED <<flipVars, clients, drawables, top, core>>
  BY DEF VblankEvent
<1>2. w \in Live
  BY <1>1 DEF Dri2Inv, QueuedOK
<1>3. /\ Free(w) /\ pending' \in [Drawables -> 0 .. 1]
      /\ blocked' \subseteq Clients \X Drawables /\ SwapsAnswered'
  BY <1>1, <1>2, AnswerKeeps
<1>4. /\ buf' \in [Buffers -> Buffer \union {Freed}]
      /\ bo' \in [Pixmaps -> Bos \union {NoBo}] /\ bo'[Screen] = bo[Screen]
      /\ refcnt' \in Nat
      /\ wait' \in [Waits -> Wait \union {Freed}]
      /\ reslist' \in [Clients \union Drawables -> SUBSET Waits]
      /\ Live' = Live \ {w} /\ \A x \in Live \ {w} : wait'[x] = wait[x]
      /\ BufferRefs' /\ PairsOK' /\ DataOK' /\ ListsOK'
  BY <1>1, <1>2, <1>3, FreeKeeps
<1>5. FlipKnown' /\ UNCHANGED <<fbs, fb_id, flip_count, flip_event>>
  BY <1>1, OthersKnown DEF Dri2Inv
<1>6. Dri2TypeOK'
  BY <1>1, <1>3, <1>4, <1>5 DEF Dri2Inv, Dri2TypeOK, FlipKnown
<1>7. QueuedOK' /\ ShownIsFront'
  BY <1>1, <1>4, <1>5 DEF Dri2Inv, QueuedOK, ShownIsFront, IsSwap
<1> QED BY <1>3, <1>4, <1>5, <1>6, <1>7 DEF Dri2Inv

LEMMA FlipEventKeeps ==
  ASSUME Dri2Inv, NEW e \in inflight, FlipEvent(e) PROVE Dri2Inv'
<1>1. /\ FlipKnown' /\ fbs'[fb_id'] = fbs[fb_id]
      /\ flip_count > 0 /\ flip_count' = flip_count - 1
      /\ flip_event' = flip_event
  BY HandlerKnown DEF FlipEvent, Dri2Inv
<1>2. UNCHANGED <<clients, drawables, top, core, vblanks>>
  BY DEF FlipEvent
<1>3. CASE flip_count = 1
  <2>1. flip_event \in Live /\ flip_event \notin vblanks
    BY <1>1 DEF Dri2Inv, QueuedOK
  <2>2. EventGone(flip_event) \/ EventComplete(flip_event)
    BY <1>3 DEF FlipEvent
  <2>3. PICK w \in Live : w = flip_event
    BY <2>1
  <2>4. EventGone(w) \/ EventComplete(w)
    BY <2>2, <2>3
  <2>5. /\ Free(w) /\ pending' \in [Drawables -> 0 .. 1]
        /\ blocked' \subseteq Clients \X Drawables /\ SwapsAnswered'
    BY <1>2, <2>4, AnswerKeeps
  <2>6. /\ buf' \in [Buffers -> Buffer \union {Freed}]
        /\ bo' \in [Pixmaps -> Bos \union {NoBo}] /\ bo'[Screen] = bo[Screen]
        /\ refcnt' \in Nat
        /\ wait' \in [Waits -> Wait \union {Freed}]
        /\ reslist' \in [Clients \union Drawables -> SUBSET Waits]
        /\ Live' = Live \ {w} /\ \A x \in Live \ {w} : wait'[x] = wait[x]
        /\ BufferRefs' /\ PairsOK' /\ DataOK' /\ ListsOK'
    BY <1>2, <2>5, FreeKeeps
  <2>7. Dri2TypeOK'
    BY <1>1, <1>2, <2>5, <2>6 DEF Dri2Inv, Dri2TypeOK, FlipKnown
  <2>8. QueuedOK' /\ ShownIsFront'
    BY <1>1, <1>2, <1>3, <2>1, <2>3, <2>6 DEF Dri2Inv, QueuedOK, ShownIsFront
  <2> QED BY <1>1, <2>5, <2>6, <2>7, <2>8 DEF Dri2Inv
<1>4. CASE flip_count # 1
  <2>1. UNCHANGED <<pending, blocked, buf, bo, refcnt, wait, reslist>>
    BY <1>4 DEF FlipEvent
  <2>2. Live' = Live
    BY <2>1 DEF Live
  <2>3. Dri2TypeOK'
    BY <1>1, <1>2, <2>1 DEF Dri2Inv, Dri2TypeOK, FlipKnown
  <2>4. PairsOK' /\ DataOK' /\ ListsOK'
    BY <1>2, <2>1, <2>2 DEF Dri2Inv, PairsOK, PairOK, DataOK, ListsOK, IsSwap
  <2>5. QueuedOK' /\ ShownIsFront'
    BY <1>1, <1>2, <2>1, <2>2 DEF Dri2Inv, QueuedOK, ShownIsFront, IsSwap
  <2>6. BufferRefs' /\ SwapsAnswered'
    BY <1>2, <2>1, <2>2 DEF Dri2Inv, BufferRefs, SwapsAnswered, IsSwap
  <2> QED BY <1>1, <2>3, <2>4, <2>5, <2>6 DEF Dri2Inv
<1> QED BY <1>3, <1>4

(* The exchange of the bos at a flip (common_drm_flip_pixmap).             *)
LEMMA SwappedKeeps ==
  ASSUME Dri2TypeOK, DataOK, NEW b \in Buffers, buf[b] # Freed, buf[b].pixmap = b,
         bo' = Swapped(b),
         \A x \in Buffers : /\ buf'[x] = Freed <=> buf[x] = Freed
                            /\ buf[x] # Freed => buf'[x].pixmap = buf[x].pixmap
  PROVE  /\ bo[b] \in Bos /\ bo'[Screen] = bo[b]
         /\ bo' \in [Pixmaps -> Bos \union {NoBo}] /\ DataOK'
<1>1. b # Screen /\ b \in Pixmaps /\ Screen \in Pixmaps /\ Buffers \subseteq Pixmaps
  BY NoneAssumption DEF Pixmaps
<1>2. bo[b] \in Bos /\ bo[Screen] \in Bos
  BY DEF DataOK
<1>3. /\ bo' \in [Pixmaps -> Bos \union {NoBo}]
      /\ bo'[Screen] = bo[b] /\ bo'[b] = bo[Screen]
      /\ \A x \in Buffers \ {b} : bo'[x] = bo[x]
  BY <1>1, <1>2, NoneAssumption DEF Swapped, Dri2TypeOK
<1>4. DataOK'
  BY <1>2, <1>3 DEF DataOK
<1> QED BY <1>2, <1>3, <1>4

LEMMA SwapNowKeeps ==
  ASSUME Dri2Inv, NEW c \in Clients, NEW d \in Drawables, SwapNow(c, d)
  PROVE  Dri2Inv'
<1>1. PICK w \in Waits : /\ Alloc(w, c, d, "etnaviv_dri2_flip_complete", core[d])
                         /\ ScheduleFlip(w, core[d].back)
  BY DEF SwapNow
<1>2. /\ MayAsk(c, d) /\ core[d] # NoBuffers /\ pending[d] = 0
      /\ Reference(core[d]) /\ pending' = [pending EXCEPT ![d] = 1]
      /\ UNCHANGED <<clients, drawables, top, core, blocked, refcnt, vblanks>>
  BY DEF SwapNow
<1>3. /\ buf' \in [Buffers -> Buffer \union {Freed}]
      /\ wait' \in [Waits -> Wait \union {Freed}]
      /\ reslist' \in [Clients \union Drawables -> SUBSET Waits]
      /\ pending' \in [Drawables -> 0 .. 1]
      /\ w \notin Live /\ Live' = Live \union {w} /\ IsSwap(w)'
      /\ \A b \in Buffers :
           /\ buf'[b] = Freed <=> buf[b] = Freed
           /\ buf[b] # Freed => buf'[b].pixmap = buf[b].pixmap
      /\ PairOK(core[d])
      /\ BufferRefs' /\ PairsOK' /\ ListsOK' /\ SwapsAnswered'
  BY <1>1, <1>2, SwapAllocKeeps DEF EventFuncs
<1>4. PICK b \in Buffers : b = core[d].back
  BY <1>3 DEF PairOK
<1>5. buf[b] # Freed /\ buf[b].pixmap = b
  BY <1>3, <1>4 DEF PairOK
<1>6. PICK failed \in Failures : FlipTaken(bo[b], w, failed)
  BY <1>1, <1>4 DEF ScheduleFlip
<1>7. bo' = Swapped(b)
  BY <1>1, <1>4 DEF ScheduleFlip
<1>8. /\ bo[b] \in Bos /\ bo'[Screen] = bo[b]
      /\ bo' \in [Pixmaps -> Bos \union {NoBo}] /\ DataOK'
  BY <1>3, <1>5, <1>7, SwappedKeeps DEF Dri2Inv
<1>9. FlipKnown' /\ fbs'[fb_id'] = bo[b] /\ flip_count' > 0 /\ flip_event' = w
  <2>1. failed \in SUBSET Crtcs /\ w \in Events
    BY DEF Failures, Waits
  <2> QED BY <1>6, <1>8, <2>1, TakenKnown DEF Dri2Inv
<1>10. Dri2TypeOK'
  BY <1>2, <1>3, <1>8, <1>9 DEF Dri2Inv, Dri2TypeOK, FlipKnown
<1>11. QueuedOK' /\ ShownIsFront'
  BY <1>2, <1>3, <1>8, <1>9 DEF Dri2Inv, QueuedOK, ShownIsFront
<1> QED BY <1>3, <1>8, <1>9, <1>10, <1>11 DEF Dri2Inv

LEMMA ScheduleSwapKeeps ==
  ASSUME Dri2Inv, NEW c \in Clients, NEW d \in Drawables, ScheduleSwap(c, d)
  PROVE  Dri2Inv'
<1>1. PICK w \in Waits : /\ Alloc(w, c, d, IF CanFlip(d) THEN "etnaviv_dri2_flip"
                                           ELSE "etnaviv_dri2_swap", core[d])
                         /\ vblanks' = vblanks \union {w}
  BY DEF ScheduleSwap
<1>2. /\ MayAsk(c, d) /\ core[d] # NoBuffers /\ pending[d] = 0
      /\ Reference(core[d]) /\ pending' = [pending EXCEPT ![d] = 1]
      /\ UNCHANGED <<flipVars, clients, drawables, top, core, blocked, bo, refcnt>>
  BY DEF ScheduleSwap
<1>3. PICK func \in EventFuncs : /\ func # "common_dri2_waitmsc"
                                 /\ Alloc(w, c, d, func, core[d])
  BY <1>1 DEF EventFuncs
<1>4. /\ buf' \in [Buffers -> Buffer \union {Freed}]
      /\ wait' \in [Waits -> Wait \union {Freed}]
      /\ reslist' \in [Clients \union Drawables -> SUBSET Waits]
      /\ pending' \in [Drawables -> 0 .. 1]
      /\ w \notin Live /\ Live' = Live \union {w} /\ IsSwap(w)'
      /\ \A x \in Live : wait'[x] = wait[x]
      /\ \A b \in Buffers :
           /\ buf'[b] = Freed <=> buf[b] = Freed
           /\ buf[b] # Freed => buf'[b].pixmap = buf[b].pixmap
      /\ BufferRefs' /\ PairsOK' /\ ListsOK' /\ SwapsAnswered'
  BY <1>2, <1>3, SwapAllocKeeps
<1>5. FlipKnown' /\ UNCHANGED <<fbs, fb_id, flip_count, flip_event>>
  BY <1>2, OthersKnown DEF Dri2Inv
<1>6. Dri2TypeOK'
  BY <1>1, <1>2, <1>4, <1>5 DEF Dri2Inv, Dri2TypeOK, FlipKnown
<1>7. QueuedOK' /\ ShownIsFront'
  BY <1>1, <1>2, <1>4, <1>5 DEF Dri2Inv, QueuedOK, ShownIsFront, IsSwap
<1>8. DataOK'
  BY <1>2, <1>4 DEF Dri2Inv, DataOK
<1> QED BY <1>4, <1>5, <1>6, <1>7, <1>8 DEF Dri2Inv

LEMMA VblankEventFlipsKeeps ==
  ASSUME Dri2Inv, NEW w \in Waits, VblankEventFlips(w) PROVE Dri2Inv'
<1>1. /\ w \in vblanks /\ vblanks' = vblanks \ {w}
      /\ wait[w].event_func = "etnaviv_dri2_flip"
      /\ ScheduleFlip(w, wait[w].back)
      /\ wait' = [wait EXCEPT ![w].event_func = "etnaviv_dri2_flip_complete"]
      /\ UNCHANGED <<clients, drawables, top, core, pending, blocked, buf, refcnt, reslist>>
  BY DEF VblankEventFlips
<1>2. w \in Live /\ IsSwap(w)
  BY <1>1 DEF Dri2Inv, QueuedOK, IsSwap
<1>3. PairOK(wait[w])
  BY <1>2 DEF Dri2Inv, PairsOK
<1>4. PICK b \in Buffers : b = wait[w].back
  BY <1>3 DEF PairOK
<1>5. buf[b] # Freed /\ buf[b].pixmap = b
  BY <1>3, <1>4 DEF PairOK
<1>6. PICK failed \in Failures : FlipTaken(bo[b], w, failed)
  BY <1>1, <1>4 DEF ScheduleFlip
<1>7. bo' = Swapped(b)
  BY <1>1, <1>4 DEF ScheduleFlip
<1>8. /\ bo[b] \in Bos /\ bo'[Screen] = bo[b]
      /\ bo' \in [Pixmaps -> Bos \union {NoBo}] /\ DataOK'
  BY <1>1, <1>5, <1>7, SwappedKeeps DEF Dri2Inv
<1>9. FlipKnown' /\ fbs'[fb_id'] = bo[b] /\ flip_count' > 0 /\ flip_event' = w
  <2>1. failed \in SUBSET Crtcs /\ w \in Events
    BY DEF Failures, Waits
  <2> QED BY <1>6, <1>8, <2>1, TakenKnown DEF Dri2Inv
<1>10. wait \in [Waits -> Wait \union {Freed}] /\ wait[w] \in Wait
  BY <1>2 DEF Live, Dri2Inv, Dri2TypeOK
<1>11. /\ wait'[w] \in Wait /\ wait'[w] # Freed
       /\ wait'[w].event_func = "etnaviv_dri2_flip_complete"
       /\ wait'[w].client = wait[w].client /\ wait'[w].drawable_id = wait[w].drawable_id
       /\ wait'[w].front = wait[w].front /\ wait'[w].back = wait[w].back
       /\ \A x \in Waits \ {w} : wait'[x] = wait[x]
       /\ wait' \in [Waits -> Wait \union {Freed}]
  BY <1>1, <1>10, NoneAssumption DEF Wait, EventFuncs
<1>12. /\ Live' = Live
       /\ \A x \in Live : /\ wait'[x].client = wait[x].client
                          /\ wait'[x].drawable_id = wait[x].drawable_id
                          /\ wait'[x].front = wait[x].front /\ wait'[x].back = wait[x].back
                          /\ IsSwap(x)' <=> IsSwap(x)
  BY <1>2, <1>11 DEF Live, IsSwap
<1>13. Dri2TypeOK'
  BY <1>1, <1>8, <1>9, <1>11 DEF Dri2Inv, Dri2TypeOK, FlipKnown
<1>14. QueuedOK' /\ ShownIsFront'
  BY <1>1, <1>2, <1>8, <1>9, <1>12 DEF Dri2Inv, QueuedOK, ShownIsFront
<1>15. PairsOK'
  BY <1>1, <1>12 DEF Dri2Inv, PairsOK, PairOK
<1>16. ListsOK'
  <2>1. \A x \in Clients \union Drawables :
          {y \in Live' : x \in {wait'[y].client, wait'[y].drawable_id}}
            = {y \in Live : x \in {wait[y].client, wait[y].drawable_id}}
    BY <1>12
  <2> QED BY <1>1, <1>12, <2>1 DEF Dri2Inv, ListsOK
<1>17. BufferRefs'
  <2>1. \A b1 \in Buffers : Holders(b1)' = Holders(b1) /\ Waiting(b1)' = Waiting(b1)
                            /\ Ref(b1)' = Ref(b1)
    BY <1>1, <1>12 DEF Holders, Waiting, Ref
  <2>2. ScreenBuffers' = ScreenBuffers
    BY <1>1 DEF ScreenBuffers
  <2>3. RefsKnown'
    BY <1>1, <2>1, <2>2, RefsAre DEF RefsKnown, Dri2Inv
  <2>4. BufferRefs' <=> RefsKnown'
    BY RefsAre, PTL
  <2> QED BY <2>3, <2>4
<1>18. SwapsAnswered'
  <2>1. \A d \in drawables : Swaps(d)' = Swaps(d)
    BY <1>12 DEF Swaps
  <2>2. SwapsKnown'
    BY <1>1, <2>1, SwapsAre DEF SwapsKnown, Dri2Inv
  <2>3. SwapsAnswered' <=> SwapsKnown'
    BY SwapsAre, PTL
  <2> QED BY <2>2, <2>3
<1> QED BY <1>8, <1>9, <1>13, <1>14, <1>15, <1>16, <1>17, <1>18 DEF Dri2Inv

LEMMA ScheduleWaitMSCKeeps ==
  ASSUME Dri2Inv, NEW c \in Clients, NEW d \in Drawables, ScheduleWaitMSC(c, d)
  PROVE  Dri2Inv'
<1>1. PICK w \in Waits : /\ Alloc(w, c, d, "common_dri2_waitmsc", NoBuffers)
                         /\ vblanks' = vblanks \union {w}
  BY DEF ScheduleWaitMSC
<1>2. /\ MayAsk(c, d) /\ blocked' = blocked \union {<<c, d>>}
      /\ UNCHANGED <<flipVars, clients, drawables, top, core, pending, buf, bo, refcnt>>
  BY DEF ScheduleWaitMSC
<1> DEFINE new == [client |-> c, drawable_id |-> d, event_func |-> "common_dri2_waitmsc",
                   front |-> NoBuffer, back |-> NoBuffer]
<1>3. /\ wait[w] = Freed
      /\ wait' = [wait EXCEPT ![w] = new]
      /\ reslist' = [reslist EXCEPT ![c] = @ \union {w}, ![d] = @ \union {w}]
  BY <1>1 DEF Alloc, NoBuffers
<1>4. c \in clients /\ d \in drawables /\ c # d
  BY <1>2, IdsAssumption DEF MayAsk
<1>5. new \in Wait /\ new # Freed
  BY NoneAssumption DEF Wait, EventFuncs
<1>6. wait \in [Waits -> Wait \union {Freed}]
  BY DEF Dri2Inv, Dri2TypeOK
<1>7. /\ wait' \in [Waits -> Wait \union {Freed}]
      /\ wait'[w].client = c /\ wait'[w].drawable_id = d
      /\ wait'[w].event_func = "common_dri2_waitmsc"
      /\ wait'[w].front = NoBuffer /\ wait'[w].back = NoBuffer
  BY <1>3, <1>5, <1>6
<1>8. w \notin Live /\ Live' = Live \union {w} /\ \A x \in Live : wait'[x] = wait[x]
  BY <1>3, <1>5, <1>6 DEF Live
<1> HIDE DEF new
<1>9. FlipKnown' /\ UNCHANGED <<fbs, fb_id, flip_count, flip_event>>
  BY <1>2, OthersKnown DEF Dri2Inv
<1>10. reslist' \in [Clients \union Drawables -> SUBSET Waits]
       /\ \A x \in Clients \union Drawables :
            reslist'[x] = IF x \in {c, d} THEN reslist[x] \union {w} ELSE reslist[x]
  BY <1>3, <1>4 DEF Dri2Inv, Dri2TypeOK
<1>11. Dri2TypeOK'
  BY <1>1, <1>2, <1>7, <1>9, <1>10 DEF Dri2Inv, Dri2TypeOK, FlipKnown
<1>12. ListsOK'
  <2>1. ASSUME NEW x \in Clients \union Drawables
        PROVE  reslist'[x] = {y \in Live' : x \in {wait'[y].client, wait'[y].drawable_id}}
    <3>1. reslist[x] = {y \in Live : x \in {wait[y].client, wait[y].drawable_id}}
      BY DEF Dri2Inv, ListsOK
    <3>2. {y \in Live' : x \in {wait'[y].client, wait'[y].drawable_id}}
            = IF x \in {c, d} THEN reslist[x] \union {w} ELSE reslist[x]
      BY <1>7, <1>8, <3>1
    <3> QED BY <1>10, <3>2
  <2> QED BY <1>2, <1>4, <1>7, <1>8, <2>1 DEF Dri2Inv, ListsOK
<1>13. PairsOK' /\ DataOK'
  BY <1>2, <1>7, <1>8 DEF Dri2Inv, PairsOK, PairOK, DataOK, IsSwap
<1>14. QueuedOK' /\ ShownIsFront'
  BY <1>1, <1>2, <1>8, <1>9 DEF Dri2Inv, QueuedOK, ShownIsFront, IsSwap
<1>15. BufferRefs'
  <2>1. \A b \in Buffers : Holders(b)' = Holders(b) /\ Waiting(b)' = Waiting(b)
                           /\ Ref(b)' = Ref(b)
    BY <1>2, <1>7, <1>8, NoneAssumption DEF Holders, Waiting, Ref
  <2>2. ScreenBuffers' = ScreenBuffers
    BY <1>2 DEF ScreenBuffers
  <2>3. RefsKnown'
    BY <1>2, <2>1, <2>2, RefsAre DEF RefsKnown, Dri2Inv
  <2>4. BufferRefs' <=> RefsKnown'
    BY RefsAre, PTL
  <2> QED BY <2>3, <2>4
<1>16. SwapsAnswered'
  <2>1. \A x \in drawables : Swaps(x)' = Swaps(x)
    BY <1>7, <1>8 DEF Swaps, IsSwap
  <2>2. SwapsKnown'
    BY <1>2, <2>1, SwapsAre DEF SwapsKnown, Dri2Inv
  <2>3. SwapsAnswered' <=> SwapsKnown'
    BY SwapsAre, PTL
  <2> QED BY <2>2, <2>3
<1> QED BY <1>9, <1>11, <1>12, <1>13, <1>14, <1>15, <1>16 DEF Dri2Inv

(* A client goes: its waits stay, without it.                              *)
LEMMA ClientGoneKeeps ==
  ASSUME Dri2Inv, NEW c \in Clients, ClientGone(c) PROVE Dri2Inv'
<1>1. /\ c \in clients /\ clients' = clients \ {c}
      /\ blocked' = {x \in blocked : x[1] # c}
      /\ wait' = [w \in Waits |-> IF w \in reslist[c]
                    THEN [wait[w] EXCEPT !.client = NoClient] ELSE wait[w]]
      /\ reslist' = [reslist EXCEPT ![c] = {}]
      /\ UNCHANGED <<flipVars, drawables, top, core, pending, buf, bo, refcnt, vblanks>>
  BY DEF ClientGone
<1>2. \A w \in Waits : w \in reslist[c] <=> w \in Live /\ c \in {wait[w].client, wait[w].drawable_id}
  BY DEF Dri2Inv, ListsOK, Live
<1>3. c \notin Drawables /\ c # NoDrawable /\ c # NoClient
  BY NoneAssumption, IdsAssumption
<1>4. wait \in [Waits -> Wait \union {Freed}]
  BY DEF Dri2Inv, Dri2TypeOK
<1>5. \A w \in Live : w \in reslist[c] <=> wait[w].client = c
  BY <1>2, <1>3 DEF Dri2Inv, ListsOK, Dri2TypeOK, Live
<1>6. \A w \in Live :
        /\ wait'[w] \in Wait /\ wait'[w] # Freed
        /\ wait'[w].client = IF wait[w].client = c THEN NoClient ELSE wait[w].client
        /\ wait'[w].drawable_id = wait[w].drawable_id
        /\ wait'[w].event_func = wait[w].event_func
        /\ wait'[w].front = wait[w].front /\ wait'[w].back = wait[w].back
  <2> TAKE w \in Live
  <2>1. wait[w] \in Wait /\ w \in Waits
    BY <1>4 DEF Live
  <2>2. wait'[w] = IF wait[w].client = c THEN [wait[w] EXCEPT !.client = NoClient] ELSE wait[w]
    BY <1>1, <1>5, <2>1
  <2> QED BY <2>1, <2>2, NoneAssumption DEF Wait
<1>7. \A w \in Waits \ Live : wait'[w] = Freed
  BY <1>1, <1>2 DEF Live
<1>8. Live' = Live /\ wait' \in [Waits -> Wait \union {Freed}]
  <2>1. \A w \in Waits : wait'[w] \in Wait \union {Freed}
    BY <1>6, <1>7
  <2> QED BY <1>1, <1>6, <1>7, <2>1 DEF Live
<1>9. FlipKnown' /\ UNCHANGED <<fbs, fb_id, flip_count, flip_event>>
  BY <1>1, OthersKnown DEF Dri2Inv
<1>10. reslist' \in [Clients \union Drawables -> SUBSET Waits]
       /\ \A x \in Clients \union Drawables : reslist'[x] = IF x = c THEN {} ELSE reslist[x]
  BY <1>1 DEF Dri2Inv, Dri2TypeOK
<1>11. Dri2TypeOK'
  BY <1>1, <1>8, <1>9, <1>10 DEF Dri2Inv, Dri2TypeOK, FlipKnown
<1>12. ListsOK'
  <2>1. ASSUME NEW x \in Clients \union Drawables
        PROVE  reslist'[x] = {y \in Live' : x \in {wait'[y].client, wait'[y].drawable_id}}
    <3>1. reslist[x] = {y \in Live : x \in {wait[y].client, wait[y].drawable_id}}
      BY DEF Dri2Inv, ListsOK
    <3>2. x # NoClient /\ x # NoDrawable
      BY NoneAssumption
    <3>3. \A y \in Live : wait[y].drawable_id # c
      BY <1>3 DEF Dri2Inv, ListsOK, Dri2TypeOK
    <3>4. {y \in Live' : x \in {wait'[y].client, wait'[y].drawable_id}}
            = IF x = c THEN {} ELSE {y \in Live : x \in {wait[y].client, wait[y].drawable_id}}
      BY <1>6, <1>8, <3>2, <3>3
    <3> QED BY <1>10, <3>1, <3>4
  <2>2. ASSUME NEW w \in Live
        PROVE  /\ wait'[w].client \in clients' \union {NoClient}
               /\ wait'[w].drawable_id \in drawables' \union {NoDrawable}
    <3>1. /\ wait[w].client \in clients \union {NoClient}
          /\ wait[w].drawable_id \in drawables \union {NoDrawable}
      BY DEF Dri2Inv, ListsOK
    <3>2. /\ wait'[w].client = IF wait[w].client = c THEN NoClient ELSE wait[w].client
          /\ wait'[w].drawable_id = wait[w].drawable_id
      BY <1>6
    <3>3. clients' = clients \ {c} /\ drawables' = drawables
      BY <1>1
    <3> QED BY <3>1, <3>2, <3>3
  <2> QED BY <1>8, <2>1, <2>2 DEF ListsOK
<1>13. \A w \in Live : IsSwap(w)' <=> IsSwap(w)
  BY <1>6 DEF IsSwap
<1>14. PairsOK' /\ DataOK'
  <2>1. PairsOK /\ DataOK /\ UNCHANGED <<core, buf, bo>>
    BY <1>1 DEF Dri2Inv
  <2>2. DataOK'
    BY <2>1 DEF DataOK
  <2>3. \A d \in Drawables : (core[d] = NoBuffers \/ PairOK(core[d]))'
    BY <2>1 DEF PairsOK, PairOK
  <2>4. ASSUME NEW w \in Live
        PROVE  IF IsSwap(w)' THEN PairOK(wait[w])'
               ELSE (wait[w].front = NoBuffer /\ wait[w].back = NoBuffer)'
    <3>1. wait'[w].front = wait[w].front /\ wait'[w].back = wait[w].back
      BY <1>6
    <3>2. IF IsSwap(w) THEN PairOK(wait[w])
          ELSE wait[w].front = NoBuffer /\ wait[w].back = NoBuffer
      BY <2>1 DEF PairsOK
    <3>3. CASE IsSwap(w)
      BY <1>13, <2>1, <3>1, <3>2, <3>3 DEF PairOK
    <3>4. CASE ~IsSwap(w)
      BY <1>13, <3>1, <3>2, <3>4
    <3> QED BY <3>3, <3>4
  <2> QED BY <1>8, <2>2, <2>3, <2>4 DEF PairsOK
<1>15. QueuedOK' /\ ShownIsFront'
  BY <1>1, <1>8, <1>9, <1>13 DEF Dri2Inv, QueuedOK, ShownIsFront
<1>16. BufferRefs'
  <2>1. \A b \in Buffers : Holders(b)' = Holders(b) /\ Waiting(b)' = Waiting(b)
                           /\ Ref(b)' = Ref(b)
    BY <1>1, <1>6, <1>8 DEF Holders, Waiting, Ref
  <2>2. ScreenBuffers' = ScreenBuffers
    BY <1>1 DEF ScreenBuffers
  <2>3. RefsKnown'
    BY <1>1, <2>1, <2>2, RefsAre DEF RefsKnown, Dri2Inv
  <2>4. BufferRefs' <=> RefsKnown'
    BY RefsAre, PTL
  <2> QED BY <2>3, <2>4
<1>17. SwapsAnswered'
  <2>1. \A x \in drawables : Swaps(x)' = Swaps(x)
    BY <1>6, <1>8, <1>13 DEF Swaps
  <2>2. SwapsKnown'
    BY <1>1, <2>1, SwapsAre DEF SwapsKnown, Dri2Inv
  <2>3. SwapsAnswered' <=> SwapsKnown'
    BY SwapsAre, PTL
  <2> QED BY <2>2, <2>3
<1> QED BY <1>9, <1>11, <1>12, <1>14, <1>15, <1>16, <1>17 DEF Dri2Inv

(* A drawable loses its buffers.                                           *)
LEMMA DropKeeps ==
  ASSUME Dri2Inv, NEW d \in Drawables, DestroyBuffers(Both(core[d])),
         core' = [core EXCEPT ![d] = NoBuffers], Live' = Live,
         \A x \in Live : /\ wait'[x].front = wait[x].front /\ wait'[x].back = wait[x].back
                         /\ IsSwap(x)' <=> IsSwap(x)
  PROVE  /\ buf' \in [Buffers -> Buffer \union {Freed}]
         /\ bo' \in [Pixmaps -> Bos \union {NoBo}] /\ bo'[Screen] = bo[Screen]
         /\ refcnt' \in Nat
         /\ core' \in [Drawables -> [front : Buffers \union {NoBuffer},
                                     back : Buffers \union {NoBuffer}]]
         /\ BufferRefs' /\ PairsOK' /\ DataOK'
<1> DEFINE lost == Both(core[d])
<1>1. core \in [Drawables -> [front : Buffers \union {NoBuffer}, back : Buffers \union {NoBuffer}]]
  BY DEF Dri2Inv, Dri2TypeOK
<1>2. /\ core'[d] = NoBuffers /\ \A x \in Drawables \ {d} : core'[x] = core[x]
      /\ core' \in [Drawables -> [front : Buffers \union {NoBuffer},
                                  back : Buffers \union {NoBuffer}]]
  BY <1>1 DEF NoBuffers
<1>3. /\ lost \in [Buffers -> {0, 1}]
      /\ \A b \in Buffers : lost[b] = IF d \in Holders(b) THEN 1 ELSE 0
  BY DEF Both, Holders
<1>4. \A b \in Buffers : lost[b] = 1 => Ref(b) >= 1
  BY <1>3, HeldRef DEF HeldOK, Dri2Inv
<1> HIDE DEF lost
<1>5. /\ buf' \in [Buffers -> Buffer \union {Freed}]
      /\ bo' \in [Pixmaps -> Bos \union {NoBo}]
      /\ \A b \in Buffers : Ref(b)' = Ref(b) - lost[b]
      /\ \A b \in Buffers : buf'[b] # Freed =>
           buf[b] # Freed /\ buf'[b].pixmap = buf[b].pixmap /\ bo'[b] = bo[b]
      /\ bo'[Screen] = bo[Screen]
      /\ DataOK'
      /\ refcnt' \in Nat /\ refcnt' = 1 + Cardinality(ScreenBuffers')
  <2>1. DestroyBuffers(lost)
    BY DEF lost
  <2> QED BY <1>3, <1>4, <2>1, DestroyKeeps DEF Dri2Inv
<1>6. ASSUME NEW b \in Buffers
      PROVE  Ref(b)' = Cardinality(Holders(b)') + Cardinality(Waiting(b)')
  <2>1. Waiting(b)' = Waiting(b)
    BY DEF Waiting
  <2>2. Holders(b)' = Holders(b) \ {d}
    BY <1>2, NoneAssumption DEF Holders, NoBuffers
  <2>3. Ref(b) = Cardinality(Holders(b)) + Cardinality(Waiting(b))
    BY RefsAre DEF RefsKnown, Dri2Inv
  <2>4. IsFiniteSet(Holders(b)) /\ Cardinality(Waiting(b)) \in Nat /\ Cardinality(Holders(b)) \in Nat
    BY Counts
  <2>5. Cardinality(Holders(b) \ {d}) = IF d \in Holders(b) THEN Cardinality(Holders(b)) - 1
                                        ELSE Cardinality(Holders(b))
    BY <2>4, FS_RemoveElement
  <2>6. Ref(b)' = Ref(b) - (IF d \in Holders(b) THEN 1 ELSE 0)
    BY <1>3, <1>5
  <2> QED BY <2>1, <2>2, <2>3, <2>4, <2>5, <2>6
<1>7. BufferRefs'
  <2>1. RefsKnown'
    BY <1>5, <1>6 DEF RefsKnown
  <2>2. BufferRefs' <=> RefsKnown'
    BY RefsAre, PTL
  <2> QED BY <2>1, <2>2
<1>8. HeldOK'
  BY <1>7, HeldRef, PTL
<1>9. PairsOK'
  <2>1. ASSUME NEW x \in Drawables, core'[x] # NoBuffers PROVE PairOK(core[x])'
    <3>1. x # d /\ core'[x] = core[x]
      BY <1>2, <2>1
    <3>2. PairOK(core[x])
      BY <2>1, <3>1 DEF Dri2Inv, PairsOK
    <3>3. PICK b \in Buffers : b = core[x].back
      BY <3>2 DEF PairOK
    <3>4. x \in Holders(b)'
      BY <3>1, <3>3 DEF Holders
    <3>5. buf'[b] # Freed
      BY <1>8, <3>4 DEF HeldOK
    <3> QED BY <1>5, <3>1, <3>2, <3>3, <3>5 DEF PairOK
  <2>2. ASSUME NEW x \in Live
        PROVE  IF IsSwap(x)' THEN PairOK(wait[x])'
               ELSE (wait[x].front = NoBuffer /\ wait[x].back = NoBuffer)'
    <3>1. wait'[x].front = wait[x].front /\ wait'[x].back = wait[x].back
      OBVIOUS
    <3>2. CASE IsSwap(x)
      <4>1. PairOK(wait[x])
        BY <3>2 DEF Dri2Inv, PairsOK
      <4>2. PICK b \in Buffers : b = wait[x].back
        BY <4>1 DEF PairOK
      <4>3. x \in Waiting(b)'
        BY <2>2, <3>1, <4>2 DEF Waiting
      <4>4. buf'[b] # Freed
        BY <1>8, <4>3 DEF HeldOK
      <4>5. PairOK(wait[x])'
        BY <1>5, <3>1, <4>1, <4>2, <4>4 DEF PairOK
      <4> QED BY <3>2, <4>5
    <3>3. CASE ~IsSwap(x)
      BY <3>1, <3>3 DEF Dri2Inv, PairsOK
    <3> QED BY <3>2, <3>3
  <2> QED BY <2>1, <2>2 DEF PairsOK
<1> QED BY <1>2, <1>5, <1>7, <1>9

LEMMA DropBuffersKeeps ==
  ASSUME Dri2Inv, NEW d \in Drawables, DropBuffers(d) PROVE Dri2Inv'
<1>1. /\ DestroyBuffers(Both(core[d])) /\ core' = [core EXCEPT ![d] = NoBuffers]
      /\ UNCHANGED <<flipVars, clients, drawables, top, pending, blocked, wait,
                     vblanks, reslist>>
  BY DEF DropBuffers
<1>2. Live' = Live /\ \A x \in Live : wait'[x] = wait[x] /\ (IsSwap(x)' <=> IsSwap(x))
  BY <1>1 DEF Live, IsSwap
<1>3. /\ buf' \in [Buffers -> Buffer \union {Freed}]
      /\ bo' \in [Pixmaps -> Bos \union {NoBo}] /\ bo'[Screen] = bo[Screen]
      /\ refcnt' \in Nat
      /\ core' \in [Drawables -> [front : Buffers \union {NoBuffer},
                                  back : Buffers \union {NoBuffer}]]
      /\ BufferRefs' /\ PairsOK' /\ DataOK'
  BY <1>1, <1>2, DropKeeps
<1>4. FlipKnown' /\ UNCHANGED <<fbs, fb_id, flip_count, flip_event>>
  BY <1>1, OthersKnown DEF Dri2Inv
<1>5. Dri2TypeOK'
  BY <1>1, <1>3, <1>4 DEF Dri2Inv, Dri2TypeOK, FlipKnown
<1>6. ListsOK' /\ QueuedOK' /\ ShownIsFront' /\ SwapsAnswered'
  BY <1>1, <1>2, <1>3, <1>4 DEF Dri2Inv, ListsOK, QueuedOK, ShownIsFront, SwapsAnswered, IsSwap
<1> QED BY <1>3, <1>4, <1>5, <1>6 DEF Dri2Inv

(* A drawable goes: its waits stay, without it.                            *)
LEMMA DrawableGoneKeeps ==
  ASSUME Dri2Inv, NEW d \in Drawables, DrawableGone(d) PROVE Dri2Inv'
<1>1. /\ d \in drawables /\ drawables' = drawables \ {d}
      /\ top' = IF top = d THEN NoDrawable ELSE top
      /\ DestroyBuffers(Both(core[d])) /\ core' = [core EXCEPT ![d] = NoBuffers]
      /\ pending' = [pending EXCEPT ![d] = 0]
      /\ blocked' = {x \in blocked : x[2] # d}
      /\ wait' = [w \in Waits |-> IF w \in reslist[d]
                    THEN [wait[w] EXCEPT !.drawable_id = NoDrawable] ELSE wait[w]]
      /\ reslist' = [reslist EXCEPT ![d] = {}]
      /\ UNCHANGED <<flipVars, clients, vblanks>>
  BY DEF DrawableGone
<1>2. \A w \in Waits : w \in reslist[d] <=> w \in Live /\ d \in {wait[w].client, wait[w].drawable_id}
  BY DEF Dri2Inv, ListsOK, Live
<1>3. d \notin Clients /\ d # NoDrawable /\ d # NoClient
  BY NoneAssumption, IdsAssumption
<1>4. wait \in [Waits -> Wait \union {Freed}]
  BY DEF Dri2Inv, Dri2TypeOK
<1>5. \A w \in Live : w \in reslist[d] <=> wait[w].drawable_id = d
  BY <1>2, <1>3 DEF Dri2Inv, ListsOK, Dri2TypeOK, Live
<1>6. \A w \in Live :
        /\ wait'[w] \in Wait /\ wait'[w] # Freed
        /\ wait'[w].drawable_id = IF wait[w].drawable_id = d THEN NoDrawable
                                  ELSE wait[w].drawable_id
        /\ wait'[w].client = wait[w].client
        /\ wait'[w].event_func = wait[w].event_func
        /\ wait'[w].front = wait[w].front /\ wait'[w].back = wait[w].back
  <2> TAKE w \in Live
  <2>1. wait[w] \in Wait /\ w \in Waits
    BY <1>4 DEF Live
  <2>2. wait'[w] = IF wait[w].drawable_id = d THEN [wait[w] EXCEPT !.drawable_id = NoDrawable]
                   ELSE wait[w]
    BY <1>1, <1>5, <2>1
  <2> QED BY <2>1, <2>2, NoneAssumption DEF Wait
<1>7. \A w \in Waits \ Live : wait'[w] = Freed
  BY <1>1, <1>2 DEF Live
<1>8. Live' = Live /\ wait' \in [Waits -> Wait \union {Freed}]
  <2>1. \A w \in Waits : wait'[w] \in Wait \union {Freed}
    BY <1>6, <1>7
  <2> QED BY <1>1, <1>6, <1>7, <2>1 DEF Live
<1>9. FlipKnown' /\ UNCHANGED <<fbs, fb_id, flip_count, flip_event>>
  BY <1>1, OthersKnown DEF Dri2Inv
<1>10. reslist' \in [Clients \union Drawables -> SUBSET Waits]
       /\ \A x \in Clients \union Drawables : reslist'[x] = IF x = d THEN {} ELSE reslist[x]
  BY <1>1 DEF Dri2Inv, Dri2TypeOK
<1>11. \A w \in Live : IsSwap(w)' <=> IsSwap(w)
  BY <1>6 DEF IsSwap
<1>12. /\ buf' \in [Buffers -> Buffer \union {Freed}]
       /\ bo' \in [Pixmaps -> Bos \union {NoBo}] /\ bo'[Screen] = bo[Screen]
       /\ refcnt' \in Nat
       /\ core' \in [Drawables -> [front : Buffers \union {NoBuffer},
                                   back : Buffers \union {NoBuffer}]]
       /\ BufferRefs' /\ PairsOK' /\ DataOK'
  BY <1>1, <1>6, <1>8, <1>11, DropKeeps
<1>13. pending' \in [Drawables -> 0 .. 1]
       /\ \A x \in Drawables \ {d} : pending'[x] = pending[x]
  BY <1>1 DEF Dri2Inv, Dri2TypeOK
<1>14. Dri2TypeOK'
  BY <1>1, <1>8, <1>9, <1>10, <1>12, <1>13 DEF Dri2Inv, Dri2TypeOK, FlipKnown
<1>15. ListsOK'
  <2>1. ASSUME NEW x \in Clients \union Drawables
        PROVE  reslist'[x] = {y \in Live' : x \in {wait'[y].client, wait'[y].drawable_id}}
    <3>1. reslist[x] = {y \in Live : x \in {wait[y].client, wait[y].drawable_id}}
      BY DEF Dri2Inv, ListsOK
    <3>2. x # NoClient /\ x # NoDrawable
      BY NoneAssumption
    <3>3. \A y \in Live : wait[y].client # d
      BY <1>3 DEF Dri2Inv, ListsOK, Dri2TypeOK
    <3>4. {y \in Live' : x \in {wait'[y].client, wait'[y].drawable_id}}
            = IF x = d THEN {} ELSE {y \in Live : x \in {wait[y].client, wait[y].drawable_id}}
      BY <1>6, <1>8, <3>2, <3>3
    <3> QED BY <1>10, <3>1, <3>4
  <2>2. ASSUME NEW w \in Live
        PROVE  /\ wait'[w].client \in clients' \union {NoClient}
               /\ wait'[w].drawable_id \in drawables' \union {NoDrawable}
    <3>1. /\ wait[w].client \in clients \union {NoClient}
          /\ wait[w].drawable_id \in drawables \union {NoDrawable}
      BY DEF Dri2Inv, ListsOK
    <3>2. /\ wait'[w].drawable_id = IF wait[w].drawable_id = d THEN NoDrawable
                                    ELSE wait[w].drawable_id
          /\ wait'[w].client = wait[w].client
      BY <1>6
    <3>3. clients' = clients /\ drawables' = drawables \ {d}
      BY <1>1
    <3> QED BY <3>1, <3>2, <3>3
  <2> QED BY <1>8, <2>1, <2>2 DEF ListsOK
<1>16. QueuedOK' /\ ShownIsFront'
  BY <1>1, <1>8, <1>9, <1>11, <1>12 DEF Dri2Inv, QueuedOK, ShownIsFront
<1>17. SwapsAnswered'
  <2>1. ASSUME NEW x \in drawables' PROVE pending'[x] = Cardinality(Swaps(x)')
    <3>1. x \in drawables /\ x # d /\ x \in Drawables /\ x # NoDrawable
      BY <1>1, NoneAssumption DEF Dri2Inv, Dri2TypeOK
    <3>2. Swaps(x)' = Swaps(x)
      BY <1>6, <1>8, <1>11, <3>1 DEF Swaps
    <3> QED BY <1>13, <3>1, <3>2, SwapsAre DEF SwapsKnown, Dri2Inv
  <2>2. SwapsKnown'
    BY <2>1 DEF SwapsKnown
  <2>3. SwapsAnswered' <=> SwapsKnown'
    BY SwapsAre, PTL
  <2> QED BY <2>2, <2>3
<1> QED BY <1>9, <1>12, <1>14, <1>15, <1>16, <1>17 DEF Dri2Inv

LEMMA ResizeScreenKeeps ==
  ASSUME Dri2Inv, ResizeScreen PROVE Dri2Inv'
<1> DEFINE new == Pick(NewBos)
<1>1. new \in Bos
  BY DEF ResizeScreen, NewBos, Pick
<1>2. PICK failed \in ResizeFailures : Resize(new, failed)
  BY DEF ResizeScreen
<1>3. /\ bo' = [bo EXCEPT ![Screen] = new]
      /\ UNCHANGED <<clients, drawables, top, core, pending, blocked, buf, refcnt,
                     wait, vblanks, reslist>>
  BY DEF ResizeScreen
<1> HIDE DEF new
<1>4. FlipKnown' /\ fbs'[fb_id'] = new /\ UNCHANGED <<flip_count, flip_event>>
  <2>1. failed \in SUBSET Crtcs
    BY DEF ResizeFailures, Failures
  <2> QED BY <1>1, <1>2, <2>1, ResizeKnown DEF Dri2Inv
<1>5. /\ bo'[Screen] = new /\ \A b \in Buffers : bo'[b] = bo[b]
      /\ bo' \in [Pixmaps -> Bos \union {NoBo}]
  BY <1>1, <1>3, NoneAssumption DEF Dri2Inv, Dri2TypeOK, Pixmaps
<1>6. Live' = Live
  BY <1>3 DEF Live
<1>7. Dri2TypeOK'
  BY <1>3, <1>4, <1>5 DEF Dri2Inv, Dri2TypeOK, FlipKnown
<1>8. PairsOK' /\ DataOK' /\ ListsOK'
  BY <1>1, <1>3, <1>5, <1>6 DEF Dri2Inv, PairsOK, PairOK, DataOK, ListsOK, IsSwap
<1>9. QueuedOK' /\ ShownIsFront'
  BY <1>3, <1>4, <1>5, <1>6 DEF Dri2Inv, QueuedOK, ShownIsFront, IsSwap
<1>10. BufferRefs' /\ SwapsAnswered'
  BY <1>3, <1>6 DEF Dri2Inv, BufferRefs, SwapsAnswered, IsSwap
<1> QED BY <1>4, <1>7, <1>8, <1>9, <1>10 DEF Dri2Inv

(* A drawable gets its two buffers, which nobody else has.                 *)
LEMMA CreateBufferKeeps ==
  ASSUME Dri2Inv, NEW d \in Drawables, CreateBuffer(d) PROVE Dri2Inv'
<1> DEFINE f == Pick(FreeBuffers)
           b == Pick(FreeBuffers \ {f})
           new == Pick(NewBos)
<1>1. /\ core[d] = NoBuffers /\ Cardinality(FreeBuffers) > 1 /\ NewBos # {}
      /\ core' = [core EXCEPT ![d] = [front |-> f, back |-> b]]
      /\ buf' = [buf EXCEPT ![f] = [ref |-> 1, pixmap |-> Screen],
                            ![b] = [ref |-> 1, pixmap |-> b]]
      /\ bo' = [bo EXCEPT ![b] = new]
      /\ refcnt' = refcnt + 1
      /\ UNCHANGED <<flipVars, clients, drawables, top, pending, blocked, wait,
                     vblanks, reslist>>
  BY DEF CreateBuffer
<1>2. new \in Bos
  BY <1>1 DEF NewBos, Pick
<1>3. f \in FreeBuffers /\ b \in FreeBuffers \ {f}
  <2>1. FreeBuffers # {}
    BY <1>1, FS_EmptySet
  <2>2. f \in FreeBuffers
    BY <2>1 DEF Pick
  <2>3. FreeBuffers \ {f} # {}
    <3>1. SUFFICES ASSUME FreeBuffers \ {f} = {} PROVE FALSE
      OBVIOUS
    <3>2. FreeBuffers = {f}
      BY <2>2, <3>1
    <3>3. Cardinality({f}) = 1
      BY FS_Singleton
    <3> QED BY <1>1, <3>2, <3>3
  <2> QED BY <2>2, <2>3 DEF Pick
<1> HIDE DEF f, b, new
<1>4. f \in Buffers /\ b \in Buffers /\ f # b /\ buf[f] = Freed /\ buf[b] = Freed
  BY <1>3 DEF FreeBuffers
<1>5. /\ Screen \in Pixmaps /\ Buffers \subseteq Pixmaps /\ Screen # b /\ Screen \notin Buffers
      /\ f # NoBuffer /\ b # NoBuffer /\ Freed \notin Buffer
  BY <1>4, NoneAssumption DEF Pixmaps
<1>6. /\ buf' \in [Buffers -> Buffer \union {Freed}]
      /\ buf'[f].ref = 1 /\ buf'[f].pixmap = Screen /\ buf'[f] # Freed
      /\ buf'[b].ref = 1 /\ buf'[b].pixmap = b /\ buf'[b] # Freed
      /\ \A x \in Buffers \ {f, b} : buf'[x] = buf[x]
  <2>1. [ref |-> 1, pixmap |-> Screen] \in Buffer /\ [ref |-> 1, pixmap |-> b] \in Buffer
    BY <1>4, <1>5 DEF Buffer
  <2>2. buf \in [Buffers -> Buffer \union {Freed}]
    BY DEF Dri2Inv, Dri2TypeOK
  <2>3. buf'[f] = [ref |-> 1, pixmap |-> Screen] /\ buf'[b] = [ref |-> 1, pixmap |-> b]
    BY <1>1, <1>4, <2>2
  <2>4. \A x \in Buffers \ {f, b} : buf'[x] = buf[x]
    BY <1>1, <2>2
  <2>5. buf' \in [Buffers -> Buffer \union {Freed}]
    BY <1>1, <2>1, <2>2
  <2> QED BY <1>5, <2>1, <2>3, <2>4, <2>5
<1>7. /\ core' \in [Drawables -> [front : Buffers \union {NoBuffer},
                                  back : Buffers \union {NoBuffer}]]
      /\ core'[d].front = f /\ core'[d].back = b
      /\ \A x \in Drawables \ {d} : core'[x] = core[x]
  BY <1>1, <1>4 DEF Dri2Inv, Dri2TypeOK
<1>8. /\ bo' \in [Pixmaps -> Bos \union {NoBo}] /\ bo'[Screen] = bo[Screen]
      /\ bo'[b] = new /\ \A x \in Buffers \ {b} : bo'[x] = bo[x]
  BY <1>1, <1>2, <1>4, <1>5 DEF Dri2Inv, Dri2TypeOK
<1>9. FlipKnown' /\ UNCHANGED <<fbs, fb_id, flip_count, flip_event>>
  BY <1>1, OthersKnown DEF Dri2Inv
<1>10. Live' = Live /\ \A x \in Live : wait'[x] = wait[x] /\ (IsSwap(x)' <=> IsSwap(x))
  BY <1>1 DEF Live, IsSwap
<1>11. /\ refcnt' \in Nat /\ refcnt' = 1 + Cardinality(ScreenBuffers')
  <2>1. IsFiniteSet(ScreenBuffers) /\ Cardinality(ScreenBuffers) \in Nat
    BY Counts
  <2>2. refcnt = 1 + Cardinality(ScreenBuffers)
    BY RefsAre DEF RefsKnown, Dri2Inv
  <2>3. ScreenBuffers' = ScreenBuffers \union {f} /\ f \notin ScreenBuffers
    BY <1>4, <1>5, <1>6 DEF ScreenBuffers
  <2>4. Cardinality(ScreenBuffers \union {f}) = Cardinality(ScreenBuffers) + 1
    BY <2>1, <2>3, FS_AddElement
  <2> QED BY <1>1, <2>1, <2>2, <2>3, <2>4
<1>12. Dri2TypeOK'
  BY <1>1, <1>6, <1>7, <1>8, <1>9, <1>11 DEF Dri2Inv, Dri2TypeOK, FlipKnown
<1>13. PairsOK'
  <2>1. ASSUME NEW x \in Drawables \ {d}, core'[x] # NoBuffers PROVE PairOK(core[x])'
    <3>1. PairOK(core[x]) /\ core'[x] = core[x]
      BY <1>7, <2>1 DEF Dri2Inv, PairsOK
    <3>2. core[x].back # f /\ core[x].back # b
      BY <1>4, <3>1 DEF PairOK
    <3> QED BY <1>6, <3>1, <3>2 DEF PairOK
  <2>2. PairOK(core[d])'
    BY <1>4, <1>6, <1>7 DEF PairOK
  <2>3. ASSUME NEW x \in Live
        PROVE  IF IsSwap(x)' THEN PairOK(wait[x])'
               ELSE (wait[x].front = NoBuffer /\ wait[x].back = NoBuffer)'
    <3>1. IF IsSwap(x) THEN PairOK(wait[x])
          ELSE wait[x].front = NoBuffer /\ wait[x].back = NoBuffer
      BY DEF Dri2Inv, PairsOK
    <3>2. CASE IsSwap(x)
      <4>1. PairOK(wait[x])
        BY <3>1, <3>2
      <4>2. wait[x].back # f /\ wait[x].back # b
        BY <1>4, <4>1 DEF PairOK
      <4> QED BY <1>6, <1>10, <3>2, <4>1, <4>2 DEF PairOK
    <3>3. CASE ~IsSwap(x)
      BY <1>10, <3>1, <3>3
    <3> QED BY <3>2, <3>3
  <2> QED BY <1>10, <2>1, <2>2, <2>3 DEF PairsOK
<1>14. DataOK'
  BY <1>2, <1>4, <1>5, <1>6, <1>8 DEF Dri2Inv, DataOK
<1>15. ListsOK' /\ QueuedOK' /\ ShownIsFront' /\ SwapsAnswered'
  BY <1>1, <1>8, <1>9, <1>10 DEF Dri2Inv, ListsOK, QueuedOK, ShownIsFront, SwapsAnswered, IsSwap
<1>16. ASSUME NEW x \in Buffers
       PROVE  Ref(x)' = Cardinality(Holders(x)') + Cardinality(Waiting(x)')
  <2>1. Waiting(x)' = Waiting(x)
    BY <1>10 DEF Waiting
  <2>2. Ref(x) = Cardinality(Holders(x)) + Cardinality(Waiting(x))
    BY RefsAre DEF RefsKnown, Dri2Inv
  <2>3. IsFiniteSet(Holders(x)) /\ Cardinality(Waiting(x)) \in Nat /\ Cardinality(Holders(x)) \in Nat
    BY Counts
  <2>4. d \notin Holders(x)
    BY <1>1, NoneAssumption DEF Holders, NoBuffers
  <2>5. Holders(x)' = IF x \in {f, b} THEN Holders(x) \union {d} ELSE Holders(x)
    BY <1>7, <2>4 DEF Holders
  <2>6. Cardinality(Holders(x) \union {d}) = Cardinality(Holders(x)) + 1
    BY <2>3, <2>4, FS_AddElement
  <2>7. CASE x \in {f, b}
    <3>1. Ref(x) = 0 /\ Ref(x)' = 1
      BY <1>4, <1>6, <2>7 DEF Ref
    <3> QED BY <2>1, <2>2, <2>3, <2>5, <2>6, <2>7, <3>1
  <2>8. CASE x \notin {f, b}
    <3>1. Ref(x)' = Ref(x)
      BY <1>6, <2>8 DEF Ref
    <3> QED BY <2>1, <2>2, <2>5, <2>8, <3>1
  <2> QED BY <2>7, <2>8
<1>17. BufferRefs'
  <2>1. RefsKnown'
    BY <1>11, <1>16 DEF RefsKnown
  <2>2. BufferRefs' <=> RefsKnown'
    BY RefsAre, PTL
  <2> QED BY <2>1, <2>2
<1> QED BY <1>9, <1>12, <1>13, <1>14, <1>15, <1>17 DEF Dri2Inv

(* To begin with nobody has asked for anything.                            *)
LEMMA Dri2InitKeeps == Dri2Init => Dri2Inv
<1> SUFFICES ASSUME Dri2Init PROVE Dri2Inv
  OBVIOUS
<1>1. Pick(Bos) \in Bos
  BY IdsAssumption DEF Pick
<1>2. /\ core = [d \in Drawables |-> NoBuffers] /\ pending = [d \in Drawables |-> 0]
      /\ buf = [b \in Buffers |-> Freed] /\ wait = [w \in Waits |-> Freed]
      /\ bo = [p \in Pixmaps |-> IF p = Screen THEN Pick(Bos) ELSE NoBo]
      /\ clients = Clients /\ drawables = Drawables /\ top = NoDrawable /\ blocked = {}
      /\ refcnt = 1 /\ vblanks = {} /\ reslist = [x \in Clients \union Drawables |-> {}]
      /\ PageFlipInit(Pick(Bos))
  BY DEF Dri2Init
<1>3. FlipKnown /\ fbs[fb_id] = Pick(Bos) /\ flip_count = 0
  <2>1. FlipInv
    BY <1>1, <1>2, FlipInit
  <2>2. fbs[fb_id] = Pick(Bos) /\ flip_count = 0
    BY <1>2, FbsAssumption DEF PageFlipInit, Pick
  <2> QED BY <1>1, <2>1, <2>2, BosAssumption DEF FlipKnown, FlipInv
<1>4. Live = {}
  BY <1>2 DEF Live
<1>5. /\ Screen \in Pixmaps /\ bo[Screen] = Pick(Bos)
      /\ bo \in [Pixmaps -> Bos \union {NoBo}]
  BY <1>1, <1>2 DEF Pixmaps
<1>6. Dri2TypeOK
  BY <1>2, <1>3, <1>5 DEF Dri2TypeOK, FlipKnown, NoBuffers
<1>7. PairsOK /\ DataOK /\ ListsOK /\ QueuedOK /\ ShownIsFront
  BY <1>1, <1>2, <1>3, <1>4, <1>5 DEF PairsOK, DataOK, ListsOK, QueuedOK, ShownIsFront
<1>8. BufferRefs
  <2>1. ASSUME NEW b \in Buffers PROVE Ref(b) = Cardinality(Holders(b)) + Cardinality(Waiting(b))
    <3>1. Holders(b) = {} /\ Waiting(b) = {} /\ Ref(b) = 0
      BY <1>2, <1>4, NoneAssumption DEF Holders, Waiting, Ref, NoBuffers
    <3> QED BY <3>1, FS_EmptySet
  <2>2. ScreenBuffers = {}
    BY <1>2 DEF ScreenBuffers
  <2> QED BY <1>2, <2>1, <2>2, FS_EmptySet, RefsAre DEF RefsKnown
<1>9. SwapsAnswered
  <2>1. ASSUME NEW d \in drawables PROVE pending[d] = Cardinality(Swaps(d))
    <3>1. Swaps(d) = {} /\ pending[d] = 0
      BY <1>2, <1>4 DEF Swaps
    <3> QED BY <3>1, FS_EmptySet
  <2> QED BY <2>1, SwapsAre DEF SwapsKnown
<1> QED BY <1>3, <1>6, <1>7, <1>8, <1>9 DEF Dri2Inv

LEMMA Dri2NextKeeps == Dri2Inv /\ [Dri2Next]_dri2SysVars => Dri2Inv'
<1> SUFFICES ASSUME Dri2Inv, [Dri2Next]_dri2SysVars PROVE Dri2Inv'
  OBVIOUS
<1>1. ASSUME NEW d \in Drawables \union {NoDrawable}, Restack(d) PROVE Dri2Inv'
  BY <1>1, RestackKeeps
<1>2. ASSUME NEW d \in Drawables, CreateBuffer(d) \/ DropBuffers(d) \/ DrawableGone(d)
      PROVE  Dri2Inv'
  BY <1>2, CreateBufferKeeps, DropBuffersKeeps, DrawableGoneKeeps
<1>3. ASSUME NEW c \in Clients, NEW d \in Drawables,
             ScheduleWaitMSC(c, d) \/ SwapNow(c, d) \/ ScheduleSwap(c, d)
      PROVE  Dri2Inv'
  BY <1>3, ScheduleWaitMSCKeeps, SwapNowKeeps, ScheduleSwapKeeps
<1>4. ASSUME NEW w \in Waits, VblankEvent(w) \/ VblankEventFlips(w) PROVE Dri2Inv'
  BY <1>4, VblankEventKeeps, VblankEventFlipsKeeps
<1>5. ASSUME NEW e \in inflight, FlipEvent(e) PROVE Dri2Inv'
  BY <1>5, FlipEventKeeps
<1>6. ASSUME NEW c \in Clients, ClientGone(c) PROVE Dri2Inv'
  BY <1>6, ClientGoneKeeps
<1>7. ASSUME NEW c \in Crtcs, Vblank(c) \/ SetMode(c) \/ Disable(c), UNCHANGED dri2Vars
      PROVE  Dri2Inv'
  <2>1. FlipKnown' /\ UNCHANGED <<fbs, fb_id, flip_count, flip_event>>
    BY <1>7, OthersKnown DEF Dri2Inv
  <2> QED BY <1>7, <2>1, FlipsOnly
<1>8. CASE ResizeScreen
  BY <1>8, ResizeScreenKeeps
<1>9. CASE UNCHANGED dri2SysVars
  <2>1. UNCHANGED flipVars /\ UNCHANGED dri2Vars
    BY <1>9 DEF dri2SysVars
  <2>2. FlipKnown' /\ UNCHANGED <<fbs, fb_id, flip_count, flip_event>>
    BY <2>1, OthersKnown DEF Dri2Inv
  <2> QED BY <2>1, <2>2, FlipsOnly
<1> QED BY <1>1, <1>2, <1>3, <1>4, <1>5, <1>6, <1>7, <1>8, <1>9 DEF Dri2Next

LEMMA Dri2Invariant == Dri2Spec => []Dri2Inv
BY Dri2InitKeeps, Dri2NextKeeps, PTL DEF Dri2Spec

(* The references on a buffer are DRI2's and those of the waits: none is   *)
(* freed early and none leaks, in whatever order events come and clients   *)
(* and drawables go (common_dri2_DestroyBuffer, common_dri2_wait_free).    *)
THEOREM BufferRefsCorrect == Dri2Spec => []BufferRefs
<1>1. Dri2Inv => BufferRefs
  BY DEF Dri2Inv
<1> QED BY <1>1, Dri2Invariant, PTL

(* The framebuffer that is current is made of the screen pixmap's bo, over *)
(* swaps and resizes (etnaviv_dri2_ScheduleFlip, common_drm_flip_pixmap).  *)
THEOREM ShownIsFrontCorrect == Dri2Spec => []ShownIsFront
<1>1. Dri2Inv => ShownIsFront
  BY DEF Dri2Inv
<1> QED BY <1>1, Dri2Invariant, PTL

(* DRI2 is told exactly once of every swap of a drawable, whether its      *)
(* client is still there or not (common_dri2_event).                       *)
THEOREM SwapsAnsweredCorrect == Dri2Spec => []SwapsAnswered
<1>1. Dri2Inv => SwapsAnswered
  BY DEF Dri2Inv
<1> QED BY <1>1, Dri2Invariant, PTL

-----------------------------------------------------------------------------
(* DRI2 as the caller of common_drm_flip.  As long as no flip is asked for *)
(* while another is due, its steps are those of PageFlip, and every wait   *)
(* has an event to come.                                                   *)
FlipsAlone == [][FlipsWait]_dri2SysVars

WaitsKept == \A w \in Live : w \in vblanks \/ (flip_count > 0 /\ flip_event = w)
AloneInv  == Dri2Inv /\ FlipInv /\ WaitsKept

LEMMA AloneTaken ==
  ASSUME AloneInv, FlipsWait, NEW w \in Waits, w \notin Live \/ w \in vblanks,
         NEW b \in Bos, NEW failed \in Failures, FlipTaken(b, w, failed)
  PROVE  /\ accepted = {} /\ flip_count = 0
         /\ flip_event' = w /\ flip_count' > 0
         /\ PageFlipNext
<1>1. \A x \in accepted : flip_event = x /\ flip_count > 0
  BY DEF AloneInv, FlipInv, EventKept
<1>2. w \notin accepted
  BY <1>1 DEF AloneInv, Dri2Inv, QueuedOK
<1>3. accepted' = accepted \union {w} /\ flip_event' = w /\ flip_count' > 0
  BY DEF FlipTaken, Queue
<1>4. accepted = {}
  BY <1>2, <1>3 DEF FlipsWait
<1>5. flip_count = 0
  BY <1>4 DEF AloneInv, FlipInv, PageFlipTypeOK
<1>6. Flip(b, w)
  BY <1>2, <1>4 DEF Flip
<1> QED BY <1>3, <1>4, <1>5, <1>6 DEF PageFlipNext, Waits

(* The waits that a request or an event leaves.                            *)
LEMMA AllocLive ==
  ASSUME Dri2TypeOK, NEW w \in Waits, NEW c, NEW d, NEW func, NEW x, Alloc(w, c, d, func, x)
  PROVE  w \notin Live /\ Live' \subseteq Live \union {w}
<1>1. wait[w] = Freed /\ \A y \in Waits \ {w} : wait'[y] = wait[y]
  BY DEF Alloc, Dri2TypeOK
<1> QED BY <1>1 DEF Live

LEMMA FreeLive ==
  ASSUME Dri2TypeOK, NEW w \in Waits, EventGone(w) \/ EventComplete(w)
  PROVE  Live' \subseteq Live \ {w}
<1>1. wait' = [wait EXCEPT ![w] = Freed]
  BY DEF EventGone, EventComplete, Free
<1>2. wait'[w] = Freed /\ \A y \in Waits \ {w} : wait'[y] = wait[y]
  BY <1>1 DEF Dri2TypeOK
<1> QED BY <1>2 DEF Live

LEMMA SwapNowAlone ==
  ASSUME AloneInv, FlipsWait, NEW c \in Clients, NEW d \in Drawables, SwapNow(c, d)
  PROVE  PageFlipNext /\ WaitsKept'
<1>1. PICK w \in Waits : /\ Alloc(w, c, d, "etnaviv_dri2_flip_complete", core[d])
                         /\ ScheduleFlip(w, core[d].back)
  BY DEF SwapNow
<1>2. w \notin Live /\ Live' \subseteq Live \union {w} /\ vblanks' = vblanks
  BY <1>1, AllocLive DEF AloneInv, Dri2Inv, SwapNow
<1>3. core[d] # NoBuffers
  BY DEF SwapNow
<1>4. bo[core[d].back] \in Bos
  BY <1>3 DEF AloneInv, Dri2Inv, PairsOK, PairOK, DataOK
<1>5. PICK failed \in Failures : FlipTaken(bo[core[d].back], w, failed)
  BY <1>1 DEF ScheduleFlip
<1>6. flip_count = 0 /\ flip_event' = w /\ flip_count' > 0 /\ PageFlipNext
  BY <1>2, <1>4, <1>5, AloneTaken
<1> QED BY <1>2, <1>6 DEF AloneInv, WaitsKept

LEMMA VblankEventFlipsAlone ==
  ASSUME AloneInv, FlipsWait, NEW w \in Waits, VblankEventFlips(w)
  PROVE  PageFlipNext /\ WaitsKept'
<1>1. /\ w \in vblanks /\ vblanks' = vblanks \ {w}
      /\ wait[w].event_func = "etnaviv_dri2_flip"
      /\ ScheduleFlip(w, wait[w].back)
      /\ wait' = [wait EXCEPT ![w].event_func = "etnaviv_dri2_flip_complete"]
  BY DEF VblankEventFlips
<1>2. w \in Live /\ IsSwap(w)
  BY <1>1 DEF AloneInv, Dri2Inv, QueuedOK, IsSwap
<1>3. bo[wait[w].back] \in Bos
  BY <1>2 DEF AloneInv, Dri2Inv, PairsOK, PairOK, DataOK
<1>4. PICK failed \in Failures : FlipTaken(bo[wait[w].back], w, failed)
  BY <1>1 DEF ScheduleFlip
<1>5. flip_count = 0 /\ flip_event' = w /\ flip_count' > 0 /\ PageFlipNext
  BY <1>1, <1>3, <1>4, AloneTaken
<1>6. Live' \subseteq Live
  <2>1. \A x \in Waits \ {w} : wait'[x] = wait[x]
    BY <1>1 DEF AloneInv, Dri2Inv, Dri2TypeOK
  <2> QED BY <1>2, <2>1 DEF Live
<1> QED BY <1>1, <1>5, <1>6 DEF AloneInv, WaitsKept

LEMMA FlipEventAlone ==
  ASSUME AloneInv, NEW e \in inflight, FlipEvent(e)
  PROVE  PageFlipNext /\ WaitsKept'
<1>1. FlipHandler(e) /\ vblanks' = vblanks
  BY DEF FlipEvent
<1>2. flip_count > 0 /\ flip_count' = flip_count - 1 /\ flip_event' = flip_event
      /\ flip_count \in Nat
  BY <1>1, HandlerKnown DEF AloneInv, Dri2Inv, FlipKnown, PageFlipTypeOK
<1>3. CASE flip_count = 1
  <2>1. flip_event \in Waits
    BY <1>2 DEF AloneInv, Dri2Inv, FlipKnown, Waits
  <2>2. EventGone(flip_event) \/ EventComplete(flip_event)
    BY <1>3 DEF FlipEvent
  <2>3. PICK w \in Waits : w = flip_event
    BY <2>1
  <2>4. Live' \subseteq Live \ {w}
    BY <2>2, <2>3, FreeLive DEF AloneInv, Dri2Inv
  <2>5. WaitsKept'
    BY <1>1, <2>3, <2>4 DEF AloneInv, WaitsKept
  <2> QED BY <1>1, <2>5 DEF PageFlipNext
<1>4. CASE flip_count # 1
  <2>1. Live' = Live
    BY <1>4 DEF FlipEvent, Live
  <2>2. WaitsKept'
    BY <1>1, <1>2, <1>4, <2>1 DEF AloneInv, WaitsKept
  <2> QED BY <1>1, <2>2 DEF PageFlipNext
<1> QED BY <1>3, <1>4

(* Every other step leaves the flips alone, or is one of the kernel's.     *)
LEMMA OthersAlone ==
  ASSUME AloneInv, UNCHANGED flipVars, Live' \subseteq Live, Live' \cap vblanks \subseteq vblanks'
  PROVE  [PageFlipNext]_flipVars /\ WaitsKept'
<1>1. UNCHANGED <<flip_count, flip_event>>
  BY DEF flipVars, driver
<1> QED BY <1>1 DEF AloneInv, WaitsKept

LEMMA Dri2Flips ==
  ASSUME AloneInv, FlipsWait, [Dri2Next]_dri2SysVars
  PROVE  [PageFlipNext]_flipVars /\ WaitsKept'
<1> DEFINE Goal == [PageFlipNext]_flipVars /\ WaitsKept'
<1>1. ASSUME NEW d \in Drawables \union {NoDrawable}, Restack(d) PROVE Goal
  BY <1>1, OthersAlone DEF Restack, Live
<1>2. ASSUME NEW d \in Drawables, CreateBuffer(d) \/ DropBuffers(d) PROVE Goal
  BY <1>2, OthersAlone DEF CreateBuffer, DropBuffers, Live
<1>3. ASSUME NEW d \in Drawables, DrawableGone(d) PROVE Goal
  <2>1. /\ wait' = [w \in Waits |-> IF w \in reslist[d]
                      THEN [wait[w] EXCEPT !.drawable_id = NoDrawable] ELSE wait[w]]
        /\ reslist[d] \subseteq Live
        /\ UNCHANGED <<flipVars, vblanks>>
    BY <1>3 DEF DrawableGone, AloneInv, Dri2Inv, ListsOK
  <2>2. Live' \subseteq Live
    BY <2>1 DEF Live
  <2> QED BY <2>1, <2>2, OthersAlone
<1>4. ASSUME NEW c \in Clients, NEW d \in Drawables,
             ScheduleWaitMSC(c, d) \/ ScheduleSwap(c, d)
      PROVE  Goal
  <2>1. PICK w \in Waits : /\ \E func, x : Alloc(w, c, d, func, x)
                           /\ vblanks' = vblanks \union {w}
    BY <1>4 DEF ScheduleWaitMSC, ScheduleSwap
  <2>2. Live' \subseteq Live \union {w}
    BY <2>1, AllocLive DEF AloneInv, Dri2Inv
  <2>3. UNCHANGED flipVars
    BY <1>4 DEF ScheduleWaitMSC, ScheduleSwap
  <2> QED BY <2>1, <2>2, <2>3 DEF flipVars, driver, AloneInv, WaitsKept
<1>5. ASSUME NEW c \in Clients, NEW d \in Drawables, SwapNow(c, d) PROVE Goal
  BY <1>5, SwapNowAlone
<1>6. ASSUME NEW w \in Waits, VblankEvent(w) PROVE Goal
  <2>1. Live' \subseteq Live \ {w}
    BY <1>6, FreeLive DEF VblankEvent, AloneInv, Dri2Inv
  <2> QED BY <1>6, <2>1, OthersAlone DEF VblankEvent
<1>7. ASSUME NEW w \in Waits, VblankEventFlips(w) PROVE Goal
  BY <1>7, VblankEventFlipsAlone
<1>8. ASSUME NEW e \in inflight, FlipEvent(e) PROVE Goal
  BY <1>8, FlipEventAlone
<1>9. ASSUME NEW c \in Clients, ClientGone(c) PROVE Goal
  <2>1. /\ wait' = [w \in Waits |-> IF w \in reslist[c]
                      THEN [wait[w] EXCEPT !.client = NoClient] ELSE wait[w]]
        /\ reslist[c] \subseteq Live
        /\ UNCHANGED <<flipVars, vblanks>>
    BY <1>9 DEF ClientGone, AloneInv, Dri2Inv, ListsOK
  <2>2. Live' \subseteq Live
    BY <2>1 DEF Live
  <2> QED BY <2>1, <2>2, OthersAlone
<1>10. ASSUME NEW c \in Crtcs, Vblank(c) \/ SetMode(c) \/ Disable(c), UNCHANGED dri2Vars
       PROVE  Goal
  <2>1. PageFlipNext
    BY <1>10 DEF PageFlipNext
  <2>2. UNCHANGED <<flip_count, flip_event, wait, vblanks>>
    BY <1>10 DEF Vblank, SetMode, Disable, driver, dri2Vars
  <2> QED BY <2>1, <2>2 DEF AloneInv, WaitsKept, Live
<1>11. CASE ResizeScreen
  <2>1. Pick(NewBos) \in Bos
    BY <1>11 DEF ResizeScreen, NewBos, Pick
  <2>2. PICK failed \in ResizeFailures : Resize(Pick(NewBos), failed)
    BY <1>11 DEF ResizeScreen
  <2>3. PageFlipNext
    BY <2>1, <2>2 DEF PageFlipNext
  <2>4. UNCHANGED <<flip_count, flip_event, wait, vblanks>>
    BY <1>11, <2>2 DEF ResizeScreen, Resize
  <2> QED BY <2>3, <2>4 DEF AloneInv, WaitsKept, Live
<1>12. CASE UNCHANGED dri2SysVars
  BY <1>12, OthersAlone DEF dri2SysVars, dri2Vars, Live
<1> QED
  BY <1>1, <1>2, <1>3, <1>4, <1>5, <1>6, <1>7, <1>8, <1>9, <1>10, <1>11, <1>12 DEF Dri2Next

LEMMA AloneNext ==
  ASSUME AloneInv, FlipsWait, [Dri2Next]_dri2SysVars
  PROVE  AloneInv' /\ [PageFlipNext]_flipVars
<1>1. [PageFlipNext]_flipVars /\ WaitsKept'
  BY Dri2Flips
<1>2. Dri2Inv /\ FlipInv
  BY DEF AloneInv
<1>3. FlipInv'
  BY <1>1, <1>2, FlipStep
<1>4. Dri2Inv'
  BY <1>2, Dri2NextKeeps
<1> QED BY <1>1, <1>3, <1>4 DEF AloneInv

LEMMA AloneInit == Dri2Init => AloneInv /\ ShowsCurrent /\ PageFlipInit(Pick(Bos))
<1> SUFFICES ASSUME Dri2Init PROVE AloneInv /\ ShowsCurrent /\ PageFlipInit(Pick(Bos))
  OBVIOUS
<1>1. PageFlipInit(Pick(Bos)) /\ Live = {}
  BY DEF Dri2Init, Live
<1>2. Pick(Bos) \in Bos
  BY IdsAssumption DEF Pick
<1>3. FlipInv /\ ShowsCurrent
  BY <1>1, <1>2, FlipInit
<1> QED BY <1>1, <1>3, Dri2InitKeeps DEF AloneInv, WaitsKept

LEMMA TrackedFollows == AloneInv => WaitsTracked
<1> SUFFICES ASSUME AloneInv PROVE WaitsTracked
  OBVIOUS
<1>1. ASSUME NEW w \in Waits
      PROVE  IF wait[w] = Freed THEN w \notin vblanks /\ ~(flip_event = w /\ flip_count > 0)
             ELSE w \in vblanks <=> ~(flip_event = w /\ flip_count > 0)
  BY DEF AloneInv, Dri2Inv, QueuedOK, WaitsKept, Live
<1> QED BY <1>1 DEF AloneInv, Dri2Inv, ListsOK, WaitsTracked

(* With one drawable DRI2 itself lets no flip be asked for while another   *)
(* is due: a drawable has one swap at a time.                              *)
OneDrawable == \A d \in Drawables, e \in Drawables : d = e
OneInv == (\E w \in Live : wait[w].drawable_id = NoDrawable) => drawables # Drawables

LEMMA OneSwap ==
  ASSUME OneDrawable, AloneInv, OneInv, NEW d \in Drawables, d \in drawables,
         NEW v \in Live, IsSwap(v), NEW w \in Live, IsSwap(w)
  PROVE  v = w /\ pending[d] = 1
<1>1. drawables = Drawables /\ \A x \in drawables : x = d
  BY DEF OneDrawable, AloneInv, Dri2Inv, Dri2TypeOK
<1>2. \A x \in Live : wait[x].drawable_id = d
  BY <1>1 DEF OneInv, AloneInv, Dri2Inv, ListsOK
<1>3. v \in Swaps(d) /\ w \in Swaps(d)
  BY <1>2 DEF Swaps
<1>4. IsFiniteSet(Swaps(d)) /\ Cardinality(Swaps(d)) \in Nat
  BY Counts
<1>5. pending[d] = Cardinality(Swaps(d)) /\ pending[d] \in 0 .. 1
  BY SwapsAre DEF SwapsKnown, AloneInv, Dri2Inv, Dri2TypeOK
<1>6. Cardinality(Swaps(d) \ {w}) = Cardinality(Swaps(d)) - 1 /\ IsFiniteSet(Swaps(d) \ {w})
  BY <1>3, <1>4, FS_RemoveElement
<1>7. Cardinality(Swaps(d) \ {w}) \in Nat
  BY <1>6, FS_CardinalityType
<1>8. pending[d] = 1 /\ Cardinality(Swaps(d) \ {w}) = 0
  BY <1>5, <1>6, <1>7
<1>9. Swaps(d) \ {w} = {}
  BY <1>6, <1>8, FS_EmptySet
<1> QED BY <1>3, <1>8, <1>9

LEMMA OneAlone ==
  ASSUME OneDrawable, AloneInv, OneInv, [Dri2Next]_dri2SysVars PROVE FlipsWait
<1>1. \A x \in accepted : x = flip_event /\ x \in Live \ vblanks /\ IsSwap(x)
  BY DEF AloneInv, Dri2Inv, FlipInv, EventKept, QueuedOK
<1>2. ASSUME NEW c \in Clients, NEW d \in Drawables, SwapNow(c, d) PROVE FlipsWait
  <2>1. d \in drawables /\ pending[d] = 0
    BY <1>2 DEF SwapNow, MayAsk
  <2>2. accepted = {}
    <3>1. SUFFICES ASSUME NEW x \in accepted PROVE FALSE
      OBVIOUS
    <3> QED BY <1>1, <2>1, OneSwap
  <2> QED BY <2>2 DEF FlipsWait
<1>3. ASSUME NEW w \in Waits, VblankEventFlips(w) PROVE FlipsWait
  <2>1. w \in vblanks /\ w \in Live /\ IsSwap(w)
    BY <1>3 DEF VblankEventFlips, AloneInv, Dri2Inv, QueuedOK, IsSwap
  <2>2. wait[w].drawable_id \in drawables /\ drawables \subseteq Drawables
    BY <1>3, <2>1 DEF VblankEventFlips, AloneInv, Dri2Inv, ListsOK, Dri2TypeOK
  <2>3. PICK d \in Drawables : d \in drawables
    BY <2>2
  <2>4. accepted = {}
    <3>1. SUFFICES ASSUME NEW x \in accepted PROVE FALSE
      OBVIOUS
    <3> QED BY <1>1, <2>1, <2>3, OneSwap
  <2> QED BY <2>4 DEF FlipsWait
<1>4. ASSUME NEW e \in inflight, FlipEvent(e) PROVE FlipsWait
  BY <1>4 DEF FlipEvent, FlipHandler, FlipsWait
<1>5. CASE UNCHANGED accepted
  BY <1>5 DEF FlipsWait
<1>6. \/ \E c \in Clients, d \in Drawables : SwapNow(c, d)
      \/ \E w \in Waits : VblankEventFlips(w)
      \/ \E e \in inflight : FlipEvent(e)
      \/ UNCHANGED accepted
  <2>1. UNCHANGED flipVars => UNCHANGED accepted
    BY DEF flipVars, driver
  <2>2. ASSUME NEW d, Restack(d) \/ CreateBuffer(d) \/ DropBuffers(d) \/ DrawableGone(d)
        PROVE  UNCHANGED accepted
    BY <2>1, <2>2 DEF Restack, CreateBuffer, DropBuffers, DrawableGone
  <2>3. ASSUME NEW c, NEW d, ScheduleWaitMSC(c, d) \/ ScheduleSwap(c, d) \/ ClientGone(c)
        PROVE  UNCHANGED accepted
    BY <2>1, <2>3 DEF ScheduleWaitMSC, ScheduleSwap, ClientGone
  <2>4. ASSUME NEW w, VblankEvent(w) PROVE UNCHANGED accepted
    BY <2>1, <2>4 DEF VblankEvent
  <2>5. ASSUME NEW c \in Crtcs, Vblank(c) \/ SetMode(c) \/ Disable(c)
        PROVE  UNCHANGED accepted
    BY <2>5 DEF Vblank, SetMode, Disable, driver
  <2>6. ResizeScreen => UNCHANGED accepted
    BY DEF ResizeScreen, Resize
  <2>7. UNCHANGED dri2SysVars => UNCHANGED accepted
    BY <2>1 DEF dri2SysVars
  <2>8. CASE Dri2Next
    BY <2>2, <2>3, <2>4, <2>5, <2>6, <2>8 DEF Dri2Next
  <2> QED BY <2>7, <2>8
<1> QED BY <1>2, <1>3, <1>4, <1>5, <1>6

(* A wait that a step leaves has the drawable it had, or a new one.        *)
NamesDrawable(w) ==
  \/ w \in Live /\ wait'[w].drawable_id = wait[w].drawable_id
  \/ wait'[w].drawable_id # NoDrawable

LEMMA FreeNames ==
  ASSUME Dri2TypeOK, NEW w \in Waits, EventGone(w) \/ EventComplete(w)
  PROVE  \A x \in Live' : NamesDrawable(x)
<1>1. wait' = [wait EXCEPT ![w] = Freed]
  BY DEF EventGone, EventComplete, Free
<1>2. wait'[w] = Freed /\ \A y \in Waits \ {w} : wait'[y] = wait[y]
  BY <1>1 DEF Dri2TypeOK
<1> QED BY <1>2 DEF Live, NamesDrawable

LEMMA AllocNames ==
  ASSUME Dri2TypeOK, NEW w \in Waits, NEW c, NEW d \in Drawables, NEW func, NEW x,
         Alloc(w, c, d, func, x)
  PROVE  \A y \in Live' : NamesDrawable(y)
<1>1. /\ wait'[w].drawable_id = d /\ d # NoDrawable
      /\ \A y \in Waits \ {w} : wait'[y] = wait[y]
  BY NoneAssumption DEF Alloc, Dri2TypeOK
<1> QED BY <1>1 DEF Live, NamesDrawable

LEMMA OneInvNext ==
  ASSUME Dri2Inv, OneInv, [Dri2Next]_dri2SysVars PROVE OneInv'
<1> DEFINE Goal == drawables' \subseteq drawables /\ \A w \in Live' : NamesDrawable(w)
<1>1. Goal => OneInv'
  BY DEF OneInv, NamesDrawable, Dri2Inv, Dri2TypeOK
<1>2. UNCHANGED <<wait, drawables>> => Goal
  BY DEF Live, NamesDrawable
<1>3. ASSUME NEW d \in Drawables \union {NoDrawable}, Restack(d) PROVE Goal
  BY <1>2, <1>3 DEF Restack
<1>4. ASSUME NEW d \in Drawables, CreateBuffer(d) \/ DropBuffers(d) PROVE Goal
  BY <1>2, <1>4 DEF CreateBuffer, DropBuffers
<1>5. ASSUME NEW d \in Drawables, DrawableGone(d) PROVE OneInv'
  <2>1. d \notin drawables'
    BY <1>5 DEF DrawableGone
  <2> QED BY <2>1 DEF OneInv
<1>6. ASSUME NEW c \in Clients, NEW d \in Drawables,
             ScheduleWaitMSC(c, d) \/ SwapNow(c, d) \/ ScheduleSwap(c, d)
      PROVE  Goal
  <2>1. \E w \in Waits : \E func, x : Alloc(w, c, d, func, x)
    BY <1>6 DEF ScheduleWaitMSC, SwapNow, ScheduleSwap
  <2>2. drawables' = drawables
    BY <1>6 DEF ScheduleWaitMSC, SwapNow, ScheduleSwap
  <2> QED BY <2>1, <2>2, AllocNames DEF Dri2Inv
<1>7. ASSUME NEW w \in Waits, VblankEvent(w) PROVE Goal
  BY <1>7, FreeNames DEF VblankEvent, Dri2Inv
<1>8. ASSUME NEW w \in Waits, VblankEventFlips(w) PROVE Goal
  <2>1. /\ wait' = [wait EXCEPT ![w].event_func = "etnaviv_dri2_flip_complete"]
        /\ w \in Live /\ drawables' = drawables
    BY <1>8 DEF VblankEventFlips, Dri2Inv, QueuedOK
  <2>2. wait[w] \in Wait /\ wait \in [Waits -> Wait \union {Freed}]
    BY <2>1 DEF Live, Dri2Inv, Dri2TypeOK
  <2>3. /\ wait'[w].drawable_id = wait[w].drawable_id
        /\ \A x \in Waits \ {w} : wait'[x] = wait[x]
    BY <2>1, <2>2 DEF Wait, Live
  <2> QED BY <2>1, <2>3 DEF Live, NamesDrawable
<1>9. ASSUME NEW e \in inflight, FlipEvent(e) PROVE Goal
  <2>1. CASE flip_count = 1
    <3>1. /\ EventGone(flip_event) \/ EventComplete(flip_event)
          /\ flip_event \in Waits /\ drawables' = drawables
      BY <1>9, <2>1 DEF FlipEvent, Dri2Inv, FlipKnown, Waits
    <3>2. PICK w \in Waits : w = flip_event
      BY <3>1
    <3> QED BY <3>1, <3>2, FreeNames DEF Dri2Inv
  <2>2. CASE flip_count # 1
    BY <1>2, <1>9, <2>2 DEF FlipEvent
  <2> QED BY <2>1, <2>2
<1>10. ASSUME NEW c \in Clients, ClientGone(c) PROVE Goal
  <2>1. /\ wait' = [w \in Waits |-> IF w \in reslist[c]
                      THEN [wait[w] EXCEPT !.client = NoClient] ELSE wait[w]]
        /\ reslist[c] \subseteq Live /\ drawables' = drawables
    BY <1>10 DEF ClientGone, Dri2Inv, ListsOK
  <2>2. ASSUME NEW w \in Live' PROVE NamesDrawable(w)
    <3>1. w \in Live
      BY <2>1 DEF Live
    <3>2. wait[w] \in Wait
      BY <3>1 DEF Live, Dri2Inv, Dri2TypeOK
    <3>3. wait'[w].drawable_id = wait[w].drawable_id
      BY <2>1, <3>1, <3>2 DEF Live, Wait
    <3> QED BY <3>1, <3>3 DEF NamesDrawable
  <2> QED BY <2>1, <2>2
<1>11. UNCHANGED dri2Vars => Goal
  BY <1>2 DEF dri2Vars
<1>12. CASE ResizeScreen
  BY <1>1, <1>2, <1>12 DEF ResizeScreen
<1>13. CASE UNCHANGED dri2SysVars
  BY <1>1, <1>11, <1>13 DEF dri2SysVars
<1> HIDE DEF Goal
<1> QED
  BY <1>1, <1>3, <1>4, <1>5, <1>6, <1>7, <1>8, <1>9, <1>10, <1>11, <1>12, <1>13
  DEF Dri2Next

(* DRI2 calls common_drm_flip as PageFlip's callers do: its steps, seen    *)
(* from there, are those of PageFlip.                                      *)
THEOREM Dri2CallsFlip == Dri2Spec /\ FlipsAlone => PageFlipSpec
<1>1. Dri2Init => AloneInv /\ \E b \in Bos : PageFlipInit(b)
  BY AloneInit, IdsAssumption DEF Pick
<1>2. AloneInv /\ FlipsWait /\ [Dri2Next]_dri2SysVars => AloneInv' /\ [PageFlipNext]_flipVars
  BY AloneNext
<1>3. AloneInv /\ UNCHANGED dri2SysVars => AloneInv' /\ [PageFlipNext]_flipVars
  <2>1. SUFFICES ASSUME AloneInv, UNCHANGED dri2SysVars
                 PROVE  AloneInv' /\ [PageFlipNext]_flipVars
    OBVIOUS
  <2>2. FlipsWait
    BY <2>1 DEF dri2SysVars, flipVars, driver, FlipsWait
  <2> QED BY <2>1, <2>2, AloneNext
<1>4. Dri2Spec /\ FlipsAlone => [][PageFlipNext]_flipVars
  BY <1>1, <1>2, <1>3, PTL DEF Dri2Spec, FlipsAlone
<1>5. Dri2Spec => \E b \in Bos : PageFlipInit(b)
  BY <1>1, PTL DEF Dri2Spec
<1> QED BY <1>4, <1>5, PTL DEF PageFlipSpec

LEMMA AloneInvariant == Dri2Spec /\ FlipsAlone => []AloneInv
<1>1. Dri2Init => AloneInv
  BY AloneInit
<1>2. AloneInv /\ FlipsWait /\ [Dri2Next]_dri2SysVars => AloneInv'
  BY AloneNext
<1>3. AloneInv /\ UNCHANGED dri2SysVars => AloneInv'
  <2>1. SUFFICES ASSUME AloneInv, UNCHANGED dri2SysVars PROVE AloneInv'
    OBVIOUS
  <2>2. FlipsWait
    BY <2>1 DEF dri2SysVars, flipVars, driver, FlipsWait
  <2> QED BY <2>1, <2>2, AloneNext
<1> QED BY <1>1, <1>2, <1>3, PTL DEF Dri2Spec, FlipsAlone

(* No request is lost and no event reaches a wait that is freed, and the   *)
(* lists of clients and drawables are exact, while no flip is asked for    *)
(* before the last one is done (common_drm_flip_handler, common_dri2_event,*)
(* common_dri2_client_gone, common_dri2_drawable_gone).                    *)
THEOREM WaitsTrackedCorrect == Dri2Spec /\ FlipsAlone => []WaitsTracked
BY AloneInvariant, TrackedFollows, PTL

LEMMA OneStep ==
  ASSUME OneDrawable
  PROVE  AloneInv /\ OneInv /\ [Dri2Next]_dri2SysVars => (AloneInv /\ OneInv)' /\ FlipsWait
<1> SUFFICES ASSUME AloneInv, OneInv, [Dri2Next]_dri2SysVars
             PROVE  (AloneInv /\ OneInv)' /\ FlipsWait
  OBVIOUS
<1>1. FlipsWait
  BY OneAlone
<1>2. AloneInv'
  BY <1>1, AloneNext
<1>3. OneInv'
  BY OneInvNext DEF AloneInv
<1> QED BY <1>1, <1>2, <1>3

(* With one drawable no flip is asked for while another is due: its swap   *)
(* is pending until DRI2 has been told (etnaviv_dri2_ScheduleSwap).        *)
THEOREM OneDrawableAlone == ASSUME OneDrawable PROVE Dri2Spec => FlipsAlone
<1>1. Dri2Init => AloneInv /\ OneInv
  <2>1. Dri2Init => Live = {}
    BY DEF Dri2Init, Live
  <2> QED BY <2>1, AloneInit DEF OneInv
<1>2. AloneInv /\ OneInv /\ [Dri2Next]_dri2SysVars => (AloneInv /\ OneInv)' /\ FlipsWait
  BY OneStep
<1> QED BY <1>1, <1>2, PTL DEF Dri2Spec, FlipsAlone

(* Swaps turn no CRTC off either, if the kernel takes a page flip on all   *)
(* of the CRTCs or on none.                                                *)
THEOREM Dri2ScannedFbCorrect ==
  ASSUME PartialFailure = FALSE PROVE Dri2Spec /\ FlipsAlone => []ScannedFbExists
<1>1. Dri2Init => AloneInv /\ ShowsCurrent
  BY AloneInit
<1>2. AloneInv /\ ShowsCurrent /\ FlipsWait /\ [Dri2Next]_dri2SysVars
        => (AloneInv /\ ShowsCurrent)'
  <2> SUFFICES ASSUME AloneInv, ShowsCurrent, FlipsWait, [Dri2Next]_dri2SysVars
               PROVE  (AloneInv /\ ShowsCurrent)'
    OBVIOUS
  <2>1. AloneInv' /\ [PageFlipNext]_flipVars
    BY AloneNext
  <2>2. ShowsCurrent'
    BY <2>1, ShowsCurrentStep DEF AloneInv
  <2> QED BY <2>1, <2>2
<1>3. AloneInv /\ ShowsCurrent /\ UNCHANGED dri2SysVars => (AloneInv /\ ShowsCurrent)'
  <2>1. UNCHANGED dri2SysVars => FlipsWait /\ [Dri2Next]_dri2SysVars
    BY DEF dri2SysVars, flipVars, driver, FlipsWait
  <2> QED BY <1>2, <2>1
<1>4. AloneInv /\ ShowsCurrent => ScannedFbExists
  BY FbsAssumption DEF AloneInv, FlipInv, ShowsCurrent, ScannedFbExists, FbsExact
<1> QED BY <1>1, <1>2, <1>3, <1>4, PTL DEF Dri2Spec, FlipsAlone

=============================================================================
