-------------------------------- MODULE Msc ---------------------------------
(***************************************************************************)
(* Media stream counters: the frame number a DRI2 client sees for its      *)
(* drawable (src/common_drm.c), and the frame numbers its requests to wait *)
(* or to swap are queued for (src/common_drm_dri2.c, etnaviv_dri2.c).      *)
(*                                                                         *)
(* Every CRTC counts its own frames.  A drawable that moves from one CRTC  *)
(* to another keeps a count of its own, by way of the difference to its    *)
(* CRTC's count (delta_msc), which lives in the private data of the pixmap *)
(* the drawable is drawn to.                                               *)
(*                                                                         *)
(* One drawable, whose pixmap is the front, and the pixmap of its back     *)
(* buffer.  Frame numbers are integers: neither the 32-bit counter of the  *)
(* kernel nor the 64-bit MSC wraps here.                                   *)
(***************************************************************************)
EXTENDS Integers, FiniteSets

CONSTANTS
  Crtcs,       \* xf86CrtcPtr
  NoCrtc,      \* NULL
  FrameRequests, \* the target_msc, divisor and remainder of requests
  MaxFrame     \* bound on the frame numbers

ASSUME NoCrtcAssumption == NoCrtc \notin Crtcs
ASSUME RequestsAssumption ==
  FrameRequests \subseteq [target : Nat, divisor : Nat, remainder : Nat]
ASSUME RemainderAssumption ==
  \A r \in FrameRequests : r.divisor > 0 => r.remainder < r.divisor
ASSUME MaxFrameAssumption == MaxFrame \in Nat

VARIABLES
  frame,     \* the kernel's frame number of every CRTC
  swap_msc,  \* drmc->swap_msc: the last one the server has seen
  pix,       \* struct common_pixmap of the front and the back pixmap
  covering,  \* the CRTC that covers the drawable
  waits,     \* struct common_dri2_wait queued with the kernel
  asked,     \* history: the queued request and what it was queued for
  set_back   \* history: a late completion has set a swap_msc back

mscVars == <<frame, swap_msc, pix, covering, waits, asked, set_back>>

Kinds == {"DRI2_WAITMSC", "DRI2_SWAP", "DRI2_FLIP"}
CommonPixmap == [bo : {"front", "back"}, crtc : Crtcs \union {NoCrtc},
                 last_msc : Int, delta_msc : Int]
Wait  == [crtc : Crtcs, seq : Nat, frame : Int, kind : Kinds]
Asked == [kind : Kinds, cur : Int, request : FrameRequests, at : Int, late : 0 .. 1]
NothingAsked == [kind |-> "none"]

MscTypeOK ==
  /\ frame \in [Crtcs -> Nat]
  /\ swap_msc \in [Crtcs -> Nat]
  /\ pix \in [{"front", "back"} -> CommonPixmap]
  /\ covering \in Crtcs \union {NoCrtc}
  /\ waits \subseteq Wait
  /\ asked \in Asked \union {NothingAsked}
  /\ set_back \in BOOLEAN

MscInit ==
  /\ frame \in [Crtcs -> 0 .. MaxFrame - 2]
  /\ swap_msc = [c \in Crtcs |-> 0]
  /\ pix = [p \in {"front", "back"} |->
              [bo |-> p, crtc |-> NoCrtc, last_msc |-> 0, delta_msc |-> 0]]
  /\ covering \in Crtcs
  /\ waits = {}
  /\ asked = NothingAsked
  /\ set_back = FALSE

Vblank(c) ==
  /\ frame[c] < MaxFrame
  /\ frame' = [frame EXCEPT ![c] = @ + 1]
  /\ UNCHANGED <<swap_msc, pix, covering, waits, asked, set_back>>

(* The drawable, or a CRTC, is moved: common_drm_drawable_covering_crtc    *)
(* finds another CRTC, or none.  (A bound: not after a number was set      *)
(* back, which lets deltas grow with every move.)                          *)
Move(c) ==
  /\ covering # c
  /\ ~set_back
  /\ covering' = c
  /\ UNCHANGED <<frame, swap_msc, pix, waits, asked, set_back>>

-----------------------------------------------------------------------------
(* common_drm_get_drawable_msc                                             *)



(* common_drm_get_msc: the kernel's number, or the last one seen.          *)
Read(c, ok) == IF c \in ok THEN frame[c] ELSE swap_msc[c]

(* Mutant: the drawable takes over the count of its new CRTC.              *)
DrawableMscOfCrtc(d, c, ok) ==
  LET last == IF d.crtc = NoCrtc THEN d.last_msc
              ELSE Read(d.crtc, ok) + d.delta_msc
  IN  [d EXCEPT !.crtc = c, !.last_msc = last]

DrawableMsc(d, c, ok) ==
  LET last == IF d.crtc = NoCrtc THEN d.last_msc
              ELSE Read(d.crtc, ok) + d.delta_msc
  IN  [d EXCEPT !.crtc      = c,
                !.last_msc  = last,
                !.delta_msc = IF c \in {d.crtc, NoCrtc} THEN @
                              ELSE last - Read(c, ok)]

SeenIn(d, c) == {d.crtc, c} \intersect Crtcs

(* The CRTCs whose frame number the kernel answers for in this call.       *)
Answers == SUBSET SeenIn(pix["front"], covering)

GetDrawableMsc(c, ok) ==
  /\ pix' = [pix EXCEPT !["front"] = DrawableMsc(@, c, ok)]
  /\ swap_msc' = [x \in Crtcs |-> IF x \in SeenIn(pix["front"], c)
                                  THEN Read(x, ok) ELSE swap_msc[x]]

(* common_dri2_GetMSC                                                      *)
GetMSC ==
  \E ok \in Answers :
    /\ GetDrawableMsc(covering, ok)
    /\ UNCHANGED <<frame, covering, waits, asked, set_back>>

-----------------------------------------------------------------------------
(* Queueing an event.                                                      *)

(* The sequence number DRM_IOCTL_WAIT_VBLANK replies with: an event for a  *)
(* frame that has passed is sent at once, or for the next one.             *)
Reply(seq, now, nextonmiss) ==
  IF seq > now THEN seq ELSE IF nextonmiss THEN now + 1 ELSE now

Later(a, b) == IF a > b THEN a ELSE b

(* The bits that both numbers have, C's &.                                 *)
BitAnd[a \in Nat, b \in Nat] ==
  IF a = 0 \/ b = 0 THEN 0 ELSE 2 * BitAnd[a \div 2, b \div 2] + (a % 2) * (b % 2)

(* common_dri2_ScheduleWaitMSC: the frame to wait for.                     *)
WaitTarget(cur, r) ==
  IF r.divisor = 0 \/ cur < r.target THEN Later(cur, r.target)
  ELSE cur - (cur % r.divisor) + r.remainder
         + (IF BitAnd[cur, r.divisor] >= r.remainder THEN r.divisor ELSE 0)

(* etnaviv_dri2_ScheduleSwap: a flip is submitted one frame before.        *)
FlipTarget(r, flip) ==
  IF flip /\ r.target > 0 THEN r.target - 1 ELSE r.target

(* Mutant: the frame that is just being shown will do.                     *)
SwapTargetNow(cur, r, flip) ==
  LET target == FlipTarget(r, flip)
      onset  == cur - (cur % r.divisor) + r.remainder
  IN  IF r.divisor = 0 \/ cur < target THEN Later(cur, target)
      ELSE (IF onset < cur THEN onset + r.divisor ELSE onset)
             - (IF flip THEN 1 ELSE 0)

SwapTarget(cur, r, flip) ==
  LET target == FlipTarget(r, flip)
      onset  == cur - (cur % r.divisor) + r.remainder
  IN  IF r.divisor = 0 \/ cur < target THEN Later(cur, target)
      ELSE (IF onset <= cur THEN onset + r.divisor ELSE onset)
             - (IF flip THEN 1 ELSE 0)

(* The frame of its CRTC for an MSC of the drawable.                       *)

(* Mutant: the drawable's count is taken for its CRTC's.                   *)
ToFrameRaw(msc, d) == msc

ToFrame(msc, d) == msc - d.delta_msc

(* common_drm_queue_drawable_msc_event, when late frames have passed since *)
(* the current one was read; a request that was read from a CRTC the       *)
(* kernel did not answer for is late too.                                  *)
Queue(kind, msc, late, r, cur, ok) ==
  LET d     == pix'["front"]
      now   == frame[covering] + late
      reply == Reply(ToFrame(msc, d), now, kind = "DRI2_SWAP")
      at    == reply + d.delta_msc + (IF kind = "DRI2_FLIP" THEN 1 ELSE 0)
  IN  /\ now <= MaxFrame
      /\ frame' = [frame EXCEPT ![covering] = now]
      /\ waits' = waits \union
                    {[crtc |-> covering, seq |-> reply, frame |-> at, kind |-> kind]}
      /\ asked' = [kind |-> kind, cur |-> cur, request |-> r, at |-> at,
                   late |-> IF covering \in ok THEN late ELSE 1]

(* The kernel refuses it: the wait is freed again.                         *)
NotQueued == UNCHANGED <<frame, waits, asked>>

ScheduleWaitMSC(r) ==
  /\ covering # NoCrtc
  /\ waits = {}
  /\ \E ok \in Answers, late \in 0 .. 1 :
       /\ GetDrawableMsc(covering, ok)
       /\ LET cur == pix'["front"].last_msc
          IN  \/ Queue("DRI2_WAITMSC", WaitTarget(cur, r), late, r, cur, ok)
              \/ NotQueued
  /\ UNCHANGED <<covering, set_back>>

ScheduleSwap(r, flip) ==
  /\ covering # NoCrtc
  /\ waits = {}
  /\ \E ok \in Answers, late \in 0 .. 1 :
       /\ GetDrawableMsc(covering, ok)
       /\ LET cur == pix'["front"].last_msc
          IN  \/ Queue(IF flip THEN "DRI2_FLIP" ELSE "DRI2_SWAP",
                       SwapTarget(cur, r, flip), late, r, cur, ok)
              \/ NotQueued
  /\ UNCHANGED <<covering, set_back>>

(* common_drm_flip_pixmap swaps all of the pixmaps' private data.          *)
FlipPixmap(px) == [p \in {"front", "back"} |->
                     px[IF p = "front" THEN "back" ELSE "front"]]

(* etnaviv_dri2_ScheduleSwap at once: the target has passed.               *)
FlipNow(r) ==
  /\ covering # NoCrtc
  /\ waits = {}
  /\ \E ok \in Answers :
       LET d == DrawableMsc(pix["front"], covering, ok)
       IN  /\ r.divisor = 0
           /\ d.last_msc >= FlipTarget(r, TRUE)
           /\ pix' = FlipPixmap([pix EXCEPT !["front"] = d])
           /\ swap_msc' = [x \in Crtcs |->
                             IF x \in SeenIn(pix["front"], covering)
                             THEN Read(x, ok) ELSE swap_msc[x]]
  /\ UNCHANGED <<frame, covering, waits, asked, set_back>>

(* common_drm_event, common_dri2_event: the client is woken, its buffers   *)
(* are exchanged, or (etnaviv_dri2_flip) a page flip is queued.            *)
Event(w) ==
  /\ frame[w.crtc] >= w.seq
  /\ waits' = waits \ {w}
  /\ swap_msc' = [swap_msc EXCEPT ![w.crtc] = w.seq]
  /\ set_back' = (set_back \/ w.seq < swap_msc[w.crtc])
  /\ pix' \in {pix} \union (IF w.kind = "DRI2_FLIP" THEN {FlipPixmap(pix)} ELSE {})
  /\ asked' = NothingAsked
  /\ UNCHANGED <<frame, covering>>

MscNext ==
  \/ \E c \in Crtcs : Vblank(c)
  \/ \E c \in Crtcs \union {NoCrtc} : Move(c)
  \/ GetMSC
  \/ \E r \in FrameRequests : ScheduleWaitMSC(r) \/ FlipNow(r)
  \/ \E r \in FrameRequests, flip \in BOOLEAN : ScheduleSwap(r, flip)
  \/ \E w \in waits : Event(w)

MscSpec == MscInit /\ [][MscNext]_mscVars

-----------------------------------------------------------------------------
(* Properties.                                                             *)

(* The MSC a client is told (last_msc of the front) never goes back,       *)
(* whichever CRTCs the drawable moves between, however their own counts    *)
(* differ and whether or not the kernel answers                            *)
(* (common_drm_get_drawable_msc).  A page flip takes the account along     *)
(* with the bo, so it is the account of a bo that counts; and a completion *)
(* older than the last read sets the CRTC's last known number back.        *)
MscNeverBack ==
  [][~set_back =>
       \A p, q \in DOMAIN pix :
         pix'[q].bo = pix[p].bo => pix'[q].last_msc >= pix[p].last_msc]_pix

(* A client that waits for a frame sleeps until that frame and never       *)
(* through it: "we just need to make sure target_msc passes before waking  *)
(* up the client" (common_dri2_ScheduleWaitMSC); with a divisor and the    *)
(* frame past, it is woken before two periods are over (not one: the code  *)
(* tests "cur_msc & divisor" where it means "%").                          *)
WaitForTarget ==
  asked.kind = "DRI2_WAITMSC" =>
    /\ asked.request.divisor = 0 \/ asked.cur < asked.request.target
         => /\ asked.at >= asked.request.target
            /\ asked.at >= asked.cur
            /\ asked.late = 0 => asked.at <= Later(asked.cur, asked.request.target)
    /\ asked.request.divisor > 0 /\ asked.late = 0
         /\ asked.cur >= asked.request.target
         => asked.at < asked.cur + 2 * asked.request.divisor

(* A swap is shown after the current frame; one that has a divisor is      *)
(* shown at the first frame that satisfies the equation, the delay of a    *)
(* flip taken into account, unless a frame passed in between               *)
(* (etnaviv_dri2_ScheduleSwap).                                            *)
SwapForRemainder ==
  /\ asked.kind \in {"DRI2_SWAP", "DRI2_FLIP"} => asked.at > asked.cur
  /\ asked.kind \in {"DRI2_SWAP", "DRI2_FLIP"} /\ asked.request.divisor > 0
       /\ asked.cur >= asked.request.target /\ asked.late = 0
         => /\ asked.at % asked.request.divisor = asked.request.remainder
            /\ asked.at <= asked.cur + asked.request.divisor

=============================================================================
