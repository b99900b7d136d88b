-------------------------------- MODULE Dri2 --------------------------------
(***************************************************************************)
(* DRI2 waits and swaps (src/common_drm_dri2.c, etnadrm/etnaviv_dri2.c),   *)
(* composed with the page flips of PageFlip.                               *)
(*                                                                         *)
(* A wait is a client's request that is queued with the kernel: it refers  *)
(* to the client and the drawable, either of which may go away before the  *)
(* kernel's event comes, and it holds references on the two buffers.  The  *)
(* same struct is the event of a vblank and then, for a swap by page flip, *)
(* the event that common_drm_flip passes on.                               *)
(*                                                                         *)
(* The X server's DRI2 module (external) owns the buffers of a drawable,   *)
(* lets one swap of a drawable be pending and blocks the client of a       *)
(* WaitMSC.  All of the drawables are windows on the screen; at any time   *)
(* at most one covers it, and that one can flip (common_dri2_can_flip).    *)
(* A request that completes at once (no CRTC, no memory, the kernel        *)
(* refuses the event) leaves this state as it was and is no action here.   *)
(***************************************************************************)
EXTENDS PageFlip

CONSTANTS
  Clients, NoClient,
  Drawables, NoDrawable,
  Buffers, NoBuffer, \* addresses of struct common_dri2_buffer
  Screen,            \* the screen pixmap
  Freed              \* what memory that is free holds

VARIABLES
  clients,   \* the clients connected
  drawables, \* the drawables that exist
  top,       \* the drawable that covers the screen
  core,      \* DRI2's front and back buffer of every drawable
  pending,   \* DRI2's swaps pending of every drawable
  blocked,   \* the clients blocked by a WaitMSC, and on which drawable
  buf,       \* struct common_dri2_buffer
  bo,        \* the bo of the screen pixmap and of the back buffers' pixmaps
  refcnt,    \* references to the screen pixmap
  wait,      \* struct common_dri2_wait
  vblanks,   \* the waits queued for a vblank event
  reslist    \* the waits on the resource lists of clients and drawables

dri2Vars == <<clients, drawables, top, core, pending, blocked, buf, bo, refcnt,
              wait, vblanks, reslist>>
dri2SysVars == <<flipVars, dri2Vars>>

Waits   == Events
Pixmaps == {Screen} \union Buffers   \* a back buffer's pixmap has its name
NoBuffers == [front |-> NoBuffer, back |-> NoBuffer]
EventFuncs == {"common_dri2_waitmsc", "etnaviv_dri2_swap", "etnaviv_dri2_flip",
               "etnaviv_dri2_flip_complete"}

Buffer == [ref : Nat, pixmap : Pixmaps]
Wait   == [client : Clients \union {NoClient},
           drawable_id : Drawables \union {NoDrawable},
           event_func : EventFuncs,
           front : Buffers \union {NoBuffer}, back : Buffers \union {NoBuffer}]

ASSUME NoneAssumption ==
  /\ NoClient \notin Clients \union Drawables
  /\ NoDrawable \notin Clients \union Drawables
  /\ NoBuffer \notin Buffers /\ Screen \notin Buffers
  /\ Freed \notin Buffer \union Wait
ASSUME IdsAssumption == Clients \intersect Drawables = {} /\ Bos # {}
ASSUME FiniteAssumption ==
  IsFiniteSet(Drawables) /\ IsFiniteSet(Buffers) /\ IsFiniteSet(Events)

Dri2TypeOK ==
  /\ PageFlipTypeOK
  /\ clients \subseteq Clients /\ drawables \subseteq Drawables
  /\ top \in Drawables \union {NoDrawable}
  /\ core \in [Drawables -> [front : Buffers \union {NoBuffer},
                             back : Buffers \union {NoBuffer}]]
  /\ pending \in [Drawables -> 0 .. 1]
  /\ blocked \subseteq Clients \X Drawables
  /\ buf \in [Buffers -> Buffer \union {Freed}]
  /\ bo \in [Pixmaps -> Bos \union {NoBo}]
  /\ refcnt \in Nat
  /\ wait \in [Waits -> Wait \union {Freed}]
  /\ vblanks \subseteq Waits
  /\ reslist \in [Clients \union Drawables -> SUBSET Waits]

Dri2Init ==
  /\ clients = Clients
  /\ drawables = Drawables
  /\ top = NoDrawable
  /\ core = [d \in Drawables |-> NoBuffers]
  /\ pending = [d \in Drawables |-> 0]
  /\ blocked = {}
  /\ buf = [b \in Buffers |-> Freed]
  /\ PageFlipInit(Pick(Bos))
  /\ bo = [p \in Pixmaps |-> IF p = Screen THEN Pick(Bos) ELSE NoBo]
  /\ refcnt = 1
  /\ wait = [w \in Waits |-> Freed]
  /\ vblanks = {}
  /\ reslist = [x \in Clients \union Drawables |-> {}]

Live == {w \in Waits : wait[w] # Freed}
IsSwap(w) == wait[w].event_func # "common_dri2_waitmsc"

-----------------------------------------------------------------------------
(* Buffers.                                                                *)

(* The server's windows: one covers the screen, or none does.              *)
Restack(d) ==
  /\ top # d
  /\ top' = d
  /\ UNCHANGED <<flipVars, clients, drawables, core, pending, blocked, buf, bo,
                 refcnt, wait, vblanks, reslist>>

FreeBuffers == {x \in Buffers : buf[x] = Freed}
NewBos      == Bos \ ({bo[p] : p \in Pixmaps} \union {fbs[x] : x \in Fbs})

(* etnaviv_dri2_CreateBuffer for the front and for the back of a drawable. *)
CreateBuffer(d) ==
  /\ d \in drawables
  /\ core[d] = NoBuffers
  /\ Cardinality(FreeBuffers) > 1 /\ NewBos # {}
  /\ LET f == Pick(FreeBuffers)
         b == Pick(FreeBuffers \ {f})
     IN  /\ core' = [core EXCEPT ![d] = [front |-> f, back |-> b]]
         /\ buf' = [buf EXCEPT ![f] = [ref |-> 1, pixmap |-> Screen],
                               ![b] = [ref |-> 1, pixmap |-> b]]
         /\ bo' = [bo EXCEPT ![b] = Pick(NewBos)]
  /\ refcnt' = refcnt + 1
  /\ UNCHANGED <<flipVars, clients, drawables, top, pending, blocked, wait,
                 vblanks, reslist>>

(* common_dri2_DestroyBuffer, for buffers each of which loses n(b) of its  *)
(* references.                                                             *)
DestroyBuffers(lost) ==
  LET left(b) == buf[b].ref - lost[b]
      gone    == {b \in Buffers : buf[b] # Freed /\ left(b) = 0}
  IN  /\ buf' = [b \in Buffers |->
                   IF buf[b] = Freed \/ b \in gone THEN Freed
                   ELSE [buf[b] EXCEPT !.ref = left(b)]]
      /\ bo' = [p \in Pixmaps |->
                  IF p \in gone /\ buf[p].pixmap = p THEN NoBo ELSE bo[p]]
      /\ refcnt' = refcnt - Cardinality({b \in gone : buf[b].pixmap = Screen})

Both(x) == [b \in Buffers |-> IF b \in {x.front, x.back} THEN 1 ELSE 0]

(* DRI2 drops the buffers of a drawable that has another size.             *)
DropBuffers(d) ==
  /\ core[d] # NoBuffers
  /\ DestroyBuffers(Both(core[d]))
  /\ core' = [core EXCEPT ![d] = NoBuffers]
  /\ UNCHANGED <<flipVars, clients, drawables, top, pending, blocked, wait,
                 vblanks, reslist>>

-----------------------------------------------------------------------------
(* struct common_dri2_wait                                                 *)

(* common_dri2_wait_alloc and common_dri2_buffer_reference                 *)
Alloc(w, c, d, func, buffers) ==
  /\ wait[w] = Freed /\ w = Pick(Waits \ Live)
  /\ wait' = [wait EXCEPT ![w] =
                [client |-> c, drawable_id |-> d, event_func |-> func,
                 front |-> buffers.front, back |-> buffers.back]]
  /\ reslist' = [reslist EXCEPT ![c] = @ \union {w}, ![d] = @ \union {w}]

Reference(buffers) ==
  buf' = [b \in Buffers |-> IF b \in {buffers.front, buffers.back}
                              THEN [buf[b] EXCEPT !.ref = @ + 1] ELSE buf[b]]

(* Mutant: the reference on the back buffer is kept.                       *)
FreeFront(w) ==
  /\ DestroyBuffers([Both(wait[w]) EXCEPT ![wait[w].back] = 0])
  /\ wait' = [wait EXCEPT ![w] = Freed]
  /\ reslist' = [x \in Clients \union Drawables |-> reslist[x] \ {w}]

(* common_dri2_wait_free                                                   *)
Free(w) ==
  /\ DestroyBuffers(Both(wait[w]))
  /\ wait' = [wait EXCEPT ![w] = Freed]
  /\ reslist' = [x \in Clients \union Drawables |-> reslist[x] \ {w}]

-----------------------------------------------------------------------------
(* Requests.                                                               *)

MayAsk(c, d) == c \in clients /\ d \in drawables /\ \A x \in Drawables : <<c, x>> \notin blocked

(* common_dri2_ScheduleWaitMSC                                             *)
ScheduleWaitMSC(c, d) ==
  /\ MayAsk(c, d)
  /\ \E w \in Waits :
       /\ Alloc(w, c, d, "common_dri2_waitmsc", NoBuffers)
       /\ vblanks' = vblanks \union {w}
  /\ blocked' = blocked \union {<<c, d>>}
  /\ UNCHANGED <<flipVars, clients, drawables, top, core, pending, buf, bo, refcnt>>

CanFlip(d) == top = d

(* etnaviv_dri2_ScheduleFlip: with the flip the pixmaps change bos         *)
(* (common_dri2_flip_buffers, common_drm_flip_pixmap, and the private data *)
(* of etnaviv).                                                            *)
Swapped(b) == [bo EXCEPT ![Screen] = bo[b], ![b] = bo[Screen]]

(* Mutant: the pixmaps keep their bos.                                     *)
ScheduleFlipKeeps(w, b) ==
  /\ \E failed \in Failures : FlipTaken(bo[b], w, failed)
  /\ bo' = bo

ScheduleFlip(w, b) ==
  /\ \E failed \in Failures : FlipTaken(bo[b], w, failed)
  /\ bo' = Swapped(b)

(* etnaviv_dri2_ScheduleSwap: at once, as a page flip.                     *)
SwapNow(c, d) ==
  /\ MayAsk(c, d)
  /\ core[d] # NoBuffers
  /\ pending[d] = 0
  /\ CanFlip(d)
  /\ \E w \in Waits :
       /\ Alloc(w, c, d, "etnaviv_dri2_flip_complete", core[d])
       /\ ScheduleFlip(w, core[d].back)
  /\ Reference(core[d])
  /\ pending' = [pending EXCEPT ![d] = 1]
  /\ UNCHANGED <<clients, drawables, top, core, blocked, refcnt, vblanks>>

(* etnaviv_dri2_ScheduleSwap: with a vblank event.                         *)
ScheduleSwap(c, d) ==
  /\ MayAsk(c, d)
  /\ core[d] # NoBuffers
  /\ pending[d] = 0
  /\ \E w \in Waits :
       /\ Alloc(w, c, d, IF CanFlip(d) THEN "etnaviv_dri2_flip"
                         ELSE "etnaviv_dri2_swap", core[d])
       /\ vblanks' = vblanks \union {w}
  /\ Reference(core[d])
  /\ pending' = [pending EXCEPT ![d] = 1]
  /\ UNCHANGED <<flipVars, clients, drawables, top, core, blocked, bo, refcnt>>

-----------------------------------------------------------------------------
(* common_dri2_event                                                       *)

(* DRI2WaitMSCComplete, DRI2SwapComplete                                   *)
Complete(w) ==
  /\ blocked' = IF IsSwap(w) THEN blocked
                ELSE blocked \ {<<wait[w].client, wait[w].drawable_id>>}
  /\ pending' = [d \in Drawables |->
                   IF IsSwap(w) /\ d = wait[w].drawable_id THEN 0 ELSE pending[d]]

(* The drawable is gone: nothing is completed.                             *)
EventGone(w) ==
  /\ wait[w].drawable_id = NoDrawable
  /\ Free(w)
  /\ UNCHANGED <<pending, blocked>>

(* Mutant: only a client that is still connected is answered.              *)
EventCompleteClient(w) ==
  /\ wait[w].drawable_id # NoDrawable
  /\ IF wait[w].client = NoClient THEN UNCHANGED <<pending, blocked>> ELSE Complete(w)
  /\ Free(w)

(* common_dri2_waitmsc, etnaviv_dri2_swap, etnaviv_dri2_flip_complete      *)
EventComplete(w) ==
  /\ wait[w].drawable_id # NoDrawable
  /\ Complete(w)
  /\ Free(w)

(* The page flip of etnaviv_dri2_flip may always be refused (the kernel may *)
(* not add the framebuffer), and then leaves PageFlip's state as it was.   *)
VblankEvent(w) ==
  /\ w \in vblanks
  /\ vblanks' = vblanks \ {w}
  /\ EventGone(w) \/ EventComplete(w)
  /\ UNCHANGED <<flipVars, clients, drawables, top, core>>

(* etnaviv_dri2_flip, when the page flip is taken.                         *)
VblankEventFlips(w) ==
  /\ w \in vblanks
  /\ wait[w].event_func = "etnaviv_dri2_flip"
  /\ wait[w].drawable_id # NoDrawable
  /\ CanFlip(wait[w].drawable_id)
  /\ vblanks' = vblanks \ {w}
  /\ ScheduleFlip(w, wait[w].back)
  /\ wait' = [wait EXCEPT ![w].event_func = "etnaviv_dri2_flip_complete"]
  /\ UNCHANGED <<clients, drawables, top, core, pending, blocked, buf, refcnt,
                 reslist>>

(* common_drm_flip_handler: the last event of a flip passes the wait on.   *)
FlipEvent(e) ==
  /\ FlipHandler(e)
  /\ IF flip_count = 1
       THEN EventGone(flip_event) \/ EventComplete(flip_event)
       ELSE UNCHANGED <<pending, blocked, buf, bo, refcnt, wait, reslist>>
  /\ UNCHANGED <<clients, drawables, top, core, vblanks>>

-----------------------------------------------------------------------------
(* Clients and drawables go.                                               *)

(* Mutant: the waits still point to the client.                            *)
ClientGoneStays(c) ==
  /\ c \in clients
  /\ clients' = clients \ {c}
  /\ blocked' = {x \in blocked : x[1] # c}
  /\ reslist' = [reslist EXCEPT ![c] = {}]
  /\ UNCHANGED <<flipVars, drawables, top, core, pending, buf, bo, refcnt, wait,
                 vblanks>>

(* common_dri2_client_gone                                                 *)
ClientGone(c) ==
  /\ c \in clients
  /\ clients' = clients \ {c}
  /\ blocked' = {x \in blocked : x[1] # c}
  /\ wait' = [w \in Waits |-> IF w \in reslist[c]
                THEN [wait[w] EXCEPT !.client = NoClient] ELSE wait[w]]
  /\ reslist' = [reslist EXCEPT ![c] = {}]
  /\ UNCHANGED <<flipVars, drawables, top, core, pending, buf, bo, refcnt, vblanks>>

(* common_dri2_drawable_gone; DRI2 drops its buffers and the rest of its   *)
(* account of the drawable.                                                *)
DrawableGone(d) ==
  /\ d \in drawables
  /\ drawables' = drawables \ {d}
  /\ top' = IF top = d THEN NoDrawable ELSE top
  /\ DestroyBuffers(Both(core[d]))
  /\ core' = [core EXCEPT ![d] = NoBuffers]
  /\ pending' = [pending EXCEPT ![d] = 0]
  /\ blocked' = {x \in blocked : x[2] # d}
  /\ wait' = [w \in Waits |-> IF w \in reslist[d]
                THEN [wait[w] EXCEPT !.drawable_id = NoDrawable] ELSE wait[w]]
  /\ reslist' = [reslist EXCEPT ![d] = {}]
  /\ UNCHANGED <<flipVars, clients, vblanks>>

-----------------------------------------------------------------------------
(* The screen is resized: its pixmap has a new bo.                         *)
ResizeScreen ==
  /\ NewBos # {}
  /\ \E failed \in ResizeFailures : Resize(Pick(NewBos), failed)
  /\ bo' = [bo EXCEPT ![Screen] = Pick(NewBos)]
  /\ UNCHANGED <<clients, drawables, top, core, pending, blocked, buf, refcnt,
                 wait, vblanks, reslist>>

Dri2Next ==
  \/ \E d \in Drawables \union {NoDrawable} : Restack(d)
  \/ \E d \in Drawables : CreateBuffer(d) \/ DropBuffers(d) \/ DrawableGone(d)
  \/ \E c \in Clients, d \in Drawables :
       ScheduleWaitMSC(c, d) \/ SwapNow(c, d) \/ ScheduleSwap(c, d)
  \/ \E w \in Waits : VblankEvent(w) \/ VblankEventFlips(w)
  \/ \E e \in inflight : FlipEvent(e)
  \/ \E c \in Clients : ClientGone(c)
  \/ \E c \in Crtcs : (Vblank(c) \/ SetMode(c) \/ Disable(c)) /\ UNCHANGED dri2Vars
  \/ ResizeScreen

Dri2Spec == Dri2Init /\ [][Dri2Next]_dri2SysVars

(* The kernel sends the events it has queued, and the server reads them.   *)
Fairness ==
  /\ \A w \in Waits : WF_dri2SysVars(VblankEvent(w) \/ VblankEventFlips(w))
  /\ \A c \in Crtcs : WF_dri2SysVars(Vblank(c) /\ UNCHANGED dri2Vars)
  /\ \A e \in PageFlipEvent : WF_dri2SysVars(FlipEvent(e))

FairSpec == Dri2Spec /\ Fairness

-----------------------------------------------------------------------------
(* Properties.                                                             *)

(* A wait that is not freed is queued for a vblank, or is the event of the *)
(* pending page flip; a wait that is freed is neither: no request is lost, *)
(* and no event reaches freed memory.  A wait is on the lists of the       *)
(* client and of the drawable that it refers to, which are alive, and on   *)
(* no other: neither pointer dangles when the client or the drawable goes  *)
(* (common_dri2_client_gone, common_dri2_drawable_gone).                   *)
WaitsTracked ==
  /\ \A w \in Waits :
       LET flipping == flip_event = w /\ flip_count > 0
       IN  IF wait[w] = Freed THEN w \notin vblanks /\ ~flipping
           ELSE w \in vblanks <=> ~flipping
  /\ \A x \in Clients \union Drawables :
       reslist[x] = {w \in Live : x \in {wait[w].client, wait[w].drawable_id}}
  /\ \A w \in Live : /\ wait[w].client \in clients \union {NoClient}
                     /\ wait[w].drawable_id \in drawables \union {NoDrawable}

(* The references on a buffer are DRI2's and those of the waits, and the   *)
(* screen pixmap's are the front buffers' and the server's.                *)
BufferRefs ==
  /\ \A b \in Buffers :
       LET holders == {d \in Drawables : b \in {core[d].front, core[d].back}}
           waiting == {w \in Live : b \in {wait[w].front, wait[w].back}}
       IN  (IF buf[b] = Freed THEN 0 ELSE buf[b].ref)
             = Cardinality(holders) + Cardinality(waiting)
  /\ refcnt = 1 + Cardinality({b \in Buffers : buf[b] # Freed
                                                 /\ buf[b].pixmap = Screen})

(* The framebuffer that is current is made of the screen pixmap's bo.      *)
ShownIsFront == fbs[fb_id] = bo[Screen]

(* DRI2 is told exactly once of every swap: one is pending for a drawable  *)
(* as long as it has a wait.                                               *)
SwapsAnswered ==
  \A d \in drawables :
    pending[d] = Cardinality({w \in Live : IsSwap(w) /\ wait[w].drawable_id = d})

(* A blocked client is woken by the wait it has, and every request is      *)
(* answered in the end.                                                    *)
EveryWaitEnds ==
  /\ \A x \in Clients \X Drawables : x \in blocked ~> x \notin blocked
  /\ \A d \in Drawables : pending[d] = 1 ~> pending[d] = 0
  /\ \A w \in Waits : wait[w] # Freed ~> wait[w] = Freed

=============================================================================
