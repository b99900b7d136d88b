---------------------------- MODULE EtnavivAccel ----------------------------
(***************************************************************************)
(* The X server's side of the Vivante GPU: who may touch a pixmap's memory *)
(* and when, and when that memory may be given back.                       *)
(*                                                                         *)
(* The server is one thread.  It maps pixmaps to the GPU (etnaviv_map_gpu),*)
(* links them into the batch (etnaviv_batch_start), writes commands into a *)
(* stream, submits the stream (etnaviv_commit, or a full command buffer),  *)
(* and waits for a fence only when the CPU needs a pixmap                  *)
(* (prepare_cpu_drawable).  The GPU is the other actor: it completes the   *)
(* submitted jobs in order at its own pace (GpuStep).                      *)
(*                                                                         *)
(* vPix->bo is never assigned in this driver (etnaviv_alloc_armada_bo only *)
(* returns FALSE), so a pixmap always has an etna_bo, and the branches of  *)
(* map and prepare for a KMS shared-memory bo are dead.                    *)
(***************************************************************************)
EXTENDS EtnavivFence, FiniteSets

CONSTANTS
  Pixmaps,    \* struct etnaviv_pixmap
  Nodes,      \* struct etnaviv_usermem_node: memory lent to one GPU copy
  NoPixmap,   \* the source of an operation that has none
  Faults,     \* which kernel calls may fail: a subset of {"submit", "wait"}
  MaxFence    \* bound: new GPU work is drawn only below this many submissions

ASSUME FencesAssumption == Fences = Pixmaps \union Nodes
ASSUME DisjointAssumption == Pixmaps \intersect Nodes = {}
ASSUME NoPixmapAssumption == NoPixmap \notin Fences
ASSUME FaultsAssumption == Faults \subseteq {"submit", "wait"}
ASSUME MaxFenceAssumption == MaxFence \in Nat

VARIABLES
  fh,          \* etnaviv->fence_head and the fences linked into it
  last_fence,  \* etnaviv->last_fence
  refcnt,      \* vPix->refcnt
  attached,    \* the vPixes that are the private data of an X pixmap
  dmabuf,      \* the vPixes with ST_DMABUF
  state,       \* the other bits of vPix->state
  cpu,         \* CPU accesses between prepare and finish; counts in_use
  up,          \* the screen is open
  stream,      \* GPU accesses in the command stream that is being built
  jobs,        \* GPU accesses submitted and not complete, with their fence
  submitted,   \* the fence of the last job the kernel took
  completed    \* the fence of the last job the GPU completed

pixvars == <<refcnt, attached, dmabuf, state>>
gpuvars == <<stream, jobs, submitted, completed>>
vars == <<fh, last_fence, refcnt, attached, dmabuf, state, cpu, up,
          stream, jobs, submitted, completed>>

CPU_RW == {"CPU_R", "CPU_W"}
GPU_RW == {"GPU_R", "GPU_W"}
Access == {"RO", "RW"}
GpuOp  == [obj : Fences, write : BOOLEAN]
Job    == [obj : Fences, write : BOOLEAN, fence : Nat]

TypeOK ==
  /\ fh \in FenceHead
  /\ last_fence \in Nat
  /\ refcnt \in [Pixmaps -> Nat]
  /\ attached \in SUBSET Pixmaps
  /\ dmabuf \in SUBSET Pixmaps
  /\ state \in [Pixmaps -> SUBSET (CPU_RW \union GPU_RW)]
  /\ cpu \in SUBSET (Pixmaps \X Access)
  /\ up \in BOOLEAN
  /\ stream \in SUBSET GpuOp
  /\ jobs \in SUBSET Job
  /\ submitted \in Nat
  /\ completed \in 0 .. submitted

Init ==
  /\ fh = FenceHeadInit
  /\ last_fence = 0
  /\ refcnt = [p \in Pixmaps |-> 0]
  /\ attached = {}
  /\ dmabuf = {}
  /\ state = [p \in Pixmaps |-> {}]
  /\ cpu = {}
  /\ up = TRUE
  /\ stream = {}
  /\ jobs = {}
  /\ submitted = 0
  /\ completed = 0

-----------------------------------------------------------------------------
(* The kernel and the GPU: submitting the stream and waiting for a fence.  *)

Larger(a, b) == IF a > b THEN a ELSE b

Submitted(ops) ==
  jobs \union {[obj |-> o.obj, write |-> o.write, fence |-> submitted + 1] : o \in ops}

StillRunning(js, done) == {j \in js : j.fence > done}

GpuStep ==
  /\ completed < submitted
  /\ completed' = completed + 1
  /\ jobs' = StillRunning(jobs, completed + 1)
  /\ UNCHANGED <<fh, last_fence, pixvars, cpu, up, stream, submitted>>

(* DRM_ETNAVIV_GEM_SUBMIT succeeds: the stream is a job, a new one begins. *)
FlushStream ==
  /\ stream' = {}
  /\ submitted' = submitted + 1
  /\ jobs' = Submitted(stream)
  /\ UNCHANGED completed

(* etna_flush fails: the commands stay in the stream for the next flush.   *)
FlushFails == "submit" \in Faults /\ UNCHANGED gpuvars

(* Submit, then wait for that very fence.                                  *)
FlushAndWait ==
  /\ stream' = {}
  /\ submitted' = submitted + 1
  /\ \/ /\ completed' = submitted + 1
        /\ jobs' = {}
     \/ /\ "wait" \in Faults
        /\ jobs' = Submitted(stream)
        /\ UNCHANGED completed

(* viv_fence_finish(id) for a job submitted earlier.                       *)
FenceFinish(id) ==
  /\ UNCHANGED <<stream, submitted>>
  /\ \/ /\ completed' = Larger(completed, id)
        /\ jobs' = StillRunning(jobs, Larger(completed, id))
     \/ /\ "wait" \in Faults
        /\ UNCHANGED <<completed, jobs>>

(* The polls of etnaviv_finish_fences see the GPU's progress; with a       *)
(* failing wait they may give up before it.                                *)
PollResult(done) == IF "wait" \in Faults THEN 0 .. done ELSE {done}

-----------------------------------------------------------------------------
(* Retiring: the fence's callback drops the reference the batch held       *)
(* (etnaviv_retire_vpix_fence), or frees the usermem node.                 *)

Retired == {f \in Fences : fh.state[f] # "B_NONE" /\ fh'.state[f] = "B_NONE"}

RetireCallbacks ==
  refcnt' = [p \in Pixmaps |-> IF p \in Retired THEN refcnt[p] - 1 ELSE refcnt[p]]

(* etnaviv_finish_fences: retire up to fence, then up to every further     *)
(* fence a non-blocking poll finds complete.                               *)

(* Mutant: every polled fence is taken as complete.                        *)
FinishFencesUnpolled(h, fence, done) ==
  /\ fh' = RetireId(h, Larger(fence, submitted))
  /\ last_fence' = RetireLast(h, fence, Larger(fence, submitted))
  /\ RetireCallbacks

(* Mutant: the wait's own fence is recorded, not the last one polled.      *)
FinishFencesForgetsLast(h, fence, done) ==
  /\ \E seen \in PollResult(done) :
       /\ fh' = RetireId(h, Larger(fence, seen))
       /\ last_fence' = fence + 1
  /\ RetireCallbacks

FinishFences(h, fence, done) ==
  /\ \E seen \in PollResult(done) :
       /\ fh' = RetireId(h, Larger(fence, seen))
       /\ last_fence' = RetireLast(h, fence, Larger(fence, seen))
  /\ RetireCallbacks

(* etnaviv_commit(stall = TRUE)                                            *)
CommitStall ==
  \/ FlushFails /\ UNCHANGED <<fh, last_fence, refcnt>>
  \/ /\ FlushAndWait
     /\ fh' = RetireAll(fh)
     /\ RetireCallbacks
     /\ last_fence' = submitted + 1

(* etnaviv_commit(stall = FALSE)                                           *)
CommitNoStall ==
  \/ FlushFails /\ UNCHANGED <<fh, last_fence, refcnt>>
  \/ /\ FlushStream
     /\ fh' = FenceObjects(fh, submitted + 1)
     /\ UNCHANGED <<last_fence, refcnt>>

(* etnaviv_batch_wait_commit                                               *)
BatchWaitCommit(p) ==
  \/ /\ fh.state[p] = "B_NONE"
     /\ UNCHANGED <<fh, last_fence, refcnt, gpuvars>>
  \/ /\ fh.state[p] = "B_PENDING"
     /\ CommitStall
  \/ /\ fh.state[p] = "B_FENCED"
     /\ FenceFinish(fh.id[p])
     /\ FinishFences(fh, fh.id[p], completed')

-----------------------------------------------------------------------------
(* Pixmaps come and go.                                                    *)

Free(p) == refcnt[p] = 0

(* etnaviv_alloc_etna_bo, etnaviv_pixmap_from_dmabuf                       *)
CreatePixmap(p) ==
  /\ up
  /\ Free(p)
  /\ refcnt' = [refcnt EXCEPT ![p] = 1]
  /\ attached' = attached \union {p}
  /\ UNCHANGED <<fh, last_fence, dmabuf, state, cpu, up, gpuvars>>

InUse(p) == \E a \in Access : <<p, a>> \in cpu

(* The X pixmap lets go of its vPix, whose state nobody reads again: the   *)
(* bits are those of the next vPix that is allocated.                      *)
Detach(p) ==
  /\ attached' = attached \ {p}
  /\ dmabuf' = dmabuf \ {p}
  /\ state' = [state EXCEPT ![p] = {}]

(* etnaviv_free_pixmap: the batch keeps its own reference.                 *)

(* Mutant: the destroyed pixmap's memory goes with the X pixmap.           *)
DestroyPixmapNow(p) ==
  /\ up
  /\ p \in attached
  /\ ~InUse(p)
  /\ Detach(p)
  /\ refcnt' = [refcnt EXCEPT ![p] = 0]
  /\ UNCHANGED <<fh, last_fence, cpu, up, gpuvars>>

DestroyPixmap(p) ==
  /\ up
  /\ p \in attached
  /\ ~InUse(p)
  /\ Detach(p)
  /\ refcnt' = [refcnt EXCEPT ![p] = @ - 1]
  /\ UNCHANGED <<fh, last_fence, cpu, up, gpuvars>>

(* etnaviv_import_dmabuf: the vPix of the X pixmap, if it has one, is put, *)
(* and a new one is attached.  (If that fails the old one is gone: the     *)
(* step is DestroyPixmap.)                                                 *)
ImportDmabuf(p, q) ==
  /\ up
  /\ p \in attached \union {NoPixmap}
  /\ p # NoPixmap => ~InUse(p)
  /\ Free(q)
  /\ attached' = (attached \ {p}) \union {q}
  /\ refcnt' = [r \in Pixmaps |-> IF r = q THEN 1
                                  ELSE IF r = p THEN refcnt[r] - 1 ELSE refcnt[r]]
  /\ dmabuf' = (dmabuf \ {p}) \union {q}
  /\ state' = [r \in Pixmaps |-> IF r = p THEN {} ELSE state[r]]
  /\ UNCHANGED <<fh, last_fence, cpu, up, gpuvars>>

-----------------------------------------------------------------------------
(* Drawing with the GPU.                                                   *)

(* etnaviv_map_gpu on the bits of vPix->state.                             *)

MapGpuState(bits, isDmabuf, access) ==
  LET want == IF access = "RO" THEN {"GPU_R"} ELSE GPU_RW
      mask == IF access = "RO" THEN {"CPU_W", "GPU_R"} ELSE CPU_RW \union GPU_RW
  IN  IF bits \intersect mask = want THEN bits
      ELSE IF isDmabuf THEN (bits \ mask) \union want
      ELSE (bits \ CPU_RW) \union want

(* The destination is mapped before the source, which may be the same.     *)
MapDst(dst) ==
  [state EXCEPT ![dst] = MapGpuState(@, dst \in dmabuf, "RW")]

MapDstSrc(dst, src) ==
  IF src = NoPixmap THEN MapDst(dst)
  ELSE [MapDst(dst) EXCEPT ![src] = MapGpuState(@, src \in dmabuf, "RO")]

(* etnaviv_batch_add of every pixmap in S: the batch takes a reference to  *)
(* a pixmap that was idle.                                                 *)

(* Mutant: the batch takes a reference each time.                          *)
BatchRefAlways(S) ==
  refcnt' = [p \in Pixmaps |-> IF p \in S THEN refcnt[p] + 1 ELSE refcnt[p]]

BatchRef(S) ==
  refcnt' = [p \in Pixmaps |-> IF p \in S /\ fh.state[p] = "B_NONE"
                               THEN refcnt[p] + 1 ELSE refcnt[p]]

(* etnaviv_emit: etna_reserve may submit the stream when the command       *)
(* buffer is full, before the operation's commands or, when the operation  *)
(* is emitted in several pieces, between them.  Nobody fences the batch    *)
(* for that submission.  (A failure of that flush ends the server by       *)
(* assertion and is not a step.)                                           *)
Emit(ops) ==
  \/ /\ stream' = stream \union ops
     /\ UNCHANGED <<jobs, submitted, completed>>
  \/ /\ submitted < MaxFence
     /\ submitted' = submitted + 1
     /\ jobs' \in {Submitted(stream), Submitted(stream \union ops)}
     /\ stream' = ops
     /\ UNCHANGED completed

DrawOps(dst, src) ==
  {[obj |-> dst, write |-> TRUE]}
    \union (IF src = NoPixmap THEN {} ELSE {[obj |-> src, write |-> FALSE]})

(* init_dst/init_src, etnaviv_batch_start, etnaviv_de_op, etnaviv_de_end   *)
Draw(dst, src) ==
  /\ up
  /\ submitted < MaxFence
  /\ dst \in attached
  /\ src \in attached \union {NoPixmap}
  /\ ~InUse(dst)
  /\ src # NoPixmap => ~InUse(src)
  /\ state' = MapDstSrc(dst, src)
  /\ fh' = IF src = NoPixmap THEN FenceAdd(fh, dst)
           ELSE FenceAdd(FenceAdd(fh, src), dst)
  /\ BatchRef({dst, src})
  /\ Emit(DrawOps(dst, src))
  /\ UNCHANGED <<last_fence, attached, dmabuf, cpu, up>>

(* FillSpans, PolyPoint, PolyLines, PolySegment and solid rectangles       *)
Fill(dst) == Draw(dst, NoPixmap)

(* CopyNtoN, tiled rectangles and the blend of a picture.  PutImage,       *)
(* GetImage and Composite go through a temporary pixmap: they are steps of *)
(* their own that create it, draw to it, copy from it and destroy it.      *)
Copy(dst, src) == Draw(dst, src)

(* The source is under CPU access: etnaviv_map_gpu refuses it, after the   *)
(* destination was mapped, and the caller falls back to software.          *)
DrawRefused(dst, src) ==
  /\ up
  /\ dst \in attached
  /\ src \in attached
  /\ ~InUse(dst)
  /\ InUse(src)
  /\ state' = MapDst(dst)
  /\ UNCHANGED <<fh, last_fence, refcnt, attached, dmabuf, cpu, up, gpuvars>>

(* etnaviv_accel_glyph_upload from plain memory: the memory is copied, lent *)
(* to the GPU, and freed when the fence of its node retires.               *)
GlyphUpload(dst, node) ==
  /\ up
  /\ submitted < MaxFence
  /\ dst \in attached
  /\ fh.state[node] = "B_NONE"
  /\ \/ /\ ~InUse(dst)
        /\ state' = MapDst(dst)
        /\ fh' = FenceAdd(FenceAdd(fh, node), dst)
        /\ BatchRef({dst})
        /\ Emit({[obj |-> dst, write |-> TRUE], [obj |-> node, write |-> FALSE]})
     \/ /\ InUse(dst)
        /\ fh' = FenceAdd(fh, node)
        /\ UNCHANGED <<refcnt, state, gpuvars>>
  /\ UNCHANGED <<last_fence, attached, dmabuf, cpu, up>>

(* etnaviv_xv PutImage: the pixmap is mapped but never linked into the     *)
(* batch; the handler waits for the GPU instead, and ignores a failure.    *)

XvPutImage(p) ==
  /\ up
  /\ submitted < MaxFence
  /\ p \in attached
  /\ ~InUse(p)
  /\ state' = MapDst(p)
  /\ LET ops == stream \union {[obj |-> p, write |-> TRUE]}
     IN  \/ /\ stream' = {}
            /\ submitted' = submitted + 1
            /\ completed' = submitted + 1
            /\ jobs' = {}
         \/ /\ "wait" \in Faults
            /\ stream' = {}
            /\ submitted' = submitted + 1
            /\ jobs' = Submitted(ops)
            /\ UNCHANGED completed
         \/ /\ "submit" \in Faults
            /\ stream' = ops
            /\ UNCHANGED <<jobs, submitted, completed>>
  /\ UNCHANGED <<fh, last_fence, refcnt, attached, dmabuf, cpu, up>>

-----------------------------------------------------------------------------
(* Drawing with the CPU.                                                   *)

(* Must the CPU wait?  A writer for any use by the GPU, a reader only for  *)
(* the GPU's writes.                                                       *)

MustWait(p, access) ==
  state[p] \intersect (IF access = "RW" THEN GPU_RW ELSE {"GPU_W"}) # {}

CpuBits(access) == IF access = "RW" THEN CPU_RW ELSE {"CPU_R"}

PrepareCpu(p, access) ==
  /\ up
  /\ p \in attached
  /\ <<p, access>> \notin cpu
  /\ \/ /\ MustWait(p, access)
        /\ BatchWaitCommit(p)
        /\ state' = [state EXCEPT ![p] = (@ \ GPU_RW) \union CpuBits(access)]
     \/ /\ ~MustWait(p, access)
        /\ state' = [state EXCEPT ![p] = @ \union CpuBits(access)]
        /\ UNCHANGED <<fh, last_fence, refcnt, gpuvars>>
  /\ cpu' = cpu \union {<<p, access>>}
  /\ UNCHANGED <<attached, dmabuf, up>>

FinishCpu(p, access) ==
  /\ <<p, access>> \in cpu
  /\ cpu' = cpu \ {<<p, access>>}
  /\ UNCHANGED <<fh, last_fence, pixvars, up, gpuvars>>

-----------------------------------------------------------------------------
(* The server's main loop.                                                 *)

(* etnaviv_flush_callback while the VT is ours, and etnaviv_flush_queue    *)
FlushCallback ==
  /\ up
  /\ BatchPending(fh)
  /\ CommitNoStall
  /\ UNCHANGED <<attached, dmabuf, state, cpu, up>>

(* The block handler commits what is pending, then polls for completion.   *)
BlockHandlerCommitted ==
  IF ~BatchPending(fh) THEN UNCHANGED gpuvars
  ELSE FlushFails \/ FlushStream

BlockHandlerList ==
  IF submitted' = submitted THEN fh ELSE FenceObjects(fh, submitted')

(* Mutant: the handler commits but does not look for completed fences.     *)
BlockHandlerNoPoll ==
  /\ up
  /\ BatchPending(fh)
  /\ CommitNoStall
  /\ UNCHANGED <<attached, dmabuf, state, cpu, up>>

BlockHandler ==
  /\ up
  /\ BatchPending(fh) \/ FencesPending(fh)
  /\ BlockHandlerCommitted
  /\ IF FencesPending(BlockHandlerList)
     THEN FinishFences(BlockHandlerList, last_fence, completed)
     ELSE /\ fh' = BlockHandlerList
          /\ UNCHANGED <<last_fence, refcnt>>
  /\ UNCHANGED <<attached, dmabuf, state, cpu, up>>

(* etnaviv_CloseScreen: commit with a stall, put the screen pixmap p, and  *)
(* etnaviv_accel_shutdown finishes again and retires whatever is left.     *)
CloseScreen(p) ==
  /\ up
  /\ cpu = {}
  /\ p \in attached
  /\ FlushAndWait \/ FlushFails
  /\ fh' = RetireAll(fh)
  /\ last_fence' = submitted'
  /\ refcnt' = [q \in Pixmaps |-> refcnt[q] - (IF q = p THEN 1 ELSE 0)
                                            - (IF q \in Retired THEN 1 ELSE 0)]
  /\ Detach(p)
  /\ up' = FALSE
  /\ UNCHANGED cpu

Next ==
  \/ GpuStep
  \/ \E p \in Pixmaps : CreatePixmap(p)
  \/ \E p \in Pixmaps : DestroyPixmap(p)
  \/ \E p \in Pixmaps \union {NoPixmap}, q \in Pixmaps : ImportDmabuf(p, q)
  \/ \E dst \in Pixmaps : Fill(dst)
  \/ \E dst, src \in Pixmaps : Copy(dst, src)
  \/ \E dst, src \in Pixmaps : DrawRefused(dst, src)
  \/ \E dst \in Pixmaps, node \in Nodes : GlyphUpload(dst, node)
  \/ \E p \in Pixmaps : XvPutImage(p)
  \/ \E p \in Pixmaps, a \in Access : PrepareCpu(p, a)
  \/ \E p \in Pixmaps, a \in Access : FinishCpu(p, a)
  \/ FlushCallback
  \/ BlockHandler
  \/ \E p \in Pixmaps : CloseScreen(p)

(* The GPU does not stop, and the server runs its block handler each time  *)
(* it goes back to its main loop (with a timer of 500ms while a fence is   *)
(* pending, so that it does not sleep for ever).                           *)
Fairness == WF_vars(GpuStep) /\ WF_vars(BlockHandler)

Spec == Init /\ [][Next]_vars
FairSpec == Spec /\ Fairness

-----------------------------------------------------------------------------
(* Properties.                                                             *)

InFlight == stream \union {[obj |-> j.obj, write |-> j.write] : j \in jobs}

UsedByGpu(o)    == \E op \in InFlight : op.obj = o
WrittenByGpu(o) == \E op \in InFlight : op.obj = o /\ op.write

(* The fence lists and the state of each fence agree, and fence_head is    *)
(* ordered by fence id although objects move back to the batch and commits *)
(* with and without a stall alternate (etnaviv_fence.c).                   *)
FenceListsOK == FenceHeadOK(fh)

(* No object is left on fence_head whose fence is at or before the fence   *)
(* the server already knows to be complete, and none carries a fence that  *)
(* the kernel has not handed out: etnaviv_BlockHandler polls from          *)
(* last_fence on and would never look at an older one.                     *)
FencedAfterLast ==
  \A f \in Fences : fh.state[f] = "B_FENCED" =>
                      fh.id[f] > last_fence /\ fh.id[f] <= submitted

(* A vPix is referenced once by its X pixmap and once by the batch or      *)
(* fence list it is on: it is neither leaked nor freed early               *)
(* (etnaviv_batch_add, etnaviv_put_vpix).                                  *)
RefcntExact ==
  \A p \in Pixmaps :
    refcnt[p] = (IF p \in attached THEN 1 ELSE 0)
              + (IF fh.state[p] # "B_NONE" THEN 1 ELSE 0)

(* Memory that commands still in the stream or running on the GPU refer to *)
(* is not given back: neither a vPix whose X pixmap was destroyed, nor the *)
(* memory lent by a glyph upload.                                          *)
NoUseAfterFree ==
  /\ \A p \in Pixmaps : UsedByGpu(p) => refcnt[p] > 0
  /\ \A n \in Nodes : UsedByGpu(n) => fh.state[n] # "B_NONE"

(* "If the CPU is going to write to the pixmap, then we must ensure that   *)
(* the GPU is not using it.  Otherwise, tolerate both the GPU and CPU      *)
(* reading the pixmap." (prepare_cpu_drawable)                             *)
CpuGpuExclusion ==
  \A p \in Pixmaps :
    /\ <<p, "RW">> \in cpu => ~UsedByGpu(p)
    /\ <<p, "RO">> \in cpu => ~WrittenByGpu(p)

(* An object leaves the fence lists only when no command that was written  *)
(* for it is left in the stream or on the GPU.                             *)
RetireWhenIdle ==
  [][\A f \in Fences : fh.state[f] # "B_NONE" /\ fh'.state[f] = "B_NONE"
                         => ~UsedByGpu(f)']_vars

Fenced(k) == {f \in Fences : fh.state[f] = "B_FENCED" /\ fh.id[f] = k}

(* Every batch is eventually submitted and every fence eventually retired, *)
(* without the help of a client: the block handler submits the batch and   *)
(* later finds its fence complete.                                         *)
EventuallyRetired ==
  /\ \A f \in Fences : fh.state[f] = "B_PENDING" ~> fh.state[f] # "B_PENDING"
  /\ \A k \in 1 .. MaxFence + 2 : Fenced(k) # {} ~> Fenced(k) = {}

=============================================================================
