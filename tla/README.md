# Verification of the Thead/Armada X.org video driver

TLA+ models of the driver in `src/`, the TLC runs that check them, and proofs
for the TLA+ proof system. The driver is a set of modules of the X server: the
server is one thread that calls into it. What makes it hard is everything
that does *not* wait for this thread: a GPU that works behind it, a kernel that
delivers vblank and page flip events later, clients that go away in between,
and caches whose contents outlive the calls that filled them.

`PROJECT.json` lists components, runs, the mutants that show each property can
fail, the source lines of every definition, hazards and theorems.

## 1. Inventory

### Accelerated drawing (`etnadrm/`, `common/`)

| part | state | operations | what makes it correct |
|---|---|---|---|
| Fences and deferred release: `etnaviv_fence.c` | two lists, the batch and `fence_head`; state and id of each fence | add, fence, retire up to an id, retire all | a fence is on the list its state names; `fence_head` is ordered by id |
| GPU access and pixmap life: `etnaviv.c`, `etnaviv_accel.c`, `etnaviv_utils.c` | access bits, references, mapping of each pixmap; `last_fence` | map to the GPU, draw, prepare and finish CPU access, commit, block handler, create and destroy | CPU and GPU exclude each other; memory stays until the GPU has read it; everything is given back in the end |
| Command stream: `etnadrm.c`, `etnadrm_emit.c` | ring of command buffers, bo table of the submission, fence ids | reserve, emit, relocate, flush, finish | no buffer overrun or overwritten before it was read; relocations name the right bo |
| GPU bos and cache: `etnadrm.c`, `bo-cache.c` | references, buckets, ages | new, import, flink, delete, clean | a bo somebody else knows is never handed out again; old ones go |
| Batch of 2D states: `etnaviv_op.c` | words and relocations in the batch, boxes | start, draw, end, the video rasteriser | no overrun; every box drawn once, also over a restart |
| Glyph cache: `glyph_cache.c` | slots, back pointers, fill count | look up, insert, evict, remove | slots and glyphs agree; no glyph is written over |
| Glyph rendering: `etnaviv_render.c`, `glyph_assemble.c`, `glyph_extents.c` | the request, the mask, the pixels in the cache picture | preload, upload, assemble, draw, or leave to the software | every glyph comes to its place with its own pixels |
| Composite: `etnaviv_render.c` | formats of the pixmaps, the temporary pixmap, the blends | reduce the mask, work around formats, blit once or twice, or leave to the software | the destination is (src IN mask) OP dst |
| XVideo: `etnaviv_xv.c` | layout of the image, `stage1_bo` and its size | PutImage, StopVideo | the blits stay inside of bos that are there; no bo is left behind |
| DRI3, fallbacks | use the parts above | | |

### Display (`src/src/`)

| part | state | operations | what makes it correct |
|---|---|---|---|
| Page flips and framebuffers: `common_drm.c` | `fb_id`, `flip_count`, `flip_event`, `flip_old_fb_id` | flip, handler, mode set, resize | every accepted event comes back; framebuffers neither leak nor go while shown |
| DRI2 waits and swaps: `common_drm_dri2.c`, `etnaviv_dri2.c` | waits, buffers with references, lists by client and drawable | wait, swap (flip, exchange, blit), events, client and drawable gone | no wait lost or used after free; the window shows its front; clients are woken |
| MSC accounting: `common_drm.c` and the two above | per-pixmap count, per-CRTC last number | GetMSC, targets, completion | the count of a drawable never goes back; targets satisfy the request |
| Present events: `common_present.c` | list and heap of events | queue, abort, deliver | an id is answered once; an event lives as long as the kernel may deliver it |
| DRM master and VT: `common_drm.c`, `armada_drm.c` | `master_count` of a device with several screens | ScreenInit, EnterVT, LeaveVT, CloseScreen | a screen on the VT is master's and shows its framebuffer |
| Scanout: `armada_drm.c` | bo, framebuffer, shadows | ScreenInit, resize, rotate, VT switch, CloseScreen | bos and framebuffers held exactly; each CRTC shows what it should |
| Display buffer manager: `armada_bufmgr.c` | two hash tables, references | create, import, flink, put | tables agree with the open handles |
| Connectors, planes, modules | | | not modelled, section 8 |

### How they interact

- *Calls.* Drawing maps pixmaps (`etnaviv_map_gpu`), adds them to the batch,
  fills it (`etnaviv_de_op`) and emits it into the command stream. A stream
  that is full is flushed from inside the emission, so objects may be with the
  GPU before the commit that fences them. `etnaviv_commit` flushes, fences the
  batch, and retires what the kernel says is complete.
- *Shared state.* The bo is shared by pixmap, submission table, cache and
  framebuffer, with a reference for each. `struct common_drm_info` holds one
  pending flip for all drawables.
- *Callbacks.* The server's block handler commits and polls; the kernel's
  events come through `drmHandleEvent` to `common_drm_event` and
  `common_drm_flip_handler`, with a pointer to memory the driver allocated
  earlier. Retiring a fence calls back to drop a reference.
- *Hard behaviour.* GPU progress at any time; events for clients that have
  gone; an id that is aborted and used again while the old event is due; kernel
  calls that fail in the middle; counters and buffers at their limits; a state
  (index, count, access bit, shadow) that is stale when it is used.

The hazards, each at its line, are in `PROJECT.json`; section 4 says which run
looks at which.

## 2. Modules

| module | models | state and actions against the code |
|---|---|---|
| `EtnavivFence` | the fence lists, as operators on a `FenceHead` record | `FenceAdd`, `FenceObjects`, `RetireId`, `RetireAll`, `RetireLast` are the functions of `etnaviv_fence.c`; a list is a sequence |
| `EtnavivAccel` | who may touch a pixmap's memory and when it is given back | one action per handler (`Fill`, `Copy`, `PrepareCpu`, `FinishCpu`, `DestroyPixmap`, `BlockHandler`, `CloseScreen`, ...); `GpuStep` is the other actor. `stream`, `jobs`, `submitted` and `completed` are what the kernel and the GPU have. A drawing function is its commands' accesses |
| `EtnaCtx` | the ring of command buffers and the bo table | sizes are words; `Emit` is `etnaviv_emit` with the reservation, `Flush` and `FenceFinish` the context's |
| `EtnaBo` | etna bos, their GEM handles and their cache | time is a bounded clock; lists are sequences as in the code, `ListDel` is `xorg_list_del`; the kernel's handles are given out again, and a dmabuf it knows has one already |
| `Batch` | filling the batch | each function as the words and relocations it adds; a chip is two constants |
| `XvPort` | a port of XVideo as a user of `EtnaBo` | `PutImage` is cut where it takes or gives a bo; the rest of the server comes only between requests |
| `GlyphCache` | the slots of one cache picture | `glyphs`, `count` as in the code; the random slot is a choice |
| `GlyphRender` | requests for glyphs over `GlyphCache` | one step per glyph that is preloaded; x stands for y; whose pixels are where is history |
| `Composite` | the reduction of a Render request to blits | a pixmap is one pixel, with one colour and alpha; the engine's blits and Render's equation are operators; what a picture's transformation, repeat and region allow is an input |
| `PageFlip` | `common_drm_flip`, its events, mode sets, resizes | the kernel refuses or takes a flip for each CRTC |
| `VtSwitch` | DRM master and VT switches | extends `PageFlip`: a device with two screens, one of which flips and resizes; other servers and logind take and give master |
| `Dri2` | waits and swaps | extends `PageFlip`: the same `struct` is the event of a vblank and of a flip |
| `Msc` | frame counts and targets | two pixmaps whose accounts a flip exchanges |
| `Answers` | what Present's clients are promised | an id that is asked for is answered once or withdrawn, and not for ever neither |
| `Present` | Present's events | memory of an event is an identity that can be used again; implements `Answers` |
| `Scanout` | bo, framebuffer, shadows over the screen's life | `common_drm_crtc_apply` runs in two steps per CRTC, since its first may fail after it destroyed a shadow |
| `ArmadaBo` | the display side's buffer manager | handles are the kernel's lowest free number and used again |

`MC...` modules extend their module with symmetry and finite constants.
`...Proofs` modules hold theorems. Modules are composed where their state is
shared: `EtnavivAccel` uses `EtnavivFence`, `Dri2` and `VtSwitch` extend
`PageFlip`, `XvPort` extends `EtnaBo`, `GlyphRender` extends `GlyphCache`.
`Present` is shown to implement `Answers`, with `asked <- waiting`. The
others meet in what they count on: `EtnavivAccel` counts on the stream to
submit in order (`EtnaCtx`), `EtnaCtx` on bos that live while referenced
(`EtnaBo`), `Scanout` on the buffer manager (`ArmadaBo`).

### Order of the plan

1. Access and deferred release (`EtnavivFence`, `EtnavivAccel`), with proofs: done.
2. Command stream, bos, batch, with proofs of the first and the last: done.
3. Flips, DRI2, Present, MSC, with proofs of flips: done.
4. Glyph cache, scanout, display buffer manager: done.
5. *Request answered once* as an abstract specification that `Present`
   implements, with the proof for its safety: done.
6. The Render reduction against the Render equation; glyphs from the request to
   the destination, with uploads that fail: done.
7. DRM master over generations and VT switches; an XVideo port: done.
8. Open: an abstract `PixmapAccess` (each pixmap is the CPU's, the GPU's or free)
   that `EtnavivAccel` implements; `Dri2` as another implementation of `Answers`;
   a batch that is abandoned half way.
9. Proofs of glyphs from their slots to the destination, of `EtnaBo` with its user
   `XvPort`, of `ArmadaBo`, `Scanout` and `VtSwitch`, of the relocations and the
   boxes, of the waits, swaps and buffers of `Dri2`, of the counts and targets in
   `Msc`, of `Composite`: done.

## 3. Bounds

- `accel`: two pixmaps and one uploaded node, two submissions
  (`MaxFence`). Two pixmaps are needed for a fence on the batch next to one on
  `fence_head`, and for a pixmap to be retired because another was waited for;
  two submissions for an object that moves back to the batch while its first
  job runs. `accel_faults` has one pixmap and one node, since liveness allows
  no symmetry.
- `ctx`: two buffers of 9 words, operations of 2 and 3: the ring wraps, and
  flushes leave streams of several sizes in one buffer.
- `bo_xv`: three bos, so that import, stage1 and one bo of the rest compete; two
  buckets, the smaller for what the rest asks for; as many handles as bos, so
  that there is always one to give out and a closed one is used again. The clock
  runs to the maximal age, one, so that what was freed first is aged out when
  the next is freed. Images of three planes and of one; the stage1 of each
  height is in another bucket or in none.
- `batch`: real buffer sizes, with 1, 100 and 700 boxes, that is, one batch and
  several.
- `glyph_render`: a picture of 32 and glyphs of 8, 16 and 32, all three steps of
  the eviction, with one that fills the picture; requests of one to three glyphs
  in one and two lists.
- `composite`: channels up to 16 with 1/2 as the middle value, so that the
  products of three halves are exact; all operators, seven formats, and each way
  in which the three pictures share pixmaps; engines with and without 2DPE20, with
  targets of A8 (one without them leaves those requests to the server, in the proof).
- `vt_switch`: two screens, so that one leaves while the other stays; two
  generations; two CRTCs, so that events come apart; four framebuffers (shown,
  replaced, next, one of a late event).
- `dri2`: two CRTCs; three to four framebuffers; two waits of one window.
- `msc`: two CRTCs, requests with and without divisor, frames to 2.
  The drawable no longer moves once a number was set back, which bounds deltas.
- `display_services`: four events for two ids; three bos, an object of this
  process and a foreign one. The two parts share nothing and run side by side.
- `scanout`: two CRTCs, one client pixmap, four bos, five framebuffers.

`CHECK_DEADLOCK FALSE` is given where a bound ends the run (fences, frames,
time) or where the code exits the server (`scanout`).

## 4. Runs

| run | shows |
|---|---|
| `accel` | no kernel call fails: the CPU and the GPU never have conflicting access (`CpuGpuExclusion`), commands never refer to memory that was given back (`NoUseAfterFree`), an object leaves the lists only once the GPU is done with it (`RetireWhenIdle`), the lists are well formed (`FenceListsOK`) |
| `accel_faults` | submissions and waits fail at any time: references exact (`RefcntExact`), nothing behind the fence that is polled (`FencedAfterLast`), every batch submitted and every fence retired in the end, by the block handler and the GPU alone |
| `ctx` | waits may fail: no write beyond a buffer until one was written without its reservation (`OffsetInBuffer`), none over commands not yet read (`CommandsNotOverwritten`), relocations and references exact |
| `bo_xv` | buckets and ages; no handle is leaked or, dmabufs imported twice apart, closed under its bo; no named or imported bo is reused; what a request of XVideo reads and writes is inside of bos that are there, and none is left behind |
| `batch` | the batch is not overrun, each box is drawn once, the loops end |
| `glyph_render` | slots and glyphs point at each other; every glyph of a request comes to its place, in full, with its own pixels, by the engine or by software |
| `composite` | every operator, source, mask, destination format and sharing of pixmaps: the destination is what Render asks for, or the request went to the software |
| `vt_switch` | events returned and framebuffers exact, also over switches and generations; a screen on the VT is master's and its CRTCs show its framebuffer |
| `dri2` | waits queued exactly once and on the lists of what they refer to, references of buffers, the front is what is shown, swaps answered, no CRTC loses its framebuffer, every wait ends |
| `msc` | the count never goes back, waits and swaps have the right frames |
| `display_services` | Present implements `Answers`, safety and fairness, and its heap is what the kernel may deliver; the display's hash tables are exactly the handles and names, and no handle is closed under a bo |
| `scanout` | references, framebuffers, shadows, and what each CRTC shows, over everything that may fail |

Each module has a type invariant, which documents its state. It is proved as part
of the inductive invariant wherever a module has one (section 7).

Some properties are conditional, on a history variable that records an event the
code does not handle (section 6): `unreserved` (an operation was written though
its reservation failed), `doubled` (a handle given to a second bo by an import),
`behind` (a glyph behind the count), `failed` (a glyph that could not be
uploaded), `set_back` (a late completion), `refused` (a CRTC whose mode was
refused). They hold as long as the event has not happened; for `refused` and
`failed` they say what is left: a glyph that could not be uploaded spoils no
other. `vt_switch` and `dri2` are of a kernel that serves the CRTCs of a flip
all or none; that `EventKept` and `FbsExact` hold for any other is proved.

## 5. Fairness

Liveness is asked for only of what the code schedules itself or the hardware does:

- `accel_faults`: the GPU completes jobs, and the block handler runs. The server
  calls it whenever it goes to sleep, and it sets a timer for itself as long as
  fences are pending (`etnaviv.c`, `TimerSet`). Weak fairness of the handler means
  that a kernel call that fails for ever is excluded, since a step in which all
  calls fail changes nothing. Nothing else is fair: clients may stop at any time.
- `dri2`, `display_services`: the kernel delivers each event it has accepted. Requests,
  clients and windows may do nothing.
- `batch`: the loops of a call go on. They are loops of one thread.

## 6. Where the code does something else than it says

Met while modelling; each is in the model as the code has it, and the
properties that would deny it are conditional or not stated.

- `prepare_cpu_drawable` (`etnaviv_utils.c:215`) drops the GPU bits though
  `etna_flush` failed, against "we must ensure that the GPU is not using it";
  `etnaviv_commit` (`etnaviv_accel.c:198`) retires everything though the wait
  for the fence failed. So exclusion and retirement are stated for runs without
  failures, the rest for runs with them.
- `etnaviv_emit` (`etnadrm_emit.c:20`) does not look whether `etna_reserve`
  succeeded; after a failed wait it writes behind the end of the buffer, and the
  assertion of the next reservation fails.
- `etna_bo_to_dmabuf` (`etnadrm.c:483`) leaves an exported bo in its bucket,
  where `etna_bo_handle` says "we must not re-use this bo". `SharedNotReused`
  therefore is about names and imports only.
- A DRAW2D gets up to `VIVANTE_MAX_2D_RECTS`, 256 boxes, where
  `etnaviv_accel.h` says "up to 255 rectangles".
- A glyph whose random slot is behind the count is written over when that slot
  is handed out (`glyph_cache.c:269`).
- `glyphs_assemble` preloads so that "we can avoid having to reset the
  destination", "If this fails, fallback" (`glyph_assemble.c:33`), but an upload
  that fails tells nobody (`etnaviv_render.c:1367`): the glyph is drawn with what
  was in its place. The upload also leaves its node behind when there is no
  memory for the pixels (`:1337`), and reads a pixmap of the GPU without mapping
  it. A mapping that fails in mid-text leaves the batch without its end
  (`:1244`). Text without pixels but with extents leaks its list (`:1201`).
- Two imports of one dmabuf have the same GEM handle (`etnadrm.c:453`), and the
  deletion of either closes it for both, or for whom the kernel gave it to since.
  `EtnaBo` has it so; `HandlesExact` grants the bos of a handle that was given to
  a second one (`doubled`), and says that no other bo is hit.
- `etnaviv_get_fmt_info` (`etnaviv_xv.c:320`) sums the planes without the 64
  bytes to which it aligns their offsets: the last plane of a 16x170 image ends
  40 bytes behind the page. `etnaviv_xv_init` (`:848`) compares `format` where
  `id` would be XVBO, so that XVBO is offered without DRI2 too.
- `etnaviv_accel_reduce_mask` and its comment (`etnaviv_render.c:857`) differ on
  masks by component, whose blends use src.A * mask.A; a mask without alpha that
  does not reach the pixel is 1.0 (`:878`); an alpha map on the mask is ignored.
  The comment on PE1.0 (`:1087`) names A1R5G5B5 and A4R4G4B4, but the check is made
  for destinations without alpha only. A mask that is the source's pixmap
  is read in the format that was put there for the source. A source of r5g6b5
  has no format with alpha to change to (`:428`), without which the global alpha
  of a constant mask is ignored (`:706`). A source of any format without alpha has
  its alpha replaced by that of a constant mask (`:1001`); where it does not cover
  the destination it comes by software with an alpha of 0 there, which is
  replaced too. `RenderEquation` says which of these it
  grants (`Inexact`).
- `common_drm_flip_pixmap` (`common_drm.c:525`) exchanges the MSC account
  along with "bo pointer and handle"; WaitMSC (`common_drm_dri2.c:331`) uses
  `cur_msc & divisor` for `%`; a completion carries the CRTC's and not the
  drawable's count (`common_drm.c:360`), and one that is late sets `swap_msc`
  back, from where a failing read takes the drawable's count below zero.
- `common_drm_flip` (`common_drm.c:497`) accepts a second flip, of another
  drawable, while one is pending, and overwrites `flip_event`: the first is
  never told. `EventKept` is for callers that wait, `dri2` has one window.
- `armada_drm_ScreenInit` counts DRM master (`armada_drm.c:439`) and calls EnterVT
  (`:486`), which counts it again (`common_drm.c:955`), while LeaveVT puts it once.
  So each screen of each generation leaves one behind, the count never comes to 0,
  and a device whose master the driver manages never drops it at a LeaveVT, in
  `VtSwitch` as in the code. Whom this keeps out is not asked; `OnVT` says what
  holds for the screens that have the VT.
- An object imported by name and by dmabuf has two bos in `armada_bufmgr.c`, and
  the assertion in `drm_armada_bo_flink` fails for the second.
- Small slips no model is needed for: `etnaviv_dri3_fds_from_pixmap` sets
  `*fds` to 1; `glyph_cache_remove` frees no `glyph_priv`.

## 7. Proofs

| module | theorems | argument |
|---|---|---|
| `EtnavivAccelProofs` | what each list operator of `EtnavivFence` returns and keeps; `TypesCorrect`, `FenceListsCorrect`, `FencedAfterLastCorrect`, `RefcntCorrect`, whatever fails; `ExclusionCorrect`, `UseAfterFreeCorrect`, `RetireCorrect` if nothing fails (`NoFaults`) | two inductive invariants |
| `EtnaCtxProofs` | `OffsetCorrect`, `OverwriteCorrect`; `RelocsCorrect`, `RefsCorrect` | `RingInv`; `TabInv` |
| `XvPortProofs` | `CacheCorrect`, `HandlesCorrect`, `SharedCorrect`, of `EtnaBo` while a port uses it; `BlitsCorrect` | `BoInv`, `PortInv` |
| `EngineProofs` | of the batch `BatchFitsCorrect`, `BoxesDrawnOnceCorrect`; of Render requests `RenderCorrect` | `Inv`; `Boxes`; `RenderInv` |
| `GlyphRenderProofs` | `BackPointersCorrect`, `BelowCountCorrect`, `RunsApartCorrect`; `GlyphsDrawnCorrect` | `CacheInv`; `DrawnInv` |
| `PageFlipProofs` | `EventKeptCorrect`, `FbsCorrect`, `ScannedFbCorrect`; over VT switches `FlipsOverVts`, `OnVTCorrect`; of DRI2 `WaitsTrackedCorrect`, `BufferRefsCorrect`, `ShownIsFrontCorrect`, `SwapsAnsweredCorrect`, `OneDrawableAlone`, `Dri2CallsFlip`, `Dri2ScannedFbCorrect` | `FlipInv`, `ShowsCurrent`; `VtInv`; `Dri2Inv`, `AloneInv`, `OneInv`; `Dri2Spec` implements `PageFlipSpec` |
| `DisplayServicesProofs` | `HeapIsPendingCorrect`, `PresentAnswers`; `TablesCorrect`, `MemoryStaysCorrect`; `WaitForTargetCorrect`, `SwapForRemainderCorrect`, `MscNeverBackCorrect` | `PresentInv`, and a step of `Answers` or a stutter for every step; `ArmadaInv`; `MscInv` |
| `ScanoutProofs` | `HeldCorrect`, `DrawnCorrect`, `ScansCorrect` | `ScanInv` |

They hold for every value of the constants, under the named assumptions of the
modules (all evaluated by TLC in the runs): finitely many CRTCs, at least one
operation size that fits a buffer, at least one framebuffer, and the like. A few
say more. Framebuffer ids are numbers (`Scanout`), as the kernel hands out the
lowest. Ids of clients and of drawables are distinct, as all XIDs are, and there are
finitely many drawables, buffers and waits (`Dri2`). A bo stays cached for at least one interval of the clock
(`MaxAge`, `BO_CACHE_MAX_AGE`). An image that reaches `PutImage`'s buffers has
a width and a height (`XvPort`), since clipping leaves nothing of another, which
returns before; pixels have at least 8 bits. A picture without a drawable counts
as a8r8g8b8, one that is repeated covers the destination, and destinations are
drawables without an alpha map (`PicturesAssumption` of `Composite`; the code
leaves others to the server at once); what a client may have drawn is any word of
channels up to `One`, which is 16. Glyphs have up to nine sizes, as
16 bits of a slot allow, and squares of the largest fill the picture (64 in 1024;
in the run one of 32 is all of it, and rows of several are left to the proof). Those about flips are of
callers that wait: in `PageFlip` and `VtSwitch` by `OneAtATime`, in DRI2 by
`FlipsAlone`, no flip is asked for while another is due. `OneDrawableAlone` shows
that one drawable always waits, whatever its clients ask for; two may not (section 6).
`ScannedFbCorrect`, `Dri2ScannedFbCorrect` and `OnVTCorrect` are also of a kernel
that serves all CRTCs or none. `BufferRefsCorrect`, `ShownIsFrontCorrect` and
`SwapsAnsweredCorrect` need none of this. `Scanout` takes no
step once the server has exited.

- **Lists.** `ListInv` strengthens types, list order and reference counts by one
  fact: every fence on `fence_head` is younger than the last one known complete,
  and was handed out by the kernel. Without it retiring by id from the head
  could stop early. Each action of `EtnavivAccel` changes the lists by one of
  the operators, whose lemmas say what it keeps (`ListStepPreserves`).
- **Exclusion.** `GpuInv` adds what the driver only knows implicitly: an object
  with commands in the stream is on the batch (`OnStream`), one with a job that
  runs is fenced no earlier than that job (`OnGpu`), and the access bits of a
  pixmap cover what the GPU does with it (`StateCovers`). The properties follow
  from it, the bits being cleared only where the lists say the GPU is idle.
- **Ring.** The fence recorded when a buffer is left is no older than any stream
  submitted from it, and the current buffer's streams end before the one that is
  being written (`RingInv`); it is kept until an operation is written without a
  reservation, which stays recorded.
- **Glyphs.** Putting a glyph on a slot keeps the pointers in pairs if no other
  glyph starts there, or is pushed out. For slots that are handed out in order
  that follows from `BelowCount`, though a glyph may reach behind the count; for
  a random slot, from the smallest square around it being looked at first. What is
  drawn needs more (`DrawnInv`): the slots of two glyphs are apart, as all that has a
  slot in a square is pushed out for it (`EvictedApart`), unless a glyph went behind
  the count; and squares without a common slot have no common pixel (`SquaresApart`).
  That takes the position as the loop of `__glyph_cache` reads it from the bits of
  the slot: those within a square add less than its side (`Nested`), and the column
  and row of squares of one size determine the slot (`Decode`). So an upload
  leaves the other glyphs alone, and a request finds all of them `Shown`.
- **Flips.** A CRTC whose flip is due has an event to come, and the framebuffer
  that a pending flip replaces still exists, so a new one does not take its id.
- **VT switches.** `VtInv` is `FlipInv` with the users of master: the count covers the
  screens on the VT, and one more where the server and not the driver manages
  master, so that nobody drops it while a screen is there (nor, with the count of
  section 6, afterwards). A screen that enters sets
  its modes before anything else runs, and a flip that is due when another
  master comes in between is still counted.
- **DRI2.** In `Dri2Inv` every pair of buffers of a drawable has a pixmap of its own,
  a wait is on the lists of its client and its drawable exactly while it is alive and
  both are there, and an event in the kernel has its wait. References of buffers
  and swaps that are owed are counts of those sets, so each step is a set that
  gains or loses one element. A flip that is overwritten (section 6) loses its
  wait, which stays listed and counted; so only that each wait ends somewhere
  needs `FlipsAlone`, and then the steps of `Dri2` are steps of `PageFlip` or stutters
  (`Dri2CallsFlip`), which carries the facts about framebuffers over. One drawable has
  at most one swap pending, the server asking for the next when it was told of the
  last (`SwapsAnswered`), and a wait without drawable only when it is gone (`OneInv`).
- **MSC.** The server has seen no frame the kernel has not had (`Seen`), and the count
  of a pixmap is at most its CRTC's last known number by the difference
  (`Accounts`), so a new read, answered or not, never gives less. `WaitTargetIs` and
  `SwapTargetIs` say what the targets are, `QueueKeeps` what the kernel makes of them.
- **Relocations.** The index that a bo carries is its place in the table of the stream
  that is being written, or -1 (`TableOK`); a flush inside of an emission drops table,
  indices and stream together, and what was submitted does not change. A bo enters
  the table, and gets the reference for it, only with index -1.
- **Bos and XVideo.** A named or imported bo has lost its bucket while somebody
  holds it (`BoInv`), so its last reference closes it. The free list is sorted by
  time, so cleaning may stop at the first young bo: all behind it are young. The
  kernel gives out a handle only while it is closed, so one that no import doubled
  has one bo, whose end alone closes it (`HandlesExact` is inductive with this). Lists
  are treated by their entries: `xorg_list_del` keeps the order and removes one
  (`ListDelProperties`), for which the least counterexample replaces an induction.
  `PortInv` says which bos the port holds between two steps of a request and that
  `stage1_bo` has at least `stage1_size` bytes.
- **Display tables.** Handles are open exactly under live bos, one each; a handle that
  is used again was taken out of the table before it was closed. `MemoryStays`
  follows, a step closing only the handle of the bo whose last reference it puts.
- **Scanout.** A bo has at most one holder among screen, shadows, pixmaps and the
  call that runs (`BosOK`), a framebuffer at most one (`FbsOK`), and what a CRTC shows
  that the call has still to do is one of what the call replaces (`ScanOK`). So a
  reference that is put was the only one, and a mode that fails leaves nothing
  stale.
- **Present.** The list of events has no event twice and no more than one for an
  id that was not aborted, and what is listed is in the heap; so the delivery of an
  event answers the id it was asked for, and that of an aborted one is a stutter.
- **Batch.** At or below the watermark of each chip there is room for what
  `etnaviv_de_end` appends; setup is at most 28 words, so a restart has room.
  Only the loops of a call have boxes left, and a batch that is emitted takes its
  boxes from those that are owed (`Boxes`).
- **Render requests.** `RenderInv` says of each place in the code why the rest comes
  out right. Once the source of the final blend is chosen, that blend would give
  what Render asks for (`Prepared`); before a mask is blended, the temporary pixmap
  holds the source and the mask's pixmap is still in the mask's format; and before
  that the way chosen is one for the operator, the destination and the mask (`Way`).
  There are two kinds of final blend: of a source that is read as src IN mask
  (`BlendWhole`), and of one that is read without its mask, whose alpha is then the
  engine's global alpha on both sides (`BlendScaled`). Both sides of the equation
  multiply alike, so that rounding does not come into it. `Inexact` (section 6) is
  what had to be left out: each part of it is used in the proof.

Only model-checked: all liveness (fairness is beyond the prover, so that
`PresentAnswers` is about `Answers!Spec` and the run about `FairSpec`). Every other
property of a run is stated by a theorem. C's `&` is a recursive function (`BitAnd`); the bound on a wait holds
whatever it returns.

## 8. Not modelled

- Connectors, gamma, EDID, options, module registration: data handed
  between the kernel and the server, without a protocol of their own.
- Transformations, repeats and regions of pictures: arithmetic, whose outcome is
  an input of `Composite`. Scale factors and filter kernels of XVideo.
- The overlay planes of the display: listed at start, and not used afterwards.
- The armada path of pixmaps in `etnadrm/`: `vPix->bo` is never assigned, those
  branches are dead. The bo cache of `armada_bufmgr.c`: `reusable` is never set.
- Wrapping of fence ids and frame numbers, which takes months of uptime.
- Allocation failures that change nothing, debug output, and the maps of bos.
