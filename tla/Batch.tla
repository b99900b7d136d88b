------------------------------- MODULE Batch --------------------------------
(***************************************************************************)
(* The batch buffer of a 2D operation (etnadrm/etnaviv_op.c): the states   *)
(* that set it up, then as many boxes as fit, over and over.  When the     *)
(* next box does not fit below the high watermark, the batch is finished   *)
(* with the workarounds that the watermark keeps room for, emitted to the  *)
(* command buffer, and started again behind the setup states.              *)
(*                                                                         *)
(* The buffer is counted in words; what they say is left out.  EL_START    *)
(* asserts that the most words of a block fit the buffer, EL_END aligns.   *)
(* Sizes are unsigned int: a difference wraps at Modulus, which stands for *)
(* 2^32 and is, as that is, far above any size.                            *)
(***************************************************************************)
EXTENDS Naturals

CONSTANTS
  Counts, \* the numbers of boxes of a call
  GC320,  \* is the chip a GC320, with its workaround?
  PE20    \* does the chip have the 2D PE 2.0?

ASSUME CountsAssumption == Counts \subseteq Nat \ {0}
ASSUME ChipAssumption == GC320 \in BOOLEAN /\ PE20 \in BOOLEAN

VARIABLES
  op,               \* the operation between its start and its end, and its phase
  batch_setup_size, \* etnaviv->batch_setup_size
  batch_size,       \* etnaviv->batch_size
  reloc_setup_size, \* etnaviv->reloc_setup_size
  reloc_size,       \* etnaviv->reloc_size
  fits,             \* has every assertion of EL_START held, and does the
                    \* relocation table hold what was added to it?
  nBox,             \* the boxes of the call that are left to draw
  drawn,            \* the boxes drawn in the batch
  owed              \* the boxes asked for and not emitted

vars == <<op, batch_setup_size, batch_size, reloc_setup_size, reloc_size, fits,
          nBox, drawn, owed>>

MAX_BATCH_SIZE       == 1024
MAX_RELOC_SIZE       == 8
BATCH_WA_FLUSH_NOPS  == 20
BATCH_WA_FLUSH_SIZE  == 2 + 2 + 2 + 2 * BATCH_WA_FLUSH_NOPS
BATCH_WA_GC320_SIZE  == 6 + 6 + 2 + 4 + 4
VIVANTE_MAX_2D_RECTS == 256
Modulus              == 2097152

(* Mutant: no room is kept for the second rotation of the workaround.      *)
HighWatermarkPE10 ==
  MAX_BATCH_SIZE - BATCH_WA_FLUSH_SIZE - (IF GC320 THEN BATCH_WA_GC320_SIZE ELSE 0)

(* etnaviv->batch_de_high_watermark (etnaviv_accel_init)                   *)
HighWatermark ==
  MAX_BATCH_SIZE - BATCH_WA_FLUSH_SIZE
    - (IF GC320 THEN BATCH_WA_GC320_SIZE + (IF PE20 THEN 4 ELSE 0) ELSE 0)

Minus(a, b) == IF a >= b THEN a - b ELSE a + Modulus - b  \* unsigned int
Larger(a, b) == IF a > b THEN a ELSE b
Smaller(a, b) == IF a < b THEN a ELSE b

(* What of an operation decides the sizes (struct etnaviv_de_op).          *)
(* Fills have a brush, and lines are no blits; copies and compositing have *)
(* a source, and may draw each box from an origin of its own.              *)
DeOps ==
  {d \in [src : BOOLEAN, blend : BOOLEAN, brush : BOOLEAN, blt : BOOLEAN,
          origin : BOOLEAN] :
     d.brush = ~d.src /\ (d.blend \/ d.origin => d.src) /\ (d.src => d.blt)}
gc320_wa == [src |-> TRUE, blend |-> FALSE, brush |-> FALSE, blt |-> TRUE,
             origin |-> FALSE]
Idle == [phase |-> "idle"]
Phases == {"de", "de_op", "vr"}

TypeOK ==
  /\ op \in {Idle} \union [phase : {"de", "de_op"}, de : DeOps] \union [phase : {"vr"}]
  /\ {batch_setup_size, batch_size, reloc_setup_size, reloc_size, nBox, drawn,
      owed} \subseteq Nat
  /\ fits \in BOOLEAN

Init ==
  /\ op = Idle
  /\ batch_setup_size = 0 /\ batch_size = 0
  /\ reloc_setup_size = 0 /\ reloc_size = 0
  /\ fits = TRUE /\ nBox = 0
  /\ drawn = 0 /\ owed = 0

-----------------------------------------------------------------------------
(* de_start: words of the blocks of the states, one after the other, and   *)
(* the furthest that EL_START asks for.  No operation is without a clip.   *)
BlendSize(d)  == IF d.blend THEN (IF PE20 THEN 8 ELSE 4) ELSE 2
ClipSize      == 4
BrushSize(d)  == IF d.brush THEN 8 ELSE 0
SourceSize(d) == IF d.src THEN 6 ELSE 0
DestSize      == 6
RotateSize    == IF PE20 THEN 4 ELSE 0

BeforeBlend(d) == SourceSize(d) + DestSize
BeforeClip(d)  == BeforeBlend(d) + BlendSize(d) + BrushSize(d)
DeStartSize(d) == BeforeClip(d) + ClipSize + RotateSize
DeStartTop(d)  ==
  Larger(Larger(BeforeBlend(d) + 8, BeforeClip(d) + ClipSize), DeStartSize(d))
DeStartRelocs(d) == IF d.src THEN 2 ELSE 1

(* etnaviv_size_2d_draw                                                    *)
Draw2dSize(n) == 2 + 2 * n

(* etnaviv_de_end: the words it adds to the batch, and the furthest it     *)
(* reaches.                                                                *)
WorkaroundSize == IF GC320 THEN DeStartSize(gc320_wa) + Draw2dSize(1) ELSE 0
DeEndTop ==
  Larger(batch_size + (IF GC320 THEN DeStartTop(gc320_wa) ELSE 0),
         batch_size + WorkaroundSize + BATCH_WA_FLUSH_SIZE)
DeEndRelocs == reloc_size + (IF GC320 THEN DeStartRelocs(gc320_wa) ELSE 0)

Fits(end, relocs) == end <= MAX_BATCH_SIZE /\ relocs <= MAX_RELOC_SIZE

(* etnaviv_emit                                                            *)
Emit == drawn' = 0 /\ owed' = owed - drawn

-----------------------------------------------------------------------------
(* etnaviv_de_start                                                        *)
DeStart(d) ==
  /\ op = Idle
  /\ op' = [phase |-> "de", de |-> d]
  /\ batch_size' = DeStartSize(d) /\ batch_setup_size' = DeStartSize(d)
  /\ reloc_size' = DeStartRelocs(d) /\ reloc_setup_size' = DeStartRelocs(d)
  /\ fits' = (fits /\ Fits(DeStartTop(d), DeStartRelocs(d)))
  /\ UNCHANGED <<nBox, drawn, owed>>

(* etnaviv_de_end and BATCH_OP_START: the batch is emitted and started     *)
(* again behind its setup.                                                 *)

(* Mutant: the batch starts again behind its setup and is not emitted.     *)
NextBatchDrops ==
  /\ batch_size' = batch_setup_size
  /\ reloc_size' = reloc_setup_size
  /\ fits' = (fits /\ Fits(DeEndTop, DeEndRelocs))
  /\ drawn' = 0 /\ owed' = owed

(* Mutant: the batch goes on behind what was emitted.                      *)
NextBatchStays ==
  /\ UNCHANGED <<batch_size, reloc_size>>
  /\ fits' = (fits /\ Fits(DeEndTop, DeEndRelocs))
  /\ Emit

NextBatch ==
  /\ batch_size' = batch_setup_size
  /\ reloc_size' = reloc_setup_size
  /\ fits' = (fits /\ Fits(DeEndTop, DeEndRelocs))
  /\ Emit

(* A block of words that draws n boxes.                                    *)
Draw(n, words) ==
  /\ batch_size' = batch_size + words
  /\ fits' = (fits /\ Fits(batch_size + words, reloc_size))
  /\ drawn' = drawn + n
  /\ UNCHANGED <<reloc_size, owed>>

(* etnaviv_de_op is called, with n boxes.                                  *)
DeOp(n) ==
  /\ op # Idle /\ op.phase = "de" /\ ~op.de.origin
  /\ op' = [op EXCEPT !.phase = "de_op"]
  /\ nBox' = n
  /\ owed' = owed + n
  /\ UNCHANGED <<batch_setup_size, batch_size, reloc_setup_size, reloc_size, fits,
                 drawn>>

InDeOp == op # Idle /\ op.phase = "de_op"
(* BUGFIX_SINGLE_BITBLT_DRAW_OP                                            *)
Single == GC320 /\ op.de.blt

(* One box at a time: the loop over the boxes.                             *)
DeOpSingle ==
  LET op_size == Draw2dSize(1) + 6
      full    == op_size > Minus(HighWatermark, batch_size)
  IN  /\ InDeOp /\ Single /\ nBox > 0
      /\ IF full
           THEN NextBatch /\ UNCHANGED nBox
           ELSE Draw(1, op_size) /\ nBox' = nBox - 1
      /\ UNCHANGED <<op, batch_setup_size, reloc_setup_size>>

(* As many boxes as fit: one turn of the loop.                             *)

Fitting(remaining) ==
  Smaller(Smaller((remaining - 8) \div 2, VIVANTE_MAX_2D_RECTS), nBox)

DeOpMany ==
  LET remaining == Minus(HighWatermark, batch_size)
      n         == Fitting(remaining)
  IN  /\ InDeOp /\ ~Single /\ nBox > 0
      /\ IF remaining <= 8
           THEN NextBatch /\ UNCHANGED nBox
           ELSE Draw(n, Draw2dSize(n) + 6) /\ nBox' = nBox - n
      /\ UNCHANGED <<op, batch_setup_size, reloc_setup_size>>

DeOpReturns ==
  /\ InDeOp /\ nBox = 0
  /\ op' = [op EXCEPT !.phase = "de"]
  /\ UNCHANGED <<batch_setup_size, batch_size, reloc_setup_size, reloc_size, fits,
                 nBox, drawn, owed>>

(* etnaviv_de_op_src_origin: one box, in this batch or in the next one.    *)
DeOpSrcOrigin ==
  LET op_size == Draw2dSize(1) + 6 + 2
      full    == op_size > Minus(HighWatermark, batch_size)
      base    == IF full THEN batch_setup_size ELSE batch_size
  IN  /\ op # Idle /\ op.phase = "de" /\ op.de.origin
      /\ batch_size' = base + op_size
      /\ reloc_size' = IF full THEN reloc_setup_size ELSE reloc_size
      /\ fits' = (fits /\ Fits(base + op_size, reloc_size)
                       /\ (full => Fits(DeEndTop, DeEndRelocs)))
      /\ drawn' = (IF full THEN 0 ELSE drawn) + 1
      /\ owed' = (IF full THEN owed - drawn ELSE owed) + 1
      /\ UNCHANGED <<op, batch_setup_size, reloc_setup_size, nBox>>

(* etnaviv_de_end, called at the end of an operation.                      *)
DeEnd ==
  /\ op # Idle /\ op.phase = "de"
  /\ op' = Idle
  /\ batch_size' = batch_size + WorkaroundSize + BATCH_WA_FLUSH_SIZE
                     - (IF GC320 THEN 0 ELSE 2 * BATCH_WA_FLUSH_NOPS)
  /\ reloc_size' = DeEndRelocs
  /\ fits' = (fits /\ Fits(DeEndTop, DeEndRelocs))
  /\ Emit
  /\ UNCHANGED <<batch_setup_size, reloc_setup_size, nBox>>

-----------------------------------------------------------------------------
(* etnaviv_vr_op: the setup for a source of one or more planes, then a     *)
(* block for every box, and the last batch emitted.                        *)
VrStart(planes, n) ==
  LET size == 6 + (IF planes > 1 THEN 6 ELSE 0) + DestSize + 10
      rel  == IF planes > 1 THEN 4 ELSE 2
  IN  /\ op = Idle
      /\ op' = [phase |-> "vr"]
      /\ batch_size' = size /\ batch_setup_size' = size
      /\ reloc_size' = rel /\ reloc_setup_size' = rel
      /\ fits' = (fits /\ Fits(size, rel))
      /\ nBox' = n
      /\ drawn' = 0 /\ owed' = n

VrBox ==
  LET full   == 8 > Minus(MAX_BATCH_SIZE, batch_size)
      base   == IF full THEN batch_setup_size ELSE batch_size
  IN  /\ op # Idle /\ op.phase = "vr"
      /\ nBox > 0
      /\ nBox' = nBox - 1
      /\ batch_size' = base + 8
      /\ reloc_size' = IF full THEN reloc_setup_size ELSE reloc_size
      /\ fits' = (fits /\ Fits(base + 8, reloc_size))
      /\ drawn' = (IF full THEN 0 ELSE drawn) + 1
      /\ owed' = IF full THEN owed - drawn ELSE owed
      /\ UNCHANGED <<op, batch_setup_size, reloc_setup_size>>

VrEnd ==
  /\ op # Idle /\ op.phase = "vr"
  /\ nBox = 0
  /\ op' = Idle
  /\ Emit
  /\ UNCHANGED <<batch_setup_size, batch_size, reloc_setup_size, reloc_size, fits,
                 nBox>>

Next ==
  \/ \E d \in DeOps : DeStart(d)
  \/ \E n \in Counts : DeOp(n)
  \/ DeOpSingle \/ DeOpMany \/ DeOpReturns \/ DeOpSrcOrigin \/ DeEnd
  \/ \E planes \in {1, 3}, n \in Counts : VrStart(planes, n)
  \/ VrBox \/ VrEnd

Spec == Init /\ [][Next]_vars

(* A call of an operation runs to its end.                                 *)
FairSpec == Spec /\ WF_vars(DeOpSingle \/ DeOpMany \/ DeOpReturns \/ VrBox \/ VrEnd)

-----------------------------------------------------------------------------
(* Properties.                                                             *)

(* No block reaches past the end of the batch buffer (the assertions of    *)
(* EL_START), and no relocation past its table (etnaviv_add_reloc, which   *)
(* has no assertion).                                                      *)
BatchFits == fits

(* The words of an operation stay at or below the watermark, so that the   *)
(* difference to it does not wrap, and behind the setup.                   *)
BelowWatermark ==
  op # Idle =>
    /\ batch_setup_size <= batch_size
    /\ batch_size <= IF op.phase = "vr" THEN MAX_BATCH_SIZE ELSE HighWatermark

(* Every box is drawn once: of the boxes that were asked for, those that   *)
(* are not emitted are in the batch or are left to draw, and an operation  *)
(* that has ended leaves none behind.                                      *)
BoxesDrawnOnce ==
  /\ owed = drawn + nBox
  /\ op = Idle => owed = 0

(* The loops over the boxes end: a batch that was started again has room.  *)
CallEnds == (InDeOp \/ nBox > 0) ~> (~InDeOp /\ nBox = 0)

=============================================================================
