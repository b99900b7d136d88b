---------------------------- MODULE EngineProofs ----------------------------
(***************************************************************************)
(* What is written for the 2D engine, and what that means.                 *)
(*                                                                         *)
(* The batch (Batch), for all numbers of boxes and all four kinds of chip: *)
(* no block of an operation passes the end of the batch buffer.  The words *)
(* of a batch stay at or below the watermark, and above it there is room   *)
(* for what etnaviv_de_end appends.  And every box is drawn once: what is  *)
(* owed is what the batch holds and what the loop has left.                *)
(*                                                                         *)
(* The blits of a Render request (Composite), for all that clients may     *)
(* have drawn and all pictures they may name: the destination is what      *)
(* Render asks for.  The invariant says of each place in the code why the  *)
(* rest of the request comes out right: the final blend, once its source   *)
(* is chosen, would give the pixel asked for; and before, that the way     *)
(* chosen is one for this operator, destination and mask.                  *)
(*                                                                         *)
(* The two share no variable; each has its own specification.              *)
(***************************************************************************)
EXTENDS Batch, Composite, TLAPS


(* The most words of setup states of an operation.                         *)
MaxSetup == 28

Sizes ==
  /\ batch_setup_size \in Nat /\ batch_size \in Nat
  /\ reloc_setup_size \in Nat /\ reloc_size \in Nat
  /\ nBox \in Nat

Inv ==
  /\ op \in {Idle} \union [phase : {"de", "de_op"}, de : DeOps] \union [phase : {"vr"}]
  /\ Sizes
  /\ op # Idle =>
       /\ batch_setup_size <= MaxSetup
       /\ reloc_setup_size <= 4 /\ reloc_size <= 4
       /\ op.phase # "vr" => reloc_setup_size <= 2 /\ reloc_size <= 2
  /\ BelowWatermark
  /\ BatchFits

-----------------------------------------------------------------------------
(* The watermark of each kind of chip.                                     *)
LEMMA Watermarks ==
  HighWatermark = IF GC320 THEN (IF PE20 THEN 952 ELSE 956) ELSE 978
BY ChipAssumption
   DEF HighWatermark, MAX_BATCH_SIZE, BATCH_WA_FLUSH_SIZE, BATCH_WA_FLUSH_NOPS,
       BATCH_WA_GC320_SIZE

(* What the setup of an operation needs.                                   *)
LEMMA Setup ==
  ASSUME NEW d \in DeOps
  PROVE  /\ DeStartSize(d) \in Nat /\ DeStartSize(d) <= MaxSetup
         /\ DeStartTop(d) \in Nat /\ DeStartTop(d) <= MaxSetup
         /\ DeStartRelocs(d) \in {1, 2}
BY ChipAssumption
   DEF DeOps, DeStartSize, DeStartTop, DeStartRelocs, BeforeClip, BeforeBlend,
       SourceSize, DestSize, BlendSize, BrushSize, ClipSize, RotateSize, Larger,
       MaxSetup

(* What the end of an operation needs is what the watermark keeps.         *)
LEMMA Ending ==
  ASSUME batch_size \in Nat, reloc_size \in Nat,
         batch_size <= HighWatermark, reloc_size <= 2
  PROVE  Fits(DeEndTop, DeEndRelocs) /\ DeEndRelocs \in Nat
<1>1. DeStartSize(gc320_wa) = IF PE20 THEN 22 ELSE 18
  BY ChipAssumption
     DEF gc320_wa, DeStartSize, BeforeClip, BeforeBlend, SourceSize, DestSize,
         BlendSize, BrushSize, ClipSize, RotateSize
<1>2. DeStartTop(gc320_wa) = IF PE20 THEN 22 ELSE 20
  BY <1>1, ChipAssumption
     DEF gc320_wa, DeStartTop, BeforeClip, BeforeBlend, SourceSize, DestSize,
         BlendSize, BrushSize, ClipSize, Larger
<1>3. DeStartRelocs(gc320_wa) = 2
  BY DEF gc320_wa, DeStartRelocs
<1>4. WorkaroundSize = IF GC320 THEN (IF PE20 THEN 26 ELSE 22) ELSE 0
  BY <1>1, ChipAssumption DEF WorkaroundSize, Draw2dSize
<1>5. DeEndTop <= 1024
  BY <1>2, <1>4, Watermarks, ChipAssumption
     DEF DeEndTop, Larger, BATCH_WA_FLUSH_SIZE, BATCH_WA_FLUSH_NOPS
<1>6. DeEndRelocs \in Nat /\ DeEndRelocs <= 4
  BY <1>3, ChipAssumption DEF DeEndRelocs
<1> QED
  BY <1>5, <1>6 DEF Fits, MAX_BATCH_SIZE, MAX_RELOC_SIZE

(* A batch below the watermark has the difference to it left.              *)
LEMMA Remaining ==
  ASSUME batch_size \in Nat, batch_size <= HighWatermark
  PROVE  Minus(HighWatermark, batch_size) = HighWatermark - batch_size
BY Watermarks, ChipAssumption DEF Minus

-----------------------------------------------------------------------------
(* The batch is started again behind its setup.                            *)
LEMMA NextBatchInv ==
  ASSUME Inv, op # Idle, op.phase # "vr", NextBatch, UNCHANGED nBox,
         UNCHANGED <<op, batch_setup_size, reloc_setup_size>>
  PROVE  Inv'
<1>1. batch_size <= HighWatermark /\ reloc_size <= 2
  BY DEF Inv, BelowWatermark
<1>2. fits'
  BY <1>1, Ending DEF Inv, Sizes, NextBatch, BatchFits
<1>3. batch_setup_size <= HighWatermark
  BY Watermarks, ChipAssumption DEF Inv, Sizes, MaxSetup
<1> QED
  BY <1>2, <1>3, Watermarks, ChipAssumption
     DEF Inv, Sizes, NextBatch, BelowWatermark, BatchFits, HighWatermark

(* A block that ends below the watermark is drawn.                         *)
LEMMA DrawInv ==
  ASSUME Inv, op # Idle, op.phase # "vr", NEW n \in Nat, NEW words \in Nat,
         batch_size + words <= HighWatermark, Draw(n, words), nBox' \in Nat,
         UNCHANGED <<op, batch_setup_size, reloc_setup_size>>
  PROVE  Inv'
<1>0. Fits(batch_size + words, reloc_size)
  BY Watermarks, ChipAssumption
     DEF Inv, Sizes, Fits, MAX_BATCH_SIZE, MAX_RELOC_SIZE
<1>1. fits'
  BY <1>0 DEF Inv, Draw, BatchFits
<1>2. batch_size' \in Nat /\ batch_size <= batch_size' /\ batch_size' <= HighWatermark
  BY DEF Inv, Sizes, Draw
<1>3. batch_setup_size <= batch_size'
  BY <1>2 DEF Inv, Sizes, BelowWatermark
<1> QED
  BY <1>1, <1>2, <1>3
     DEF Inv, Sizes, Draw, BelowWatermark, BatchFits, HighWatermark

(* The boxes that fit end below the watermark.                             *)
LEMMA FittingFits ==
  ASSUME NEW remaining \in Nat, remaining > 8, nBox \in Nat
  PROVE  /\ Fitting(remaining) \in Nat
         /\ Fitting(remaining) <= nBox
         /\ Draw2dSize(Fitting(remaining)) + 6 <= remaining
BY DEF Fitting, Smaller, Draw2dSize, VIVANTE_MAX_2D_RECTS

-----------------------------------------------------------------------------
(* The invariant holds at first, and every step keeps it.                  *)
LEMMA InitInv == Init => Inv
BY DEF Init, Inv, Sizes, Idle, BelowWatermark, BatchFits

LEMMA NextInv == Inv /\ [Next]_vars => Inv'
<1> SUFFICES ASSUME Inv, [Next]_vars PROVE Inv'
  OBVIOUS
<1>1. ASSUME NEW d \in DeOps, DeStart(d) PROVE Inv'
  <2>1. op' \in [phase : {"de", "de_op"}, de : DeOps] /\ op'.phase = "de" /\ op' # Idle
    BY <1>1 DEF DeStart, Idle
  <2>0. Fits(DeStartTop(d), DeStartRelocs(d))
    BY Setup DEF Fits, MAX_BATCH_SIZE, MAX_RELOC_SIZE, MaxSetup
  <2>2. fits'
    BY <1>1, <2>0 DEF DeStart, Inv, BatchFits
  <2>3. batch_size' <= HighWatermark /\ batch_size' \in Nat
    BY <1>1, Setup, Watermarks, ChipAssumption DEF DeStart, MaxSetup
  <2> QED
    BY <1>1, <2>1, <2>2, <2>3, Setup
       DEF DeStart, Inv, Sizes, BelowWatermark, BatchFits, HighWatermark
<1>2. ASSUME NEW n \in Counts, DeOp(n) PROVE Inv'
  <2>1. op' \in [phase : {"de", "de_op"}, de : DeOps] /\ op'.phase = "de_op" /\ op' # Idle
    BY <1>2 DEF DeOp, Inv, Idle
  <2> QED
    BY <1>2, <2>1, CountsAssumption
       DEF DeOp, Inv, Sizes, BelowWatermark, BatchFits, HighWatermark
<1>3. ASSUME DeOpSingle PROVE Inv'
  <2>1. op # Idle /\ op.phase # "vr" /\ nBox \in Nat /\ nBox > 0
    BY <1>3 DEF DeOpSingle, InDeOp, Inv, Sizes
  <2>2. Minus(HighWatermark, batch_size) = HighWatermark - batch_size
    BY <2>1, Remaining DEF Inv, Sizes, BelowWatermark
  <2>3. CASE Draw2dSize(1) + 6 > Minus(HighWatermark, batch_size)
    BY <1>3, <2>1, <2>3, NextBatchInv DEF DeOpSingle
  <2>4. CASE ~(Draw2dSize(1) + 6 > Minus(HighWatermark, batch_size))
    <3>1. Draw2dSize(1) + 6 = 10
      BY DEF Draw2dSize
    <3>2. batch_size + 10 <= HighWatermark
      BY <2>2, <2>4, <3>1, Watermarks, ChipAssumption DEF Inv, Sizes
    <3>3. Draw(1, 10) /\ nBox' \in Nat /\ UNCHANGED <<op, batch_setup_size, reloc_setup_size>>
      BY <1>3, <2>1, <2>4, <3>1 DEF DeOpSingle
    <3> QED
      BY <2>1, <3>2, <3>3, DrawInv
  <2> QED
    BY <2>3, <2>4
<1>4. ASSUME DeOpMany PROVE Inv'
  <2> DEFINE remaining == Minus(HighWatermark, batch_size)
  <2>1. op # Idle /\ op.phase # "vr" /\ nBox \in Nat /\ nBox > 0
    BY <1>4 DEF DeOpMany, InDeOp, Inv, Sizes
  <2>2. remaining = HighWatermark - batch_size /\ remaining \in Nat
    BY <2>1, Remaining, Watermarks, ChipAssumption DEF Inv, Sizes, BelowWatermark
  <2>3. CASE remaining <= 8
    BY <1>4, <2>1, <2>3, NextBatchInv DEF DeOpMany
  <2>4. CASE ~(remaining <= 8)
    <3> DEFINE n == Fitting(remaining)
    <3>1. Draw(n, Draw2dSize(n) + 6) /\ nBox' = nBox - n
          /\ UNCHANGED <<op, batch_setup_size, reloc_setup_size>>
      BY <1>4, <2>4 DEF DeOpMany
    <3>2. n \in Nat /\ n <= nBox /\ Draw2dSize(n) + 6 <= remaining
      BY <2>1, <2>2, <2>4, FittingFits
    <3>3. Draw2dSize(n) + 6 \in Nat
      BY <3>2 DEF Draw2dSize
    <3> HIDE DEF n, remaining
    <3>4. batch_size + (Draw2dSize(n) + 6) <= HighWatermark
      BY <2>2, <3>2, <3>3, Watermarks, ChipAssumption DEF Inv, Sizes
    <3>5. nBox' \in Nat
      BY <2>1, <3>1, <3>2
    <3> QED
      BY <2>1, <3>1, <3>2, <3>3, <3>4, <3>5, DrawInv
  <2> QED
    BY <2>3, <2>4
<1>5. ASSUME DeOpReturns PROVE Inv'
  <2>1. op' \in [phase : {"de", "de_op"}, de : DeOps] /\ op'.phase = "de" /\ op' # Idle
    BY <1>5 DEF DeOpReturns, InDeOp, Inv, Idle
  <2> QED
    BY <1>5, <2>1 DEF DeOpReturns, InDeOp, Inv, Sizes, BelowWatermark, BatchFits,
                      HighWatermark
<1>6. ASSUME DeOpSrcOrigin PROVE Inv'
  <2>1. op # Idle /\ op.phase = "de" /\ batch_size \in Nat /\ batch_setup_size \in Nat
        /\ batch_size <= HighWatermark /\ batch_setup_size <= batch_size
        /\ batch_setup_size <= MaxSetup /\ reloc_size \in Nat /\ reloc_size <= 2
        /\ reloc_setup_size \in Nat /\ reloc_setup_size <= 2 /\ fits
    BY <1>6 DEF DeOpSrcOrigin, Inv, Sizes, BelowWatermark, BatchFits
  <2>2. Minus(HighWatermark, batch_size) = HighWatermark - batch_size
    BY <2>1, Remaining
  <2>3. Draw2dSize(1) + 6 + 2 = 12
    BY DEF Draw2dSize
  <2>4. /\ batch_size' \in Nat /\ batch_setup_size <= batch_size'
        /\ batch_size' <= HighWatermark
        /\ reloc_size' \in {reloc_size, reloc_setup_size}
    BY <1>6, <2>1, <2>2, <2>3, Watermarks, ChipAssumption DEF DeOpSrcOrigin, MaxSetup
  <2>5. Fits(DeEndTop, DeEndRelocs)
    BY <2>1, Ending
  <2>6. Fits(batch_size', reloc_size)
    BY <2>1, <2>4, Watermarks, ChipAssumption DEF Fits, MAX_BATCH_SIZE, MAX_RELOC_SIZE
  <2>7. fits'
    BY <1>6, <2>1, <2>5, <2>6 DEF DeOpSrcOrigin
  <2>8. UNCHANGED <<op, batch_setup_size, reloc_setup_size, nBox>>
    BY <1>6 DEF DeOpSrcOrigin
  <2> QED
    BY <2>1, <2>4, <2>7, <2>8
       DEF Inv, Sizes, BelowWatermark, BatchFits, HighWatermark
<1>7. ASSUME DeEnd PROVE Inv'
  <2>1. batch_size \in Nat /\ batch_size <= HighWatermark
        /\ reloc_size \in Nat /\ reloc_size <= 2 /\ fits
    BY <1>7 DEF DeEnd, Inv, Sizes, BelowWatermark, BatchFits
  <2>2. Fits(DeEndTop, DeEndRelocs) /\ DeEndRelocs \in Nat
    BY <2>1, Ending
  <2>3. WorkaroundSize \in Nat
    BY ChipAssumption
       DEF WorkaroundSize, Draw2dSize, gc320_wa, DeStartSize, BeforeClip,
           BeforeBlend, SourceSize, DestSize, BlendSize, BrushSize, ClipSize,
           RotateSize
  <2>4. batch_size' \in Nat
    BY <1>7, <2>1, <2>3, ChipAssumption
       DEF DeEnd, BATCH_WA_FLUSH_SIZE, BATCH_WA_FLUSH_NOPS
  <2> QED
    BY <1>7, <2>1, <2>2, <2>4 DEF DeEnd, Inv, Sizes, BelowWatermark, BatchFits
<1>8. ASSUME NEW planes \in {1, 3}, NEW n \in Counts, VrStart(planes, n) PROVE Inv'
  <2>1. op' \in [phase : {"vr"}] /\ op'.phase = "vr" /\ op' # Idle
    BY <1>8 DEF VrStart, Idle
  <2>2. /\ batch_size' \in Nat /\ batch_size' <= MaxSetup
        /\ batch_setup_size' = batch_size' /\ reloc_size' \in {2, 4}
        /\ reloc_setup_size' = reloc_size' /\ nBox' = n
    BY <1>8 DEF VrStart, MaxSetup, DestSize
  <2>0. Fits(batch_size', reloc_size')
    BY <2>2 DEF Fits, MaxSetup, MAX_BATCH_SIZE, MAX_RELOC_SIZE
  <2>3. fits'
    BY <1>8, <2>0 DEF VrStart, Inv, BatchFits
  <2> QED
    BY <2>1, <2>2, <2>3, CountsAssumption
       DEF Inv, Sizes, BelowWatermark, BatchFits, MaxSetup, MAX_BATCH_SIZE
<1>9. ASSUME VrBox PROVE Inv'
  <2>1. op # Idle /\ op.phase = "vr" /\ batch_size \in Nat /\ batch_setup_size \in Nat
        /\ batch_size <= 1024 /\ batch_setup_size <= batch_size
        /\ batch_setup_size <= 28 /\ reloc_size \in Nat /\ reloc_size <= 4
        /\ reloc_setup_size \in Nat /\ reloc_setup_size <= 4 /\ fits
        /\ nBox \in Nat /\ nBox > 0
    BY <1>9 DEF VrBox, Inv, Sizes, BelowWatermark, BatchFits, MAX_BATCH_SIZE, MaxSetup
  <2>2. /\ batch_size' \in Nat /\ batch_setup_size <= batch_size'
        /\ batch_size' <= 1024
        /\ reloc_size' \in {reloc_size, reloc_setup_size}
        /\ nBox' \in Nat
    BY <1>9, <2>1 DEF VrBox, Minus, MAX_BATCH_SIZE
  <2>0. Fits(batch_size', reloc_size)
    BY <2>1, <2>2 DEF Fits, MAX_BATCH_SIZE, MAX_RELOC_SIZE
  <2>3. fits'
    BY <1>9, <2>0, <2>1 DEF VrBox
  <2>4. UNCHANGED <<op, batch_setup_size, reloc_setup_size>>
    BY <1>9 DEF VrBox
  <2> QED
    BY <2>1, <2>2, <2>3, <2>4
       DEF Inv, Sizes, BelowWatermark, BatchFits, MAX_BATCH_SIZE
<1>10. ASSUME VrEnd PROVE Inv'
  BY <1>10 DEF VrEnd, Inv, Sizes, BelowWatermark, BatchFits
<1>11. CASE UNCHANGED vars
  BY <1>11 DEF vars, Inv, Sizes, BelowWatermark, BatchFits, HighWatermark
<1> QED
  BY <1>1, <1>2, <1>3, <1>4, <1>5, <1>6, <1>7, <1>8, <1>9, <1>10, <1>11 DEF Next

(* No block passes the end of the batch buffer, no relocation the end of   *)
(* its table, and the difference to the watermark never wraps: the         *)
(* assertions of EL_START hold.                                            *)
THEOREM BatchFitsCorrect == Spec => [](BatchFits /\ BelowWatermark)
<1>1. Inv => BatchFits /\ BelowWatermark
  BY DEF Inv
<1> QED
  BY <1>1, InitInv, NextInv, PTL DEF Spec

-----------------------------------------------------------------------------
(* The boxes.  Only the loops of a call have boxes left, and only an       *)
(* operation that was started has boxes in its batch.                      *)
Boxes ==
  /\ drawn \in Nat
  /\ owed = drawn + nBox
  /\ op = Idle => drawn = 0
  /\ nBox # 0 => op # Idle /\ op.phase \in {"de_op", "vr"}

LEMMA InitBoxes == Init => Boxes
BY DEF Init, Boxes, Idle

(* A batch that is emitted takes its boxes from those that are owed.       *)
LEMMA NextBatchBoxes ==
  ASSUME Inv, Boxes, op # Idle, NextBatch, UNCHANGED <<op, nBox>>
  PROVE  Boxes'
BY DEF Inv, Sizes, Boxes, NextBatch, Emit

(* A block of boxes moves them from the loop to the batch.                 *)
LEMMA DrawBoxes ==
  ASSUME Inv, Boxes, InDeOp, NEW n \in Nat, NEW words,
         Draw(n, words), nBox' = nBox - n, UNCHANGED op
  PROVE  Boxes'
BY DEF Inv, Sizes, Boxes, Draw, InDeOp

LEMMA NextBoxes == Inv /\ Boxes /\ [Next]_vars => Boxes'
<1> SUFFICES ASSUME Inv, Boxes, [Next]_vars PROVE Boxes'
  OBVIOUS
<1>0. nBox \in Nat /\ drawn \in Nat
  BY DEF Inv, Sizes, Boxes
<1>1. ASSUME NEW d \in DeOps, DeStart(d) PROVE Boxes'
  BY <1>0, <1>1 DEF DeStart, Boxes, Idle
<1>2. ASSUME NEW n \in Counts, DeOp(n) PROVE Boxes'
  <2>1. op' # Idle /\ op'.phase = "de_op" /\ nBox = 0
    BY <1>2 DEF DeOp, Inv, Idle, Boxes
  <2>2. n \in Nat
    BY CountsAssumption
  <2> QED
    BY <1>0, <1>2, <2>1, <2>2 DEF DeOp, Boxes
<1>3. ASSUME DeOpSingle PROVE Boxes'
  <2>1. CASE Draw2dSize(1) + 6 > Minus(HighWatermark, batch_size)
    BY <1>3, <2>1, NextBatchBoxes DEF DeOpSingle, InDeOp
  <2>2. CASE ~(Draw2dSize(1) + 6 > Minus(HighWatermark, batch_size))
    BY <1>3, <2>2, DrawBoxes DEF DeOpSingle
  <2> QED
    BY <2>1, <2>2
<1>4. ASSUME DeOpMany PROVE Boxes'
  <2> DEFINE remaining == Minus(HighWatermark, batch_size)
             n         == Fitting(remaining)
  <2>1. CASE remaining <= 8
    BY <1>4, <2>1, NextBatchBoxes DEF DeOpMany, InDeOp
  <2>2. CASE ~(remaining <= 8)
    <3>1. InDeOp /\ op.phase # "vr" /\ op # Idle
      BY <1>4 DEF DeOpMany, InDeOp
    <3>2. remaining = HighWatermark - batch_size /\ remaining \in Nat
      BY <3>1, Remaining, Watermarks, ChipAssumption DEF Inv, Sizes, BelowWatermark
    <3>3. n \in Nat
      BY <1>0, <2>2, <3>2, FittingFits
    <3>4. Draw(n, Draw2dSize(n) + 6) /\ nBox' = nBox - n /\ UNCHANGED op
      BY <1>4, <2>2 DEF DeOpMany
    <3> HIDE DEF n
    <3> QED
      BY <3>1, <3>3, <3>4, DrawBoxes
  <2> QED
    BY <2>1, <2>2
<1>5. ASSUME DeOpReturns PROVE Boxes'
  <2>1. op' # Idle
    BY <1>5 DEF DeOpReturns, InDeOp, Inv, Idle
  <2> QED
    BY <1>0, <1>5, <2>1 DEF DeOpReturns, InDeOp, Boxes
<1>6. ASSUME DeOpSrcOrigin PROVE Boxes'
  BY <1>0, <1>6 DEF DeOpSrcOrigin, Boxes
<1>7. ASSUME DeEnd PROVE Boxes'
  BY <1>0, <1>7 DEF DeEnd, Emit, Boxes
<1>8. ASSUME NEW planes \in {1, 3}, NEW n \in Counts, VrStart(planes, n) PROVE Boxes'
  BY <1>8, CountsAssumption DEF VrStart, Boxes, Idle
<1>9. ASSUME VrBox PROVE Boxes'
  BY <1>0, <1>9 DEF VrBox, Boxes
<1>10. ASSUME VrEnd PROVE Boxes'
  BY <1>0, <1>10 DEF VrEnd, Emit, Boxes
<1>11. CASE UNCHANGED vars
  BY <1>11 DEF vars, Boxes
<1> QED
  BY <1>1, <1>2, <1>3, <1>4, <1>5, <1>6, <1>7, <1>8, <1>9, <1>10, <1>11 DEF Next

(* Every box of a call is drawn once, whatever the batches it is cut into: *)
(* a box that was asked for is emitted, is in the batch or is left to      *)
(* draw, and the end of an operation leaves none behind.                   *)
THEOREM BoxesDrawnOnceCorrect == Spec => []BoxesDrawnOnce
<1>1. Inv /\ Boxes => BoxesDrawnOnce
  BY DEF Inv, Sizes, Boxes, BoxesDrawnOnce, Idle
<1> QED
  BY <1>1, InitInv, NextInv, InitBoxes, NextBoxes, PTL DEF Spec

-----------------------------------------------------------------------------
(* The Render requests.                                                    *)


(* Pixels as they are stored and read, and the blends that are made.       *)
WordOf == [hi : 0 .. One, lo : 0 .. One]
Values == [a : 0 .. One, c : 0 .. One]
Modes  == {"ZERO", "ONE", "NORMAL", "INVERSED"}
Blends ==
  [src_mode : Modes, dst_mode : Modes,
   src_alpha_mode : {"NORMAL", "SCALED", "GLOBAL"}, src_alpha : 0 .. One,
   dst_alpha_mode : {"NORMAL", "GLOBAL"}, dst_alpha : 0 .. One]

(* A channel times one, and times nothing.                                 *)
LEMMA MulFacts ==
  ASSUME NEW a \in 0 .. One
  PROVE  Mul(a, One) = a /\ Mul(One, a) = a /\ Mul(a, 0) = 0 /\ Mul(0, a) = 0
BY DEF Mul, One

(* The product of two channels is one.                                     *)
LEMMA MulRange ==
  ASSUME NEW a \in 0 .. One, NEW b \in 0 .. One
  PROVE  Mul(a, b) \in 0 .. One
<1>1. a * b \in Nat /\ a * b <= 16 * 16
  <2>1. a \in Nat /\ b \in Nat /\ a <= 16 /\ b <= 16
    BY DEF One
  <2>2. a * b <= 16 * b
    BY <2>1
  <2>3. a * b \in Nat
    BY <2>1
  <2> QED BY <2>1, <2>2, <2>3
<1>2. \A n \in Nat : n <= 16 * 16 => n \div 16 \in 0 .. 16
  OBVIOUS
<1> QED BY <1>1, <1>2 DEF Mul, One

(* A channel is not cut off.                                               *)
LEMMA MinFacts ==
  ASSUME NEW x \in 0 .. One
  PROVE  Min({One, x}) = x
<1>1. x \in {One, x} /\ \A y \in {One, x} : x <= y
  BY DEF One
<1>2. \A z \in {One, x} : (\A y \in {One, x} : z <= y) => z = x
  BY DEF One
<1> QED BY <1>1, <1>2 DEF Min

(* The operators and the formats, as sets.                                 *)
LEMMA OpsAre ==
  Ops = {"Clear", "Src", "Dst", "Over", "OverReverse", "In", "InReverse", "Out", "OutReverse",
         "Atop", "AtopReverse", "Xor", "Add"}
BY DEF Ops, CompositeOp

LEMMA FormatsAre ==
  PictFormats = {"a8r8g8b8", "x8r8g8b8", "b8g8r8a8", "b8g8r8x8", "a1r5g5b5", "x1r5g5b5", "r5g6b5", "a8"}
BY DEF PictFormats, PictFormat

(* Reading what was written.                                               *)
LEMMA ReadWrite ==
  ASSUME NEW f \in PictFormats, NEW a1, NEW c1, NEW a2, NEW c2,
         c1 = c2, HasA(f) => a1 = a2
  PROVE  Read(PictFormat[f], Write(WithAlpha(PictFormat[f]), [a |-> a1, c |-> c1]))
           = Read(PictFormat[f], Write(PictFormat[f], [a |-> a2, c |-> c2]))
BY FormatsAre
   DEF PictFormat, Format, HasA, AlphaFormats, Read, Write, WithAlpha, AlphaBits, NonAlpha, TopBit,
       One, Half

(* A pixel that is read has channels of the range.                         *)
LEMMA ReadValue ==
  ASSUME NEW f \in PictFormats, NEW w \in WordOf
  PROVE  Read(PictFormat[f], w) \in Values
BY FormatsAre DEF PictFormat, Format, AlphaFormats, Read, AlphaBits, NonAlpha, TopBit, One, Half, Values, WordOf

(* The operator's blend modes are the factors that Render has for it.      *)
LEMMA OpModes ==
  ASSUME NEW o \in Ops
  PROVE  LET b == CompositeOp[o]
         IN  /\ b = Blend(b.src_mode, b.dst_mode)
             /\ b.src_mode \in {"ZERO", "ONE", "NORMAL", "INVERSED"}
             /\ b.dst_mode \in {"ZERO", "ONE", "NORMAL", "INVERSED"}
             /\ \A a, c : RenderFa(o, a) = Factor(b.src_mode, a, c)
             /\ \A a, c : RenderFb(o, a) = Factor(b.dst_mode, a, c)
BY OpsAre DEF CompositeOp, Blend, RenderFa, RenderFb, Factor

(* The destination is blended as a format with alpha: its colour is right, *)
(* and its alpha is where it has one; where not, Render takes One.         *)
LEMMA DstValue ==
  ASSUME NEW f \in PictFormats, NEW d \in WordOf
  PROVE  LET fmt == PictFormat[f]
         IN  /\ ReadDst(WithAlpha(fmt), d).c = Read(fmt, d).c
             /\ HasA(f) => ReadDst(WithAlpha(fmt), d).a = Read(fmt, d).a
             /\ ~HasA(f) => Read(fmt, d).a = One
             /\ NonAlpha(fmt) <=> ~HasA(f)
             /\ ReadDst(WithAlpha(fmt), d) \in Values
             /\ Read(WithAlpha(fmt), d) \in Values
BY FormatsAre
   DEF PictFormat, Format, HasA, AlphaFormats, Read, ReadDst, WithAlpha, AlphaBits, NonAlpha, TopBit,
       One, Half, WordOf, Values

(* An operator that uses the source's alpha is not done to a destination   *)
(* where PE1.0 would limit that alpha, except for a1r5g5b5.                *)
LEMMA NotLimited ==
  ASSUME NEW f \in PictFormats, NEW o \in Ops, o # "Clear", NEW x,
         DstAccepted(o, PictFormat[f]), UsesSourceAlpha(CompositeOp[o]),
         pe20 \/ f # "a1r5g5b5"
  PROVE  Limited(WithAlpha(PictFormat[f]), x) = x
<1>1. DstBlend(o, PictFormat[f]).dst_mode = CompositeOp[o].dst_mode
  BY OpModes DEF DstBlend, Blend
<1>2. UsesSourceAlpha(DstBlend(o, PictFormat[f]))
  BY <1>1 DEF UsesSourceAlpha
<1> QED
  BY <1>2, FormatsAre DEF DstAccepted, PictFormat, Format, Limited, WithAlpha, NonAlpha, AlphaFormats

(* The blends that are made.                                               *)
LEMMA BlendTypes ==
  ASSUME NEW o \in Ops, NEW fmt
  PROVE  /\ CompositeOp[o] \in Blends /\ DstBlend(o, fmt) \in Blends
         /\ DstBlend(o, fmt).dst_mode = CompositeOp[o].dst_mode
         /\ DstBlend(o, fmt).src_alpha_mode = "NORMAL"
         /\ DstBlend(o, fmt).dst_alpha_mode = "NORMAL"
         /\ \A alpha \in 0 .. One, scaled \in BOOLEAN :
              GlobalAlpha(DstBlend(o, fmt), alpha, scaled) \in Blends
<1>1. CompositeOp[o] = Blend(CompositeOp[o].src_mode, CompositeOp[o].dst_mode)
      /\ CompositeOp[o].src_mode \in Modes /\ CompositeOp[o].dst_mode \in Modes
  BY OpModes DEF Modes
<1>2. CompositeOp[o] \in Blends /\ CompositeOp[o].src_alpha_mode = "NORMAL"
      /\ CompositeOp[o].dst_alpha_mode = "NORMAL"
  BY <1>1 DEF Blend, Blends, One
<1>3. /\ DstBlend(o, fmt) \in Blends
      /\ DstBlend(o, fmt).dst_mode = CompositeOp[o].dst_mode
      /\ DstBlend(o, fmt).src_alpha_mode = "NORMAL"
      /\ DstBlend(o, fmt).dst_alpha_mode = "NORMAL"
  BY <1>2 DEF DstBlend, Blends, Modes
<1>4. ASSUME NEW alpha \in 0 .. One, NEW scaled \in BOOLEAN
      PROVE  GlobalAlpha(DstBlend(o, fmt), alpha, scaled) \in Blends
  BY <1>3 DEF GlobalAlpha, Blends, Modes, One
<1> QED BY <1>2, <1>3, <1>4

(* What Render asks for, of a source and a destination.                    *)
Rendered(o, v, d) ==
  LET f == RenderFa(o, d.a)
  IN  [a |-> Min({One, Mul(v.a, f) + Mul(d.a, RenderFb(o, v.a))}),
       c |-> Min({One, Mul(v.c, f) + Mul(d.c, RenderFb(o, v.ca))})]

(* A blit whose source is read as src IN mask is what Render asks for.     *)
(* Both sides round in the same places, so it is an equality.              *)
LEMMA BlendWhole ==
  ASSUME NEW f \in PictFormats, NEW o \in Ops, o # "Clear", NEW d \in WordOf,
         NEW b, NEW sfmt, NEW s, NEW v,
         b.src_mode = DstBlend(o, PictFormat[f]).src_mode,
         b.dst_mode = CompositeOp[o].dst_mode, b.dst_alpha_mode = "NORMAL",
         SrcAlpha(b, sfmt, s) = v.a, Read(sfmt, s).c = v.c,
         UsesSourceAlpha(CompositeOp[o]) =>
           v.ca = v.a /\ Limited(WithAlpha(PictFormat[f]), v.a) = v.a
  PROVE  Read(PictFormat[f], GpuBlend(b, sfmt, s, WithAlpha(PictFormat[f]), d))
           = Read(PictFormat[f], Write(PictFormat[f], Rendered(o, v, Read(PictFormat[f], d))))
<1> DEFINE fmt == PictFormat[f]
           dv  == ReadDst(WithAlpha(fmt), d)
           r   == Read(fmt, d)
           fa  == Factor(b.src_mode, dv.a, dv.a)
           fb  == Limited(WithAlpha(fmt), v.a)
           co  == CompositeOp[o]
           a1  == Min({One, Mul(v.a, fa) + Mul(dv.a, Factor(b.dst_mode, fb, fb))})
           c1  == Min({One, Mul(v.c, fa) + Mul(dv.c, Factor(b.dst_mode, fb, v.c))})
           a2  == Min({One, Mul(v.a, RenderFa(o, r.a)) + Mul(r.a, RenderFb(o, v.a))})
           c2  == Min({One, Mul(v.c, RenderFa(o, r.a)) + Mul(r.c, RenderFb(o, v.ca))})
<1>1. GpuBlend(b, sfmt, s, WithAlpha(fmt), d) = Write(WithAlpha(fmt), [a |-> a1, c |-> c1])
  BY DEF GpuBlend
<1>2. Rendered(o, v, r) = [a |-> a2, c |-> c2]
  BY DEF Rendered
<1>3. /\ co = Blend(co.src_mode, co.dst_mode)
      /\ co.src_mode \in {"ZERO", "ONE", "NORMAL", "INVERSED"}
      /\ co.dst_mode \in {"ZERO", "ONE", "NORMAL", "INVERSED"}
      /\ \A a, c : RenderFa(o, a) = Factor(co.src_mode, a, c)
      /\ \A a, c : RenderFb(o, a) = Factor(co.dst_mode, a, c)
  BY OpModes
<1>4. fa = RenderFa(o, r.a)
  <2>1. CASE HasA(f)
    <3>1. DstBlend(o, fmt) = co
      BY <2>1, DstValue DEF DstBlend
    <3> QED BY <2>1, <3>1, <1>3, DstValue
  <2>2. CASE ~HasA(f)
    <3>1. r.a = One /\ NonAlpha(fmt)
      BY <2>2, DstValue
    <3>2. DstBlend(o, fmt).src_mode = CASE co.src_mode = "NORMAL"   -> "ONE"
                                       [] co.src_mode = "INVERSED" -> "ZERO"
                                       [] OTHER                   -> co.src_mode
      BY <3>1, <1>3 DEF DstBlend, Blend
    <3>3. RenderFa(o, r.a) = Factor(co.src_mode, One, One)
      BY <3>1, <1>3
    <3> QED BY <3>2, <3>3, <1>3 DEF Factor, One
  <2> QED BY <2>1, <2>2
<1>5. /\ Factor(b.dst_mode, fb, fb) = RenderFb(o, v.a)
      /\ Factor(b.dst_mode, fb, v.c) = RenderFb(o, v.ca)
  <2>1. CASE UsesSourceAlpha(co)
    BY <2>1, <1>3
  <2>2. CASE ~UsesSourceAlpha(co)
    <3>1. co.dst_mode \in {"ZERO", "ONE"}
      BY <2>2 DEF UsesSourceAlpha
    <3>2. /\ RenderFb(o, v.a) = Factor(co.dst_mode, v.a, v.c)
          /\ RenderFb(o, v.ca) = Factor(co.dst_mode, v.ca, v.c)
      BY <1>3
    <3> QED BY <3>1, <3>2 DEF Factor
  <2> QED BY <2>1, <2>2
<1>6. dv.c = r.c /\ (HasA(f) => dv.a = r.a)
  BY DstValue
<1>7. c1 = c2 /\ (HasA(f) => a1 = a2)
  BY <1>4, <1>5, <1>6
<1> HIDE DEF a1, c1, a2, c2
<1> QED BY <1>1, <1>2, <1>7, ReadWrite

(* So is one whose source is read without its mask, when the alpha of the  *)
(* mask is the engine's global alpha on both sides.                        *)
LEMMA BlendScaled ==
  ASSUME NEW f \in PictFormats, NEW o \in Ops, o # "Clear", NEW d \in WordOf,
         NEW alpha \in 0 .. One, NEW scaled, NEW b \in Blends, NEW sfmt, NEW s,
         NEW va \in 0 .. One, NEW vc \in 0 .. One,
         LET g == GlobalAlpha(DstBlend(o, PictFormat[f]), alpha, scaled)
         IN  /\ b.src_mode = g.src_mode /\ b.dst_mode = g.dst_mode
             /\ b.dst_alpha_mode = g.dst_alpha_mode /\ b.dst_alpha = g.dst_alpha,
         SrcAlpha(b, sfmt, s) \in 0 .. One, Read(sfmt, s).c = vc,
         UsesSourceAlpha(CompositeOp[o]) =>
           /\ SrcAlpha(b, sfmt, s) = Mul(va, alpha)
           /\ Limited(WithAlpha(PictFormat[f]), Mul(va, alpha)) = Mul(va, alpha),
         DstBlend(o, PictFormat[f]).src_mode # "ZERO" => ~HasA(f)
  PROVE  LET v == [a |-> Mul(va, alpha), c |-> Mul(vc, alpha), ca |-> Mul(va, alpha)]
         IN  Read(PictFormat[f], GpuBlend(b, sfmt, s, WithAlpha(PictFormat[f]), d))
               = Read(PictFormat[f], Write(PictFormat[f], Rendered(o, v, Read(PictFormat[f], d))))
<1> DEFINE fmt == PictFormat[f]
           co  == CompositeOp[o]
           ob  == DstBlend(o, fmt)
           v   == [a |-> Mul(va, alpha), c |-> Mul(vc, alpha), ca |-> Mul(va, alpha)]
           dv  == ReadDst(WithAlpha(fmt), d)
           da  == IF b.dst_alpha_mode = "GLOBAL" THEN b.dst_alpha ELSE dv.a
           r   == Read(fmt, d)
           sa  == SrcAlpha(b, sfmt, s)
           fa  == Factor(b.src_mode, da, da)
           fb  == Limited(WithAlpha(fmt), sa)
           a1  == Min({One, Mul(sa, fa) + Mul(dv.a, Factor(b.dst_mode, fb, fb))})
           c1  == Min({One, Mul(vc, fa) + Mul(dv.c, Factor(b.dst_mode, fb, vc))})
           a2  == Min({One, Mul(v.a, RenderFa(o, r.a)) + Mul(r.a, RenderFb(o, v.a))})
           c2  == Min({One, Mul(v.c, RenderFa(o, r.a)) + Mul(r.c, RenderFb(o, v.ca))})
<1>1. GpuBlend(b, sfmt, s, WithAlpha(fmt), d) = Write(WithAlpha(fmt), [a |-> a1, c |-> c1])
  BY DEF GpuBlend
<1>2. Rendered(o, v, r) = [a |-> a2, c |-> c2]
  BY DEF Rendered
<1>3. /\ co = Blend(co.src_mode, co.dst_mode)
      /\ co.src_mode \in {"ZERO", "ONE", "NORMAL", "INVERSED"}
      /\ co.dst_mode \in {"ZERO", "ONE", "NORMAL", "INVERSED"}
      /\ \A a, c : RenderFa(o, a) = Factor(co.src_mode, a, c)
      /\ \A a, c : RenderFb(o, a) = Factor(co.dst_mode, a, c)
  BY OpModes
<1>4. /\ dv.c = r.c /\ (HasA(f) => dv.a = r.a) /\ (~HasA(f) => r.a = One)
      /\ NonAlpha(fmt) <=> ~HasA(f)
      /\ r.a \in 0 .. One
  BY DstValue, ReadValue DEF Values
<1>5. ob.dst_mode = co.dst_mode /\ ob.src_mode \in {"ZERO", "ONE", "NORMAL", "INVERSED"}
  BY <1>3 DEF DstBlend, Blend
<1>6. b.dst_mode = co.dst_mode
  BY <1>5 DEF GlobalAlpha
<1>7. /\ Factor(b.dst_mode, fb, fb) = RenderFb(o, v.a)
      /\ Factor(b.dst_mode, fb, vc) = RenderFb(o, v.ca)
  <2>1. CASE UsesSourceAlpha(co)
    <3>1. fb = v.a /\ v.ca = v.a
      BY <2>1
    <3>2. co.dst_mode \in {"NORMAL", "INVERSED"}
      BY <2>1, <1>3 DEF UsesSourceAlpha
    <3>3. RenderFb(o, v.a) = Factor(co.dst_mode, v.a, v.a)
      BY <1>3
    <3> QED BY <3>1, <3>2, <3>3, <1>6 DEF Factor
  <2>2. CASE ~UsesSourceAlpha(co)
    <3>1. co.dst_mode \in {"ZERO", "ONE"}
      BY <2>2 DEF UsesSourceAlpha
    <3>2. /\ RenderFb(o, v.a) = Factor(co.dst_mode, v.a, v.c)
          /\ RenderFb(o, v.ca) = Factor(co.dst_mode, v.ca, v.c)
      BY <1>3
    <3> QED BY <3>1, <3>2, <1>6 DEF Factor
  <2> QED BY <2>1, <2>2
<1>8. Mul(va, alpha) \in 0 .. One /\ Mul(vc, alpha) \in 0 .. One
  BY MulRange
<1>9. ASSUME ob.src_mode = "ZERO" PROVE c1 = c2 /\ (HasA(f) => a1 = a2)
  <2>1. b.src_mode = "ZERO" /\ fa = 0
    BY <1>9 DEF GlobalAlpha, Factor
  <2>2. RenderFa(o, r.a) = 0
    <3>1. CASE HasA(f)
      <4>1. co.src_mode = "ZERO"
        BY <3>1, <1>4, <1>9 DEF DstBlend
      <4> QED BY <4>1, <1>3 DEF Factor
    <3>2. CASE ~HasA(f)
      <4>1. co.src_mode \in {"ZERO", "INVERSED"}
        BY <3>2, <1>3, <1>4, <1>9 DEF DstBlend, Blend
      <4>2. RenderFa(o, r.a) = Factor(co.src_mode, One, One)
        BY <3>2, <1>3, <1>4
      <4> QED BY <4>1, <4>2 DEF Factor, One
    <3> QED BY <3>1, <3>2
  <2>3. Mul(vc, fa) = 0 /\ Mul(v.c, RenderFa(o, r.a)) = 0 /\ Mul(v.a, RenderFa(o, r.a)) = 0
    BY <2>1, <2>2, <1>8, MulFacts
  <2>4. Mul(sa, fa) = 0
    BY <2>1, MulFacts
  <2> HIDE DEF dv, da, r, sa, fa, fb
  <2> QED BY <2>3, <2>4, <1>4, <1>7
<1>10. ASSUME ob.src_mode # "ZERO" PROVE ~HasA(f) /\ c1 = c2
  <2>1. ~HasA(f)
    BY <1>10
  <2>2. co.src_mode \in {"ONE", "NORMAL"} /\ ob.src_mode = "ONE"
    BY <2>1, <1>10, <1>3, <1>4 DEF DstBlend, Blend
  <2>3. fa = alpha
    BY <2>2 DEF GlobalAlpha, Factor
  <2>4. RenderFa(o, r.a) = One
    <3>1. RenderFa(o, r.a) = Factor(co.src_mode, One, One)
      BY <2>1, <1>3, <1>4
    <3> QED BY <3>1, <2>2 DEF Factor
  <2>5. Mul(v.c, RenderFa(o, r.a)) = Mul(vc, fa)
    BY <2>3, <2>4, <1>8, MulFacts
  <2> HIDE DEF dv, da, r, sa, fa, fb
  <2> QED BY <2>1, <2>5, <1>4, <1>7
<1>11. c1 = c2 /\ (HasA(f) => a1 = a2)
  BY <1>9, <1>10
<1> HIDE DEF a1, c1, a2, c2
<1> QED BY <1>1, <1>2, <1>11, ReadWrite

-----------------------------------------------------------------------------
(* The alpha of a source as the engine takes it.                           *)

LEMMA SourceAlpha ==
  ASSUME NEW f \in PictFormats, NEW w \in WordOf, NEW b \in Blends
  PROVE  LET sfmt == WithAlpha(PictFormat[f])
             v    == Read(PictFormat[f], w)
         IN  /\ Read(sfmt, w).c = v.c
             /\ b.src_alpha_mode = "NORMAL" => SrcAlpha(Opaque(b, PictFormat[f]), sfmt, w) = v.a
             /\ b.src_alpha_mode = "SCALED" /\ HasA(f) =>
                  /\ Opaque(b, PictFormat[f]) = b
                  /\ SrcAlpha(b, sfmt, w) = Mul(v.a, b.src_alpha)
             /\ b.src_alpha_mode = "GLOBAL" /\ ~HasA(f) /\ f # "r5g6b5" =>
                  /\ Opaque(b, PictFormat[f]) = b
                  /\ SrcAlpha(b, sfmt, w) = b.src_alpha
                  /\ v.a = One
<1> DEFINE sfmt == WithAlpha(PictFormat[f])
           v    == Read(PictFormat[f], w)
<1>1. /\ Read(sfmt, w).c = v.c
      /\ NonAlpha(PictFormat[f]) <=> ~HasA(f)
      /\ HasA(f) => sfmt = PictFormat[f] /\ v.a = AlphaBits(sfmt, w)
      /\ ~HasA(f) => v.a = One
      /\ ~HasA(f) /\ f # "r5g6b5" => ~NonAlpha(sfmt)
      /\ f = "r5g6b5" => sfmt = PictFormat[f]
  BY FormatsAre
     DEF PictFormat, Format, HasA, AlphaFormats, Read, WithAlpha, AlphaBits, NonAlpha, TopBit
<1>2. ASSUME b.src_alpha_mode = "NORMAL"
      PROVE  SrcAlpha(Opaque(b, PictFormat[f]), sfmt, w) = v.a
  <2>1. CASE HasA(f)
    <3>1. Opaque(b, PictFormat[f]) = b
      BY <1>1, <2>1 DEF Opaque
    <3> QED BY <1>1, <1>2, <2>1, <3>1 DEF SrcAlpha
  <2>2. CASE ~HasA(f)
    <3> DEFINE ob == [b EXCEPT !.src_alpha_mode = "GLOBAL", !.src_alpha = One]
    <3>1. Opaque(b, PictFormat[f]) = ob
      BY <1>1, <1>2, <2>2 DEF Opaque
    <3>0. ob.src_alpha_mode = "GLOBAL" /\ ob.src_alpha = One
      BY DEF Blends
    <3> HIDE DEF ob
    <3>2. CASE f # "r5g6b5"
      BY <1>1, <2>2, <3>0, <3>1, <3>2 DEF SrcAlpha
    <3>3. CASE f = "r5g6b5"
      BY <1>1, <2>2, <3>0, <3>1, <3>3 DEF SrcAlpha
    <3> QED BY <3>2, <3>3
  <2> QED BY <2>1, <2>2
<1>3. ASSUME b.src_alpha_mode = "SCALED", HasA(f)
      PROVE  Opaque(b, PictFormat[f]) = b /\ SrcAlpha(b, sfmt, w) = Mul(v.a, b.src_alpha)
  BY <1>1, <1>3 DEF Opaque, SrcAlpha
<1>4. ASSUME b.src_alpha_mode = "GLOBAL", ~HasA(f), f # "r5g6b5"
      PROVE  Opaque(b, PictFormat[f]) = b /\ SrcAlpha(b, sfmt, w) = b.src_alpha /\ v.a = One
  BY <1>1, <1>4 DEF Opaque, SrcAlpha
<1> QED BY <1>1, <1>2, <1>3, <1>4

(* ... and of the temporary pixmap.                                        *)
LEMMA TempAlpha ==
  ASSUME NEW v \in Values, NEW b
  PROVE  LET w == Write(Argb8888, v)
         IN  /\ Read(Argb8888, w) = v
             /\ w \in WordOf
             /\ b.src_alpha_mode = "NORMAL" => SrcAlpha(b, Argb8888, w) = v.a
             /\ b.src_alpha_mode = "SCALED" => SrcAlpha(b, Argb8888, w) = Mul(v.a, b.src_alpha)
             /\ b.src_alpha_mode = "GLOBAL" => SrcAlpha(b, Argb8888, w) = b.src_alpha
BY DEF Values, WordOf, Argb8888, PictFormat, Format, Read, Write, SrcAlpha, AlphaBits, NonAlpha,
       AlphaFormats

(* A copy into the temporary pixmap, and a mask that is blended with it.   *)
LEMMA CopiedWord ==
  ASSUME NEW f \in PictFormats, NEW w \in WordOf
  PROVE  GpuBlend(Opaque(CompositeOp.Src, PictFormat[f]), WithAlpha(PictFormat[f]), w, Argb8888,
                  [hi |-> 0, lo |-> 0])
           = Write(Argb8888, Read(PictFormat[f], w))
<1> DEFINE b  == Opaque(CompositeOp.Src, PictFormat[f])
           v  == Read(PictFormat[f], w)
           d  == [hi |-> 0, lo |-> 0]
           dv == ReadDst(Argb8888, d)
<1>1. CompositeOp.Src = Blend("ONE", "ZERO")
  BY DEF CompositeOp
<1>2. b.src_mode = "ONE" /\ b.dst_mode = "ZERO" /\ b.dst_alpha_mode = "NORMAL"
  BY <1>1 DEF Opaque, Blend
<1>0. CompositeOp.Src \in Blends
  BY <1>1 DEF Blend, Blends, Modes, One
<1>3. SrcAlpha(b, WithAlpha(PictFormat[f]), w) = v.a /\ Read(WithAlpha(PictFormat[f]), w).c = v.c
  BY <1>0, <1>1, SourceAlpha DEF Blend
<1>4. dv = [a |-> 0, c |-> 0]
  BY DEF ReadDst, Read, Argb8888, PictFormat, Format, NonAlpha, AlphaFormats, AlphaBits
<1>5. v.a \in 0 .. One /\ v.c \in 0 .. One
  BY ReadValue DEF Values
<1>6. Min({One, Mul(v.a, One) + Mul(0, 0)}) = v.a /\ Min({One, Mul(v.c, One) + Mul(0, 0)}) = v.c
  <2>1. Mul(v.a, One) + Mul(0, 0) = v.a /\ Mul(v.c, One) + Mul(0, 0) = v.c
    BY <1>5 DEF Mul, One
  <2> QED BY <2>1, <1>5, MinFacts
<1>7. v = [a |-> v.a, c |-> v.c]
  BY ReadValue DEF Values
<1> HIDE DEF b, v, dv
<1>8. GpuBlend(b, WithAlpha(PictFormat[f]), w, Argb8888, d) = Write(Argb8888, [a |-> v.a, c |-> v.c])
  BY <1>2, <1>3, <1>4, <1>6 DEF GpuBlend, Factor, dv
<1> QED BY <1>7, <1>8 DEF b, v

(* The blend of a mask with what is in the temporary pixmap.               *)
LEMMA MaskedWord ==
  ASSUME NEW f \in PictFormats, NEW w \in WordOf, NEW v \in Values
  PROVE  LET m == Read(PictFormat[f], w)
             t == Write(Argb8888, v)
         IN  /\ GpuBlend(CompositeOp.InReverse, PictFormat[f], w, Argb8888, t)
                  = Write(Argb8888, [a |-> Mul(v.a, m.a), c |-> Mul(v.c, m.a)])
             /\ GpuBlend(Blend("ZERO", "COLOR"), PictFormat[f], w, Argb8888, t)
                  = Write(Argb8888, [a |-> Mul(v.a, m.a), c |-> Mul(v.c, m.c)])
<1> DEFINE m == Read(PictFormat[f], w)
           t == Write(Argb8888, v)
<1>1. CompositeOp.InReverse = Blend("ZERO", "NORMAL")
  BY DEF CompositeOp
<1>2. ReadDst(Argb8888, t) = v
  BY TempAlpha DEF ReadDst, Argb8888, PictFormat, Format, NonAlpha, AlphaFormats
<1>3. \A x : Limited(Argb8888, x) = x
  BY DEF Limited, Argb8888, PictFormat, Format
<1>4. m.a \in 0 .. One /\ m.c \in 0 .. One /\ v.a \in 0 .. One /\ v.c \in 0 .. One
  BY ReadValue DEF Values
<1>5. \A x \in 0 .. One, y \in 0 .. One, z \in 0 .. One : Min({One, Mul(z, 0) + Mul(x, y)}) = Mul(x, y)
  <2> TAKE x \in 0 .. One, y \in 0 .. One, z \in 0 .. One
  <2>1. Mul(x, y) \in 0 .. One /\ Mul(z, 0) = 0
    BY MulRange, MulFacts
  <2>2. Mul(z, 0) + Mul(x, y) = Mul(x, y)
    BY <2>1 DEF One
  <2> QED BY <2>1, <2>2, MinFacts
<1>6. \A d : SrcAlpha(Blend("ZERO", d), PictFormat[f], w) = m.a
  BY DEF SrcAlpha, Blend
<1> HIDE DEF m, t
<1>7. ASSUME NEW d \in {"NORMAL", "COLOR"}
      PROVE  GpuBlend(Blend("ZERO", d), PictFormat[f], w, Argb8888, t)
               = Write(Argb8888, [a |-> Mul(v.a, m.a),
                                  c |-> Mul(v.c, IF d = "NORMAL" THEN m.a ELSE m.c)])
  <2> DEFINE b == Blend("ZERO", d)
  <2>1. b.src_mode = "ZERO" /\ b.dst_mode = d /\ b.dst_alpha_mode = "NORMAL"
    BY DEF Blend
  <2>2. SrcAlpha(b, PictFormat[f], w) = m.a
    BY <1>6
  <2>3. Factor("ZERO", v.a, v.a) = 0 /\ Factor(d, m.a, m.a) = m.a
        /\ Factor(d, m.a, m.c) = IF d = "NORMAL" THEN m.a ELSE m.c
    BY DEF Factor
  <2> HIDE DEF b
  <2>4. GpuBlend(b, PictFormat[f], w, Argb8888, t)
          = Write(Argb8888, [a |-> Min({One, Mul(m.a, 0) + Mul(v.a, m.a)}),
                             c |-> Min({One, Mul(m.c, 0) + Mul(v.c, IF d = "NORMAL" THEN m.a ELSE m.c)})])
    BY <1>2, <1>3, <2>1, <2>2, <2>3 DEF GpuBlend, m
  <2>5. (IF d = "NORMAL" THEN m.a ELSE m.c) \in 0 .. One
    BY <1>4
  <2> QED BY <1>4, <1>5, <2>4, <2>5 DEF b
<1> QED BY <1>1, <1>7 DEF m, t

-----------------------------------------------------------------------------
(* A request of what a client may have, and pixels that can be there.      *)

Asked(r) ==
  /\ r.op \in Ops
  /\ r.src \in RealPictures /\ r.src.pix \in Pixmaps
  /\ r.mask # NoPicture =>
       r.mask \in RealPictures /\ r.mask.pix \in Pixmaps /\ Together(r.src, r.mask)
  /\ r.dst \in RealPictures /\ r.dst.pix \in Pixmaps
  /\ r.dst.kind = "drawable" /\ r.dst.reach = "gpu"

Drawn(w) == w \in [Pixmaps -> WordOf]

(* A picture's pixel: what the engine reads, where it can.                 *)
LEMMA PixelValue ==
  ASSUME NEW p \in RealPictures, p.pix \in Pixmaps, NEW w, Drawn(w)
  PROVE  /\ p.fmt \in PictFormats /\ w[p.pix] \in WordOf
         /\ Pixel(p, w) \in Values
         /\ p.reach \notin {"outside", "alphamap"} =>
              /\ Pixel(p, w) = Read(PictFormat[p.fmt], w[p.pix])
              /\ ~HasA(p.fmt) => Pixel(p, w).a = One
<1>1. p.fmt \in PictFormats /\ w[p.pix] \in WordOf
  BY DEF RealPictures, Pictures, Drawn
<1>2. Read(PictFormat[p.fmt], w[p.pix]) \in Values
  BY <1>1, ReadValue
<1>3. ~HasA(p.fmt) => Read(PictFormat[p.fmt], w[p.pix]).a = One
  BY <1>1, DstValue
<1> HIDE DEF Drawn
<1>4. CASE p.reach = "outside"
  BY <1>1, <1>4 DEF Pixel, Values, One
<1>5. CASE p.reach = "alphamap"
  BY <1>1, <1>2, <1>5 DEF Pixel, Values, One, Half
<1>6. CASE p.reach \notin {"outside", "alphamap"}
  BY <1>1, <1>2, <1>3, <1>6 DEF Pixel
<1> QED BY <1>4, <1>5, <1>6

(* A mask that leaves the source as it is, and one that scales it.         *)
Nothing(m) ==
  \/ m = NoPicture
  \/ Component(m) /\ Solid(m) /\ Argb(m) = [a |-> One, c |-> One]
  \/ ~Component(m) /\ (~HasA(m.fmt) \/ (Solid(m) /\ Argb(m).a = One))
Scales(m) == m # NoPicture /\ ~Component(m) /\ HasA(m.fmt) /\ Solid(m)

(* Masks that are reduced are of these two kinds, ...                      *)
LEMMA Reduced ==
  ASSUME NEW b, NEW r, NEW x \in ReduceMask(b, r)
  PROVE  \/ Nothing(r.mask) /\ x = b
         \/ /\ Scales(r.mask) /\ (b.src_mode = "ZERO" \/ ~HasA(r.dst.fmt))
            /\ x = GlobalAlpha(b, Argb(r.mask).a, HasA(r.src.fmt))
BY DEF ReduceMask, Nothing, Scales

(* ... and those that are not have an alpha, or one of each colour.        *)
LEMMA NotReduced ==
  ASSUME NEW b, NEW r, ReduceMask(b, r) = {}
  PROVE  r.mask # NoPicture /\ (~Component(r.mask) => HasA(r.mask.fmt))
BY DEF ReduceMask

(* With a mask of the first kind src IN mask is the source.                *)
LEMMA InNothing ==
  ASSUME Asked(req), Drawn(word), ~MaskMisread, Nothing(req.mask)
  PROVE  LET v == Pixel(req.src, word)
         IN  In(req.src, req.mask, word) = [a |-> v.a, c |-> v.c, ca |-> v.a]
<1> DEFINE v == Pixel(req.src, word)
           m == req.mask
           k == IF m = NoPicture THEN [a |-> One, c |-> One] ELSE
                IF Component(m) THEN Pixel(m, word) ELSE
                [a |-> Pixel(m, word).a, c |-> Pixel(m, word).a]
<1>1. v.a \in 0 .. One /\ v.c \in 0 .. One
  BY PixelValue DEF Asked, Values
<1>2. k = [a |-> One, c |-> One]
  <2>1. CASE m = NoPicture
    BY <2>1
  <2>2. CASE m # NoPicture
    <3>1. m \in RealPictures /\ m.pix \in Pixmaps
      BY <2>2 DEF Asked
    <3>2. m.reach = "alphamap" => ~Solid(m) /\ HasA(m.fmt)
      BY <2>2 DEF MaskMisread
    <3>3. m.reach = "outside" => ~Solid(m) /\ HasA(m.fmt)
      BY <2>2, <3>1 DEF MaskMisread, RealPictures
    <3>4. m.reach \notin {"outside", "alphamap"}
      BY <2>2, <3>2, <3>3 DEF Nothing
    <3>5. Pixel(m, word) = Argb(m) /\ (~HasA(m.fmt) => Pixel(m, word).a = One)
      BY <3>1, <3>4, PixelValue DEF Argb
    <3> HIDE DEF v, m
    <3> QED BY <2>2, <3>5 DEF Nothing, m
  <2> QED BY <2>1, <2>2
<1>3. In(req.src, req.mask, word) = [a |-> Mul(v.a, k.a), c |-> Mul(v.c, k.c), ca |-> Mul(v.a, k.c)]
  BY DEF In
<1> QED BY <1>1, <1>2, <1>3, MulFacts

(* With one of the second it is the source times the mask's alpha.         *)
LEMMA InScales ==
  ASSUME Asked(req), Drawn(word), ~MaskMisread, Scales(req.mask)
  PROVE  LET v     == Pixel(req.src, word)
             alpha == Argb(req.mask).a
         IN  /\ In(req.src, req.mask, word)
                  = [a |-> Mul(v.a, alpha), c |-> Mul(v.c, alpha), ca |-> Mul(v.a, alpha)]
             /\ alpha \in 0 .. One
<1> DEFINE m == req.mask
<1>1. m # NoPicture /\ m \in RealPictures /\ m.pix \in Pixmaps /\ ~Component(m)
  BY DEF Asked, Scales
<1>2. m.reach \notin {"outside", "alphamap"}
  BY <1>1 DEF Scales, MaskMisread, RealPictures
<1>3. Pixel(m, word) = Argb(m) /\ Argb(m) \in Values
  BY <1>1, <1>2, PixelValue DEF Argb
<1> QED BY <1>1, <1>3 DEF In, Values

(* src IN mask has channels of the range.                                  *)
LEMMA InValue ==
  ASSUME Asked(req), Drawn(word), NEW m \in {NoPicture, req.mask}
  PROVE  LET v == Pixel(req.src, word)
             u == In(req.src, m, word)
         IN  /\ u.a \in 0 .. One /\ u.c \in 0 .. One /\ u.ca \in 0 .. One
             /\ u = [a |-> u.a, c |-> u.c, ca |-> u.ca]
             /\ m = NoPicture \/ ~Component(m) => u.ca = u.a
             /\ m = NoPicture => u = [a |-> v.a, c |-> v.c, ca |-> v.a]
             /\ m # NoPicture => LET k == Pixel(m, word)
                                 IN  /\ u.a = Mul(v.a, k.a)
                                     /\ u.c = Mul(v.c, IF Component(m) THEN k.c ELSE k.a)
<1> DEFINE v == Pixel(req.src, word)
           k == IF m = NoPicture THEN [a |-> One, c |-> One] ELSE
                IF Component(m) THEN Pixel(m, word) ELSE
                [a |-> Pixel(m, word).a, c |-> Pixel(m, word).a]
<1>1. v.a \in 0 .. One /\ v.c \in 0 .. One
  BY PixelValue DEF Asked, Values
<1>2. k.a \in 0 .. One /\ k.c \in 0 .. One
  <2>1. CASE m = NoPicture
    BY <2>1 DEF One
  <2>2. CASE m # NoPicture
    <3>1. Pixel(m, word) \in Values
      BY <2>2, PixelValue DEF Asked
    <3> QED BY <2>2, <3>1 DEF Values
  <2> QED BY <2>1, <2>2
<1>3. In(req.src, m, word) = [a |-> Mul(v.a, k.a), c |-> Mul(v.c, k.c), ca |-> Mul(v.a, k.c)]
  BY DEF In
<1>4. /\ Mul(v.a, k.a) \in 0 .. One /\ Mul(v.c, k.c) \in 0 .. One /\ Mul(v.a, k.c) \in 0 .. One
      /\ Mul(v.a, One) = v.a /\ Mul(v.c, One) = v.c
  BY <1>1, <1>2, MulRange, MulFacts
<1> HIDE DEF v
<1> QED BY <1>3, <1>4 DEF v

-----------------------------------------------------------------------------
(* The final blend, of a source in place of src IN mask.                   *)

Fmt == PictFormat[req.dst.fmt]
Asks == Read(Fmt, Write(Fmt, Render(req, word)))
GivesOf(b, sfmt, s) == Read(Fmt, GpuBlend(b, sfmt, s, dst_format, word[req.dst.pix]))
Gives(b, fs, t) == GivesOf(b, fs.fmt, IF fs.temp THEN t ELSE word[fs.pix])

(* The engine is asked for an operator other than Clear that it can do.    *)
Blendable ==
  /\ Asked(req) /\ Drawn(word)
  /\ dst_format = WithAlpha(Fmt)
  /\ DstAccepted(req.op, Fmt)
  /\ req.op # "Clear"

(* The equation of Render, from what the engine reads of the destination.  *)
LEMMA Destination ==
  ASSUME Asked(req), Drawn(word)
  PROVE  /\ req.op \in Ops /\ req.dst.fmt \in PictFormats
         /\ word[req.dst.pix] \in WordOf
         /\ Render(req, word) = Rendered(req.op, In(req.src, req.mask, word),
                                         Read(Fmt, word[req.dst.pix]))
<1>1. Pixel(req.dst, word) = Read(Fmt, word[req.dst.pix])
  BY DEF Asked, Pixel, Fmt
<1>2. req.dst.fmt \in PictFormats /\ word[req.dst.pix] \in WordOf
  BY PixelValue DEF Asked
<1> QED BY <1>1, <1>2 DEF Asked, Render, Rendered

(* What the engine accepts it does not limit.                              *)
LEMMA Unlimited ==
  ASSUME Blendable, ~Inexact, UsesSourceAlpha(CompositeOp[req.op]), NEW x
  PROVE  Limited(WithAlpha(Fmt), x) = x
<1>1. req.dst.fmt \in PictFormats /\ req.op \in Ops
  BY Destination DEF Blendable
<1>2. pe20 \/ req.dst.fmt # "a1r5g5b5"
  BY DEF Inexact, OneBitAlpha
<1> QED BY <1>1, <1>2, NotLimited DEF Blendable, Fmt

(* The final blend of src IN mask, and of a source that is scaled by the   *)
(* global alpha.                                                           *)
LEMMA GivesWhole ==
  ASSUME Blendable, ~Inexact, NEW b, NEW sfmt, NEW s,
         b.src_mode = DstBlend(req.op, Fmt).src_mode,
         b.dst_mode = DstBlend(req.op, Fmt).dst_mode, b.dst_alpha_mode = "NORMAL",
         LET u == In(req.src, req.mask, word)
         IN  /\ SrcAlpha(b, sfmt, s) = u.a /\ Read(sfmt, s).c = u.c
             /\ UsesSourceAlpha(CompositeOp[req.op]) => u.ca = u.a
  PROVE  GivesOf(b, sfmt, s) = Asks
<1> DEFINE u == In(req.src, req.mask, word)
<1>1. /\ req.op \in Ops /\ req.dst.fmt \in PictFormats /\ word[req.dst.pix] \in WordOf
      /\ Render(req, word) = Rendered(req.op, u, Read(Fmt, word[req.dst.pix]))
  BY Destination DEF Blendable
<1>2. b.dst_mode = CompositeOp[req.op].dst_mode
  BY <1>1, BlendTypes
<1>3. UsesSourceAlpha(CompositeOp[req.op]) => Limited(WithAlpha(Fmt), u.a) = u.a
  BY Unlimited
<1> HIDE DEF u
<1>4. Read(Fmt, GpuBlend(b, sfmt, s, WithAlpha(Fmt), word[req.dst.pix]))
        = Read(Fmt, Write(Fmt, Rendered(req.op, u, Read(Fmt, word[req.dst.pix]))))
  BY <1>1, <1>2, <1>3, BlendWhole DEF Blendable, Fmt, u
<1> QED BY <1>1, <1>4 DEF GivesOf, Asks, Blendable

LEMMA GivesScaled ==
  ASSUME Blendable, ~Inexact, NEW b \in Blends, NEW sfmt, NEW s,
         Scales(req.mask),
         DstBlend(req.op, Fmt).src_mode = "ZERO" \/ ~HasA(req.dst.fmt),
         LET g == GlobalAlpha(DstBlend(req.op, Fmt), Argb(req.mask).a, HasA(req.src.fmt))
         IN  /\ b.src_mode = g.src_mode /\ b.dst_mode = g.dst_mode
             /\ b.dst_alpha_mode = g.dst_alpha_mode /\ b.dst_alpha = g.dst_alpha,
         SrcAlpha(b, sfmt, s) \in 0 .. One,
         LET v == Pixel(req.src, word)
         IN  /\ Read(sfmt, s).c = v.c
             /\ UsesSourceAlpha(CompositeOp[req.op]) =>
                  SrcAlpha(b, sfmt, s) = Mul(v.a, Argb(req.mask).a)
  PROVE  GivesOf(b, sfmt, s) = Asks
<1> DEFINE v     == Pixel(req.src, word)
           alpha == Argb(req.mask).a
           u     == [a |-> Mul(v.a, alpha), c |-> Mul(v.c, alpha), ca |-> Mul(v.a, alpha)]
<1>1. /\ req.op \in Ops /\ req.dst.fmt \in PictFormats /\ word[req.dst.pix] \in WordOf
      /\ Render(req, word) = Rendered(req.op, In(req.src, req.mask, word),
                                      Read(Fmt, word[req.dst.pix]))
  BY Destination DEF Blendable
<1>2. In(req.src, req.mask, word) = u /\ alpha \in 0 .. One
  BY InScales DEF Blendable, Inexact
<1>3. v.a \in 0 .. One /\ v.c \in 0 .. One
  BY PixelValue DEF Blendable, Asked, Values
<1>4. UsesSourceAlpha(CompositeOp[req.op]) =>
        Limited(WithAlpha(Fmt), Mul(v.a, alpha)) = Mul(v.a, alpha)
  BY Unlimited
<1>5. /\ DstBlend(req.op, Fmt).src_mode # "ZERO" => ~HasA(req.dst.fmt)
      /\ Read(sfmt, s).c = v.c
      /\ UsesSourceAlpha(CompositeOp[req.op]) => SrcAlpha(b, sfmt, s) = Mul(v.a, alpha)
      /\ req.op # "Clear"
  BY DEF Blendable
<1> DEFINE f  == req.dst.fmt
           o  == req.op
           d  == word[req.dst.pix]
           va == v.a
           vc == v.c
           sc == HasA(req.src.fmt)
<1>6. /\ f \in PictFormats /\ o \in Ops /\ o # "Clear" /\ d \in WordOf
      /\ alpha \in 0 .. One /\ va \in 0 .. One /\ vc \in 0 .. One
      /\ LET g == GlobalAlpha(DstBlend(o, PictFormat[f]), alpha, sc)
         IN  /\ b.src_mode = g.src_mode /\ b.dst_mode = g.dst_mode
             /\ b.dst_alpha_mode = g.dst_alpha_mode /\ b.dst_alpha = g.dst_alpha
      /\ SrcAlpha(b, sfmt, s) \in 0 .. One /\ Read(sfmt, s).c = vc
      /\ UsesSourceAlpha(CompositeOp[o]) =>
           /\ SrcAlpha(b, sfmt, s) = Mul(va, alpha)
           /\ Limited(WithAlpha(PictFormat[f]), Mul(va, alpha)) = Mul(va, alpha)
      /\ DstBlend(o, PictFormat[f]).src_mode # "ZERO" => ~HasA(f)
  BY <1>1, <1>2, <1>3, <1>4, <1>5 DEF Fmt
<1> HIDE DEF f, o, d, va, vc, sc, alpha
<1>7. Read(PictFormat[f], GpuBlend(b, sfmt, s, WithAlpha(PictFormat[f]), d))
        = Read(PictFormat[f],
               Write(PictFormat[f],
                     Rendered(o, [a |-> Mul(va, alpha), c |-> Mul(vc, alpha), ca |-> Mul(va, alpha)],
                              Read(PictFormat[f], d))))
  BY <1>6, BlendScaled
<1> QED BY <1>1, <1>2, <1>7 DEF GivesOf, Asks, Blendable, Fmt, f, o, d, va, vc, alpha

(* Clear leaves nothing.                                                   *)
LEMMA GivesClear ==
  ASSUME Asked(req), Drawn(word), dst_format = WithAlpha(Fmt), req.op = "Clear"
  PROVE  GivesOf(CompositeOp.Clear, dst_format, word[req.dst.pix]) = Asks
<1> DEFINE f == req.dst.fmt
           d == word[req.dst.pix]
           b == CompositeOp.Clear
           dv == ReadDst(dst_format, d)
           sv == Read(dst_format, d)
           u == In(req.src, req.mask, word)
           r == Read(Fmt, d)
<1>1. /\ f \in PictFormats /\ d \in WordOf
      /\ Render(req, word) = Rendered("Clear", u, r)
  BY Destination
<1>2. b = Blend("ZERO", "ZERO")
  BY DEF CompositeOp
<1>3. /\ SrcAlpha(b, dst_format, d) = sv.a
      /\ b.src_mode = "ZERO" /\ b.dst_mode = "ZERO" /\ b.dst_alpha_mode = "NORMAL"
  BY <1>2 DEF SrcAlpha, Blend
<1>4. sv \in Values /\ dv \in Values
  BY <1>1, DstValue DEF Fmt
<1>5. r \in Values
  BY <1>1, ReadValue DEF Fmt
<1>6. u.a \in 0 .. One /\ u.c \in 0 .. One
  <2>1. CASE req.mask = NoPicture
    BY InValue
  <2>2. CASE req.mask # NoPicture
    BY InValue
  <2> QED BY <2>1, <2>2
<1>7. \A x \in 0 .. One, y \in 0 .. One : Min({One, Mul(x, 0) + Mul(y, 0)}) = 0
  <2> TAKE x \in 0 .. One, y \in 0 .. One
  <2>1. Mul(x, 0) + Mul(y, 0) = 0
    BY MulFacts
  <2>2. 0 \in 0 .. One
    BY DEF One
  <2> QED BY <2>1, <2>2, MinFacts
<1>8. GpuBlend(b, dst_format, d, dst_format, d) = Write(dst_format, [a |-> 0, c |-> 0])
  <2>1. \A x, y : Factor("ZERO", x, y) = 0
    BY DEF Factor
  <2> HIDE DEF b, sv, dv, d
  <2>2. GpuBlend(b, dst_format, d, dst_format, d)
          = Write(dst_format, [a |-> Min({One, Mul(sv.a, 0) + Mul(dv.a, 0)}),
                               c |-> Min({One, Mul(sv.c, 0) + Mul(dv.c, 0)})])
    BY <1>3, <2>1 DEF GpuBlend, sv, dv
  <2> QED BY <1>4, <1>7, <2>2 DEF Values
<1>9. Rendered("Clear", u, r) = [a |-> 0, c |-> 0]
  <2>1. RenderFa("Clear", r.a) = 0 /\ RenderFb("Clear", u.a) = 0 /\ RenderFb("Clear", u.ca) = 0
    BY DEF RenderFa, RenderFb
  <2> HIDE DEF u, r
  <2>2. Rendered("Clear", u, r)
          = [a |-> Min({One, Mul(u.a, 0) + Mul(r.a, 0)}), c |-> Min({One, Mul(u.c, 0) + Mul(r.c, 0)})]
    BY <2>1 DEF Rendered
  <2> QED BY <1>5, <1>6, <1>7, <2>2 DEF Values
<1> HIDE DEF f, d, b, u, r
<1>10. Read(Fmt, Write(WithAlpha(Fmt), [a |-> 0, c |-> 0])) = Read(Fmt, Write(Fmt, [a |-> 0, c |-> 0]))
  BY <1>1, ReadWrite DEF Fmt, f
<1> QED BY <1>1, <1>8, <1>9, <1>10 DEF GivesOf, Asks, b, d, r

-----------------------------------------------------------------------------
(* A source without a mask, or with a mask that is reduced.                *)

(* The blend of a reduced mask.                                            *)
LEMMA GlobalFields ==
  ASSUME NEW o \in Ops, NEW fmt, NEW alpha \in 0 .. One, NEW scaled \in BOOLEAN
  PROVE  LET g == GlobalAlpha(DstBlend(o, fmt), alpha, scaled)
         IN  /\ g \in Blends
             /\ ~UsesSourceAlpha(CompositeOp[o]) => g.src_alpha_mode = "NORMAL"
             /\ UsesSourceAlpha(CompositeOp[o]) =>
                  /\ g.src_alpha = alpha
                  /\ g.src_alpha_mode = IF scaled THEN "SCALED" ELSE "GLOBAL"
<1>1. /\ GlobalAlpha(DstBlend(o, fmt), alpha, scaled) \in Blends
      /\ DstBlend(o, fmt).dst_mode = CompositeOp[o].dst_mode
      /\ CompositeOp[o].dst_mode \in Modes
  BY BlendTypes DEF Blends
<1> QED BY <1>1 DEF GlobalAlpha, UsesSourceAlpha, Modes

(* A constant mask's alpha with a source without alpha: it is opaque.      *)
LEMMA OpaqueSource ==
  ASSUME Asked(req), Drawn(word), ~Inexact, Scales(req.mask),
         UsesSourceAlpha(CompositeOp[req.op]), ~HasA(req.src.fmt), req.src.reach # "alphamap"
  PROVE  Pixel(req.src, word).a = One /\ req.src.fmt # "r5g6b5"
<1>1. req.src.fmt # "r5g6b5" /\ req.src.reach # "outside"
  BY DEF Inexact, GlobalMask, Scales
<1> QED BY <1>1, PixelValue DEF Asked

(* ... that the engine reads where it is.                                  *)
LEMMA SrcOnlyAcquired ==
  ASSUME Blendable, ~Inexact, InPlace(req.src),
         NEW x \in ReduceMask(DstBlend(req.op, Fmt), req)
  PROVE  GivesOf(Opaque(x, PictFormat[req.src.fmt]), WithAlpha(PictFormat[req.src.fmt]),
                 word[req.src.pix]) = Asks
<1> DEFINE f    == req.src.fmt
           w    == word[req.src.pix]
           sfmt == WithAlpha(PictFormat[f])
           v    == Pixel(req.src, word)
           b    == Opaque(x, PictFormat[f])
           ob   == DstBlend(req.op, Fmt)
<1>1. /\ f \in PictFormats /\ w \in WordOf /\ v \in Values
      /\ v = Read(PictFormat[f], w)
      /\ req.op \in Ops /\ req.src.reach = "gpu"
  BY PixelValue DEF InPlace, Acquired, Blendable, Asked
<1>2. CASE Nothing(req.mask) /\ x = ob
  <2>1. In(req.src, req.mask, word) = [a |-> v.a, c |-> v.c, ca |-> v.a]
    BY <1>2, InNothing DEF Blendable, Inexact
  <2>2. x \in Blends /\ x.src_alpha_mode = "NORMAL" /\ x.dst_alpha_mode = "NORMAL"
    BY <1>1, <1>2, BlendTypes
  <2>3. SrcAlpha(b, sfmt, w) = v.a /\ Read(sfmt, w).c = v.c
    BY <1>1, <2>2, SourceAlpha
  <2>4. b.src_mode = ob.src_mode /\ b.dst_mode = ob.dst_mode /\ b.dst_alpha_mode = "NORMAL"
    BY <1>2, <2>2 DEF Opaque, Blends
  <2> HIDE DEF b, ob, sfmt, v, w
  <2>5. LET u == In(req.src, req.mask, word)
        IN  /\ SrcAlpha(b, sfmt, w) = u.a /\ Read(sfmt, w).c = u.c
            /\ UsesSourceAlpha(CompositeOp[req.op]) => u.ca = u.a
    BY <2>1, <2>3
  <2>6. GivesOf(b, sfmt, w) = Asks
    BY <2>4, <2>5, GivesWhole DEF ob
  <2> QED BY <2>6 DEF b, sfmt, w
<1>3. CASE /\ Scales(req.mask) /\ (ob.src_mode = "ZERO" \/ ~HasA(req.dst.fmt))
           /\ x = GlobalAlpha(ob, Argb(req.mask).a, HasA(f))
  <2> DEFINE alpha == Argb(req.mask).a
             uses  == UsesSourceAlpha(CompositeOp[req.op])
             sc    == HasA(f)
  <2>1. alpha \in 0 .. One /\ v.a \in 0 .. One
    BY <1>1, <1>3, InScales DEF Blendable, Inexact, Values
  <2>0. sc \in BOOLEAN
    BY DEF HasA
  <2>2. /\ x \in Blends
        /\ ~uses => x.src_alpha_mode = "NORMAL"
        /\ uses => x.src_alpha = alpha /\ x.src_alpha_mode = IF sc THEN "SCALED" ELSE "GLOBAL"
    <3> HIDE DEF sc
    <3>1. x = GlobalAlpha(ob, alpha, sc)
      BY <1>3 DEF sc
    <3> QED BY <3>1, <1>1, <2>0, <2>1, GlobalFields
  <2>3. Read(sfmt, w).c = v.c
    BY <1>1, <2>2, SourceAlpha
  <2>4. CASE ~uses
    <3>1. SrcAlpha(b, sfmt, w) = v.a
      BY <1>1, <2>2, <2>4, SourceAlpha
    <3>2. b \in Blends /\ b.src_mode = x.src_mode /\ b.dst_mode = x.dst_mode
          /\ b.dst_alpha_mode = x.dst_alpha_mode /\ b.dst_alpha = x.dst_alpha
      <4>1. x \in Blends /\ One \in 0 .. One
        BY <2>2 DEF One
      <4>2. CASE b = x
        BY <4>1, <4>2
      <4>3. CASE b = [x EXCEPT !.src_alpha_mode = "GLOBAL", !.src_alpha = One]
        <5> HIDE DEF b
        <5> QED BY <4>1, <4>3 DEF Blends
      <4> QED BY <4>2, <4>3 DEF Opaque
    <3> HIDE DEF b, ob, sfmt, v, w
    <3>3. LET g == GlobalAlpha(DstBlend(req.op, Fmt), Argb(req.mask).a, HasA(req.src.fmt))
          IN  /\ b.src_mode = g.src_mode /\ b.dst_mode = g.dst_mode
              /\ b.dst_alpha_mode = g.dst_alpha_mode /\ b.dst_alpha = g.dst_alpha
      BY <1>3, <3>2 DEF ob
    <3>4. GivesOf(b, sfmt, w) = Asks
      BY <1>3, <2>1, <2>3, <2>4, <3>1, <3>2, <3>3, GivesScaled DEF ob, v
    <3> QED BY <3>4 DEF b, sfmt, w
  <2>5. CASE uses
    <3>1. ~sc => v.a = One /\ f # "r5g6b5"
      BY <1>1, <1>3, <2>5, OpaqueSource DEF Blendable
    <3>2. b = x /\ SrcAlpha(x, sfmt, w) = Mul(v.a, alpha)
      <4>1. CASE sc
        BY <1>1, <2>2, <2>5, <4>1, SourceAlpha
      <4>2. CASE ~sc
        <5>1. b = x /\ SrcAlpha(x, sfmt, w) = alpha
          BY <1>1, <2>2, <2>5, <3>1, <4>2, SourceAlpha
        <5> QED BY <2>1, <3>1, <4>2, <5>1, MulFacts
      <4> QED BY <4>1, <4>2
    <3>3. SrcAlpha(x, sfmt, w) \in 0 .. One
      BY <2>1, <3>2, MulRange
    <3> HIDE DEF b, sfmt, v, w
    <3>4. GivesOf(x, sfmt, w) = Asks
      BY <1>3, <2>2, <2>3, <3>2, <3>3, GivesScaled DEF v
    <3> QED BY <3>2, <3>4 DEF b, sfmt, w
  <2> QED BY <2>4, <2>5
<1> QED BY <1>2, <1>3, Reduced

(* ... that is filled or put into the temporary pixmap.                    *)
LEMMA SoftwareWord ==
  ASSUME Asked(req), Drawn(word), NEW m \in {NoPicture, req.mask}
  PROVE  LET u == In(req.src, m, word)
         IN  /\ [a |-> u.a, c |-> u.c] \in Values
             /\ InSoftware(m) = Write(Argb8888, [a |-> u.a, c |-> u.c])
<1> DEFINE u == In(req.src, m, word)
<1>1. u.a \in 0 .. One /\ u.c \in 0 .. One
  BY InValue
<1> HIDE DEF u
<1>2. Write(Argb8888, u) = Write(Argb8888, [a |-> u.a, c |-> u.c])
  BY DEF Write
<1> QED BY <1>1, <1>2 DEF InSoftware, Values, u

(* A source in the temporary pixmap is the picture's pixel.                *)
LEMMA FilledWord ==
  ASSUME Asked(req), Drawn(word), req.src.reach # "alphamap"
  PROVE  (IF Solid(req.src) THEN Write(Argb8888, Argb(req.src)) ELSE InSoftware(NoPicture))
           = Write(Argb8888, Pixel(req.src, word))
<1> DEFINE v == Pixel(req.src, word)
           u == In(req.src, NoPicture, word)
<1>1. v \in Values
  BY PixelValue DEF Asked
<1>2. CASE Solid(req.src)
  <2>1. req.src.reach \notin {"outside", "alphamap"}
    BY <1>2 DEF Asked, RealPictures
  <2>2. v = Argb(req.src)
    BY <2>1, PixelValue DEF Asked, Argb
  <2> QED BY <1>2, <2>2
<1>3. CASE ~Solid(req.src)
  <2>1. u = [a |-> v.a, c |-> v.c, ca |-> v.a]
    BY InValue
  <2>2. [a |-> u.a, c |-> u.c] = v
    BY <1>1, <2>1 DEF Values
  <2>3. InSoftware(NoPicture) = Write(Argb8888, [a |-> u.a, c |-> u.c])
    BY SoftwareWord
  <2> QED BY <1>3, <2>2, <2>3
<1> QED BY <1>2, <1>3

(* The final blend of a source that is there.                              *)
LEMMA SrcOnlyTemp ==
  ASSUME Blendable, ~Inexact, req.src.reach # "alphamap",
         NEW x \in ReduceMask(DstBlend(req.op, Fmt), req)
  PROVE  GivesOf(x, Argb8888, Write(Argb8888, Pixel(req.src, word))) = Asks
<1> DEFINE v    == Pixel(req.src, word)
           w    == Write(Argb8888, v)
           ob   == DstBlend(req.op, Fmt)
<1>1. v \in Values /\ req.op \in Ops
  BY PixelValue DEF Blendable, Asked
<1>2. Read(Argb8888, w) = v
  BY <1>1, TempAlpha
<1>3. CASE Nothing(req.mask) /\ x = ob
  <2>1. In(req.src, req.mask, word) = [a |-> v.a, c |-> v.c, ca |-> v.a]
    BY <1>3, InNothing DEF Blendable, Inexact
  <2>2. x.src_alpha_mode = "NORMAL" /\ x.dst_alpha_mode = "NORMAL"
    BY <1>1, <1>3, BlendTypes
  <2>3. SrcAlpha(x, Argb8888, w) = v.a
    BY <1>1, <2>2, TempAlpha
  <2> HIDE DEF v, w
  <2>4. GivesOf(x, Argb8888, w) = Asks
    BY <1>2, <1>3, <2>1, <2>2, <2>3, GivesWhole
  <2> QED BY <2>4 DEF v, w
<1>4. CASE /\ Scales(req.mask) /\ (ob.src_mode = "ZERO" \/ ~HasA(req.dst.fmt))
           /\ x = GlobalAlpha(ob, Argb(req.mask).a, HasA(req.src.fmt))
  <2> DEFINE alpha == Argb(req.mask).a
             uses  == UsesSourceAlpha(CompositeOp[req.op])
             sc    == HasA(req.src.fmt)
  <2>1. alpha \in 0 .. One /\ v.a \in 0 .. One
    BY <1>1, <1>4, InScales DEF Blendable, Inexact, Values
  <2>0. sc \in BOOLEAN
    BY DEF HasA
  <2>2. /\ x \in Blends
        /\ ~uses => x.src_alpha_mode = "NORMAL"
        /\ uses => x.src_alpha = alpha /\ x.src_alpha_mode = IF sc THEN "SCALED" ELSE "GLOBAL"
    <3> HIDE DEF sc
    <3>1. x = GlobalAlpha(ob, alpha, sc)
      BY <1>4 DEF sc
    <3> QED BY <3>1, <1>1, <2>0, <2>1, GlobalFields
  <2>3. uses /\ ~sc => v.a = One
    BY <1>4, OpaqueSource DEF Blendable
  <2>4. /\ ~uses => SrcAlpha(x, Argb8888, w) = v.a
        /\ uses => SrcAlpha(x, Argb8888, w) = Mul(v.a, alpha)
    <3>1. CASE ~uses
      BY <1>1, <2>2, <3>1, TempAlpha
    <3>2. CASE uses /\ sc
      BY <1>1, <2>2, <3>2, TempAlpha
    <3>3. CASE uses /\ ~sc
      <4>1. SrcAlpha(x, Argb8888, w) = alpha
        BY <1>1, <2>2, <3>3, TempAlpha
      <4> QED BY <2>1, <2>3, <3>3, <4>1, MulFacts
    <3> QED BY <3>1, <3>2, <3>3
  <2>5. SrcAlpha(x, Argb8888, w) \in 0 .. One
    BY <2>1, <2>4, MulRange
  <2> HIDE DEF v, w
  <2>6. GivesOf(x, Argb8888, w) = Asks
    BY <1>2, <1>4, <2>2, <2>4, <2>5, GivesScaled DEF v
  <2> QED BY <2>6 DEF v, w
<1> QED BY <1>3, <1>4, Reduced

-----------------------------------------------------------------------------
(* A source and a mask that are put together in the temporary pixmap.      *)

(* The final blend of both.                                                *)
LEMMA MaskedGives ==
  ASSUME Blendable, ~Inexact, ReduceMask(DstBlend(req.op, Fmt), req) = {}
  PROVE  GivesOf(DstBlend(req.op, Fmt), Argb8888, InSoftware(req.mask)) = Asks
<1> DEFINE u  == In(req.src, req.mask, word)
           t  == [a |-> u.a, c |-> u.c]
           ob == DstBlend(req.op, Fmt)
<1>1. /\ t \in Values /\ InSoftware(req.mask) = Write(Argb8888, t)
  BY SoftwareWord DEF Blendable
<1>2. ob.src_alpha_mode = "NORMAL" /\ ob.dst_alpha_mode = "NORMAL"
  BY BlendTypes DEF Blendable, Asked
<1>3. SrcAlpha(ob, Argb8888, Write(Argb8888, t)) = t.a /\ Read(Argb8888, Write(Argb8888, t)) = t
  BY <1>1, <1>2, TempAlpha
<1>4. UsesSourceAlpha(CompositeOp[req.op]) => u.ca = u.a
  <2>1. UsesSourceAlpha(CompositeOp[req.op]) => ~Component(req.mask)
    BY DEF Inexact, ComponentAlpha
  <2> QED BY <2>1, InValue DEF Blendable
<1>5. t.a = u.a /\ t.c = u.c
  OBVIOUS
<1> HIDE DEF u, t
<1>6. GivesOf(ob, Argb8888, Write(Argb8888, t)) = Asks
  BY <1>2, <1>3, <1>4, <1>5, GivesWhole DEF u
<1> QED BY <1>1, <1>6

(* The mask is blended with the source.                                    *)
LEMMA BlendedWord ==
  ASSUME Asked(req), Drawn(word), req.mask # NoPicture, Acquired(req.mask)
  PROVE  GpuBlend(MaskOp, PictFormat[req.mask.fmt], word[req.mask.pix], Argb8888,
                  Write(Argb8888, Pixel(req.src, word)))
           = InSoftware(req.mask)
<1> DEFINE m == req.mask
           f == m.fmt
           w == word[m.pix]
           k == Pixel(m, word)
           v == Pixel(req.src, word)
           u == In(req.src, m, word)
<1>1. /\ f \in PictFormats /\ w \in WordOf /\ k = Read(PictFormat[f], w) /\ v \in Values
  BY PixelValue DEF Asked, Acquired
<1>2. /\ u.a = Mul(v.a, k.a) /\ u.c = Mul(v.c, IF Component(m) THEN k.c ELSE k.a)
  BY InValue
<1>3. InSoftware(m) = Write(Argb8888, [a |-> u.a, c |-> u.c])
  BY SoftwareWord
<1>4. /\ GpuBlend(CompositeOp.InReverse, PictFormat[f], w, Argb8888, Write(Argb8888, v))
           = Write(Argb8888, [a |-> Mul(v.a, k.a), c |-> Mul(v.c, k.a)])
      /\ GpuBlend(Blend("ZERO", "COLOR"), PictFormat[f], w, Argb8888, Write(Argb8888, v))
           = Write(Argb8888, [a |-> Mul(v.a, k.a), c |-> Mul(v.c, k.c)])
  BY <1>1, MaskedWord
<1> HIDE DEF f, w, k, v, u
<1>5. CASE Component(m)
  BY <1>2, <1>3, <1>4, <1>5 DEF MaskOp, f, w, v
<1>6. CASE ~Component(m)
  BY <1>2, <1>3, <1>4, <1>6 DEF MaskOp, f, w, v
<1> QED BY <1>5, <1>6

(* The source is in the temporary pixmap, and the mask has its format,     *)
(* though the format of its pixmap was set for the source too.             *)
LEMMA MaskReady ==
  ASSUME Asked(req), Drawn(word), ~Inexact, req.mask # NoPicture,
         ~Component(req.mask) => HasA(req.mask.fmt),
         MaskTried, Acquired(req.mask)
  PROVE  LET s       == req.src
             formats == SetSrcFormat(s, SetFormat(req.mask, pict_format))
         IN  /\ CopiedSource(formats) = Write(Argb8888, Pixel(s, word))
             /\ (IF InPlace(s) THEN [formats EXCEPT ![s.pix] = WithAlpha(@)] ELSE formats)[req.mask.pix]
                  = PictFormat[req.mask.fmt]
<1> DEFINE s       == req.src
           m       == req.mask
           marked  == SetFormat(m, pict_format)
           formats == SetSrcFormat(s, marked)
           after   == IF InPlace(s) THEN [formats EXCEPT ![s.pix] = WithAlpha(@)] ELSE formats
<1>1. s.pix \in Pixmaps /\ m.pix \in Pixmaps /\ m.kind \in {"drawable", "tile"}
  BY DEF Asked, Acquired
<1>2. marked[m.pix] = PictFormat[m.fmt]
  BY <1>1 DEF SetFormat
<1>3. s.kind = "drawable" => formats[s.pix] = PictFormat[s.fmt]
  BY <1>1 DEF SetFormat, SetSrcFormat, Solid
<1>4. s.pix # m.pix \/ Solid(s) => formats[m.pix] = PictFormat[m.fmt]
  BY <1>1, <1>2 DEF SetFormat, SetSrcFormat
<1>5. CopiedSource(formats) = Write(Argb8888, Pixel(s, word))
  <2>1. s.reach # "alphamap"
    BY DEF MaskTried
  <2>2. CASE Solid(s)
    BY <2>1, <2>2, FilledWord DEF CopiedSource
  <2>3. CASE ~Solid(s) /\ Acquired(s)
    <3>1. /\ s.fmt \in PictFormats /\ word[s.pix] \in WordOf
          /\ Pixel(s, word) = Read(PictFormat[s.fmt], word[s.pix])
      BY <2>3, PixelValue DEF Asked, Acquired
    <3>2. formats[s.pix] = PictFormat[s.fmt]
      BY <1>3, <2>3 DEF Acquired, Solid
    <3> HIDE DEF formats
    <3> QED BY <2>3, <3>1, <3>2, CopiedWord DEF CopiedSource
  <2>4. CASE ~Solid(s) /\ ~Acquired(s)
    <3>1. InSoftware(NoPicture) = Write(Argb8888, Pixel(s, word))
      BY <2>1, <2>4, FilledWord
    <3> HIDE DEF formats
    <3> QED BY <2>4, <3>1 DEF CopiedSource
  <2> QED BY <2>2, <2>3, <2>4
<1>6. after[m.pix] = PictFormat[m.fmt]
  <2>0. DOMAIN formats = Pixmaps
    BY DEF SetFormat, SetSrcFormat
  <2>1. CASE s.pix # m.pix
    <3>1. after[m.pix] = formats[m.pix]
      <4> HIDE DEF formats
      <4> QED BY <1>1, <2>0, <2>1
    <3> QED BY <3>1, <1>4, <2>1
  <2>3. CASE s.pix = m.pix /\ Solid(s)
    BY <1>4, <2>3 DEF InPlace
  <2>2. CASE s.pix = m.pix /\ ~Solid(s)
    <3>1. m.fmt = s.fmt /\ (Component(m) => HasA(s.fmt))
      BY <2>2 DEF Inexact, SharedMask
    <3>2. HasA(s.fmt)
      BY <3>1
    <3>3. s.kind = "drawable"
      BY <1>1, <2>2 DEF Asked, Together, Solid
    <3>4. formats[m.pix] = PictFormat[m.fmt]
      BY <1>3, <2>2, <3>1, <3>3
    <3>5. WithAlpha(PictFormat[m.fmt]) = PictFormat[m.fmt]
      BY <3>1, <3>2 DEF HasA, WithAlpha, AlphaFormats
    <3> HIDE DEF formats
    <3> QED BY <1>1, <2>0, <2>2, <3>4, <3>5
  <2> QED BY <2>1, <2>2, <2>3
<1> QED BY <1>5, <1>6

-----------------------------------------------------------------------------
(* The inductive invariant: the way that was chosen is one for the request,*)
(* the temporary pixmap holds what that way needs, and the final blend     *)
(* would give what Render asks for.                                        *)

OpBlend == DstBlend(req.op, Fmt)

Way ==
  /\ pc \in {"srconly", "masked", "maskblend"} => DstAccepted(req.op, Fmt) /\ req.op # "Clear"
  /\ pc = "clear" => req.op = "Clear" /\ final_blend = CompositeOp.Clear
  /\ pc = "srconly" => final_blend \in ReduceMask(OpBlend, req)
  /\ pc \in {"masked", "maskblend"} => final_blend = OpBlend /\ ReduceMask(OpBlend, req) = {}

Prepared ==
  /\ pc = "maskblend" =>
       /\ Acquired(req.mask)
       /\ Inexact \/ /\ pict_format[req.mask.pix] = PictFormat[req.mask.fmt]
                     /\ temp = Write(Argb8888, Pixel(req.src, word))
  /\ pc = "final" => Inexact \/ Gives(final_blend, final_src, temp) = Asks

Running ==
  /\ Asked(req)
  /\ word = before
  /\ dst_format = WithAlpha(Fmt)
  /\ Way
  /\ Prepared

RenderInv ==
  /\ pc # "done" => Drawn(word)
  /\ pc \notin {"idle", "drawn", "done"} => Running
  /\ RenderEquation

(* No request has been made.                                               *)
LEMMA InitRenderInv == RenderInit => RenderInv
<1> SUFFICES ASSUME RenderInit PROVE RenderInv
  OBVIOUS
<1>1. Drawn(word)
  BY DEF RenderInit, NoneAsked, Blank, Drawn, WordOf, One
<1> QED BY <1>1 DEF RenderInit, NoneAsked, RenderInv, RenderEquation

(* What holds still while neither the request nor the pixmaps change.      *)
LEMMA Same ==
  ASSUME UNCHANGED <<pe20, word, req, dst_format>>
  PROVE  /\ ReduceMask(OpBlend, req)' = ReduceMask(OpBlend, req)
         /\ DstAccepted(req.op, Fmt)' <=> DstAccepted(req.op, Fmt)
         /\ Asks' = Asks /\ Fmt' = Fmt /\ OpBlend' = OpBlend
         /\ Inexact' <=> Inexact
         /\ \A b, sfmt, s : GivesOf(b, sfmt, s)' = GivesOf(b, sfmt, s)
<1>1. Fmt' = Fmt
  BY DEF Fmt
<1>2. OpBlend' = OpBlend
  BY <1>1 DEF OpBlend
<1>3. ReduceMask(OpBlend, req)' = ReduceMask(OpBlend, req)
  BY <1>2 DEF ReduceMask, Argb
<1>4. DstAccepted(req.op, Fmt)' <=> DstAccepted(req.op, Fmt)
  BY <1>1 DEF DstAccepted, DstFormatValid
<1>5. Asks' = Asks
  BY <1>1 DEF Asks
<1>6. Inexact' <=> Inexact
  BY DEF Inexact, ComponentAlpha, SharedMask, MaskMisread, OneBitAlpha, GlobalMask
<1>7. \A b, sfmt, s : GivesOf(b, sfmt, s)' = GivesOf(b, sfmt, s)
  BY <1>1 DEF GivesOf, GpuBlend, Limited
<1> QED BY <1>1, <1>2, <1>3, <1>4, <1>5, <1>6, <1>7

(* A request: the way is chosen for it.                                    *)
LEMMA CompositeInv ==
  ASSUME RenderInv, NEW o \in Ops, NEW s \in Sources, NEW m \in Masks, NEW d \in Dsts,
         NEW at \in Places,
         Composite([op |-> o, src |-> Placed(s, at[1]), mask |-> Placed(m, at[2]),
                    dst |-> Placed(d, at[3])])
  PROVE  RenderInv'
<1> DEFINE r   == [op |-> o, src |-> Placed(s, at[1]), mask |-> Placed(m, at[2]),
                   dst |-> Placed(d, at[3])]
           fmt == PictFormat[r.dst.fmt]
           b   == DstBlend(r.op, fmt)
<1>1. at[1] \in Pixmaps /\ at[2] \in Pixmaps /\ at[3] \in Pixmaps
  BY PicturesAssumption
<1>2. ASSUME NEW p \in RealPictures, NEW i \in Pixmaps
      PROVE  /\ Placed(p, i) \in RealPictures /\ Placed(p, i).pix = i
             /\ Placed(p, i).kind = p.kind /\ Placed(p, i).reach = p.reach
  <2>1. p # NoPicture
    BY DEF RealPictures, NoPicture
  <2>2. Placed(p, i) = [p EXCEPT !.pix = i]
    BY <2>1 DEF Placed
  <2> QED BY <2>2 DEF RealPictures, Pictures, Solid, Pixmaps
<1>3. s \in RealPictures /\ d \in RealPictures /\ d.kind = "drawable" /\ d.reach = "gpu"
      /\ m \in RealPictures \union {NoPicture}
  BY PicturesAssumption
<1>14. /\ Placed(s, at[1]) \in RealPictures /\ Placed(s, at[1]).pix \in Pixmaps
  BY <1>1, <1>2, <1>3
<1>15. /\ Placed(d, at[3]) \in RealPictures /\ Placed(d, at[3]).pix \in Pixmaps
       /\ Placed(d, at[3]).kind = "drawable" /\ Placed(d, at[3]).reach = "gpu"
  BY <1>1, <1>2, <1>3
<1> HIDE DEF r
<1>0. r.op = o /\ r.src = Placed(s, at[1]) /\ r.mask = Placed(m, at[2]) /\ r.dst = Placed(d, at[3])
  BY DEF r
<1>4. /\ pc = "drawn" /\ req' = r /\ before' = word /\ word' = word /\ pe20' = pe20
      /\ dst_format' = WithAlpha(fmt)
      /\ r.mask # NoPicture => Together(r.src, r.mask)
  BY DEF Composite, r
<1>5. Asked(r)
  <2>1. m = NoPicture => r.mask = NoPicture
    BY <1>0 DEF Placed
  <2>2. r.mask # NoPicture => r.mask \in RealPictures /\ r.mask.pix \in Pixmaps
    <3>1. r.mask # NoPicture => m \in RealPictures /\ at[2] \in Pixmaps
      BY <1>1, <1>3, <2>1
    <3>2. m \in RealPictures /\ at[2] \in Pixmaps =>
            Placed(m, at[2]) \in RealPictures /\ Placed(m, at[2]).pix = at[2]
      BY <1>2
    <3> QED BY <1>0, <3>1, <3>2
  <2>3. r.src \in RealPictures /\ r.src.pix \in Pixmaps
    BY <1>0, <1>14
  <2>4. r.dst \in RealPictures /\ r.dst.pix \in Pixmaps /\ r.dst.kind = "drawable" /\ r.dst.reach = "gpu"
    BY <1>0, <1>15
  <2> QED BY <1>0, <1>4, <2>2, <2>3, <2>4 DEF Asked
<1>6. Fmt' = fmt /\ OpBlend' = b
  BY <1>4 DEF Fmt, OpBlend
<1>7. DstAccepted(req.op, Fmt)' <=> DstAccepted(r.op, fmt)
  BY <1>4, <1>6 DEF DstAccepted, DstFormatValid
<1>8. ReduceMask(OpBlend, req)' = ReduceMask(b, r)
  BY <1>4, <1>6 DEF ReduceMask, Argb
<1>9. /\ pc' \in {"unaccel", "clear", "srconly", "masked"}
      /\ pc' # "unaccel" => DstAccepted(r.op, fmt)
      /\ pc' = "clear" => r.op = "Clear" /\ final_blend' = b
      /\ pc' \in {"srconly", "masked"} => r.op # "Clear"
      /\ pc' = "srconly" => final_blend' \in ReduceMask(b, r)
      /\ pc' = "masked" => final_blend' = b /\ ReduceMask(b, r) = {}
  BY DEF Composite, r
<1>10. r.op = "Clear" => b = CompositeOp.Clear
  BY DEF DstBlend
<1>11. Way'
  BY <1>4, <1>6, <1>7, <1>8, <1>9, <1>10 DEF Way
<1>12. Running'
  BY <1>4, <1>5, <1>6, <1>9, <1>11 DEF Running, Prepared
<1>13. Drawn(word)'
  BY <1>4 DEF RenderInv, Drawn
<1> QED BY <1>9, <1>12, <1>13 DEF RenderInv, RenderEquation

(* What the final blend would give once its source is chosen.              *)
LEMMA SameGives ==
  ASSUME UNCHANGED <<pe20, word, req, dst_format>>, NEW b, NEW sfmt, NEW s,
         final_blend' = b, final_src'.fmt = sfmt,
         s = IF final_src'.temp THEN temp' ELSE word[final_src'.pix],
         GivesOf(b, sfmt, s) = Asks
  PROVE  (Gives(final_blend, final_src, temp) = Asks)'
<1>1. Gives(final_blend, final_src, temp)' = GivesOf(b, sfmt, s)
  BY DEF Gives, GivesOf, GpuBlend, Limited, Fmt
<1> QED BY <1>1, Same

(* A step that chooses the source of the final blend.                      *)
LEMMA FinalInv ==
  ASSUME RenderInv, Running, pc # "done", pc' = "final",
         UNCHANGED <<pe20, word, req, dst_format, before>>,
         Inexact \/ (Gives(final_blend, final_src, temp) = Asks)'
  PROVE  RenderInv'
<1>1. Asked(req)' /\ Drawn(word)' /\ (word = before)' /\ (dst_format = WithAlpha(Fmt))'
  BY Same DEF Running, RenderInv, Asked, Drawn
<1>2. Prepared'
  BY Same DEF Prepared
<1>3. Way'
  BY DEF Way
<1> QED BY <1>1, <1>2, <1>3 DEF RenderInv, Running, RenderEquation

(* A step after which the server's software does the request.              *)
LEMMA UnaccelInv ==
  ASSUME RenderInv, Running, pc # "done", pc' = "unaccel",
         UNCHANGED <<pe20, word, req, dst_format, before>>
  PROVE  RenderInv'
<1>1. Asked(req)' /\ Drawn(word)' /\ (word = before)' /\ (dst_format = WithAlpha(Fmt))'
  BY Same DEF Running, RenderInv, Asked, Drawn
<1> QED BY <1>1 DEF RenderInv, Running, Way, Prepared, RenderEquation

(* Clear blends the destination with itself, by factors of zero.           *)
LEMMA ClearInv == ASSUME RenderInv, Clear PROVE RenderInv'
<1>1. Running /\ Drawn(word) /\ pc = "clear"
  BY DEF RenderInv, Clear
<1>2. GivesOf(CompositeOp.Clear, dst_format, word[req.dst.pix]) = Asks
  BY <1>1, GivesClear DEF Running, Way
<1>3. /\ UNCHANGED <<pe20, word, req, dst_format, before>> /\ pc' = "final"
      /\ final_blend' = CompositeOp.Clear /\ final_src'.fmt = dst_format
      /\ word[req.dst.pix] = IF final_src'.temp THEN temp' ELSE word[final_src'.pix]
  BY <1>1 DEF Clear, Running, Way
<1>4. (Gives(final_blend, final_src, temp) = Asks)'
  BY <1>2, <1>3, SameGives
<1> QED BY <1>1, <1>3, <1>4, FinalInv

(* The source alone, without its mask or with the mask as global alpha.    *)
LEMMA SrcOnlyInv == ASSUME RenderInv, SrcOnly PROVE RenderInv'
<1> DEFINE s   == req.src
           fmt == PictFormat[s.fmt]
<1>1. /\ Running /\ Drawn(word) /\ pc = "srconly" /\ Blendable
      /\ final_blend \in ReduceMask(DstBlend(req.op, Fmt), req)
  BY DEF RenderInv, Running, SrcOnly, Way, OpBlend, Blendable
<1>2. UNCHANGED <<pe20, word, req, dst_format, before>>
  BY DEF SrcOnly
<1>3. CASE s.reach = "alphamap" \/ s.kind = "gradient"
  BY <1>1, <1>2, <1>3, UnaccelInv DEF SrcOnly
<1>4. CASE ~(s.reach = "alphamap" \/ s.kind = "gradient") /\ InPlace(s)
  <2>1. /\ pc' = "final" /\ final_blend' = Opaque(final_blend, fmt)
        /\ final_src' = [temp |-> FALSE, pix |-> s.pix, fmt |-> WithAlpha(fmt)]
    BY <1>4 DEF SrcOnly
  <2>2. /\ final_src'.fmt = WithAlpha(fmt)
        /\ word[s.pix] = IF final_src'.temp THEN temp' ELSE word[final_src'.pix]
    BY <2>1
  <2>3. ASSUME ~Inexact PROVE (Gives(final_blend, final_src, temp) = Asks)'
    <3>1. GivesOf(Opaque(final_blend, fmt), WithAlpha(fmt), word[s.pix]) = Asks
      BY <1>1, <1>4, <2>3, SrcOnlyAcquired
    <3> QED BY <1>2, <2>1, <2>2, <3>1, SameGives
  <2> QED BY <1>1, <1>2, <2>1, <2>3, FinalInv
<1>5. CASE ~(s.reach = "alphamap" \/ s.kind = "gradient") /\ ~InPlace(s)
  <2> DEFINE t == Write(Argb8888, Pixel(s, word))
  <2>1. /\ pc' = "final" /\ final_blend' = final_blend
        /\ final_src' = [temp |-> TRUE, fmt |-> Argb8888]
        /\ temp' = IF Solid(s) THEN Write(Argb8888, Argb(s)) ELSE InSoftware(NoPicture)
    BY <1>5 DEF SrcOnly
  <2>2. temp' = t
    BY <1>1, <1>5, <2>1, FilledWord DEF Running
  <2>3. /\ final_src'.fmt = Argb8888
        /\ t = IF final_src'.temp THEN temp' ELSE word[final_src'.pix]
    BY <2>1, <2>2
  <2>4. ASSUME ~Inexact PROVE (Gives(final_blend, final_src, temp) = Asks)'
    <3>1. GivesOf(final_blend, Argb8888, t) = Asks
      BY <1>1, <1>5, <2>4, SrcOnlyTemp
    <3> QED BY <1>2, <2>1, <2>3, <3>1, SameGives
  <2> QED BY <1>1, <1>2, <2>1, <2>4, FinalInv
<1> QED BY <1>3, <1>4, <1>5

(* The mask is put together with the source: in software ...               *)
LEMMA MaskedSoftwareInv ==
  ASSUME RenderInv, Running, Blendable, pc # "done", pc' = "final",
         UNCHANGED <<pe20, word, req, dst_format, before, final_blend>>,
         final_blend = OpBlend, ReduceMask(OpBlend, req) = {},
         Inexact \/ temp' = InSoftware(req.mask),
         final_src' = [temp |-> TRUE, fmt |-> Argb8888]
  PROVE  RenderInv'
<1>1. ASSUME ~Inexact PROVE (Gives(final_blend, final_src, temp) = Asks)'
  <2>1. GivesOf(OpBlend, Argb8888, InSoftware(req.mask)) = Asks
    BY <1>1, MaskedGives DEF OpBlend
  <2>2. /\ final_blend' = OpBlend /\ final_src'.fmt = Argb8888
        /\ InSoftware(req.mask) = IF final_src'.temp THEN temp' ELSE word[final_src'.pix]
    BY <1>1
  <2> QED BY <2>1, <2>2, SameGives
<1> QED BY <1>1, FinalInv

(* ... or by the engine, in two steps.                                     *)
LEMMA MaskedInv == ASSUME RenderInv, Masked PROVE RenderInv'
<1> DEFINE s       == req.src
           m       == req.mask
           formats == SetSrcFormat(s, SetFormat(m, pict_format))
           after   == IF InPlace(s) THEN [formats EXCEPT ![s.pix] = WithAlpha(@)] ELSE formats
<1>1. /\ Running /\ Drawn(word) /\ pc = "masked" /\ Blendable /\ Asked(req)
      /\ final_blend = OpBlend /\ ReduceMask(OpBlend, req) = {}
  BY DEF RenderInv, Running, Masked, Way, OpBlend, Blendable
<1>2. UNCHANGED <<pe20, word, req, dst_format, before, final_blend>>
  BY DEF Masked
<1>3. CASE /\ temp' = InSoftware(m) /\ pc' = "final"
           /\ final_src' = [temp |-> TRUE, fmt |-> Argb8888]
  BY <1>1, <1>2, <1>3, MaskedSoftwareInv
<1>4. CASE /\ MaskTried /\ Acquired(m) /\ pict_format' = after
           /\ temp' = CopiedSource(formats) /\ pc' = "maskblend"
  <2>1. m # NoPicture /\ (~Component(m) => HasA(m.fmt))
    BY <1>1, NotReduced
  <2>2. ASSUME ~Inexact
        PROVE  temp' = Write(Argb8888, Pixel(s, word)) /\ pict_format'[m.pix] = PictFormat[m.fmt]
    <3>1. /\ CopiedSource(formats) = Write(Argb8888, Pixel(s, word))
          /\ after[m.pix] = PictFormat[m.fmt]
      BY <1>1, <1>4, <2>1, <2>2, MaskReady
    <3> HIDE DEF after, formats
    <3> QED BY <1>4, <3>1
  <2>3. (Inexact \/ /\ pict_format[req.mask.pix] = PictFormat[req.mask.fmt]
                    /\ temp = Write(Argb8888, Pixel(req.src, word)))'
    BY <1>2, <2>2, Same
  <2>4. Acquired(req.mask)'
    BY <1>2, <1>4 DEF Acquired, SrcFormatValid
  <2>7. Prepared'
    BY <1>4, <2>3, <2>4 DEF Prepared
  <2>5. Way'
    BY <1>1, <1>2, <1>4, Same DEF Way, Blendable
  <2>6. Asked(req)' /\ Drawn(word)' /\ (word = before)' /\ (dst_format = WithAlpha(Fmt))'
    BY <1>1, <1>2, Same DEF Running, Asked, Drawn
  <2> QED BY <1>4, <2>7, <2>5, <2>6 DEF RenderInv, Running, RenderEquation
<1> QED BY <1>3, <1>4 DEF Masked

(* ... the second of which blends the mask.                                *)
LEMMA MaskBlendInv == ASSUME RenderInv, MaskBlend PROVE RenderInv'
<1> DEFINE m == req.mask
<1>1. /\ Running /\ Drawn(word) /\ pc = "maskblend" /\ Blendable /\ Asked(req)
      /\ final_blend = OpBlend /\ ReduceMask(OpBlend, req) = {} /\ Acquired(m)
      /\ Inexact \/ /\ pict_format[m.pix] = PictFormat[m.fmt]
                    /\ temp = Write(Argb8888, Pixel(req.src, word))
  BY DEF RenderInv, Running, MaskBlend, Way, Prepared, OpBlend, Blendable
<1>2. m # NoPicture
  BY <1>1, NotReduced
<1>3. /\ UNCHANGED <<pe20, word, req, dst_format, before, final_blend>> /\ pc' = "final"
      /\ temp' = GpuBlend(MaskOp, pict_format[m.pix], word[m.pix], Argb8888, temp)
      /\ final_src' = [temp |-> TRUE, fmt |-> Argb8888]
  BY DEF MaskBlend
<1>4. Inexact \/ temp' = InSoftware(m)
  BY <1>1, <1>2, <1>3, BlendedWord
<1> QED BY <1>1, <1>3, <1>4, MaskedSoftwareInv

(* The end of the request, by the engine ...                               *)
LEMMA FinalStepInv == ASSUME RenderInv, Final PROVE RenderInv'
<1> DEFINE d == req.dst.pix
           s == IF final_src.temp THEN temp ELSE word[final_src.pix]
           g == GpuBlend(final_blend, final_src.fmt, s, dst_format, word[d])
<1>1. /\ Asked(req) /\ Drawn(word) /\ word = before
      /\ Inexact \/ Gives(final_blend, final_src, temp) = Asks
  BY DEF RenderInv, Running, Prepared, Final
<1>2. Inexact \/ Read(Fmt, g) = Read(Fmt, Write(Fmt, Render(req, before)))
  BY <1>1 DEF Gives, GivesOf, Asks
<1>3. d \in Pixmaps /\ DOMAIN word = Pixmaps
  BY <1>1 DEF Asked, Drawn
<1> HIDE DEF g
<1>4. /\ word' = [word EXCEPT ![d] = g] /\ pc' = "done"
      /\ UNCHANGED <<pe20, req, dst_format, before>>
  BY DEF Final, g
<1>5. \A p \in Pixmaps \ {d} : word'[p] = before[p]
  BY <1>1, <1>3, <1>4
<1>6. word'[d] = g
  BY <1>3, <1>4
<1>7. Fmt' = Fmt /\ (Inexact' <=> Inexact)
  BY <1>4 DEF Fmt, Inexact, ComponentAlpha, SharedMask, MaskMisread, OneBitAlpha, GlobalMask
<1>8. RenderEquation'
  BY <1>2, <1>4, <1>5, <1>6, <1>7 DEF RenderEquation, Fmt
<1> QED BY <1>4, <1>8 DEF RenderInv

(* ... or in software.                                                     *)
LEMMA UnaccelStepInv == ASSUME RenderInv, Unaccel PROVE RenderInv'
<1> DEFINE d == req.dst.pix
           g == Write(Fmt, Render(req, word))
<1>1. Asked(req) /\ Drawn(word) /\ word = before
  BY DEF RenderInv, Running, Unaccel
<1>2. d \in Pixmaps /\ DOMAIN word = Pixmaps
  BY <1>1 DEF Asked, Drawn
<1>3. /\ word' = [word EXCEPT ![d] = g] /\ pc' = "done" /\ UNCHANGED <<req, before>>
  BY DEF Unaccel, Fmt
<1> HIDE DEF g
<1>4. \A p \in Pixmaps \ {d} : word'[p] = before[p]
  BY <1>1, <1>2, <1>3
<1>5. word'[d] = g
  BY <1>2, <1>3
<1>6. RenderEquation'
  BY <1>1, <1>3, <1>4, <1>5 DEF RenderEquation, Fmt, g
<1> QED BY <1>3, <1>6 DEF RenderInv

(* Nothing happens to it while clients and the server do something else.   *)
LEMMA RestInv == ASSUME RenderInv, UNCHANGED renderVars PROVE RenderInv'
<1>1. UNCHANGED <<pe20, word, req, dst_format, before, pc, final_blend, final_src, temp, pict_format>>
  BY DEF renderVars
<1>2. Way' <=> Way
  BY <1>1, Same DEF Way
<1>3. Gives(final_blend, final_src, temp)' = Gives(final_blend, final_src, temp)
  BY <1>1 DEF Gives, GivesOf, GpuBlend, Limited, Fmt
<1>4. Acquired(req.mask)' <=> Acquired(req.mask)
  BY <1>1 DEF Acquired, SrcFormatValid
<1>5. Pixel(req.src, word)' = Pixel(req.src, word)
  BY <1>1
<1>6. Prepared' <=> Prepared
  BY <1>1, <1>3, <1>4, <1>5, Same DEF Prepared
<1>7. Asked(req)' <=> Asked(req)
  BY <1>1 DEF Asked
<1>8. Running' <=> Running
  BY <1>1, <1>2, <1>6, <1>7, Same DEF Running
<1>9. RenderEquation' <=> RenderEquation
  BY <1>1, Same DEF RenderEquation
<1> QED BY <1>1, <1>8, <1>9 DEF RenderInv, Drawn

(* Every step keeps the invariant.                                         *)
LEMMA NextRenderInv == RenderInv /\ [RenderNext]_renderVars => RenderInv'
<1> SUFFICES ASSUME RenderInv, [RenderNext]_renderVars PROVE RenderInv'
  OBVIOUS
<1>1. CASE ClientDraw
  <2>1. Drawn(word)' /\ pc' = "drawn"
    BY <1>1, WordsAssumption DEF ClientDraw, Drawn, WordOf
  <2> QED BY <2>1 DEF RenderInv, RenderEquation
<1>2. CASE Clear
  BY <1>2, ClearInv
<1>3. CASE SrcOnly
  BY <1>3, SrcOnlyInv
<1>4. CASE Masked
  BY <1>4, MaskedInv
<1>5. CASE MaskBlend
  BY <1>5, MaskBlendInv
<1>6. CASE Fails
  <2>1. Running /\ pc # "done" /\ pc' = "unaccel" /\ UNCHANGED <<pe20, word, req, dst_format, before>>
    BY <1>6 DEF Fails, RenderInv
  <2> QED BY <2>1, UnaccelInv
<1>7. CASE Final
  BY <1>7, FinalStepInv
<1>8. CASE Unaccel
  BY <1>8, UnaccelStepInv
<1>9. CASE Return
  <2>1. Drawn(word)' /\ pc' = "idle"
    BY <1>9 DEF Return, Drawn, WordOf, Blank, One
  <2> QED BY <2>1 DEF RenderInv, RenderEquation
<1>10. ASSUME NEW o \in Ops, NEW s \in Sources, NEW m \in Masks, NEW d \in Dsts, NEW at \in Places,
              Composite([op |-> o, src |-> Placed(s, at[1]), mask |-> Placed(m, at[2]),
                         dst |-> Placed(d, at[3])])
       PROVE  RenderInv'
  BY <1>10, CompositeInv
<1>11. CASE UNCHANGED renderVars
  BY <1>11, RestInv
<1> QED
  BY <1>1, <1>2, <1>3, <1>4, <1>5, <1>6, <1>7, <1>8, <1>9, <1>10, <1>11 DEF RenderNext

(* However a request is done, the destination is what Render asks for, and *)
(* nothing else that a client sees has changed: for all that clients may   *)
(* have drawn, every operator and all pictures.                            *)
THEOREM RenderCorrect == RenderSpec => []RenderEquation
<1>1. RenderInv => RenderEquation
  BY DEF RenderInv
<1> QED BY <1>1, InitRenderInv, NextRenderInv, PTL DEF RenderSpec

=============================================================================
