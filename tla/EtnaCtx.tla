------------------------------ MODULE EtnaCtx -------------------------------
(***************************************************************************)
(* The command stream of etnadrm/etnadrm.c: struct etna_ctx with its ring  *)
(* of command buffers, the table of bos each submission carries, and the   *)
(* references that table holds.                                            *)
(*                                                                         *)
(* Operations are appended to the current buffer (etnaviv_emit).  A flush  *)
(* submits the words written since the last one as a stream of their own   *)
(* and goes on behind them in the same buffer.  When an operation does not *)
(* fit, etna_reserve flushes, moves to the next buffer of the ring, and    *)
(* waits for the fence that was recorded when that buffer was left.        *)
(*                                                                         *)
(* Sizes are in 32-bit words.  etna_reserve itself, the clearances and the *)
(* number of buffers are libetnaviv's.                                     *)
(***************************************************************************)
EXTENDS Integers, Sequences, SequencesExt

CONSTANTS
  Bos,         \* struct etna_bo
  NumBuffers,  \* NUM_COMMAND_BUFFERS
  BufferSize,  \* COMMAND_BUFFER_SIZE / 4
  Begin,       \* BEGIN_COMMIT_CLEARANCE / 4
  End,         \* END_COMMIT_CLEARANCE / 4
  OpSizes,     \* the sizes of the operations that are emitted
  PipeSize,    \* the words etna_set_pipe writes
  WaitFails,   \* may waiting for a fence fail?
  MaxFence     \* bound: operations are emitted below this many submissions

ASSUME SizesAssumption ==
  /\ NumBuffers \in Nat \ {0}
  /\ BufferSize \in Nat /\ Begin \in Nat /\ End \in Nat
  /\ OpSizes \subseteq Nat \ {0}
  /\ PipeSize \in Nat
  /\ \A n \in OpSizes \union {PipeSize} : Begin + n + End <= BufferSize
ASSUME WaitFailsAssumption == WaitFails \in BOOLEAN
ASSUME MaxFenceAssumption == MaxFence \in Nat

VARIABLES
  cur_buf,        \* ctx->cur_buf
  offset,         \* ctx->offset, the next word to write
  base,           \* cmdbuf[cur_buf]->offset, where the next stream starts
  sig_id,         \* ctx->cmdbufi[].sig_id
  last_fence_id,  \* conn->last_fence_id
  tab,            \* cmdbuf[cur_buf]'s bos and relocs, every bo's bo_idx and ref
  owned,          \* the bos whose owner has not called etna_bo_del
  jobs,           \* streams submitted and not complete
  submitted,      \* the fence of the last stream the kernel took
  completed,      \* the fence of the last stream the GPU completed
  unreserved      \* history: has etnaviv_emit written words that etna_reserve
                  \* refused?

ctxvars == <<cur_buf, offset, base, sig_id, last_fence_id>>
gpuvars == <<jobs, submitted, completed>>
vars == <<ctxvars, tab, owned, gpuvars, unreserved>>

ETNA_NO_BUFFER == -1
Buffers == 0 .. NumBuffers - 1

Reloc == [bo : Bos, idx : Nat, at : Nat]
Job   == [fence : Nat, buf : Buffers, first : Nat, end : Nat,
          bos : Seq(Bos), relocs : SUBSET Reloc]

TypeOK ==
  /\ cur_buf \in Buffers \union {ETNA_NO_BUFFER}
  /\ offset \in Nat
  /\ base \in Nat
  /\ sig_id \in [Buffers -> Nat]
  /\ last_fence_id \in Nat
  /\ tab \in [bos : Seq(Bos), relocs : SUBSET Reloc,
              bo_idx : [Bos -> Nat \union {-1}], ref : [Bos -> Nat]]
  /\ owned \in SUBSET Bos
  /\ jobs \in SUBSET Job
  /\ submitted \in Nat
  /\ completed \in 0 .. submitted
  /\ unreserved \in BOOLEAN

(* etna_create                                                             *)
Init ==
  /\ cur_buf = ETNA_NO_BUFFER
  /\ offset = 0
  /\ base = 0
  /\ sig_id = [b \in Buffers |-> 0]
  /\ last_fence_id = 0
  /\ tab = [bos |-> << >>, relocs |-> {},
            bo_idx |-> [o \in Bos |-> -1], ref |-> [o \in Bos |-> 0]]
  /\ owned = {}
  /\ jobs = {}
  /\ submitted = 0
  /\ completed = 0
  /\ unreserved = FALSE

-----------------------------------------------------------------------------
(* The GPU completes the streams in order.                                 *)

Running(js, done) == {j \in js : j.fence > done}

GpuStep ==
  /\ completed < submitted
  /\ completed' = completed + 1
  /\ jobs' = Running(jobs, completed + 1)
  /\ UNCHANGED <<ctxvars, tab, owned, submitted, unreserved>>

-----------------------------------------------------------------------------
(* Bos.                                                                    *)

(* etna_bo_new, and the other ways to come by a bo                         *)
BoNew(o) ==
  /\ tab.ref[o] = 0
  /\ tab' = [tab EXCEPT !.ref[o] = 1, !.bo_idx[o] = -1]
  /\ owned' = owned \union {o}
  /\ UNCHANGED <<ctxvars, gpuvars, unreserved>>

(* etna_bo_del by the owner: the stream may still hold a reference         *)
BoDel(o) ==
  /\ o \in owned
  /\ tab' = [tab EXCEPT !.ref[o] = @ - 1]
  /\ owned' = owned \ {o}
  /\ UNCHANGED <<ctxvars, gpuvars, unreserved>>

(* etna_reloc_bo_index and the rest of etna_emit_reloc: a bo enters the    *)
(* table of this submission once, and the table holds a reference to it.   *)

(* Mutant: the table takes no reference.                                   *)
EmitRelocNoRef(t, o, at) ==
  IF t.bo_idx[o] >= 0
  THEN [t EXCEPT !.relocs = @ \union {[bo |-> o, idx |-> t.bo_idx[o], at |-> at]}]
  ELSE [t EXCEPT !.bos = Append(@, o), !.bo_idx[o] = Len(t.bos),
                 !.relocs = @ \union {[bo |-> o, idx |-> Len(t.bos), at |-> at]}]

EmitReloc(t, o, at) ==
  IF t.bo_idx[o] >= 0
  THEN [t EXCEPT !.relocs = @ \union {[bo |-> o, idx |-> t.bo_idx[o], at |-> at]}]
  ELSE [bos    |-> Append(t.bos, o),
        relocs |-> t.relocs \union {[bo |-> o, idx |-> Len(t.bos), at |-> at]},
        bo_idx |-> [t.bo_idx EXCEPT ![o] = Len(t.bos)],
        ref    |-> [t.ref EXCEPT ![o] = @ + 1]]

(* The loop at the end of etna_flush: the table lets go of every bo.       *)

(* Mutant: the bos remember their index in the submitted table.            *)
DropTableKeepsIdx(t) ==
  [bos    |-> << >>,
   relocs |-> {},
   bo_idx |-> t.bo_idx,
   ref    |-> [o \in Bos |-> t.ref[o] - (IF o \in Range(t.bos) THEN 1 ELSE 0)]]

DropTable(t) ==
  [bos    |-> << >>,
   relocs |-> {},
   bo_idx |-> [o \in Bos |-> IF o \in Range(t.bos) THEN -1 ELSE t.bo_idx[o]],
   ref    |-> [o \in Bos |-> t.ref[o] - (IF o \in Range(t.bos) THEN 1 ELSE 0)]]

-----------------------------------------------------------------------------
(* Flushing and reserving.                                                 *)

(* The request of etna_do_flush.                                           *)
Stream ==
  [fence |-> submitted + 1, buf |-> cur_buf, first |-> base, end |-> offset,
   bos |-> tab.bos, relocs |-> tab.relocs]

(* Where the next stream starts.  It is the end of the buffer if only the  *)
(* clearances fit there, so that the next etna_reserve moves on.           *)

(* Mutant: there is no such limit.                                         *)
BehindStreamUnlimited(o) == o + End + Begin

BehindStream(o) ==
  IF o + End + Begin + End >= BufferSize THEN BufferSize - End
  ELSE o + End + Begin

(* etna_flush by etnaviv_commit, once etna_set_pipe has taken a buffer     *)
Flush ==
  /\ cur_buf # ETNA_NO_BUFFER
  /\ submitted < MaxFence
  /\ submitted' = submitted + 1
  /\ jobs' = jobs \union {Stream}
  /\ tab' = DropTable(tab)
  /\ offset' = BehindStream(offset)
  /\ base' = BehindStream(offset)
  /\ UNCHANGED <<cur_buf, sig_id, last_fence_id, owned, completed, unreserved>>

(* viv_fence_finish for a fence some object or buffer remembers, by the    *)
(* accelerator: last_fence_id may move backwards.                          *)
FenceFinish(id) ==
  /\ id \in 1 .. submitted
  /\ last_fence_id' = id
  /\ completed' = IF id > completed THEN id ELSE completed
  /\ jobs' = Running(jobs, id)
  /\ UNCHANGED <<cur_buf, offset, base, sig_id, tab, owned, submitted, unreserved>>

Fits(n) == offset + n + End <= BufferSize

(* etnaviv_emit writes n words and the relocs in them: an operation names  *)
(* no bo, one, or a destination and a source, in that order.               *)
EmitRelocs(t, at, rs) ==
  IF rs = << >> THEN t
  ELSE LET first == EmitReloc(t, rs[1], at)
       IN  IF Len(rs) = 1 THEN first ELSE EmitReloc(first, rs[2], at)

Write(t, at, n, rs) ==
  /\ offset' = at + n
  /\ tab' = EmitRelocs(t, at, rs)

(* The operation fits behind the others.                                   *)
EmitHere(n, rs) ==
  /\ Fits(n)
  /\ Write(tab, offset, n, rs)
  /\ UNCHANGED <<cur_buf, base, sig_id, last_fence_id, gpuvars, unreserved>>

(* etna_set_pipe by etnaviv_accel_init: the first buffer is taken.         *)
SetPipe ==
  /\ cur_buf = ETNA_NO_BUFFER
  /\ cur_buf' = 0
  /\ base' = Begin
  /\ offset' = Begin + PipeSize
  /\ UNCHANGED <<sig_id, last_fence_id, tab, owned, gpuvars, unreserved>>

NextBuffer == (cur_buf + 1) % NumBuffers

(* The fence the next buffer waits for, after this one's was recorded.     *)
NextFence(sig) == sig[NextBuffer]

(* Mutant: the next buffer is taken without waiting for its fence.         *)
WaitForNextNever(sig) ==
  /\ last_fence_id' = last_fence_id
  /\ completed' = completed
  /\ jobs' = jobs \union {Stream}

WaitForNext(sig) ==
  IF last_fence_id < NextFence(sig)
  THEN /\ last_fence_id' = NextFence(sig)
       /\ completed' = IF NextFence(sig) > completed THEN NextFence(sig)
                       ELSE completed
       /\ jobs' = Running(jobs \union {Stream}, NextFence(sig))
  ELSE /\ jobs' = jobs \union {Stream}
       /\ UNCHANGED <<last_fence_id, completed>>

(* _etna_reserve_internal flushes the full buffer and moves on.  Its        *)
(* assertions end the server when the context is beyond the buffer, or     *)
(* when the flush fails: neither is a step.                                *)
MayReserve(n) == ~Fits(n) /\ offset + End <= BufferSize

EmitNext(n, rs) ==
  LET sig == [sig_id EXCEPT ![cur_buf] = submitted + 1]
  IN  /\ MayReserve(n)
      /\ submitted' = submitted + 1
      /\ sig_id' = sig
      /\ WaitForNext(sig)
      /\ cur_buf' = NextBuffer
      /\ base' = Begin
      /\ Write(DropTable(tab), Begin, n, rs)
      /\ UNCHANGED unreserved

(* The wait for the next buffer fails.  etna_reserve says so, but          *)
(* etnaviv_emit does not look and writes where the context stands.         *)
EmitUnreserved(n, rs) ==
  LET sig == [sig_id EXCEPT ![cur_buf] = submitted + 1]
  IN  /\ WaitFails
      /\ MayReserve(n)
      /\ last_fence_id < NextFence(sig)
      /\ submitted' = submitted + 1
      /\ jobs' = jobs \union {Stream}
      /\ sig_id' = sig
      /\ base' = BehindStream(offset)
      /\ Write(DropTable(tab), BehindStream(offset), n, rs)
      /\ unreserved' = TRUE
      /\ UNCHANGED <<cur_buf, last_fence_id, completed>>

(* etnaviv_emit of an operation on bos that somebody owns                  *)
Emit(n, rs) ==
  /\ cur_buf # ETNA_NO_BUFFER
  /\ submitted < MaxFence
  /\ Range(rs) \subseteq owned
  /\ EmitHere(n, rs) \/ EmitNext(n, rs) \/ EmitUnreserved(n, rs)
  /\ UNCHANGED owned

Operands == {<< >>} \union {<<o>> : o \in Bos} \union (Bos \X Bos)

Next ==
  \/ GpuStep
  \/ \E o \in Bos : BoNew(o) \/ BoDel(o)
  \/ SetPipe
  \/ \E n \in OpSizes, rs \in Operands : Emit(n, rs)
  \/ Flush
  \/ \E id \in 1 .. MaxFence : FenceFinish(id)

Spec == Init /\ [][Next]_vars

-----------------------------------------------------------------------------
(* Properties.                                                             *)

(* assert((ctx->offset * 4 + END_COMMIT_CLEARANCE) <= COMMAND_BUFFER_SIZE) *)
(* at the head of _etna_reserve_internal: what was written, and the space  *)
(* the kernel may add to it, is inside the buffer, unless etnaviv_emit did *)
(* not look when etna_reserve refused.                                     *)
OffsetInBuffer ==
  cur_buf # ETNA_NO_BUFFER /\ ~unreserved => offset + End <= BufferSize

(* Commands are not written where the GPU may still be reading: a buffer   *)
(* of the ring comes round again only when the streams submitted from it   *)
(* are complete, and within a buffer streams are written one behind the    *)
(* other (etna_flush, _etna_reserve_internal), as long as etnaviv_emit has *)
(* kept to what etna_reserve gave it.                                      *)
CommandsNotOverwritten ==
  ~unreserved =>
    \A j \in jobs : j.buf = cur_buf => j.end <= base \/ offset <= j.first

(* A relocation names, through its index, the very bo it was emitted for,  *)
(* and a word of its own stream, in the stream that is being built and in  *)
(* the submitted ones (etna_reloc_bo_index, etna_emit_reloc).              *)
RelocsIn(relocs, bos, first, end) ==
  \A r \in relocs : /\ r.idx < Len(bos) /\ bos[r.idx + 1] = r.bo
                    /\ first <= r.at /\ r.at < end
RelocsOK ==
  /\ RelocsIn(tab.relocs, tab.bos, base, offset)
  /\ \A j \in jobs : RelocsIn(j.relocs, j.bos, j.first, j.end)

(* A bo is referenced by its owner and by the table of the stream that is  *)
(* being built, once each: the bos of a stream outlive it, and no longer   *)
(* (etna_reloc_bo_index, etna_flush, etna_bo_del).                         *)
RefsExact ==
  \A o \in Bos :
    tab.ref[o] = (IF o \in owned THEN 1 ELSE 0)
               + (IF o \in Range(tab.bos) THEN 1 ELSE 0)

=============================================================================
