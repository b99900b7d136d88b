--------------------------- MODULE EtnaCtxProofs ----------------------------
(***************************************************************************)
(* The command buffers are neither overrun nor written while the GPU may   *)
(* still read them, for every buffer size, number of buffers and set of    *)
(* operations that fit a buffer, until etnaviv_emit writes words that      *)
(* etna_reserve has refused.  And, refused or not, the table of bos that   *)
(* a stream carries is the one its relocations and references are about.   *)
(***************************************************************************)
EXTENDS EtnaCtx, TLAPS

(* What the streams that are not complete have in common.  A buffer that   *)
(* was left holds streams no younger than its sig_id; the current one      *)
(* holds streams that end before the one that is being written.            *)
JobOK(j) ==
  /\ j.fence \in Nat /\ j.fence > completed /\ j.fence <= submitted
  /\ j.buf \in Buffers
  /\ j.buf # cur_buf => j.fence <= sig_id[j.buf]
  /\ j.buf = cur_buf => j.end <= base

RingInv ==
  /\ cur_buf \in Buffers \union {ETNA_NO_BUFFER}
  /\ offset \in Int /\ base \in Int /\ base <= offset
  /\ sig_id \in [Buffers -> Nat]
  /\ last_fence_id \in Nat /\ submitted \in Nat /\ completed \in Nat
  /\ last_fence_id <= completed /\ completed <= submitted
  /\ \A b \in Buffers : sig_id[b] <= submitted
  /\ cur_buf # ETNA_NO_BUFFER => offset + End <= BufferSize
  /\ cur_buf = ETNA_NO_BUFFER => jobs = {}
  /\ \A j \in jobs : JobOK(j) /\ j.end \in Int

LEMMA NextBufferInRing ==
  ASSUME cur_buf \in Buffers PROVE NextBuffer \in Buffers
BY SizesAssumption DEF NextBuffer, Buffers

(* A clearance behind the stream is inside the buffer, or the next stream  *)
(* starts at the end of it.                                                *)
LEMMA BehindStreamProperties ==
  ASSUME NEW o \in Int, o + End <= BufferSize
  PROVE  /\ BehindStream(o) \in Int
         /\ o <= BehindStream(o)
         /\ BehindStream(o) + End <= BufferSize
BY SizesAssumption DEF BehindStream

LEMMA RingInit == Init => RingInv
BY SizesAssumption
   DEF Init, RingInv, ETNA_NO_BUFFER, Buffers

LEMMA RingNext ==
  ASSUME RingInv, ~unreserved, [Next]_vars PROVE unreserved' \/ RingInv'
<1> USE DEF RingInv
<1>1. ASSUME GpuStep PROVE RingInv'
  BY <1>1 DEF GpuStep, ctxvars, JobOK, Running
<1>2. ASSUME NEW o \in Bos, BoNew(o) \/ BoDel(o) PROVE RingInv'
  BY <1>2 DEF BoNew, BoDel, ctxvars, gpuvars, JobOK
<1>3. ASSUME SetPipe PROVE RingInv'
  <2>1. 0 \in Buffers
    BY SizesAssumption DEF Buffers
  <2> QED
    BY <1>3, <2>1, SizesAssumption DEF SetPipe, gpuvars, ETNA_NO_BUFFER, JobOK
<1>4. ASSUME NEW n \in OpSizes, NEW rs \in Operands, Emit(n, rs)
      PROVE  unreserved' \/ RingInv'
  <2>1. /\ cur_buf \in Buffers
        /\ cur_buf # ETNA_NO_BUFFER
        /\ offset + End <= BufferSize
        /\ n \in Nat /\ Begin \in Nat /\ End \in Nat /\ BufferSize \in Nat
        /\ Begin + n + End <= BufferSize
    BY <1>4, SizesAssumption DEF Emit
  <2>2. CASE EmitHere(n, rs)
    BY <2>1, <2>2 DEF EmitHere, Write, Fits, gpuvars, JobOK
  <2>3. CASE EmitNext(n, rs)
    <3> DEFINE sig  == [sig_id EXCEPT ![cur_buf] = submitted + 1]
               next == NextBuffer
    <3>1. /\ next \in Buffers
          /\ sig \in [Buffers -> Nat]
          /\ sig[cur_buf] = submitted + 1
          /\ \A b \in Buffers : b # cur_buf => sig[b] = sig_id[b]
          /\ \A b \in Buffers : sig[b] <= submitted + 1
      BY <2>1, NextBufferInRing
    <3>2. /\ submitted' = submitted + 1
          /\ sig_id' = sig
          /\ cur_buf' = next
          /\ base' = Begin
          /\ offset' = Begin + n
          /\ WaitForNext(sig)
      BY <2>3 DEF EmitNext, Write
    <3> DEFINE js == jobs \union {Stream}
    <3>3. \A j \in js : /\ j.fence \in Nat /\ j.fence <= submitted'
                        /\ j.fence > completed
                        /\ j.buf \in Buffers
                        /\ j.fence <= sig[j.buf]
                        /\ j.end \in Int
      <4>1. ASSUME NEW j \in jobs
            PROVE  /\ j.fence \in Nat /\ j.fence <= submitted'
                   /\ j.fence > completed
                   /\ j.buf \in Buffers
                   /\ j.fence <= sig[j.buf]
                   /\ j.end \in Int
        BY <3>1, <3>2 DEF JobOK
      <4>2. /\ Stream.fence = submitted + 1 /\ Stream.fence > completed
            /\ Stream.buf = cur_buf
            /\ Stream.end = offset
        BY DEF Stream
      <4> HIDE DEF sig
      <4> QED
        BY <4>1, <4>2, <3>1, <3>2, <2>1
    <3> HIDE DEF sig, next
    <3>4. CASE last_fence_id < sig[next]
      <4>1. /\ last_fence_id' = sig[next]
            /\ completed' = IF sig[next] > completed THEN sig[next] ELSE completed
            /\ jobs' = {j \in js : j.fence > sig[next]}
        BY <3>2, <3>4 DEF WaitForNext, NextFence, Running, next
      <4>2. sig[next] \in Nat
        BY <3>1
      <4>3. last_fence_id' \in Nat /\ completed' \in Nat /\ last_fence_id' <= completed'
           /\ completed' <= submitted'
        BY <4>1, <4>2, <3>1, <3>2
      <4>4. ASSUME NEW j \in jobs' PROVE JobOK(j)' /\ j.end \in Int
        <5>1. j \in js /\ j.fence > sig[next]
          BY <4>1
        <5>2. j.buf # next
          BY <5>1, <3>3, <3>1, <4>2
        <5>3. j.fence > completed
          BY <5>1, <3>3
        <5>4. j.fence > completed'
          BY <5>1, <5>3, <4>1, <4>2
        <5> QED
          BY <5>1, <5>2, <5>4, <3>2, <3>3 DEF JobOK
      <4> QED
        BY <4>3, <4>4, <3>1, <3>2, <2>1 DEF ETNA_NO_BUFFER, Buffers
    <3>5. CASE ~(last_fence_id < sig[next])
      <4>1. /\ last_fence_id' = last_fence_id
            /\ completed' = completed
            /\ jobs' = js
        BY <3>2, <3>5 DEF WaitForNext, NextFence, next
      <4>2. ASSUME NEW j \in jobs' PROVE JobOK(j)' /\ j.end \in Int
        <5>1. j.fence > completed
          BY <4>1, <3>3
        <5>2. j.buf # next
          BY <5>1, <4>1, <3>1, <3>3, <3>5
        <5> QED
          BY <5>1, <5>2, <4>1, <3>2, <3>3 DEF JobOK
      <4> QED
        BY <4>1, <4>2, <3>1, <3>2, <2>1 DEF ETNA_NO_BUFFER, Buffers
    <3> QED
      BY <3>4, <3>5
  <2> QED
    BY <1>4, <2>2, <2>3 DEF Emit, EmitUnreserved
<1>5. ASSUME Flush PROVE RingInv'
  <2>1. /\ cur_buf \in Buffers
        /\ offset + End <= BufferSize
    BY <1>5 DEF Flush
  <2>2. /\ BehindStream(offset) \in Int
        /\ offset <= BehindStream(offset)
        /\ BehindStream(offset) + End <= BufferSize
    BY <2>1, BehindStreamProperties
  <2>3. ASSUME NEW j \in jobs' PROVE JobOK(j)' /\ j.end \in Int
    <3>1. CASE j \in jobs
      BY <3>1, <2>2, <1>5 DEF Flush, JobOK
    <3>2. CASE j = Stream
      BY <3>2, <2>1, <2>2, <1>5 DEF Flush, JobOK, Stream
    <3> QED
      BY <3>1, <3>2, <1>5 DEF Flush
  <2> QED
    BY <2>1, <2>2, <2>3, <1>5 DEF Flush
<1>6. ASSUME NEW id \in 1 .. MaxFence, FenceFinish(id) PROVE RingInv'
  <2>1. /\ id \in Nat
        /\ last_fence_id' = id
        /\ completed' = IF id > completed THEN id ELSE completed
        /\ jobs' = {j \in jobs : j.fence > id}
    BY <1>6, MaxFenceAssumption DEF FenceFinish, Running
  <2>2. \A j \in jobs' : j \in jobs /\ j.fence > completed'
    BY <2>1 DEF JobOK
  <2> QED
    BY <2>1, <2>2, <1>6 DEF FenceFinish, JobOK
<1>7. CASE UNCHANGED vars
  BY <1>7 DEF vars, ctxvars, gpuvars, JobOK
<1> QED
  BY <1>1, <1>2, <1>3, <1>4, <1>5, <1>6, <1>7 DEF Next

(* What was written without a reservation is never taken back.             *)
LEMMA UnreservedStays == ASSUME unreserved, [Next]_vars PROVE unreserved'
BY DEF Next, vars, GpuStep, BoNew, BoDel, SetPipe, Emit, EmitHere, EmitNext,
       EmitUnreserved, Flush, FenceFinish

LEMMA RingInvariant == Spec => [](unreserved \/ RingInv)
<1>1. (unreserved \/ RingInv) /\ [Next]_vars => (unreserved \/ RingInv)'
  BY RingNext, UnreservedStays
<1> QED
  BY RingInit, <1>1, PTL DEF Spec

(* The assertion at the head of _etna_reserve_internal holds: no operation *)
(* is written beyond its command buffer.                                   *)
THEOREM OffsetCorrect == Spec => []OffsetInBuffer
<1>1. unreserved \/ RingInv => OffsetInBuffer
  BY DEF RingInv, OffsetInBuffer
<1> QED
  BY RingInvariant, <1>1, PTL

(* No command is written over a stream that is not complete: the fence     *)
(* recorded when a buffer is left covers every stream submitted from it.   *)
THEOREM OverwriteCorrect == Spec => []CommandsNotOverwritten
<1>1. unreserved \/ RingInv => CommandsNotOverwritten
  BY DEF RingInv, CommandsNotOverwritten, JobOK
<1> QED
  BY RingInvariant, <1>1, PTL

-----------------------------------------------------------------------------
(* The table of bos.  A bo's bo_idx is where the table has it, or -1, and  *)
(* its references are its owner's and the table's.                         *)
Tables == [bos : Seq(Bos), relocs : SUBSET Reloc,
           bo_idx : [Bos -> Nat \union {-1}], ref : [Bos -> Nat]]

TableOK(t) ==
  /\ t \in Tables
  /\ \A i \in 1 .. Len(t.bos) : t.bo_idx[t.bos[i]] = i - 1
  /\ \A o \in Bos :
       /\ t.bo_idx[o] >= 0 => t.bo_idx[o] < Len(t.bos) /\ t.bos[t.bo_idx[o] + 1] = o
       /\ t.ref[o] = (IF o \in owned THEN 1 ELSE 0) + (IF t.bo_idx[o] >= 0 THEN 1 ELSE 0)

TabInv ==
  /\ offset \in Nat /\ base \in Nat /\ base <= offset
  /\ cur_buf \in Buffers \union {ETNA_NO_BUFFER}
  /\ cur_buf = ETNA_NO_BUFFER => tab.bos = << >> /\ tab.relocs = {}
  /\ TableOK(tab)
  /\ RelocsOK

(* The bos of the table are those that have an index.                      *)
LEMMA InTable ==
  ASSUME NEW t, TableOK(t), NEW o \in Bos
  PROVE  o \in Range(t.bos) <=> t.bo_idx[o] >= 0
<1>1. t.bos \in Seq(Bos) /\ DOMAIN t.bos = 1 .. Len(t.bos) /\ Len(t.bos) \in Nat
  BY DEF TableOK, Tables
<1>2. ASSUME o \in Range(t.bos) PROVE t.bo_idx[o] >= 0
  <2>1. PICK i \in 1 .. Len(t.bos) : t.bos[i] = o
    BY <1>1, <1>2 DEF Range
  <2> QED
    BY <1>1, <2>1 DEF TableOK
<1>3. ASSUME t.bo_idx[o] >= 0 PROVE o \in Range(t.bos)
  <2>1. t.bo_idx[o] \in Nat
    BY <1>3 DEF TableOK, Tables
  <2>2. t.bo_idx[o] + 1 \in 1 .. Len(t.bos) /\ t.bos[t.bo_idx[o] + 1] = o
    BY <1>1, <1>3, <2>1 DEF TableOK
  <2> QED
    BY <1>1, <2>2 DEF Range
<1> QED
  BY <1>2, <1>3

(* A relocation names a bo of the table, old or new, and disturbs none.    *)
LEMMA EmitRelocTable ==
  ASSUME NEW t, TableOK(t), NEW o \in Bos, NEW at \in Nat
  PROVE  TableOK(EmitReloc(t, o, at))
<1> DEFINE u == EmitReloc(t, o, at)
<1>0. /\ t.bos \in Seq(Bos) /\ Len(t.bos) \in Nat /\ t.relocs \in SUBSET Reloc
      /\ t.bo_idx \in [Bos -> Nat \union {-1}] /\ t.ref \in [Bos -> Nat]
  BY DEF TableOK, Tables
<1>1. CASE t.bo_idx[o] >= 0
  <2>1. [bo |-> o, idx |-> t.bo_idx[o], at |-> at] \in Reloc
    BY <1>0, <1>1 DEF Reloc
  <2>2. u \in Tables /\ u.bos = t.bos /\ u.bo_idx = t.bo_idx /\ u.ref = t.ref
    BY <1>1, <2>1 DEF EmitReloc, TableOK, Tables
  <2> QED
    BY <2>2 DEF TableOK
<1>2. CASE ~(t.bo_idx[o] >= 0)
  <2>1. [bo |-> o, idx |-> Len(t.bos), at |-> at] \in Reloc
    BY <1>0 DEF Reloc
  <2>2. /\ u.bos = Append(t.bos, o)
        /\ u.bo_idx = [t.bo_idx EXCEPT ![o] = Len(t.bos)]
        /\ u.ref = [t.ref EXCEPT ![o] = @ + 1]
    BY <1>2 DEF EmitReloc
  <2>3. u \in Tables
    BY <1>0, <1>2, <2>1 DEF EmitReloc, Tables
  <2>4. /\ Len(u.bos) = Len(t.bos) + 1 /\ u.bos[Len(t.bos) + 1] = o
        /\ \A i \in 1 .. Len(t.bos) : u.bos[i] = t.bos[i]
    BY <1>0, <2>2
  <2> HIDE DEF u
  <2>5. \A i \in 1 .. Len(u.bos) : u.bo_idx[u.bos[i]] = i - 1
    <3> SUFFICES ASSUME NEW i \in 1 .. Len(u.bos) PROVE u.bo_idx[u.bos[i]] = i - 1
      OBVIOUS
    <3>1. CASE i = Len(t.bos) + 1
      BY <1>0, <2>2, <2>4, <3>1
    <3>2. CASE i \in 1 .. Len(t.bos)
      <4>1. t.bo_idx[t.bos[i]] = i - 1 /\ t.bos[i] \in Bos
        BY <1>0, <3>2 DEF TableOK
      <4>2. t.bos[i] # o
        BY <1>2, <3>2, <4>1
      <4> QED
        BY <1>0, <2>2, <2>4, <3>2, <4>1, <4>2
    <3> QED
      BY <1>0, <2>4, <3>1, <3>2
  <2>6. ASSUME NEW p \in Bos
        PROVE  /\ u.bo_idx[p] >= 0 => u.bo_idx[p] < Len(u.bos) /\ u.bos[u.bo_idx[p] + 1] = p
               /\ u.ref[p] = (IF p \in owned THEN 1 ELSE 0) + (IF u.bo_idx[p] >= 0 THEN 1 ELSE 0)
    <3>1. CASE p = o
      <4>1. u.bo_idx[o] = Len(t.bos) /\ u.ref[o] = t.ref[o] + 1
        BY <1>0, <2>2
      <4>2. t.ref[o] = IF o \in owned THEN 1 ELSE 0
        BY <1>0, <1>2 DEF TableOK
      <4> QED
        BY <1>0, <2>4, <3>1, <4>1, <4>2
    <3>2. CASE p # o
      <4>1. u.bo_idx[p] = t.bo_idx[p] /\ u.ref[p] = t.ref[p] /\ t.bo_idx[p] \in Nat \union {-1}
        BY <1>0, <2>2, <3>2
      <4>2. t.bo_idx[p] >= 0 => t.bo_idx[p] < Len(t.bos) /\ t.bos[t.bo_idx[p] + 1] = p
        BY DEF TableOK
      <4>3. t.ref[p] = (IF p \in owned THEN 1 ELSE 0) + (IF t.bo_idx[p] >= 0 THEN 1 ELSE 0)
        BY DEF TableOK
      <4>4. ASSUME u.bo_idx[p] >= 0
            PROVE  u.bo_idx[p] < Len(u.bos) /\ u.bos[u.bo_idx[p] + 1] = p
        <5>1. t.bo_idx[p] + 1 \in 1 .. Len(t.bos)
          BY <1>0, <4>1, <4>2, <4>4
        <5> QED
          BY <1>0, <2>4, <4>1, <4>2, <4>4, <5>1
      <4>5. u.ref[p] = (IF p \in owned THEN 1 ELSE 0) + (IF u.bo_idx[p] >= 0 THEN 1 ELSE 0)
        BY <4>1, <4>3
      <4> QED
        BY <4>4, <4>5
    <3> QED
      BY <3>1, <3>2
  <2> QED
    BY <2>3, <2>5, <2>6 DEF TableOK, u
<1> QED
  BY <1>1, <1>2

(* It is in the words of the operation, and the earlier ones stay right.   *)
LEMMA EmitRelocRelocs ==
  ASSUME NEW t, TableOK(t), NEW o \in Bos, NEW at \in Nat, NEW first \in Nat,
         NEW end \in Nat, first <= at, at < end, RelocsIn(t.relocs, t.bos, first, end)
  PROVE  RelocsIn(EmitReloc(t, o, at).relocs, EmitReloc(t, o, at).bos, first, end)
<1>0. /\ t.bos \in Seq(Bos) /\ Len(t.bos) \in Nat /\ t.relocs \in SUBSET Reloc
      /\ t.bo_idx[o] \in Nat \union {-1}
  BY DEF TableOK, Tables
<1>1. CASE t.bo_idx[o] >= 0
  <2>1. /\ EmitReloc(t, o, at).relocs
             = t.relocs \union {[bo |-> o, idx |-> t.bo_idx[o], at |-> at]}
        /\ EmitReloc(t, o, at).bos = t.bos
    BY <1>1 DEF EmitReloc, TableOK, Tables
  <2>2. t.bo_idx[o] < Len(t.bos) /\ t.bos[t.bo_idx[o] + 1] = o
    BY <1>1 DEF TableOK
  <2> QED
    BY <2>1, <2>2 DEF RelocsIn
<1>2. CASE ~(t.bo_idx[o] >= 0)
  <2>1. /\ EmitReloc(t, o, at).relocs
             = t.relocs \union {[bo |-> o, idx |-> Len(t.bos), at |-> at]}
        /\ EmitReloc(t, o, at).bos = Append(t.bos, o)
    BY <1>2 DEF EmitReloc
  <2>2. /\ Len(Append(t.bos, o)) = Len(t.bos) + 1
        /\ Append(t.bos, o)[Len(t.bos) + 1] = o
        /\ \A i \in 1 .. Len(t.bos) : Append(t.bos, o)[i] = t.bos[i]
    BY <1>0
  <2>3. \A r \in t.relocs : r.idx \in Nat
    BY <1>0 DEF Reloc
  <2> QED
    BY <1>0, <2>1, <2>2, <2>3 DEF RelocsIn
<1> QED
  BY <1>1, <1>2

LEMMA EmitRelocsKeeps ==
  ASSUME NEW t, TableOK(t), NEW rs \in Operands, NEW at \in Nat, NEW first \in Nat,
         NEW end \in Nat, first <= at, at < end, RelocsIn(t.relocs, t.bos, first, end)
  PROVE  /\ TableOK(EmitRelocs(t, at, rs))
         /\ RelocsIn(EmitRelocs(t, at, rs).relocs, EmitRelocs(t, at, rs).bos, first, end)
<1>1. CASE rs = << >>
  BY <1>1 DEF EmitRelocs
<1>2. ASSUME NEW o \in Bos, rs = <<o>>
      PROVE  /\ TableOK(EmitRelocs(t, at, rs))
             /\ RelocsIn(EmitRelocs(t, at, rs).relocs, EmitRelocs(t, at, rs).bos, first, end)
  <2>1. EmitRelocs(t, at, rs) = EmitReloc(t, o, at)
    BY <1>2 DEF EmitRelocs
  <2> QED
    BY <2>1, EmitRelocTable, EmitRelocRelocs
<1>3. ASSUME rs \in Bos \X Bos
      PROVE  /\ TableOK(EmitRelocs(t, at, rs))
             /\ RelocsIn(EmitRelocs(t, at, rs).relocs, EmitRelocs(t, at, rs).bos, first, end)
  <2> DEFINE u == EmitReloc(t, rs[1], at)
  <2>0. PICK d \in Bos, s \in Bos : rs = <<d, s>>
    BY <1>3
  <2>1. rs[1] \in Bos /\ rs[2] \in Bos /\ Len(rs) = 2 /\ rs # << >>
    BY <2>0
  <2>2. EmitRelocs(t, at, rs) = EmitReloc(u, rs[2], at)
    BY <2>1 DEF EmitRelocs
  <2>3. TableOK(u) /\ RelocsIn(u.relocs, u.bos, first, end)
    BY <2>1, EmitRelocTable, EmitRelocRelocs
  <2> HIDE DEF u
  <2> QED
    BY <2>1, <2>2, <2>3, EmitRelocTable, EmitRelocRelocs
<1> QED
  BY <1>1, <1>2, <1>3 DEF Operands

(* The table that lets go of its bos is empty.                             *)
LEMMA DropTableOK ==
  ASSUME NEW t, TableOK(t)
  PROVE  TableOK(DropTable(t)) /\ DropTable(t).relocs = {} /\ DropTable(t).bos = << >>
<1> DEFINE u == DropTable(t)
<1>0. t.bo_idx \in [Bos -> Nat \union {-1}] /\ t.ref \in [Bos -> Nat]
  BY DEF TableOK, Tables
<1>1. u.bos = << >> /\ u.relocs = {} /\ Len(u.bos) = 0 /\ u.bos \in Seq(Bos)
  BY DEF DropTable
<1>2. /\ u.bo_idx = [o \in Bos |-> IF o \in Range(t.bos) THEN -1 ELSE t.bo_idx[o]]
      /\ u.ref = [o \in Bos |-> t.ref[o] - (IF o \in Range(t.bos) THEN 1 ELSE 0)]
      /\ u = [bos |-> << >>, relocs |-> {}, bo_idx |-> u.bo_idx, ref |-> u.ref]
  BY DEF DropTable
<1>3. ASSUME NEW o \in Bos
      PROVE  u.bo_idx[o] = -1 /\ u.ref[o] = IF o \in owned THEN 1 ELSE 0
  <2>1. o \in Range(t.bos) <=> t.bo_idx[o] >= 0
    BY InTable
  <2>2. t.bo_idx[o] \in Nat \union {-1} /\ t.ref[o] \in Nat
    BY <1>0
  <2>3. t.ref[o] = (IF o \in owned THEN 1 ELSE 0) + (IF t.bo_idx[o] >= 0 THEN 1 ELSE 0)
    BY DEF TableOK
  <2>4. u.bo_idx[o] = (IF o \in Range(t.bos) THEN -1 ELSE t.bo_idx[o])
    BY <1>2
  <2>5. u.ref[o] = t.ref[o] - (IF o \in Range(t.bos) THEN 1 ELSE 0)
    BY <1>2
  <2> HIDE DEF u
  <2> QED
    BY <2>1, <2>2, <2>3, <2>4, <2>5
<1>4. u.bo_idx \in [Bos -> Nat \union {-1}] /\ u.ref \in [Bos -> Nat]
  <2>1. DOMAIN u.bo_idx = Bos /\ DOMAIN u.ref = Bos
    BY <1>2
  <2>2. u.bo_idx = [o \in Bos |-> u.bo_idx[o]] /\ u.ref = [o \in Bos |-> u.ref[o]]
    BY <1>2
  <2> HIDE DEF u
  <2>3. \A o \in Bos : u.bo_idx[o] \in Nat \union {-1} /\ u.ref[o] \in Nat
    BY <1>3
  <2> QED
    BY <2>2, <2>3
<1> HIDE DEF u
<1>5. u \in Tables
  BY <1>1, <1>2, <1>4 DEF Tables
<1>6. TableOK(u)
  BY <1>1, <1>3, <1>5 DEF TableOK
<1> QED
  BY <1>1, <1>6 DEF u

LEMMA TabInit == Init => TabInv
<1> SUFFICES ASSUME Init PROVE TabInv
  OBVIOUS
<1>1. tab = [bos |-> << >>, relocs |-> {},
             bo_idx |-> [o \in Bos |-> -1], ref |-> [o \in Bos |-> 0]]
  BY DEF Init
<1>2. << >> \in Seq(Bos) /\ Len(tab.bos) = 0
  BY <1>1
<1>3. tab \in Tables
  BY <1>1, <1>2 DEF Tables
<1>4. TableOK(tab)
  BY <1>1, <1>2, <1>3 DEF TableOK, Init
<1>5. RelocsOK
  BY <1>1 DEF Init, RelocsOK, RelocsIn
<1> QED
  BY <1>1, <1>4, <1>5 DEF Init, TabInv

(* The next stream starts at a word, whatever the buffer holds.            *)
LEMMA BehindStreamNat ==
  ASSUME NEW o \in Nat PROVE BehindStream(o) \in Nat
BY SizesAssumption DEF BehindStream

(* An operation is written where its stream goes on.                       *)
LEMMA WriteTab ==
  ASSUME NEW t, TableOK(t), NEW at \in Nat, NEW n \in OpSizes, NEW rs \in Operands,
         base' \in Nat, base' <= at, RelocsIn(t.relocs, t.bos, base', at),
         Write(t, at, n, rs), owned' = owned
  PROVE  /\ offset' \in Nat /\ base' <= offset'
         /\ TableOK(tab)'
         /\ RelocsIn(tab.relocs, tab.bos, base, offset)'
<1>1. n \in Nat /\ n > 0
  BY SizesAssumption
<1>2. offset' = at + n /\ tab' = EmitRelocs(t, at, rs)
  BY DEF Write
<1>3. offset' \in Nat /\ at < offset' /\ base' <= offset'
  BY <1>1, <1>2
<1>4. RelocsIn(t.relocs, t.bos, base', offset')
  <2>1. t.relocs \in SUBSET Reloc
    BY DEF TableOK, Tables
  <2> QED
    BY <1>3, <2>1 DEF RelocsIn, Reloc
<1>5. TableOK(tab') /\ RelocsIn(tab'.relocs, tab'.bos, base', offset')
  BY <1>2, <1>3, <1>4, EmitRelocsKeeps
<1> QED
  BY <1>3, <1>5 DEF TableOK, RelocsIn

(* The stream that is submitted takes the table as it is.                  *)
LEMMA StreamRelocs ==
  ASSUME TabInv
  PROVE  \A j \in jobs \union {Stream} : RelocsIn(j.relocs, j.bos, j.first, j.end)
BY DEF TabInv, RelocsOK, Stream

LEMMA TabNext == TabInv /\ [Next]_vars => TabInv'
<1> SUFFICES ASSUME TabInv, [Next]_vars PROVE TabInv'
  OBVIOUS
<1> USE DEF TabInv
<1>0. \A js : js \subseteq jobs => \A j \in js : RelocsIn(j.relocs, j.bos, j.first, j.end)
  BY DEF RelocsOK
<1>1. ASSUME GpuStep PROVE TabInv'
  <2>1. jobs' \subseteq jobs
    BY <1>1 DEF GpuStep, Running
  <2> QED
    BY <1>0, <1>1, <2>1 DEF GpuStep, ctxvars, TableOK, RelocsOK, RelocsIn
<1>2. ASSUME NEW o \in Bos, BoNew(o) PROVE TabInv'
  <2>1. tab.ref[o] = 0 /\ tab.bo_idx \in [Bos -> Nat \union {-1}] /\ tab.ref \in [Bos -> Nat]
        /\ tab \in Tables
    BY <1>2 DEF BoNew, TableOK, Tables
  <2>2. o \notin owned /\ ~(tab.bo_idx[o] >= 0)
    BY <2>1 DEF TableOK
  <2>3. tab.bo_idx[o] = -1
    BY <2>1, <2>2
  <2>4. /\ tab'.bos = tab.bos /\ tab'.relocs = tab.relocs /\ tab'.bo_idx = tab.bo_idx
        /\ tab'.ref = [tab.ref EXCEPT ![o] = 1] /\ tab' \in Tables
    BY <1>2, <2>1, <2>3 DEF BoNew, Tables
  <2>5. owned' = owned \union {o} /\ UNCHANGED <<ctxvars, gpuvars>>
    BY <1>2 DEF BoNew
  <2>6. ASSUME NEW p \in Bos
        PROVE  tab'.ref[p] = (IF p \in owned' THEN 1 ELSE 0)
                           + (IF tab'.bo_idx[p] >= 0 THEN 1 ELSE 0)
    <3>1. CASE p = o
      BY <2>1, <2>2, <2>4, <2>5, <3>1
    <3>2. CASE p # o
      BY <2>1, <2>4, <2>5, <3>2 DEF TableOK
    <3> QED
      BY <3>1, <3>2
  <2>7. TableOK(tab)'
    BY <2>4, <2>6 DEF TableOK
  <2> QED
    BY <2>4, <2>5, <2>7 DEF ctxvars, gpuvars, RelocsOK, RelocsIn
<1>3. ASSUME NEW o \in Bos, BoDel(o) PROVE TabInv'
  <2>1. tab.ref \in [Bos -> Nat] /\ tab \in Tables /\ o \in owned
    BY <1>3 DEF BoDel, TableOK, Tables
  <2>2. owned' = owned \ {o} /\ UNCHANGED <<ctxvars, gpuvars>>
    BY <1>3 DEF BoDel
  <2>3. tab.ref[o] = 1 + (IF tab.bo_idx[o] >= 0 THEN 1 ELSE 0)
    BY <2>1 DEF TableOK
  <2>4. /\ tab'.bos = tab.bos /\ tab'.relocs = tab.relocs /\ tab'.bo_idx = tab.bo_idx
        /\ tab'.ref = [tab.ref EXCEPT ![o] = @ - 1]
    BY <1>3, <2>1 DEF BoDel, Tables
  <2>5. tab.ref[o] - 1 \in Nat
    BY <2>3
  <2>6. tab' \in Tables
    BY <1>3, <2>1, <2>5 DEF BoDel, Tables
  <2>7. ASSUME NEW p \in Bos
        PROVE  tab'.ref[p] = (IF p \in owned' THEN 1 ELSE 0)
                           + (IF tab'.bo_idx[p] >= 0 THEN 1 ELSE 0)
    <3>1. CASE p = o
      BY <2>1, <2>2, <2>3, <2>4, <3>1
    <3>2. CASE p # o
      BY <2>1, <2>2, <2>4, <3>2 DEF TableOK
    <3> QED
      BY <3>1, <3>2
  <2>8. TableOK(tab)'
    BY <2>4, <2>6, <2>7 DEF TableOK
  <2> QED
    BY <2>2, <2>4, <2>8 DEF ctxvars, gpuvars, RelocsOK, RelocsIn
<1>4. ASSUME SetPipe PROVE TabInv'
  <2>1. RelocsOK'
    BY <1>4 DEF SetPipe, RelocsOK, RelocsIn, gpuvars
  <2>2. TableOK(tab)'
    BY <1>4 DEF SetPipe, TableOK
  <2>3. 0 \in Buffers
    BY SizesAssumption DEF Buffers
  <2> QED
    BY <1>4, <2>1, <2>2, <2>3, SizesAssumption DEF SetPipe, ETNA_NO_BUFFER
<1>5. ASSUME NEW n \in OpSizes, NEW rs \in Operands, Emit(n, rs) PROVE TabInv'
  <2>1. owned' = owned /\ cur_buf # ETNA_NO_BUFFER
    BY <1>5 DEF Emit
  <2>2. CASE EmitHere(n, rs)
    <3>1. /\ Write(tab, offset, n, rs) /\ base' = base
          /\ cur_buf' = cur_buf /\ jobs' = jobs
      BY <2>2 DEF EmitHere, gpuvars
    <3>2. TableOK(tab) /\ RelocsIn(tab.relocs, tab.bos, base', offset)
      BY <3>1 DEF RelocsOK
    <3>3. base' \in Nat /\ base' <= offset /\ offset \in Nat
      BY <3>1
    <3> HIDE DEF TabInv
    <3>4. /\ offset' \in Nat /\ base' <= offset' /\ TableOK(tab)'
          /\ RelocsIn(tab.relocs, tab.bos, base, offset)'
      BY <2>1, <3>1, <3>2, <3>3, WriteTab
    <3> QED
      BY <2>1, <3>1, <3>3, <3>4 DEF TabInv, RelocsOK, RelocsIn
  <2> DEFINE t == DropTable(tab)
  <2>3. TableOK(t) /\ t.relocs = {}
    BY DropTableOK
  <2>4. CASE EmitNext(n, rs)
    <3>1. base' = Begin /\ Begin \in Nat /\ Write(t, Begin, n, rs)
      BY <2>4, SizesAssumption DEF EmitNext
    <3>0. base' \in Nat /\ base' <= Begin
      BY <3>1
    <3> HIDE DEF t, TabInv
    <3>2. RelocsIn(t.relocs, t.bos, base', Begin)
      BY <2>3 DEF RelocsIn
    <3>3. /\ offset' \in Nat /\ base' <= offset' /\ TableOK(tab)'
          /\ RelocsIn(tab.relocs, tab.bos, base, offset)'
      BY <2>1, <2>3, <3>0, <3>1, <3>2, WriteTab
    <3>4. jobs' \subseteq jobs \union {Stream}
      BY <2>4 DEF EmitNext, WaitForNext, Running
    <3>5. RelocsOK'
      BY <3>3, <3>4, StreamRelocs DEF RelocsOK, RelocsIn
    <3> USE DEF TabInv
    <3>6. cur_buf' \in Buffers /\ cur_buf' # ETNA_NO_BUFFER
      BY <2>1, <2>4, NextBufferInRing DEF EmitNext, Buffers, ETNA_NO_BUFFER
    <3> QED
      BY <3>1, <3>3, <3>5, <3>6
  <2>5. CASE EmitUnreserved(n, rs)
    <3> DEFINE at == BehindStream(offset)
    <3>1. base' = at /\ at \in Nat /\ Write(t, at, n, rs)
          /\ jobs' = jobs \union {Stream} /\ cur_buf' = cur_buf
      BY <2>5, BehindStreamNat DEF EmitUnreserved
    <3>0. base' \in Nat /\ base' <= at
      BY <3>1
    <3> HIDE DEF at, t, TabInv
    <3>2. RelocsIn(t.relocs, t.bos, base', at)
      BY <2>3 DEF RelocsIn
    <3>3. /\ offset' \in Nat /\ base' <= offset' /\ TableOK(tab)'
          /\ RelocsIn(tab.relocs, tab.bos, base, offset)'
      BY <2>1, <2>3, <3>0, <3>1, <3>2, WriteTab
    <3>4. RelocsOK'
      BY <3>1, <3>3, StreamRelocs DEF RelocsOK, RelocsIn
    <3> USE DEF TabInv
    <3> QED
      BY <2>1, <3>1, <3>3, <3>4
  <2> QED
    BY <1>5, <2>2, <2>4, <2>5 DEF Emit
<1>6. ASSUME Flush PROVE TabInv'
  <2>1. TableOK(tab') /\ tab'.relocs = {} /\ tab'.bos = << >>
    BY <1>6, DropTableOK DEF Flush
  <2>2. TableOK(tab)'
    BY <1>6, <2>1 DEF Flush, TableOK
  <2>3. RelocsOK'
    BY <1>6, <2>1, StreamRelocs DEF Flush, RelocsOK, RelocsIn
  <2> QED
    BY <1>6, <2>1, <2>2, <2>3, BehindStreamNat DEF Flush
<1>7. ASSUME NEW id \in 1 .. MaxFence, FenceFinish(id) PROVE TabInv'
  <2>1. jobs' \subseteq jobs
    BY <1>7 DEF FenceFinish, Running
  <2> QED
    BY <1>0, <1>7, <2>1 DEF FenceFinish, TableOK, RelocsOK, RelocsIn
<1>8. CASE UNCHANGED vars
  BY <1>8 DEF vars, ctxvars, gpuvars, TableOK, RelocsOK, RelocsIn
<1> QED
  BY <1>1, <1>2, <1>3, <1>4, <1>5, <1>6, <1>7, <1>8 DEF Next

LEMMA TabInvariant == Spec => []TabInv
BY TabInit, TabNext, PTL DEF Spec

(* Every relocation of a stream, whether it is being built or submitted,   *)
(* names the bo it was emitted for and a word of that stream.              *)
THEOREM RelocsCorrect == Spec => []RelocsOK
<1>1. TabInv => RelocsOK
  BY DEF TabInv
<1> QED
  BY TabInvariant, <1>1, PTL

(* A bo has the references of its owner and of the table and no other.     *)
THEOREM RefsCorrect == Spec => []RefsExact
<1>1. TabInv => RefsExact
  <2> SUFFICES ASSUME TabInv, NEW o \in Bos
               PROVE  tab.ref[o] = (IF o \in owned THEN 1 ELSE 0)
                                 + (IF o \in Range(tab.bos) THEN 1 ELSE 0)
    BY DEF RefsExact
  <2>1. o \in Range(tab.bos) <=> tab.bo_idx[o] >= 0
    BY InTable DEF TabInv
  <2> QED
    BY <2>1 DEF TabInv, TableOK
<1> QED
  BY TabInvariant, <1>1, PTL

=============================================================================
