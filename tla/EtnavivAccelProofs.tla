------------------------ MODULE EtnavivAccelProofs ------------------------
(***************************************************************************)
(* Proofs about EtnavivFence and EtnavivAccel, for any sets of pixmaps and *)
(* usermem nodes and any number of submissions. First what each operator of*)
(* EtnavivFence returns, for every fence head whose lists are well formed: *)
(* each one keeps them well formed, and changes the state and the id of    *)
(* exactly the fences it should. Then what holds whichever kernel calls    *)
(* fail: types, the fence lists and the reference counts. Last the memory  *)
(* that the GPU uses, when the kernel does not refuse.                     *)
(***************************************************************************)
EXTENDS EtnavivAccel, SequenceTheorems, WellFoundedInduction, TLAPS

(* A non-empty set of natural numbers has a smallest element.              *)
LEMMA SmallestOf ==
  ASSUME NEW T, T \subseteq Nat, T # {}
  PROVE  \E x \in T : \A y \in T : x <= y
<1>1. \E x \in T : \A y \in T : <<y, x>> \notin OpToRel(<, Nat)
  BY NatLessThanWellFounded, WFMin
<1>2. PICK x \in T : \A y \in T : <<y, x>> \notin OpToRel(<, Nat)
  BY <1>1
<1>3. \A y \in T : ~ (y < x)
  BY <1>2 DEF OpToRel
<1> QED BY <1>3

(* Membership in the range of a list, by position.                         *)
LEMMA InRange ==
  ASSUME NEW S, NEW s \in Seq(S)
  PROVE  \A f : f \in Range(s) <=> \E i \in 1 .. Len(s) : s[i] = f
BY RangeEquality

(* Deleting a fence from a list without repeats removes that fence, keeps  *)
(* the others in order, and repeats nothing (xorg_list_del).               *)
LEMMA ListDelProperties ==
  ASSUME NEW S, NEW list \in Seq(S), NEW f \in Range(list), NoRepeats(list)
  PROVE  /\ ListDel(list, f) \in Seq(S)
         /\ Range(ListDel(list, f)) = Range(list) \ {f}
         /\ \E g \in [1 .. Len(ListDel(list, f)) -> 1 .. Len(list)] :
              /\ \A i \in 1 .. Len(ListDel(list, f)) : ListDel(list, f)[i] = list[g[i]]
              /\ \A i, j \in 1 .. Len(ListDel(list, f)) : i < j => g[i] < g[j]
<1> DEFINE k == CHOOSE i \in DOMAIN list : list[i] = f
           A == SubSeq(list, 1, k - 1)
           B == SubSeq(list, k + 1, Len(list))
           D == ListDel(list, f)
<1>1. DOMAIN list = 1 .. Len(list) /\ Len(list) \in Nat
  BY LenProperties
<1>2. k \in 1 .. Len(list) /\ list[k] = f
  BY <1>1, InRange
<1>3. \A i \in 1 .. Len(list) : list[i] = f => i = k
  BY <1>1, <1>2 DEF NoRepeats
<1> HIDE DEF k
<1>4. /\ A \in Seq(S)
      /\ Len(A) = k - 1
      /\ \A i \in 1 .. k - 1 : A[i] = list[i]
  <2>1. \A i \in 1 .. k - 1 : list[i] \in S
    BY <1>1, <1>2, ElementOfSeq
  <2> QED BY <1>1, <1>2, <2>1, SubSeqProperties
<1>5. /\ B \in Seq(S)
      /\ Len(B) = Len(list) - k
      /\ \A i \in 1 .. Len(list) - k : B[i] = list[k + i]
  <2>1. \A i \in k + 1 .. Len(list) : list[i] \in S
    BY <1>1, <1>2, ElementOfSeq
  <2>2. /\ B \in Seq(S)
        /\ Len(B) = IF k + 1 <= Len(list) THEN Len(list) - (k + 1) + 1 ELSE 0
        /\ \A i \in 1 .. Len(list) - (k + 1) + 1 : B[i] = list[(k + 1) + i - 1]
    BY <1>1, <1>2, <2>1, SubSeqProperties
  <2> HIDE DEF B
  <2>3. \A i \in 1 .. Len(list) - k : B[i] = list[k + i]
    <3> TAKE i \in 1 .. Len(list) - k
    <3>0. i \in 1 .. Len(list) - (k + 1) + 1
      BY <1>1, <1>2
    <3>1. B[i] = list[(k + 1) + i - 1]
      BY <2>2, <3>0, Zenon
    <3>2. (k + 1) + i - 1 = k + i
      BY <1>1, <1>2
    <3> QED BY <3>1, <3>2
  <2>4. Len(B) = Len(list) - k
    <3>1. Len(B) = IF k + 1 <= Len(list) THEN Len(list) - (k + 1) + 1 ELSE 0
      BY <2>2
    <3>2. k \in Nat /\ Len(list) \in Nat /\ k <= Len(list)
      BY <1>1, <1>2
    <3> QED BY <3>1, <3>2
  <2> QED BY <2>2, <2>3, <2>4
<1>6. D = A \o B
  BY DEF ListDel, k
<1> HIDE DEF A, B, D
<1>7. /\ D \in Seq(S)
      /\ Len(D) = Len(list) - 1
      /\ \A i \in 1 .. Len(D) : D[i] = IF i < k THEN list[i] ELSE list[i + 1]
  <2>1. /\ A \o B \in Seq(S)
        /\ Len(A \o B) = Len(A) + Len(B)
        /\ \A i \in 1 .. Len(A) + Len(B) :
             (A \o B)[i] = IF i <= Len(A) THEN A[i] ELSE B[i - Len(A)]
    BY <1>4, <1>5, ConcatProperties
  <2> QED BY <1>1, <1>2, <1>4, <1>5, <1>6, <2>1
<1>8. Range(D) = Range(list) \ {f}
  <2>1. \A e \in Range(D) : e \in Range(list) /\ e # f
    BY <1>1, <1>2, <1>3, <1>7, InRange
  <2>2. ASSUME NEW e \in Range(list), e # f
        PROVE  e \in Range(D)
    <3>1. PICK i \in 1 .. Len(list) : list[i] = e
      BY InRange
    <3>2. i # k
      BY <1>2, <2>2, <3>1
    <3>3. CASE i < k
      BY <1>1, <1>2, <1>7, <3>1, <3>3, InRange
    <3>4. CASE i > k
      <4>1. i - 1 \in 1 .. Len(D) /\ D[i - 1] = e
        BY <1>1, <1>2, <1>7, <3>1, <3>4
      <4> QED BY <4>1, <1>7, InRange
    <3> QED BY <1>2, <3>2, <3>3, <3>4
  <2> QED BY <2>1, <2>2
<1>9. \E g \in [1 .. Len(D) -> 1 .. Len(list)] :
        /\ \A i \in 1 .. Len(D) : D[i] = list[g[i]]
        /\ \A i, j \in 1 .. Len(D) : i < j => g[i] < g[j]
  <2> DEFINE g == [i \in 1 .. Len(D) |-> IF i < k THEN i ELSE i + 1]
  <2>1. g \in [1 .. Len(D) -> 1 .. Len(list)]
    BY <1>1, <1>2, <1>7
  <2>2. \A i \in 1 .. Len(D) : D[i] = list[g[i]]
    BY <1>7
  <2>3. \A i, j \in 1 .. Len(D) : i < j => g[i] < g[j]
    BY <1>1, <1>2, <1>7
  <2> QED BY <2>1, <2>2, <2>3
<1> QED BY <1>7, <1>8, <1>9 DEF D

-----------------------------------------------------------------------------
(* etnaviv_fence_add: exactly the fence added becomes pending, whatever it *)
(* was before, and both lists stay well formed.                            *)
LEMMA FenceAddProperties ==
  ASSUME NEW fh0 \in FenceHead, FenceHeadOK(fh0), NEW f \in Fences
  PROVE  /\ FenceAdd(fh0, f) \in FenceHead
         /\ FenceHeadOK(FenceAdd(fh0, f))
         /\ FenceAdd(fh0, f).state = [fh0.state EXCEPT ![f] = "B_PENDING"]
         /\ FenceAdd(fh0, f).id = fh0.id
<1> DEFINE h == FenceAdd(fh0, f)
<1> USE DEF FenceHead
<1>1. CASE fh0.state[f] = "B_PENDING"
  BY <1>1 DEF FenceAdd
<1>2. CASE fh0.state[f] # "B_PENDING"
  <2>1. /\ h.batch_head = Append(fh0.batch_head, f)
        /\ h.fence_head = IF fh0.state[f] = "B_FENCED"
                          THEN ListDel(fh0.fence_head, f) ELSE fh0.fence_head
        /\ h.state = [fh0.state EXCEPT ![f] = "B_PENDING"]
        /\ h.id = fh0.id
        /\ h = [batch_head |-> h.batch_head, fence_head |-> h.fence_head,
                state |-> h.state, id |-> h.id]
    BY <1>2 DEF FenceAdd
  <2> HIDE DEF h
  <2>2. /\ h.batch_head \in Seq(Fences)
        /\ NoRepeats(h.batch_head)
        /\ Range(h.batch_head) = Range(fh0.batch_head) \union {f}
    <3>1. /\ fh0.batch_head \in Seq(Fences)
          /\ f \notin Range(fh0.batch_head)
          /\ NoRepeats(fh0.batch_head)
      BY <1>2 DEF FenceHeadOK
    <3>2. /\ Append(fh0.batch_head, f) \in Seq(Fences)
          /\ Len(Append(fh0.batch_head, f)) = Len(fh0.batch_head) + 1
          /\ \A i \in 1 .. Len(fh0.batch_head) : Append(fh0.batch_head, f)[i] = fh0.batch_head[i]
          /\ Append(fh0.batch_head, f)[Len(fh0.batch_head) + 1] = f
      BY <3>1, AppendProperties
    <3>3. /\ DOMAIN fh0.batch_head = 1 .. Len(fh0.batch_head)
          /\ Len(fh0.batch_head) \in Nat
          /\ DOMAIN h.batch_head = 1 .. Len(fh0.batch_head) + 1
      BY <2>1, <3>1, <3>2, LenProperties
    <3>4. NoRepeats(h.batch_head)
      <4>1. \A i \in 1 .. Len(fh0.batch_head) : fh0.batch_head[i] # f
        BY <3>1, InRange
      <4> QED BY <2>1, <3>1, <3>2, <3>3, <4>1 DEF NoRepeats
    <3>5. ASSUME NEW e
          PROVE  e \in Range(h.batch_head) <=> e \in Range(fh0.batch_head) \union {f}
      <4>1. e \in Range(h.batch_head)
              <=> \E i \in 1 .. Len(fh0.batch_head) + 1 : h.batch_head[i] = e
        <5>1. h.batch_head \in Seq(Fences) /\ Len(h.batch_head) = Len(fh0.batch_head) + 1
          BY <2>1, <3>2
        <5> QED BY <5>1, InRange
      <4>2. e \in Range(fh0.batch_head)
              <=> \E i \in 1 .. Len(fh0.batch_head) : fh0.batch_head[i] = e
        BY <3>1, InRange
      <4> QED BY <2>1, <3>2, <3>3, <4>1, <4>2
    <3> QED BY <2>1, <3>2, <3>4, <3>5
  <2>3. /\ h.fence_head \in Seq(Fences)
        /\ NoRepeats(h.fence_head)
        /\ Range(h.fence_head) = Range(fh0.fence_head) \ {f}
        /\ \A i, j \in DOMAIN h.fence_head :
             i < j => fh0.id[h.fence_head[i]] <= fh0.id[h.fence_head[j]]
    <3>1. CASE fh0.state[f] # "B_FENCED"
      BY <2>1, <3>1 DEF FenceHeadOK
    <3>2. CASE fh0.state[f] = "B_FENCED"
      <4>1. /\ fh0.fence_head \in Seq(Fences)
            /\ f \in Range(fh0.fence_head)
            /\ NoRepeats(fh0.fence_head)
            /\ h.fence_head = ListDel(fh0.fence_head, f)
        BY <2>1, <3>2 DEF FenceHeadOK
      <4>2. /\ h.fence_head \in Seq(Fences)
            /\ Range(h.fence_head) = Range(fh0.fence_head) \ {f}
            /\ \E g \in [1 .. Len(h.fence_head) -> 1 .. Len(fh0.fence_head)] :
                 /\ \A i \in 1 .. Len(h.fence_head) : h.fence_head[i] = fh0.fence_head[g[i]]
                 /\ \A i, j \in 1 .. Len(h.fence_head) : i < j => g[i] < g[j]
        <5> DEFINE D == ListDel(fh0.fence_head, f)
        <5>1. /\ D \in Seq(Fences)
              /\ Range(D) = Range(fh0.fence_head) \ {f}
              /\ \E g \in [1 .. Len(D) -> 1 .. Len(fh0.fence_head)] :
                   /\ \A i \in 1 .. Len(D) : D[i] = fh0.fence_head[g[i]]
                   /\ \A i, j \in 1 .. Len(D) : i < j => g[i] < g[j]
          BY <4>1, ListDelProperties
        <5>2. D = h.fence_head
          BY <4>1
        <5> QED BY <5>1, <5>2, Zenon
      <4>3. PICK g \in [1 .. Len(h.fence_head) -> 1 .. Len(fh0.fence_head)] :
                 /\ \A i \in 1 .. Len(h.fence_head) : h.fence_head[i] = fh0.fence_head[g[i]]
                 /\ \A i, j \in 1 .. Len(h.fence_head) : i < j => g[i] < g[j]
        BY <4>2
      <4>4. /\ DOMAIN h.fence_head = 1 .. Len(h.fence_head)
            /\ DOMAIN fh0.fence_head = 1 .. Len(fh0.fence_head)
            /\ Len(h.fence_head) \in Nat
            /\ Len(fh0.fence_head) \in Nat
        BY <4>1, <4>2, LenProperties
      <4>5. NoRepeats(h.fence_head)
        <5> SUFFICES ASSUME NEW i \in 1 .. Len(h.fence_head),
                            NEW j \in 1 .. Len(h.fence_head),
                            h.fence_head[i] = h.fence_head[j]
                     PROVE  i = j
          BY <4>4 DEF NoRepeats
        <5>1. /\ g[i] \in 1 .. Len(fh0.fence_head)
              /\ g[j] \in 1 .. Len(fh0.fence_head)
              /\ fh0.fence_head[g[i]] = fh0.fence_head[g[j]]
          BY <4>3
        <5>2. g[i] = g[j]
          BY <4>1, <4>4, <5>1 DEF NoRepeats
        <5>3. i < j => g[i] < g[j]
          BY <4>3
        <5>4. j < i => g[j] < g[i]
          BY <4>3
        <5> QED BY <4>4, <5>1, <5>2, <5>3, <5>4
      <4>6. \A i, j \in DOMAIN h.fence_head :
             i < j => fh0.id[h.fence_head[i]] <= fh0.id[h.fence_head[j]]
        <5> SUFFICES ASSUME NEW i \in 1 .. Len(h.fence_head),
                            NEW j \in 1 .. Len(h.fence_head),
                            i < j
                     PROVE  fh0.id[h.fence_head[i]] <= fh0.id[h.fence_head[j]]
          BY <4>4
        <5>1. /\ g[i] \in 1 .. Len(fh0.fence_head)
              /\ g[j] \in 1 .. Len(fh0.fence_head)
              /\ g[i] < g[j]
              /\ h.fence_head[i] = fh0.fence_head[g[i]]
              /\ h.fence_head[j] = fh0.fence_head[g[j]]
          BY <4>3
        <5>2. \A a, b \in 1 .. Len(fh0.fence_head) :
                a < b => fh0.id[fh0.fence_head[a]] <= fh0.id[fh0.fence_head[b]]
          BY <4>4 DEF FenceHeadOK
        <5> QED BY <5>1, <5>2
      <4> QED BY <4>2, <4>5, <4>6
    <3> QED BY <3>1, <3>2
  <2>4. h.state \in [Fences -> FenceState]
    BY <2>1 DEF FenceState
  <2>5. h \in FenceHead
    BY <2>1, <2>2, <2>3, <2>4
  <2>6. \A e \in Fences : /\ h.state[e] = "B_PENDING" <=> e \in Range(h.batch_head)
                          /\ h.state[e] = "B_FENCED"  <=> e \in Range(h.fence_head)
    BY <2>1, <2>2, <2>3 DEF FenceHeadOK
  <2>7. FenceHeadOK(h)
    BY <2>1, <2>2, <2>3, <2>6 DEF FenceHeadOK
  <2> QED BY <2>1, <2>5, <2>7 DEF h
<1> QED BY <1>1, <1>2

(* etnaviv_fence_objects: exactly the pending fences become fenced, with   *)
(* the id given; the lists stay well formed because no older fence has a   *)
(* later id.                                                               *)
LEMMA FenceObjectsProperties ==
  ASSUME NEW fh0 \in FenceHead, FenceHeadOK(fh0), NEW id \in Nat,
         \A f \in Fences : fh0.state[f] = "B_FENCED" => fh0.id[f] <= id
  PROVE  /\ FenceObjects(fh0, id) \in FenceHead
         /\ FenceHeadOK(FenceObjects(fh0, id))
         /\ FenceObjects(fh0, id).batch_head = << >>
         /\ \A f \in Fences :
              /\ FenceObjects(fh0, id).state[f] =
                   IF fh0.state[f] = "B_PENDING" THEN "B_FENCED" ELSE fh0.state[f]
              /\ FenceObjects(fh0, id).id[f] =
                   IF fh0.state[f] = "B_PENDING" THEN id ELSE fh0.id[f]
<1> DEFINE h == FenceObjects(fh0, id)
           a == fh0.fence_head
           b == fh0.batch_head
<1>1. /\ a \in Seq(Fences) /\ b \in Seq(Fences)
      /\ NoRepeats(a) /\ NoRepeats(b)
      /\ fh0.state \in [Fences -> FenceState]
      /\ fh0.id \in [Fences -> Nat]
      /\ \A f \in Fences : /\ fh0.state[f] = "B_PENDING" <=> f \in Range(b)
                           /\ fh0.state[f] = "B_FENCED" <=> f \in Range(a)
  BY DEF FenceHead, FenceHeadOK
<1>2. /\ h.batch_head = << >>
      /\ h.fence_head = a \o b
      /\ h.state = [f \in Fences |-> IF f \in Range(b) THEN "B_FENCED" ELSE fh0.state[f]]
      /\ h.id = [f \in Fences |-> IF f \in Range(b) THEN id ELSE fh0.id[f]]
      /\ h = [batch_head |-> h.batch_head, fence_head |-> h.fence_head,
              state |-> h.state, id |-> h.id]
  BY DEF FenceObjects
<1> HIDE DEF h
<1>3. /\ a \o b \in Seq(Fences)
      /\ Len(a \o b) = Len(a) + Len(b)
      /\ \A i \in 1 .. Len(a) + Len(b) :
           (a \o b)[i] = IF i <= Len(a) THEN a[i] ELSE b[i - Len(a)]
  <2>1. a \in Seq(Fences) /\ b \in Seq(Fences)
    BY <1>1
  <2> HIDE DEF a, b
  <2> QED BY <2>1, ConcatProperties
<1>4. /\ DOMAIN a = 1 .. Len(a) /\ Len(a) \in Nat
      /\ DOMAIN b = 1 .. Len(b) /\ Len(b) \in Nat
      /\ DOMAIN h.fence_head = 1 .. Len(a) + Len(b)
      /\ DOMAIN h.batch_head = {}
  <2>1. DOMAIN (a \o b) = 1 .. Len(a \o b)
    BY <1>3, LenProperties
  <2> QED BY <1>1, <1>2, <1>3, <2>1, LenProperties
<1>5. Range(h.fence_head) = Range(a) \union Range(b) /\ Range(h.batch_head) = {}
  <2>1. Range(h.fence_head) = Range(a) \union Range(b)
    BY <1>1, <1>2, RangeConcatenation
  <2>2. Range(h.batch_head) = {}
    BY <1>4 DEF Range
  <2> QED BY <2>1, <2>2
<1>6. \A f \in Fences :
        /\ h.state[f] = IF fh0.state[f] = "B_PENDING" THEN "B_FENCED" ELSE fh0.state[f]
        /\ h.id[f] = IF fh0.state[f] = "B_PENDING" THEN id ELSE fh0.id[f]
  BY <1>1, <1>2
<1>7. h \in FenceHead
  <2>1. h.state \in [Fences -> FenceState] /\ h.id \in [Fences -> Nat]
    BY <1>1, <1>2 DEF FenceState
  <2>2. h.batch_head \in Seq(Fences) /\ h.fence_head \in Seq(Fences)
    BY <1>2, <1>3
  <2> QED BY <1>2, <2>1, <2>2 DEF FenceHead
<1>8. \A i \in 1 .. Len(a) + Len(b) :
        \/ i \in 1 .. Len(a) /\ h.fence_head[i] = a[i] /\ a[i] \in Range(a)
        \/ /\ i - Len(a) \in 1 .. Len(b)
           /\ i > Len(a)
           /\ h.fence_head[i] = b[i - Len(a)]
           /\ b[i - Len(a)] \in Range(b)
  <2> TAKE i \in 1 .. Len(a) + Len(b)
  <2>1. CASE i <= Len(a)
    <3>1. i \in 1 .. Len(a)
      BY <1>4, <2>1
    <3>2. a[i] \in Range(a)
      BY <1>1, <3>1, InRange
    <3> QED BY <1>2, <1>3, <2>1, <3>1, <3>2
  <2>2. CASE i > Len(a)
    <3>0. Len(a) \in Nat /\ Len(b) \in Nat
      BY <1>4
    <3> HIDE DEF a, b
    <3>1. i - Len(a) \in 1 .. Len(b)
      BY <2>2, <3>0
    <3>2. b[i - Len(a)] \in Range(b)
      BY <1>1, <3>1, InRange
    <3>3. ~ (i <= Len(a))
      BY <1>4, <2>2
    <3> QED BY <1>2, <1>3, <2>2, <3>1, <3>2, <3>3
  <2> QED BY <1>4, <2>1, <2>2
<1>9. Range(a) \intersect Range(b) = {} /\ Range(a) \subseteq Fences /\ Range(b) \subseteq Fences
  <2>1. Range(a) \subseteq Fences /\ Range(b) \subseteq Fences
    BY <1>1, RangeOfSeq
  <2> QED BY <1>1, <2>1
<1>10. NoRepeats(h.fence_head)
  <2> SUFFICES ASSUME NEW i \in 1 .. Len(a) + Len(b), NEW j \in 1 .. Len(a) + Len(b),
                      h.fence_head[i] = h.fence_head[j]
               PROVE  i = j
    BY <1>4 DEF NoRepeats
  <2>1. CASE i \in 1 .. Len(a) /\ h.fence_head[i] = a[i] /\ a[i] \in Range(a)
    <3>1. h.fence_head[j] \notin Range(b)
      BY <1>9, <2>1
    <3>2. j \in 1 .. Len(a) /\ h.fence_head[j] = a[j]
      BY <1>8, <3>1
    <3> QED BY <1>1, <1>4, <2>1, <3>2 DEF NoRepeats
  <2>2. CASE /\ i - Len(a) \in 1 .. Len(b)
             /\ h.fence_head[i] = b[i - Len(a)]
             /\ b[i - Len(a)] \in Range(b)
    <3>1. /\ j - Len(a) \in 1 .. Len(b)
          /\ h.fence_head[j] = b[j - Len(a)]
      BY <1>8, <1>9, <2>2
    <3>2. i - Len(a) = j - Len(a)
      BY <1>1, <1>4, <2>2, <3>1 DEF NoRepeats
    <3> QED BY <1>4, <3>2
  <2> QED BY <1>8, <2>1, <2>2
<1>11. \A i, j \in DOMAIN h.fence_head :
         i < j => h.id[h.fence_head[i]] <= h.id[h.fence_head[j]]
  <2>1. \A f \in Range(b) : h.id[f] = id
    BY <1>2, <1>9
  <2>2. \A f \in Range(a) : h.id[f] = fh0.id[f] /\ fh0.id[f] <= id
    BY <1>1, <1>6, <1>9
  <2>3. \A i, j \in 1 .. Len(a) : i < j => fh0.id[a[i]] <= fh0.id[a[j]]
    BY <1>4 DEF FenceHeadOK
  <2> SUFFICES ASSUME NEW i \in 1 .. Len(a) + Len(b), NEW j \in 1 .. Len(a) + Len(b),
                      i < j
               PROVE  h.id[h.fence_head[i]] <= h.id[h.fence_head[j]]
    BY <1>4
  <2>4. CASE j \in 1 .. Len(a) /\ h.fence_head[j] = a[j] /\ a[j] \in Range(a)
    <3>1. i \in 1 .. Len(a) /\ h.fence_head[i] = a[i] /\ a[i] \in Range(a)
      <4>1. ~ (i > Len(a))
        BY <1>4, <2>4
      <4> QED BY <1>8, <4>1
    <3>2. fh0.id[a[i]] <= fh0.id[a[j]]
      BY <2>3, <2>4, <3>1
    <3> QED BY <2>2, <2>4, <3>1, <3>2
  <2>5. CASE h.fence_head[j] \in Range(b)
    <3>1. h.id[h.fence_head[j]] = id
      BY <2>1, <2>5
    <3>2. CASE h.fence_head[i] \in Range(b)
      BY <2>1, <3>1, <3>2
    <3>3. CASE h.fence_head[i] \in Range(a)
      BY <2>2, <3>1, <3>3
    <3> QED BY <1>8, <3>2, <3>3
  <2> QED BY <1>8, <2>4, <2>5
<1>12. NoRepeats(h.batch_head)
  BY <1>4 DEF NoRepeats
<1>13. \A f \in Fences : /\ h.state[f] = "B_PENDING" <=> f \in Range(h.batch_head)
                         /\ h.state[f] = "B_FENCED"  <=> f \in Range(h.fence_head)
  BY <1>1, <1>5, <1>6
<1>14. FenceHeadOK(h)
  BY <1>10, <1>11, <1>12, <1>13 DEF FenceHeadOK
<1> QED BY <1>2, <1>6, <1>7, <1>14 DEF h

(* etnaviv_fence_retire_all: nothing is linked any more.                   *)
LEMMA RetireAllProperties ==
  ASSUME NEW fh0 \in FenceHead, FenceHeadOK(fh0)
  PROVE  /\ RetireAll(fh0) \in FenceHead
         /\ FenceHeadOK(RetireAll(fh0))
         /\ \A f \in Fences : RetireAll(fh0).state[f] = "B_NONE"
<1> DEFINE h == RetireAll(fh0)
<1>1. /\ h.batch_head = << >>
      /\ h.fence_head = << >>
      /\ h.state = [f \in Fences |->
                     IF f \in Range(fh0.batch_head) \union Range(fh0.fence_head)
                     THEN "B_NONE" ELSE fh0.state[f]]
      /\ h.id = fh0.id
      /\ h = [batch_head |-> h.batch_head, fence_head |-> h.fence_head,
              state |-> h.state, id |-> h.id]
  BY DEF RetireAll, FenceHead
<1> HIDE DEF h
<1>2. \A f \in Fences : fh0.state[f] \in FenceState
  BY DEF FenceHead
<1>3. \A f \in Fences : h.state[f] = "B_NONE"
  BY <1>1, <1>2 DEF FenceHeadOK, FenceState
<1>4. h.state \in [Fences -> FenceState]
  BY <1>1, <1>2 DEF FenceState
<1>5. h \in FenceHead
  <2>1. h.id \in [Fences -> Nat]
    BY <1>1 DEF FenceHead
  <2>2. h.batch_head \in Seq(Fences) /\ h.fence_head \in Seq(Fences)
    BY <1>1
  <2> QED BY <1>1, <1>4, <2>1, <2>2 DEF FenceHead
<1>6. DOMAIN h.batch_head = {} /\ DOMAIN h.fence_head = {}
  BY <1>1
<1>7. Range(h.batch_head) = {} /\ Range(h.fence_head) = {}
  BY <1>6 DEF Range
<1>8. FenceHeadOK(h)
  BY <1>3, <1>6, <1>7 DEF FenceHeadOK, NoRepeats
<1> QED BY <1>3, <1>5, <1>8 DEF h

(* The walk of etnaviv_fence_retire_id always has a place to stop.         *)
LEMMA RetireCountProperties ==
  ASSUME NEW fh0 \in FenceHead, FenceHeadOK(fh0), NEW id \in Int
  PROVE  /\ RetireCount(fh0, id) \in 0 .. Len(fh0.fence_head)
         /\ \A i \in 1 .. RetireCount(fh0, id) : fh0.id[fh0.fence_head[i]] <= id
         /\ RetireCount(fh0, id) < Len(fh0.fence_head)
              => fh0.id[fh0.fence_head[RetireCount(fh0, id) + 1]] > id
<1> DEFINE a == fh0.fence_head
           Stop(n) == /\ \A i \in 1 .. n : fh0.id[a[i]] <= id
                      /\ n < Len(a) => fh0.id[a[n + 1]] > id
           T == {n \in 0 .. Len(a) : n < Len(a) => fh0.id[a[n + 1]] > id}
<1>1. Len(a) \in Nat
  BY LenProperties DEF FenceHead
<1>2. \A i \in 1 .. Len(a) : fh0.id[a[i]] \in Nat
  BY ElementOfSeq DEF FenceHead
<1> HIDE DEF a
<1>3. T \subseteq Nat /\ Len(a) \in T
  BY <1>1
<1>4. PICK n \in T : \A m \in T : n <= m
  <2> HIDE DEF T
  <2> QED BY <1>3, SmallestOf
<1>5. ASSUME NEW i \in 1 .. n
      PROVE  fh0.id[a[i]] <= id
  <2>1. i - 1 \in 0 .. Len(a) /\ i - 1 < Len(a) /\ i - 1 < n
    BY <1>1, <1>4
  <2>2. i - 1 \notin T
    BY <1>3, <1>4, <2>1
  <2>3. ~ (fh0.id[a[(i - 1) + 1]] > id)
    BY <2>1, <2>2
  <2>4. (i - 1) + 1 = i /\ i \in 1 .. Len(a)
    BY <2>1
  <2> QED BY <1>2, <2>3, <2>4
<1>6. n \in 0 .. Len(a) /\ Stop(n)
  BY <1>4, <1>5
<1>7. RetireCount(fh0, id) = CHOOSE m \in 0 .. Len(a) : Stop(m)
  BY DEF RetireCount, a
<1>8. RetireCount(fh0, id) \in 0 .. Len(a) /\ Stop(RetireCount(fh0, id))
  <2> HIDE DEF Stop
  <2> QED BY <1>6, <1>7
<1> QED BY <1>8 DEF a

(* etnaviv_fence_retire_id: exactly the fences submitted with the id given *)
(* or an earlier one are retired, because fence_head is ordered; the fence *)
(* returned is at least the one given, at most the younger of the two, and *)
(* before every fence that is left.                                        *)
LEMMA RetireIdProperties ==
  ASSUME NEW fh0 \in FenceHead, FenceHeadOK(fh0), NEW id \in Int
  PROVE  /\ RetireId(fh0, id) \in FenceHead
         /\ FenceHeadOK(RetireId(fh0, id))
         /\ RetireId(fh0, id).batch_head = fh0.batch_head
         /\ RetireId(fh0, id).id = fh0.id
         /\ \A f \in Fences :
              RetireId(fh0, id).state[f] =
                IF fh0.state[f] = "B_FENCED" /\ fh0.id[f] <= id
                THEN "B_NONE" ELSE fh0.state[f]
<1> DEFINE h == RetireId(fh0, id)
           a == fh0.fence_head
           n == RetireCount(fh0, id)
           x == SubSeq(a, 1, n)
           y == SubSeq(a, n + 1, Len(a))
<1>1. /\ a \in Seq(Fences) /\ fh0.batch_head \in Seq(Fences)
      /\ NoRepeats(a) /\ NoRepeats(fh0.batch_head)
      /\ fh0.state \in [Fences -> FenceState]
      /\ fh0.id \in [Fences -> Nat]
      /\ \A f \in Fences : /\ fh0.state[f] = "B_PENDING" <=> f \in Range(fh0.batch_head)
                           /\ fh0.state[f] = "B_FENCED" <=> f \in Range(a)
  BY DEF FenceHead, FenceHeadOK
<1>2. /\ n \in 0 .. Len(a)
      /\ \A i \in 1 .. n : fh0.id[a[i]] <= id
      /\ n < Len(a) => fh0.id[a[n + 1]] > id
  BY RetireCountProperties
<1>3. \A i, j \in 1 .. Len(a) : i < j => fh0.id[a[i]] <= fh0.id[a[j]]
  BY <1>1, LenProperties DEF FenceHeadOK
<1>4. /\ h.batch_head = fh0.batch_head
      /\ h.fence_head = y
      /\ h.state = [f \in Fences |-> IF f \in Range(x) THEN "B_NONE" ELSE fh0.state[f]]
      /\ h.id = fh0.id
      /\ h = [batch_head |-> h.batch_head, fence_head |-> h.fence_head,
              state |-> h.state, id |-> h.id]
  BY DEF RetireId
<1>5. Len(a) \in Nat /\ DOMAIN a = 1 .. Len(a) /\ \A i \in 1 .. Len(a) : a[i] \in Fences
  BY <1>1, LenProperties, ElementOfSeq
<1> HIDE DEF h, a, n
<1>6. /\ x \in Seq(Fences)
      /\ Len(x) = n
      /\ \A i \in 1 .. n : x[i] = a[i]
  <2>1. \A i \in 1 .. n : a[i] \in Fences
    BY <1>2, <1>5
  <2> QED BY <1>2, <2>1, SubSeqProperties
<1>7. /\ y \in Seq(Fences)
      /\ Len(y) = Len(a) - n
      /\ \A i \in 1 .. Len(a) - n : y[i] = a[n + i]
  <2>1. \A i \in n + 1 .. Len(a) : a[i] \in Fences
    BY <1>2, <1>5
  <2>2. /\ y \in Seq(Fences)
        /\ Len(y) = IF n + 1 <= Len(a) THEN Len(a) - (n + 1) + 1 ELSE 0
        /\ \A i \in 1 .. Len(a) - (n + 1) + 1 : y[i] = a[(n + 1) + i - 1]
    BY <1>2, <1>5, <2>1, SubSeqProperties
  <2> HIDE DEF x, y
  <2>3. \A i \in 1 .. Len(a) - n : y[i] = a[n + i]
    <3> TAKE i \in 1 .. Len(a) - n
    <3>1. i \in 1 .. Len(a) - (n + 1) + 1 /\ (n + 1) + i - 1 = n + i
      BY <1>2, <1>5
    <3>2. y[i] = a[(n + 1) + i - 1]
      BY <2>2, <3>1, Zenon
    <3> QED BY <3>1, <3>2
  <2>4. Len(y) = Len(a) - n
    <3>1. n \in Nat /\ n <= Len(a) /\ Len(a) \in Nat
      BY <1>2, <1>5
    <3>2. CASE n < Len(a)
      BY <2>2, <3>1, <3>2
    <3>3. CASE n = Len(a)
      BY <2>2, <3>1, <3>3
    <3> QED BY <3>1, <3>2, <3>3
  <2> QED BY <2>2, <2>3, <2>4
<1> HIDE DEF x, y
<1>8. \A f : f \in Range(x) <=> \E i \in 1 .. n : a[i] = f
  BY <1>6, InRange
<1>9. \A f : f \in Range(y) <=> \E i \in 1 .. Len(a) - n : a[n + i] = f
  BY <1>7, InRange
<1>10. \A f : f \in Range(a) <=> \E i \in 1 .. Len(a) : a[i] = f
  BY <1>1, InRange
<1>11. ASSUME NEW i \in 1 .. Len(a)
       PROVE  i <= n <=> fh0.id[a[i]] <= id
  <2>0. fh0.id[a[i]] \in Nat
    BY <1>1, <1>5
  <2>1. CASE i <= n
    BY <1>2, <2>1
  <2>2. CASE i > n
    <3>1. n < Len(a) /\ n + 1 \in 1 .. Len(a) /\ n + 1 <= i
      BY <1>2, <1>5, <2>2
    <3>2. fh0.id[a[n + 1]] > id /\ fh0.id[a[n + 1]] \in Nat
      BY <1>1, <1>2, <1>5, <3>1
    <3>3. fh0.id[a[n + 1]] <= fh0.id[a[i]]
      <4>1. CASE n + 1 = i
        BY <2>0, <4>1
      <4>2. CASE n + 1 < i
        BY <1>3, <3>1, <4>2
      <4> QED BY <1>2, <3>1, <4>1, <4>2
    <3> QED BY <1>2, <2>0, <2>2, <3>2, <3>3
  <2> QED BY <1>2, <2>1, <2>2
<1>12. \A f \in Fences : f \in Range(x) <=> fh0.state[f] = "B_FENCED" /\ fh0.id[f] <= id
  <2> TAKE f \in Fences
  <2>1. f \in Range(x) => f \in Range(a) /\ fh0.id[f] <= id
    BY <1>2, <1>5, <1>8, <1>10, <1>11
  <2>2. f \in Range(a) /\ fh0.id[f] <= id => f \in Range(x)
    BY <1>2, <1>5, <1>8, <1>10, <1>11
  <2> QED BY <1>1, <2>1, <2>2
<1>13. \A f \in Fences : f \in Range(y) <=> fh0.state[f] = "B_FENCED" /\ ~ (fh0.id[f] <= id)
  <2> TAKE f \in Fences
  <2>1. ASSUME f \in Range(y)
        PROVE  f \in Range(a) /\ ~ (fh0.id[f] <= id)
    <3>1. PICK i \in 1 .. Len(a) - n : a[n + i] = f
      BY <1>9, <2>1
    <3>2. n + i \in 1 .. Len(a) /\ ~ (n + i <= n)
      BY <1>2, <1>5
    <3> QED BY <1>10, <1>11, <3>1, <3>2
  <2>2. ASSUME f \in Range(a), ~ (fh0.id[f] <= id)
        PROVE  f \in Range(y)
    <3>1. PICK i \in 1 .. Len(a) : a[i] = f
      BY <1>10, <2>2
    <3>2. ~ (i <= n)
      BY <1>11, <2>2, <3>1
    <3>3. i - n \in 1 .. Len(a) - n /\ n + (i - n) = i
      BY <1>2, <1>5, <3>2
    <3> QED BY <1>9, <3>1, <3>3
  <2> QED BY <1>1, <2>1, <2>2
<1>14. \A f \in Fences :
         h.state[f] = IF fh0.state[f] = "B_FENCED" /\ fh0.id[f] <= id
                      THEN "B_NONE" ELSE fh0.state[f]
  BY <1>4, <1>12
<1>15. h \in FenceHead
  <2>1. h.state \in [Fences -> FenceState]
    BY <1>1, <1>4 DEF FenceState
  <2>2. /\ h.batch_head \in Seq(Fences) /\ h.fence_head \in Seq(Fences)
        /\ h.id \in [Fences -> Nat]
    BY <1>1, <1>4, <1>7
  <2> QED BY <1>4, <2>1, <2>2 DEF FenceHead
<1>16. DOMAIN h.fence_head = 1 .. Len(a) - n
  <2>1. DOMAIN y = 1 .. Len(y)
    BY <1>7, LenProperties
  <2> QED BY <1>4, <1>7, <2>1
<1>17. ASSUME NEW i \in 1 .. Len(a) - n
       PROVE  n + i \in 1 .. Len(a) /\ h.fence_head[i] = a[n + i]
  BY <1>2, <1>4, <1>5, <1>7
<1>18. NoRepeats(h.fence_head)
  <2> SUFFICES ASSUME NEW i \in 1 .. Len(a) - n, NEW j \in 1 .. Len(a) - n,
                      h.fence_head[i] = h.fence_head[j]
               PROVE  i = j
    BY <1>16 DEF NoRepeats
  <2>1. n + i = n + j
    BY <1>1, <1>5, <1>17 DEF NoRepeats
  <2> QED BY <1>2, <1>5, <2>1
<1>19. \A i, j \in DOMAIN h.fence_head :
         i < j => h.id[h.fence_head[i]] <= h.id[h.fence_head[j]]
  <2> SUFFICES ASSUME NEW i \in 1 .. Len(a) - n, NEW j \in 1 .. Len(a) - n, i < j
               PROVE  h.id[h.fence_head[i]] <= h.id[h.fence_head[j]]
    BY <1>16
  <2>1. n + i < n + j
    BY <1>2, <1>5
  <2> QED BY <1>3, <1>4, <1>17, <2>1
<1>20. \A f \in Fences : /\ h.state[f] = "B_PENDING" <=> f \in Range(h.batch_head)
                         /\ h.state[f] = "B_FENCED"  <=> f \in Range(h.fence_head)
  BY <1>1, <1>4, <1>13, <1>14
<1>21. FenceHeadOK(h)
  BY <1>1, <1>4, <1>18, <1>19, <1>20 DEF FenceHeadOK
<1> QED BY <1>4, <1>14, <1>15, <1>21 DEF h

LEMMA RetireLastProperties ==
  ASSUME NEW fh0 \in FenceHead, FenceHeadOK(fh0), NEW id \in Int,
         NEW fence \in Nat, fence <= id
  PROVE  RetireLast(fh0, fence, id) \in fence .. id
<1> DEFINE n == RetireCount(fh0, id)
           a == fh0.fence_head
<1>1. /\ n \in 0 .. Len(a)
      /\ \A i \in 1 .. n : fh0.id[a[i]] <= id
  BY RetireCountProperties
<1>2. Len(a) \in Nat /\ \A i \in 1 .. Len(a) : fh0.id[a[i]] \in Nat
  BY LenProperties, ElementOfSeq DEF FenceHead
<1>3. RetireLast(fh0, fence, id) = IF n > 0 /\ fh0.id[a[n]] > fence THEN fh0.id[a[n]] ELSE fence
  BY DEF RetireLast
<1> HIDE DEF n, a
<1>4. n > 0 => fh0.id[a[n]] <= id /\ fh0.id[a[n]] \in Nat
  BY <1>1, <1>2
<1> QED BY <1>3, <1>4

-----------------------------------------------------------------------------
(* The states of EtnavivAccel.                                             *)

(* The reference the batch and fence lists hold on an object.              *)
Held(h, p) == IF h.state[p] # "B_NONE" THEN 1 ELSE 0

(* What the first part carries from state to state: the lists are well     *)
(* formed, every fence on them is younger than the last one known complete *)
(* and was handed out by the kernel, and the references are exact.         *)
ListInv ==
  /\ TypeOK
  /\ FenceListsOK
  /\ FencedAfterLast
  /\ last_fence <= submitted
  /\ RefcntExact

(* What a step does to the lists, with the references following them.      *)
ListStep ==
  /\ fh' \in FenceHead
  /\ FenceHeadOK(fh')
  /\ last_fence' \in Nat
  /\ last_fence' <= submitted'
  /\ \A f \in Fences : fh'.state[f] = "B_FENCED" =>
                         fh'.id[f] > last_fence' /\ fh'.id[f] <= submitted'
  /\ refcnt' = [p \in Pixmaps |-> refcnt[p] + Held(fh', p) - Held(fh, p)]

LEMMA FenceFacts ==
  ASSUME NEW h \in FenceHead
  PROVE  /\ h.batch_head \in Seq(Fences)
         /\ h.fence_head \in Seq(Fences)
         /\ \A f \in Fences : h.state[f] \in FenceState /\ h.id[f] \in Nat
BY DEF FenceHead

(* An empty batch list means that no fence is pending.                     *)
LEMMA BatchEmpty ==
  ASSUME NEW h \in FenceHead, FenceHeadOK(h), ~ BatchPending(h)
  PROVE  \A f \in Fences : h.state[f] # "B_PENDING"
<1>1. h.batch_head = << >>
  BY DEF BatchPending
<1>2. DOMAIN h.batch_head = {}
  BY <1>1
<1>3. Range(h.batch_head) = {}
  BY <1>2 DEF Range
<1> QED BY <1>3 DEF FenceHeadOK

LEMMA PixmapsAreFences == Pixmaps \subseteq Fences /\ Nodes \subseteq Fences
BY FencesAssumption

(* The gpu variables keep their types under each kernel call.              *)
GpuTypeOK ==
  /\ stream \in SUBSET GpuOp
  /\ jobs \in SUBSET Job
  /\ submitted \in Nat
  /\ completed \in 0 .. submitted

LEMMA SubmittedType ==
  ASSUME GpuTypeOK, NEW ops \in SUBSET GpuOp
  PROVE  Submitted(ops) \in SUBSET Job
<1>1. \A o \in ops : [obj |-> o.obj, write |-> o.write, fence |-> submitted + 1] \in Job
  BY DEF GpuTypeOK, GpuOp, Job
<1> QED BY <1>1 DEF Submitted, GpuTypeOK

LEMMA GpuTypeSteps ==
  ASSUME GpuTypeOK
  PROVE  /\ FlushStream => GpuTypeOK' /\ submitted' = submitted + 1
         /\ FlushFails => GpuTypeOK' /\ submitted' = submitted
         /\ FlushAndWait => GpuTypeOK' /\ submitted' = submitted + 1
         /\ \A id \in 0 .. submitted :
              FenceFinish(id) => GpuTypeOK' /\ submitted' = submitted
         /\ \A ops \in SUBSET GpuOp : Emit(ops) => GpuTypeOK' /\ submitted' >= submitted
<1>1. Submitted(stream) \in SUBSET Job
  BY SubmittedType DEF GpuTypeOK
<1>2. FlushStream => GpuTypeOK' /\ submitted' = submitted + 1
  BY <1>1 DEF FlushStream, GpuTypeOK
<1>3. FlushFails => GpuTypeOK' /\ submitted' = submitted
  BY DEF FlushFails, GpuTypeOK, gpuvars
<1>4. FlushAndWait => GpuTypeOK' /\ submitted' = submitted + 1
  BY <1>1 DEF FlushAndWait, GpuTypeOK
<1>5. \A id \in 0 .. submitted : FenceFinish(id) => GpuTypeOK' /\ submitted' = submitted
  BY DEF FenceFinish, GpuTypeOK, StillRunning, Larger
<1>6. ASSUME NEW ops \in SUBSET GpuOp, Emit(ops)
      PROVE  GpuTypeOK' /\ submitted' >= submitted
  <2>1. Submitted(stream \union ops) \in SUBSET Job /\ stream \union ops \in SUBSET GpuOp
    BY SubmittedType DEF GpuTypeOK
  <2>2. CASE /\ stream' = stream \union ops
             /\ UNCHANGED <<jobs, submitted, completed>>
    BY <2>1, <2>2 DEF GpuTypeOK
  <2>3. CASE /\ submitted' = submitted + 1
             /\ jobs' \in {Submitted(stream), Submitted(stream \union ops)}
             /\ stream' = ops
             /\ UNCHANGED completed
    BY <1>1, <2>1, <2>3 DEF GpuTypeOK
  <2> QED BY <1>6, <2>2, <2>3 DEF Emit
<1> QED BY <1>2, <1>3, <1>4, <1>5, <1>6

-----------------------------------------------------------------------------
(* The list operations of the handlers are ListSteps.                      *)

(* The callbacks give back a reference for each fence that was retired.    *)
LEMMA CallbacksFollow ==
  ASSUME TypeOK, RetireCallbacks,
         \A f \in Fences : fh.state[f] = "B_NONE" => fh'.state[f] = "B_NONE"
  PROVE  refcnt' = [p \in Pixmaps |-> refcnt[p] + Held(fh', p) - Held(fh, p)]
<1>1. \A p \in Pixmaps : refcnt[p] \in Nat
  BY DEF TypeOK
<1>2. ASSUME NEW p \in Pixmaps
      PROVE  (IF p \in Retired THEN refcnt[p] - 1 ELSE refcnt[p])
               = refcnt[p] + Held(fh', p) - Held(fh, p)
  BY <1>1, PixmapsAreFences DEF Retired, Held
<1> QED BY <1>2 DEF RetireCallbacks

(* etnaviv_finish_fences on a list whose pending fences may just have been *)
(* given a fence.                                                          *)
LEMMA FinishFencesStep ==
  ASSUME ListInv, GpuTypeOK', NEW h \in FenceHead, FenceHeadOK(h),
         \A f \in Fences : h.state[f] = "B_NONE" <=> fh.state[f] = "B_NONE",
         \A f \in Fences : h.state[f] = "B_FENCED" => h.id[f] <= submitted',
         NEW fence \in Nat, NEW done \in Nat,
         fence <= submitted', done <= submitted',
         FinishFences(h, fence, done)
  PROVE  ListStep
<1>1. PICK seen \in PollResult(done) :
        /\ fh' = RetireId(h, Larger(fence, seen))
        /\ last_fence' = RetireLast(h, fence, Larger(fence, seen))
  BY DEF FinishFences
<1> DEFINE x == Larger(fence, seen)
<1>2. x \in Nat /\ fence <= x /\ x <= submitted' /\ submitted' \in Nat
  BY <1>1 DEF PollResult, Larger, GpuTypeOK
<1> HIDE DEF x
<1>3. /\ fh' \in FenceHead
      /\ FenceHeadOK(fh')
      /\ fh'.id = h.id
      /\ \A f \in Fences : fh'.state[f] = IF h.state[f] = "B_FENCED" /\ h.id[f] <= x
                                          THEN "B_NONE" ELSE h.state[f]
  <2>1. x \in Int /\ fh' = RetireId(h, x)
    BY <1>1, <1>2 DEF x
  <2> QED BY <2>1, RetireIdProperties
<1>4. last_fence' \in fence .. x
  <2>1. x \in Int
    BY <1>2
  <2>2. RetireLast(h, fence, x) \in fence .. x
    BY <1>2, <2>1, RetireLastProperties
  <2> QED BY <1>1, <2>2 DEF x
<1>5. \A f \in Fences : h.id[f] \in Nat
  BY FenceFacts
<1>6. \A f \in Fences : fh'.state[f] = "B_FENCED" =>
                          fh'.id[f] > last_fence' /\ fh'.id[f] <= submitted'
  BY <1>2, <1>3, <1>4, <1>5
<1>7. \A f \in Fences : fh.state[f] = "B_NONE" => fh'.state[f] = "B_NONE"
  BY <1>3
<1>8. refcnt' = [p \in Pixmaps |-> refcnt[p] + Held(fh', p) - Held(fh, p)]
  BY <1>7, CallbacksFollow DEF FinishFences, ListInv
<1> QED BY <1>2, <1>3, <1>4, <1>6, <1>8 DEF ListStep

(* Nothing happens to the lists.                                           *)
LEMMA NoListStep ==
  ASSUME ListInv, UNCHANGED <<fh, last_fence, refcnt>>,
         submitted' \in Nat, submitted' >= submitted
  PROVE  ListStep
<1>1. \A f \in Fences : fh.id[f] \in Nat
  BY FenceFacts DEF ListInv, TypeOK
<1>2. \A p \in Pixmaps : refcnt[p] \in Nat
  BY DEF ListInv, TypeOK
<1>3. refcnt' = [p \in Pixmaps |-> refcnt[p] + Held(fh', p) - Held(fh, p)]
  <2>1. refcnt = [p \in Pixmaps |-> refcnt[p]]
    BY DEF ListInv, TypeOK
  <2>2. \A p \in Pixmaps : refcnt[p] = refcnt[p] + Held(fh, p) - Held(fh, p)
    BY <1>2 DEF Held
  <2> QED BY <2>1, <2>2
<1> QED BY <1>1, <1>3 DEF ListStep, ListInv, TypeOK, FenceListsOK, FencedAfterLast

LEMMA CommitStallStep ==
  ASSUME ListInv, CommitStall
  PROVE  ListStep /\ GpuTypeOK'
<1>0. GpuTypeOK
  BY DEF ListInv, TypeOK, GpuTypeOK
<1>1. CASE FlushFails /\ UNCHANGED <<fh, last_fence, refcnt>>
  BY <1>0, <1>1, GpuTypeSteps, NoListStep DEF GpuTypeOK
<1>2. CASE /\ FlushAndWait
           /\ fh' = RetireAll(fh)
           /\ RetireCallbacks
           /\ last_fence' = submitted + 1
  <2>1. GpuTypeOK' /\ submitted' = submitted + 1
    BY <1>0, <1>2, GpuTypeSteps
  <2>2. /\ fh' \in FenceHead
        /\ FenceHeadOK(fh')
        /\ \A f \in Fences : fh'.state[f] = "B_NONE"
    BY <1>2, RetireAllProperties DEF ListInv, TypeOK, FenceListsOK
  <2>3. refcnt' = [p \in Pixmaps |-> refcnt[p] + Held(fh', p) - Held(fh, p)]
    BY <1>2, <2>2, CallbacksFollow DEF ListInv
  <2> QED BY <1>2, <2>1, <2>2, <2>3 DEF ListStep, GpuTypeOK
<1> QED BY <1>1, <1>2 DEF CommitStall

(* The batch is given the fence of the submission that just succeeded.     *)
LEMMA FenceObjectsStep ==
  ASSUME ListInv
  PROVE  LET h == FenceObjects(fh, submitted + 1)
         IN  /\ h \in FenceHead
             /\ FenceHeadOK(h)
             /\ h.batch_head = << >>
             /\ \A f \in Fences :
                  /\ h.state[f] = "B_NONE" <=> fh.state[f] = "B_NONE"
                  /\ h.state[f] = "B_FENCED" => /\ h.id[f] > last_fence
                                                /\ h.id[f] <= submitted + 1
<1>1. /\ fh \in FenceHead
      /\ FenceHeadOK(fh)
      /\ submitted + 1 \in Nat
      /\ \A f \in Fences : fh.state[f] = "B_FENCED" => fh.id[f] <= submitted + 1
      /\ \A f \in Fences : fh.state[f] = "B_FENCED" => fh.id[f] > last_fence
      /\ \A f \in Fences : fh.id[f] \in Nat
      /\ last_fence < submitted + 1
  BY FenceFacts DEF ListInv, TypeOK, FenceListsOK, FencedAfterLast
<1>2. /\ FenceObjects(fh, submitted + 1) \in FenceHead
      /\ FenceHeadOK(FenceObjects(fh, submitted + 1))
      /\ FenceObjects(fh, submitted + 1).batch_head = << >>
      /\ \A f \in Fences :
           /\ FenceObjects(fh, submitted + 1).state[f] =
                IF fh.state[f] = "B_PENDING" THEN "B_FENCED" ELSE fh.state[f]
           /\ FenceObjects(fh, submitted + 1).id[f] =
                IF fh.state[f] = "B_PENDING" THEN submitted + 1 ELSE fh.id[f]
  BY <1>1, FenceObjectsProperties
<1> QED BY <1>1, <1>2

(* etnaviv_commit(stall = FALSE)                                           *)
LEMMA CommitNoStallStep ==
  ASSUME ListInv, CommitNoStall
  PROVE  ListStep /\ GpuTypeOK'
<1>0. GpuTypeOK
  BY DEF ListInv, TypeOK, GpuTypeOK
<1>1. CASE FlushFails /\ UNCHANGED <<fh, last_fence, refcnt>>
  BY <1>0, <1>1, GpuTypeSteps, NoListStep DEF GpuTypeOK
<1>2. CASE /\ FlushStream
           /\ fh' = FenceObjects(fh, submitted + 1)
           /\ UNCHANGED <<last_fence, refcnt>>
  <2>1. GpuTypeOK' /\ submitted' = submitted + 1
    BY <1>0, <1>2, GpuTypeSteps
  <2>2. /\ fh' \in FenceHead
        /\ FenceHeadOK(fh')
        /\ \A f \in Fences :
             /\ fh'.state[f] = "B_NONE" <=> fh.state[f] = "B_NONE"
             /\ fh'.state[f] = "B_FENCED" => /\ fh'.id[f] > last_fence
                                             /\ fh'.id[f] <= submitted + 1
    BY <1>2, FenceObjectsStep
  <2>3. refcnt' = [p \in Pixmaps |-> refcnt[p] + Held(fh', p) - Held(fh, p)]
    <3>1. refcnt = [p \in Pixmaps |-> refcnt[p]] /\ \A p \in Pixmaps : refcnt[p] \in Nat
      BY DEF ListInv, TypeOK
    <3>2. \A p \in Pixmaps : refcnt[p] = refcnt[p] + Held(fh', p) - Held(fh, p)
      BY <2>2, <3>1, PixmapsAreFences DEF Held
    <3> QED BY <1>2, <3>1, <3>2
  <2> QED BY <1>2, <2>1, <2>2, <2>3 DEF ListStep, GpuTypeOK, ListInv, TypeOK
<1> QED BY <1>1, <1>2 DEF CommitNoStall

LEMMA BatchWaitCommitStep ==
  ASSUME ListInv, NEW p \in Pixmaps, BatchWaitCommit(p)
  PROVE  ListStep /\ GpuTypeOK'
<1>0. GpuTypeOK
  BY DEF ListInv, TypeOK, GpuTypeOK
<1>1. CASE UNCHANGED <<fh, last_fence, refcnt, gpuvars>>
  BY <1>0, <1>1, NoListStep DEF GpuTypeOK, gpuvars
<1>2. CASE CommitStall
  BY <1>2, CommitStallStep
<1>3. CASE /\ fh.state[p] = "B_FENCED"
           /\ FenceFinish(fh.id[p])
           /\ FinishFences(fh, fh.id[p], completed')
  <2>1. fh.id[p] \in 0 .. submitted
    BY <1>3, FenceFacts, PixmapsAreFences DEF ListInv, FencedAfterLast, TypeOK
  <2>2. GpuTypeOK' /\ submitted' = submitted
    BY <1>0, <1>3, <2>1, GpuTypeSteps
  <2>3. ListStep
    <3>1. /\ fh \in FenceHead
          /\ FenceHeadOK(fh)
          /\ \A f \in Fences : fh.state[f] = "B_FENCED" => fh.id[f] <= submitted'
          /\ fh.id[p] \in Nat /\ fh.id[p] <= submitted'
          /\ completed' \in Nat /\ completed' <= submitted'
      BY <2>1, <2>2 DEF ListInv, TypeOK, FenceListsOK, FencedAfterLast, GpuTypeOK
    <3> QED BY <1>3, <2>2, <3>1, FinishFencesStep
  <2> QED BY <2>2, <2>3
<1> QED BY <1>1, <1>2, <1>3 DEF BatchWaitCommit

(* The commit and the poll of etnaviv_BlockHandler.                        *)
LEMMA BlockHandlerStep ==
  ASSUME ListInv, BlockHandler
  PROVE  ListStep /\ GpuTypeOK'
<1> DEFINE h == BlockHandlerList
<1>0. GpuTypeOK
  BY DEF ListInv, TypeOK, GpuTypeOK
<1>1. /\ GpuTypeOK'
      /\ \/ submitted' = submitted /\ h = fh
         \/ submitted' = submitted + 1 /\ h = FenceObjects(fh, submitted + 1)
  <2>1. CASE UNCHANGED gpuvars
    BY <1>0, <2>1 DEF gpuvars, GpuTypeOK, BlockHandlerList
  <2>2. CASE FlushFails
    BY <1>0, <2>2, GpuTypeSteps DEF BlockHandlerList
  <2>3. CASE FlushStream
    <3>1. GpuTypeOK' /\ submitted' = submitted + 1 /\ submitted \in Nat
      BY <1>0, <2>3, GpuTypeSteps DEF GpuTypeOK
    <3> QED BY <3>1 DEF BlockHandlerList
  <2> QED BY <2>1, <2>2, <2>3 DEF BlockHandler, BlockHandlerCommitted
<1>2. /\ h \in FenceHead
      /\ FenceHeadOK(h)
      /\ \A f \in Fences :
           /\ h.state[f] = "B_NONE" <=> fh.state[f] = "B_NONE"
           /\ h.state[f] = "B_FENCED" => h.id[f] > last_fence /\ h.id[f] <= submitted'
  <2>1. CASE submitted' = submitted /\ h = fh
    BY <2>1 DEF ListInv, TypeOK, FenceListsOK, FencedAfterLast
  <2>2. CASE submitted' = submitted + 1 /\ h = FenceObjects(fh, submitted + 1)
    BY <2>2, FenceObjectsStep
  <2> QED BY <1>1, <2>1, <2>2
<1>3. /\ last_fence \in Nat /\ last_fence <= submitted'
      /\ completed \in Nat /\ completed <= submitted'
  BY <1>0, <1>1 DEF ListInv, TypeOK, GpuTypeOK
<1> HIDE DEF h
<1>4. CASE FinishFences(h, last_fence, completed)
  BY <1>1, <1>2, <1>3, <1>4, FinishFencesStep
<1>5. CASE fh' = h /\ UNCHANGED <<last_fence, refcnt>>
  <2>1. refcnt' = [p \in Pixmaps |-> refcnt[p] + Held(fh', p) - Held(fh, p)]
    <3>1. refcnt = [p \in Pixmaps |-> refcnt[p]] /\ \A p \in Pixmaps : refcnt[p] \in Nat
      BY DEF ListInv, TypeOK
    <3>2. \A p \in Pixmaps : refcnt[p] = refcnt[p] + Held(fh', p) - Held(fh, p)
      BY <1>2, <1>5, <3>1, PixmapsAreFences DEF Held
    <3> QED BY <1>5, <3>1, <3>2
  <2>2. /\ fh' \in FenceHead
        /\ FenceHeadOK(fh')
        /\ \A f \in Fences : fh'.state[f] = "B_FENCED" =>
                               fh'.id[f] > last_fence' /\ fh'.id[f] <= submitted'
    BY <1>2, <1>5
  <2>3. last_fence' \in Nat /\ last_fence' <= submitted'
    BY <1>3, <1>5
  <2> QED BY <1>1, <2>1, <2>2, <2>3 DEF ListStep
<1> QED BY <1>1, <1>4, <1>5 DEF BlockHandler, h

(* Linking pixmaps into the batch: a reference for each that was idle.     *)
LEMMA BatchAddStep ==
  ASSUME ListInv, NEW S, BatchRef(S),
         fh' \in FenceHead, FenceHeadOK(fh'), fh'.id = fh.id,
         \A p \in Pixmaps : fh'.state[p] = IF p \in S THEN "B_PENDING" ELSE fh.state[p],
         \A f \in Fences : fh'.state[f] = "B_FENCED" => fh.state[f] = "B_FENCED",
         UNCHANGED last_fence, submitted' \in Nat, submitted' >= submitted
  PROVE  ListStep
<1>1. \A p \in Pixmaps : refcnt[p] \in Nat
  BY DEF ListInv, TypeOK
<1>2. refcnt' = [p \in Pixmaps |-> refcnt[p] + Held(fh', p) - Held(fh, p)]
  <2>1. ASSUME NEW p \in Pixmaps
        PROVE  (IF p \in S /\ fh.state[p] = "B_NONE" THEN refcnt[p] + 1 ELSE refcnt[p])
                 = refcnt[p] + Held(fh', p) - Held(fh, p)
    BY <1>1 DEF Held
  <2> QED BY <2>1 DEF BatchRef
<1>3. /\ last_fence \in Nat /\ submitted \in Nat /\ last_fence <= submitted
      /\ \A f \in Fences : fh.id[f] \in Nat
      /\ \A f \in Fences : fh.state[f] = "B_FENCED" =>
                             fh.id[f] > last_fence /\ fh.id[f] <= submitted
  BY FenceFacts DEF ListInv, TypeOK, FencedAfterLast
<1> QED BY <1>2, <1>3 DEF ListStep

(* A ListStep that attaches and detaches nothing keeps the invariant.      *)
LEMMA ListStepPreserves ==
  ASSUME ListInv, ListStep, GpuTypeOK', UNCHANGED <<attached, dmabuf>>,
         state' \in [Pixmaps -> SUBSET (CPU_RW \union GPU_RW)],
         cpu' \in SUBSET (Pixmaps \X Access), up' \in BOOLEAN
  PROVE  ListInv'
<1>1. /\ refcnt' \in [Pixmaps -> Nat]
      /\ RefcntExact'
  <2>1. ASSUME NEW p \in Pixmaps
        PROVE  /\ refcnt'[p] \in Nat
               /\ refcnt'[p] = (IF p \in attached' THEN 1 ELSE 0)
                               + (IF fh'.state[p] # "B_NONE" THEN 1 ELSE 0)
    <3>1. refcnt[p] = (IF p \in attached THEN 1 ELSE 0) + Held(fh, p)
      BY DEF ListInv, RefcntExact, Held
    <3>2. refcnt'[p] = refcnt[p] + Held(fh', p) - Held(fh, p)
      BY DEF ListStep
    <3> QED BY <3>1, <3>2 DEF Held
  <2>2. DOMAIN refcnt' = Pixmaps /\ refcnt' = [p \in Pixmaps |-> refcnt'[p]]
    BY DEF ListStep
  <2> QED BY <2>1, <2>2 DEF RefcntExact
<1>2. TypeOK'
  BY <1>1 DEF ListInv, ListStep, TypeOK, GpuTypeOK
<1>3. FenceListsOK' /\ FencedAfterLast' /\ last_fence' <= submitted'
  BY DEF ListStep, FenceListsOK, FencedAfterLast
<1> QED BY <1>1, <1>2, <1>3 DEF ListInv

(* etnaviv_map_gpu keeps the bits of vPix->state among the four.           *)
LEMMA MapTypes ==
  ASSUME TypeOK
  PROVE  /\ \A d \in Pixmaps : MapDst(d) \in [Pixmaps -> SUBSET (CPU_RW \union GPU_RW)]
         /\ \A d \in Pixmaps, s \in Pixmaps \union {NoPixmap} :
              MapDstSrc(d, s) \in [Pixmaps -> SUBSET (CPU_RW \union GPU_RW)]
<1>1. \A bits \in SUBSET (CPU_RW \union GPU_RW), b \in BOOLEAN, a \in Access :
        MapGpuState(bits, b, a) \in SUBSET (CPU_RW \union GPU_RW)
  BY DEF MapGpuState, CPU_RW, GPU_RW
<1>2. \A d \in Pixmaps : MapDst(d) \in [Pixmaps -> SUBSET (CPU_RW \union GPU_RW)]
  <2> TAKE d \in Pixmaps
  <2>1. /\ state[d] \in SUBSET (CPU_RW \union GPU_RW)
        /\ (d \in dmabuf) \in BOOLEAN
        /\ "RW" \in Access
    BY DEF TypeOK, Access
  <2>2. MapGpuState(state[d], d \in dmabuf, "RW") \in SUBSET (CPU_RW \union GPU_RW)
    BY <1>1, <2>1, Zenon
  <2>3. MapDst(d) = [state EXCEPT ![d] = MapGpuState(state[d], d \in dmabuf, "RW")]
    BY DEF MapDst
  <2> QED BY <2>2, <2>3 DEF TypeOK
<1>3. \A d \in Pixmaps, s \in Pixmaps \union {NoPixmap} :
        MapDstSrc(d, s) \in [Pixmaps -> SUBSET (CPU_RW \union GPU_RW)]
  <2> TAKE d \in Pixmaps, s \in Pixmaps \union {NoPixmap}
  <2>1. CASE s = NoPixmap
    BY <1>2, <2>1 DEF MapDstSrc
  <2>2. CASE s # NoPixmap
    <3> DEFINE m == MapDst(d)
    <3>1. m \in [Pixmaps -> SUBSET (CPU_RW \union GPU_RW)] /\ s \in Pixmaps
      BY <1>2, <2>2
    <3>2. MapDstSrc(d, s) = [m EXCEPT ![s] = MapGpuState(m[s], s \in dmabuf, "RO")]
      BY <2>2 DEF MapDstSrc
    <3> HIDE DEF m
    <3>3. /\ m[s] \in SUBSET (CPU_RW \union GPU_RW)
          /\ (s \in dmabuf) \in BOOLEAN
          /\ "RO" \in Access
      BY <3>1 DEF Access
    <3>4. MapGpuState(m[s], s \in dmabuf, "RO") \in SUBSET (CPU_RW \union GPU_RW)
      BY <1>1, <3>3, Zenon
    <3> QED BY <3>1, <3>2, <3>4
  <2> QED BY <2>1, <2>2
<1> QED BY <1>2, <1>3

LEMMA InitListInv == Init => ListInv
<1> SUFFICES ASSUME Init PROVE ListInv
  OBVIOUS
<1>1. fh \in FenceHead /\ DOMAIN fh.batch_head = {} /\ DOMAIN fh.fence_head = {}
  BY DEF Init, FenceHeadInit, FenceHead, FenceState
<1>2. \A f \in Fences : fh.state[f] = "B_NONE"
  BY DEF Init, FenceHeadInit
<1>3. FenceHeadOK(fh)
  BY <1>1, <1>2 DEF FenceHeadOK, NoRepeats, Range
<1>4. TypeOK
  BY <1>1 DEF Init, TypeOK
<1>5. RefcntExact
  BY <1>2, PixmapsAreFences DEF Init, RefcntExact
<1> QED BY <1>2, <1>3, <1>4, <1>5 DEF Init, ListInv, FenceListsOK, FencedAfterLast

LEMMA NextListInv == ListInv /\ [Next]_vars => ListInv'
<1> SUFFICES ASSUME ListInv, [Next]_vars PROVE ListInv'
  OBVIOUS
<1>0. /\ GpuTypeOK
      /\ TypeOK
      /\ fh \in FenceHead
      /\ FenceHeadOK(fh)
      /\ submitted \in Nat
  BY DEF ListInv, TypeOK, GpuTypeOK, FenceListsOK
<1>1. CASE UNCHANGED vars
  BY <1>1 DEF ListInv, vars, pixvars, gpuvars, TypeOK, FenceListsOK, FencedAfterLast,
              RefcntExact
<1>2. CASE GpuStep
  <2>1. GpuTypeOK'
    BY <1>0, <1>2 DEF GpuStep, GpuTypeOK, StillRunning
  <2>2. ListStep
    BY <1>0, <1>2, NoListStep DEF GpuStep, pixvars
  <2> QED BY <1>0, <1>2, <2>1, <2>2, ListStepPreserves DEF GpuStep, pixvars, TypeOK
<1>3. ASSUME NEW p \in Pixmaps, CreatePixmap(p)
      PROVE  ListInv'
  <2>1. p \notin attached /\ fh.state[p] = "B_NONE"
    BY <1>3 DEF CreatePixmap, Free, ListInv, RefcntExact
  <2>2. TypeOK'
    BY <1>0, <1>3 DEF CreatePixmap, TypeOK, gpuvars
  <2>3. RefcntExact'
    BY <1>0, <1>3, <2>1 DEF CreatePixmap, ListInv, RefcntExact, TypeOK
  <2> QED BY <1>3, <2>2, <2>3 DEF CreatePixmap, ListInv, FenceListsOK, FencedAfterLast, gpuvars
<1>4. ASSUME NEW p \in Pixmaps, DestroyPixmap(p)
      PROVE  ListInv'
  <2>1. refcnt[p] \in Nat /\ refcnt[p] > 0
    BY <1>0, <1>4 DEF DestroyPixmap, ListInv, RefcntExact
  <2>2. TypeOK'
    BY <1>0, <1>4, <2>1 DEF DestroyPixmap, Detach, TypeOK, gpuvars
  <2>3. RefcntExact'
    BY <1>0, <1>4, <2>1 DEF DestroyPixmap, Detach, ListInv, RefcntExact, TypeOK
  <2> QED BY <1>4, <2>2, <2>3 DEF DestroyPixmap, ListInv, FenceListsOK, FencedAfterLast, gpuvars
<1>5. ASSUME NEW p \in Pixmaps \union {NoPixmap}, NEW q \in Pixmaps, ImportDmabuf(p, q)
      PROVE  ListInv'
  <2>1. q \notin attached /\ fh.state[q] = "B_NONE"
    BY <1>5 DEF ImportDmabuf, Free, ListInv, RefcntExact
  <2>2. p # q
    BY <1>5, <2>1, NoPixmapAssumption, PixmapsAreFences DEF ImportDmabuf
  <2>3. p \in Pixmaps => refcnt[p] \in Nat /\ refcnt[p] > 0
    BY <1>0, <1>5, NoPixmapAssumption, PixmapsAreFences
    DEF ImportDmabuf, ListInv, RefcntExact
  <2>4. TypeOK'
    <3>1. refcnt' \in [Pixmaps -> Nat]
      BY <1>0, <1>5, <2>3 DEF ImportDmabuf, TypeOK
    <3> QED BY <1>0, <1>5, <3>1 DEF ImportDmabuf, TypeOK, gpuvars
  <2>5. RefcntExact'
    <3> SUFFICES ASSUME NEW r \in Pixmaps
                 PROVE  refcnt'[r] = (IF r \in attached' THEN 1 ELSE 0)
                                   + (IF fh'.state[r] # "B_NONE" THEN 1 ELSE 0)
      BY DEF RefcntExact
    <3>1. refcnt[r] = (IF r \in attached THEN 1 ELSE 0)
                    + (IF fh.state[r] # "B_NONE" THEN 1 ELSE 0)
      BY DEF ListInv, RefcntExact
    <3>2. /\ refcnt'[r] = IF r = q THEN 1 ELSE IF r = p THEN refcnt[r] - 1 ELSE refcnt[r]
          /\ attached' = (attached \ {p}) \union {q}
          /\ fh' = fh
          /\ p \in attached \union {NoPixmap}
      BY <1>5 DEF ImportDmabuf
    <3>3. r # NoPixmap
      BY NoPixmapAssumption, PixmapsAreFences
    <3> QED BY <2>1, <2>2, <3>1, <3>2, <3>3
  <2> QED BY <1>5, <2>4, <2>5 DEF ImportDmabuf, ListInv, FenceListsOK, FencedAfterLast, gpuvars
<1>6. ASSUME NEW dst \in Pixmaps, NEW src \in Pixmaps \union {NoPixmap}, Draw(dst, src)
      PROVE  ListInv'
  <2> DEFINE g == IF src = NoPixmap THEN fh ELSE FenceAdd(fh, src)
  <2>1. /\ g \in FenceHead
        /\ FenceHeadOK(g)
        /\ g.id = fh.id
        /\ g.state \in [Fences -> FenceState]
        /\ \A f \in Fences : g.state[f] = IF f = src THEN "B_PENDING" ELSE fh.state[f]
    <3>1. CASE src = NoPixmap
      BY <1>0, <3>1, NoPixmapAssumption DEF FenceHead
    <3>2. CASE src # NoPixmap
      <4>1. src \in Fences
        BY <3>2, PixmapsAreFences
      <4>2. /\ FenceAdd(fh, src) \in FenceHead
            /\ FenceHeadOK(FenceAdd(fh, src))
            /\ FenceAdd(fh, src).state = [fh.state EXCEPT ![src] = "B_PENDING"]
            /\ FenceAdd(fh, src).id = fh.id
        BY <1>0, <4>1, FenceAddProperties
      <4> QED BY <1>0, <3>2, <4>1, <4>2 DEF FenceHead
    <3> QED BY <3>1, <3>2
  <2>2. fh' = FenceAdd(g, dst)
    BY <1>6 DEF Draw
  <2> HIDE DEF g
  <2>3. /\ fh' \in FenceHead
        /\ FenceHeadOK(fh')
        /\ fh'.id = fh.id
        /\ fh'.state = [g.state EXCEPT ![dst] = "B_PENDING"]
    BY <2>1, <2>2, FenceAddProperties, PixmapsAreFences
  <2>4. \A f \in Fences :
          fh'.state[f] = IF f \in {dst, src} THEN "B_PENDING" ELSE fh.state[f]
    BY <2>1, <2>3
  <2>5. DrawOps(dst, src) \in SUBSET GpuOp
    <3>1. [obj |-> dst, write |-> TRUE] \in GpuOp
      BY PixmapsAreFences DEF GpuOp
    <3>2. src # NoPixmap => [obj |-> src, write |-> FALSE] \in GpuOp
      BY PixmapsAreFences DEF GpuOp
    <3> QED BY <3>1, <3>2 DEF DrawOps
  <2>6. GpuTypeOK' /\ submitted' >= submitted /\ submitted' \in Nat
    BY <1>0, <1>6, <2>5, GpuTypeSteps DEF Draw, GpuTypeOK
  <2>7. ListStep
    <3>1. BatchRef({dst, src}) /\ UNCHANGED last_fence
      BY <1>6 DEF Draw
    <3>2. /\ \A p \in Pixmaps : fh'.state[p] = IF p \in {dst, src} THEN "B_PENDING"
                                                ELSE fh.state[p]
          /\ \A f \in Fences : fh'.state[f] = "B_FENCED" => fh.state[f] = "B_FENCED"
      BY <2>4, PixmapsAreFences
    <3> QED BY <2>3, <2>6, <3>1, <3>2, BatchAddStep
  <2> QED BY <1>0, <1>6, <2>6, <2>7, ListStepPreserves, MapTypes DEF Draw, TypeOK
<1>6a. ASSUME NEW dst \in Pixmaps, Fill(dst)
       PROVE  ListInv'
  BY <1>6, <1>6a DEF Fill
<1>6b. ASSUME NEW dst \in Pixmaps, NEW src \in Pixmaps, Copy(dst, src)
       PROVE  ListInv'
  BY <1>6, <1>6b DEF Copy
<1>7. ASSUME NEW dst \in Pixmaps, NEW src \in Pixmaps, DrawRefused(dst, src)
      PROVE  ListInv'
  <2>1. GpuTypeOK' /\ submitted' = submitted
    BY <1>0, <1>7 DEF DrawRefused, GpuTypeOK, gpuvars
  <2>2. ListStep
    BY <1>0, <1>7, <2>1, NoListStep DEF DrawRefused
  <2> QED BY <1>0, <1>7, <2>1, <2>2, ListStepPreserves, MapTypes DEF DrawRefused, TypeOK
<1>8. ASSUME NEW dst \in Pixmaps, NEW node \in Nodes, GlyphUpload(dst, node)
      PROVE  ListInv'
  <2>0. node \in Fences /\ node \notin Pixmaps /\ dst \in Fences
    BY PixmapsAreFences, DisjointAssumption
  <2> DEFINE g == FenceAdd(fh, node)
  <2>1. /\ g \in FenceHead
        /\ FenceHeadOK(g)
        /\ g.id = fh.id
        /\ g.state = [fh.state EXCEPT ![node] = "B_PENDING"]
        /\ g.state \in [Fences -> FenceState]
        /\ \A f \in Fences : g.state[f] = IF f = node THEN "B_PENDING" ELSE fh.state[f]
    <3>1. /\ g \in FenceHead
          /\ FenceHeadOK(g)
          /\ g.id = fh.id
          /\ g.state = [fh.state EXCEPT ![node] = "B_PENDING"]
      BY <1>0, <2>0, FenceAddProperties
    <3> HIDE DEF g
    <3> QED BY <1>0, <2>0, <3>1 DEF FenceHead
  <2> HIDE DEF g
  <2>2. /\ UNCHANGED <<last_fence, attached, dmabuf, cpu, up>>
        /\ \/ /\ state' = MapDst(dst)
              /\ fh' = FenceAdd(g, dst)
              /\ BatchRef({dst})
              /\ Emit({[obj |-> dst, write |-> TRUE], [obj |-> node, write |-> FALSE]})
           \/ /\ fh' = g
              /\ UNCHANGED <<refcnt, state, gpuvars>>
    BY <1>8 DEF GlyphUpload, g
  <2>3. CASE /\ state' = MapDst(dst)
             /\ fh' = FenceAdd(g, dst)
             /\ BatchRef({dst})
             /\ Emit({[obj |-> dst, write |-> TRUE], [obj |-> node, write |-> FALSE]})
    <3>1. /\ fh' \in FenceHead
          /\ FenceHeadOK(fh')
          /\ fh'.id = fh.id
          /\ fh'.state = [g.state EXCEPT ![dst] = "B_PENDING"]
      BY <2>0, <2>1, <2>3, FenceAddProperties
    <3>2. \A f \in Fences :
            fh'.state[f] = IF f \in {dst, node} THEN "B_PENDING" ELSE fh.state[f]
      BY <2>1, <3>1
    <3>3. {[obj |-> dst, write |-> TRUE], [obj |-> node, write |-> FALSE]} \in SUBSET GpuOp
      BY <2>0 DEF GpuOp
    <3>4. GpuTypeOK' /\ submitted' >= submitted /\ submitted' \in Nat
      BY <1>0, <2>3, <3>3, GpuTypeSteps DEF GpuTypeOK
    <3>5. /\ \A p \in Pixmaps : fh'.state[p] = IF p \in {dst} THEN "B_PENDING" ELSE fh.state[p]
          /\ \A f \in Fences : fh'.state[f] = "B_FENCED" => fh.state[f] = "B_FENCED"
      BY <2>0, <3>2, PixmapsAreFences
    <3>6. ListStep
      BY <2>2, <2>3, <3>1, <3>4, <3>5, BatchAddStep
    <3> QED BY <1>0, <2>2, <2>3, <3>4, <3>6, ListStepPreserves, MapTypes DEF TypeOK
  <2>4. CASE fh' = g /\ UNCHANGED <<refcnt, state, gpuvars>>
    <3>1. GpuTypeOK' /\ submitted' >= submitted /\ submitted' \in Nat
      BY <1>0, <2>4 DEF GpuTypeOK, gpuvars
    <3>2. /\ \A p \in Pixmaps : fh'.state[p] = IF p \in {} THEN "B_PENDING" ELSE fh.state[p]
          /\ \A f \in Fences : fh'.state[f] = "B_FENCED" => fh.state[f] = "B_FENCED"
      BY <2>0, <2>1, <2>4, PixmapsAreFences
    <3>3. BatchRef({})
      <4>1. refcnt = [p \in Pixmaps |-> refcnt[p]]
        BY <1>0 DEF TypeOK
      <4> QED BY <2>4, <4>1 DEF BatchRef
    <3>4. ListStep
      BY <2>1, <2>2, <2>4, <3>1, <3>2, <3>3, BatchAddStep
    <3> QED BY <1>0, <2>2, <2>4, <3>1, <3>4, ListStepPreserves DEF TypeOK
  <2> QED BY <2>2, <2>3, <2>4
<1>9. ASSUME NEW p \in Pixmaps, XvPutImage(p)
      PROVE  ListInv'
  <2> DEFINE ops == stream \union {[obj |-> p, write |-> TRUE]}
  <2>1. ops \in SUBSET GpuOp
    <3>1. [obj |-> p, write |-> TRUE] \in GpuOp
      BY PixmapsAreFences DEF GpuOp
    <3> QED BY <1>0, <3>1 DEF GpuTypeOK
  <2>2. \/ stream' = {} /\ submitted' = submitted + 1 /\ completed' = submitted + 1 /\ jobs' = {}
        \/ /\ stream' = {} /\ submitted' = submitted + 1
           /\ jobs' = Submitted(ops) /\ UNCHANGED completed
        \/ stream' = ops /\ UNCHANGED <<jobs, submitted, completed>>
    BY <1>9 DEF XvPutImage
  <2> HIDE DEF ops
  <2>3. GpuTypeOK' /\ submitted' >= submitted /\ submitted' \in Nat
    <3>1. Submitted(ops) \in SUBSET Job
      BY <1>0, <2>1, SubmittedType
    <3> QED BY <1>0, <2>1, <2>2, <3>1 DEF GpuTypeOK
  <2>4. ListStep
    BY <1>9, <2>3, NoListStep DEF XvPutImage
  <2> QED BY <1>0, <1>9, <2>3, <2>4, ListStepPreserves, MapTypes DEF XvPutImage, TypeOK
<1>10. ASSUME NEW p \in Pixmaps, NEW a \in Access, PrepareCpu(p, a)
       PROVE  ListInv'
  <2>1. ListStep /\ GpuTypeOK'
    <3>1. CASE BatchWaitCommit(p)
      BY <3>1, BatchWaitCommitStep
    <3>2. CASE UNCHANGED <<fh, last_fence, refcnt, gpuvars>>
      BY <1>0, <3>2, NoListStep DEF GpuTypeOK, gpuvars
    <3> QED BY <1>10, <3>1, <3>2 DEF PrepareCpu
  <2>2. state' \in [Pixmaps -> SUBSET (CPU_RW \union GPU_RW)]
    BY <1>0, <1>10 DEF PrepareCpu, TypeOK, CpuBits, CPU_RW
  <2>3. cpu' \in SUBSET (Pixmaps \X Access) /\ up' \in BOOLEAN
    BY <1>0, <1>10 DEF PrepareCpu, TypeOK
  <2> QED BY <1>10, <2>1, <2>2, <2>3, ListStepPreserves DEF PrepareCpu
<1>11. ASSUME NEW p \in Pixmaps, NEW a \in Access, FinishCpu(p, a)
       PROVE  ListInv'
  <2>1. GpuTypeOK' /\ submitted' = submitted
    BY <1>0, <1>11 DEF FinishCpu, GpuTypeOK, gpuvars
  <2>2. ListStep
    BY <1>0, <1>11, <2>1, NoListStep DEF FinishCpu, pixvars
  <2> QED BY <1>0, <1>11, <2>1, <2>2, ListStepPreserves DEF FinishCpu, pixvars, TypeOK
<1>12. CASE FlushCallback
  <2>1. ListStep /\ GpuTypeOK'
    BY <1>12, CommitNoStallStep DEF FlushCallback
  <2> QED BY <1>0, <1>12, <2>1, ListStepPreserves DEF FlushCallback, TypeOK
<1>13. CASE BlockHandler
  <2>1. ListStep /\ GpuTypeOK'
    BY <1>13, BlockHandlerStep
  <2> QED BY <1>0, <1>13, <2>1, ListStepPreserves DEF BlockHandler, TypeOK
<1>14. ASSUME NEW p \in Pixmaps, CloseScreen(p)
       PROVE  ListInv'
  <2>1. GpuTypeOK' /\ submitted' \in Nat
    BY <1>0, <1>14, GpuTypeSteps DEF CloseScreen, GpuTypeOK
  <2>2. /\ fh' \in FenceHead
        /\ FenceHeadOK(fh')
        /\ \A f \in Fences : fh'.state[f] = "B_NONE"
    BY <1>0, <1>14, RetireAllProperties DEF CloseScreen
  <2>3. ASSUME NEW q \in Pixmaps
        PROVE  /\ refcnt'[q] \in Nat
               /\ refcnt'[q] = (IF q \in attached' THEN 1 ELSE 0)
                               + (IF fh'.state[q] # "B_NONE" THEN 1 ELSE 0)
    <3>1. refcnt[q] = (IF q \in attached THEN 1 ELSE 0)
                    + (IF fh.state[q] # "B_NONE" THEN 1 ELSE 0)
      BY DEF ListInv, RefcntExact
    <3>2. refcnt'[q] = refcnt[q] - (IF q = p THEN 1 ELSE 0)
                                 - (IF q \in Retired THEN 1 ELSE 0)
      BY <1>14 DEF CloseScreen
    <3>3. q \in Retired <=> fh.state[q] # "B_NONE"
      BY <2>2, PixmapsAreFences DEF Retired
    <3>4. attached' = attached \ {p} /\ p \in attached
      BY <1>14 DEF CloseScreen, Detach
    <3> QED BY <2>2, <3>1, <3>2, <3>3, <3>4, PixmapsAreFences
  <2>4. refcnt' \in [Pixmaps -> Nat]
    <3>1. DOMAIN refcnt' = Pixmaps /\ refcnt' = [q \in Pixmaps |-> refcnt'[q]]
      BY <1>14 DEF CloseScreen
    <3> QED BY <2>3, <3>1
  <2>5. TypeOK'
    BY <1>0, <1>14, <2>1, <2>2, <2>4 DEF CloseScreen, Detach, TypeOK, GpuTypeOK
  <2>6. FencedAfterLast' /\ last_fence' <= submitted'
    BY <1>14, <2>1, <2>2 DEF CloseScreen, FencedAfterLast
  <2> QED BY <2>2, <2>3, <2>5, <2>6 DEF ListInv, FenceListsOK, RefcntExact
<1> QED
  BY <1>1, <1>2, <1>3, <1>4, <1>5, <1>6a, <1>6b, <1>7, <1>8, <1>9, <1>10, <1>11, <1>12, <1>13,
     <1>14
  DEF Next

(* Whatever kernel calls fail, the types are kept, and no reference count  *)
(* of a vPix drops below zero (etnaviv_put_vpix, etnaviv_retire_vpix_fence).*)
THEOREM TypesCorrect == Spec => []TypeOK
<1>1. ListInv => TypeOK
  BY DEF ListInv
<1> QED BY <1>1, InitListInv, NextListInv, PTL DEF Spec

(* The state of every fence says which list it is on, no fence is linked   *)
(* twice, and fence_head stays ordered by fence id (etnaviv_fence.c).      *)
THEOREM FenceListsCorrect == Spec => []FenceListsOK
<1>1. ListInv => FenceListsOK
  BY DEF ListInv
<1> QED BY <1>1, InitListInv, NextListInv, PTL DEF Spec

(* What is fenced is younger than the last fence known to be complete, so  *)
(* etnaviv_BlockHandler's poll will come to it.                            *)
THEOREM FencedAfterLastCorrect == Spec => []FencedAfterLast
<1>1. ListInv => FencedAfterLast
  BY DEF ListInv
<1> QED BY <1>1, InitListInv, NextListInv, PTL DEF Spec

(* Every vPix is referenced once by its X pixmap and once by the list it   *)
(* is on, and by nothing else (etnaviv_batch_add, etnaviv_put_vpix).       *)
THEOREM RefcntCorrect == Spec => []RefcntExact
<1>1. ListInv => RefcntExact
  BY DEF ListInv
<1> QED BY <1>1, InitListInv, NextListInv, PTL DEF Spec

-----------------------------------------------------------------------------
(* The second part: as long as no kernel call fails, the lists tell the    *)
(* truth about the GPU.  Commands in the stream are for pending objects, a *)
(* job's objects are pending again or fenced with the job's fence or a     *)
(* later one, the GPU has passed the fence the server takes as complete,   *)
(* and the state bits of a live pixmap cover what the GPU does with it.    *)

OnStream == \A op \in stream : fh.state[op.obj] = "B_PENDING"

OnGpu ==
  \A j \in jobs :
    /\ j.fence > completed
    /\ j.fence <= submitted
    /\ \/ fh.state[j.obj] = "B_PENDING"
       \/ fh.state[j.obj] = "B_FENCED" /\ j.fence <= fh.id[j.obj]

StateCovers ==
  \A op \in InFlight :
    op.obj \in attached => /\ "GPU_R" \in state[op.obj]
                           /\ op.write => ("GPU_W" \in state[op.obj])

CpuAttached == \A p \in Pixmaps : InUse(p) => p \in attached

GpuInv ==
  /\ ListInv
  /\ OnStream
  /\ OnGpu
  /\ last_fence <= completed
  /\ StateCovers
  /\ CpuAttached
  /\ CpuGpuExclusion

LEMMA GpuTypes ==
  ASSUME ListInv
  PROVE  /\ GpuTypeOK
         /\ TypeOK
         /\ fh \in FenceHead
         /\ FenceHeadOK(fh)
         /\ \A f \in Fences : fh.state[f] \in FenceState /\ fh.id[f] \in Nat
         /\ last_fence \in Nat
         /\ submitted \in Nat
         /\ completed \in Nat
         /\ completed <= submitted
         /\ \A j \in jobs : j.obj \in Fences /\ j.write \in BOOLEAN /\ j.fence \in Nat
         /\ \A op \in stream : op.obj \in Fences /\ op.write \in BOOLEAN
         /\ \A f \in Fences : fh.state[f] = "B_FENCED" =>
                                fh.id[f] > last_fence /\ fh.id[f] <= submitted
<1>1. TypeOK /\ GpuTypeOK /\ fh \in FenceHead /\ FenceHeadOK(fh)
  BY DEF ListInv, TypeOK, GpuTypeOK, FenceListsOK
<1>2. \A f \in Fences : fh.state[f] \in FenceState /\ fh.id[f] \in Nat
  BY <1>1, FenceFacts
<1>3. \A j \in jobs : j.obj \in Fences /\ j.write \in BOOLEAN /\ j.fence \in Nat
  BY <1>1 DEF GpuTypeOK, Job
<1>4. \A op \in stream : op.obj \in Fences /\ op.write \in BOOLEAN
  BY <1>1 DEF GpuTypeOK, GpuOp
<1> QED BY <1>1, <1>2, <1>3, <1>4 DEF ListInv, TypeOK, GpuTypeOK, FencedAfterLast

(* An object is in use by the GPU through the stream or through a job.     *)
LEMMA InFlightSplit ==
  /\ \A op \in stream : op \in InFlight
  /\ \A j \in jobs : [obj |-> j.obj, write |-> j.write] \in InFlight
  /\ \A op \in InFlight :
       op \in stream \/ \E j \in jobs : op = [obj |-> j.obj, write |-> j.write]
BY DEF InFlight

(* What is on no list is not in use by the GPU.                            *)
LEMMA IdleWhenUnlisted ==
  ASSUME GpuInv
  PROVE  \A f \in Fences : fh.state[f] = "B_NONE" => ~ UsedByGpu(f)
<1> SUFFICES ASSUME NEW f \in Fences, fh.state[f] = "B_NONE", UsedByGpu(f)
             PROVE  FALSE
  OBVIOUS
<1>1. PICK op \in InFlight : op.obj = f
  BY DEF UsedByGpu
<1>2. CASE op \in stream
  BY <1>1, <1>2 DEF GpuInv, OnStream
<1>3. CASE \E j \in jobs : op = [obj |-> j.obj, write |-> j.write]
  <2>1. PICK j \in jobs : op = [obj |-> j.obj, write |-> j.write]
    BY <1>3
  <2>2. j.obj = f
    BY <1>1, <2>1
  <2> QED BY <2>2 DEF GpuInv, OnGpu
<1> QED BY <1>2, <1>3, InFlightSplit

(* A step after which the GPU has no more to do than before, no bit of a   *)
(* live pixmap is lost, and no CPU access begins, keeps the exclusion.     *)
LEMMA FewerInFlight ==
  ASSUME GpuInv, InFlight' \subseteq InFlight,
         \A p \in attached' : p \in attached => state[p] \intersect GPU_RW \subseteq state'[p],
         \A p \in attached' : p \notin attached => fh.state[p] = "B_NONE",
         attached' \subseteq Pixmaps,
         \A p \in Pixmaps : InUse(p) => p \in attached',
         cpu' \subseteq cpu
  PROVE  StateCovers' /\ CpuAttached' /\ CpuGpuExclusion'
<1>1. \A op \in InFlight' : op.obj \in attached' => op.obj \in attached
  <2> SUFFICES ASSUME NEW op \in InFlight', op.obj \in attached', op.obj \notin attached
               PROVE  FALSE
    OBVIOUS
  <2>1. fh.state[op.obj] = "B_NONE" /\ op.obj \in Fences
    BY PixmapsAreFences
  <2>2. UsedByGpu(op.obj)
    BY DEF UsedByGpu
  <2> QED BY <2>1, <2>2, IdleWhenUnlisted
<1>2. StateCovers'
  BY <1>1 DEF GpuInv, StateCovers, GPU_RW
<1>3. CpuAttached'
  BY DEF CpuAttached, InUse
<1>4. CpuGpuExclusion'
  BY DEF GpuInv, CpuGpuExclusion, UsedByGpu, WrittenByGpu
<1> QED BY <1>2, <1>3, <1>4

NoFaults == Faults = {}

(* Without a failing wait, finish_fences retires exactly the fences that   *)
(* are complete.                                                           *)
LEMMA FinishFencesExact ==
  ASSUME NoFaults, NEW h \in FenceHead, FenceHeadOK(h),
         NEW fence \in Nat, NEW done \in Nat, fence <= done,
         FinishFences(h, fence, done)
  PROVE  /\ fh'.id = h.id
         /\ last_fence' <= done
         /\ \A f \in Fences :
              fh'.state[f] = IF h.state[f] = "B_FENCED" /\ h.id[f] <= done
                             THEN "B_NONE" ELSE h.state[f]
<1>1. PICK seen \in PollResult(done) :
        /\ fh' = RetireId(h, Larger(fence, seen))
        /\ last_fence' = RetireLast(h, fence, Larger(fence, seen))
  BY DEF FinishFences
<1>2. seen = done /\ Larger(fence, seen) = done /\ done \in Int
  BY <1>1 DEF PollResult, Larger, NoFaults
<1>3. fh' = RetireId(h, done) /\ last_fence' = RetireLast(h, fence, done)
  BY <1>1, <1>2
<1>4. last_fence' \in fence .. done
  BY <1>2, <1>3, RetireLastProperties
<1> QED BY <1>2, <1>3, <1>4, RetireIdProperties

(* etnaviv_batch_wait_commit leaves the GPU with nothing to do for the     *)
(* pixmap, and gives it nothing new to do.                                 *)
LEMMA BatchWaitCommitWaits ==
  ASSUME GpuInv, NoFaults, NEW p \in Pixmaps, BatchWaitCommit(p)
  PROVE  /\ OnStream' /\ OnGpu' /\ last_fence' <= completed'
         /\ InFlight' \subseteq InFlight
         /\ ~ UsedByGpu(p)'
<1>0. ListInv /\ p \in Fences
  BY PixmapsAreFences DEF GpuInv
<1>1. CASE fh.state[p] = "B_NONE" /\ UNCHANGED <<fh, last_fence, refcnt, gpuvars>>
  <2>1. ~ UsedByGpu(p)
    BY <1>0, <1>1, IdleWhenUnlisted
  <2> QED BY <1>1, <2>1
      DEF GpuInv, gpuvars, OnStream, OnGpu, InFlight, UsedByGpu
<1>2. CASE CommitStall
  <2>1. stream' = {} /\ jobs' = {} /\ completed' = submitted + 1 /\ last_fence' = submitted + 1
    BY <1>2 DEF CommitStall, FlushFails, FlushAndWait, NoFaults
  <2>2. InFlight' = {}
    BY <2>1 DEF InFlight
  <2> QED BY <1>0, <2>1, <2>2, GpuTypes DEF OnStream, OnGpu, UsedByGpu
<1>3. CASE /\ fh.state[p] = "B_FENCED"
           /\ FenceFinish(fh.id[p])
           /\ FinishFences(fh, fh.id[p], completed')
  <2>1. /\ stream' = stream
        /\ submitted' = submitted
        /\ completed' = Larger(completed, fh.id[p])
        /\ jobs' = StillRunning(jobs, Larger(completed, fh.id[p]))
    BY <1>3 DEF FenceFinish, NoFaults
  <2>2. /\ fh.id[p] \in Nat
        /\ completed' \in Nat
        /\ fh.id[p] <= completed'
        /\ completed <= completed'
    BY <1>0, <2>1, GpuTypes DEF Larger
  <2>3. /\ fh'.id = fh.id
        /\ last_fence' <= completed'
        /\ \A f \in Fences :
             fh'.state[f] = IF fh.state[f] = "B_FENCED" /\ fh.id[f] <= completed'
                            THEN "B_NONE" ELSE fh.state[f]
    BY <1>0, <1>3, <2>2, GpuTypes, FinishFencesExact
  <2>4. \A j \in jobs' : j \in jobs /\ j.fence > completed'
    BY <2>1 DEF StillRunning
  <2>5. OnStream'
    BY <1>0, <2>1, <2>3, GpuTypes DEF GpuInv, OnStream
  <2>6. OnGpu'
    <3> SUFFICES ASSUME NEW j \in jobs'
                 PROVE  /\ j.fence > completed'
                        /\ j.fence <= submitted'
                        /\ \/ fh'.state[j.obj] = "B_PENDING"
                           \/ fh'.state[j.obj] = "B_FENCED" /\ j.fence <= fh'.id[j.obj]
      BY DEF OnGpu
    <3>1. /\ j \in jobs /\ j.fence > completed' /\ j.fence <= submitted
          /\ \/ fh.state[j.obj] = "B_PENDING"
             \/ fh.state[j.obj] = "B_FENCED" /\ j.fence <= fh.id[j.obj]
      BY <2>4 DEF GpuInv, OnGpu
    <3>2. j.obj \in Fences /\ j.fence \in Nat /\ fh.id[j.obj] \in Nat
      BY <1>0, <3>1, GpuTypes
    <3> QED BY <2>1, <2>2, <2>3, <3>1, <3>2
  <2>7. InFlight' \subseteq InFlight
    BY <2>1, <2>4 DEF InFlight
  <2>8. ASSUME UsedByGpu(p)'
        PROVE  FALSE
    <3>1. PICK op \in InFlight' : op.obj = p
      BY <2>8 DEF UsedByGpu
    <3>2. op \notin stream'
      BY <1>3, <2>1, <3>1 DEF GpuInv, OnStream
    <3>3. PICK j \in jobs' : op = [obj |-> j.obj, write |-> j.write]
      BY <3>1, <3>2 DEF InFlight
    <3>4. j.obj = p /\ j \in jobs /\ j.fence > completed'
      BY <2>4, <3>1, <3>3
    <3>5. j.fence <= fh.id[p]
      BY <1>3, <3>4 DEF GpuInv, OnGpu
    <3>6. j.fence \in Nat
      BY <1>0, <3>4, GpuTypes
    <3> QED BY <2>2, <3>4, <3>5, <3>6
  <2> QED BY <2>3, <2>5, <2>6, <2>7, <2>8
<1> QED
  <2>1. \/ fh.state[p] = "B_NONE" /\ UNCHANGED <<fh, last_fence, refcnt, gpuvars>>
        \/ CommitStall
        \/ /\ fh.state[p] = "B_FENCED"
           /\ FenceFinish(fh.id[p])
           /\ FinishFences(fh, fh.id[p], completed')
    BY DEF BatchWaitCommit
  <2> QED BY <1>1, <1>2, <1>3, <2>1

(* A submission that is not waited for, with the fence it gives the batch. *)
LEMMA SubmitFences ==
  ASSUME GpuInv, FlushStream,
         NEW h, h = FenceObjects(fh, submitted + 1)
  PROVE  /\ h \in FenceHead /\ FenceHeadOK(h)
         /\ \A f \in Fences : h.state[f] # "B_PENDING"
         /\ stream' = {}
         /\ submitted' = submitted + 1 /\ completed' = completed
         /\ \A j \in jobs' : /\ j.fence > completed'
                             /\ j.fence <= submitted'
                             /\ j.obj \in Fences
                             /\ j.fence \in Nat
                             /\ h.state[j.obj] = "B_FENCED"
                             /\ j.fence <= h.id[j.obj]
         /\ InFlight' \subseteq InFlight
<1>0. ListInv
  BY DEF GpuInv
<1>1. /\ fh \in FenceHead /\ FenceHeadOK(fh) /\ submitted + 1 \in Nat
      /\ \A f \in Fences : fh.state[f] = "B_FENCED" => fh.id[f] <= submitted + 1
      /\ \A f \in Fences : fh.state[f] \in FenceState /\ fh.id[f] \in Nat
  BY <1>0, GpuTypes
<1>2. /\ h \in FenceHead /\ FenceHeadOK(h)
      /\ \A f \in Fences :
           /\ h.state[f] = IF fh.state[f] = "B_PENDING" THEN "B_FENCED" ELSE fh.state[f]
           /\ h.id[f] = IF fh.state[f] = "B_PENDING" THEN submitted + 1 ELSE fh.id[f]
  BY <1>1, FenceObjectsProperties
<1>3. /\ stream' = {} /\ submitted' = submitted + 1 /\ completed' = completed
      /\ jobs' = Submitted(stream)
  BY DEF FlushStream
<1>4. ASSUME NEW j \in jobs'
      PROVE  /\ j.fence > completed' /\ j.fence <= submitted'
             /\ j.obj \in Fences /\ j.fence \in Nat
             /\ h.state[j.obj] = "B_FENCED" /\ j.fence <= h.id[j.obj]
  <2>1. CASE j \in jobs
    <3>1. /\ j.fence > completed /\ j.fence <= submitted
          /\ \/ fh.state[j.obj] = "B_PENDING"
             \/ fh.state[j.obj] = "B_FENCED" /\ j.fence <= fh.id[j.obj]
          /\ j.obj \in Fences /\ j.fence \in Nat
      BY <1>0, <2>1, GpuTypes DEF GpuInv, OnGpu
    <3>2. submitted \in Nat
      BY <1>0, GpuTypes
    <3>3. j.fence <= submitted + 1
      BY <3>1, <3>2
    <3>4. h.state[j.obj] = "B_FENCED" /\ j.fence <= h.id[j.obj]
      BY <1>2, <3>1, <3>3
    <3> QED BY <1>3, <3>1, <3>3, <3>4
  <2>2. CASE j \notin jobs
    <3>1. PICK o \in stream : j = [obj |-> o.obj, write |-> o.write, fence |-> submitted + 1]
      BY <1>3, <2>2 DEF Submitted
    <3>2. fh.state[o.obj] = "B_PENDING" /\ o.obj \in Fences
      BY <1>0, <3>1, GpuTypes DEF GpuInv, OnStream
    <3>3. completed <= submitted /\ completed \in Nat /\ submitted \in Nat
      BY <1>0, GpuTypes
    <3> QED BY <1>2, <1>3, <3>1, <3>2, <3>3
  <2> QED BY <2>1, <2>2
<1>5. InFlight' \subseteq InFlight
  <2> SUFFICES ASSUME NEW op \in InFlight'
               PROVE  op \in InFlight
    OBVIOUS
  <2>1. PICK j \in jobs' : op = [obj |-> j.obj, write |-> j.write]
    BY <1>3 DEF InFlight
  <2>2. CASE j \in jobs
    BY <2>1, <2>2 DEF InFlight
  <2>3. CASE j \notin jobs
    <3>1. PICK o \in stream : j = [obj |-> o.obj, write |-> o.write, fence |-> submitted + 1]
      BY <1>3, <2>3 DEF Submitted
    <3>2. o = [obj |-> o.obj, write |-> o.write]
      BY <1>0, <3>1, GpuTypes DEF GpuTypeOK, GpuOp
    <3> QED BY <2>1, <3>1, <3>2 DEF InFlight
  <2> QED BY <2>2, <2>3
<1>6. \A f \in Fences : h.state[f] # "B_PENDING"
  BY <1>1, <1>2 DEF FenceState
<1> QED BY <1>2, <1>3, <1>4, <1>5, <1>6

(* New commands for objects that were just linked into the batch.          *)
LEMMA EmitPending ==
  ASSUME GpuInv, NEW ops \in SUBSET GpuOp, Emit(ops),
         \A f \in Fences : fh'.state[f] = "B_PENDING" \/ fh'.state[f] = fh.state[f],
         \A op \in ops : fh'.state[op.obj] = "B_PENDING",
         fh'.id = fh.id, UNCHANGED last_fence
  PROVE  /\ OnStream' /\ OnGpu' /\ last_fence' <= completed'
         /\ InFlight' \subseteq InFlight \union ops
<1>0. ListInv
  BY DEF GpuInv
<1>1. /\ completed' = completed
      /\ \/ stream' = stream \union ops /\ UNCHANGED <<jobs, submitted>>
         \/ /\ submitted' = submitted + 1
            /\ jobs' \in {Submitted(stream), Submitted(stream \union ops)}
            /\ stream' = ops
  BY DEF Emit
<1>2. \A op \in stream : fh'.state[op.obj] = "B_PENDING"
  BY <1>0, GpuTypes DEF GpuInv, OnStream
<1>3. OnStream'
  BY <1>1, <1>2 DEF OnStream
<1>4. \A j \in jobs' :
        \/ j \in jobs
        \/ /\ submitted' = submitted + 1
           /\ \E o \in stream \union ops :
                j = [obj |-> o.obj, write |-> o.write, fence |-> submitted + 1]
  BY <1>1 DEF Submitted
<1>5. submitted \in Nat /\ completed \in Nat /\ completed <= submitted
  BY <1>0, GpuTypes
<1>6. OnGpu'
  <2> SUFFICES ASSUME NEW j \in jobs'
               PROVE  /\ j.fence > completed'
                      /\ j.fence <= submitted'
                      /\ \/ fh'.state[j.obj] = "B_PENDING"
                         \/ fh'.state[j.obj] = "B_FENCED" /\ j.fence <= fh'.id[j.obj]
    BY DEF OnGpu
  <2>1. CASE j \in jobs
    <3>1. /\ j.fence > completed /\ j.fence <= submitted
          /\ \/ fh.state[j.obj] = "B_PENDING"
             \/ fh.state[j.obj] = "B_FENCED" /\ j.fence <= fh.id[j.obj]
          /\ j.obj \in Fences /\ j.fence \in Nat
      BY <1>0, <2>1, GpuTypes DEF GpuInv, OnGpu
    <3> QED BY <1>1, <1>5, <3>1
  <2>2. CASE j \notin jobs
    <3>1. /\ submitted' = submitted + 1
          /\ \E o \in stream \union ops :
                j = [obj |-> o.obj, write |-> o.write, fence |-> submitted + 1]
      BY <1>4, <2>2
    <3>2. PICK o \in stream \union ops :
                j = [obj |-> o.obj, write |-> o.write, fence |-> submitted + 1]
      BY <3>1
    <3> QED BY <1>1, <1>2, <1>5, <3>1, <3>2
  <2> QED BY <2>1, <2>2
<1>7. InFlight' \subseteq InFlight \union ops
  <2> SUFFICES ASSUME NEW op \in InFlight', op \notin ops
               PROVE  op \in InFlight
    OBVIOUS
  <2>1. CASE op \in stream'
    BY <1>1, <2>1 DEF InFlight
  <2>2. CASE op \notin stream'
    <3>1. PICK j \in jobs' : op = [obj |-> j.obj, write |-> j.write]
      BY <2>2 DEF InFlight
    <3>2. CASE j \in jobs
      BY <3>1, <3>2 DEF InFlight
    <3>3. CASE j \notin jobs
      <4>1. PICK o \in stream \union ops :
                j = [obj |-> o.obj, write |-> o.write, fence |-> submitted + 1]
        BY <1>4, <3>3
      <4>2. o \in GpuOp
        BY <1>0, GpuTypes DEF GpuTypeOK
      <4>3. o = [obj |-> o.obj, write |-> o.write]
        BY <4>2 DEF GpuOp
      <4> QED BY <3>1, <4>1, <4>3 DEF InFlight
    <3> QED BY <3>2, <3>3
  <2> QED BY <2>1, <2>2
<1>8. last_fence' <= completed'
  BY <1>1 DEF GpuInv
<1> QED BY <1>3, <1>6, <1>7, <1>8

(* New commands for pixmaps that the CPU is not accessing and whose bits   *)
(* were just set.                                                          *)
LEMMA MoreInFlight ==
  ASSUME GpuInv, NEW ops \in SUBSET GpuOp, InFlight' \subseteq InFlight \union ops,
         UNCHANGED <<attached, cpu>>,
         \A p \in Pixmaps : state[p] \intersect GPU_RW \subseteq state'[p],
         \A op \in ops : op.obj \in Pixmaps =>
                           /\ ~ InUse(op.obj)
                           /\ "GPU_R" \in state'[op.obj]
                           /\ op.write => ("GPU_W" \in state'[op.obj])
  PROVE  StateCovers' /\ CpuAttached' /\ CpuGpuExclusion'
<1>0. attached \subseteq Pixmaps
  BY DEF GpuInv, ListInv, TypeOK
<1>1. StateCovers'
  BY <1>0 DEF GpuInv, StateCovers, GPU_RW
<1>2. CpuAttached'
  BY DEF GpuInv, CpuAttached, InUse
<1>3. CpuGpuExclusion'
  <2>1. \A p \in Pixmaps : InUse(p) => \A op \in InFlight' : op.obj = p => op \in InFlight
    OBVIOUS
  <2>2. \A p \in Pixmaps, a \in Access : <<p, a>> \in cpu => InUse(p)
    BY DEF InUse
  <2> QED BY <2>1, <2>2 DEF GpuInv, CpuGpuExclusion, UsedByGpu, WrittenByGpu, Access
<1> QED BY <1>1, <1>2, <1>3

(* etnaviv_map_gpu sets the bits it is asked for and loses no GPU bit.     *)
LEMMA MapBits ==
  ASSUME TypeOK
  PROVE  /\ \A d, p \in Pixmaps : state[p] \intersect GPU_RW \subseteq MapDst(d)[p]
         /\ \A d \in Pixmaps : GPU_RW \subseteq MapDst(d)[d]
         /\ \A d \in Pixmaps, s \in Pixmaps \union {NoPixmap} :
              /\ \A p \in Pixmaps : state[p] \intersect GPU_RW \subseteq MapDstSrc(d, s)[p]
              /\ GPU_RW \subseteq MapDstSrc(d, s)[d]
              /\ s \in Pixmaps => ("GPU_R" \in MapDstSrc(d, s)[s])
<1>1. \A bits \in SUBSET (CPU_RW \union GPU_RW), b \in BOOLEAN :
        /\ bits \intersect GPU_RW \subseteq MapGpuState(bits, b, "RW")
        /\ bits \intersect GPU_RW \subseteq MapGpuState(bits, b, "RO")
        /\ GPU_RW \subseteq MapGpuState(bits, b, "RW")
        /\ "GPU_R" \in MapGpuState(bits, b, "RO")
  BY DEF MapGpuState, CPU_RW, GPU_RW
<1>2. \A p \in Pixmaps : state[p] \in SUBSET (CPU_RW \union GPU_RW)
  BY DEF TypeOK
<1>3. ASSUME NEW d \in Pixmaps
      PROVE  /\ \A p \in Pixmaps : state[p] \intersect GPU_RW \subseteq MapDst(d)[p]
             /\ GPU_RW \subseteq MapDst(d)[d]
  <2>1. MapDst(d) = [state EXCEPT ![d] = MapGpuState(state[d], d \in dmabuf, "RW")]
    BY DEF MapDst
  <2>2. (d \in dmabuf) \in BOOLEAN
    OBVIOUS
  <2>3. /\ state[d] \intersect GPU_RW \subseteq MapGpuState(state[d], d \in dmabuf, "RW")
        /\ GPU_RW \subseteq MapGpuState(state[d], d \in dmabuf, "RW")
    BY <1>1, <1>2, <2>2, Zenon
  <2> HIDE DEF MapGpuState
  <2> QED BY <1>2, <2>1, <2>3 DEF TypeOK
<1>4. ASSUME NEW d \in Pixmaps, NEW s \in Pixmaps \union {NoPixmap}
      PROVE  /\ \A p \in Pixmaps : state[p] \intersect GPU_RW \subseteq MapDstSrc(d, s)[p]
             /\ GPU_RW \subseteq MapDstSrc(d, s)[d]
             /\ s \in Pixmaps => ("GPU_R" \in MapDstSrc(d, s)[s])
  <2> DEFINE m == MapDst(d)
  <2>1. m \in [Pixmaps -> SUBSET (CPU_RW \union GPU_RW)]
    BY MapTypes
  <2>2. CASE s = NoPixmap
    <3>1. s \notin Pixmaps
      BY <2>2, NoPixmapAssumption, PixmapsAreFences
    <3> QED BY <1>3, <2>2, <3>1 DEF MapDstSrc
  <2>3. CASE s # NoPixmap
    <3>1. s \in Pixmaps
      BY <2>3
    <3>2. MapDstSrc(d, s) = [m EXCEPT ![s] = MapGpuState(m[s], s \in dmabuf, "RO")]
      BY <2>3 DEF MapDstSrc
    <3>3. /\ \A p \in Pixmaps : state[p] \intersect GPU_RW \subseteq m[p]
          /\ GPU_RW \subseteq m[d]
      BY <1>3
    <3> HIDE DEF m
    <3>4. m[s] \in SUBSET (CPU_RW \union GPU_RW) /\ (s \in dmabuf) \in BOOLEAN
      BY <2>1, <3>1
    <3>5. /\ m[s] \intersect GPU_RW \subseteq MapGpuState(m[s], s \in dmabuf, "RO")
          /\ "GPU_R" \in MapGpuState(m[s], s \in dmabuf, "RO")
      BY <1>1, <3>4, Zenon
    <3>6. /\ \A p \in Pixmaps : m[p] \intersect GPU_RW \subseteq MapDstSrc(d, s)[p]
          /\ "GPU_R" \in MapDstSrc(d, s)[s]
      BY <2>1, <3>1, <3>2, <3>5
    <3> QED BY <3>1, <3>3, <3>6
  <2> QED BY <2>2, <2>3
<1> QED BY <1>3, <1>4

(* A step that touches neither the lists nor the GPU.                      *)
LEMMA GpuUnchanged ==
  ASSUME GpuInv, UNCHANGED <<fh, last_fence, gpuvars>>
  PROVE  OnStream' /\ OnGpu' /\ last_fence' <= completed' /\ InFlight' = InFlight
BY DEF GpuInv, OnStream, OnGpu, InFlight, gpuvars

LEMMA InitGpuInv == Init => GpuInv
<1> SUFFICES ASSUME Init PROVE GpuInv
  OBVIOUS
<1>1. InFlight = {} /\ OnStream /\ OnGpu /\ last_fence <= completed
  BY DEF Init, InFlight, OnStream, OnGpu
<1>2. StateCovers /\ CpuAttached /\ CpuGpuExclusion
  BY <1>1 DEF Init, StateCovers, CpuAttached, CpuGpuExclusion, InUse
<1> QED BY <1>1, <1>2, InitListInv DEF GpuInv

LEMMA NextGpuInv == NoFaults /\ GpuInv /\ [Next]_vars => GpuInv'
<1> SUFFICES ASSUME NoFaults, GpuInv, [Next]_vars PROVE GpuInv'
  OBVIOUS
<1>0. ListInv /\ ListInv' /\ TypeOK
  BY NextListInv DEF GpuInv, ListInv
<1> SUFFICES /\ OnStream' /\ OnGpu' /\ last_fence' <= completed'
             /\ StateCovers' /\ CpuAttached' /\ CpuGpuExclusion'
  BY <1>0 DEF GpuInv
<1> DEFINE Goal == /\ OnStream' /\ OnGpu' /\ last_fence' <= completed'
                   /\ StateCovers' /\ CpuAttached' /\ CpuGpuExclusion'
<1>a. /\ attached \subseteq Pixmaps
      /\ cpu \subseteq Pixmaps \X Access
      /\ \A p \in Pixmaps : InUse(p) => p \in attached
  BY <1>0 DEF TypeOK, GpuInv, CpuAttached
<1>b. \A p \in Pixmaps : Free(p) => p \notin attached /\ fh.state[p] = "B_NONE"
  BY <1>0 DEF Free, ListInv, RefcntExact
<1>1. CASE UNCHANGED vars
  BY <1>1 DEF GpuInv, vars, pixvars, gpuvars, OnStream, OnGpu, StateCovers, CpuAttached,
              CpuGpuExclusion, InFlight, InUse, UsedByGpu, WrittenByGpu
<1>2. CASE GpuStep
  <2>1. /\ stream' = stream /\ submitted' = submitted /\ completed' = completed + 1
        /\ \A j \in jobs' : j \in jobs /\ j.fence > completed'
        /\ UNCHANGED <<fh, last_fence, pixvars, cpu>>
    BY <1>2 DEF GpuStep, StillRunning
  <2>2. InFlight' \subseteq InFlight
    BY <2>1 DEF InFlight
  <2>3. OnStream' /\ OnGpu'
    BY <2>1 DEF GpuInv, OnStream, OnGpu
  <2>4. last_fence' <= completed'
    BY <1>0, <2>1, GpuTypes DEF GpuInv
  <2>5. StateCovers' /\ CpuAttached' /\ CpuGpuExclusion'
    BY <1>a, <2>1, <2>2, FewerInFlight DEF pixvars
  <2> QED BY <2>3, <2>4, <2>5
<1>3. ASSUME NEW p \in Pixmaps, CreatePixmap(p)
      PROVE  Goal
  <2>1. /\ UNCHANGED <<fh, last_fence, state, cpu, gpuvars>>
        /\ attached' = attached \union {p}
        /\ fh.state[p] = "B_NONE"
    BY <1>3, <1>b DEF CreatePixmap
  <2>2. OnStream' /\ OnGpu' /\ last_fence' <= completed' /\ InFlight' = InFlight
    BY <2>1, GpuUnchanged
  <2>3. StateCovers' /\ CpuAttached' /\ CpuGpuExclusion'
    BY <1>a, <2>1, <2>2, FewerInFlight
  <2> QED BY <2>2, <2>3
<1>4. ASSUME NEW p \in Pixmaps, DestroyPixmap(p)
      PROVE  Goal
  <2>1. /\ UNCHANGED <<fh, last_fence, cpu, gpuvars>>
        /\ attached' = attached \ {p}
        /\ state' = [state EXCEPT ![p] = {}]
        /\ ~ InUse(p)
    BY <1>4 DEF DestroyPixmap, Detach
  <2>2. OnStream' /\ OnGpu' /\ last_fence' <= completed' /\ InFlight' = InFlight
    BY <2>1, GpuUnchanged
  <2>3. \A q \in attached' : q \in attached => state[q] \intersect GPU_RW \subseteq state'[q]
    BY <1>0, <1>a, <2>1 DEF TypeOK
  <2>4. StateCovers' /\ CpuAttached' /\ CpuGpuExclusion'
    BY <1>a, <2>1, <2>2, <2>3, FewerInFlight
  <2> QED BY <2>2, <2>4
<1>5. ASSUME NEW p \in Pixmaps \union {NoPixmap}, NEW q \in Pixmaps, ImportDmabuf(p, q)
      PROVE  Goal
  <2>1. /\ UNCHANGED <<fh, last_fence, cpu, gpuvars>>
        /\ attached' = (attached \ {p}) \union {q}
        /\ state' = [r \in Pixmaps |-> IF r = p THEN {} ELSE state[r]]
        /\ p # NoPixmap => ~ InUse(p)
        /\ q \notin attached /\ fh.state[q] = "B_NONE"
    BY <1>5, <1>b DEF ImportDmabuf
  <2>2. OnStream' /\ OnGpu' /\ last_fence' <= completed' /\ InFlight' = InFlight
    BY <2>1, GpuUnchanged
  <2>3. \A r \in attached' : r \in attached => state[r] \intersect GPU_RW \subseteq state'[r]
    BY <1>0, <1>a, <2>1 DEF TypeOK
  <2>4. \A r \in Pixmaps : InUse(r) => r \in attached'
    BY <1>a, <2>1, NoPixmapAssumption, PixmapsAreFences
  <2>5. StateCovers' /\ CpuAttached' /\ CpuGpuExclusion'
    BY <1>a, <2>1, <2>2, <2>3, <2>4, FewerInFlight
  <2> QED BY <2>2, <2>5
<1>6. ASSUME NEW dst \in Pixmaps, NEW src \in Pixmaps \union {NoPixmap}, Draw(dst, src)
      PROVE  Goal
  <2> DEFINE g == IF src = NoPixmap THEN fh ELSE FenceAdd(fh, src)
  <2>0. dst \in Fences /\ (src # NoPixmap => src \in Fences)
    BY PixmapsAreFences
  <2>1. /\ g \in FenceHead
        /\ FenceHeadOK(g)
        /\ g.id = fh.id
        /\ g.state \in [Fences -> FenceState]
        /\ \A f \in Fences : g.state[f] = IF f = src THEN "B_PENDING" ELSE fh.state[f]
    <3>1. CASE src = NoPixmap
      BY <1>0, <3>1, GpuTypes, NoPixmapAssumption DEF FenceHead
    <3>2. CASE src # NoPixmap
      <4>1. /\ FenceAdd(fh, src) \in FenceHead
            /\ FenceHeadOK(FenceAdd(fh, src))
            /\ FenceAdd(fh, src).state = [fh.state EXCEPT ![src] = "B_PENDING"]
            /\ FenceAdd(fh, src).id = fh.id
        BY <1>0, <2>0, <3>2, GpuTypes, FenceAddProperties
      <4>2. fh.state \in [Fences -> FenceState]
        BY <1>0, GpuTypes DEF FenceHead
      <4> QED BY <2>0, <3>2, <4>1, <4>2 DEF FenceHead
    <3> QED BY <3>1, <3>2
  <2>2. fh' = FenceAdd(g, dst)
    BY <1>6 DEF Draw
  <2> HIDE DEF g
  <2>3. fh'.id = fh.id /\ fh'.state = [g.state EXCEPT ![dst] = "B_PENDING"]
    BY <2>0, <2>1, <2>2, FenceAddProperties
  <2>4. \A f \in Fences :
          fh'.state[f] = IF f \in {dst, src} THEN "B_PENDING" ELSE fh.state[f]
    BY <2>1, <2>3
  <2>5. /\ DrawOps(dst, src) \in SUBSET GpuOp
        /\ \A op \in DrawOps(dst, src) :
             \/ op.obj = dst
             \/ src # NoPixmap /\ op.obj = src /\ op.write = FALSE
    <3>1. [obj |-> dst, write |-> TRUE] \in GpuOp
      BY <2>0 DEF GpuOp
    <3>2. src # NoPixmap => [obj |-> src, write |-> FALSE] \in GpuOp
      BY <2>0 DEF GpuOp
    <3>3. CASE src = NoPixmap
      <4>1. DrawOps(dst, src) = {[obj |-> dst, write |-> TRUE]}
        BY <3>3 DEF DrawOps
      <4> QED BY <3>1, <4>1
    <3>4. CASE src # NoPixmap
      <4>1. DrawOps(dst, src) = {[obj |-> dst, write |-> TRUE], [obj |-> src, write |-> FALSE]}
        BY <3>4 DEF DrawOps
      <4> QED BY <3>1, <3>2, <3>4, <4>1
    <3> QED BY <3>3, <3>4
  <2>6. /\ Emit(DrawOps(dst, src))
        /\ state' = MapDstSrc(dst, src)
        /\ UNCHANGED <<last_fence, attached, cpu>>
        /\ ~ InUse(dst) /\ (src # NoPixmap => ~ InUse(src))
    BY <1>6 DEF Draw
  <2>7. /\ OnStream' /\ OnGpu' /\ last_fence' <= completed'
        /\ InFlight' \subseteq InFlight \union DrawOps(dst, src)
    <3>1. \A op \in DrawOps(dst, src) : fh'.state[op.obj] = "B_PENDING"
      BY <2>0, <2>4, <2>5
    <3>2. \A f \in Fences : fh'.state[f] = "B_PENDING" \/ fh'.state[f] = fh.state[f]
      BY <2>4
    <3> QED BY <2>3, <2>5, <2>6, <3>1, <3>2, EmitPending
  <2>8. StateCovers' /\ CpuAttached' /\ CpuGpuExclusion'
    <3>1. /\ \A p \in Pixmaps : state[p] \intersect GPU_RW \subseteq state'[p]
          /\ GPU_RW \subseteq state'[dst]
          /\ src \in Pixmaps => ("GPU_R" \in state'[src])
      BY <1>0, <2>6, MapBits
    <3>2. \A op \in DrawOps(dst, src) : op.obj \in Pixmaps =>
                           /\ ~ InUse(op.obj)
                           /\ "GPU_R" \in state'[op.obj]
                           /\ op.write => ("GPU_W" \in state'[op.obj])
      BY <2>5, <2>6, <3>1 DEF GPU_RW
    <3> QED BY <2>5, <2>6, <2>7, <3>1, <3>2, MoreInFlight
  <2> QED BY <2>7, <2>8
<1>6a. ASSUME NEW dst \in Pixmaps, Fill(dst)
       PROVE  Goal
  BY <1>6, <1>6a DEF Fill
<1>6b. ASSUME NEW dst \in Pixmaps, NEW src \in Pixmaps, Copy(dst, src)
       PROVE  Goal
  BY <1>6, <1>6b DEF Copy
<1>7. ASSUME NEW dst \in Pixmaps, NEW src \in Pixmaps, DrawRefused(dst, src)
      PROVE  Goal
  <2>1. UNCHANGED <<fh, last_fence, gpuvars, attached, cpu>> /\ state' = MapDst(dst)
    BY <1>7 DEF DrawRefused
  <2>2. OnStream' /\ OnGpu' /\ last_fence' <= completed' /\ InFlight' = InFlight
    BY <2>1, GpuUnchanged
  <2>3. StateCovers' /\ CpuAttached' /\ CpuGpuExclusion'
    BY <1>0, <1>a, <2>1, <2>2, MapBits, FewerInFlight
  <2> QED BY <2>2, <2>3
<1>8. ASSUME NEW dst \in Pixmaps, NEW node \in Nodes, GlyphUpload(dst, node)
      PROVE  Goal
  <2>0. node \in Fences /\ node \notin Pixmaps /\ dst \in Fences
    BY PixmapsAreFences, DisjointAssumption
  <2> DEFINE g == FenceAdd(fh, node)
             ops == {[obj |-> dst, write |-> TRUE], [obj |-> node, write |-> FALSE]}
  <2>1. /\ g \in FenceHead
        /\ FenceHeadOK(g)
        /\ g.id = fh.id
        /\ g.state \in [Fences -> FenceState]
        /\ \A f \in Fences : g.state[f] = IF f = node THEN "B_PENDING" ELSE fh.state[f]
    <3>1. /\ g \in FenceHead
          /\ FenceHeadOK(g)
          /\ g.id = fh.id
          /\ g.state = [fh.state EXCEPT ![node] = "B_PENDING"]
      BY <1>0, <2>0, GpuTypes, FenceAddProperties
    <3>2. fh.state \in [Fences -> FenceState]
      BY <1>0, GpuTypes DEF FenceHead
    <3> HIDE DEF g
    <3> QED BY <2>0, <3>1, <3>2 DEF FenceHead
  <2> HIDE DEF g
  <2>2. /\ UNCHANGED <<last_fence, attached, cpu>>
        /\ \/ /\ ~ InUse(dst)
              /\ state' = MapDst(dst)
              /\ fh' = FenceAdd(g, dst)
              /\ Emit(ops)
           \/ /\ fh' = g
              /\ UNCHANGED <<state, gpuvars>>
    BY <1>8 DEF GlyphUpload, g
  <2>3. CASE /\ ~ InUse(dst)
             /\ state' = MapDst(dst)
             /\ fh' = FenceAdd(g, dst)
             /\ Emit(ops)
    <3>1. fh'.id = fh.id /\ fh'.state = [g.state EXCEPT ![dst] = "B_PENDING"]
      BY <2>0, <2>1, <2>3, FenceAddProperties
    <3>2. \A f \in Fences :
            fh'.state[f] = IF f \in {dst, node} THEN "B_PENDING" ELSE fh.state[f]
      BY <2>1, <3>1
    <3>3. /\ ops \in SUBSET GpuOp
          /\ \A op \in ops : op.obj = dst \/ op.obj = node
      BY <2>0 DEF GpuOp
    <3> HIDE DEF ops
    <3>4. /\ OnStream' /\ OnGpu' /\ last_fence' <= completed'
          /\ InFlight' \subseteq InFlight \union ops
      <4>1. \A op \in ops : fh'.state[op.obj] = "B_PENDING"
        BY <2>0, <3>2, <3>3
      <4>2. \A f \in Fences : fh'.state[f] = "B_PENDING" \/ fh'.state[f] = fh.state[f]
        BY <3>2
      <4> QED BY <2>2, <2>3, <3>1, <3>3, <4>1, <4>2, EmitPending
    <3>5. StateCovers' /\ CpuAttached' /\ CpuGpuExclusion'
      <4>1. /\ \A p \in Pixmaps : state[p] \intersect GPU_RW \subseteq state'[p]
            /\ GPU_RW \subseteq state'[dst]
        BY <1>0, <2>3, MapBits
      <4>2. \A op \in ops : op.obj \in Pixmaps =>
                           /\ ~ InUse(op.obj)
                           /\ "GPU_R" \in state'[op.obj]
                           /\ op.write => ("GPU_W" \in state'[op.obj])
        BY <2>0, <2>3, <3>3, <4>1 DEF GPU_RW
      <4> QED BY <2>2, <3>3, <3>4, <4>1, <4>2, MoreInFlight
    <3> QED BY <3>4, <3>5
  <2>4. CASE fh' = g /\ UNCHANGED <<state, gpuvars>>
    <3>1. stream' = stream /\ jobs' = jobs /\ completed' = completed /\ submitted' = submitted
      BY <2>4 DEF gpuvars
    <3>2. OnStream'
      BY <1>0, <2>1, <2>4, <3>1, GpuTypes DEF GpuInv, OnStream
    <3>3. OnGpu'
      BY <1>0, <2>1, <2>4, <3>1, GpuTypes DEF GpuInv, OnGpu
    <3>4. last_fence' <= completed' /\ InFlight' = InFlight
      BY <2>2, <3>1 DEF GpuInv, InFlight
    <3>5. StateCovers' /\ CpuAttached' /\ CpuGpuExclusion'
      BY <1>a, <2>2, <2>4, <3>4, FewerInFlight
    <3> QED BY <3>2, <3>3, <3>4, <3>5
  <2> QED BY <2>2, <2>3, <2>4
<1>9. ASSUME NEW p \in Pixmaps, XvPutImage(p)
      PROVE  Goal
  <2>1. /\ stream' = {} /\ jobs' = {}
        /\ completed' = submitted + 1 /\ submitted' = submitted + 1
        /\ state' = MapDst(p)
        /\ UNCHANGED <<fh, last_fence, attached, cpu>>
    BY <1>9 DEF XvPutImage, NoFaults
  <2>2. InFlight' \subseteq InFlight /\ OnStream' /\ OnGpu'
    BY <2>1 DEF InFlight, OnStream, OnGpu
  <2>3. last_fence' <= completed'
    BY <1>0, <2>1, GpuTypes DEF GpuInv
  <2>4. StateCovers' /\ CpuAttached' /\ CpuGpuExclusion'
    BY <1>0, <1>a, <2>1, <2>2, MapBits, FewerInFlight
  <2> QED BY <2>2, <2>3, <2>4
<1>10. ASSUME NEW p \in Pixmaps, NEW a \in Access, PrepareCpu(p, a)
       PROVE  Goal
  <2>0. /\ p \in attached /\ attached' = attached /\ cpu' = cpu \union {<<p, a>>}
        /\ state' \in [Pixmaps -> SUBSET (CPU_RW \union GPU_RW)]
        /\ \A q \in Pixmaps : q # p => state'[q] = state[q]
    BY <1>0, <1>10 DEF PrepareCpu, TypeOK, ListInv
  <2>1. CpuAttached'
    BY <1>a, <2>0 DEF CpuAttached, InUse
  <2>2. CASE MustWait(p, a)
    <3>1. /\ OnStream' /\ OnGpu' /\ last_fence' <= completed'
          /\ InFlight' \subseteq InFlight
          /\ ~ UsedByGpu(p)'
      <4>1. BatchWaitCommit(p)
        BY <1>10, <2>2 DEF PrepareCpu
      <4> QED BY <4>1, BatchWaitCommitWaits
    <3>2. \A op \in InFlight' : op \in InFlight /\ op.obj # p
      BY <3>1 DEF UsedByGpu
    <3>3. StateCovers'
      BY <1>a, <2>0, <3>2 DEF GpuInv, StateCovers
    <3>4. CpuGpuExclusion'
      <4> SUFFICES ASSUME NEW q \in Pixmaps
                   PROVE  /\ <<q, "RW">> \in cpu' => ~ UsedByGpu(q)'
                          /\ <<q, "RO">> \in cpu' => ~ WrittenByGpu(q)'
        BY DEF CpuGpuExclusion
      <4>1. CASE q = p
        BY <3>2, <4>1 DEF UsedByGpu, WrittenByGpu
      <4>2. CASE q # p
        <5>1. /\ <<q, "RW">> \in cpu' => <<q, "RW">> \in cpu
              /\ <<q, "RO">> \in cpu' => <<q, "RO">> \in cpu
          BY <2>0, <4>2
        <5> QED BY <3>1, <5>1 DEF GpuInv, CpuGpuExclusion, UsedByGpu, WrittenByGpu
      <4> QED BY <4>1, <4>2
    <3> QED BY <2>1, <3>1, <3>3, <3>4
  <2>3. CASE ~ MustWait(p, a)
    <3>1. /\ UNCHANGED <<fh, last_fence, gpuvars>>
          /\ state' = [state EXCEPT ![p] = @ \union CpuBits(a)]
      BY <1>10, <2>3 DEF PrepareCpu
    <3>2. OnStream' /\ OnGpu' /\ last_fence' <= completed' /\ InFlight' = InFlight
      BY <3>1, GpuUnchanged
    <3>3. StateCovers'
      BY <1>0, <1>a, <2>0, <3>1, <3>2 DEF GpuInv, StateCovers, TypeOK
    <3>4. /\ a = "RW" => ~ UsedByGpu(p)
          /\ ~ WrittenByGpu(p)
      BY <2>0, <2>3 DEF MustWait, GpuInv, StateCovers, UsedByGpu, WrittenByGpu, Access, GPU_RW
    <3>5. CpuGpuExclusion'
      <4> SUFFICES ASSUME NEW q \in Pixmaps
                   PROVE  /\ <<q, "RW">> \in cpu' => ~ UsedByGpu(q)'
                          /\ <<q, "RO">> \in cpu' => ~ WrittenByGpu(q)'
        BY DEF CpuGpuExclusion
      <4>1. /\ <<q, "RW">> \in cpu' => <<q, "RW">> \in cpu \/ (q = p /\ a = "RW")
            /\ <<q, "RO">> \in cpu' => <<q, "RO">> \in cpu \/ q = p
        BY <2>0
      <4>2. UsedByGpu(q)' = UsedByGpu(q) /\ WrittenByGpu(q)' = WrittenByGpu(q)
        BY <3>2 DEF UsedByGpu, WrittenByGpu
      <4> QED BY <3>4, <4>1, <4>2 DEF GpuInv, CpuGpuExclusion
    <3> QED BY <2>1, <3>2, <3>3, <3>5
  <2> QED BY <2>2, <2>3
<1>11. ASSUME NEW p \in Pixmaps, NEW a \in Access, FinishCpu(p, a)
       PROVE  Goal
  <2>1. UNCHANGED <<fh, last_fence, gpuvars, attached, state>> /\ cpu' = cpu \ {<<p, a>>}
    BY <1>11 DEF FinishCpu, pixvars
  <2>2. OnStream' /\ OnGpu' /\ last_fence' <= completed' /\ InFlight' = InFlight
    BY <2>1, GpuUnchanged
  <2>3. StateCovers' /\ CpuAttached' /\ CpuGpuExclusion'
    BY <1>a, <2>1, <2>2, FewerInFlight
  <2> QED BY <2>2, <2>3
<1>12. CASE FlushCallback
  <2>1. /\ FlushStream
        /\ fh' = FenceObjects(fh, submitted + 1)
        /\ UNCHANGED <<last_fence, attached, state, cpu>>
    BY <1>12 DEF FlushCallback, CommitNoStall, FlushFails, NoFaults
  <2>2. /\ stream' = {}
        /\ \A j \in jobs' : /\ j.fence > completed' /\ j.fence <= submitted'
                            /\ fh'.state[j.obj] = "B_FENCED" /\ j.fence <= fh'.id[j.obj]
        /\ completed' = completed
        /\ InFlight' \subseteq InFlight
    BY <2>1, SubmitFences
  <2>3. OnStream' /\ OnGpu' /\ last_fence' <= completed'
    BY <2>1, <2>2 DEF GpuInv, OnStream, OnGpu
  <2>4. StateCovers' /\ CpuAttached' /\ CpuGpuExclusion'
    BY <1>a, <2>1, <2>2, FewerInFlight
  <2> QED BY <2>3, <2>4
<1>13. CASE BlockHandler
  <2> DEFINE h == BlockHandlerList
  <2>0. UNCHANGED <<attached, state, cpu>> /\ last_fence <= completed
    BY <1>13 DEF BlockHandler, GpuInv
  <2>1. /\ h \in FenceHead /\ FenceHeadOK(h)
        /\ completed' = completed
        /\ \A op \in stream' : h.state[op.obj] = "B_PENDING" /\ op.obj \in Fences
        /\ \A j \in jobs' : /\ j.fence > completed' /\ j.fence <= submitted'
                            /\ j.obj \in Fences /\ j.fence \in Nat
                            /\ \/ h.state[j.obj] = "B_PENDING"
                               \/ h.state[j.obj] = "B_FENCED" /\ j.fence <= h.id[j.obj]
        /\ InFlight' \subseteq InFlight
    <3>1. CASE FlushStream
      <4>1. submitted' = submitted + 1 /\ submitted \in Nat
        BY <1>0, <3>1, GpuTypes DEF FlushStream
      <4>2. h = FenceObjects(fh, submitted + 1)
        BY <4>1 DEF BlockHandlerList
      <4> HIDE DEF h
      <4> QED BY <3>1, <4>2, SubmitFences
    <3>2. CASE UNCHANGED gpuvars
      <4>1. h = fh
        BY <3>2 DEF BlockHandlerList, gpuvars
      <4> HIDE DEF h
      <4>2. stream' = stream /\ jobs' = jobs /\ completed' = completed /\ submitted' = submitted
        BY <3>2 DEF gpuvars
      <4>3. InFlight' = InFlight
        BY <4>2 DEF InFlight
      <4> QED BY <1>0, <4>1, <4>2, <4>3, GpuTypes DEF GpuInv, OnStream, OnGpu
    <3> QED BY <1>13, <3>1, <3>2 DEF BlockHandler, BlockHandlerCommitted, FlushFails, NoFaults
  <2> HIDE DEF h
  <2>2. CASE FinishFences(h, last_fence, completed)
    <3>1. /\ fh'.id = h.id
          /\ last_fence' <= completed
          /\ \A f \in Fences :
               fh'.state[f] = IF h.state[f] = "B_FENCED" /\ h.id[f] <= completed
                              THEN "B_NONE" ELSE h.state[f]
      BY <1>0, <2>0, <2>1, <2>2, GpuTypes, FinishFencesExact
    <3>2. OnStream'
      BY <2>1, <3>1 DEF OnStream
    <3>3. OnGpu'
      <4> SUFFICES ASSUME NEW j \in jobs'
                   PROVE  /\ j.fence > completed' /\ j.fence <= submitted'
                          /\ \/ fh'.state[j.obj] = "B_PENDING"
                             \/ fh'.state[j.obj] = "B_FENCED" /\ j.fence <= fh'.id[j.obj]
        BY DEF OnGpu
      <4>1. h.id[j.obj] \in Nat /\ completed \in Nat
        BY <1>0, <2>1, GpuTypes, FenceFacts
      <4>2. /\ j.fence > completed /\ j.fence <= submitted'
            /\ j.obj \in Fences /\ j.fence \in Nat
            /\ \/ h.state[j.obj] = "B_PENDING"
               \/ h.state[j.obj] = "B_FENCED" /\ j.fence <= h.id[j.obj]
        BY <2>1
      <4> QED BY <2>1, <3>1, <4>1, <4>2
    <3>4. StateCovers' /\ CpuAttached' /\ CpuGpuExclusion'
      BY <1>a, <2>0, <2>1, FewerInFlight
    <3> QED BY <2>1, <3>1, <3>2, <3>3, <3>4
  <2>3. CASE fh' = h /\ UNCHANGED <<last_fence, refcnt>>
    <3>1. OnStream' /\ OnGpu' /\ last_fence' <= completed'
      BY <2>0, <2>1, <2>3 DEF OnStream, OnGpu
    <3>2. StateCovers' /\ CpuAttached' /\ CpuGpuExclusion'
      BY <1>a, <2>0, <2>1, FewerInFlight
    <3> QED BY <3>1, <3>2
  <2> QED BY <1>13, <2>2, <2>3 DEF BlockHandler, h
<1>14. ASSUME NEW p \in Pixmaps, CloseScreen(p)
       PROVE  Goal
  <2>1. /\ stream' = {} /\ jobs' = {}
        /\ completed' = submitted + 1 /\ submitted' = submitted + 1
        /\ last_fence' = submitted'
        /\ cpu = {} /\ cpu' = {}
        /\ attached' = attached \ {p}
    BY <1>14 DEF CloseScreen, FlushAndWait, FlushFails, NoFaults, Detach
  <2>2. InFlight' = {} /\ OnStream' /\ OnGpu' /\ last_fence' <= completed'
    <3>1. submitted \in Nat
      BY <1>0, GpuTypes
    <3> QED BY <2>1, <3>1 DEF InFlight, OnStream, OnGpu
  <2>3. StateCovers' /\ CpuAttached' /\ CpuGpuExclusion'
    BY <2>1, <2>2 DEF StateCovers, CpuAttached, CpuGpuExclusion, InUse
  <2> QED BY <2>2, <2>3
<1> QED
  BY <1>1, <1>2, <1>3, <1>4, <1>5, <1>6a, <1>6b, <1>7, <1>8, <1>9, <1>10, <1>11, <1>12, <1>13,
     <1>14
  DEF Next

LEMMA GpuInvAlways ==
  ASSUME NoFaults
  PROVE  Spec => []GpuInv
<1>1. GpuInv /\ [Next]_vars => GpuInv'
  BY NextGpuInv
<1> QED BY <1>1, InitGpuInv, PTL DEF Spec

(* While no kernel call fails, the CPU never writes to a pixmap the GPU    *)
(* still uses and never reads one the GPU still writes                     *)
(* (prepare_cpu_drawable, etnaviv_batch_wait_commit).                      *)
THEOREM ExclusionCorrect ==
  ASSUME NoFaults
  PROVE  Spec => []CpuGpuExclusion
<1>1. GpuInv => CpuGpuExclusion
  BY DEF GpuInv
<1>2. Spec => []GpuInv
  BY GpuInvAlways
<1> QED BY <1>1, <1>2, PTL

(* While no kernel call fails, neither a destroyed pixmap's memory nor the *)
(* memory lent to the GPU by a glyph upload is given back while commands   *)
(* refer to it (etnaviv_free_pixmap, etnaviv_retire_freemem_fence).        *)
THEOREM UseAfterFreeCorrect ==
  ASSUME NoFaults
  PROVE  Spec => []NoUseAfterFree
<1>1. GpuInv => NoUseAfterFree
  <2> SUFFICES ASSUME GpuInv PROVE NoUseAfterFree
    OBVIOUS
  <2>1. \A f \in Fences : UsedByGpu(f) => fh.state[f] # "B_NONE"
    BY IdleWhenUnlisted
  <2>2. \A p \in Pixmaps : fh.state[p] # "B_NONE" => refcnt[p] > 0
    BY DEF GpuInv, ListInv, RefcntExact
  <2> QED BY <2>1, <2>2, PixmapsAreFences DEF NoUseAfterFree
<1>2. Spec => []GpuInv
  BY GpuInvAlways
<1> QED BY <1>1, <1>2, PTL

(* While no kernel call fails, an object leaves the fence lists only when  *)
(* the GPU has finished with it (etnaviv_fence_retire).                    *)
THEOREM RetireCorrect ==
  ASSUME NoFaults
  PROVE  Spec => RetireWhenIdle
<1> DEFINE Unlisted == \A f \in Fences : fh.state[f] = "B_NONE" => ~ UsedByGpu(f)
           Idle == \A f \in Fences : fh.state[f] # "B_NONE" /\ fh'.state[f] = "B_NONE"
                                       => ~ UsedByGpu(f)'
<1>1. GpuInv => Unlisted
  BY IdleWhenUnlisted
<1>2. Unlisted' => Idle
  OBVIOUS
<1>3. Spec => []GpuInv
  BY GpuInvAlways
<1>4. Spec => [][Idle]_vars
  <2> HIDE DEF Unlisted, Idle
  <2> QED BY <1>1, <1>2, <1>3, PTL
<1> QED BY <1>4 DEF RetireWhenIdle

=============================================================================
