---------------------------- MODULE XvPortProofs ----------------------------
(***************************************************************************)
(* For every number of bos, buckets, sizes, handles and images: the cache  *)
(* of bos is consistent, no GEM handle is leaked and, dmabufs imported     *)
(* twice apart, none is closed under its bo, a bo that others know is not  *)
(* reused, and the XVideo port blits inside of bos that are there.  BoInv  *)
(* is kept by every operation of EtnaBo; XvInv adds what the port knows of *)
(* its two bos between the steps of a request.                             *)
(***************************************************************************)
EXTENDS XvPort, FunctionTheorems, FiniteSetTheorems, SequenceTheorems, WellFoundedInduction, TLAPS

(* Times of the free list grow.                                            *)
Sorted(list, times) ==
  \A i, j \in DOMAIN list : i <= j => times[list[i]] <= times[list[j]]

(* What is true of the bos between any two operations.  The free list is   *)
(* sorted by age, so that cleaning may stop at the first young bo, and a   *)
(* bo that has been named keeps out of the buckets for as long as it is    *)
(* referenced.                                                             *)
BoInv ==
  /\ TypeOK
  /\ CacheOK /\ HandlesExact
  /\ \A o \in Bos : bucket[o] # NoBucket => size[o] >= bucket[o]
  /\ \A o \in Cached : bucket[o] # NoBucket /\ free_time[o] <= time
  /\ Sorted(free_list, free_time)
  /\ \A o \in shared : ref[o] > 0 /\ bucket[o] = NoBucket
  /\ up => last_cleaned <= time
  /\ ~up => free_list = << >> /\ \A o \in Bos : ref[o] = 0

PortTypeOK ==
  /\ image \in Images \union {NoImage}
  /\ stage1_bo \in Bos \union {NoBo} /\ usr \in Bos \union {NoBo}
  /\ stage1_size \in Nat
  /\ s_h \in Heights \union {0} /\ drw_h \in Heights \union {0}
  /\ at \in {"idle", "import", "stage1", "realloc", "blit", "bad_alloc"}
  /\ others \subseteq Bos

(* A request that has its image, and the port between two of its steps.    *)
Imported == at \in {"stage1", "realloc", "blit", "bad_alloc"}

PortInv ==
  /\ at # "idle" => image \in Images /\ drw_h \in Heights
  /\ usr # NoBo <=> Imported
  /\ Imported => ref[usr] = 1 /\ usr # stage1_bo /\ usr \notin others
  /\ Imported /\ at # "bad_alloc" => size[usr] >= ImageSize(image)
  /\ at \in {"stage1", "realloc"} => Scaled
  /\ at = "realloc" => stage1_bo = NoBo
  /\ stage1_bo # NoBo => ref[stage1_bo] = 1 /\ size[stage1_bo] >= stage1_size
  /\ stage1_bo = NoBo /\ at # "realloc" => stage1_size = 0
  /\ at = "blit" /\ Scaled => stage1_bo # NoBo /\ stage1_size >= Stage1Needed
  /\ {o \in Bos : ref[o] > 0} = others \union ({stage1_bo, usr} \ {NoBo})
  /\ stage1_bo \notin others

XvInv == BoInv /\ PortTypeOK /\ PortInv
-----------------------------------------------------------------------------
(* A non-empty set of natural numbers has a smallest element.              *)
LEMMA SmallestOf ==
  ASSUME NEW T \in SUBSET Nat, T # {}
  PROVE  \E x \in T : \A y \in T : x <= y
<1>1. PICK x \in T : \A y \in T : <<y, x>> \notin OpToRel(<, Nat)
  BY NatLessThanWellFounded, WFMin
<1>2. \A y \in T : ~ (y < x)
  BY <1>1 DEF OpToRel
<1> QED BY <1>2

(* What xorg_list_del leaves of a list.                                    *)
KeptOf(list, gone, m, f) ==
  f = [i \in 0 .. m |->
         IF i = 0 THEN << >>
         ELSE IF list[i] \in gone THEN f[i - 1]
         ELSE Append(f[i - 1], list[i])]

LEMMA KeptExists ==
  ASSUME NEW S, NEW list \in Seq(S), NEW gone, NEW n \in Nat
  PROVE  \E f : KeptOf(list, gone, n, f)
<1> DEFINE T == {m \in Nat : ~ \E f : KeptOf(list, gone, m, f)}
<1>1. SUFFICES ASSUME T # {} PROVE FALSE
  OBVIOUS
<1>2. PICK m \in T : \A y \in T : m <= y
  BY <1>1, SmallestOf
<1>3. CASE m = 0
  <2> DEFINE f == [i \in 0 .. 0 |-> << >>]
  <2>1. KeptOf(list, gone, 0, f)
    BY DEF KeptOf
  <2> QED
    BY <1>3, <2>1
<1>4. CASE m # 0
  <2>1. m - 1 \in Nat /\ m - 1 \notin T
    BY <1>2, <1>4
  <2>2. PICK g : KeptOf(list, gone, m - 1, g)
    BY <2>1
  <2> DEFINE f == [i \in 0 .. m |->
                     IF i # m THEN g[i]
                     ELSE IF list[m] \in gone THEN g[m - 1] ELSE Append(g[m - 1], list[m])]
  <2>3. \A i \in 0 .. m - 1 :
          g[i] = IF i = 0 THEN << >> ELSE IF list[i] \in gone THEN g[i - 1] ELSE Append(g[i - 1], list[i])
    BY <2>2 DEF KeptOf
  <2>4. \A i \in 0 .. m :
          f[i] = IF i = 0 THEN << >> ELSE IF list[i] \in gone THEN f[i - 1] ELSE Append(f[i - 1], list[i])
    BY <1>4, <2>3
  <2>5. KeptOf(list, gone, m, f)
    BY <2>4 DEF KeptOf
  <2> QED
    BY <2>5
<1> QED
  BY <1>3, <1>4

LEMMA ListDelKept ==
  ASSUME NEW S, NEW list \in Seq(S), NEW gone
  PROVE  \E f : KeptOf(list, gone, Len(list), f) /\ ListDel(list, gone) = f[Len(list)]
<1>1. \E f : KeptOf(list, gone, Len(list), f)
  <2>1. Len(list) \in Nat
    OBVIOUS
  <2> QED
    BY <2>1, KeptExists
<1>2. PICK f : f = CHOOSE h : KeptOf(list, gone, Len(list), h)
  OBVIOUS
<1> QED
  BY <1>1 DEF ListDel, KeptOf

LEMMA ListDelProperties ==
  ASSUME NEW S, NEW list \in Seq(S), NEW gone
  PROVE  /\ ListDel(list, gone) \in Seq(S)
         /\ Range(ListDel(list, gone)) = Range(list) \ gone
         /\ NoRepeats(list) => NoRepeats(ListDel(list, gone))
         /\ \A times : Sorted(list, times) => Sorted(ListDel(list, gone), times)
<1>1. PICK f : KeptOf(list, gone, Len(list), f) /\ ListDel(list, gone) = f[Len(list)]
  BY ListDelKept
<1>2. \A i \in 0 .. Len(list) :
        f[i] = IF i = 0 THEN << >> ELSE IF list[i] \in gone THEN f[i - 1] ELSE Append(f[i - 1], list[i])
  BY <1>1 DEF KeptOf
<1> DEFINE P(i) == /\ f[i] \in Seq(S)
                   /\ Range(f[i]) = {list[j] : j \in 1 .. i} \ gone
                   /\ NoRepeats(list) => NoRepeats(f[i])
                   /\ \A times : Sorted(list, times) => Sorted(f[i], times)
           T == {i \in 0 .. Len(list) : ~P(i)}
<1>0. Len(list) \in Nat /\ T \in SUBSET Nat
  OBVIOUS
<1>3. SUFFICES ASSUME T # {} PROVE FALSE
  <2> HIDE DEF P
  <2>0. P(Len(list))
    BY <1>0, <1>3
  <2> USE DEF P
  <2>1. /\ f[Len(list)] \in Seq(S)
        /\ Range(f[Len(list)]) = {list[j] : j \in 1 .. Len(list)} \ gone
        /\ NoRepeats(list) => NoRepeats(f[Len(list)])
        /\ \A times : Sorted(list, times) => Sorted(f[Len(list)], times)
    BY <2>0
  <2>2. Range(list) = {list[j] : j \in 1 .. Len(list)}
    BY DEF Range
  <2> QED
    BY <1>1, <2>1, <2>2
<1>4. PICK m \in T : \A y \in T : m <= y
  <2> HIDE DEF T
  <2> QED
    BY <1>0, <1>3, SmallestOf
<1>5. P(0)
  <2>1. f[0] = << >>
    BY <1>0, <1>2
  <2>2. Range(f[0]) = {}
    BY <2>1 DEF Range
  <2>3. {list[j] : j \in 1 .. 0} = {}
    OBVIOUS
  <2>4. NoRepeats(f[0]) /\ \A times : Sorted(f[0], times)
    BY <2>1 DEF NoRepeats, Sorted
  <2> QED
    BY <2>1, <2>2, <2>3, <2>4
<1>6. ASSUME m # 0, P(m - 1) PROVE P(m)
  <2>1. m \in 1 .. Len(list) /\ list[m] \in S
    BY <1>6
  <2>2. CASE list[m] \in gone
    BY <1>2, <1>6, <2>1, <2>2
  <2>3. CASE list[m] \notin gone
    <3> DEFINE s == f[m - 1]
               r == Append(s, list[m])
    <3>1. f[m] = r
      <4>1. m \in 0 .. Len(list) /\ m # 0
        BY <2>1
      <4> QED
        BY <1>2, <2>3, <4>1
    <3>2. s \in Seq(S) /\ Len(s) \in Nat /\ Range(s) = {list[j] : j \in 1 .. m - 1} \ gone
      BY <1>6
    <3>3. /\ r \in Seq(S) /\ Len(r) = Len(s) + 1 /\ r[Len(s) + 1] = list[m]
          /\ DOMAIN r = 1 .. Len(s) + 1 /\ DOMAIN s = 1 .. Len(s)
          /\ \A i \in 1 .. Len(s) : r[i] = s[i]
      BY <2>1, <3>2
    <3>4. \A i \in 1 .. Len(s) : \E j \in 1 .. m - 1 : s[i] = list[j]
      BY <3>2, <3>3 DEF Range
    <3>5. Range(r) = Range(s) \union {list[m]}
      <4>1. \A x : x \in Range(r) <=> \E i \in 1 .. Len(s) + 1 : x = r[i]
        BY <3>3 DEF Range
      <4>2. \A x : x \in Range(s) <=> \E i \in 1 .. Len(s) : x = s[i]
        BY <3>3 DEF Range
      <4> HIDE DEF r, s
      <4> QED
        BY <3>2, <3>3, <4>1, <4>2
    <3>6. Range(r) = {list[j] : j \in 1 .. m} \ gone
      BY <2>1, <2>3, <3>2, <3>5
    <3>7. ASSUME NoRepeats(list) PROVE NoRepeats(r)
      <4>1. \A i \in 1 .. Len(s) : s[i] # list[m]
        BY <2>1, <3>4, <3>7 DEF NoRepeats
      <4>2. NoRepeats(s)
        BY <1>6, <3>7
      <4> HIDE DEF r, s
      <4> QED
        BY <3>2, <3>3, <4>1, <4>2 DEF NoRepeats
    <3>8. ASSUME NEW times, Sorted(list, times) PROVE Sorted(r, times)
      <4>0. \A j \in 1 .. m - 1 : times[list[j]] <= times[list[m]]
        BY <2>1, <3>8 DEF Sorted
      <4>1. \A i \in 1 .. Len(s) : times[s[i]] <= times[list[m]]
        BY <3>4, <4>0
      <4>2. Sorted(s, times) /\ times[list[m]] <= times[list[m]]
        BY <1>6, <2>1, <3>8 DEF Sorted
      <4> QED
        BY <3>3, <4>1, <4>2 DEF Sorted
    <3> QED
      BY <3>1, <3>3, <3>6, <3>7, <3>8
  <2> QED
    BY <2>2, <2>3
<1> HIDE DEF P
<1> QED
  BY <1>0, <1>4, <1>5, <1>6

(* What bo_cache_clean leaves of a list, and what it takes.                *)
LEMMA CutProperties ==
  ASSUME NEW S, NEW list \in Seq(S), NoRepeats(list), NEW n \in 0 .. Len(list)
  PROVE  LET head == SubSeq(list, 1, n)
             tail == SubSeq(list, n + 1, Len(list))
         IN  /\ head \in Seq(S) /\ tail \in Seq(S) /\ NoRepeats(tail)
             /\ Range(head) \subseteq Range(list)
             /\ Range(tail) = Range(list) \ Range(head)
             /\ \A u \in Range(tail) : \E i \in n + 1 .. Len(list) : u = list[i]
             /\ \A times : Sorted(list, times) => Sorted(tail, times)
<1> DEFINE head == SubSeq(list, 1, n)
           tail == SubSeq(list, n + 1, Len(list))
<1>0. Len(list) \in Nat /\ DOMAIN list = 1 .. Len(list)
  OBVIOUS
<1>1. /\ head \in Seq(S) /\ DOMAIN head = 1 .. n
      /\ \A i \in 1 .. n : head[i] = list[i]
  BY <1>0, SubSeqProperties
<1>2. /\ tail \in Seq(S) /\ DOMAIN tail = 1 .. Len(list) - n
      /\ \A i \in 1 .. Len(list) - n : tail[i] = list[n + i]
  BY <1>0, SubSeqProperties
<1> HIDE DEF head, tail
<1>3. \A x : x \in Range(head) <=> \E i \in 1 .. n : x = list[i]
  BY <1>1 DEF Range
<1>4. \A x : x \in Range(tail) <=> \E i \in n + 1 .. Len(list) : x = list[i]
  <2>1. \A x : x \in Range(tail) <=> \E i \in 1 .. Len(list) - n : x = list[n + i]
    BY <1>2 DEF Range
  <2>2. ASSUME NEW i \in n + 1 .. Len(list) PROVE i - n \in 1 .. Len(list) - n /\ n + (i - n) = i
    BY <1>0
  <2>3. ASSUME NEW i \in 1 .. Len(list) - n PROVE n + i \in n + 1 .. Len(list)
    BY <1>0
  <2> QED
    BY <2>1, <2>2, <2>3
<1>5. \A x : x \in Range(list) <=> \E i \in 1 .. Len(list) : x = list[i]
  BY <1>0 DEF Range
<1>6. Range(tail) = Range(list) \ Range(head) /\ Range(head) \subseteq Range(list)
  BY <1>0, <1>3, <1>4, <1>5 DEF NoRepeats
<1>t. \A i \in DOMAIN tail : n + i \in DOMAIN list /\ tail[i] = list[n + i] /\ i \in Nat
  BY <1>0, <1>2
<1>7. NoRepeats(tail)
  <2> SUFFICES ASSUME NEW i \in DOMAIN tail, NEW j \in DOMAIN tail, tail[i] = tail[j] PROVE i = j
    BY DEF NoRepeats
  <2>1. n + i = n + j
    BY <1>t DEF NoRepeats
  <2> QED
    BY <1>t, <2>1
<1>8. ASSUME NEW times, Sorted(list, times) PROVE Sorted(tail, times)
  <2> SUFFICES ASSUME NEW i \in DOMAIN tail, NEW j \in DOMAIN tail, i <= j
               PROVE  times[tail[i]] <= times[tail[j]]
    BY DEF Sorted
  <2>1. n + i <= n + j
    BY <1>t
  <2>2. times[list[n + i]] <= times[list[n + j]]
    BY <1>8, <1>t, <2>1 DEF Sorted
  <2> QED
    BY <1>t, <2>2
<1>9. \A u \in Range(tail) : \E i \in n + 1 .. Len(list) : u = list[i]
  BY <1>4
<1> QED
  BY <1>1, <1>2, <1>6, <1>7, <1>8, <1>9 DEF head, tail

LEMMA AppendNew ==
  ASSUME NEW S, NEW list \in Seq(S), NEW o \in S, o \notin Range(list), NoRepeats(list)
  PROVE  /\ Append(list, o) \in Seq(S) /\ NoRepeats(Append(list, o))
         /\ Range(Append(list, o)) = Range(list) \union {o}
<1> DEFINE r == Append(list, o)
<1>1. /\ r \in Seq(S) /\ Len(list) \in Nat /\ DOMAIN r = 1 .. Len(list) + 1
      /\ DOMAIN list = 1 .. Len(list)
      /\ r[Len(list) + 1] = o /\ \A i \in 1 .. Len(list) : r[i] = list[i]
  OBVIOUS
<1> HIDE DEF r
<1>2. \A x : x \in Range(list) <=> \E i \in 1 .. Len(list) : x = list[i]
  BY <1>1 DEF Range
<1>3. \A x : x \in Range(r) <=> \E i \in 1 .. Len(list) + 1 : x = r[i]
  BY <1>1 DEF Range
<1>4. Range(r) = Range(list) \union {o}
  BY <1>1, <1>2, <1>3
<1>5. NoRepeats(r)
  BY <1>1, <1>2 DEF NoRepeats
<1> QED
  BY <1>1, <1>4, <1>5 DEF r

(* The ends of a list: bo_cache_put appends, bo_cache_bucket_get takes the  *)
(* head.                                                                   *)
LEMMA TailNew ==
  ASSUME NEW S, NEW list \in Seq(S), NoRepeats(list), list # << >>
  PROVE  /\ Tail(list) \in Seq(S) /\ NoRepeats(Tail(list))
         /\ Range(Tail(list)) = Range(list) \ {Head(list)} /\ Head(list) \in Range(list)
<1>1. /\ Tail(list) \in Seq(S) /\ Len(list) \in Nat /\ Len(list) >= 1
      /\ DOMAIN list = 1 .. Len(list) /\ DOMAIN Tail(list) = 1 .. Len(list) - 1
      /\ \A i \in 1 .. Len(list) - 1 : Tail(list)[i] = list[i + 1]
      /\ Head(list) = list[1]
  OBVIOUS
<1>2. SUFFICES ASSUME NEW t, t = Tail(list)
               PROVE  NoRepeats(t) /\ Range(t) = Range(list) \ {Head(list)} /\ Head(list) \in Range(list)
  BY <1>1
<1>3. \A x : x \in Range(list) <=> \E i \in 1 .. Len(list) : x = list[i]
  BY <1>1 DEF Range
<1>4. \A x : x \in Range(t) <=> \E i \in 2 .. Len(list) : x = list[i]
  <2>1. \A x : x \in Range(t) <=> \E i \in 1 .. Len(list) - 1 : x = list[i + 1]
    BY <1>1, <1>2 DEF Range
  <2>2. ASSUME NEW i \in 2 .. Len(list) PROVE i - 1 \in 1 .. Len(list) - 1 /\ (i - 1) + 1 = i
    BY <1>1
  <2>3. ASSUME NEW i \in 1 .. Len(list) - 1 PROVE i + 1 \in 2 .. Len(list)
    BY <1>1
  <2> QED
    BY <2>1, <2>2, <2>3
<1>5. NoRepeats(t)
  <2> SUFFICES ASSUME NEW i \in 1 .. Len(list) - 1, NEW j \in 1 .. Len(list) - 1, t[i] = t[j] PROVE i = j
    BY <1>1, <1>2 DEF NoRepeats
  <2>1. list[i + 1] = list[j + 1] /\ i + 1 \in DOMAIN list /\ j + 1 \in DOMAIN list
    BY <1>1, <1>2
  <2>2. i + 1 = j + 1
    BY <2>1 DEF NoRepeats
  <2> QED
    BY <2>2
<1>6. \A i \in 2 .. Len(list) : list[i] # list[1]
  BY <1>1 DEF NoRepeats
<1>7. Range(t) = Range(list) \ {list[1]} /\ list[1] \in Range(list)
  <2>1. \A i \in 1 .. Len(list) : i = 1 \/ i \in 2 .. Len(list)
    BY <1>1
  <2>2. 1 \in 1 .. Len(list) /\ \A i \in 2 .. Len(list) : i \in 1 .. Len(list)
    BY <1>1
  <2> QED
    BY <1>3, <1>4, <1>6, <2>1, <2>2
<1> QED
  BY <1>1, <1>5, <1>7

-----------------------------------------------------------------------------
(* bo_cache_bucket_find: a bucket that is found is large enough.           *)
LEMMA BucketFound ==
  ASSUME NEW bytes \in Nat
  PROVE  /\ BucketFind(bytes) \in Buckets \union {NoBucket}
         /\ BucketFind(bytes) # NoBucket => BucketFind(bytes) >= bytes
<1> USE BucketsAssumption, NoBucketAssumption
<1> DEFINE T == {k \in Buckets : k >= bytes}
<1>1. CASE \A k \in Buckets : k < bytes
  BY <1>1 DEF BucketFind
<1>2. CASE ~ \A k \in Buckets : k < bytes
  <2>1. T \in SUBSET Nat /\ T # {}
    <3>1. PICK k \in Buckets : ~(k < bytes)
      BY <1>2
    <3>2. k \in T
      BY <3>1
    <3> QED
      BY <3>2
  <2>2. \E k \in T : \A l \in T : k <= l
    <3> HIDE DEF T
    <3> QED
      BY <2>1, SmallestOf
  <2>3. \E k \in Buckets : k >= bytes /\ \A l \in Buckets : l >= bytes => k <= l
    BY <2>2
  <2> QED
    BY <1>2, <2>3 DEF BucketFind
<1> QED
  BY <1>1, <1>2

(* bo_cache_clean: it stops at the end or at a bo that is young enough.    *)
LEMMA TooOldFound ==
  ASSUME NEW list \in Seq(Bos), NEW times \in [Bos -> Nat], time \in Nat, last_cleaned \in Nat
  PROVE  LET n == TooOld(list, times)
         IN  /\ n \in 0 .. Len(list)
             /\ ~(time - last_cleaned < Interval) /\ n < Len(list) =>
                  time - times[list[n + 1]] < MaxAge
<1> USE TimesAssumption
<1>0. Len(list) \in Nat
  OBVIOUS
<1>1. CASE time - last_cleaned < Interval
  BY <1>0, <1>1 DEF TooOld
<1>2. CASE ~(time - last_cleaned < Interval)
  <2> DEFINE T == {n \in 0 .. Len(list) : n < Len(list) => time - times[list[n + 1]] < MaxAge}
  <2>1. T \in SUBSET Nat /\ T # {}
    <3>1. Len(list) \in T
      BY <1>0
    <3> QED
      BY <1>0, <3>1
  <2>2. PICK n \in T : \A y \in T : n <= y
    <3> HIDE DEF T
    <3> QED
      BY <2>1, SmallestOf
  <2>3. ASSUME NEW i \in 1 .. n PROVE time - times[list[i]] >= MaxAge
    <3>1. i - 1 \in 0 .. Len(list) /\ i - 1 < Len(list) /\ i \in 1 .. Len(list) /\ (i - 1) + 1 = i
      BY <1>0, <2>2
    <3>3. i - 1 \notin T
      <4> HIDE DEF T
      <4> QED
        BY <2>1, <2>2
    <3>2. times[list[i]] \in Nat
      BY <3>1
    <3> QED
      BY <3>1, <3>2, <3>3
  <2>4. \E m \in 0 .. Len(list) :
          /\ \A i \in 1 .. m : time - times[list[i]] >= MaxAge
          /\ m < Len(list) => time - times[list[m + 1]] < MaxAge
    BY <2>2, <2>3
  <2> QED
    BY <1>2, <2>4 DEF TooOld
<1> QED
  BY <1>1, <1>2

-----------------------------------------------------------------------------
(* The operations on bos.                                                  *)

LEMMA BoFacts ==
  ASSUME BoInv
  PROVE  /\ ref \in [Bos -> Nat] /\ size \in [Bos -> Nat]
         /\ bucket \in [Bos -> Buckets \union {NoBucket}] /\ free_time \in [Bos -> Nat]
         /\ free_list \in Seq(Bos) /\ NoRepeats(free_list) /\ Cached \subseteq Bos
         /\ \A k \in Buckets :
              /\ bucket_list[k] \in Seq(Bos) /\ NoRepeats(bucket_list[k])
              /\ Range(bucket_list[k]) = {o \in Cached : bucket[o] = k}
         /\ \A o \in Cached : ref[o] = 0 /\ o \notin shared
         /\ \A o \in shared : ref[o] > 0
<1>1. free_list \in Seq(Bos)
  BY DEF BoInv, TypeOK
<1>2. Cached \subseteq Bos
  BY <1>1 DEF Cached, Range
<1>3. \A k \in Buckets :
        /\ bucket_list[k] \in Seq(Bos) /\ NoRepeats(bucket_list[k])
        /\ Range(bucket_list[k]) = {o \in Cached : bucket[o] = k}
  BY DEF BoInv, TypeOK, CacheOK, Linked
<1>4. \A o \in Cached : ref[o] = 0
  BY DEF BoInv, CacheOK
<1>5. \A o \in shared : ref[o] > 0 /\ o \in Bos
  BY DEF BoInv, TypeOK
<1>6. \A o \in Cached : o \notin shared
  BY <1>2, <1>4, <1>5 DEF BoInv, TypeOK
<1>7. NoRepeats(free_list)
  BY DEF BoInv, CacheOK, Linked
<1> QED
  BY <1>1, <1>2, <1>3, <1>4, <1>5, <1>6, <1>7 DEF BoInv, TypeOK

(* A bo that the caller gets has one reference and is large enough.        *)
Got(o, bytes) ==
  /\ ref[o] = 0 /\ ref' = [ref EXCEPT ![o] = 1]
  /\ size' \in [Bos -> Nat] /\ size'[o] >= bytes
  /\ \A p \in Bos \ {o} : size'[p] = size[p]

LEMMA BoNewCachedKeeps ==
  ASSUME BoInv, NEW bytes \in Nat, BoNewCached(bytes)
  PROVE  BoInv' /\ \E o \in Bos : Got(o, bytes)
<1> DEFINE k == BucketFind(bytes)
           o == Head(bucket_list[k])
<1>1. /\ k \in Buckets /\ k >= bytes /\ bucket_list[k] # << >>
      /\ ref' = [ref EXCEPT ![o] = 1]
      /\ bucket_list' = [bucket_list EXCEPT ![k] = Tail(@)]
      /\ free_list' = ListDel(free_list, {o})
      /\ UNCHANGED <<size, bucket, free_time, last_cleaned, gemvars, shared, time, up>>
  BY BucketFound DEF BoNewCached
<1> HIDE DEF k
<1>2. /\ bucket_list[k] \in Seq(Bos) /\ NoRepeats(bucket_list[k])
      /\ Range(bucket_list[k]) = {p \in Cached : bucket[p] = k}
  BY <1>1, BoFacts
<1>3. /\ Tail(bucket_list[k]) \in Seq(Bos) /\ NoRepeats(Tail(bucket_list[k]))
      /\ Range(Tail(bucket_list[k])) = Range(bucket_list[k]) \ {o}
      /\ o \in Range(bucket_list[k])
  BY <1>1, <1>2, TailNew
<1> HIDE DEF o
<1>4. o \in Cached /\ bucket[o] = k /\ o \in Bos
  BY <1>2, <1>3, BoFacts
<1>5. /\ free_list' \in Seq(Bos) /\ Cached' = Cached \ {o} /\ NoRepeats(free_list')
      /\ Sorted(free_list', free_time)
  BY <1>1, BoFacts, ListDelProperties DEF Cached, BoInv
<1>6. TypeOK'
  BY <1>1, <1>2, <1>3, <1>5 DEF BoInv, TypeOK, gemvars
<1>7. ASSUME NEW l \in Buckets
      PROVE  /\ NoRepeats(bucket_list'[l])
             /\ Range(bucket_list'[l]) = {p \in Cached' : bucket'[p] = l}
  <2>1. CASE l = k
    <3>1. bucket_list'[k] = Tail(bucket_list[k])
      BY <1>1 DEF BoInv, TypeOK
    <3> QED
      BY <1>1, <1>2, <1>3, <1>5, <2>1, <3>1
  <2>2. CASE l # k
    <3>1. bucket_list'[l] = bucket_list[l]
      BY <1>1, <2>2 DEF BoInv, TypeOK
    <3> QED
      BY <1>1, <1>4, <1>5, <2>2, <3>1, BoFacts
  <2> QED
    BY <2>1, <2>2
<1>8. Linked'
  BY <1>5, <1>7 DEF Linked
<1>9. \A p \in Cached' : /\ p \in Cached /\ p # o /\ p \in Bos
                         /\ ref'[p] = 0 /\ bucket'[p] = bucket[p] /\ size'[p] = size[p]
                         /\ free_time'[p] = free_time[p]
  BY <1>1, <1>5, BoFacts
<1>10. CacheOK'
  BY <1>1, <1>8, <1>9 DEF BoInv, CacheOK, AgedOut
<1>11. HandlesExact'
  <2>1. \A p \in Bos : ref'[p] > 0 \/ p \in Cached' <=> ref[p] > 0 \/ p \in Cached
    BY <1>1, <1>4, <1>5, BoFacts
  <2> QED
    BY <1>1, <2>1 DEF BoInv, HandlesExact, gemvars
<1>12. \A p \in shared' : ref'[p] > 0 /\ bucket'[p] = NoBucket
  BY <1>1, <1>4, BoFacts DEF BoInv, TypeOK
<1>13. up'
  BY <1>1, <1>4 DEF BoInv, Cached, Range
<1>14. \A p \in Cached' : bucket'[p] # NoBucket /\ free_time'[p] <= time'
  BY <1>1, <1>9 DEF BoInv
<1>15. BoInv'
  BY <1>1, <1>5, <1>6, <1>10, <1>11, <1>12, <1>13, <1>14 DEF BoInv
<1>16. Got(o, bytes)
  <2>1. ref[o] = 0 /\ size[o] >= bucket[o] /\ size[o] \in Nat /\ k \in Nat
    BY <1>1, <1>4, BoFacts, BucketsAssumption DEF BoInv, CacheOK
  <2> QED
    BY <1>1, <1>4, <2>1, BoFacts DEF Got
<1> QED
  BY <1>4, <1>15, <1>16

(* What the kernel does with handles.                                      *)
HandleTypeOK ==
  /\ handle \in [Bos -> Handles \union {NoHandle}]
  /\ open \subseteq Handles /\ prime \subseteq open
  /\ doubled \subseteq Handles

(* A bo is given a handle: one that was closed, which other bos may have,  *)
(* or one that becomes doubled.                                            *)
GivenHandle(o) ==
  \E h \in Handles :
    /\ handle' = [handle EXCEPT ![o] = h]
    /\ open' = open \union {h}
    /\ prime' \in {prime, prime \union {h}}
    /\ \/ h \notin open /\ doubled' = doubled
       \/ doubled' = doubled \union {h}

LEMMA HandleGiven ==
  ASSUME BoInv, NEW o \in Bos, Fresh(o), GivenHandle(o),
         ref' = [ref EXCEPT ![o] = 1], Cached' = Cached
  PROVE  HandlesExact' /\ HandleTypeOK'
<1> USE NoHandleAssumption
<1>1. PICK h \in Handles :
        /\ handle' = [handle EXCEPT ![o] = h]
        /\ open' = open \union {h}
        /\ prime' \in {prime, prime \union {h}}
        /\ \/ h \notin open /\ doubled' = doubled
           \/ doubled' = doubled \union {h}
  BY DEF GivenHandle
<1>2. HandleTypeOK
  BY DEF BoInv, TypeOK, HandleTypeOK
<1>3. handle'[o] = h /\ \A p \in Bos \ {o} : handle'[p] = handle[p]
  BY <1>1, <1>2 DEF HandleTypeOK
<1>4. HandleTypeOK'
  BY <1>1, <1>2 DEF HandleTypeOK
<1>5. \A p \in Bos : handle'[p] # NoHandle <=> ref'[p] > 0 \/ p \in Cached'
  <2>1. ref'[o] = 1 /\ \A p \in Bos \ {o} : ref'[p] = ref[p]
    BY BoFacts
  <2>2. \A p \in Bos \ {o} : handle[p] # NoHandle <=> ref[p] > 0 \/ p \in Cached
    BY DEF BoInv, HandlesExact
  <2> QED
    BY <1>1, <1>3, <2>1, <2>2
<1>6. handle[o] = NoHandle
  BY BoFacts DEF BoInv, HandlesExact, Fresh
<1>7. \A g \in open' : \E p \in Bos : handle'[p] = g
  <2>1. ASSUME NEW g \in open PROVE \E p \in Bos : handle'[p] = g
    <3>1. PICK p \in Bos : handle[p] = g
      BY DEF BoInv, HandlesExact
    <3>2. p # o
      BY <1>2, <1>6, <3>1 DEF HandleTypeOK
    <3> QED
      BY <1>3, <3>1, <3>2
  <2> QED
    BY <1>1, <1>3, <2>1
<1>8. \A p \in Bos : handle[p] \notin doubled \union {NoHandle} =>
        /\ handle[p] \in open
        /\ \A q \in Bos \ {p} : handle[q] # handle[p]
  BY DEF BoInv, HandlesExact
<1>9. ASSUME NEW p \in Bos, handle'[p] \notin doubled' \union {NoHandle}
      PROVE  handle'[p] \in open' /\ \A q \in Bos \ {p} : handle'[q] # handle'[p]
  <2>1. doubled \subseteq doubled'
    BY <1>1
  <2>2. CASE p = o
    <3>1. h \notin open /\ h \notin doubled
      BY <1>1, <1>3, <1>9, <2>1, <2>2
    <3>2. \A q \in Bos \ {o} : handle[q] # h
      BY <1>8, <3>1
    <3> QED
      BY <1>1, <1>3, <2>2, <3>2
  <2>3. CASE p # o
    <3>1. handle[p] \in open /\ \A q \in Bos \ {p} : handle[q] # handle[p]
      BY <1>3, <1>8, <1>9, <2>1, <2>3
    <3>2. handle[p] # h
      BY <1>1, <1>3, <1>9, <2>3, <3>1
    <3> QED
      BY <1>1, <1>3, <2>3, <3>1, <3>2
  <2> QED
    BY <2>2, <2>3
<1> QED
  BY <1>4, <1>5, <1>7, <1>9 DEF HandlesExact

(* Bos are freed: every other bo that has one of their handles has it      *)
(* doubled.                                                                *)
LEMMA HandlesFreed ==
  ASSUME BoInv, NEW gone \in SUBSET Bos, NEW times, EtnaBoFree(gone, times),
         \A p \in Bos : ref'[p] > 0 \/ p \in Cached' <=>
                       p \notin gone /\ (ref[p] > 0 \/ p \in Cached)
  PROVE  HandlesExact' /\ HandleTypeOK'
<1> DEFINE closed == {handle[o] : o \in gone}
<1>1. /\ handle' = [o \in Bos |-> IF o \in gone THEN NoHandle ELSE handle[o]]
      /\ open' = open \ closed /\ prime' = prime \ closed
      /\ doubled' = {h \in doubled : \E o \in Bos \ gone : handle[o] = h}
  BY DEF EtnaBoFree
<1>2. \A x : x \in closed <=> \E o \in gone : x = handle[o]
  OBVIOUS
<1> HIDE DEF closed
<1>3. HandleTypeOK
  BY DEF BoInv, TypeOK, HandleTypeOK
<1>4. HandleTypeOK'
  BY <1>1, <1>3 DEF HandleTypeOK
<1>5. \A p \in Bos : handle'[p] # NoHandle <=> ref'[p] > 0 \/ p \in Cached'
  BY <1>1 DEF BoInv, HandlesExact
<1>6. \A g \in open' : \E p \in Bos : handle'[p] = g
  <2> SUFFICES ASSUME NEW g \in open' PROVE \E p \in Bos : handle'[p] = g
    OBVIOUS
  <2>1. PICK p \in Bos : handle[p] = g
    BY <1>1 DEF BoInv, HandlesExact
  <2>2. p \notin gone
    BY <1>1, <1>2, <2>1
  <2> QED
    BY <1>1, <2>1, <2>2
<1>7. ASSUME NEW p \in Bos, handle'[p] \notin doubled' \union {NoHandle}
      PROVE  handle'[p] \in open' /\ \A q \in Bos \ {p} : handle'[q] # handle'[p]
  <2>1. p \notin gone /\ handle'[p] = handle[p] /\ handle[p] # NoHandle
    BY <1>1, <1>7
  <2>2. handle[p] \notin doubled
    BY <1>1, <1>7, <2>1
  <2>3. handle[p] \in open /\ \A q \in Bos \ {p} : handle[q] # handle[p]
    BY <2>1, <2>2 DEF BoInv, HandlesExact
  <2>4. handle[p] \notin closed
    BY <1>2, <2>1, <2>3
  <2> QED
    BY <1>1, <2>1, <2>3, <2>4
<1> QED
  BY <1>4, <1>5, <1>6, <1>7 DEF HandlesExact

(* A bo that is new to the driver, allocated or imported.                  *)
LEMMA GotFresh ==
  ASSUME BoInv, NEW o \in Bos, Fresh(o), NEW k \in Buckets \union {NoBucket}, NEW bytes \in Nat,
         ref' = [ref EXCEPT ![o] = 1], size' = [size EXCEPT ![o] = bytes],
         k # NoBucket => bytes >= k,
         bucket' = [bucket EXCEPT ![o] = k], GivenHandle(o),
         shared' \in {shared, shared \union {o}}, k = NoBucket \/ shared' = shared,
         up, UNCHANGED <<cachevars, time, up>>
  PROVE  BoInv' /\ Got(o, bytes)
<1>1. Cached' = Cached /\ o \notin Cached /\ ref[o] = 0 /\ o \notin shared
  BY BoFacts DEF Cached, cachevars, Fresh
<1>6. HandlesExact' /\ HandleTypeOK'
  BY <1>1, HandleGiven
<1>2. TypeOK'
  BY <1>6 DEF BoInv, TypeOK, HandleTypeOK, cachevars
<1>3. Linked'
  BY <1>1, BoFacts DEF BoInv, CacheOK, Linked, cachevars
<1>4. \A p \in Cached' : /\ p \in Cached /\ p # o /\ p \in Bos
                         /\ ref'[p] = ref[p] /\ bucket'[p] = bucket[p] /\ size'[p] = size[p]
                         /\ free_time'[p] = free_time[p]
  BY <1>1, BoFacts DEF cachevars
<1>5. CacheOK'
  BY <1>3, <1>4 DEF BoInv, CacheOK, AgedOut, cachevars
<1>7. \A p \in shared' : ref'[p] > 0 /\ bucket'[p] = NoBucket
  BY <1>1, BoFacts DEF BoInv, TypeOK
<1>8. \A p \in Bos : bucket'[p] # NoBucket => size'[p] >= bucket'[p]
  BY BoFacts DEF BoInv
<1>9. \A p \in Cached' : bucket'[p] # NoBucket /\ free_time'[p] <= time'
  BY <1>4 DEF BoInv
<1>10. Sorted(free_list', free_time') /\ (up' => last_cleaned' <= time') /\ up'
  BY DEF BoInv, cachevars
<1>11. Got(o, bytes)
  BY <1>1, BoFacts DEF Got
<1> QED
  BY <1>2, <1>5, <1>6, <1>7, <1>8, <1>9, <1>10, <1>11 DEF BoInv

LEMMA BoNewKeeps ==
  ASSUME BoInv, NEW o \in Bos, NEW bytes \in Nat, BoNew(o, bytes)
  PROVE  BoInv' /\ Got(o, bytes)
<1> DEFINE k == BucketFind(bytes)
           b == IF k = NoBucket THEN bytes ELSE k
<1>1. k \in Buckets \union {NoBucket} /\ (k # NoBucket => k >= bytes)
  BY BucketFound
<1> HIDE DEF k
<1>2. b \in Nat /\ (k # NoBucket => b >= k) /\ b >= bytes
  BY <1>1, BucketsAssumption
<1>3. /\ Fresh(o) /\ ref' = [ref EXCEPT ![o] = 1] /\ size' = [size EXCEPT ![o] = b]
      /\ bucket' = [bucket EXCEPT ![o] = k] /\ GivenHandle(o)
      /\ up /\ UNCHANGED <<cachevars, time, up>> /\ shared' = shared
  BY DEF BoNew, k, OpenHandle, GivenHandle
<1> HIDE DEF b
<1>4. BoInv' /\ Got(o, b)
  BY <1>1, <1>2, <1>3, GotFresh
<1> QED
  BY <1>2, <1>4, BoFacts DEF Got

LEMMA BoImportKeeps ==
  ASSUME BoInv, NEW o \in Bos, NEW bytes \in Nat, BoImport(o, bytes) \/ BoFromDmabuf(o, bytes)
  PROVE  BoInv' /\ Got(o, bytes)
<1>1. /\ Fresh(o) /\ ref' = [ref EXCEPT ![o] = 1] /\ size' = [size EXCEPT ![o] = bytes]
      /\ bucket' = [bucket EXCEPT ![o] = NoBucket]
      /\ up /\ UNCHANGED <<cachevars, time, up>> /\ shared' = shared \union {o}
  BY DEF BoImport, BoFromDmabuf, Import
<1>2. handle \in [Bos -> Handles \union {NoHandle}] /\ open \subseteq Handles /\ prime \subseteq open
  BY DEF BoInv, TypeOK
<1>3. ASSUME OpenHandle(o), UNCHANGED <<prime, doubled>> PROVE GivenHandle(o)
  BY <1>3 DEF OpenHandle, GivenHandle
<1>4. ASSUME OpenHandle(o), prime' = prime \union {handle'[o]}, UNCHANGED doubled
      PROVE  GivenHandle(o)
  <2>1. PICK h \in Handles \ open : handle' = [handle EXCEPT ![o] = h] /\ open' = open \union {h}
    BY <1>4 DEF OpenHandle
  <2>2. prime' = prime \union {h}
    BY <1>2, <1>4, <2>1
  <2> QED
    BY <1>4, <2>1, <2>2 DEF GivenHandle
<1>5. ASSUME NEW h \in prime, handle' = [handle EXCEPT ![o] = h], doubled' = doubled \union {h},
             UNCHANGED <<open, prime>>
      PROVE  GivenHandle(o)
  <2>1. h \in Handles /\ open' = open \union {h}
    BY <1>2, <1>5
  <2> QED
    BY <1>5, <2>1 DEF GivenHandle
<1>6. GivenHandle(o)
  BY <1>3, <1>4, <1>5 DEF BoImport, BoFromDmabuf
<1> QED
  BY <1>1, <1>6, GotFresh

LEMMA BoFlinkKeeps ==
  ASSUME BoInv, NEW o \in Bos, BoFlink(o)
  PROVE  BoInv'
<1> USE DEF BoFlink, cachevars, gemvars
<1>1. Cached' = Cached /\ o \notin Cached
  BY BoFacts DEF Cached
<1>2. TypeOK'
  BY DEF BoInv, TypeOK
<1>3. \A p \in Cached' : /\ p \in Cached /\ p # o /\ p \in Bos
                         /\ ref'[p] = ref[p] /\ bucket'[p] = bucket[p] /\ size'[p] = size[p]
                         /\ free_time'[p] = free_time[p]
  BY <1>1, BoFacts
<1>4. Linked'
  BY <1>1, <1>3, BoFacts, NoBucketAssumption DEF Linked
<1>5. CacheOK'
  BY <1>3, <1>4 DEF BoInv, CacheOK, AgedOut
<1>6. HandlesExact'
  BY <1>1 DEF BoInv, HandlesExact
<1>7. \A p \in shared' : ref'[p] > 0 /\ bucket'[p] = NoBucket
  BY BoFacts DEF BoInv, TypeOK
<1>8. \A p \in Bos : bucket'[p] # NoBucket => size'[p] >= bucket'[p]
  BY BoFacts DEF BoInv
<1>9. \A p \in Cached' : bucket'[p] # NoBucket /\ free_time'[p] <= time'
  BY <1>3 DEF BoInv
<1>10. /\ Sorted(free_list', free_time') /\ (up' => last_cleaned' <= time')
       /\ (~up' => free_list' = << >> /\ \A p \in Bos : ref'[p] = 0)
  BY DEF BoInv
<1> QED
  BY <1>2, <1>5, <1>6, <1>7, <1>8, <1>9, <1>10 DEF BoInv

LEMMA BoToDmabufKeeps ==
  ASSUME BoInv, NEW o \in Bos, BoToDmabuf(o)
  PROVE  BoInv'
<1>1. UNCHANGED <<ref, size, bucket, cachevars, handle, open, doubled, shared, time, up>>
  BY DEF BoToDmabuf
<1>2. TypeOK'
  BY <1>1 DEF BoInv, TypeOK, BoToDmabuf, cachevars
<1>3. Cached' = Cached
  BY <1>1 DEF Cached, cachevars
<1>4. CacheOK' /\ HandlesExact'
  BY <1>1, <1>3 DEF BoInv, CacheOK, Linked, AgedOut, HandlesExact, cachevars
<1> QED
  BY <1>1, <1>2, <1>3, <1>4 DEF BoInv, cachevars

LEMMA BoRefKeeps ==
  ASSUME BoInv, NEW o \in Bos, BoRef(o)
  PROVE  BoInv'
<1> USE DEF BoRef, cachevars, gemvars
<1>1. Cached' = Cached /\ o \notin Cached
  BY BoFacts DEF Cached
<1>2. TypeOK'
  BY DEF BoInv, TypeOK
<1>3. \A p \in Cached' : p \in Cached /\ ref'[p] = ref[p]
  BY <1>1, BoFacts
<1>4. CacheOK'
  BY <1>1, <1>3 DEF BoInv, CacheOK, AgedOut, Linked
<1>5. HandlesExact'
  BY <1>1, BoFacts DEF BoInv, HandlesExact
<1>6. \A p \in shared' : ref'[p] > 0 /\ bucket'[p] = NoBucket
  BY BoFacts DEF BoInv, TypeOK
<1>7. ~up' => free_list' = << >> /\ \A p \in Bos : ref'[p] = 0
  BY DEF BoInv
<1> QED
  BY <1>1, <1>2, <1>4, <1>5, <1>6, <1>7 DEF BoInv

LEMMA TickKeeps ==
  ASSUME BoInv, Tick
  PROVE  BoInv'
<1> USE DEF Tick, cachevars, gemvars
<1>1. Cached' = Cached
  BY DEF Cached
<1>2. TypeOK'
  BY DEF BoInv, TypeOK
<1>3. CacheOK' /\ HandlesExact'
  BY <1>1 DEF BoInv, CacheOK, AgedOut, Linked, HandlesExact
<1>4. \A p \in Cached' : bucket'[p] # NoBucket /\ free_time'[p] <= time'
  BY <1>1, BoFacts DEF BoInv, TypeOK
<1>5. up' => last_cleaned' <= time'
  BY DEF BoInv, TypeOK
<1> QED
  BY <1>2, <1>3, <1>4, <1>5 DEF BoInv

LEMMA BoCacheFiniKeeps ==
  ASSUME BoInv, BoCacheFini
  PROVE  BoInv'
<1>1. /\ up' = FALSE /\ EtnaBoFree(Cached, free_time) /\ \A o \in Bos : ref[o] = 0
      /\ last_cleaned' = time + MaxAge + 1
      /\ free_list' = << >> /\ bucket_list' = [k \in Buckets |-> << >>]
      /\ UNCHANGED <<ref, time>>
  BY DEF BoCacheFini
<1>2. Cached' = {}
  BY <1>1 DEF Cached, Range
<1>3. shared' = {}
  BY <1>1, BoFacts DEF BoInv, TypeOK, EtnaBoFree
<1>4. HandlesExact' /\ HandleTypeOK'
  BY <1>1, <1>2, BoFacts, HandlesFreed
<1>5. /\ size' \in [Bos -> Nat] /\ bucket' \in [Bos -> Buckets \union {NoBucket}]
      /\ free_time' \in [Bos -> Nat]
      /\ \A o \in Bos : bucket'[o] # NoBucket => size'[o] >= bucket'[o]
  BY <1>1, BoFacts DEF EtnaBoFree, BoInv
<1>6. TypeOK'
  <2>1. << >> \in Seq(Bos)
    OBVIOUS
  <2>2. last_cleaned' \in Nat
    BY <1>1, TimesAssumption DEF BoInv, TypeOK
  <2>3. bucket_list' \in [Buckets -> Seq(Bos)]
    BY <1>1, <2>1
  <2> QED
    BY <1>1, <1>3, <1>4, <1>5, <2>1, <2>2, <2>3 DEF BoInv, TypeOK, HandleTypeOK
<1>7. Linked'
  BY <1>1, <1>2 DEF Linked, NoRepeats, Range
<1>8. CacheOK'
  BY <1>2, <1>7 DEF CacheOK, AgedOut
<1>9. Sorted(free_list', free_time')
  BY <1>1 DEF Sorted
<1> QED
  BY <1>1, <1>2, <1>3, <1>4, <1>5, <1>6, <1>8, <1>9 DEF BoInv

(* The last reference of a bo that is to be cached goes.                   *)
LEMMA BoCachePutKeeps ==
  ASSUME BoInv, NEW o \in Bos, ref[o] = 1, ref' = [ref EXCEPT ![o] = 0],
         bucket[o] # NoBucket, BoCachePut(o), UNCHANGED <<time, up>>
  PROVE  BoInv' /\ \A p \in Bos : ref'[p] > 0 => size'[p] = size[p]
<1> DEFINE times == [free_time EXCEPT ![o] = time]
           list  == Append(free_list, o)
           n     == TooOld(list, times)
           gone  == Range(SubSeq(list, 1, n))
           left  == SubSeq(list, n + 1, Len(list))
           Put(k) == IF k = bucket[o] THEN Append(bucket_list[k], o) ELSE bucket_list[k]
<1>1. /\ free_list' = left
      /\ bucket_list' = [k \in Buckets |-> ListDel(Put(k), gone)]
      /\ last_cleaned' = CleanedAt /\ EtnaBoFree(gone, times)
  BY DEF BoCachePut
<1>2. /\ o \notin Cached /\ o \notin shared /\ bucket[o] \in Buckets
      /\ time \in Nat /\ last_cleaned \in Nat /\ last_cleaned <= time /\ up
      /\ times \in [Bos -> Nat]
      /\ \A p \in Bos \ {o} : times[p] = free_time[p]
      /\ times[o] = time
  BY BoFacts DEF BoInv, TypeOK
<1> HIDE DEF times
<1>a. list = Append(free_list, o)
  OBVIOUS
<1> HIDE DEF list
<1>3. list \in Seq(Bos) /\ NoRepeats(list) /\ Range(list) = Cached \union {o}
  <2>1. free_list \in Seq(Bos) /\ NoRepeats(free_list) /\ o \notin Range(free_list)
    BY <1>2, BoFacts DEF Cached
  <2>2. list \in Seq(Bos) /\ NoRepeats(list) /\ Range(list) = Range(free_list) \union {o}
    BY <1>a, <2>1, AppendNew
  <2> QED
    BY <2>2 DEF Cached
<1>4. Sorted(list, times)
  <2>1. /\ Len(free_list) \in Nat /\ DOMAIN list = 1 .. Len(free_list) + 1
        /\ list[Len(free_list) + 1] = o
        /\ \A i \in 1 .. Len(free_list) : list[i] = free_list[i] /\ list[i] \in Cached
        /\ DOMAIN free_list = 1 .. Len(free_list)
    BY <1>a, BoFacts DEF Cached, Range
  <2>2. \A p \in Cached : times[p] = free_time[p] /\ free_time[p] <= time
    BY <1>2, BoFacts DEF BoInv
  <2>3. \A i, j \in 1 .. Len(free_list) : i <= j => times[list[i]] <= times[list[j]]
    BY <2>1, <2>2 DEF BoInv, Sorted
  <2>4. \A i \in 1 .. Len(free_list) + 1 : times[list[i]] <= times[o] /\ times[o] <= times[o]
    BY <1>2, <2>1, <2>2
  <2> QED
    BY <2>1, <2>3, <2>4 DEF Sorted
<1>5. /\ n \in 0 .. Len(list)
      /\ ~(time - last_cleaned < Interval) /\ n < Len(list) => time - times[list[n + 1]] < MaxAge
  BY <1>2, <1>3, TooOldFound
<1> HIDE DEF n
<1>6. /\ left \in Seq(Bos) /\ NoRepeats(left) /\ Sorted(left, times)
      /\ gone \subseteq Cached \union {o}
      /\ Range(left) = (Cached \union {o}) \ gone
      /\ \A u \in Range(left) : \E i \in n + 1 .. Len(list) : u = list[i]
  BY <1>3, <1>4, <1>5, CutProperties
<1> HIDE DEF left, gone
<1>7. Cached' = (Cached \union {o}) \ gone /\ Cached' = Range(left)
  BY <1>1, <1>6 DEF Cached
<1>b. /\ size' = [p \in Bos |-> IF p \in gone THEN 0 ELSE size[p]]
      /\ bucket' = [p \in Bos |-> IF p \in gone THEN NoBucket ELSE bucket[p]]
      /\ free_time' = [p \in Bos |-> IF p \in gone THEN 0 ELSE times[p]]
      /\ shared' = shared \ gone
  BY <1>1 DEF EtnaBoFree
<1>c. \A p \in Cached' : /\ p \in Bos /\ p \notin gone /\ p \in Cached \union {o}
                         /\ size'[p] = size[p] /\ bucket'[p] = bucket[p] /\ free_time'[p] = times[p]
  BY <1>7, <1>b, BoFacts
<1>8. ASSUME NEW k \in Buckets
      PROVE  /\ bucket_list'[k] \in Seq(Bos) /\ NoRepeats(bucket_list'[k])
             /\ Range(bucket_list'[k]) = {p \in Cached' : bucket'[p] = k}
  <2>1. /\ Put(k) \in Seq(Bos) /\ NoRepeats(Put(k))
        /\ Range(Put(k)) = {p \in Cached \union {o} : bucket[p] = k}
    <3>1. /\ bucket_list[k] \in Seq(Bos) /\ NoRepeats(bucket_list[k])
          /\ Range(bucket_list[k]) = {p \in Cached : bucket[p] = k}
      BY BoFacts
    <3>2. CASE k = bucket[o]
      <4>0. Put(k) = Append(bucket_list[k], o)
        BY <3>2
      <4> HIDE DEF Put
      <4>1. /\ Put(k) \in Seq(Bos) /\ NoRepeats(Put(k))
            /\ Range(Put(k)) = Range(bucket_list[k]) \union {o}
        <5>1. o \notin Range(bucket_list[k])
          BY <1>2, <3>1
        <5> QED
          BY <3>1, <4>0, <5>1, AppendNew
      <4> QED
        BY <3>1, <3>2, <4>1
    <3>3. CASE k # bucket[o]
      BY <3>1, <3>3
    <3> QED
      BY <3>2, <3>3
  <2> HIDE DEF Put
  <2>2. bucket_list'[k] = ListDel(Put(k), gone)
    BY <1>1
  <2>3. /\ ListDel(Put(k), gone) \in Seq(Bos) /\ NoRepeats(ListDel(Put(k), gone))
        /\ Range(ListDel(Put(k), gone)) = Range(Put(k)) \ gone
    BY <2>1, ListDelProperties
  <2>4. {p \in Cached' : bucket'[p] = k} = {p \in Cached' : bucket[p] = k}
    BY <1>c
  <2> QED
    BY <1>7, <2>1, <2>2, <2>3, <2>4
<1>9. Linked'
  BY <1>1, <1>6, <1>8 DEF Linked
<1>14. HandlesExact' /\ HandleTypeOK'
  <2>1. gone \subseteq Bos /\ \A p \in gone : p = o \/ p \in Cached
    BY <1>6, BoFacts
  <2>2. \A p \in Bos : ref'[p] > 0 \/ p \in Cached' <=> p \notin gone /\ (ref[p] > 0 \/ p \in Cached)
    BY <1>7, <2>1, BoFacts
  <2> QED
    BY <1>1, <2>1, <2>2, HandlesFreed
<1>10. TypeOK'
  <2>1. bucket_list' \in [Buckets -> Seq(Bos)]
    BY <1>1, <1>8
  <2>2. ref' \in [Bos -> Nat]
    BY BoFacts
  <2>3. last_cleaned' \in Nat
    BY <1>1, <1>2 DEF CleanedAt
  <2>4. free_time' \in [Bos -> Nat] /\ free_list' \in Seq(Bos)
    BY <1>1, <1>2, <1>6, <1>b
  <2>5. size' \in [Bos -> Nat] /\ bucket' \in [Bos -> Buckets \union {NoBucket}]
    BY <1>b, BoFacts
  <2> QED
    BY <1>14, <1>b, <2>1, <2>2, <2>3, <2>4, <2>5 DEF BoInv, TypeOK, HandleTypeOK
<1>11. AgedOut'
  <2> SUFFICES ASSUME NEW u \in Cached' PROVE last_cleaned' - times[u] < MaxAge
    BY <1>c DEF AgedOut
  <2>1. u \in Cached \union {o} /\ u \in Bos /\ times[u] \in Nat
    BY <1>2, <1>7, BoFacts
  <2>2. CASE time - last_cleaned < Interval
    <3>1. last_cleaned' = last_cleaned
      BY <1>1, <2>2 DEF CleanedAt
    <3>2. CASE u = o
      BY <1>2, <3>1, <3>2, TimesAssumption
    <3>3. CASE u # o
      BY <1>2, <2>1, <3>1, <3>3 DEF BoInv, CacheOK, AgedOut
    <3> QED
      BY <3>2, <3>3
  <2>3. CASE ~(time - last_cleaned < Interval)
    <3>1. last_cleaned' = time
      BY <1>1, <2>3 DEF CleanedAt
    <3>2. PICK i \in n + 1 .. Len(list) : u = list[i]
      BY <1>6, <1>7
    <3>3. n + 1 \in DOMAIN list /\ i \in DOMAIN list /\ n < Len(list) /\ n + 1 <= i
      BY <1>3, <1>5
    <3>4. times[list[n + 1]] <= times[u] /\ times[list[n + 1]] \in Nat
      BY <1>2, <1>3, <1>4, <3>2, <3>3 DEF Sorted
    <3>5. time - times[list[n + 1]] < MaxAge
      BY <1>5, <2>3, <3>3
    <3> QED
      BY <1>2, <2>1, <3>1, <3>4, <3>5, TimesAssumption
  <2> QED
    BY <2>2, <2>3
<1>12. \A p \in Cached' : /\ p \in Bos /\ ref'[p] = 0 /\ bucket'[p] # NoBucket
                          /\ size'[p] >= bucket'[p] /\ free_time'[p] <= time'
  <2> SUFFICES ASSUME NEW p \in Cached'
               PROVE  /\ p \in Bos /\ ref'[p] = 0 /\ bucket[p] # NoBucket
                      /\ size[p] >= bucket[p] /\ times[p] <= time
    BY <1>c
  <2>1. CASE p = o
    BY <1>2, <2>1, BoFacts DEF BoInv
  <2>2. CASE p # o
    BY <1>2, <1>7, <2>2, BoFacts DEF BoInv
  <2> QED
    BY <2>1, <2>2
<1>13. CacheOK'
  BY <1>9, <1>11, <1>12 DEF CacheOK
<1>15. \A p \in shared' : ref'[p] > 0 /\ bucket'[p] = NoBucket
  BY <1>2, <1>b, BoFacts DEF BoInv, TypeOK
<1>16. Sorted(free_list', free_time') /\ last_cleaned' <= time' /\ up'
  <2>1. \A i \in DOMAIN left : left[i] \in Range(left)
    BY DEF Range
  <2>2. Sorted(left, free_time')
    BY <1>6, <1>7, <1>c, <2>1 DEF Sorted
  <2> QED
    BY <1>1, <1>2, <2>2 DEF CleanedAt
<1>17. \A p \in Bos : bucket'[p] # NoBucket => size'[p] >= bucket'[p]
  BY <1>b DEF BoInv
<1>18. \A p \in Bos : ref'[p] > 0 => size'[p] = size[p]
  <2>1. \A p \in gone : ref'[p] = 0
    BY <1>6, BoFacts
  <2> QED
    BY <1>b, <2>1
<1> QED
  BY <1>10, <1>12, <1>13, <1>14, <1>15, <1>16, <1>17, <1>18 DEF BoInv

LEMMA BoDelKeeps ==
  ASSUME BoInv, NEW o \in Bos, BoDel(o)
  PROVE  /\ BoInv' /\ ref' = [ref EXCEPT ![o] = @ - 1]
         /\ \A p \in Bos : ref'[p] > 0 => size'[p] = size[p]
<1>1. ref[o] > 0 /\ ref' = [ref EXCEPT ![o] = @ - 1] /\ UNCHANGED <<time, up>>
  BY DEF BoDel
<1>2. CASE ref[o] > 1 /\ UNCHANGED <<size, bucket, cachevars, gemvars, shared>>
  <2>1. Cached' = Cached /\ o \notin Cached
    BY <1>1, <1>2, BoFacts DEF Cached, cachevars
  <2>2. TypeOK'
    BY <1>1, <1>2 DEF BoInv, TypeOK, cachevars, gemvars
  <2>3. \A p \in Bos : (ref'[p] > 0 <=> ref[p] > 0) /\ (p \in Cached => ref'[p] = 0)
    BY <1>1, <1>2, <2>1, BoFacts
  <2>4. CacheOK'
    BY <1>1, <1>2, <2>1, <2>3, BoFacts DEF BoInv, CacheOK, AgedOut, Linked, cachevars
  <2>5. HandlesExact'
    BY <1>2, <2>1, <2>3, BoFacts DEF BoInv, HandlesExact, gemvars
  <2>6. \A p \in shared' : ref'[p] > 0 /\ bucket'[p] = NoBucket
    BY <1>1, <1>2, <2>3 DEF BoInv, TypeOK
  <2>7. up'
    BY <1>1 DEF BoInv
  <2> QED
    BY <1>1, <1>2, <2>1, <2>2, <2>4, <2>5, <2>6, <2>7 DEF BoInv, cachevars
<1>3. CASE ref[o] = 1 /\ bucket[o] # NoBucket /\ BoCachePut(o)
  <2>1. ref' = [ref EXCEPT ![o] = 0]
    BY <1>1, <1>3, BoFacts
  <2> QED
    BY <1>1, <1>3, <2>1, BoCachePutKeeps
<1>4. CASE /\ ref[o] = 1 /\ bucket[o] = NoBucket
           /\ EtnaBoFree({o}, free_time) /\ UNCHANGED <<bucket_list, free_list, last_cleaned>>
  <2>1. Cached' = Cached /\ o \notin Cached
    BY <1>1, <1>4, BoFacts DEF Cached
  <2>2. /\ \A p \in Bos : (ref'[p] > 0 <=> ref[p] > 0 /\ p # o)
        /\ \A p \in Cached : p \in Bos /\ p # o /\ ref'[p] = 0
    BY <1>1, <1>4, <2>1, BoFacts
  <2>3. /\ size' = [p \in Bos |-> IF p \in {o} THEN 0 ELSE size[p]]
        /\ bucket' = [p \in Bos |-> IF p \in {o} THEN NoBucket ELSE bucket[p]]
        /\ free_time' = [p \in Bos |-> IF p \in {o} THEN 0 ELSE free_time[p]]
        /\ shared' = shared \ {o}
    BY <1>4 DEF EtnaBoFree
  <2>4. HandlesExact' /\ HandleTypeOK'
    <3>1. {o} \in SUBSET Bos
      OBVIOUS
    <3> QED
      BY <1>4, <2>1, <2>2, <3>1, HandlesFreed
  <2>5. /\ size' \in [Bos -> Nat] /\ bucket' \in [Bos -> Buckets \union {NoBucket}]
        /\ free_time' \in [Bos -> Nat] /\ ref' \in [Bos -> Nat]
    BY <1>1, <2>3, BoFacts
  <2>6. TypeOK'
    BY <1>1, <1>4, <2>3, <2>4, <2>5 DEF BoInv, TypeOK, HandleTypeOK
  <2>7. \A p \in Cached : size'[p] = size[p] /\ bucket'[p] = bucket[p] /\ free_time'[p] = free_time[p]
    BY <2>2, <2>3
  <2>8. Linked'
    <3>1. \A k \in Buckets : {p \in Cached' : bucket'[p] = k} = {p \in Cached : bucket[p] = k}
      BY <2>1, <2>7
    <3> QED
      BY <1>4, <3>1, BoFacts DEF Linked
  <2>9. CacheOK'
    BY <1>4, <2>1, <2>2, <2>7, <2>8 DEF BoInv, CacheOK, AgedOut
  <2>10. Sorted(free_list', free_time')
    <3>1. \A i \in DOMAIN free_list : free_list[i] \in Cached
      BY DEF Cached, Range
    <3> QED
      BY <1>4, <2>7, <3>1 DEF BoInv, Sorted
  <2>11. \A p \in shared' : ref'[p] > 0 /\ bucket'[p] = NoBucket
    BY <2>2, <2>3 DEF BoInv, TypeOK
  <2>12. up /\ last_cleaned' = last_cleaned
    BY <1>1, <1>4 DEF BoInv
  <2>13. \A p \in Bos : bucket'[p] # NoBucket => size'[p] >= bucket'[p]
    BY <2>3 DEF BoInv
  <2>14. \A p \in Cached' : bucket'[p] # NoBucket /\ free_time'[p] <= time'
    BY <1>1, <2>1, <2>7 DEF BoInv
  <2> QED
    BY <1>1, <2>2, <2>3, <2>4, <2>6, <2>9, <2>10, <2>11, <2>12, <2>13, <2>14 DEF BoInv
<1> QED
  BY <1>1, <1>2, <1>3, <1>4 DEF BoDel

LEMMA BoInit == Init => BoInv
<1> SUFFICES ASSUME Init PROVE BoInv
  OBVIOUS
<1>1. Cached = {} /\ free_list = << >>
  BY DEF Init, Cached, Range
<1>2. TypeOK
  BY NoBucketAssumption DEF Init, TypeOK
<1>3. Linked
  BY <1>1 DEF Init, Linked, NoRepeats, Range
<1>4. CacheOK /\ HandlesExact /\ Sorted(free_list, free_time)
  BY <1>1, <1>3 DEF Init, CacheOK, AgedOut, HandlesExact, Sorted
<1> QED
  BY <1>1, <1>2, <1>4 DEF Init, BoInv

-----------------------------------------------------------------------------
(* Layouts.                                                                *)

LEMMA AlignUp ==
  ASSUME NEW n \in Nat, NEW a \in Nat \ {0}
  PROVE  Align(n, a) \in Nat /\ Align(n, a) >= n
<1> DEFINE m == n + a - 1
           q == m \div a
<1>1. m \in Nat /\ q \in Nat /\ m % a \in 0 .. a - 1 /\ m = a * q + (m % a)
  OBVIOUS
<1>2. q * a \in Nat /\ q * a = a * q
  BY <1>1
<1>3. q * a >= n
  <2> HIDE DEF q
  <2> QED
    BY <1>1, <1>2
<1> QED
  BY <1>2, <1>3 DEF Align

LEMMA Aligned64 == ASSUME NEW n \in Nat, n % 64 = 0 PROVE Align(n, 64) = n
BY DEF Align

LEMMA PitchIsNat ==
  ASSUME NEW w \in Nat \ {0}, NEW bpp \in Nat, bpp >= 8
  PROVE  EtnavivPitch(w, bpp) \in Nat \ {0}
<1>1. bpp \div 8 \in Nat /\ bpp \div 8 >= 1
  OBVIOUS
<1>2. w * (bpp \div 8) \in Nat /\ w * (bpp \div 8) >= 1
  <2> DEFINE d == bpp \div 8
  <2> HIDE DEF d
  <2>1. d \in Nat /\ d >= 1
    BY <1>1 DEF d
  <2>2. w * d \in Nat /\ w * d >= 1
    BY <2>1
  <2> QED
    BY <2>2 DEF d
<1> QED
  BY <1>2, AlignUp DEF EtnavivPitch

(* The planes lie in the memory that etnaviv_get_fmt_info asks for, if     *)
(* their alignment moves none of them.                                     *)
LEMMA Layout ==
  ASSUME NEW im \in Images
  PROVE  ImageSize(im) \in Nat /\ PlanesInside(im)
<1> USE PortAssumption
<1>1. im.width \in Nat \ {0} /\ im.height \in Nat \ {0}
  OBVIOUS
<1>2. CASE im.fourcc \in Planar
  <2> DEFINE y == Align(im.width, 16) * im.height
             u == Align(im.width \div 2, 8) * (im.height \div 2)
             second == Align(y, 64)
             third == Align(second + u, 64)
  <2>1. Planes(im) = <<[offset |-> 0, size |-> y], [offset |-> second, size |-> u],
                       [offset |-> third, size |-> u]>>
    BY <1>2 DEF Planes
  <2>2. y \in Nat
    <3>1. Align(im.width, 16) \in Nat
      BY <1>1, AlignUp
    <3> QED
      BY <1>1, <3>1
  <2>3. u \in Nat
    <3>1. im.width \div 2 \in Nat /\ im.height \div 2 \in Nat
      BY <1>1
    <3>2. Align(im.width \div 2, 8) \in Nat
      BY <3>1, AlignUp
    <3> QED
      BY <3>1, <3>2
  <2> HIDE DEF y, u, second, third
  <2>4. ImageSize(im) = Align(y + u + u, PageSize)
    BY <1>2, <2>1 DEF ImageSize
  <2>5. ImageSize(im) \in Nat /\ ImageSize(im) >= y + u + u
    BY <2>2, <2>3, <2>4, AlignUp
  <2>6. ASSUME \A i \in DOMAIN Planes(im) : Planes(im)[i].size % 64 = 0
        PROVE  \A i \in DOMAIN Planes(im) :
                 Planes(im)[i].offset + Planes(im)[i].size <= ImageSize(im)
    <3>1. y % 64 = 0 /\ u % 64 = 0 /\ DOMAIN Planes(im) = 1 .. 3
      BY <2>1, <2>6
    <3>2. second = y
      BY <2>2, <3>1, Aligned64 DEF second
    <3>3. (y + u) % 64 = 0 /\ y + u \in Nat
      BY <2>2, <2>3, <3>1
    <3>4. third = y + u
      BY <3>2, <3>3, Aligned64 DEF third
    <3> QED
      BY <2>1, <2>2, <2>3, <2>5, <3>1, <3>2, <3>4
  <2> QED
    BY <2>5, <2>6 DEF PlanesInside
<1>3. CASE im.fourcc \notin Planar
  <2> DEFINE y == EtnavivPitch(im.width, Bpp(im)) * im.height
  <2>1. Planes(im) = <<[offset |-> 0, size |-> y]>>
    BY <1>3 DEF Planes
  <2>2. y \in Nat
    <3>1. EtnavivPitch(im.width, Bpp(im)) \in Nat
      BY <1>1, PitchIsNat DEF Bpp
    <3> QED
      BY <1>1, <3>1
  <2> HIDE DEF y
  <2>3. ImageSize(im) = Align(y, PageSize)
    BY <1>3, <2>1 DEF ImageSize
  <2>4. ImageSize(im) \in Nat /\ ImageSize(im) >= y
    BY <2>2, <2>3, AlignUp
  <2> QED
    BY <2>1, <2>2, <2>4 DEF PlanesInside
<1> QED
  BY <1>2, <1>3

LEMMA Stage1IsNat ==
  ASSUME image \in Images, drw_h \in Heights
  PROVE  Stage1Needed \in Nat \ {0}
<1> USE PortAssumption
<1>1. Max({BitsPerPixel, Bpp(image)}) \in {BitsPerPixel, Bpp(image)}
  <2>1. Bpp(image) \in Nat
    BY DEF Bpp
  <2>2. \E x \in {BitsPerPixel, Bpp(image)} : \A z \in {BitsPerPixel, Bpp(image)} : x >= z
    <3>1. CASE BitsPerPixel >= Bpp(image)
      BY <2>1, <3>1
    <3>2. CASE ~(BitsPerPixel >= Bpp(image))
      BY <2>1, <3>2
    <3> QED
      BY <3>1, <3>2
  <2> QED
    BY <2>2 DEF Max
<1>2. Stage1Pitch(image) \in Nat \ {0}
  <2> DEFINE bpp == IF image.fourcc \notin Yuv THEN Max({BitsPerPixel, Bpp(image)})
                    ELSE IF PE20 THEN 16 ELSE BitsPerPixel
  <2>1. bpp \in Nat /\ bpp >= 8
    <3>1. Bpp(image) \in Nat /\ Bpp(image) >= 8
      BY DEF Bpp
    <3> QED
      BY <1>1, <3>1
  <2>2. Stage1Pitch(image) = EtnavivPitch(image.width, bpp)
    BY DEF Stage1Pitch
  <2> HIDE DEF bpp
  <2> QED
    BY <2>1, <2>2, PitchIsNat
<1> QED
  BY <1>2 DEF Stage1Needed

-----------------------------------------------------------------------------
(* The port.                                                               *)

LEMMA XvFacts ==
  ASSUME XvInv
  PROVE  /\ BoInv /\ ref \in [Bos -> Nat] /\ size \in [Bos -> Nat]
         /\ NoBo \notin Bos /\ stage1_bo \in Bos \union {NoBo} /\ usr \in Bos \union {NoBo}
         /\ Imported => usr \in Bos
BY BoFacts, PortAssumption DEF XvInv, PortTypeOK, PortInv

LEMMA XvInitInv == XvInit => XvInv
<1> SUFFICES ASSUME XvInit PROVE XvInv
  OBVIOUS
<1>1. BoInv
  BY BoInit DEF XvInit
<1>2. PortTypeOK
  BY DEF XvInit, PortTypeOK
<1>3. PortInv
  BY DEF XvInit, Init, PortInv, Imported
<1> QED
  BY <1>1, <1>2, <1>3 DEF XvInv

LEMMA PutImageKeeps ==
  ASSUME XvInv, NEW im \in Images, NEW s \in Heights, NEW h \in Heights, PutImage(im, s, h)
  PROVE  XvInv'
<1> USE DEF PutImage
<1>1. BoInv'
  BY DEF XvInv, vars, cachevars, gemvars, BoInv, TypeOK, CacheOK, Linked, AgedOut, Cached, HandlesExact
<1>2. PortTypeOK'
  BY DEF XvInv, PortTypeOK
<1>3. PortInv'
  BY DEF XvInv, PortTypeOK, PortInv, Imported, vars
<1> QED
  BY <1>1, <1>2, <1>3 DEF XvInv

(* A step that leaves the bos alone.                                       *)
LEMMA BosStay ==
  ASSUME BoInv, UNCHANGED vars
  PROVE  BoInv'
BY DEF vars, cachevars, gemvars, BoInv, TypeOK, CacheOK, Linked, AgedOut, Cached, HandlesExact

LEMMA ImportKeeps ==
  ASSUME XvInv, NEW o \in Bos, NEW bytes \in Nat, at = "import", BoImport(o, bytes), usr' = o,
         at' = IF bytes < ImageSize(image) THEN "bad_alloc"
               ELSE IF Scaled THEN "stage1" ELSE "blit",
         UNCHANGED <<image, stage1_bo, stage1_size, s_h, drw_h, others>>
  PROVE  XvInv'
<1>1. BoInv' /\ Got(o, bytes)
  BY XvFacts, BoImportKeeps
<1>2. PortTypeOK'
  BY DEF XvInv, PortTypeOK
<1>3. image \in Images /\ ImageSize(image) \in Nat
  BY Layout DEF XvInv, PortInv
<1>4. usr = NoBo /\ o # stage1_bo /\ o \notin others /\ o # NoBo
  BY <1>1, XvFacts DEF XvInv, PortInv, Imported, Got
<1>5. ref'[o] = 1 /\ size'[o] \in Nat /\ \A p \in Bos \ {o} : ref'[p] = ref[p] /\ size'[p] = size[p]
  BY <1>1, XvFacts DEF Got
<1>6. {p \in Bos : ref'[p] > 0} = {p \in Bos : ref[p] > 0} \union {o}
  BY <1>5
<1>7. {p \in Bos : ref'[p] > 0} = others' \union ({stage1_bo', usr'} \ {NoBo})
  BY <1>4, <1>6 DEF XvInv, PortInv
<1>8. Imported' => ref'[usr'] = 1 /\ usr' # stage1_bo' /\ usr' \notin others'
  BY <1>4, <1>5
<1>9. Imported' /\ at' # "bad_alloc" => size'[usr'] >= ImageSize(image')
  BY <1>1, <1>3, <1>5 DEF Got
<1>10. stage1_bo' # NoBo => ref'[stage1_bo'] = 1 /\ size'[stage1_bo'] >= stage1_size'
  BY <1>4, <1>5, XvFacts DEF XvInv, PortInv
<1>11. /\ at' \in {"stage1", "realloc"} => Scaled'
       /\ at' # "realloc" /\ at' # "idle" /\ Imported' /\ usr' # NoBo
       /\ ~(at' = "blit" /\ Scaled')
  BY <1>4 DEF Scaled, Imported
<1>12. /\ image' \in Images /\ drw_h' \in Heights /\ stage1_bo' \notin others'
       /\ stage1_bo' = NoBo => stage1_size' = 0
  BY DEF XvInv, PortInv
<1> QED
  BY <1>1, <1>2, <1>7, <1>8, <1>9, <1>10, <1>11, <1>12 DEF XvInv, PortInv

LEMMA PortSteps ==
  ASSUME XvInv, ImportFails \/ Stage1Kept \/ ReallocFails
  PROVE  XvInv'
<1>1. BoInv' /\ UNCHANGED <<ref, size>>
  BY XvFacts, BosStay DEF ImportFails, Stage1Kept, ReallocFails, vars
<1>2. CASE ImportFails
  BY <1>1, <1>2 DEF ImportFails, Returns, XvInv, PortTypeOK, PortInv, Imported
<1>3. CASE Stage1Kept
  <2>0. Stage1Needed \in Nat \ {0} /\ Scaled
    BY <1>3, Stage1IsNat DEF Stage1Kept, XvInv, PortInv
  <2>1. stage1_size >= Stage1Needed /\ stage1_bo # NoBo
    BY <1>3, <2>0 DEF Stage1Kept, Realloc, XvInv, PortTypeOK, PortInv
  <2>2. Scaled' = Scaled /\ Stage1Needed' = Stage1Needed /\ ImageSize(image') = ImageSize(image)
    BY <1>3 DEF Stage1Kept, Scaled, Stage1Needed
  <2> QED
    BY <1>1, <1>3, <2>0, <2>1, <2>2 DEF Stage1Kept, XvInv, PortTypeOK, PortInv, Imported
<1>4. CASE ReallocFails
  BY <1>1, <1>4, XvFacts DEF ReallocFails, XvInv, PortTypeOK, PortInv, Imported
<1> QED
  BY <1>2, <1>3, <1>4

LEMMA ReallocDelKeeps ==
  ASSUME XvInv, ReallocDel
  PROVE  XvInv'
<1>1. /\ at = "stage1" /\ at' = "realloc" /\ stage1_bo' = NoBo
      /\ UNCHANGED <<image, stage1_size, usr, s_h, drw_h, others>>
  BY DEF ReallocDel, Realloc
<1>2. PortTypeOK'
  BY <1>1 DEF XvInv, PortTypeOK
<1>3. /\ BoInv' /\ \A p \in Bos : ref'[p] > 0 => size'[p] = size[p]
      /\ stage1_bo = NoBo => ref' = ref
      /\ stage1_bo # NoBo => stage1_bo \in Bos /\ ref' = [ref EXCEPT ![stage1_bo] = @ - 1]
  <2>1. CASE stage1_bo = NoBo
    BY <2>1, XvFacts, BosStay DEF ReallocDel, vars
  <2>2. CASE stage1_bo # NoBo
    BY <2>2, XvFacts, BoDelKeeps DEF ReallocDel
  <2> QED
    BY <2>1, <2>2
<1>4. /\ Imported /\ usr \in Bos /\ usr # stage1_bo /\ ref[usr] = 1 /\ usr \notin others
      /\ size[usr] >= ImageSize(image) /\ Scaled
      /\ image \in Images /\ drw_h \in Heights
      /\ stage1_bo # NoBo => ref[stage1_bo] = 1
  BY <1>1, XvFacts DEF XvInv, PortInv, Imported
<1>5. \A p \in Bos : ref'[p] = IF p = stage1_bo THEN 0 ELSE ref[p]
  BY <1>3, <1>4, XvFacts
<1>6. {p \in Bos : ref'[p] > 0} = others' \union ({stage1_bo', usr'} \ {NoBo})
  BY <1>1, <1>4, <1>5, XvFacts DEF XvInv, PortInv
<1>7. Scaled' = Scaled /\ ImageSize(image') = ImageSize(image)
  BY <1>1 DEF Scaled
<1>8. NoBo \notin others
  BY XvFacts DEF XvInv, PortTypeOK
<1>9. PortInv'
  BY <1>1, <1>3, <1>4, <1>5, <1>6, <1>7, <1>8, XvFacts DEF PortInv, Imported
<1> QED
  BY <1>2, <1>3, <1>9 DEF XvInv

LEMMA ReallocNewKeeps ==
  ASSUME XvInv, ReallocNew
  PROVE  XvInv'
<1>1. /\ at = "realloc" /\ at' = "blit" /\ stage1_size' = Stage1Needed
      /\ stage1_bo' = CHOOSE o \in Bos : ref'[o] > ref[o]
      /\ UNCHANGED <<image, usr, s_h, drw_h, others>>
  BY DEF ReallocNew
<1>2. /\ Imported /\ usr \in Bos /\ ref[usr] = 1 /\ usr \notin others /\ stage1_bo = NoBo
      /\ size[usr] >= ImageSize(image)
      /\ image \in Images /\ drw_h \in Heights
  BY <1>1, XvFacts DEF XvInv, PortInv, Imported
<1>3. Stage1Needed \in Nat \ {0}
  BY <1>2, Stage1IsNat
<1>4. BoInv' /\ \E o \in Bos : Got(o, Stage1Needed)
  BY <1>3, XvFacts, BoNewCachedKeeps, BoNewKeeps DEF ReallocNew
<1>5. PICK o \in Bos : Got(o, Stage1Needed)
  BY <1>4
<1>6. ref[o] = 0 /\ ref'[o] = 1 /\ \A p \in Bos \ {o} : ref'[p] = ref[p]
  BY <1>5, XvFacts DEF Got
<1>7. stage1_bo' = o
  <2>1. \A p \in Bos : ref'[p] > ref[p] <=> p = o
    BY <1>6, XvFacts
  <2> QED
    BY <1>1, <2>1
<1>8. /\ size'[o] \in Nat /\ size'[o] >= Stage1Needed
      /\ \A p \in Bos \ {o} : size'[p] = size[p]
  BY <1>5 DEF Got
<1>9. o # usr /\ o \notin others /\ o # NoBo
  BY <1>2, <1>6, XvFacts DEF XvInv, PortInv
<1>10. {p \in Bos : ref'[p] > 0} = others' \union ({stage1_bo', usr'} \ {NoBo})
  BY <1>1, <1>2, <1>6, <1>7, <1>9, XvFacts DEF XvInv, PortInv
<1>11. PortTypeOK'
  BY <1>1, <1>3, <1>7 DEF XvInv, PortTypeOK
<1>12. Stage1Needed' = Stage1Needed /\ ImageSize(image') = ImageSize(image)
  BY <1>1 DEF Stage1Needed
<1>13. PortInv'
  BY <1>1, <1>2, <1>3, <1>6, <1>7, <1>8, <1>9, <1>10, <1>12, XvFacts DEF PortInv, Imported
<1> QED
  BY <1>4, <1>11, <1>13 DEF XvInv

LEMMA DoneKeeps ==
  ASSUME XvInv, Done
  PROVE  XvInv'
<1>1. /\ at \in {"blit", "bad_alloc"} /\ BoDel(usr)
      /\ at' = "idle" /\ s_h' = 0 /\ drw_h' = 0 /\ usr' = NoBo
      /\ UNCHANGED <<image, stage1_bo, stage1_size, others>>
  BY DEF Done, Returns
<1>2. usr \in Bos /\ ref[usr] = 1 /\ usr # stage1_bo /\ usr \notin others /\ NoBo \notin others
  BY <1>1, XvFacts DEF XvInv, PortInv, PortTypeOK, Imported
<1>3. /\ BoInv' /\ ref' = [ref EXCEPT ![usr] = @ - 1]
      /\ \A p \in Bos : ref'[p] > 0 => size'[p] = size[p]
  BY <1>1, <1>2, XvFacts, BoDelKeeps
<1>4. \A p \in Bos : ref'[p] = IF p = usr THEN 0 ELSE ref[p]
  BY <1>2, <1>3, XvFacts
<1>5. {p \in Bos : ref'[p] > 0} = others' \union ({stage1_bo', usr'} \ {NoBo})
  BY <1>1, <1>2, <1>4, XvFacts DEF XvInv, PortInv
<1>6. PortTypeOK'
  BY <1>1 DEF XvInv, PortTypeOK
<1>7. PortInv'
  BY <1>1, <1>2, <1>3, <1>4, <1>5, XvFacts DEF XvInv, PortInv, Imported
<1> QED
  BY <1>3, <1>6, <1>7 DEF XvInv

LEMMA StopVideoKeeps ==
  ASSUME XvInv, StopVideo
  PROVE  XvInv'
<1>1. /\ at = "idle" /\ stage1_bo' = NoBo /\ stage1_size' = 0 /\ image' = NoImage
      /\ UNCHANGED <<usr, s_h, drw_h, at, others>>
  BY DEF StopVideo
<1>2. /\ BoInv' /\ \A p \in Bos : ref'[p] > 0 => size'[p] = size[p]
      /\ stage1_bo = NoBo => ref' = ref
      /\ stage1_bo # NoBo => stage1_bo \in Bos /\ ref' = [ref EXCEPT ![stage1_bo] = @ - 1]
  <2>1. CASE stage1_bo = NoBo
    BY <2>1, XvFacts, BosStay DEF StopVideo, vars
  <2>2. CASE stage1_bo # NoBo
    BY <2>2, XvFacts, BoDelKeeps DEF StopVideo
  <2> QED
    BY <2>1, <2>2
<1>3. /\ usr = NoBo /\ NoBo \notin others /\ stage1_bo \notin others
      /\ stage1_bo # NoBo => ref[stage1_bo] = 1
  BY <1>1, XvFacts DEF XvInv, PortInv, PortTypeOK, Imported
<1>4. \A p \in Bos : ref'[p] = IF p = stage1_bo THEN 0 ELSE ref[p]
  BY <1>2, <1>3, XvFacts
<1>5. {p \in Bos : ref'[p] > 0} = others' \union ({stage1_bo', usr'} \ {NoBo})
  BY <1>1, <1>3, <1>4, XvFacts DEF XvInv, PortInv
<1>6. PortTypeOK'
  BY <1>1 DEF XvInv, PortTypeOK
<1>7. PortInv'
  BY <1>1, <1>3, <1>5 DEF PortInv, Imported
<1> QED
  BY <1>2, <1>6, <1>7 DEF XvInv

(* The bos of the port stay as they are while the rest of the server, or   *)
(* time, takes a step.                                                     *)
LEMMA OthersKeep ==
  ASSUME XvInv, at = "idle", BoInv', UNCHANGED port,
         others' = {o \in Bos : ref'[o] > 0} \ {stage1_bo},
         stage1_bo # NoBo => ref'[stage1_bo] = 1 /\ size'[stage1_bo] = size[stage1_bo]
  PROVE  XvInv'
<1>1. usr = NoBo /\ stage1_bo \in Bos \union {NoBo} /\ NoBo \notin Bos
  BY XvFacts DEF XvInv, PortInv, Imported
<1>2. {o \in Bos : ref'[o] > 0} = others' \union ({stage1_bo', usr'} \ {NoBo})
  BY <1>1 DEF port
<1>3. PortTypeOK'
  BY DEF XvInv, PortTypeOK, port
<1>4. PortInv'
  BY <1>1, <1>2 DEF XvInv, PortInv, Imported, port
<1> QED
  BY <1>3, <1>4 DEF XvInv

LEMMA OthersKeeps ==
  ASSUME XvInv, Others
  PROVE  XvInv'
<1>1. at = "idle" /\ UNCHANGED port /\ others' = {o \in Bos : ref'[o] > 0} \ {stage1_bo}
  BY DEF Others
<1>2. stage1_bo # NoBo => stage1_bo \in Bos /\ ref[stage1_bo] = 1 /\ stage1_bo \notin others
  BY XvFacts DEF XvInv, PortInv
<1>3. ASSUME NEW o \in Bos, NEW bytes \in Nat, BoInv', Got(o, bytes) PROVE XvInv'
  <2>1. stage1_bo # NoBo => ref'[stage1_bo] = 1 /\ size'[stage1_bo] = size[stage1_bo]
    BY <1>2, <1>3, XvFacts DEF Got
  <2> QED
    BY <1>1, <1>3, <2>1, OthersKeep
<1>4. ASSUME NEW bytes \in Sizes, BoNewCached(bytes) PROVE XvInv'
  BY <1>3, <1>4, XvFacts, BoNewCachedKeeps, SizesAssumption
<1>5. ASSUME NEW o \in Bos, NEW bytes \in Sizes, BoNew(o, bytes) \/ BoImport(o, bytes) \/ BoFromDmabuf(o, bytes)
      PROVE  XvInv'
  BY <1>3, <1>5, XvFacts, BoNewKeeps, BoImportKeeps, SizesAssumption
<1>6. ASSUME NEW o \in others, BoFlink(o) \/ BoToDmabuf(o) \/ BoRef(o) \/ BoDel(o) PROVE XvInv'
  <2>1. o \in Bos
    BY DEF XvInv, PortTypeOK
  <2>2. /\ BoInv' /\ \A p \in Bos : ref'[p] > 0 => size'[p] = size[p]
        /\ \A p \in Bos \ {o} : ref'[p] = ref[p]
    <3>1. CASE BoFlink(o)
      BY <2>1, <3>1, XvFacts, BoFlinkKeeps DEF BoFlink
    <3>2. CASE BoRef(o)
      BY <2>1, <3>2, XvFacts, BoRefKeeps DEF BoRef
    <3>3. CASE BoDel(o)
      BY <2>1, <3>3, XvFacts, BoDelKeeps
    <3>4. CASE BoToDmabuf(o)
      BY <2>1, <3>4, XvFacts, BoToDmabufKeeps DEF BoToDmabuf
    <3> QED
      BY <1>6, <3>1, <3>2, <3>3, <3>4
  <2> QED
    BY <1>1, <1>2, <2>2, OthersKeep
<1>7. ASSUME BoCacheFini PROVE XvInv'
  <2>1. stage1_bo = NoBo
    BY <1>2, <1>7 DEF BoCacheFini
  <2> QED
    BY <1>1, <1>7, <2>1, XvFacts, BoCacheFiniKeeps, OthersKeep
<1> QED
  BY <1>4, <1>5, <1>6, <1>7 DEF Others

LEMMA TimeKeeps ==
  ASSUME XvInv, Time
  PROVE  XvInv'
<1>1. BoInv' /\ UNCHANGED <<ref, size, port, others>>
  BY XvFacts, TickKeeps DEF Time, Tick
<1>2. PortTypeOK'
  BY <1>1 DEF XvInv, PortTypeOK, port
<1>3. PortInv'
  BY <1>1 DEF XvInv, PortInv, Imported, Scaled, Stage1Needed, port
<1> QED
  BY <1>1, <1>2, <1>3 DEF XvInv

LEMMA XvStep == XvInv /\ [XvNext]_xvVars => XvInv'
<1> SUFFICES ASSUME XvInv, [XvNext]_xvVars PROVE XvInv'
  OBVIOUS
<1>1. ASSUME NEW o \in Bos, ImportUsermem(o) PROVE XvInv'
  <2>1. image \in Images /\ ImageSize(image) \in Nat /\ ~(ImageSize(image) < ImageSize(image))
    BY <1>1, Layout DEF ImportUsermem, XvInv, PortInv
  <2> QED
    BY <1>1, <2>1, ImportKeeps DEF ImportUsermem
<1>2. ASSUME NEW o \in Bos, NEW bytes \in Sizes, ImportXvbo(o, bytes) PROVE XvInv'
  BY <1>2, ImportKeeps, SizesAssumption DEF ImportXvbo
<1>3. CASE UNCHANGED xvVars
  <2>1. BoInv'
    BY <1>3, XvFacts, BosStay DEF xvVars
  <2>2. UNCHANGED <<ref, size, port, others>>
    BY <1>3 DEF xvVars, vars
  <2>3. PortTypeOK' /\ PortInv'
    BY <2>2 DEF XvInv, PortTypeOK, PortInv, Imported, Scaled, Stage1Needed, port
  <2> QED
    BY <2>1, <2>3 DEF XvInv
<1>4. CASE XvNext
  BY <1>1, <1>2, <1>4, PutImageKeeps, PortSteps, ReallocDelKeeps, ReallocNewKeeps, DoneKeeps,
     StopVideoKeeps, OthersKeeps, TimeKeeps DEF XvNext
<1> QED
  BY <1>3, <1>4

LEMMA XvInvariant == XvSpec => []XvInv
BY XvInitInv, XvStep, PTL DEF XvSpec

(* The free list and the buckets say the same, what is cached is referenced *)
(* by nobody and large enough, and cleaning has left nothing that is old   *)
(* (bo_cache_put, bo_cache_bucket_get, bo_cache_clean).                    *)
THEOREM CacheCorrect == XvSpec => []CacheOK
<1>1. XvInv => CacheOK
  BY DEF XvInv, BoInv
<1> QED
  BY <1>1, XvInvariant, PTL

(* Every open handle is some bo's, and a handle that no import gave to a   *)
(* second bo is open as long as its bo is referenced or cached, whatever   *)
(* other bos, handles given out again and dmabufs imported twice do        *)
(* (etna_bo_del, etna_bo_free, etna_bo_from_dmabuf, bo_cache_fini).        *)
THEOREM HandlesCorrect == XvSpec => []HandlesExact
<1>1. XvInv => HandlesExact
  BY DEF XvInv, BoInv
<1> QED
  BY <1>1, XvInvariant, PTL

(* A bo that was named or imported is not in the cache (etna_bo_handle).   *)
THEOREM SharedCorrect == XvSpec => []SharedNotReused
<1>1. XvInv => SharedNotReused
  BY BoFacts DEF XvInv, SharedNotReused
<1> QED
  BY <1>1, XvInvariant, PTL

(* The bos that the blits of a request read and write are there and large  *)
(* enough for its layout, and no request leaves a bo behind                *)
(* (etnaviv_PutImage, etnaviv_realloc_stage1, etnaviv_StopVideo).          *)
THEOREM BlitsCorrect == XvSpec => []BlitsInside
<1>1. ASSUME XvInv PROVE BlitsInside
  <2>1. ASSUME at = "blit"
        PROVE  /\ ref[usr] > 0 /\ size[usr] >= ImageSize(image) /\ PlanesInside(image)
               /\ Scaled => stage1_bo # NoBo /\ ref[stage1_bo] > 0 /\ size[stage1_bo] >= Stage1Needed
    <3>1. Stage1Needed \in Nat /\ PlanesInside(image)
      BY <1>1, <2>1, Stage1IsNat, Layout DEF XvInv, PortInv
    <3>2. stage1_bo # NoBo => size[stage1_bo] \in Nat
      BY <1>1, XvFacts
    <3> QED
      BY <1>1, <2>1, <3>1, <3>2 DEF XvInv, PortTypeOK, PortInv, Imported
  <2> QED
    BY <1>1, <2>1 DEF XvInv, PortInv, BlitsInside
<1> QED
  BY <1>1, XvInvariant, PTL

=============================================================================
