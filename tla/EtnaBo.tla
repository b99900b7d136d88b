------------------------------- MODULE EtnaBo -------------------------------
(***************************************************************************)
(* GPU buffer objects and the cache they go to when nobody uses them:      *)
(* common/bo-cache.c and the etna_bo functions of etnadrm/etnadrm.c.       *)
(*                                                                         *)
(* A bo allocated for a bucket of the cache returns to it when its last    *)
(* reference goes, and is handed out again by the next etna_bo_new for     *)
(* that bucket.  A bo the rest of the world knows about must not be.       *)
(*                                                                         *)
(* The kernel knows a bo by its GEM handle, which etna_bo_free closes.     *)
(* Names, user memory and new memory get a handle of their own; a dmabuf   *)
(* that this file has imported or exported before gets the handle it has   *)
(* already, so that two bos may have one handle, which closes with the     *)
(* first of them that goes.  A closed handle is given out again.           *)
(***************************************************************************)
EXTENDS Integers, Sequences, Functions, FiniteSets

CONSTANTS
  Bos,         \* struct etna_bo
  Buckets,     \* the bucket sizes, naturals in ascending order of size
  Sizes,       \* the sizes that are asked for
  NoBucket,    \* a bo that is not cached when it is freed
  Handles,     \* the GEM handles that the kernel gives out
  NoHandle,    \* of a struct that is not allocated
  Interval,    \* BO_CACHE_CLEAN_INTERVAL
  MaxAge,      \* BO_CACHE_MAX_AGE
  MaxTime      \* bound on the clock

ASSUME BucketsAssumption == IsFiniteSet(Buckets) /\ Buckets \subseteq Nat
ASSUME SizesAssumption == Sizes \subseteq Nat \ {0}
ASSUME NoBucketAssumption == NoBucket \notin Buckets
ASSUME NoHandleAssumption == NoHandle \notin Handles
ASSUME TimesAssumption == Interval \in Nat /\ MaxAge \in Nat \ {0} /\ MaxTime \in Nat

VARIABLES
  ref,           \* bo->ref of the bos in use, 0 for the others
  size,          \* bo->size
  bucket,        \* bo->cache.bucket
  free_time,     \* bo->cache.free_time
  bucket_list,   \* bucket->head
  free_list,     \* cache->head
  last_cleaned,  \* cache->last_cleaned
  handle,        \* bo->handle
  open,          \* the handles that are open
  prime,         \* of these, the ones the kernel knows a dmabuf for
  doubled,       \* history: the handles given to a second bo by an import,
                 \* until the last bo that has it goes
  shared,        \* the bos that have a name or were imported
  time,          \* CLOCK_MONOTONIC, in seconds
  up             \* the connection is open

cachevars == <<free_time, bucket_list, free_list, last_cleaned>>
gemvars == <<handle, open, prime, doubled>>
vars == <<ref, size, bucket, cachevars, gemvars, shared, time, up>>

Cached == Range(free_list)

TypeOK ==
  /\ ref \in [Bos -> Nat]
  /\ size \in [Bos -> Nat]
  /\ bucket \in [Bos -> Buckets \union {NoBucket}]
  /\ free_time \in [Bos -> Nat]
  /\ bucket_list \in [Buckets -> Seq(Bos)]
  /\ free_list \in Seq(Bos)
  /\ last_cleaned \in Nat
  /\ handle \in [Bos -> Handles \union {NoHandle}]
  /\ open \subseteq Handles /\ prime \subseteq open
  /\ doubled \subseteq Handles
  /\ shared \subseteq Bos
  /\ time \in Nat
  /\ up \in BOOLEAN

(* viv_open, bo_cache_init                                                 *)
Init ==
  /\ ref = [o \in Bos |-> 0]
  /\ size = [o \in Bos |-> 0]
  /\ bucket = [o \in Bos |-> NoBucket]
  /\ free_time = [o \in Bos |-> 0]
  /\ bucket_list = [k \in Buckets |-> << >>]
  /\ free_list = << >>
  /\ last_cleaned = 0
  /\ handle = [o \in Bos |-> NoHandle]
  /\ open = {} /\ prime = {} /\ doubled = {}
  /\ shared = {}
  /\ time = 0
  /\ up = TRUE

Tick ==
  /\ up
  /\ time < MaxTime
  /\ time' = time + 1
  /\ UNCHANGED <<ref, size, bucket, cachevars, gemvars, shared, up>>

-----------------------------------------------------------------------------
(* xorg_list_del of some entries of a list                                 *)
ListDel(list, gone) ==
  LET kept[i \in 0 .. Len(list)] ==
        IF i = 0 THEN << >>
        ELSE IF list[i] \in gone THEN kept[i - 1]
        ELSE Append(kept[i - 1], list[i])
  IN  kept[Len(list)]

(* bo_cache_bucket_find: the smallest bucket that is large enough          *)
BucketFind(bytes) ==
  IF \A k \in Buckets : k < bytes THEN NoBucket
  ELSE CHOOSE k \in Buckets : k >= bytes /\ \A l \in Buckets : l >= bytes => k <= l

(* Mutant: the bo taken from the bucket stays on the free list.            *)
BoNewCachedStays(bytes) ==
  LET k == BucketFind(bytes)
  IN  /\ k # NoBucket
      /\ bucket_list[k] # << >>
      /\ ref' = [ref EXCEPT ![Head(bucket_list[k])] = 1]
      /\ bucket_list' = [bucket_list EXCEPT ![k] = Tail(@)]
      /\ UNCHANGED <<size, bucket, free_time, free_list, last_cleaned, gemvars,
                     shared, time, up>>

(* etna_bo_new finds a bo of the bucket in the cache: the oldest one.      *)
BoNewCached(bytes) ==
  LET k == BucketFind(bytes)
  IN  /\ k # NoBucket
      /\ bucket_list[k] # << >>
      /\ LET o == Head(bucket_list[k])
         IN  /\ ref' = [ref EXCEPT ![o] = 1]
             /\ bucket_list' = [bucket_list EXCEPT ![k] = Tail(@)]
             /\ free_list' = ListDel(free_list, {o})
      /\ UNCHANGED <<size, bucket, free_time, last_cleaned, gemvars, shared, time, up>>

Fresh(o) == ref[o] = 0 /\ o \notin Cached

(* The kernel opens a handle for the bo: one that is not open.             *)
OpenHandle(o) ==
  \E h \in Handles \ open :
    /\ handle' = [handle EXCEPT ![o] = h]
    /\ open' = open \union {h}

(* etna_bo_get: a new bo, of the size of the bucket if there is one.       *)

(* Mutant: the bo has the size that was asked for.                         *)
BoNewExact(o, bytes) ==
  LET k == BucketFind(bytes)
  IN  /\ up
      /\ Fresh(o)
      /\ k # NoBucket => bucket_list[k] = << >>
      /\ ref' = [ref EXCEPT ![o] = 1]
      /\ size' = [size EXCEPT ![o] = bytes]
      /\ bucket' = [bucket EXCEPT ![o] = k]
      /\ OpenHandle(o)
      /\ UNCHANGED <<cachevars, prime, doubled, shared, time, up>>

BoNew(o, bytes) ==
  LET k == BucketFind(bytes)
  IN  /\ up
      /\ Fresh(o)
      /\ k # NoBucket => bucket_list[k] = << >>
      /\ ref' = [ref EXCEPT ![o] = 1]
      /\ size' = [size EXCEPT ![o] = IF k = NoBucket THEN bytes ELSE k]
      /\ bucket' = [bucket EXCEPT ![o] = k]
      /\ OpenHandle(o)
      /\ UNCHANGED <<cachevars, prime, doubled, shared, time, up>>

(* Somebody else's memory is never cached.                                 *)
Import(o, bytes) ==
  /\ up
  /\ Fresh(o)
  /\ ref' = [ref EXCEPT ![o] = 1]
  /\ size' = [size EXCEPT ![o] = bytes]
  /\ bucket' = [bucket EXCEPT ![o] = NoBucket]
  /\ shared' = shared \union {o}
  /\ UNCHANGED <<cachevars, time, up>>

(* etna_bo_from_name, etna_bo_from_usermem_prot                            *)
BoImport(o, bytes) ==
  /\ Import(o, bytes)
  /\ OpenHandle(o)
  /\ UNCHANGED <<prime, doubled>>

(* etna_bo_from_dmabuf: a handle of its own, or the one that the dmabuf has *)
(* already.  (Of what size the dmabuf was then is not remembered.)         *)
BoFromDmabuf(o, bytes) ==
  /\ Import(o, bytes)
  /\ \/ /\ OpenHandle(o)
        /\ prime' = prime \union {handle'[o]}
        /\ UNCHANGED doubled
     \/ \E h \in prime :
          /\ handle' = [handle EXCEPT ![o] = h]
          /\ doubled' = doubled \union {h}
          /\ UNCHANGED <<open, prime>>

(* etna_bo_to_dmabuf: it does not take the bo out of its bucket, and       *)
(* SharedNotReused says nothing of such bos.                               *)
BoToDmabuf(o) ==
  /\ ref[o] > 0
  /\ handle[o] \in open
  /\ prime' = prime \union {handle[o]}
  /\ UNCHANGED <<ref, size, bucket, cachevars, handle, open, doubled, shared, time, up>>

(* etna_bo_flink, by way of etna_bo_handle                                 *)

(* Mutant: asking for the handle does not take the bo out of its bucket.   *)
BoFlinkCached(o) ==
  /\ ref[o] > 0
  /\ shared' = shared \union {o}
  /\ UNCHANGED <<ref, size, bucket, cachevars, gemvars, time, up>>

BoFlink(o) ==
  /\ ref[o] > 0
  /\ bucket' = [bucket EXCEPT ![o] = NoBucket]
  /\ shared' = shared \union {o}
  /\ UNCHANGED <<ref, size, cachevars, gemvars, time, up>>

(* The command stream takes a reference (etna_reloc_bo_index).             *)
BoRef(o) ==
  /\ ref[o] = 1
  /\ ref' = [ref EXCEPT ![o] = 2]
  /\ UNCHANGED <<size, bucket, cachevars, gemvars, shared, time, up>>

-----------------------------------------------------------------------------
(* bo_cache_clean: how many bos at the head of the free list are too old.  *)
TooOld(list, times) ==
  IF time - last_cleaned < Interval THEN 0
  ELSE CHOOSE n \in 0 .. Len(list) :
         /\ \A i \in 1 .. n : time - times[list[i]] >= MaxAge
         /\ n < Len(list) => time - times[list[n + 1]] < MaxAge

CleanedAt == IF time - last_cleaned < Interval THEN last_cleaned ELSE time

(* etna_bo_free: the handle is closed, whoever else has it, and the struct *)
(* is as the next calloc leaves it.                                        *)
EtnaBoFree(gone, times) ==
  LET closed == {handle[o] : o \in gone}
  IN  /\ handle' = [o \in Bos |-> IF o \in gone THEN NoHandle ELSE handle[o]]
      /\ size' = [o \in Bos |-> IF o \in gone THEN 0 ELSE size[o]]
      /\ bucket' = [o \in Bos |-> IF o \in gone THEN NoBucket ELSE bucket[o]]
      /\ free_time' = [o \in Bos |-> IF o \in gone THEN 0 ELSE times[o]]
      /\ open' = open \ closed
      /\ prime' = prime \ closed
      /\ doubled' = {h \in doubled : \E o \in Bos \ gone : handle[o] = h}
      /\ shared' = shared \ gone

(* bo_cache_put, which cleans the cache                                    *)
BoCachePut(o) ==
  LET times == [free_time EXCEPT ![o] = time]
      list  == Append(free_list, o)
      n     == TooOld(list, times)
      gone  == Range(SubSeq(list, 1, n))
  IN  /\ free_list' = SubSeq(list, n + 1, Len(list))
      /\ bucket_list' = [k \in Buckets |->
           ListDel(IF k = bucket[o] THEN Append(bucket_list[k], o)
                   ELSE bucket_list[k], gone)]
      /\ last_cleaned' = CleanedAt
      /\ EtnaBoFree(gone, times)

(* etna_bo_del: the last reference sends the bo to its bucket, or away.    *)
BoDel(o) ==
  /\ ref[o] > 0
  /\ ref' = [ref EXCEPT ![o] = @ - 1]
  /\ \/ /\ ref[o] > 1
        /\ UNCHANGED <<size, bucket, cachevars, gemvars, shared>>
     \/ /\ ref[o] = 1 /\ bucket[o] # NoBucket
        /\ BoCachePut(o)
     \/ /\ ref[o] = 1 /\ bucket[o] = NoBucket
        /\ EtnaBoFree({o}, free_time)
        /\ UNCHANGED <<bucket_list, free_list, last_cleaned>>
  /\ UNCHANGED <<time, up>>

(* viv_close, bo_cache_fini: cleaning with the clock wound forward.        *)
BoCacheFini ==
  /\ up
  /\ \A o \in Bos : ref[o] = 0
  /\ up' = FALSE
  /\ last_cleaned' = time + MaxAge + 1
  /\ free_list' = << >>
  /\ bucket_list' = [k \in Buckets |-> << >>]
  /\ EtnaBoFree(Cached, free_time)
  /\ UNCHANGED <<ref, time>>

Next ==
  \/ Tick
  \/ \E bytes \in Sizes : BoNewCached(bytes)
  \/ \E o \in Bos, bytes \in Sizes :
       BoNew(o, bytes) \/ BoImport(o, bytes) \/ BoFromDmabuf(o, bytes)
  \/ \E o \in Bos : BoFlink(o) \/ BoToDmabuf(o) \/ BoRef(o) \/ BoDel(o)
  \/ BoCacheFini

Spec == Init /\ [][Next]_vars

-----------------------------------------------------------------------------
(* Properties.                                                             *)

NoRepeats(list) == \A i, j \in DOMAIN list : list[i] = list[j] => i = j

(* The lists say the same.                                                 *)
Linked ==
  /\ NoRepeats(free_list)
  /\ \A k \in Buckets :
       /\ NoRepeats(bucket_list[k])
       /\ Range(bucket_list[k]) = {o \in Cached : bucket[o] = k}

(* Cleaning may stop at the first bo that is young enough.                 *)
AgedOut == \A o \in Cached : last_cleaned - free_time[o] < MaxAge

(* A cached bo is linked once into the free list and once into the list of *)
(* its own bucket, it is big enough for whoever that bucket serves, it is  *)
(* referenced by nobody, and when the cache has been cleaned, none is left *)
(* that was freed MaxAge or more before (bo_cache_put,                     *)
(* bo_cache_bucket_get, bo_cache_clean).                                   *)
CacheOK ==
  /\ Linked
  /\ AgedOut
  /\ \A o \in Cached : ref[o] = 0 /\ size[o] >= bucket[o]

(* A bo has a handle as long as it is referenced or cached, and no handle  *)
(* is open that no bo has: none is leaked.  A handle that no import gave   *)
(* to a second bo is some bo's own and stays open under it: nobody else    *)
(* closes it, although handles are given out again and a dmabuf imported   *)
(* twice may close its own under a bo (etna_bo_del, bo_cache_clean,        *)
(* etna_bo_free).                                                          *)
HandlesExact ==
  /\ \A o \in Bos : handle[o] # NoHandle <=> ref[o] > 0 \/ o \in Cached
  /\ \A h \in open : \E o \in Bos : handle[o] = h
  /\ \A o \in Bos : handle[o] \notin doubled \union {NoHandle} =>
       /\ handle[o] \in open
       /\ \A p \in Bos \ {o} : handle[p] # handle[o]

(* "If we're wanting the handle, we're more than likely exporting it,      *)
(* which means we must not re-use this bo." (etna_bo_handle)               *)
SharedNotReused == shared \intersect Cached = {}

=============================================================================
