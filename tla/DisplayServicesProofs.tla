---------------------- MODULE DisplayServicesProofs -----------------------
(***************************************************************************)
(* Three parts of the display side that share nothing.  For every number   *)
(* of events and ids of the Present extension: the memory of an event      *)
(* lives as long as the kernel may deliver it, and the driver implements   *)
(* what the server expects of it (Answers), but for the fairness.  For     *)
(* every number of bos and objects: the hash tables of the buffer manager  *)
(* name every bo that is allocated and no other, so that a handle is       *)
(* closed by one bo, and the memory of a bo stays its own.  For all CRTCs  *)
(* and requests: the frame a request is queued for is the one that DRI2    *)
(* asks for, and the MSC of a drawable never goes back.                    *)
(***************************************************************************)
EXTENDS Present, ArmadaBo, Msc, SequenceTheorems, FunctionTheorems, FiniteSetTheorems,
  WellFoundedInduction, TLAPS

(* No two events on the list have the same id, and each is waited for.     *)
ListedOnce ==
  /\ \A i, j \in DOMAIN events : event_id[events[i]] = event_id[events[j]] => i = j
  /\ \A i \in DOMAIN events : events[i] \in vblanks /\ event_id[events[i]] \in waiting

PresentInv == TypeOK /\ HeapIsPending /\ ListedOnce

LEMMA RemoveAtElements ==
  ASSUME NEW S, NEW s \in Seq(S), NEW i \in 1 .. Len(s)
  PROVE  /\ RemoveAt(s, i) \in Seq(S)
         /\ Len(RemoveAt(s, i)) = Len(s) - 1
         /\ \A j \in 1 .. Len(s) - 1 :
              RemoveAt(s, i)[j] = s[IF j < i THEN j ELSE j + 1]
<1> DEFINE before == SubSeq(s, 1, i - 1)
           after  == SubSeq(s, i + 1, Len(s))
<1>1. /\ before \in Seq(S) /\ Len(before) = i - 1
      /\ \A j \in 1 .. i - 1 : before[j] = s[j]
  <2>1. \A j \in 1 .. i - 1 : s[j] \in S
    BY ElementOfSeq, LenProperties
  <2> QED BY <2>1, SubSeqProperties, LenProperties
<1>2. /\ after \in Seq(S) /\ Len(after) = Len(s) - i
      /\ \A j \in 1 .. Len(s) - i : after[j] = s[i + j]
  <2>1. \A j \in i + 1 .. Len(s) : s[j] \in S
    BY ElementOfSeq, LenProperties
  <2> QED BY <2>1, SubSeqProperties, LenProperties
<1>3. RemoveAt(s, i) = before \o after
  BY DEF RemoveAt
<1> HIDE DEF before, after
<1>4. Len(s) \in Nat
  BY LenProperties
<1>5. /\ before \o after \in Seq(S)
      /\ Len(before \o after) = Len(before) + Len(after)
      /\ \A j \in 1 .. Len(before) + Len(after) :
           (before \o after)[j] = IF j <= Len(before) THEN before[j]
                                                      ELSE after[j - Len(before)]
  BY ONLY <1>1, <1>2, ConcatProperties
<1>6. before \o after \in Seq(S) /\ Len(before \o after) = Len(s) - 1
  BY <1>1, <1>2, <1>4, <1>5
<1>7. ASSUME NEW j \in 1 .. Len(s) - 1
      PROVE  (before \o after)[j] = s[IF j < i THEN j ELSE j + 1]
  <2>1. (before \o after)[j] = IF j <= i - 1 THEN before[j] ELSE after[j - (i - 1)]
    BY <1>1, <1>2, <1>4, <1>5
  <2>2. CASE j < i
    BY <2>1, <2>2, <1>1, <1>4
  <2>3. CASE ~(j < i)
    <3>1. j - (i - 1) \in 1 .. Len(s) - i /\ i + (j - (i - 1)) = j + 1
      BY <2>3, <1>4
    <3> QED BY <2>1, <2>3, <3>1, <1>2, <1>4
  <2> QED BY <2>2, <2>3
<1> QED BY <1>3, <1>6, <1>7

LEMMA MinOfOne == ASSUME NEW n \in Nat PROVE Min({n}) = n
BY DEF Min

(* An event that is not on the list stays off it, and one that is removed  *)
(* has no second place.                                                    *)
LEMMA RemoveKeepsListed ==
  ASSUME PresentInv, NEW k \in DOMAIN events, events' = RemoveAt(events, k),
         event_id' = event_id, waiting' = waiting \ {event_id[events[k]]},
         vblanks' = vblanks \ {events[k]} \/ vblanks' = vblanks
  PROVE  events' \in Seq(Events) /\ ListedOnce'
<1>1. events \in Seq(Events) /\ DOMAIN events = 1 .. Len(events) /\ Len(events) \in Nat
  BY LenProperties DEF PresentInv, TypeOK
<1>2. /\ events' \in Seq(Events) /\ Len(events') = Len(events) - 1
      /\ \A j \in 1 .. Len(events) - 1 :
           events'[j] = events[IF j < k THEN j ELSE j + 1]
  BY <1>1, RemoveAtElements
<1>3. DOMAIN events' = 1 .. Len(events) - 1
  BY <1>2, LenProperties
<1> DEFINE old(j) == IF j < k THEN j ELSE j + 1
<1>4. \A j \in DOMAIN events' :
        /\ old(j) \in DOMAIN events /\ old(j) # k
        /\ events'[j] = events[old(j)]
  BY <1>1, <1>2, <1>3
<1>5. \A i, j \in DOMAIN events' : old(i) = old(j) => i = j
  BY <1>1, <1>3
<1> HIDE DEF old
<1>6. \A i, j \in DOMAIN events' : event_id'[events'[i]] = event_id'[events'[j]] => i = j
  BY <1>4, <1>5 DEF PresentInv, ListedOnce
<1>7. \A i \in DOMAIN events' : events'[i] \in vblanks' /\ event_id'[events'[i]] \in waiting'
  BY <1>4 DEF PresentInv, ListedOnce
<1> QED BY <1>2, <1>6, <1>7 DEF ListedOnce

LEMMA PresentInit == Init => PresentInv
<1> SUFFICES ASSUME Init PROVE PresentInv
  OBVIOUS
<1>1. events \in Seq(Events) /\ DOMAIN events = {}
  BY EmptySeq, LenProperties DEF Init
<1> QED BY <1>1 DEF Init, PresentInv, TypeOK, HeapIsPending, ListedOnce

LEMMA PresentQueue ==
  ASSUME PresentInv, NEW e \in Events, NEW id \in Ids, NEW taken \in BOOLEAN,
         QueueVblank(e, id, taken)
  PROVE  PresentInv'
<1>1. event_id' \in [Events -> Ids] /\ event_id'[e] = id
      /\ \A f \in Events : f # e => event_id'[f] = event_id[f]
  BY DEF PresentInv, TypeOK, QueueVblank
<1>2. \A i \in DOMAIN events : events[i] \in Events /\ events[i] # e
  BY ElementOfSeq, LenProperties
  DEF PresentInv, TypeOK, HeapIsPending, ListedOnce, QueueVblank
<1>3. \A i \in DOMAIN events : event_id'[events[i]] = event_id[events[i]]
  BY <1>1, <1>2
<1>4. CASE ~taken
  BY <1>1, <1>3, <1>4 DEF PresentInv, TypeOK, HeapIsPending, ListedOnce, QueueVblank
<1>5. CASE taken
  <2>1. /\ events' = Append(events, e) /\ heap' = heap \union {e}
        /\ vblanks' = vblanks \union {e} /\ waiting' = waiting \union {id}
        /\ answers' = answers /\ id \notin waiting
    BY <1>5 DEF QueueVblank
  <2>2. events \in Seq(Events) /\ DOMAIN events = 1 .. Len(events) /\ Len(events) \in Nat
    BY LenProperties DEF PresentInv, TypeOK
  <2>3. /\ events' \in Seq(Events) /\ DOMAIN events' = 1 .. Len(events) + 1
        /\ events'[Len(events) + 1] = e
        /\ \A i \in 1 .. Len(events) : events'[i] = events[i]
    BY <2>1, <2>2
  <2>4. \A i \in 1 .. Len(events) : event_id'[events'[i]] \in waiting
    BY <1>3, <2>2, <2>3 DEF PresentInv, ListedOnce
  <2>5. TypeOK'
    BY <1>1, <2>1, <2>3 DEF PresentInv, TypeOK
  <2>6. HeapIsPending'
    BY <2>1 DEF PresentInv, HeapIsPending
  <2>7. \A i, j \in DOMAIN events' : event_id'[events'[i]] = event_id'[events'[j]] => i = j
    <3> SUFFICES ASSUME NEW i \in DOMAIN events', NEW j \in DOMAIN events',
                        event_id'[events'[i]] = event_id'[events'[j]]
                 PROVE  i = j
      OBVIOUS
    <3>1. CASE i \in 1 .. Len(events) /\ j \in 1 .. Len(events)
      BY <3>1, <1>3, <2>2, <2>3 DEF PresentInv, ListedOnce
    <3>2. CASE i = Len(events) + 1 \/ j = Len(events) + 1
      BY <3>2, <1>1, <2>1, <2>2, <2>3, <2>4
    <3> QED BY <3>1, <3>2, <2>2, <2>3
  <2>8. \A i \in DOMAIN events' : events'[i] \in vblanks' /\ event_id'[events'[i]] \in waiting'
    BY <1>1, <2>1, <2>2, <2>3, <2>4 DEF PresentInv, ListedOnce
  <2> QED BY <2>5, <2>6, <2>7, <2>8 DEF PresentInv, ListedOnce
<1> QED BY <1>4, <1>5

LEMMA PresentAbort ==
  ASSUME PresentInv, NEW id \in Ids, AbortVblank(id)
  PROVE  PresentInv'
<1>1. /\ waiting' = waiting \ {id} /\ UNCHANGED <<heap, event_id, vblanks, answers>>
  BY DEF AbortVblank
<1>2. CASE Named(id) = {}
  <2>1. events' = events /\ \A i \in DOMAIN events : event_id[events[i]] # id
    BY <1>2 DEF AbortVblank, Named
  <2> QED BY <1>1, <2>1 DEF PresentInv, TypeOK, HeapIsPending, ListedOnce
<1>3. CASE Named(id) # {}
  <2>1. PICK k \in DOMAIN events : Named(id) = {k} /\ event_id[events[k]] = id
    BY <1>3 DEF Named, PresentInv, ListedOnce
  <2>2. k \in Nat
    BY LenProperties DEF PresentInv, TypeOK
  <2>3. events' = RemoveAt(events, k)
    BY <1>3, <2>1, <2>2, MinOfOne DEF AbortVblank
  <2>4. events' \in Seq(Events) /\ ListedOnce'
    BY <1>1, <2>1, <2>3, RemoveKeepsListed
  <2> QED BY <1>1, <2>4 DEF PresentInv, TypeOK, HeapIsPending
<1> QED BY <1>2, <1>3

(* The place that an event of the list has.                                *)
LEMMA WithoutRemoves ==
  ASSUME PresentInv, NEW k \in DOMAIN events
  PROVE  Without(events[k]) = RemoveAt(events, k)
<1>1. events \in Seq(Events) /\ DOMAIN events = 1 .. Len(events) /\ Len(events) \in Nat
  BY LenProperties DEF PresentInv, TypeOK
<1>2. Places(events[k]) = {k}
  BY DEF Places, PresentInv, ListedOnce
<1> QED BY <1>1, <1>2, MinOfOne DEF Without

LEMMA PresentHandler ==
  ASSUME PresentInv, NEW e \in Events, Handler(e)
  PROVE  PresentInv'
<1>1. /\ vblanks' = vblanks \ {e} /\ heap' = heap \ {e} /\ event_id' = event_id
  BY DEF Handler
<1>2. CASE e \notin Listed
  <2>1. UNCHANGED <<waiting, answers, events>>
    BY <1>2 DEF Handler
  <2>2. \A i \in DOMAIN events : events[i] # e
    BY <1>2 DEF Listed, ToSet
  <2> QED BY <1>1, <2>1, <2>2 DEF PresentInv, TypeOK, HeapIsPending, ListedOnce
<1>3. CASE e \in Listed
  <2>1. PICK k \in DOMAIN events : events[k] = e
    BY <1>3 DEF Listed, ToSet
  <2>2. events' = RemoveAt(events, k)
    BY <1>3, <2>1, WithoutRemoves DEF Handler
  <2>3. Notify(event_id[e])
    BY <1>3 DEF Handler
  <2>4. waiting' = waiting \ {event_id[events[k]]} /\ answers' \in [Ids -> BOOLEAN]
    BY <2>1, <2>3 DEF Notify, PresentInv, TypeOK
  <2>5. events' \in Seq(Events) /\ ListedOnce'
    BY <1>1, <2>1, <2>2, <2>4, RemoveKeepsListed
  <2> QED BY <1>1, <2>4, <2>5 DEF PresentInv, TypeOK, HeapIsPending
<1> QED BY <1>2, <1>3

LEMMA PresentStep == PresentInv /\ [Next]_vars => PresentInv'
<1> SUFFICES ASSUME PresentInv, [Next]_vars PROVE PresentInv'
  OBVIOUS
<1>1. CASE \E e \in Events, id \in Ids, taken \in BOOLEAN : QueueVblank(e, id, taken)
  BY <1>1, PresentQueue
<1>2. CASE \E id \in Ids : AbortVblank(id)
  BY <1>2, PresentAbort
<1>3. CASE \E e \in Events : Handler(e)
  BY <1>3, PresentHandler
<1>4. CASE UNCHANGED vars
  BY <1>4 DEF vars, PresentInv, TypeOK, HeapIsPending, ListedOnce
<1> QED BY <1>1, <1>2, <1>3, <1>4 DEF Next

LEMMA PresentInvariant == Spec => []PresentInv
BY PresentInit, PresentStep, PTL DEF Spec

(* common_present_handler gets no memory that was freed, and every event   *)
(* is freed when it is delivered: HeapIsPending.                           *)
THEOREM HeapIsPendingCorrect == Spec => []HeapIsPending
<1>1. PresentInv => HeapIsPending
  BY DEF PresentInv
<1> QED BY <1>1, PresentInvariant, PTL

(* common_present_queue_vblank, common_present_abort_vblank and            *)
(* common_present_handler implement Answers: an id that was aborted is not *)
(* notified, and one that is waited for is notified once.                  *)
THEOREM PresentAnswers == Spec => Requests!Spec
<1>1. Init => Requests!Init
  BY DEF Init, Requests!Init
<1>2. PresentInv /\ [Next]_vars => [Requests!Next]_(Requests!vars)
  <2> SUFFICES ASSUME PresentInv, [Next]_vars
               PROVE  Requests!Next \/ UNCHANGED <<waiting, answers>>
    BY DEF Requests!vars
  <2>1. ASSUME NEW e \in Events, NEW id \in Ids, NEW taken \in BOOLEAN,
               QueueVblank(e, id, taken)
        PROVE  Requests!Next \/ UNCHANGED <<waiting, answers>>
    <3>1. CASE taken
      <4>1. Requests!Ask(id)
        BY <2>1, <3>1 DEF QueueVblank, Requests!Ask
      <4> QED BY <4>1 DEF Requests!Next
    <3>2. CASE ~taken
      BY <2>1, <3>2 DEF QueueVblank
    <3> QED BY <3>1, <3>2
  <2>2. ASSUME NEW id \in Ids, AbortVblank(id) PROVE Requests!Next
    <3>1. Requests!Abort(id)
      BY <2>2 DEF AbortVblank, Requests!Abort
    <3> QED BY <3>1 DEF Requests!Next
  <2>3. ASSUME NEW e \in Events, Handler(e)
        PROVE  Requests!Next \/ UNCHANGED <<waiting, answers>>
    <3>1. CASE e \notin Listed
      BY <2>3, <3>1 DEF Handler
    <3>2. CASE e \in Listed
      <4>1. event_id[e] \in waiting /\ event_id[e] \in Ids
        BY <3>2 DEF Listed, ToSet, PresentInv, ListedOnce, TypeOK
      <4>2. Requests!Answer(event_id[e])
        BY <2>3, <3>2, <4>1 DEF Handler, Notify, Requests!Answer
      <4> QED BY <4>1, <4>2 DEF Requests!Next
    <3> QED BY <3>1, <3>2
  <2>4. CASE UNCHANGED vars
    BY <2>4 DEF vars
  <2> QED BY <2>1, <2>2, <2>3, <2>4 DEF Next
<1> QED BY <1>1, <1>2, PresentInvariant, PTL DEF Spec, Requests!Spec

-----------------------------------------------------------------------------
(* The buffer manager.                                                     *)

ArmadaInv == ArmadaTypeOK /\ TablesExact

(* Zero is no bo, and no object.                                           *)
LEMMA ArmadaNulls == NoBo \notin Bos /\ NoObject \notin Objects
BY BosAssumption, ObjectsAssumption DEF Objects

LEMMA LeastHandle ==
  ASSUME NEW S \in SUBSET Nat, S # {}
  PROVE  Min(S) \in S
<1>1. PICK m \in S : \A y \in S : <<y, m>> \notin OpToRel(<, Nat)
  BY NatLessThanWellFounded, WFMin
<1>2. \A y \in S : ~ (y < m)
  BY <1>1 DEF OpToRel
<1>3. \A y \in S : m <= y
  BY <1>2
<1> QED BY <1>3 DEF Min

(* Every open handle has a bo of its own, so that the kernel has one left. *)
LEMMA HandleIsFree ==
  ASSUME ArmadaInv
  PROVE  NewHandle \in Handles /\ gem[NewHandle] = NoObject /\ handle_hash[NewHandle] = NoBo
<1>1. Cardinality(Bos) \in Nat
  BY BosAssumption, FS_CardinalityType
<1>2. ~(Handles \subseteq Open)
  <2> SUFFICES ASSUME Handles \subseteq Open PROVE FALSE
    OBVIOUS
  <2> DEFINE f == [h \in Handles |-> handle_hash[h]]
  <2>1. \A h \in Handles : handle_hash[h] \in Bos /\ handle[handle_hash[h]] = h
    BY DEF ArmadaInv, TablesExact, Live
  <2>2. f \in [Handles -> Bos] /\ \A g, h \in Handles : f[g] = f[h] => g = h
    BY <2>1
  <2>3. f \in Injection(Handles, Bos)
    BY <2>2 DEF Injection, IsInjective
  <2>4. Cardinality(Handles) <= Cardinality(Bos)
    BY <2>3, BosAssumption, FS_Injection
  <2>5. Cardinality(Handles) = Cardinality(Bos) + 1
    BY <1>1, FS_Interval DEF Handles
  <2> QED
    BY <1>1, <2>4, <2>5
<1>3. Handles \ Open \in SUBSET Nat /\ Handles \ Open # {}
  BY <1>2 DEF Handles
<1>4. NewHandle \in Handles \ Open
  BY <1>3, LeastHandle DEF NewHandle
<1> QED
  BY <1>4 DEF Open, ArmadaInv, TablesExact

LEMMA ArmadaInitInv == ArmadaInit => ArmadaInv
<1> SUFFICES ASSUME ArmadaInit PROVE ArmadaInv
  OBVIOUS
<1>1. 1 \in Handles
  <2>1. Cardinality(Bos) \in Nat
    BY BosAssumption, FS_CardinalityType
  <2> QED
    BY <2>1 DEF Handles
<1>2. 0 \in 0 .. MaxRef
  BY MaxRefAssumption
<1>3. ArmadaTypeOK
  BY <1>1, <1>2 DEF ArmadaInit, ArmadaTypeOK, Objects
<1>4. TablesExact
  BY DEF ArmadaInit, TablesExact, Live, Open
<1> QED
  BY <1>3, <1>4 DEF ArmadaInv

(* A bo that is created for a handle that is free.                         *)
LEMMA CreateKeeps ==
  ASSUME ArmadaInv, NEW b \in Bos, NEW h \in Handles, NEW o \in Objects,
         NEW n \in {o, NoObject}, Create(b, h, o, n), shared' = shared,
         prime' \subseteq Handles,
         n = o => name_hash[o] = NoBo /\ name_hash' = [name_hash EXCEPT ![o] = b],
         n = NoObject => name_hash' = name_hash
  PROVE  ArmadaInv'
<1>1. /\ ref \in [Bos -> 0 .. MaxRef] /\ handle \in [Bos -> Handles]
      /\ name \in [Bos -> Objects \union {NoObject}]
      /\ handle_hash \in [Handles -> Bos \union {NoBo}]
      /\ name_hash \in [Objects -> Bos \union {NoBo}]
      /\ gem \in [Handles -> Objects \union {NoObject}]
      /\ prime \subseteq Handles
      /\ shared \in [{"dmabuf", "name"} -> SUBSET Objects]
  BY DEF ArmadaInv, ArmadaTypeOK
<1>2. /\ ref[b] = 0 /\ handle_hash[h] = NoBo
      /\ ref' = [ref EXCEPT ![b] = 1]
      /\ handle' = [handle EXCEPT ![b] = h]
      /\ name' = [name EXCEPT ![b] = n]
      /\ handle_hash' = [handle_hash EXCEPT ![h] = b]
      /\ gem' = [gem EXCEPT ![h] = o]
  BY DEF Create
<1>3. 1 \in 0 .. MaxRef /\ NoBo \notin Bos /\ NoObject \notin Objects
  BY MaxRefAssumption, ArmadaNulls
<1>4. ArmadaTypeOK'
  <2>1. ref' \in [Bos -> 0 .. MaxRef] /\ handle' \in [Bos -> Handles]
    BY <1>1, <1>2, <1>3
  <2>2. name' \in [Bos -> Objects \union {NoObject}] /\ gem' \in [Handles -> Objects \union {NoObject}]
    BY <1>1, <1>2
  <2>3. handle_hash' \in [Handles -> Bos \union {NoBo}]
    BY <1>1, <1>2
  <2>4. name_hash' \in [Objects -> Bos \union {NoBo}]
    BY <1>1
  <2> QED
    BY <1>1, <2>1, <2>2, <2>3, <2>4 DEF ArmadaTypeOK
<1>5. Live' = Live \union {b} /\ b \notin Live /\ Open' = Open \union {h}
  BY <1>1, <1>2, <1>3 DEF Live, Open
<1>6. \A g \in Handles : handle_hash'[g] = NoBo <=> g \notin Open'
  <2>1. \A g \in Handles : handle_hash[g] = NoBo <=> g \notin Open
    BY DEF ArmadaInv, TablesExact
  <2> QED
    BY <1>1, <1>2, <1>3, <1>5, <2>1
<1>7. \A c \in Live' : handle_hash'[handle'[c]] = c
  <2>1. \A c \in Live : handle_hash[handle[c]] = c /\ handle[c] \in Handles /\ c \in Bos
    BY <1>1 DEF ArmadaInv, TablesExact, Live
  <2>2. \A c \in Live : handle[c] # h
    BY <1>2, <1>3, <2>1
  <2> QED
    BY <1>1, <1>2, <1>5, <2>1, <2>2
<1>8. \A g \in Open' : handle_hash'[g] \in Live' /\ handle'[handle_hash'[g]] = g
  <2>1. \A g \in Open : handle_hash[g] \in Live /\ handle[handle_hash[g]] = g
                       /\ g \in Handles /\ handle_hash[g] \in Bos
    BY <1>1 DEF ArmadaInv, TablesExact, Open, Live
  <2> QED
    BY <1>1, <1>2, <1>5, <2>1
<1>9. \A p \in Objects : name_hash'[p] # NoBo =>
        name_hash'[p] \in Live' /\ name'[name_hash'[p]] = p
  <2>1. \A p \in Objects : name_hash[p] # NoBo =>
          name_hash[p] \in Live /\ name[name_hash[p]] = p /\ name_hash[p] \in Bos
    BY DEF ArmadaInv, TablesExact, Live
  <2>2. CASE n = o
    BY <1>1, <1>2, <1>5, <2>1, <2>2
  <2>3. CASE n = NoObject
    BY <1>1, <1>2, <1>5, <2>1, <2>3
  <2> QED
    BY <2>2, <2>3
<1>10. \A c \in Live' : name'[c] # NoObject =>
         name_hash'[name'[c]] = c /\ gem'[handle'[c]] = name'[c]
  <2>1. \A c \in Live : /\ c \in Bos /\ handle[c] \in Handles
                        /\ handle_hash[handle[c]] = c
                        /\ name[c] \in Objects \union {NoObject}
                        /\ name[c] # NoObject =>
                             name_hash[name[c]] = c /\ gem[handle[c]] = name[c]
    BY <1>1 DEF ArmadaInv, TablesExact, Live
  <2>2. ASSUME NEW c \in Live, name[c] # NoObject
        PROVE  name_hash'[name'[c]] = c /\ gem'[handle'[c]] = name'[c]
    <3>1. c # b /\ name'[c] = name[c] /\ handle'[c] = handle[c] /\ handle[c] # h
      BY <1>1, <1>2, <1>3, <1>5, <2>1
    <3>2. gem'[handle'[c]] = name[c]
      BY <1>1, <1>2, <2>1, <2>2, <3>1
    <3>3. name_hash[name[c]] = c /\ c # NoBo /\ name[c] \in Objects
      BY <1>3, <2>1, <2>2
    <3>4. name_hash'[name[c]] = c
      BY <1>1, <3>3
    <3> QED
      BY <3>1, <3>2, <3>4
  <2>3. ASSUME n # NoObject PROVE name_hash'[name'[b]] = b /\ gem'[handle'[b]] = name'[b]
    BY <1>1, <1>2, <2>3
  <2>4. name'[b] = n /\ \A c \in Live : name'[c] = name[c]
    BY <1>1, <1>2, <1>5, <2>1
  <2> QED
    BY <1>5, <2>2, <2>3, <2>4
<1> QED
  BY <1>4, <1>6, <1>7, <1>8, <1>9, <1>10 DEF ArmadaInv, TablesExact

(* What the tables say of a bo that is allocated.                          *)
LEMMA OfLive ==
  ASSUME ArmadaInv, NEW b \in Live
  PROVE  /\ b \in Bos /\ b # NoBo
         /\ handle[b] \in Open /\ handle[b] \in Handles
         /\ handle_hash[handle[b]] = b
         /\ gem[handle[b]] \in Objects
         /\ name[b] \in Objects \union {NoObject}
         /\ ref[b] \in 1 .. MaxRef
<1>1. b \in Bos /\ b # NoBo /\ handle[b] \in Handles /\ handle_hash[handle[b]] = b
      /\ name[b] \in Objects \union {NoObject}
  BY ArmadaNulls DEF Live, ArmadaInv, ArmadaTypeOK, TablesExact
<1>2. handle[b] \in Open
  BY <1>1 DEF ArmadaInv, TablesExact
<1>3. gem[handle[b]] \in Objects
  BY <1>1, <1>2 DEF Open, ArmadaInv, ArmadaTypeOK
<1>4. ref[b] \in 1 .. MaxRef
  BY <1>1, MaxRefAssumption DEF Live, ArmadaInv, ArmadaTypeOK
<1> QED
  BY <1>1, <1>2, <1>3, <1>4

LEMMA GetKeeps ==
  ASSUME ArmadaInv, NEW b \in Bos, Get(b)
  PROVE  ArmadaInv'
<1>1. b \in Live /\ ref[b] < MaxRef /\ ref' = [ref EXCEPT ![b] = @ + 1]
      /\ UNCHANGED <<handle, name, handle_hash, name_hash, gem, prime, shared>>
  BY DEF Get
<1>2. ref[b] \in 1 .. MaxRef /\ ref \in [Bos -> 0 .. MaxRef]
  BY <1>1, OfLive DEF ArmadaInv, ArmadaTypeOK
<1>3. ref' \in [Bos -> 0 .. MaxRef] /\ Live' = Live
  BY <1>1, <1>2, MaxRefAssumption DEF Live
<1>4. ArmadaTypeOK'
  BY <1>1, <1>3 DEF ArmadaInv, ArmadaTypeOK
<1>5. TablesExact'
  BY <1>1, <1>3 DEF ArmadaInv, TablesExact, Open
<1> QED
  BY <1>4, <1>5 DEF ArmadaInv

(* The last reference takes the bo out of both tables, and no other.       *)
LEMMA PutKeeps ==
  ASSUME ArmadaInv, NEW b \in Bos, Put(b)
  PROVE  ArmadaInv'
<1>1. b \in Live /\ ref' = [ref EXCEPT ![b] = @ - 1] /\ UNCHANGED <<handle, name, shared>>
  BY DEF Put
<1>2. ref[b] \in 1 .. MaxRef /\ ref \in [Bos -> 0 .. MaxRef]
  BY <1>1, OfLive DEF ArmadaInv, ArmadaTypeOK
<1>3. ref' \in [Bos -> 0 .. MaxRef]
  BY <1>1, <1>2, MaxRefAssumption
<1>4. CASE ref[b] > 1
  <2>1. UNCHANGED <<handle_hash, name_hash, gem, prime>>
    BY <1>4 DEF Put
  <2>2. Live' = Live
    BY <1>1, <1>2, <1>4, MaxRefAssumption DEF Live
  <2>3. ArmadaTypeOK'
    BY <1>1, <1>3, <2>1 DEF ArmadaInv, ArmadaTypeOK
  <2>4. TablesExact'
    BY <1>1, <2>1, <2>2 DEF ArmadaInv, TablesExact, Open
  <2> QED
    BY <2>3, <2>4 DEF ArmadaInv
<1>5. CASE ~(ref[b] > 1)
  <2> DEFINE h == handle[b]
  <2>1. /\ handle_hash' = [handle_hash EXCEPT ![h] = NoBo]
        /\ name_hash' = [o \in Objects |-> IF o = name[b] THEN NoBo ELSE name_hash[o]]
        /\ gem' = [gem EXCEPT ![h] = NoObject]
        /\ prime' = prime \ {h}
    BY <1>5 DEF Put
  <2>2. h \in Handles /\ handle_hash[h] = b /\ b # NoBo
    BY <1>1, OfLive
  <2>3. /\ handle_hash \in [Handles -> Bos \union {NoBo}]
        /\ name_hash \in [Objects -> Bos \union {NoBo}]
        /\ gem \in [Handles -> Objects \union {NoObject}]
        /\ prime \subseteq Handles
    BY DEF ArmadaInv, ArmadaTypeOK
  <2>4. /\ handle_hash' \in [Handles -> Bos \union {NoBo}]
        /\ gem' \in [Handles -> Objects \union {NoObject}]
        /\ prime' \subseteq Handles
    BY <2>1, <2>3
  <2>5. name_hash' \in [Objects -> Bos \union {NoBo}]
    BY <2>1, <2>3
  <2>6. ArmadaTypeOK'
    BY <1>1, <1>3, <2>4, <2>5 DEF ArmadaInv, ArmadaTypeOK
  <2>7. Live' = Live \ {b}
    BY <1>1, <1>2, <1>5, MaxRefAssumption DEF Live
  <2>8. Open' = Open \ {h}
    BY <2>1, <2>3, ArmadaNulls DEF Open
  <2>9. ASSUME NEW c \in Live'
        PROVE  /\ c \in Live /\ c # b /\ handle[c] # h
               /\ handle[c] \in Handles /\ handle_hash[handle[c]] = c
               /\ name[c] \in Objects \union {NoObject}
    BY <2>2, <2>7, OfLive
  <2>10. \A g \in Handles : handle_hash'[g] = NoBo <=> g \notin Open'
    BY <2>1, <2>3, <2>8 DEF ArmadaInv, TablesExact
  <2>11. \A c \in Live' : handle_hash'[handle'[c]] = c
    BY <1>1, <2>1, <2>3, <2>9
  <2>12. \A g \in Open' : handle_hash'[g] \in Live' /\ handle'[handle_hash'[g]] = g
    <3> SUFFICES ASSUME NEW g \in Open'
                 PROVE  handle_hash'[g] \in Live' /\ handle'[handle_hash'[g]] = g
      OBVIOUS
    <3>1. g \in Open /\ g # h /\ g \in Handles
      BY <2>8 DEF Open
    <3>2. handle_hash[g] \in Live /\ handle[handle_hash[g]] = g
      BY <3>1 DEF ArmadaInv, TablesExact
    <3>3. handle_hash[g] # b
      BY <3>1, <3>2
    <3>4. handle_hash'[g] = handle_hash[g]
      BY <2>1, <2>3, <3>1
    <3> QED
      BY <1>1, <2>7, <3>2, <3>3, <3>4
  <2>13. \A o \in Objects : name_hash'[o] # NoBo =>
           name_hash'[o] \in Live' /\ name'[name_hash'[o]] = o
    <3> SUFFICES ASSUME NEW o \in Objects, name_hash'[o] # NoBo
                 PROVE  name_hash'[o] \in Live' /\ name'[name_hash'[o]] = o
      OBVIOUS
    <3>1. o # name[b] /\ name_hash'[o] = name_hash[o] /\ name_hash[o] # NoBo
      BY <2>1
    <3>2. name_hash[o] \in Live /\ name[name_hash[o]] = o
      BY <3>1 DEF ArmadaInv, TablesExact
    <3> QED
      BY <1>1, <2>7, <3>1, <3>2
  <2>14. \A c \in Live' : name'[c] # NoObject =>
           name_hash'[name'[c]] = c /\ gem'[handle'[c]] = name'[c]
    <3> SUFFICES ASSUME NEW c \in Live', name'[c] # NoObject
                 PROVE  name_hash'[name'[c]] = c /\ gem'[handle'[c]] = name'[c]
      OBVIOUS
    <3>1. /\ c \in Live /\ name'[c] = name[c] /\ handle'[c] = handle[c]
          /\ name[c] \in Objects /\ name[c] # NoObject
      BY <1>1, <2>9
    <3>2. name_hash[name[c]] = c /\ gem[handle[c]] = name[c]
      BY <3>1 DEF ArmadaInv, TablesExact
    <3>3. ASSUME name[b] = name[c] PROVE FALSE
      <4>1. name_hash[name[b]] = b
        BY <1>1, <3>1, <3>3 DEF ArmadaInv, TablesExact
      <4> QED
        BY <2>9, <3>2, <3>3, <4>1
    <3> QED
      BY <2>1, <2>3, <2>9, <3>1, <3>2, <3>3
  <2> QED
    BY <2>6, <2>10, <2>11, <2>12, <2>13, <2>14 DEF ArmadaInv, TablesExact
<1> QED
  BY <1>4, <1>5

LEMMA FlinkKeeps ==
  ASSUME ArmadaInv, NEW b \in Bos, Flink(b)
  PROVE  ArmadaInv'
<1> DEFINE o == gem[handle[b]]
<1>1. /\ b \in Live /\ name[b] = NoObject /\ name_hash[o] = NoBo
      /\ name' = [name EXCEPT ![b] = o]
      /\ name_hash' = [name_hash EXCEPT ![o] = b]
      /\ shared' = [shared EXCEPT !["name"] = @ \union {o}]
      /\ UNCHANGED <<ref, handle, handle_hash, gem, prime>>
  BY DEF Flink
<1>2. o \in Objects /\ b # NoBo /\ b \in Bos
  BY <1>1, OfLive
<1>3. /\ name \in [Bos -> Objects \union {NoObject}]
      /\ name_hash \in [Objects -> Bos \union {NoBo}]
      /\ shared \in [{"dmabuf", "name"} -> SUBSET Objects]
  BY DEF ArmadaInv, ArmadaTypeOK
<1>b. \A c \in Live : c = b => gem[handle[c]] = o
  OBVIOUS
<1>h. gem' = gem /\ handle' = handle
  BY <1>1
<1> HIDE DEF o
<1>4. /\ name' \in [Bos -> Objects \union {NoObject}]
      /\ name_hash' \in [Objects -> Bos \union {NoBo}]
  BY <1>1, <1>2, <1>3
<1>5. shared' \in [{"dmabuf", "name"} -> SUBSET Objects]
  BY <1>1, <1>2, <1>3
<1>6. ArmadaTypeOK'
  BY <1>1, <1>4, <1>5 DEF ArmadaInv, ArmadaTypeOK
<1>7. Live' = Live /\ Open' = Open
  BY <1>1 DEF Live, Open
<1>8. \A p \in Objects : name_hash'[p] # NoBo =>
        name_hash'[p] \in Live' /\ name'[name_hash'[p]] = p
  <2> SUFFICES ASSUME NEW p \in Objects, name_hash'[p] # NoBo
               PROVE  name_hash'[p] \in Live' /\ name'[name_hash'[p]] = p
    OBVIOUS
  <2>1. CASE p = o
    BY <1>1, <1>2, <1>3, <1>7, <2>1
  <2>2. CASE p # o
    <3>1. name_hash'[p] = name_hash[p] /\ name_hash[p] \in Live /\ name[name_hash[p]] = p
      BY <1>1, <1>3, <2>2 DEF ArmadaInv, TablesExact
    <3>2. name_hash[p] # b
      BY <1>1, <3>1, ArmadaNulls
    <3> QED
      BY <1>1, <1>3, <1>7, <3>1, <3>2 DEF Live
  <2> QED
    BY <2>1, <2>2
<1>9. \A c \in Live' : name'[c] # NoObject =>
        name_hash'[name'[c]] = c /\ gem'[handle'[c]] = name'[c]
  <2> SUFFICES ASSUME NEW c \in Live, name'[c] # NoObject
               PROVE  name_hash'[name'[c]] = c /\ gem'[handle'[c]] = name'[c]
    BY <1>7
  <2>1. CASE c = b
    <3>1. name'[c] = o /\ name_hash'[o] = c
      BY <1>1, <1>2, <1>3, <2>1
    <3> QED
      BY <1>b, <1>h, <2>1, <3>1
  <2>2. CASE c # b
    <3>1. name'[c] = name[c] /\ name_hash[name[c]] = c /\ gem[handle[c]] = name[c]
      BY <1>1, <1>3, <2>2 DEF ArmadaInv, TablesExact, Live
    <3>2. c # NoBo /\ name[c] \in Objects
      BY <3>1, OfLive
    <3>3. name[c] # o
      BY <1>1, <3>1, <3>2
    <3> QED
      BY <1>1, <1>3, <1>h, <3>1, <3>2, <3>3
  <2> QED
    BY <2>1, <2>2
<1>10. /\ \A g \in Handles : handle_hash'[g] = NoBo <=> g \notin Open'
       /\ \A c \in Live' : handle_hash'[handle'[c]] = c
       /\ \A g \in Open' : handle_hash'[g] \in Live' /\ handle'[handle_hash'[g]] = g
  BY <1>1, <1>7 DEF ArmadaInv, TablesExact
<1> QED
  BY <1>6, <1>8, <1>9, <1>10 DEF ArmadaInv, TablesExact

LEMMA ToFdKeeps ==
  ASSUME ArmadaInv, NEW b \in Bos, ToFd(b)
  PROVE  ArmadaInv'
<1>1. /\ b \in Live
      /\ shared' = [shared EXCEPT !["dmabuf"] = @ \union {gem[handle[b]]}]
      /\ prime' = prime \union {handle[b]}
      /\ UNCHANGED <<ref, handle, name, handle_hash, name_hash, gem>>
  BY DEF ToFd
<1>2. handle[b] \in Handles /\ gem[handle[b]] \in Objects
  BY <1>1, OfLive
<1>3. shared' \in [{"dmabuf", "name"} -> SUBSET Objects]
  BY <1>1, <1>2 DEF ArmadaInv, ArmadaTypeOK
<1>4. ArmadaTypeOK'
  BY <1>1, <1>2, <1>3 DEF ArmadaInv, ArmadaTypeOK
<1>5. TablesExact'
  BY <1>1 DEF ArmadaInv, TablesExact, Live, Open
<1> QED
  BY <1>4, <1>5 DEF ArmadaInv

-----------------------------------------------------------------------------
(* A new bo is created for the handle that the kernel returns, and enters  *)
(* the table of names if it comes from one.                                *)
NewBo(b, o, n) ==
  /\ n \in {o, NoObject}
  /\ Create(b, NewHandle, o, n) /\ shared' = shared
  /\ prime' \subseteq prime \union {NewHandle}
  /\ n = o => name_hash[o] = NoBo /\ name_hash' = [name_hash EXCEPT ![o] = b]
  /\ n = NoObject => name_hash' = name_hash

LEMMA ArmadaSteps ==
  ASSUME ArmadaInv, ArmadaNext
  PROVE  \E b \in Bos : \/ Get(b) \/ Put(b) \/ Flink(b) \/ ToFd(b)
                        \/ \E o \in Objects : NewBo(b, o, o) \/ NewBo(b, o, NoObject)
<1>0. \A o \in Objects : o # NoObject
  BY ArmadaNulls
<1>1. ASSUME NEW b \in Bos, NEW o \in Objects, DumbCreate(b, o)
      PROVE  NewBo(b, o, NoObject)
  BY <1>0, <1>1 DEF DumbCreate, NewBo
<1>2. ASSUME NEW b \in Bos, NEW o \in Objects, FromFd(b, o)
      PROVE  Get(b) \/ NewBo(b, o, NoObject)
  BY <1>0, <1>2 DEF FromFd, NewBo
<1>3. ASSUME NEW b \in Bos, NEW o \in Objects, CreateFromName(b, o)
      PROVE  Get(b) \/ NewBo(b, o, o)
  BY <1>0, <1>3 DEF CreateFromName, NewBo
<1> QED
  BY <1>1, <1>2, <1>3 DEF ArmadaNext

LEMMA NewBoKeeps ==
  ASSUME ArmadaInv, NEW b \in Bos, NEW o \in Objects, NEW n \in {o, NoObject},
         NewBo(b, o, n)
  PROVE  ArmadaInv'
<1>1. NewHandle \in Handles /\ prime \subseteq Handles
  BY HandleIsFree DEF ArmadaInv, ArmadaTypeOK
<1>2. prime' \subseteq Handles
  BY <1>1 DEF NewBo
<1> QED
  BY <1>1, <1>2, CreateKeeps DEF NewBo

LEMMA ArmadaStep == ArmadaInv /\ [ArmadaNext]_armadaVars => ArmadaInv'
<1> SUFFICES ASSUME ArmadaInv, [ArmadaNext]_armadaVars PROVE ArmadaInv'
  OBVIOUS
<1>1. CASE ArmadaNext
  BY <1>1, ArmadaSteps, GetKeeps, PutKeeps, FlinkKeeps, ToFdKeeps, NewBoKeeps
<1>2. CASE UNCHANGED armadaVars
  BY <1>2 DEF armadaVars, ArmadaInv, ArmadaTypeOK, TablesExact, Live, Open
<1> QED
  BY <1>1, <1>2

LEMMA ArmadaInvariant == ArmadaSpec => []ArmadaInv
BY ArmadaInitInv, ArmadaStep, PTL DEF ArmadaSpec

(* No handle is left open without a bo, no two bos close the same one, and *)
(* a name finds the bo of its object (drm_armada_bo_from_fd,               *)
(* drm_armada_bo_create_from_name, drm_armada_bo_flink, armada_bo_free).   *)
THEOREM TablesCorrect == ArmadaSpec => []TablesExact
<1>1. ArmadaInv => TablesExact
  BY DEF ArmadaInv
<1> QED
  BY <1>1, ArmadaInvariant, PTL

(* A bo that is referenced before and after a step has the same memory.    *)
LEMMA MemoryStep ==
  ASSUME ArmadaInv, [ArmadaNext]_armadaVars, NEW c \in Live, ref'[c] > 0
  PROVE  gem'[handle'[c]] = gem[handle[c]]
<1>1. c \in Bos /\ handle[c] \in Handles /\ handle_hash[handle[c]] = c /\ c # NoBo
  BY OfLive
<1>2. /\ gem \in [Handles -> Objects \union {NoObject}] /\ handle \in [Bos -> Handles]
      /\ ref \in [Bos -> 0 .. MaxRef]
  BY DEF ArmadaInv, ArmadaTypeOK
<1>3. ASSUME NEW b \in Bos, Get(b) \/ Flink(b) \/ ToFd(b)
      PROVE  gem'[handle'[c]] = gem[handle[c]]
  BY <1>3 DEF Get, Flink, ToFd
<1>4. ASSUME NEW b \in Bos, Put(b) PROVE gem'[handle'[c]] = gem[handle[c]]
  <2>1. CASE ref[b] > 1
    BY <1>4, <2>1 DEF Put
  <2>2. CASE ~(ref[b] > 1)
    <3>1. /\ b \in Live /\ ref' = [ref EXCEPT ![b] = @ - 1] /\ handle' = handle
          /\ gem' = [gem EXCEPT ![handle[b]] = NoObject]
      BY <1>4, <2>2 DEF Put
    <3>2. handle_hash[handle[b]] = b /\ handle[b] \in Handles /\ ref[b] \in 1 .. MaxRef
      BY <3>1, OfLive
    <3>3. c # b
      BY <1>2, <2>2, <3>1, <3>2, MaxRefAssumption
    <3>4. handle[c] # handle[b]
      BY <1>1, <3>2, <3>3
    <3> QED
      BY <1>1, <1>2, <3>1, <3>4
  <2> QED
    BY <2>1, <2>2
<1>5. ASSUME NEW b \in Bos, NEW o, NEW n, NewBo(b, o, n)
      PROVE  gem'[handle'[c]] = gem[handle[c]]
  <2>1. /\ ref[b] = 0 /\ handle_hash[NewHandle] = NoBo
        /\ handle' = [handle EXCEPT ![b] = NewHandle]
        /\ gem' = [gem EXCEPT ![NewHandle] = o]
    BY <1>5 DEF NewBo, Create
  <2>2. c # b
    BY <2>1 DEF Live
  <2>3. handle[c] # NewHandle
    BY <1>1, <2>1
  <2> QED
    BY <1>1, <1>2, <2>1, <2>2, <2>3
<1>6. CASE ArmadaNext
  BY <1>3, <1>4, <1>5, <1>6, ArmadaSteps
<1>7. CASE UNCHANGED armadaVars
  BY <1>7 DEF armadaVars
<1> QED
  BY <1>6, <1>7

(* The memory of a bo is its own while it has a reference: the kernel's    *)
(* object of its handle is neither closed nor replaced under it.           *)
THEOREM MemoryStaysCorrect == ArmadaSpec => MemoryStays
<1>1. ArmadaInv /\ [ArmadaNext]_armadaVars
        => [\A b \in Live : ref'[b] > 0 => gem'[handle'[b]] = gem[handle[b]]]_armadaVars
  BY MemoryStep
<1> QED
  BY <1>1, ArmadaInvariant, PTL DEF ArmadaSpec, MemoryStays

-----------------------------------------------------------------------------
(* Frame counts.  The server has seen no frame that the kernel has not     *)
(* had, and the count of a pixmap that is on a CRTC is at most the CRTC's  *)
(* last known one, by the difference.                                      *)
Seen == \A c \in Crtcs : swap_msc[c] <= frame[c]
Accounts ==
  /\ pix["front"].bo # pix["back"].bo
  /\ ~set_back => \A p \in {"front", "back"} : pix[p].crtc \in Crtcs =>
       pix[p].last_msc <= swap_msc[pix[p].crtc] + pix[p].delta_msc
MscInv == MscTypeOK /\ Seen /\ Accounts /\ WaitForTarget /\ SwapForRemainder

LEMMA DivMod ==
  ASSUME NEW a \in Int, NEW n \in Nat \ {0}
  PROVE  /\ a % n \in 0 .. n - 1 /\ a \div n \in Int
         /\ a - (a % n) = n * (a \div n)
<1>1. a \div n \in Int /\ a = (n * (a \div n)) + (a % n) /\ a % n \in 0 .. n - 1
  OBVIOUS
<1>2. n * (a \div n) \in Int
  BY <1>1
<1> QED BY <1>1, <1>2

LEMMA ModOf ==
  ASSUME NEW q \in Int, NEW n \in Nat \ {0}, NEW r \in 0 .. n - 1
  PROVE  (n * q + r) % n = r
OBVIOUS

(* The first frame of a swap's equation after the current one.             *)
LEMMA Onset ==
  ASSUME NEW cur \in Int, NEW n \in Nat \ {0}, NEW r \in 0 .. n - 1
  PROVE  LET onset == cur - (cur % n) + r
             next  == IF onset <= cur THEN onset + n ELSE onset
         IN  /\ onset \in Int /\ next \in Int
             /\ next > cur /\ next <= cur + n /\ next % n = r
<1> DEFINE q == cur \div n
<1>1. cur % n \in 0 .. n - 1 /\ q \in Int /\ cur - (cur % n) = n * q
  BY DivMod
<1> HIDE DEF q
<1>2. (n * q + r) % n = r
  BY <1>1, ModOf
<1>3. q + 1 \in Int
  BY <1>1
<1>4. (n * (q + 1) + r) % n = r
  BY <1>3, ModOf
<1>5. n * (q + 1) + r = (n * q + r) + n /\ n * q \in Int
  BY <1>1
<1> DEFINE onset == cur - (cur % n) + r
<1>6. onset = n * q + r
  BY <1>1
<1>7. onset % n = r /\ (onset + n) % n = r
  BY <1>2, <1>4, <1>5, <1>6
<1>8. onset \in Int /\ onset <= cur + n - 1 /\ onset > cur - n
  BY <1>1
<1> QED BY <1>7, <1>8

LEMMA MscInitInv == MscInit => MscInv
<1> SUFFICES ASSUME MscInit PROVE MscInv
  OBVIOUS
<1>1. frame \in [Crtcs -> Nat] /\ swap_msc = [c \in Crtcs |-> 0] /\ asked.kind = "none"
  BY MaxFrameAssumption DEF MscInit, NothingAsked
<1>2. \A p \in {"front", "back"} :
        pix[p] = [bo |-> p, crtc |-> NoCrtc, last_msc |-> 0, delta_msc |-> 0]
  BY DEF MscInit
<1>3. MscTypeOK
  <2>1. pix \in [{"front", "back"} -> CommonPixmap]
    <3>1. \A p \in {"front", "back"} : pix[p] \in CommonPixmap
      BY <1>2 DEF CommonPixmap
    <3> QED BY <3>1 DEF MscInit
  <2>2. swap_msc \in [Crtcs -> Nat] /\ covering \in Crtcs /\ waits = {}
        /\ asked = NothingAsked /\ set_back = FALSE
    BY <1>1 DEF MscInit
  <2> QED BY <1>1, <2>1, <2>2 DEF MscTypeOK
<1>4. Seen /\ Accounts
  BY <1>1, <1>2, NoCrtcAssumption DEF Seen, Accounts
<1>5. WaitForTarget /\ SwapForRemainder
  BY <1>1 DEF WaitForTarget, SwapForRemainder
<1> QED BY <1>3, <1>4, <1>5 DEF MscInv

(* What a read of the drawable's count leaves.                             *)
LEMMA ReadSeen ==
  ASSUME MscTypeOK, Seen, NEW c \in Crtcs, NEW ok \in Answers
  PROVE  Read(c, ok) \in Nat /\ swap_msc[c] <= Read(c, ok) /\ Read(c, ok) <= frame[c]
BY DEF MscTypeOK, Seen, Read

LEMMA DrawableMscKeeps ==
  ASSUME MscTypeOK, Seen, Accounts, NEW c \in Crtcs \union {NoCrtc}, NEW ok \in Answers,
         NEW d, d = DrawableMsc(pix["front"], c, ok),
         swap_msc' = [x \in Crtcs |-> IF x \in SeenIn(pix["front"], c)
                                      THEN Read(x, ok) ELSE swap_msc[x]]
  PROVE  /\ d \in CommonPixmap /\ d.bo = pix["front"].bo /\ d.crtc = c
         /\ c \in Crtcs => d.last_msc = Read(c, ok) + d.delta_msc /\ swap_msc'[c] = Read(c, ok)
         /\ ~set_back => d.last_msc >= pix["front"].last_msc
         /\ swap_msc' \in [Crtcs -> Nat]
         /\ \A x \in Crtcs : swap_msc[x] <= swap_msc'[x] /\ swap_msc'[x] <= frame[x]
<1> DEFINE f == pix["front"]
           last == IF f.crtc = NoCrtc THEN f.last_msc ELSE Read(f.crtc, ok) + f.delta_msc
<1>1. f \in CommonPixmap
  BY DEF MscTypeOK
<1>2. last \in Int /\ (~set_back => last >= f.last_msc)
  <2>1. CASE f.crtc = NoCrtc
    BY <1>1, <2>1 DEF CommonPixmap
  <2>2. CASE f.crtc # NoCrtc
    <3>1. f.crtc \in Crtcs /\ f.delta_msc \in Int /\ f.last_msc \in Int
      BY <1>1, <2>2 DEF CommonPixmap
    <3>2. /\ Read(f.crtc, ok) \in Nat /\ swap_msc[f.crtc] \in Nat
          /\ swap_msc[f.crtc] <= Read(f.crtc, ok)
      BY <3>1, ReadSeen DEF MscTypeOK
    <3>3. ~set_back => f.last_msc <= swap_msc[f.crtc] + f.delta_msc
      BY <3>1 DEF Accounts
    <3> QED BY <2>2, <3>1, <3>2, <3>3
  <2> QED BY <2>1, <2>2
<1>3. d = [f EXCEPT !.crtc = c, !.last_msc = last,
                    !.delta_msc = IF c \in {f.crtc, NoCrtc} THEN f.delta_msc
                                  ELSE last - Read(c, ok)]
  BY <1>1 DEF DrawableMsc, CommonPixmap
<1> HIDE DEF last
<1>4. /\ d.bo = f.bo /\ d.crtc = c /\ d.last_msc = last
      /\ d.delta_msc = IF c \in {f.crtc, NoCrtc} THEN f.delta_msc ELSE last - Read(c, ok)
      /\ d = [bo |-> d.bo, crtc |-> d.crtc, last_msc |-> d.last_msc, delta_msc |-> d.delta_msc]
  BY <1>1, <1>3 DEF CommonPixmap
<1>5. c \in Crtcs => Read(c, ok) \in Nat
  BY ReadSeen
<1>6. d.delta_msc \in Int
  BY <1>1, <1>2, <1>4, <1>5 DEF CommonPixmap
<1>7. d \in CommonPixmap
  BY <1>1, <1>2, <1>4, <1>6 DEF CommonPixmap
<1>8. c \in Crtcs => d.last_msc = Read(c, ok) + d.delta_msc
  <2>1. SUFFICES ASSUME c \in Crtcs PROVE d.last_msc = Read(c, ok) + d.delta_msc
    OBVIOUS
  <2>2. c # NoCrtc
    BY <2>1, NoCrtcAssumption
  <2>3. CASE c = f.crtc
    BY <1>4, <2>2, <2>3 DEF last
  <2>4. CASE c # f.crtc
    BY <1>2, <1>4, <1>5, <2>1, <2>2, <2>4
  <2> QED BY <2>3, <2>4
<1>9. \A x \in Crtcs : /\ swap_msc'[x] \in Nat /\ swap_msc[x] \in Nat
                       /\ swap_msc[x] <= swap_msc'[x] /\ swap_msc'[x] <= frame[x]
  <2> TAKE x \in Crtcs
  <2>1. Read(x, ok) \in Nat /\ swap_msc[x] <= Read(x, ok) /\ Read(x, ok) <= frame[x]
    BY ReadSeen
  <2> QED BY <2>1 DEF MscTypeOK, Seen
<1>10. c \in Crtcs => swap_msc'[c] = Read(c, ok)
  BY DEF SeenIn
<1> QED BY <1>2, <1>4, <1>7, <1>8, <1>9, <1>10

(* What a request is queued for: its frame, or the next one that comes.    *)
LEMMA QueueKeeps ==
  ASSUME MscTypeOK, Seen, Accounts, covering \in Crtcs, NEW ok \in Answers, NEW late \in 0 .. 1,
         NEW r \in FrameRequests, NEW kind \in Kinds, NEW msc \in Int, NEW cur,
         GetDrawableMsc(covering, ok), cur = pix'["front"].last_msc,
         Queue(kind, msc, late, r, cur, ok)
  PROVE  /\ cur \in Int
         /\ frame' \in [Crtcs -> Nat] /\ \A c \in Crtcs : frame[c] <= frame'[c]
         /\ waits' \subseteq Wait
         /\ asked' \in Asked
         /\ asked'.kind = kind /\ asked'.cur = cur /\ asked'.request = r
         /\ kind = "DRI2_WAITMSC" =>
              /\ asked'.at >= msc
              /\ asked'.late = 0 => asked'.at = IF msc > cur THEN msc ELSE cur
         /\ kind = "DRI2_SWAP" =>
              /\ asked'.at > cur
              /\ asked'.late = 0 => asked'.at = IF msc > cur THEN msc ELSE cur + 1
         /\ kind = "DRI2_FLIP" =>
              /\ asked'.at > cur
              /\ asked'.late = 0 => asked'.at = (IF msc > cur THEN msc ELSE cur) + 1
<1> DEFINE d     == pix'["front"]
           now   == frame[covering] + late
           reply == Reply(msc - d.delta_msc, now, kind = "DRI2_SWAP")
           at    == reply + d.delta_msc + (IF kind = "DRI2_FLIP" THEN 1 ELSE 0)
           asks  == [kind |-> kind, cur |-> cur, request |-> r, at |-> at,
                     late |-> IF covering \in ok THEN late ELSE 1]
<1>1. /\ frame' = [frame EXCEPT ![covering] = now]
      /\ waits' = waits \union
                    {[crtc |-> covering, seq |-> reply, frame |-> at, kind |-> kind]}
      /\ asked' = asks
  BY DEF Queue, ToFrame
<1>2. /\ d \in CommonPixmap
      /\ d.last_msc = Read(covering, ok) + d.delta_msc
  <2>1. d = DrawableMsc(pix["front"], covering, ok)
    BY DEF GetDrawableMsc, MscTypeOK
  <2>2. swap_msc' = [x \in Crtcs |-> IF x \in SeenIn(pix["front"], covering)
                                     THEN Read(x, ok) ELSE swap_msc[x]]
    BY DEF GetDrawableMsc
  <2> QED BY <2>1, <2>2, DrawableMscKeeps
<1>3. /\ Read(covering, ok) \in Nat /\ Read(covering, ok) <= frame[covering]
      /\ covering \in ok => Read(covering, ok) = frame[covering]
  BY ReadSeen DEF Read
<1>4. d.delta_msc \in Int /\ d.last_msc \in Int /\ frame[covering] \in Nat
  BY <1>2 DEF CommonPixmap, MscTypeOK
<1> HIDE DEF d
<1>5. now \in Nat /\ now >= frame[covering] /\ cur \in Int /\ cur <= now + d.delta_msc
      /\ (covering \in ok /\ late = 0 => cur = now + d.delta_msc)
  BY <1>2, <1>3, <1>4 DEF d
<1> HIDE DEF now
<1>6. /\ reply \in Nat
      /\ reply = IF msc - d.delta_msc > now THEN msc - d.delta_msc
                 ELSE IF kind = "DRI2_SWAP" THEN now + 1 ELSE now
  BY <1>4, <1>5 DEF Reply
<1> HIDE DEF reply
<1>7. at \in Int
  BY <1>4, <1>6
<1>8. asks \in Asked
  BY <1>5, <1>7 DEF Asked
<1>9. waits' \subseteq Wait
  BY <1>1, <1>6, <1>7 DEF MscTypeOK, Wait
<1>10. frame' \in [Crtcs -> Nat] /\ \A c \in Crtcs : frame[c] <= frame'[c]
  BY <1>1, <1>5 DEF MscTypeOK
<1>11. /\ asked'.kind = kind /\ asked'.cur = cur /\ asked'.request = r /\ asked'.at = at
       /\ asked'.late = 0 => covering \in ok /\ late = 0
  BY <1>1
<1>12. kind = "DRI2_WAITMSC" =>
         /\ at >= msc
         /\ covering \in ok /\ late = 0 => at = IF msc > cur THEN msc ELSE cur
  BY <1>4, <1>5, <1>6
<1>13. kind = "DRI2_SWAP" =>
         /\ at > cur
         /\ covering \in ok /\ late = 0 => at = IF msc > cur THEN msc ELSE cur + 1
  BY <1>4, <1>5, <1>6
<1>14. kind = "DRI2_FLIP" =>
         /\ at > cur
         /\ covering \in ok /\ late = 0 => at = (IF msc > cur THEN msc ELSE cur) + 1
  BY <1>4, <1>5, <1>6
<1> HIDE DEF at, asks
<1> QED BY <1>1, <1>5, <1>8, <1>9, <1>10, <1>11, <1>12, <1>13, <1>14

(* What is not in the pixmaps, after a read of the front's count.          *)
LEMMA ReadKeeps ==
  ASSUME MscInv, NEW ok \in Answers, GetDrawableMsc(covering, ok), UNCHANGED set_back,
         frame' \in [Crtcs -> Nat], \A c \in Crtcs : frame[c] <= frame'[c]
  PROVE  /\ pix' \in [{"front", "back"} -> CommonPixmap]
         /\ swap_msc' \in [Crtcs -> Nat]
         /\ Seen' /\ Accounts'
<1> DEFINE d == DrawableMsc(pix["front"], covering, ok)
<1>1. MscTypeOK /\ Seen /\ Accounts /\ covering \in Crtcs \union {NoCrtc}
  BY DEF MscInv, MscTypeOK
<1>2. /\ pix' = [pix EXCEPT !["front"] = d]
      /\ swap_msc' = [x \in Crtcs |-> IF x \in SeenIn(pix["front"], covering)
                                      THEN Read(x, ok) ELSE swap_msc[x]]
  BY DEF GetDrawableMsc
<1>3. /\ d \in CommonPixmap /\ d.bo = pix["front"].bo /\ d.crtc = covering
      /\ covering \in Crtcs => /\ d.last_msc = Read(covering, ok) + d.delta_msc
                               /\ swap_msc'[covering] = Read(covering, ok)
      /\ swap_msc' \in [Crtcs -> Nat]
      /\ \A x \in Crtcs : swap_msc[x] <= swap_msc'[x] /\ swap_msc'[x] <= frame[x]
  BY <1>1, <1>2, DrawableMscKeeps
<1> HIDE DEF d
<1>4. pix'["front"] = d /\ pix'["back"] = pix["back"]
      /\ pix' \in [{"front", "back"} -> CommonPixmap]
  BY <1>1, <1>2, <1>3 DEF MscTypeOK
<1>5. Seen'
  <2>1. \A c \in Crtcs : swap_msc'[c] \in Nat /\ frame[c] \in Nat /\ frame'[c] \in Nat
    BY <1>1, <1>3 DEF MscTypeOK
  <2> QED BY <1>3, <2>1 DEF Seen
<1>6. Accounts'
  <2>1. pix'["front"].bo # pix'["back"].bo
    BY <1>1, <1>3, <1>4 DEF Accounts
  <2>2. ASSUME ~set_back', pix'["front"].crtc \in Crtcs
        PROVE  pix'["front"].last_msc <= swap_msc'[pix'["front"].crtc] + pix'["front"].delta_msc
    <3>1. covering \in Crtcs
      BY <1>3, <1>4, <2>2
    <3>2. d.last_msc = swap_msc'[covering] + d.delta_msc /\ d.last_msc \in Int
      BY <1>3, <3>1 DEF CommonPixmap
    <3> QED BY <1>3, <1>4, <3>2
  <2>3. ASSUME ~set_back', pix'["back"].crtc \in Crtcs
        PROVE  pix'["back"].last_msc <= swap_msc'[pix'["back"].crtc] + pix'["back"].delta_msc
    <3>1. PICK b \in CommonPixmap : b = pix["back"]
      BY <1>1 DEF MscTypeOK
    <3>2. b.crtc \in Crtcs /\ b.last_msc \in Int /\ b.delta_msc \in Int
      BY <1>4, <2>3, <3>1 DEF CommonPixmap
    <3>3. b.last_msc <= swap_msc[b.crtc] + b.delta_msc
      BY <1>1, <2>3, <3>1, <3>2 DEF Accounts
    <3>4. swap_msc[b.crtc] <= swap_msc'[b.crtc] /\ swap_msc[b.crtc] \in Nat
          /\ swap_msc'[b.crtc] \in Nat
      BY <1>1, <1>3, <3>2 DEF MscTypeOK
    <3> QED BY <1>4, <3>1, <3>2, <3>3, <3>4
  <2> QED BY <2>1, <2>2, <2>3 DEF Accounts
<1> QED BY <1>3, <1>4, <1>5, <1>6

LEMMA RequestTypes ==
  ASSUME NEW r \in FrameRequests
  PROVE  /\ r.target \in Nat /\ r.divisor \in Nat /\ r.remainder \in Nat
         /\ r.divisor > 0 => r.divisor \in Nat \ {0} /\ r.remainder \in 0 .. r.divisor - 1
BY RequestsAssumption, RemainderAssumption

LEMMA WaitTargetIs ==
  ASSUME NEW cur \in Int, NEW r \in FrameRequests
  PROVE  /\ WaitTarget(cur, r) \in Int
         /\ r.divisor = 0 \/ cur < r.target =>
              WaitTarget(cur, r) = IF cur > r.target THEN cur ELSE r.target
         /\ r.divisor > 0 /\ cur >= r.target => WaitTarget(cur, r) < cur + 2 * r.divisor
<1>0. r.target \in Nat /\ r.divisor \in Nat
  BY RequestTypes
<1>1. CASE r.divisor = 0 \/ cur < r.target
  <2>1. WaitTarget(cur, r) = IF cur > r.target THEN cur ELSE r.target
    BY <1>1 DEF WaitTarget, Later
  <2>2. ~(r.divisor > 0 /\ cur >= r.target)
    BY <1>0, <1>1
  <2> QED BY <1>0, <2>1, <2>2
<1>2. CASE ~(r.divisor = 0 \/ cur < r.target)
  <2> DEFINE n == r.divisor
  <2>1. n \in Nat \ {0} /\ r.remainder \in 0 .. n - 1
    BY <1>2, RequestTypes
  <2>2. cur % n \in 0 .. n - 1
    BY <2>1, DivMod
  <2>3. \/ WaitTarget(cur, r) = cur - (cur % n) + r.remainder + n
        \/ WaitTarget(cur, r) = cur - (cur % n) + r.remainder + 0
    BY <1>2 DEF WaitTarget
  <2> HIDE DEF n
  <2>4. WaitTarget(cur, r) \in Int /\ WaitTarget(cur, r) < cur + 2 * n
    BY <2>1, <2>2, <2>3
  <2> QED BY <1>2, <2>4 DEF n
<1> QED BY <1>1, <1>2

LEMMA SwapTargetIs ==
  ASSUME NEW cur \in Int, NEW r \in FrameRequests, NEW flip \in BOOLEAN
  PROVE  /\ SwapTarget(cur, r, flip) \in Int
         /\ r.divisor > 0 /\ cur >= r.target =>
              LET next == SwapTarget(cur, r, flip) + (IF flip THEN 1 ELSE 0)
              IN  next > cur /\ next <= cur + r.divisor /\ next % r.divisor = r.remainder
<1>1. FlipTarget(r, flip) \in Nat /\ FlipTarget(r, flip) <= r.target
  BY RequestTypes DEF FlipTarget
<1>2. CASE r.divisor = 0 \/ cur < FlipTarget(r, flip)
  BY <1>1, <1>2, RequestTypes DEF SwapTarget, Later
<1>3. CASE ~(r.divisor = 0 \/ cur < FlipTarget(r, flip))
  <2> DEFINE n     == r.divisor
             onset == cur - (cur % n) + r.remainder
             next  == IF onset <= cur THEN onset + n ELSE onset
  <2>1. n \in Nat \ {0} /\ r.remainder \in 0 .. n - 1
    BY <1>3, RequestTypes
  <2>2. next \in Int /\ next > cur /\ next <= cur + n /\ next % n = r.remainder
    <3>1. PICK m : m = r.remainder
      OBVIOUS
    <3> HIDE DEF n
    <3> QED BY <2>1, <3>1, Onset
  <2>3. SwapTarget(cur, r, flip) = next - (IF flip THEN 1 ELSE 0)
    BY <1>3 DEF SwapTarget
  <2> HIDE DEF next, n
  <2>4. SwapTarget(cur, r, flip) + (IF flip THEN 1 ELSE 0) = next /\ SwapTarget(cur, r, flip) \in Int
    BY <2>2, <2>3
  <2>5. r.divisor = n
    BY DEF n
  <2> QED BY <2>2, <2>4, <2>5
<1> QED BY <1>2, <1>3

LEMMA ScheduleWaitMSCKeeps ==
  ASSUME MscInv, NEW r \in FrameRequests, ScheduleWaitMSC(r) PROVE MscInv'
<1>1. PICK ok \in Answers, late \in 0 .. 1 :
        /\ GetDrawableMsc(covering, ok)
        /\ LET cur == pix'["front"].last_msc
           IN  \/ Queue("DRI2_WAITMSC", WaitTarget(cur, r), late, r, cur, ok)
               \/ NotQueued
  BY DEF ScheduleWaitMSC
<1>2. covering \in Crtcs /\ UNCHANGED <<covering, set_back>>
  BY DEF ScheduleWaitMSC, MscInv, MscTypeOK
<1>3. MscTypeOK /\ Seen /\ Accounts
  BY DEF MscInv
<1>4. CASE NotQueued
  <2>1. UNCHANGED <<frame, waits, asked>>
    BY <1>4 DEF NotQueued
  <2>2. frame' \in [Crtcs -> Nat] /\ \A c \in Crtcs : frame[c] <= frame'[c]
    BY <1>3, <2>1 DEF MscTypeOK
  <2>3. /\ pix' \in [{"front", "back"} -> CommonPixmap]
        /\ swap_msc' \in [Crtcs -> Nat]
        /\ Seen' /\ Accounts'
    BY <1>1, <1>2, <2>2, ReadKeeps
  <2> QED BY <1>2, <1>3, <2>1, <2>2, <2>3
          DEF MscInv, MscTypeOK, WaitForTarget, SwapForRemainder
<1>5. CASE ~NotQueued
  <2> DEFINE cur == pix'["front"].last_msc
  <2>1. Queue("DRI2_WAITMSC", WaitTarget(cur, r), late, r, cur, ok)
    BY <1>1, <1>5
  <2>2. cur \in Int
    <3>1. DrawableMsc(pix["front"], covering, ok) \in CommonPixmap
          /\ pix'["front"] = DrawableMsc(pix["front"], covering, ok)
      BY <1>1, <1>2, <1>3, DrawableMscKeeps DEF GetDrawableMsc, MscTypeOK
    <3> QED BY <3>1 DEF CommonPixmap
  <2> HIDE DEF cur
  <2>3. /\ WaitTarget(cur, r) \in Int
        /\ r.divisor = 0 \/ cur < r.target =>
             WaitTarget(cur, r) = IF cur > r.target THEN cur ELSE r.target
        /\ r.divisor > 0 /\ cur >= r.target => WaitTarget(cur, r) < cur + 2 * r.divisor
    BY <2>2, WaitTargetIs
  <2>4. /\ frame' \in [Crtcs -> Nat] /\ \A c \in Crtcs : frame[c] <= frame'[c]
        /\ waits' \subseteq Wait /\ asked' \in Asked
        /\ asked'.kind = "DRI2_WAITMSC" /\ asked'.cur = cur /\ asked'.request = r
        /\ asked'.at >= WaitTarget(cur, r)
        /\ asked'.late = 0 => asked'.at = IF WaitTarget(cur, r) > cur THEN WaitTarget(cur, r)
                                          ELSE cur
    BY <1>1, <1>2, <1>3, <2>1, <2>3, QueueKeeps DEF cur, Kinds
  <2>5. /\ pix' \in [{"front", "back"} -> CommonPixmap]
        /\ swap_msc' \in [Crtcs -> Nat]
        /\ Seen' /\ Accounts'
    BY <1>1, <1>2, <2>4, ReadKeeps
  <2>6. MscTypeOK'
    BY <1>2, <1>3, <2>4, <2>5 DEF MscTypeOK
  <2>7. SwapForRemainder'
    BY <2>4 DEF SwapForRemainder
  <2>8. asked'.at \in Int
    BY <2>4 DEF Asked
  <2>9. WaitForTarget'
    BY <2>2, <2>3, <2>4, <2>8, RequestTypes DEF WaitForTarget, Later
  <2> QED BY <2>5, <2>6, <2>7, <2>9 DEF MscInv
<1> QED BY <1>4, <1>5

LEMMA MscScheduleSwapKeeps ==
  ASSUME MscInv, NEW r \in FrameRequests, NEW flip \in BOOLEAN, ScheduleSwap(r, flip)
  PROVE  MscInv'
<1>1. PICK ok \in Answers, late \in 0 .. 1 :
        /\ GetDrawableMsc(covering, ok)
        /\ LET cur == pix'["front"].last_msc
           IN  \/ Queue(IF flip THEN "DRI2_FLIP" ELSE "DRI2_SWAP",
                        SwapTarget(cur, r, flip), late, r, cur, ok)
               \/ NotQueued
  BY DEF ScheduleSwap
<1>2. covering \in Crtcs /\ UNCHANGED <<covering, set_back>>
  BY DEF ScheduleSwap, MscInv, MscTypeOK
<1>3. MscTypeOK /\ Seen /\ Accounts
  BY DEF MscInv
<1>4. CASE NotQueued
  <2>1. UNCHANGED <<frame, waits, asked>>
    BY <1>4 DEF NotQueued
  <2>2. frame' \in [Crtcs -> Nat] /\ \A c \in Crtcs : frame[c] <= frame'[c]
    BY <1>3, <2>1 DEF MscTypeOK
  <2>3. /\ pix' \in [{"front", "back"} -> CommonPixmap]
        /\ swap_msc' \in [Crtcs -> Nat]
        /\ Seen' /\ Accounts'
    BY <1>1, <1>2, <2>2, ReadKeeps
  <2> QED BY <1>2, <1>3, <2>1, <2>2, <2>3
          DEF MscInv, MscTypeOK, WaitForTarget, SwapForRemainder
<1>5. CASE ~NotQueued
  <2> DEFINE cur == pix'["front"].last_msc
             kind == IF flip THEN "DRI2_FLIP" ELSE "DRI2_SWAP"
             msc == SwapTarget(cur, r, flip)
  <2>1. Queue(kind, msc, late, r, cur, ok) /\ kind \in Kinds
    BY <1>1, <1>5 DEF Kinds
  <2>2. cur \in Int
    <3>1. DrawableMsc(pix["front"], covering, ok) \in CommonPixmap
          /\ pix'["front"] = DrawableMsc(pix["front"], covering, ok)
      BY <1>1, <1>2, <1>3, DrawableMscKeeps DEF GetDrawableMsc, MscTypeOK
    <3> QED BY <3>1 DEF CommonPixmap
  <2>3. /\ msc \in Int
        /\ r.divisor > 0 /\ cur >= r.target =>
             LET next == msc + (IF flip THEN 1 ELSE 0)
             IN  next > cur /\ next <= cur + r.divisor /\ next % r.divisor = r.remainder
    <3> HIDE DEF cur
    <3> QED BY <2>2, SwapTargetIs
  <2> HIDE DEF msc
  <2>4. /\ frame' \in [Crtcs -> Nat] /\ \A c \in Crtcs : frame[c] <= frame'[c]
        /\ waits' \subseteq Wait /\ asked' \in Asked
        /\ asked'.kind = kind /\ asked'.cur = cur /\ asked'.request = r
        /\ asked'.at > cur
        /\ asked'.late = 0 => asked'.at = IF flip THEN (IF msc > cur THEN msc ELSE cur) + 1
                                          ELSE IF msc > cur THEN msc ELSE cur + 1
    BY <1>1, <1>2, <1>3, <2>1, <2>3, QueueKeeps
  <2> HIDE DEF cur
  <2>5. /\ pix' \in [{"front", "back"} -> CommonPixmap]
        /\ swap_msc' \in [Crtcs -> Nat]
        /\ Seen' /\ Accounts'
    BY <1>1, <1>2, <2>4, ReadKeeps
  <2>6. MscTypeOK'
    BY <1>2, <1>3, <2>4, <2>5 DEF MscTypeOK
  <2>7. WaitForTarget'
    BY <2>4 DEF WaitForTarget
  <2>8. ASSUME r.divisor > 0, cur >= r.target, asked'.late = 0
        PROVE  asked'.at = msc + (IF flip THEN 1 ELSE 0)
    BY <2>2, <2>3, <2>4, <2>8
  <2>9. SwapForRemainder'
    BY <2>2, <2>3, <2>4, <2>8 DEF SwapForRemainder
  <2> QED BY <2>5, <2>6, <2>7, <2>9 DEF MscInv
<1> QED BY <1>4, <1>5

LEMMA MscFlipNowKeeps ==
  ASSUME MscInv, NEW r \in FrameRequests, FlipNow(r) PROVE MscInv'
<1>1. PICK ok \in Answers :
        /\ pix' = FlipPixmap([pix EXCEPT !["front"] = DrawableMsc(pix["front"], covering, ok)])
        /\ swap_msc' = [x \in Crtcs |-> IF x \in SeenIn(pix["front"], covering)
                                        THEN Read(x, ok) ELSE swap_msc[x]]
  BY DEF FlipNow
<1>2. covering \in Crtcs /\ UNCHANGED <<frame, covering, waits, asked, set_back>>
  BY DEF FlipNow, MscInv, MscTypeOK
<1>3. MscTypeOK /\ Seen /\ Accounts
  BY DEF MscInv
<1> DEFINE d == DrawableMsc(pix["front"], covering, ok)
<1>4. /\ d \in CommonPixmap /\ d.bo = pix["front"].bo /\ d.crtc = covering
      /\ d.last_msc = Read(covering, ok) + d.delta_msc
      /\ swap_msc'[covering] = Read(covering, ok)
      /\ swap_msc' \in [Crtcs -> Nat]
      /\ \A x \in Crtcs : swap_msc[x] <= swap_msc'[x] /\ swap_msc'[x] <= frame[x]
  BY <1>1, <1>2, <1>3, DrawableMscKeeps
<1> HIDE DEF d
<1>5. PICK b \in CommonPixmap : b = pix["back"]
  BY <1>3 DEF MscTypeOK
<1>6. pix' = [p \in {"front", "back"} |-> IF p = "front" THEN b ELSE d]
  BY <1>1, <1>3, <1>5 DEF FlipPixmap, MscTypeOK, d
<1>7. pix'["front"] = b /\ pix'["back"] = d /\ pix' \in [{"front", "back"} -> CommonPixmap]
  BY <1>4, <1>5, <1>6
<1>8. Seen'
  BY <1>2, <1>4 DEF Seen
<1>9. Accounts'
  <2>1. b.bo # d.bo
    BY <1>3, <1>4, <1>5 DEF Accounts
  <2>2. d.last_msc <= swap_msc'[d.crtc] + d.delta_msc
    BY <1>4 DEF CommonPixmap
  <2>3. ASSUME ~set_back, b.crtc \in Crtcs
        PROVE  b.last_msc <= swap_msc'[b.crtc] + b.delta_msc
    <3>1. b.last_msc \in Int /\ b.delta_msc \in Int
      BY DEF CommonPixmap
    <3>2. b.last_msc <= swap_msc[b.crtc] + b.delta_msc
      BY <1>3, <1>5, <2>3 DEF Accounts
    <3>3. swap_msc[b.crtc] <= swap_msc'[b.crtc] /\ swap_msc[b.crtc] \in Nat
          /\ swap_msc'[b.crtc] \in Nat
      BY <1>3, <1>4, <2>3 DEF MscTypeOK
    <3> QED BY <3>1, <3>2, <3>3
  <2> QED BY <1>2, <1>7, <2>1, <2>2, <2>3 DEF Accounts
<1>10. MscTypeOK'
  BY <1>2, <1>3, <1>4, <1>7 DEF MscTypeOK
<1> QED BY <1>2, <1>8, <1>9, <1>10 DEF MscInv, WaitForTarget, SwapForRemainder

(* A completion may set the CRTC's last known number back; from then on    *)
(* nothing is said of the accounts.                                        *)
LEMMA MscEventKeeps ==
  ASSUME MscInv, NEW w \in waits, Event(w) PROVE MscInv'
<1>1. MscTypeOK /\ Seen /\ Accounts
  BY DEF MscInv
<1>2. /\ w.crtc \in Crtcs /\ w.seq \in Nat /\ waits' \subseteq Wait
      /\ frame[w.crtc] >= w.seq
  BY <1>1 DEF Event, MscTypeOK, Wait
<1>3. /\ swap_msc' = [swap_msc EXCEPT ![w.crtc] = w.seq]
      /\ set_back' = (set_back \/ w.seq < swap_msc[w.crtc])
      /\ asked' = NothingAsked
      /\ UNCHANGED <<frame, covering>>
      /\ pix' = pix \/ pix' = FlipPixmap(pix)
  BY DEF Event
<1>4. /\ swap_msc' \in [Crtcs -> Nat] /\ Seen'
      /\ ~set_back' => ~set_back /\ \A x \in Crtcs : swap_msc[x] <= swap_msc'[x]
  <2>1. swap_msc' \in [Crtcs -> Nat] /\ set_back' \in BOOLEAN
    BY <1>1, <1>2, <1>3 DEF MscTypeOK
  <2>2. \A x \in Crtcs : swap_msc'[x] = IF x = w.crtc THEN w.seq ELSE swap_msc[x]
    BY <1>1, <1>3 DEF MscTypeOK
  <2>3. Seen'
    BY <1>1, <1>2, <1>3, <2>2 DEF Seen, MscTypeOK
  <2>4. \A x \in Crtcs : swap_msc[x] \in Nat
    BY <1>1 DEF MscTypeOK
  <2>5. ASSUME ~set_back' PROVE ~set_back /\ ~(w.seq < swap_msc[w.crtc])
    BY <1>3, <2>5, Zenon
  <2>6. ~set_back' => \A x \in Crtcs : swap_msc[x] <= swap_msc'[x]
    BY <1>2, <2>2, <2>4, <2>5
  <2> QED BY <2>1, <2>3, <2>5, <2>6
<1>5. \E f \in {"front", "back"}, b \in {"front", "back"} :
        f # b /\ pix' = [p \in {"front", "back"} |-> IF p = "front" THEN pix[f] ELSE pix[b]]
  <2>1. CASE pix' = pix
    BY <1>1, <2>1 DEF MscTypeOK
  <2>2. CASE pix' = FlipPixmap(pix)
    <3>1. pix' = [p \in {"front", "back"} |-> IF p = "front" THEN pix["back"] ELSE pix["front"]]
      BY <2>2 DEF FlipPixmap
    <3> QED BY <3>1
  <2> QED BY <1>3, <2>1, <2>2
<1>6. PICK f \in {"front", "back"}, b \in {"front", "back"} :
        /\ f # b /\ pix'["front"] = pix[f] /\ pix'["back"] = pix[b]
        /\ pix' \in [{"front", "back"} -> CommonPixmap]
  <2>1. \A p \in {"front", "back"} : pix[p] \in CommonPixmap
    BY <1>1 DEF MscTypeOK
  <2> QED BY <1>5, <2>1
<1>7. Accounts'
  <2>1. pix'["front"].bo # pix'["back"].bo
    BY <1>1, <1>6 DEF Accounts
  <2>2. ASSUME ~set_back', NEW p \in {"front", "back"}, pix[p].crtc \in Crtcs
        PROVE  pix[p].last_msc <= swap_msc'[pix[p].crtc] + pix[p].delta_msc
    <3>1. PICK e \in CommonPixmap : e = pix[p]
      BY <1>1 DEF MscTypeOK
    <3>2. e.last_msc \in Int /\ e.delta_msc \in Int /\ e.crtc \in Crtcs
      BY <2>2, <3>1 DEF CommonPixmap
    <3>3. e.last_msc <= swap_msc[e.crtc] + e.delta_msc
      BY <1>1, <1>4, <2>2, <3>1, <3>2 DEF Accounts
    <3>4. swap_msc[e.crtc] <= swap_msc'[e.crtc] /\ swap_msc[e.crtc] \in Nat
          /\ swap_msc'[e.crtc] \in Nat
      BY <1>1, <1>4, <2>2, <3>2 DEF MscTypeOK
    <3> QED BY <3>1, <3>2, <3>3, <3>4
  <2> QED BY <1>6, <2>1, <2>2 DEF Accounts
<1>8. MscTypeOK'
  <2>1. set_back' \in BOOLEAN
    BY <1>3
  <2> QED BY <1>1, <1>2, <1>3, <1>4, <1>6, <2>1 DEF MscTypeOK
<1>9. WaitForTarget' /\ SwapForRemainder'
  BY <1>3 DEF WaitForTarget, SwapForRemainder, NothingAsked
<1> QED BY <1>4, <1>7, <1>8, <1>9 DEF MscInv

LEMMA MscNextInv == MscInv /\ [MscNext]_mscVars => MscInv'
<1> SUFFICES ASSUME MscInv, [MscNext]_mscVars PROVE MscInv'
  OBVIOUS
<1>1. ASSUME NEW c \in Crtcs, Vblank(c) PROVE MscInv'
  <2>1. /\ frame' = [frame EXCEPT ![c] = @ + 1]
        /\ UNCHANGED <<swap_msc, pix, covering, waits, asked, set_back>>
    BY <1>1 DEF Vblank
  <2>2. MscTypeOK'
    BY <2>1 DEF MscInv, MscTypeOK
  <2>3. Seen'
    BY <2>1 DEF MscInv, MscTypeOK, Seen
  <2> QED BY <2>1, <2>2, <2>3 DEF MscInv, Accounts, WaitForTarget, SwapForRemainder
<1>2. ASSUME NEW c \in Crtcs \union {NoCrtc}, Move(c) PROVE MscInv'
  BY <1>2 DEF Move, MscInv, MscTypeOK, Seen, Accounts, WaitForTarget, SwapForRemainder
<1>3. CASE GetMSC
  <2>1. PICK ok \in Answers : GetDrawableMsc(covering, ok)
    BY <1>3 DEF GetMSC
  <2>2. UNCHANGED <<frame, covering, waits, asked, set_back>>
    BY <1>3 DEF GetMSC
  <2>3. frame' \in [Crtcs -> Nat] /\ \A c \in Crtcs : frame[c] <= frame'[c]
    BY <2>2 DEF MscInv, MscTypeOK
  <2>4. /\ pix' \in [{"front", "back"} -> CommonPixmap]
        /\ swap_msc' \in [Crtcs -> Nat]
        /\ Seen' /\ Accounts'
    BY <2>1, <2>2, <2>3, ReadKeeps
  <2> QED BY <2>2, <2>3, <2>4 DEF MscInv, MscTypeOK, WaitForTarget, SwapForRemainder
<1>4. CASE UNCHANGED mscVars
  BY <1>4 DEF mscVars, MscInv, MscTypeOK, Seen, Accounts, WaitForTarget, SwapForRemainder
<1> QED BY <1>1, <1>2, <1>3, <1>4, ScheduleWaitMSCKeeps, MscScheduleSwapKeeps,
           MscFlipNowKeeps, MscEventKeeps DEF MscNext

LEMMA MscInvariant == MscSpec => []MscInv
<1> QED BY MscInitInv, MscNextInv, PTL DEF MscSpec

(* A client that waits for a frame sleeps until that frame and is woken    *)
(* before two periods are over (common_dri2_ScheduleWaitMSC).              *)
THEOREM WaitForTargetCorrect == MscSpec => []WaitForTarget
<1>1. MscInv => WaitForTarget
  BY DEF MscInv
<1> QED BY <1>1, MscInvariant, PTL

(* A swap is shown after the current frame, and at the first frame that    *)
(* satisfies its equation (etnaviv_dri2_ScheduleSwap).                     *)
THEOREM SwapForRemainderCorrect == MscSpec => []SwapForRemainder
<1>1. MscInv => SwapForRemainder
  BY DEF MscInv
<1> QED BY <1>1, MscInvariant, PTL

(* A read of the front's count takes none of the accounts back, a flip     *)
(* carries them along with their bos.                                      *)
LEMMA MscStepNeverBack ==
  ASSUME MscInv, MscNext, ~set_back,
         NEW p \in DOMAIN pix, NEW q \in DOMAIN pix, pix'[q].bo = pix[p].bo
  PROVE  pix'[q].last_msc >= pix[p].last_msc
<1>1. MscTypeOK /\ Seen /\ Accounts
  BY DEF MscInv
<1>2. /\ p \in {"front", "back"} /\ q \in {"front", "back"}
      /\ pix["front"].last_msc \in Int /\ pix["back"].last_msc \in Int
      /\ pix["front"].bo # pix["back"].bo
  BY <1>1 DEF MscTypeOK, Accounts, CommonPixmap
<1>3. \A ok \in Answers :
        GetDrawableMsc(covering, ok) => pix'[q].last_msc >= pix[p].last_msc
  <2>1. SUFFICES ASSUME NEW ok \in Answers, GetDrawableMsc(covering, ok)
                 PROVE  pix'[q].last_msc >= pix[p].last_msc
    OBVIOUS
  <2> DEFINE d == DrawableMsc(pix["front"], covering, ok)
  <2>2. d.bo = pix["front"].bo /\ d.last_msc >= pix["front"].last_msc
    BY <1>1, <2>1, DrawableMscKeeps DEF GetDrawableMsc, MscTypeOK
  <2>3. pix'["front"] = d /\ pix'["back"] = pix["back"]
    BY <1>1, <2>1 DEF GetDrawableMsc, MscTypeOK
  <2> HIDE DEF d
  <2> QED BY <1>2, <2>2, <2>3
<1>4. ASSUME NEW r \in FrameRequests, FlipNow(r) PROVE pix'[q].last_msc >= pix[p].last_msc
  <2>1. PICK ok \in Answers :
          /\ pix' = FlipPixmap([pix EXCEPT !["front"] = DrawableMsc(pix["front"], covering, ok)])
          /\ swap_msc' = [x \in Crtcs |-> IF x \in SeenIn(pix["front"], covering)
                                          THEN Read(x, ok) ELSE swap_msc[x]]
    BY <1>4 DEF FlipNow
  <2> DEFINE d == DrawableMsc(pix["front"], covering, ok)
  <2>2. d.bo = pix["front"].bo /\ d.last_msc >= pix["front"].last_msc
    BY <1>1, <2>1, DrawableMscKeeps DEF MscTypeOK
  <2>3. pix'["front"] = pix["back"] /\ pix'["back"] = d
    BY <1>1, <2>1 DEF FlipPixmap, MscTypeOK
  <2> HIDE DEF d
  <2> QED BY <1>2, <2>2, <2>3
<1>5. ASSUME NEW w \in waits, Event(w) PROVE pix'[q].last_msc >= pix[p].last_msc
  <2>1. pix' = pix \/ (pix'["front"] = pix["back"] /\ pix'["back"] = pix["front"])
    BY <1>5 DEF Event, FlipPixmap
  <2> QED BY <1>2, <2>1
<1>6. ASSUME UNCHANGED pix PROVE pix'[q].last_msc >= pix[p].last_msc
  BY <1>2, <1>6
<1>7. ASSUME NEW c \in Crtcs, Vblank(c) PROVE UNCHANGED pix
  BY <1>7 DEF Vblank
<1>8. ASSUME NEW c \in Crtcs \union {NoCrtc}, Move(c) PROVE UNCHANGED pix
  BY <1>8 DEF Move
<1>9. ASSUME NEW r \in FrameRequests, NEW flip \in BOOLEAN,
             GetMSC \/ ScheduleWaitMSC(r) \/ ScheduleSwap(r, flip)
      PROVE  \E ok \in Answers : GetDrawableMsc(covering, ok)
  BY <1>9 DEF GetMSC, ScheduleWaitMSC, ScheduleSwap
<1>10. CASE GetMSC
  BY <1>3, <1>10 DEF GetMSC
<1> QED BY <1>3, <1>4, <1>5, <1>6, <1>7, <1>8, <1>9, <1>10 DEF MscNext

(* The MSC a client is told never goes back, whichever CRTCs its drawable  *)
(* moves between and whether or not the kernel answers                     *)
(* (common_drm_get_drawable_msc), until a late completion sets a CRTC's    *)
(* last known number back.                                                 *)
THEOREM MscNeverBackCorrect == MscSpec => MscNeverBack
<1>1. MscInv /\ [MscNext]_mscVars =>
        [~set_back => \A p, q \in DOMAIN pix :
           pix'[q].bo = pix[p].bo => pix'[q].last_msc >= pix[p].last_msc]_pix
  <2>1. SUFFICES ASSUME MscInv, [MscNext]_mscVars, ~set_back, pix' # pix
                 PROVE  \A p, q \in DOMAIN pix :
                          pix'[q].bo = pix[p].bo => pix'[q].last_msc >= pix[p].last_msc
    OBVIOUS
  <2>2. MscNext
    BY <2>1 DEF mscVars
  <2> QED BY <2>1, <2>2, MscStepNeverBack
<1> QED BY <1>1, MscInvariant, PTL DEF MscSpec, MscNeverBack

=============================================================================
