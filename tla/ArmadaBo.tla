------------------------------ MODULE ArmadaBo ------------------------------
(***************************************************************************)
(* The buffer manager of the display side (src/armada_bufmgr.c): bos that  *)
(* are created, imported by a dmabuf or by a name, referenced and freed,   *)
(* and the two hash tables that find the bo of a handle and of a name.     *)
(*                                                                         *)
(* The kernel's side: a handle is the lowest number that is free, and is   *)
(* used again once it is closed.  An import of a dmabuf returns the handle *)
(* that the object has by PRIME already, GEM_OPEN makes a new one.  The    *)
(* name of an object is the object itself.                                 *)
(*                                                                         *)
(* Nothing in the source sets bo->reusable, so that drm_armada_bo_put      *)
(* always frees and the bo cache of this file stays empty.  The maps of    *)
(* the bos are left out.  A failing assert stops the server.               *)
(***************************************************************************)
EXTENDS Naturals, FiniteSetsExt

CONSTANTS
  Bos,     \* the memory for struct armada_bo
  NoBo,
  Own,     \* the objects that this process may create
  Foreign, \* the objects of other processes, which have a dmabuf and a name
  NoObject,
  MaxRef   \* bound: the references of a bo

ASSUME BosAssumption == IsFiniteSet(Bos) /\ NoBo \notin Bos
ASSUME ObjectsAssumption == NoObject \notin Own \union Foreign
ASSUME MaxRefAssumption == MaxRef \in Nat \ {0}

VARIABLES
  ref,         \* bo->ref, 0 if the bo is not allocated
  handle,      \* bo->bo.handle
  name,        \* bo->name, or NoObject
  handle_hash, \* mgr->handle_hash: the bo of a handle
  name_hash,   \* mgr->name_hash: the bo of a name
  gem,         \* the kernel: the object of each handle
  prime,       \* the kernel: the handles that PRIME knows of
  shared       \* the kernel: what has a dmabuf or a name outside

armadaVars == <<ref, handle, name, handle_hash, name_hash, gem, prime, shared>>

Objects == Own \union Foreign
Handles == 1 .. Cardinality(Bos) + 1

ArmadaTypeOK ==
  /\ ref \in [Bos -> 0 .. MaxRef]
  /\ handle \in [Bos -> Handles]
  /\ name \in [Bos -> Objects \union {NoObject}]
  /\ handle_hash \in [Handles -> Bos \union {NoBo}]
  /\ name_hash \in [Objects -> Bos \union {NoBo}]
  /\ gem \in [Handles -> Objects \union {NoObject}]
  /\ prime \subseteq Handles
  /\ shared \in [{"dmabuf", "name"} -> SUBSET Objects]

(* drm_armada_init                                                         *)
ArmadaInit ==
  /\ ref = [b \in Bos |-> 0]
  /\ handle = [b \in Bos |-> 1]
  /\ name = [b \in Bos |-> NoObject]
  /\ handle_hash = [h \in Handles |-> NoBo]
  /\ name_hash = [o \in Objects |-> NoBo]
  /\ gem = [h \in Handles |-> NoObject]
  /\ prime = {}
  /\ shared = [way \in {"dmabuf", "name"} |-> Foreign]

-----------------------------------------------------------------------------
Live == {b \in Bos : ref[b] > 0}
Open == {h \in Handles : gem[h] # NoObject}
NewHandle == Min(Handles \ Open)

(* A bo for a handle that is not in the hash.                              *)
Create(b, h, o, n) ==
  /\ ref[b] = 0 /\ handle_hash[h] = NoBo
  /\ ref' = [ref EXCEPT ![b] = 1]
  /\ handle' = [handle EXCEPT ![b] = h]
  /\ name' = [name EXCEPT ![b] = n]
  /\ handle_hash' = [handle_hash EXCEPT ![h] = b]
  /\ gem' = [gem EXCEPT ![h] = o]

(* drm_armada_bo_get                                                       *)
Get(b) ==
  /\ b \in Live /\ ref[b] < MaxRef
  /\ ref' = [ref EXCEPT ![b] = @ + 1]
  /\ UNCHANGED <<handle, name, handle_hash, name_hash, gem, prime, shared>>

(* drm_armada_bo_dumb_create                                               *)
DumbCreate(b, o) ==
  /\ o \in Own \ (shared["dmabuf"] \union shared["name"])
  /\ \A h \in Handles : gem[h] # o
  /\ Create(b, NewHandle, o, NoObject)
  /\ UNCHANGED <<name_hash, prime, shared>>

(* drm_armada_bo_from_fd.  The handle is closed again if there is no       *)
(* memory for the bo.                                                      *)
PrimeHandles(o) == {h \in prime : gem[h] = o}

(* Mutant: the handle is not looked up.                                    *)
FromFdAlways(b, o) ==
  /\ o \in shared["dmabuf"] /\ ref[b] = 0
  /\ LET h == IF PrimeHandles(o) = {} THEN NewHandle ELSE Min(PrimeHandles(o))
     IN  /\ handle' = [handle EXCEPT ![b] = h]
         /\ handle_hash' = [handle_hash EXCEPT ![h] = b]
         /\ gem' = [gem EXCEPT ![h] = o]
         /\ prime' = prime \union {h}
  /\ ref' = [ref EXCEPT ![b] = 1]
  /\ name' = [name EXCEPT ![b] = NoObject]
  /\ UNCHANGED <<name_hash, shared>>

FromFd(b, o) ==
  /\ o \in shared["dmabuf"]
  /\ IF PrimeHandles(o) = {}
       THEN /\ Create(b, NewHandle, o, NoObject)
            /\ prime' = prime \union {NewHandle}
            /\ UNCHANGED <<name_hash, shared>>
       ELSE \E h \in PrimeHandles(o) : b = handle_hash[h] /\ Get(b)

(* drm_armada_bo_create_from_name                                          *)
CreateFromName(b, o) ==
  /\ o \in shared["name"]
  /\ IF name_hash[o] = NoBo
       THEN /\ Create(b, NewHandle, o, o)
            /\ name_hash' = [name_hash EXCEPT ![o] = b]
            /\ UNCHANGED <<prime, shared>>
       ELSE b = name_hash[o] /\ Get(b)

(* drm_armada_bo_put, armada_bo_free: the last reference frees the bo.     *)

(* Mutant: the name stays in the hash.                                     *)
PutKeepsName(b) ==
  /\ b \in Live
  /\ ref' = [ref EXCEPT ![b] = @ - 1]
  /\ IF ref[b] > 1
       THEN UNCHANGED <<handle_hash, name_hash, gem, prime>>
       ELSE /\ handle_hash' = [handle_hash EXCEPT ![handle[b]] = NoBo]
            /\ UNCHANGED name_hash
            /\ gem' = [gem EXCEPT ![handle[b]] = NoObject]
            /\ prime' = prime \ {handle[b]}
  /\ UNCHANGED <<handle, name, shared>>

Put(b) ==
  /\ b \in Live
  /\ ref' = [ref EXCEPT ![b] = @ - 1]
  /\ IF ref[b] > 1
       THEN UNCHANGED <<handle_hash, name_hash, gem, prime>>
       ELSE /\ handle_hash' = [handle_hash EXCEPT ![handle[b]] = NoBo]
            /\ name_hash' = [o \in Objects |-> IF o = name[b] THEN NoBo ELSE name_hash[o]]
            /\ gem' = [gem EXCEPT ![handle[b]] = NoObject]
            /\ prime' = prime \ {handle[b]}
  /\ UNCHANGED <<handle, name, shared>>

(* drm_armada_bo_flink, of a bo that has no name yet: its name must not be *)
(* in the hash.                                                            *)
Flink(b) ==
  /\ b \in Live /\ name[b] = NoObject
  /\ LET o == gem[handle[b]]
     IN  /\ name_hash[o] = NoBo
         /\ name' = [name EXCEPT ![b] = o]
         /\ name_hash' = [name_hash EXCEPT ![o] = b]
         /\ shared' = [shared EXCEPT !["name"] = @ \union {o}]
  /\ UNCHANGED <<ref, handle, handle_hash, gem, prime>>

(* drm_armada_bo_to_fd                                                     *)
ToFd(b) ==
  /\ b \in Live
  /\ shared' = [shared EXCEPT !["dmabuf"] = @ \union {gem[handle[b]]}]
  /\ prime' = prime \union {handle[b]}
  /\ UNCHANGED <<ref, handle, name, handle_hash, name_hash, gem>>

ArmadaNext ==
  \/ \E b \in Bos : Get(b) \/ Put(b) \/ Flink(b) \/ ToFd(b)
  \/ \E b \in Bos, o \in Objects : DumbCreate(b, o) \/ FromFd(b, o) \/ CreateFromName(b, o)

ArmadaSpec == ArmadaInit /\ [][ArmadaNext]_armadaVars

-----------------------------------------------------------------------------
(* Properties.                                                             *)

(* Every open handle has one bo, which the hash finds by it: no handle is  *)
(* left open without a bo, and no two bos close the same one.  A name      *)
(* finds the bo that carries it, as long as that is allocated, and the bo  *)
(* is of the object of that name.                                          *)
TablesExact ==
  /\ \A h \in Handles : handle_hash[h] = NoBo <=> h \notin Open
  /\ \A b \in Live : handle_hash[handle[b]] = b
  /\ \A h \in Open : handle_hash[h] \in Live /\ handle[handle_hash[h]] = h
  /\ \A o \in Objects : name_hash[o] # NoBo =>
       name_hash[o] \in Live /\ name[name_hash[o]] = o
  /\ \A b \in Live : name[b] # NoObject =>
       name_hash[name[b]] = b /\ gem[handle[b]] = name[b]

(* A bo has the memory it was created for until it is freed: the handle is *)
(* neither closed nor used for another object while it has a reference.    *)
MemoryStays ==
  [][\A b \in Live : ref'[b] > 0 => gem'[handle'[b]] = gem[handle[b]]]_armadaVars

=============================================================================
