---------------------------- MODULE EtnavivFence ----------------------------
(***************************************************************************)
(* The fence lists of etnadrm/etnaviv_fence.c: which objects belong to the *)
(* batch that is still being built (batch_head) and which to a batch that  *)
(* was submitted to the GPU and carries its fence id (fence_head).         *)
(*                                                                         *)
(* The module has no state of its own.  A fence head is a value: the two   *)
(* lists of struct etnaviv_fence_head, and the state and id fields of every *)
(* struct etnaviv_fence that may be linked into them.  Each function of    *)
(* the C file is an operator from a fence head to a fence head, so that    *)
(* EtnavivAccel can compose them inside one handler.                       *)
(*                                                                         *)
(* Fence ids are the kernel's submission numbers.  The C code keeps them   *)
(* in 32 bits and compares them with VIV_FENCE_BEFORE_EQ, the sign of the  *)
(* difference; here they are naturals, which is the same order as long as  *)
(* two live ids are less than 2^31 submissions apart.                      *)
(***************************************************************************)
EXTENDS Integers, Sequences, Functions

CONSTANT Fences     \* the struct etnaviv_fence objects, named by their owner

FenceState == {"B_NONE", "B_PENDING", "B_FENCED"}

FenceHead ==
  [batch_head : Seq(Fences),              \* batch-queued fences
   fence_head : Seq(Fences),              \* submitted fences
   state      : [Fences -> FenceState],
   id         : [Fences -> Nat]]

FenceHeadInit ==
  [batch_head |-> << >>,
   fence_head |-> << >>,
   state      |-> [f \in Fences |-> "B_NONE"],
   id         |-> [f \in Fences |-> 0]]

BatchPending(fh)  == fh.batch_head # << >>
FencesPending(fh) == fh.fence_head # << >>

(* xorg_list_del: the node leaves the list it is linked into.              *)
ListDel(list, f) ==
  LET k == CHOOSE i \in DOMAIN list : list[i] = f
  IN  SubSeq(list, 1, k - 1) \o SubSeq(list, k + 1, Len(list))

-----------------------------------------------------------------------------
(* A fence that is already submitted moves back to the batch: the object    *)
(* is idle only once the newer batch is complete too.                      *)

(* Mutant: a submitted object keeps its old fence.                         *)
FenceAddKeepsFence(fh, f) ==
  IF fh.state[f] # "B_NONE" THEN fh
  ELSE [fh EXCEPT !.batch_head = Append(@, f), !.state[f] = "B_PENDING"]

FenceAdd(fh, f) ==
  IF fh.state[f] = "B_PENDING" THEN fh
  ELSE [fh EXCEPT !.fence_head = IF fh.state[f] = "B_FENCED"
                                 THEN ListDel(@, f) ELSE @,
                  !.batch_head = Append(@, f),
                  !.state[f]   = "B_PENDING"]

(* Mutant: the batch is put in front of the older fences.                  *)
FenceObjectsAtHead(fh, id) ==
  [batch_head |-> << >>,
   fence_head |-> fh.batch_head \o fh.fence_head,
   state      |-> [f \in Fences |-> IF f \in Range(fh.batch_head)
                                    THEN "B_FENCED" ELSE fh.state[f]],
   id         |-> [f \in Fences |-> IF f \in Range(fh.batch_head)
                                    THEN id ELSE fh.id[f]]]

FenceObjects(fh, id) ==
  [batch_head |-> << >>,
   fence_head |-> fh.fence_head \o fh.batch_head,
   state      |-> [f \in Fences |-> IF f \in Range(fh.batch_head)
                                    THEN "B_FENCED" ELSE fh.state[f]],
   id         |-> [f \in Fences |-> IF f \in Range(fh.batch_head)
                                    THEN id ELSE fh.id[f]]]

(* The walk of etnaviv_fence_retire_id stops at the first younger fence:   *)
(* this is how many nodes it passes.                                       *)
RetireCount(fh, id) ==
  CHOOSE n \in 0 .. Len(fh.fence_head) :
    /\ \A i \in 1 .. n : fh.id[fh.fence_head[i]] <= id
    /\ n < Len(fh.fence_head) => fh.id[fh.fence_head[n + 1]] > id

RetireId(fh, id) ==
  LET n == RetireCount(fh, id)
  IN  [batch_head |-> fh.batch_head,
       fence_head |-> SubSeq(fh.fence_head, n + 1, Len(fh.fence_head)),
       state      |-> [f \in Fences |->
                         IF f \in Range(SubSeq(fh.fence_head, 1, n))
                         THEN "B_NONE" ELSE fh.state[f]],
       id         |-> fh.id]

(* The younger of the fence given and the last fence retired.              *)
RetireLast(fh, fence, id) ==
  LET n == RetireCount(fh, id)
  IN  IF n > 0 /\ fh.id[fh.fence_head[n]] > fence
      THEN fh.id[fh.fence_head[n]] ELSE fence

RetireAll(fh) ==
  [batch_head |-> << >>,
   fence_head |-> << >>,
   state      |-> [f \in Fences |->
                     IF f \in Range(fh.batch_head) \union Range(fh.fence_head)
                     THEN "B_NONE" ELSE fh.state[f]],
   id         |-> fh.id]

-----------------------------------------------------------------------------
NoRepeats(list) == \A i, j \in DOMAIN list : list[i] = list[j] => i = j

(* The state field of every fence says which list its node is linked into, *)
(* no node is linked twice, and fence_head is ordered by fence id: this is *)
(* what lets etnaviv_fence_retire_id stop at the first younger fence.      *)
FenceHeadOK(fh) ==
  /\ NoRepeats(fh.batch_head)
  /\ NoRepeats(fh.fence_head)
  /\ \A f \in Fences : /\ fh.state[f] = "B_PENDING" <=> f \in Range(fh.batch_head)
                       /\ fh.state[f] = "B_FENCED"  <=> f \in Range(fh.fence_head)
  /\ \A i, j \in DOMAIN fh.fence_head :
       i < j => fh.id[fh.fence_head[i]] <= fh.id[fh.fence_head[j]]

=============================================================================
