------------------------------ MODULE Present -------------------------------
(***************************************************************************)
(* The vblank events of the Present extension (common_present.c).  The     *)
(* server asks for an event at an msc, and may abort it; the kernel cannot *)
(* take back an event it was asked for, so an aborted event is taken off   *)
(* the list of events and stays allocated until the kernel delivers it.    *)
(*                                                                         *)
(* An event's memory is one of Events, which is the user data the kernel   *)
(* gives back.  The server waits for an id until it is notified or it      *)
(* aborts it, and may use the id again then.  How the msc is reached is    *)
(* in Msc.  Answers says what the server expects.                          *)
(***************************************************************************)
EXTENDS Naturals, SequencesExt

CONSTANTS
  Events, \* the memory for events
  Ids     \* the event ids of the server

VARIABLES
  events,   \* the list of events
  heap,     \* the events that are allocated
  event_id, \* event->event_id of each event
  vblanks,  \* the kernel: the events it was asked for and has not delivered
  waiting,  \* the server: the ids it waits for
  answers   \* the server: has it been notified of each id an odd number of times?

vars == <<events, heap, event_id, vblanks, waiting, answers>>

TypeOK ==
  /\ events \in Seq(Events)
  /\ heap \subseteq Events /\ vblanks \subseteq Events
  /\ event_id \in [Events -> Ids]
  /\ waiting \subseteq Ids
  /\ answers \in [Ids -> BOOLEAN]

Init ==
  /\ events = <<>> /\ heap = {} /\ vblanks = {} /\ waiting = {}
  /\ event_id \in [Events -> Ids]
  /\ answers = [id \in Ids |-> FALSE]

Listed == ToSet(events)
Places(e) == {i \in DOMAIN events : events[i] = e}
Without(e) == RemoveAt(events, Min(Places(e)))

(* present_event_notify                                                    *)
Notify(id) ==
  /\ waiting' = waiting \ {id}
  /\ answers' = [answers EXCEPT ![id] = ~@]

-----------------------------------------------------------------------------
(* common_present_queue_vblank.  There may be no memory, and the kernel    *)
(* may refuse the event; the server then goes on without it.               *)

QueueVblank(e, id, taken) ==
  /\ id \notin waiting /\ e \notin heap
  /\ event_id' = [event_id EXCEPT ![e] = id]
  /\ IF taken
       THEN /\ heap' = heap \union {e}
            /\ vblanks' = vblanks \union {e}
            /\ events' = Append(events, e)
            /\ waiting' = waiting \union {id}
       ELSE UNCHANGED <<heap, vblanks, events, waiting>>
  /\ UNCHANGED answers

(* common_present_abort_vblank: the first event of the list with the id.   *)

Named(id) == {i \in DOMAIN events : event_id[events[i]] = id}

(* Mutant: the event is freed as well.                                     *)
AbortVblankFrees(id) ==
  /\ id \in waiting
  /\ waiting' = waiting \ {id}
  /\ events' = RemoveAt(events, Min(Named(id)))
  /\ heap' = heap \ {events[Min(Named(id))]}
  /\ UNCHANGED <<event_id, vblanks, answers>>

(* Mutant: an event that was not asked for last is left on the list.       *)
AbortVblankLast(id) ==
  /\ id \in waiting
  /\ waiting' = waiting \ {id}
  /\ events' = IF event_id[Last(events)] = id THEN Front(events) ELSE events
  /\ UNCHANGED <<heap, event_id, vblanks, answers>>

AbortVblank(id) ==
  /\ id \in waiting
  /\ waiting' = waiting \ {id}
  /\ events' = IF Named(id) = {} THEN events ELSE RemoveAt(events, Min(Named(id)))
  /\ UNCHANGED <<heap, event_id, vblanks, answers>>

(* common_present_handler, for an event that the kernel delivers.          *)

(* Mutant: the event must be the first of the list.                        *)
HandlerFirst(e) ==
  /\ e \in vblanks
  /\ vblanks' = vblanks \ {e}
  /\ heap' = heap \ {e}
  /\ IF e \in Listed /\ e = Head(events)
       THEN Notify(event_id[e]) /\ events' = Without(e)
       ELSE /\ UNCHANGED <<waiting, answers>>
            /\ events' = SelectSeq(events, LAMBDA f : f # e)
  /\ UNCHANGED event_id

Handler(e) ==
  /\ e \in vblanks
  /\ vblanks' = vblanks \ {e}
  /\ heap' = heap \ {e}
  /\ IF e \in Listed
       THEN Notify(event_id[e]) /\ events' = Without(e)
       ELSE UNCHANGED <<waiting, answers, events>>
  /\ UNCHANGED event_id

Next ==
  \/ \E e \in Events, id \in Ids, taken \in BOOLEAN : QueueVblank(e, id, taken)
  \/ \E id \in Ids : AbortVblank(id)
  \/ \E e \in Events : Handler(e)

Spec == Init /\ [][Next]_vars

(* The kernel delivers what it was asked for, and the server handles it.   *)
FairSpec == Spec /\ \A e \in Events : WF_vars(Handler(e))

-----------------------------------------------------------------------------
(* Properties.                                                             *)

(* An event is allocated exactly as long as the kernel may deliver it: the *)
(* handler never gets memory that was freed, and none is lost.             *)
HeapIsPending == heap = vblanks

(* An id that was aborted is not notified by the event that is still due,  *)
(* one that was used again is notified once and by its own event, and      *)
(* every id that is not aborted is notified in the end.                    *)
Requests == INSTANCE Answers WITH asked <- waiting
AnsweredOnce == Requests!FairSpec

=============================================================================
