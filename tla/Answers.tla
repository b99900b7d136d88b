------------------------------ MODULE Answers -------------------------------
(***************************************************************************)
(* What an X server extension expects of the driver that serves its        *)
(* requests: a request that the driver has taken is answered once, after   *)
(* it was made and unless it is aborted before; nothing else is answered.  *)
(* A request's id may be used again when it is answered or aborted.        *)
(***************************************************************************)
CONSTANT Ids  \* the ids of the requests

VARIABLES
  asked,   \* the ids of the requests that are to be answered
  answers  \* has each id had an odd number of answers?

vars == <<asked, answers>>

TypeOK == asked \subseteq Ids /\ answers \in [Ids -> BOOLEAN]

Init == asked = {} /\ answers = [id \in Ids |-> FALSE]

Ask(id) ==
  /\ id \notin asked
  /\ asked' = asked \union {id}
  /\ UNCHANGED answers

Abort(id) ==
  /\ id \in asked
  /\ asked' = asked \ {id}
  /\ UNCHANGED answers

Answer(id) ==
  /\ id \in asked
  /\ asked' = asked \ {id}
  /\ answers' = [answers EXCEPT ![id] = ~@]

Next == \E id \in Ids : Ask(id) \/ Abort(id) \/ Answer(id)

Spec == Init /\ [][Next]_vars

(* A request that is not aborted is answered in the end.                   *)
FairSpec == Spec /\ \A id \in Ids : WF_vars(Answer(id))

=============================================================================
