------------------------- MODULE MCDisplayServices --------------------------
(* Small instances of Present and ArmadaBo, which share no state: a        *)
(* behaviour is one of the first or one of the second.                     *)
EXTENDS Present, ArmadaBo

VARIABLE service

CheckInit ==
  /\ service \in {"present", "armada_bo"}
  /\ Init /\ ArmadaInit
  /\ service = "armada_bo" => \A e, f \in Events : event_id[e] = event_id[f]

CheckNext ==
  /\ UNCHANGED service
  /\ \/ service = "present" /\ Next /\ UNCHANGED armadaVars
     \/ service = "armada_bo" /\ ArmadaNext /\ UNCHANGED vars

CheckSpec ==
  /\ CheckInit /\ [][CheckNext]_<<service, vars, armadaVars>>
  /\ \A e \in Events : WF_vars(Handler(e))

=============================================================================
