-------------------------- MODULE MCEventForwarder --------------------------
(* Small instances of EventForwarder: the second key is twice as long.      *)
(* A behaviour has many events under one configuration, or an event and     *)
(* many configurations.                                                     *)
EXTENDS EventForwarder

VARIABLE scenario

KeyBytes == [k \in Keys |-> IF k = "k2" THEN 2 ELSE 1]

MCInit == Init /\ scenario \in {"events", "edits"}

MCNext ==
  /\ Next /\ UNCHANGED scenario
  /\ scenario = "events" => draft' = draft
  /\ scenario = "edits" => sent' <= 1 /\ ingest' \in {<<>>, <<"k1">>}

MCSpec == MCInit /\ [][MCNext]_<<vars, scenario>> /\ Fairness
=============================================================================
