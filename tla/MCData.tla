-------------------------------- MODULE MCData --------------------------------
(* The data the backend keeps and what it works out of it, on small           *)
(* instances: the three stores on disk (CubeCache, FrameStore, ExtractCache)  *)
(* and the pure decisions (MCDecisions).  They share no state: a behaviour    *)
(* exercises one of them and leaves the others as they began.                 *)
EXTENDS CubeCache, FrameStore, ExtractCache, MCDecisions

VARIABLE part

MCPlanes == <<"mean", "max">>

Init ==
  /\ CubeInit /\ FrameInit /\ ExtractInit /\ DecisionsInit
  /\ part \in {"cubes", "frames", "extracts", "fields", "results"}
Next ==
  \/ part = "cubes" /\ CubeNext /\ UNCHANGED <<part, frameVars, extractVars, input>>
  \/ part = "frames" /\ FrameNext /\ UNCHANGED <<part, cubeVars, extractVars, input>>
  \/ part = "extracts" /\ ExtractNext /\ UNCHANGED <<part, cubeVars, frameVars, input>>
  \/ part = "fields" /\ Is("none") /\ FieldInputs /\ UNCHANGED <<part, cubeVars, frameVars, extractVars>>
  \/ part = "results" /\ Is("none") /\ ResultInputs /\ UNCHANGED <<part, cubeVars, frameVars, extractVars>>
Spec == Init /\ [][Next]_<<part, cubeVars, frameVars, extractVars, input>>
===============================================================================
