-------------------------------- MODULE MCTurn --------------------------------
(* TurnStream and ThreadContext on small instances.  The two share no state:  *)
(* a behaviour exercises one of them and leaves the other as it began.        *)
EXTENDS TurnStream, ThreadContext

VARIABLE part

\* Two runs in one batch, and one in another of the same turn or of the next.
MCBatchOf == <<1, 1, 2>>

Init == StreamInit /\ ContextInit /\ part \in {"stream", "context"}
        /\ (part = "context" => route = "ground")
Next ==
  \/ part = "stream" /\ StreamNext /\ UNCHANGED <<part, contextVars>>
  \/ part = "context" /\ ContextNext /\ UNCHANGED <<part, streamVars>>
Fairness == part = "stream" => StreamFairness
Spec == Init /\ [][Next]_<<part, streamVars, contextVars>> /\ Fairness

\* A turn ends although its agent may never answer, and whatever ends it,
\* nothing of it runs on for good.
TurnsEnd == part = "stream" => TurnStops /\ TasksStop
===============================================================================
