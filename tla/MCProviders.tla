----------------------------- MODULE MCProviders -----------------------------
(* ConnectionManager, JwksCache and ToolCall on small instances.  They share  *)
(* no state: a behaviour exercises one of them and leaves the others as they  *)
(* began.                                                                     *)
EXTENDS ConnectionManager, JwksCache, ToolCall

CONSTANTS a, b

VARIABLE part

Init ==
  /\ part \in {"connection", "keys", "calls"}
  /\ ToolCallInit
  /\ IF part = "keys" THEN JwksInit
     ELSE /\ rotation = 1 /\ up = TRUE /\ outages = 0 /\ entry = [set |-> 0, left |-> 0]
          /\ cold = 0 /\ window = 0 /\ req = [r \in Requests |-> Idle]
  /\ IF part = "connection" THEN ConnectionInit
     ELSE /\ server = "up" /\ faults = 0 /\ state = "connecting" /\ loop = "stopped"
          /\ session = 0 /\ sessions = 0 /\ tools = 0 /\ live = 0
          /\ backoff = 0 /\ misses = 0 /\ probed = 0
Next ==
  \/ part = "connection" /\ ConnectionNext /\ UNCHANGED <<part, JwksVars, ToolCallVars>>
  \/ part = "keys" /\ JwksNext /\ UNCHANGED <<part, ConnectionVars, ToolCallVars>>
  \/ part = "calls" /\ ToolCallNext /\ UNCHANGED <<part, ConnectionVars, JwksVars>>

\* The fairness of the three.  What has not begun owes nothing: no loop runs, no
\* time passes, and nobody brings a token or makes a call.
Fairness ==
  /\ ConnectionFairness
  /\ \A r \in Requests : WF_JwksVars(Steps(r))
  /\ SF_JwksVars(part = "keys" /\ \E r \in Requests : Begins(r, MaxVersion))
  /\ WF_JwksVars(Tick) /\ WF_JwksVars(ComesUp)
  /\ WF_ToolCallVars(ToolCallTick) /\ WF_ToolCallVars(EndpointReturns)
  /\ \A c \in Calls : WF_ToolCallVars(part = "calls" /\ CallStep(c))
Spec == Init /\ [][Next]_<<part, ConnectionVars, JwksVars, ToolCallVars>> /\ Fairness

\* A session is given up only after a threshold of missed probes, a server that
\* stays up is connected in the end, and a rotated key is learnt for good.
ProvidersComeBack == OneMissIsForgiven /\ ComesBack /\ RotationIsLearnt
=============================================================================
