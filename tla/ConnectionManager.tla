-------------------------- MODULE ConnectionManager --------------------------
(***************************************************************************)
(* earthdata_mcp/connection.py: the background loop that holds one session *)
(* to the Earthdata MCP server, publishes its tools, probes it and comes   *)
(* back after every failure, with the ready callback and the shutdown of   *)
(* api.py around it.  Sessions are numbered; a tool is known by the number *)
(* of the session it was bound to.  Time is not counted: a wait is a state *)
(* the loop may leave.                                                     *)
(***************************************************************************)
EXTENDS Integers

CONSTANTS Threshold,    \* heartbeat_failure_threshold
          MaxBackoff,   \* bound: doublings of the wait before it is capped
          MaxSessions,  \* bound: session numbers, reused in turn
          MaxFaults     \* bound: changes of the server and broken sessions

ASSUME ConnectionAssumption ==
  /\ Threshold \in Nat \ {0} /\ MaxBackoff \in Nat \ {0}
  /\ MaxSessions \in Nat \ {0} /\ MaxFaults \in Nat

VARIABLES
  server,    \* the MCP server: up, down, or up with other tool schemas
  faults,    \* changes of the server so far
  state,     \* the manager's state, as readers see it
  loop,      \* where the connect loop is
  session,   \* number of the session the loop holds, 0 for none
  sessions,  \* number of the last session opened
  tools,     \* _tools: session its tools are bound to
  live,      \* app.state.earthdata_mcp_tools: session of the shared dict, -1 after shutdown
  backoff,   \* doublings of the wait
  misses,    \* consecutive_failures
  probed     \* ghost: probes of this session that failed since one succeeded

ConnectionVars == <<server, faults, state, loop, session, sessions, tools, live, backoff, misses, probed>>
outside == <<server, faults>>
published == <<state, tools, live>>

ConnectionTypeOK ==
  /\ server \in {"up", "down", "changed"} /\ faults \in 0..MaxFaults
  /\ state \in {"connecting", "ready", "unavailable", "incompatible"}
  /\ loop \in {"opening", "open", "bound", "beating", "leaving", "failed", "waiting", "stopped"}
  /\ session \in 0..MaxSessions /\ sessions \in 0..MaxSessions
  /\ tools \in 0..MaxSessions /\ live \in -1..MaxSessions
  /\ backoff \in 0..MaxBackoff /\ misses \in 0..Threshold /\ probed \in 0..Threshold

ConnectionInit ==
  /\ server \in {"up", "down", "changed"} /\ faults = 0
  /\ state = "connecting" /\ loop = "opening"
  /\ session = 0 /\ sessions = 0 /\ tools = 0 /\ live = 0
  /\ backoff = 0 /\ misses = 0 /\ probed = 0

(***************************************************************************)
(* The connect loop.                                                       *)
(***************************************************************************)
Doubled == IF backoff = MaxBackoff THEN backoff ELSE backoff + 1

\* _transition(STATE_UNAVAILABLE) and the wait, from either except branch
Falls == /\ state' = "unavailable" /\ loop' = "waiting" /\ backoff' = Doubled

\* open_earthdata_session: the handshake and the list of tools
Opens ==
  /\ loop = "opening" /\ server # "down"
  /\ sessions' = (sessions % MaxSessions) + 1 /\ session' = sessions'
  /\ loop' = "open"
  /\ UNCHANGED <<outside, published, backoff, misses, probed>>
OpenFails ==
  /\ loop = "opening" /\ server = "down"
  /\ Falls
  /\ UNCHANGED <<outside, session, sessions, tools, live, misses, probed>>

\* check_tool_schemas, then bind_workspace
Checks ==
  /\ loop = "open"
  /\ IF server = "changed"
     THEN /\ state' = "incompatible" /\ session' = 0
          /\ loop' = "waiting" /\ backoff' = Doubled
     ELSE loop' = "bound" /\ UNCHANGED <<state, session, backoff>>
  /\ UNCHANGED <<outside, sessions, tools, live, misses, probed>>

\* on_ready refreshes the shared tools unless the process is shutting down;
\* only then does the state become ready
Live == IF live = -1 THEN -1 ELSE session
\* Mutant of Publishes.
PublishesOnce ==
  /\ loop = "bound"
  /\ live' = IF tools = 0 THEN Live ELSE live
  /\ tools' = session /\ state' = "ready"
  /\ loop' = "beating" /\ misses' = 0 /\ probed' = 0
  /\ UNCHANGED <<outside, session, sessions, backoff>>
Publishes ==
  /\ loop = "bound"
  /\ live' = IF state # "ready" THEN Live ELSE live
  /\ tools' = session /\ state' = "ready"
  /\ loop' = "beating" /\ misses' = 0 /\ probed' = 0
  /\ UNCHANGED <<outside, session, sessions, backoff>>
\* the callback, or anything else while the session is held, raises: the scope
\* closes first, the state follows
Breaks ==
  /\ loop \in {"open", "bound", "beating"} /\ faults < MaxFaults
  /\ faults' = faults + 1
  /\ session' = 0 /\ loop' = "failed"
  /\ live' \in IF loop = "bound" THEN {live, Live} ELSE {live}
  /\ UNCHANGED <<server, state, tools, sessions, backoff, misses, probed>>
Recovers ==
  /\ loop = "failed"
  /\ Falls
  /\ UNCHANGED <<outside, session, sessions, tools, live, misses, probed>>

\* _heartbeat_while_ready
ProbeAnswers ==
  /\ loop = "beating" /\ server # "down"
  /\ misses' = 0 /\ probed' = 0
  /\ UNCHANGED <<outside, published, loop, session, sessions, backoff>>
ProbeMisses ==
  /\ loop = "beating" /\ server = "down"
  /\ misses' = misses + 1 /\ probed' = probed + 1
  /\ IF misses' >= Threshold
     THEN state' = "unavailable" /\ loop' = "leaving"
     ELSE UNCHANGED <<state, loop>>
  /\ UNCHANGED <<outside, tools, live, session, sessions, backoff>>

\* the session scope closes after the state has changed; the loop reconnects
\* at once with a fresh wait
Leaves ==
  /\ loop = "leaving"
  /\ session' = 0 /\ backoff' = 0 /\ loop' = "opening"
  /\ UNCHANGED <<outside, published, sessions, misses, probed>>
WaitEnds ==
  /\ loop = "waiting" /\ loop' = "opening"
  /\ UNCHANGED <<outside, published, session, sessions, backoff, misses, probed>>

(***************************************************************************)
(* Shutdown and the server.                                                *)
(***************************************************************************)
\* lifespan: stop cancels the loop wherever it waits, and only then are the
\* shared tools taken away
Stops ==
  /\ loop # "stopped"
  /\ loop' = "stopped" /\ session' = 0 /\ live' = -1
  /\ UNCHANGED <<outside, state, tools, sessions, backoff, misses, probed>>

ServerTurns ==
  /\ faults < MaxFaults
  /\ server' \in {"up", "down", "changed"} \ {server}
  /\ faults' = faults + 1
  /\ UNCHANGED <<published, loop, session, sessions, backoff, misses, probed>>

LoopSteps ==
  \/ Opens \/ OpenFails \/ Checks \/ Publishes \/ Recovers
  \/ ProbeAnswers \/ ProbeMisses \/ Leaves \/ WaitEnds
ConnectionNext == LoopSteps \/ Breaks \/ Stops \/ ServerTurns

ConnectionFairness == WF_ConnectionVars(LoopSteps)
ConnectionSpec == ConnectionInit /\ [][ConnectionNext]_ConnectionVars /\ ConnectionFairness

(***************************************************************************)
(* Properties.                                                             *)
(***************************************************************************)
\* While the loop runs, a reader who finds the state ready finds tools, and a
\* shared dict, bound to the session that is held; the one exception is a
\* scope that closed by raising, until the loop has handled it
\* (_connect_once, _on_earthdata_mcp_ready).
ReadyMeansBound ==
  state = "ready" /\ loop \notin {"failed", "stopped"}
    => session # 0 /\ tools = session /\ live \in {session, -1}

\* So the state readers see is honest about the tools they get with it.
ReadyIsHonest == ConnectionTypeOK /\ ReadyMeansBound

\* The toolset is taken away from a live session only after Threshold probes
\* in a row have failed, and one answered probe starts the count over
\* (_heartbeat_while_ready).
OneMissIsForgiven ==
  [][state = "ready" /\ state' = "unavailable" /\ loop # "failed" => probed' = Threshold]_ConnectionVars

\* A server that stays up is connected to in the end, after whatever outage,
\* incompatible phase, broken session or failing callback (_connect_loop).
ComesBack ==
  <>[](server = "up") => <>[](state = "ready" \/ loop = "stopped")
=============================================================================
