----------------------------- MODULE ToolCall ------------------------------
(***************************************************************************)
(* The calls to the Earthdata MCP of one user's chat turns:                *)
(* _bind_one of Backend/tta_backend/earthdata_mcp/workspace.py, with the   *)
(* turn's transport circuit breaker (call_tool of earthdata_mcp/           *)
(* results.py) and the user's token, cached for a short while by           *)
(* services/connector_credential_service.py and changed by api.py's        *)
(* connector endpoints.                                                    *)
(*                                                                         *)
(* A call finds its token in the cache or asks the database, passes or is  *)
(* turned away by the breaker, and is answered, refused or cut off. One    *)
(* action is one uninterrupted run of the event loop, or one statement of  *)
(* the database. Time is counted in ticks up to what the code compares it  *)
(* with. The cache of discovery metadata, the token's own expiry (a row    *)
(* past it serves like one in error) and last_used_at are left out.        *)
(***************************************************************************)
EXTENDS Integers

CONSTANTS
    Calls,            \* calls that may be under way at once
    Ceiling,          \* mcp_transport_failure_ceiling
    RecoveryCooldown, \* mcp_transport_recovery_cooldown_seconds, in ticks
    TTL,              \* DEFAULT_CACHE_TTL_SECONDS, in ticks
    MaxWrites,        \* bound: requests to the connector endpoints
    MaxDbFaults,      \* bound: failed statements of the database
    None              \* no cached row

ASSUME LimitsAssumption ==
    /\ Ceiling \in Nat \ {0}
    /\ RecoveryCooldown \in Nat \ {0}
    /\ TTL \in Nat \ {0}
    /\ MaxWrites \in Nat
    /\ MaxDbFaults \in Nat

VARIABLES
    call,       \* each call: where it is, the row it read, how long ago it
                \* asked for it, and the token it carries
    broken,     \* the calls whose session broke
    answering,  \* the server answers within the calls' timeouts
    \* the turn's breaker; ticks are since tripped_at
    streak, tripped, ticks,
    \* the connector: the stored row, the cached one, the endpoint's progress
    row, cached, api, writes,
    dbFaults,   \* bound
    \* history: ticks since a transport failure; whether the row last changed
    \* between a call's read of it and that row's place in the cache
    rest, raced

breaker == <<streak, tripped, ticks>>
connector == <<row, cached, api, writes>>
ToolCallVars == <<call, broken, answering, breaker, connector, dbFaults, rest, raced>>

-----------------------------------------------------------------------------
\* A row of user_connectors: which token, and whether its status is connected.
\* Token 0 is nobody's: no row, and the credential shared by all users.
Tokens == 0..MaxWrites
Rows == [token : Tokens, ok : BOOLEAN]
NoRow == [token |-> 0, ok |-> FALSE]

\* The token a row lets a call carry: its own, or the shared one.
Usable(r) == IF r.ok THEN r.token ELSE 0

\* What a call is doing, with the locals it needs for it.
IdleCall == [at |-> "idle", row |-> NoRow, age |-> 0, token |-> 0]
Asking == [IdleCall EXCEPT !.at = "asking"]
Flying(t) == [IdleCall EXCEPT !.at = "flying", !.token = t]
Flagging == [IdleCall EXCEPT !.at = "flagging"]

CallAt(c, place) == call[c].at = place

\* A read that is on its way to the cache.
ReadOut == \E c \in Calls : CallAt(c, "read")

\* What _get_row takes from the cache.
Fresh(age) == age < TTL

Later(n, cap) == IF n < cap THEN n + 1 ELSE n

ToolCallTypeOK ==
    /\ call \in [Calls -> [at : {"idle", "asking", "read", "flying", "flagging"},
                           row : Rows, age : 0..TTL, token : Tokens]]
    /\ broken \in SUBSET Calls
    /\ answering \in BOOLEAN
    /\ streak \in 0..Ceiling
    /\ tripped \in BOOLEAN
    /\ ticks \in 0..RecoveryCooldown
    /\ row \in Rows
    /\ cached \in [row : Rows, age : 0..(TTL - 1)] \cup {None}
    /\ api \in {"idle", "wrote"}
    /\ writes \in 0..MaxWrites
    /\ dbFaults \in 0..MaxDbFaults
    /\ rest \in 0..RecoveryCooldown
    /\ raced \in BOOLEAN

ToolCallInit ==
    /\ call = [c \in Calls |-> IdleCall]
    /\ broken = {}
    /\ answering = TRUE
    /\ streak = 0 /\ tripped = FALSE /\ ticks = RecoveryCooldown
    /\ row = NoRow
    /\ cached = None
    /\ api = "idle"
    /\ writes = 0
    /\ dbFaults = 0
    /\ rest = RecoveryCooldown
    /\ raced = FALSE

-----------------------------------------------------------------------------
(* The breaker: call_tool up to the transport.                             *)

CoolingDown == tripped /\ ticks < RecoveryCooldown

\* Mutant of Refuse: a refusal counts as one more failure of the server.
RefuseRestamping(c) ==
    /\ CoolingDown
    /\ ticks' = 0
    /\ call' = [call EXCEPT ![c] = IdleCall]
    /\ UNCHANGED broken

\* Refused before the transport is touched.
Refuse(c) ==
    /\ CoolingDown
    /\ call' = [call EXCEPT ![c] = IdleCall]
    /\ UNCHANGED <<ticks, broken>>

\* Sent with token t; a session opened to a server that is down breaks.
Transmit(c, t) ==
    /\ ~CoolingDown
    /\ call' = [call EXCEPT ![c] = Flying(t)]
    /\ broken' = IF answering THEN broken ELSE broken \cup {c}
    /\ UNCHANGED ticks

Send(c, t) == Refuse(c) \/ Transmit(c, t)

-----------------------------------------------------------------------------
(* One call: _call of _bind_one.                                           *)

\* A tool that takes no token, or an instance that stores none.
CallShared(c) ==
    /\ CallAt(c, "idle")
    /\ Send(c, 0)
    /\ UNCHANGED <<answering, streak, tripped, connector, dbFaults, rest, raced>>

\* The cached row is still fresh: nothing is awaited before the transport.
CallCached(c) ==
    /\ CallAt(c, "idle")
    /\ cached # None
    /\ Send(c, Usable(cached.row))
    /\ UNCHANGED <<answering, streak, tripped, connector, dbFaults, rest, raced>>

\* It is not: _get_row notes the time and asks the database.
Ask(c) ==
    /\ CallAt(c, "idle")
    /\ cached = None
    /\ call' = [call EXCEPT ![c] = Asking]
    /\ UNCHANGED <<broken, answering, breaker, connector, dbFaults, rest, raced>>

\* The database answers.
ReadRow(c) ==
    /\ CallAt(c, "asking")
    /\ call' = [call EXCEPT ![c].at = "read", ![c].row = row]
    /\ UNCHANGED <<broken, answering, breaker, connector, dbFaults, rest, raced>>

\* Or it fails, and the call raises.
ReadFails(c) ==
    /\ CallAt(c, "asking")
    /\ dbFaults < MaxDbFaults
    /\ dbFaults' = dbFaults + 1
    /\ call' = [call EXCEPT ![c] = IdleCall]
    /\ UNCHANGED <<broken, answering, breaker, connector, rest, raced>>

\* The call goes on: it caches what it read, as of when it asked.
StoreRow(c) ==
    /\ CallAt(c, "read")
    /\ cached' = IF Fresh(call[c].age) THEN [row |-> call[c].row, age |-> call[c].age]
                 ELSE None
    /\ Send(c, Usable(call[c].row))
    /\ UNCHANGED <<answering, streak, tripped, row, api, writes, dbFaults, rest, raced>>

\* Mutant of Answered: the streak ends and the breaker stays open.
AnsweredUnclosed(c) ==
    /\ CallAt(c, "flying")
    /\ answering /\ c \notin broken
    /\ streak' = 0
    /\ UNCHANGED <<tripped, ticks>>

\* A clean round trip, whatever the answer says, closes the breaker.
Answered(c) ==
    /\ CallAt(c, "flying")
    /\ answering /\ c \notin broken
    /\ streak' = 0 /\ tripped' = FALSE /\ ticks' = RecoveryCooldown

\* The answer is a result, or an error that is not about the token.
Accepted(c) ==
    /\ Answered(c)
    /\ call' = [call EXCEPT ![c] = IdleCall]
    /\ UNCHANGED <<broken, answering, connector, dbFaults, rest, raced>>

\* The server says that the user's token is no good: mark_invalid.
Rejected(c) ==
    /\ Answered(c)
    /\ call[c].token # 0
    /\ cached' = None
    /\ call' = [call EXCEPT ![c] = Flagging]
    /\ UNCHANGED <<broken, answering, row, api, writes, dbFaults, rest, raced>>

\* set_connector_status, on whatever row is there by then.
Flag(c) ==
    /\ CallAt(c, "flagging")
    /\ row' = [row EXCEPT !.ok = FALSE]
    /\ raced' = IF row.ok THEN cached # None \/ ReadOut ELSE raced
    /\ call' = [call EXCEPT ![c] = IdleCall]
    /\ UNCHANGED <<broken, answering, breaker, cached, api, writes, dbFaults, rest>>

\* Or it fails, which is logged.
FlagFails(c) ==
    /\ CallAt(c, "flagging")
    /\ dbFaults < MaxDbFaults
    /\ dbFaults' = dbFaults + 1
    /\ call' = [call EXCEPT ![c] = IdleCall]
    /\ UNCHANGED <<broken, answering, breaker, connector, rest, raced>>

\* Mutant of NoteFailure: only the failure that trips the breaker is timed.
NoteFirstFailure ==
    /\ streak' = Later(streak, Ceiling)
    /\ tripped' = (tripped \/ streak' = Ceiling)
    /\ ticks' = IF streak' = Ceiling /\ ~tripped THEN 0 ELSE ticks

\* _note_transport_failure; the streak is counted up to the ceiling.
NoteFailure ==
    /\ streak' = Later(streak, Ceiling)
    /\ tripped' = (tripped \/ streak' = Ceiling)
    /\ ticks' = IF streak' = Ceiling THEN 0 ELSE ticks

\* The session broke, or the call's time is up.
Broke(c) ==
    /\ CallAt(c, "flying")
    /\ c \in broken
    /\ NoteFailure
    /\ rest' = 0
    /\ broken' = broken \ {c}
    /\ call' = [call EXCEPT ![c] = IdleCall]
    /\ UNCHANGED <<answering, connector, dbFaults, raced>>

\* The turn ends or is stopped, and takes its calls along; the next one starts
\* with a breaker of its own.
NextTurn ==
    /\ call' = [c \in Calls |-> IdleCall]
    /\ broken' = {}
    /\ streak' = 0 /\ tripped' = FALSE /\ ticks' = RecoveryCooldown
    /\ UNCHANGED <<answering, connector, dbFaults, rest, raced>>

-----------------------------------------------------------------------------
(* The connector endpoints, the server and the clock.                      *)

\* Mutant of EndpointReturns: the cached row is left to lapse.
EndpointForgets ==
    /\ api = "wrote"
    /\ api' = "idle"
    /\ UNCHANGED <<call, broken, answering, breaker, row, cached, writes, dbFaults, rest, raced>>

\* A new token is stored, or the row is deleted.
EndpointWrites ==
    /\ api = "idle"
    /\ writes < MaxWrites
    /\ writes' = writes + 1
    /\ row' \in {NoRow, [token |-> writes + 1, ok |-> TRUE]}
    /\ raced' = ReadOut
    /\ api' = "wrote"
    /\ UNCHANGED <<call, broken, answering, breaker, cached, dbFaults, rest>>

\* _invalidate_connector_cache, and the endpoint returns.
EndpointReturns ==
    /\ api = "wrote"
    /\ cached' = None
    /\ api' = "idle"
    /\ UNCHANGED <<call, broken, answering, breaker, row, writes, dbFaults, rest, raced>>

\* The server goes down with every session that is open.
ServerFails ==
    /\ answering
    /\ answering' = FALSE
    /\ broken' = {c \in Calls : CallAt(c, "flying")}
    /\ UNCHANGED <<call, breaker, connector, dbFaults, rest, raced>>

ServerReturns ==
    /\ ~answering
    /\ answering' = TRUE
    /\ UNCHANGED <<call, broken, breaker, connector, dbFaults, rest, raced>>

\* A cached row that is TTL old is as good as none.
ToolCallTick ==
    /\ ticks' = Later(ticks, RecoveryCooldown)
    /\ rest' = Later(rest, RecoveryCooldown)
    /\ cached' = IF cached # None /\ Fresh(cached.age + 1)
                 THEN [cached EXCEPT !.age = @ + 1] ELSE None
    /\ call' = [c \in Calls |-> IF CallAt(c, "asking") \/ CallAt(c, "read")
                               THEN [call[c] EXCEPT !.age = Later(@, TTL)]
                               ELSE call[c]]
    /\ UNCHANGED <<broken, answering, streak, tripped, row, api, writes, dbFaults, raced>>

-----------------------------------------------------------------------------
CallStep(c) ==
    \/ CallShared(c) \/ CallCached(c) \/ Ask(c) \/ ReadRow(c) \/ ReadFails(c)
    \/ StoreRow(c) \/ Accepted(c) \/ Rejected(c) \/ Flag(c) \/ FlagFails(c)
    \/ Broke(c)

Endpoint == EndpointWrites \/ EndpointReturns

Server == ServerFails \/ ServerReturns

ToolCallNext == (\E c \in Calls : CallStep(c)) \/ NextTurn \/ Endpoint \/ Server \/ ToolCallTick

ToolCallSpec == ToolCallInit /\ [][ToolCallNext]_ToolCallVars

\* Time passes, calls keep being made, what is awaited comes (calls have
\* timeouts), and an endpoint that wrote returns.
ToolCallFairness ==
    /\ WF_ToolCallVars(ToolCallTick)
    /\ WF_ToolCallVars(EndpointReturns)
    /\ \A c \in Calls : WF_ToolCallVars(CallStep(c))

FairToolCalls == ToolCallSpec /\ ToolCallFairness

-----------------------------------------------------------------------------
(* Properties                                                              *)

\* The breaker is open exactly while failures have come one after the other,
\* however late the answers of calls sent before it opened.
TripIsEarned == tripped <=> streak = Ceiling

\* While the breaker is open, nothing is sent to a server that failed any
\* call within the last cooldown (_note_transport_failure's re-arming).
QuietAfterFailure ==
    [][\A c \in Calls : ~CallAt(c, "flying") /\ CallAt(c, "flying")'
                        => ~tripped \/ rest = RecoveryCooldown]_ToolCallVars

\* A server that stays up is used again: the trip is never for good.
ServerUsedAgain == <>[]answering => <>[]~tripped

\* A call may be given a row other than the stored one only while an endpoint
\* is between its write and its return, or if the row changed while a call
\* had read it and not cached it, or under the cached row by mark_invalid.
Shadowed == cached # None /\ cached.row # row
StaleOnlyByRace == Shadowed => raced \/ api = "wrote"

\* And never for longer than the cache keeps a row.
ShadowLapses == []<>~Shadowed

\* The breaker is open exactly while the ceiling's number of failures have come
\* one after the other, whatever calls were under way when it opened.
BreakerIsHonest == ToolCallTypeOK /\ TripIsEarned

\* After an outage the server is used again, and after a race the cached
\* credential is the stored one again.
OutagesPass == ServerUsedAgain /\ ShadowLapses
=============================================================================
