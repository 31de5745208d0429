--------------------------- MODULE DispatchProofs ---------------------------
(***************************************************************************)
(* Theorems of DispatchExecutor, for every set of calls and requests, every *)
(* collection of lists and every limit. The inductive invariant has one    *)
(* part per concern (types, runs, answers, saving, pace, budget), each     *)
(* preserved by a lemma of its own.                                        *)
(***************************************************************************)
EXTENDS DispatchExecutor, FiniteSetTheorems, SequenceTheorems, TLAPS

\* A run belongs to a call that has begun, was on its list, and has all the
\* slots it needs before it has one of the shared ones.
RunsShape ==
    \A r \in Requests :
        /\ outcome[r] = "none" <=> owner[r] = None
        /\ owner[r] # None => /\ pc[owner[r]] \notin {"unused", "emitted"}
                              /\ r \in Keys(list[owner[r]])
        /\ slots[r] # {} => outcome[r] = "pending"
        /\ slots[r] \subseteq Needs(r)
        /\ "total" \in slots[r] => slots[r] = Needs(r)

\* A call is answered once it has gathered its runs; what it says of each
\* place of its list is about its own run there, or nothing was run.
AnswersShape ==
    \A c \in Calls :
        /\ pc[c] # "unused" => list[c] \in Lists
        /\ pc[c] \in {"unused", "emitted", "gathering"} => items[c] = <<>>
        /\ pc[c] \in {"locking", "loading", "saving", "over"} =>
              \A r \in Requests : owner[r] = c => outcome[r] # "pending"
        /\ \A i \in DOMAIN items[c] :
              /\ i \in DOMAIN list[c]
              /\ items[c][i].status \in {"ok", "error"} => OwnPlace(c, i)
              /\ items[c][i].status = "rejected" => pc[c] = "over"
        /\ (\E i \in DOMAIN items[c] : items[c][i].status = "rejected")
              => \A r \in Requests : owner[r] # c

\* The lock is held exactly while a context is read and written, so what was
\* read is what is there.
SavingShape ==
    /\ \A c \in Calls : lock = c <=> pc[c] \in {"loading", "saving"}
    /\ faults = 0 => \A c \in Calls : pc[c] = "saving" => prior[c] = context
    /\ ContextsKept

\* The pace of the turn: a step opened a round, or it will close dispatch.
OnTime == roundStep = step /\ step = roundsUsed
Behind == /\ step = roundsUsed + 1
          /\ roundsUsed < MaxRounds
          /\ roundStep < step
          /\ stepNewRuns = 0

Pace ==
    /\ roundStep <= step
    /\ step <= MaxRounds + 1
    /\ roundsUsed <= MaxRounds
    /\ phase = "between" =>
          /\ ~closed
          /\ \/ step = 0 /\ roundsUsed = 0 /\ roundStep = -1 /\ stepCalls = 0
             \/ OnTime
             \/ Behind /\ stepCalls > 0
    /\ phase = "thinking" => closed \/ (Behind /\ stepCalls = 0)
    /\ phase = "dispatching" =>
          /\ ~closed
          /\ \/ OnTime
             \/ Behind /\ (stepCalls > 0 \/ \E c \in Calls : pc[c] = "emitted")

Budget == runsUsed = Cardinality(Started) /\ runsUsed <= MaxRuns

IInv == TypeOK /\ RunsShape /\ AnswersShape /\ SavingShape /\ Pace /\ Budget

-----------------------------------------------------------------------------
(* Helpers                                                                 *)

\* A sequence built place by place over a list is a sequence of its values.
LEMMA MapsList ==
    ASSUME NEW l \in Lists \cup {<<>>}, NEW S, NEW f,
           DOMAIN f = DOMAIN l, \A i \in DOMAIN l : f[i] \in S,
           f = [i \in DOMAIN f |-> f[i]]
    PROVE  f \in Seq(S)
<1>1. l \in Seq(Requests)
  BY RequestsAssumption, EmptySeq
<1>2. DOMAIN l = 1..Len(l) /\ Len(l) \in Nat
  BY <1>1
<1>3. f \in [1..Len(l) -> S]
  BY <1>2
<1>4. QED
  BY <1>2, <1>3, SeqDef

\* The requests of a list are requests, and there are finitely many.
LEMMA KeysFinite ==
    ASSUME TypeOK, NEW c \in Calls
    PROVE  /\ Keys(list[c]) \subseteq Requests
           /\ New(c) \subseteq Requests /\ New(c) \cap Started = {}
           /\ IsFiniteSet(New(c)) /\ Cardinality(New(c)) \in Nat
           /\ IsFiniteSet(Started) /\ Cardinality(Started) \in Nat
<1>1. list[c] \in Lists \cup {<<>>}
  BY DEF TypeOK
<1>2. list[c] \in Seq(Requests)
  BY <1>1, RequestsAssumption, EmptySeq
<1>3. Keys(list[c]) \subseteq Requests
  BY <1>2 DEF Keys
<1>4. /\ New(c) \subseteq Requests /\ New(c) \cap Started = {}
      /\ Started \subseteq Requests
  BY <1>3 DEF New, Started
<1>5. IsFiniteSet(New(c)) /\ IsFiniteSet(Started)
  BY <1>4, FS_Subset, RequestsAssumption
<1>6. QED
  BY <1>3, <1>4, <1>5, FS_CardinalityType

\* A new run is one more of those started; nothing new is a count of zero.
LEMMA StartCounts ==
    ASSUME IInv, NEW c \in Calls, Start(c)
    PROVE  /\ Started' = Started \cup New(c)
           /\ Cardinality(Started') = Cardinality(Started) + Cardinality(New(c))
<1>1. New(c) \subseteq Requests /\ New(c) \cap Started = {}
  BY KeysFinite DEF IInv
<1>2. Started' = Started \cup New(c)
  BY <1>1, RequestsAssumption DEF Start, Started, IInv, TypeOK
<1>3. Cardinality(New(c) \cap Started) = 0
  BY <1>1, FS_EmptySet
<1>4. Cardinality(Started \cup New(c))
        = Cardinality(Started) + Cardinality(New(c)) - Cardinality(Started \cap New(c))
  BY KeysFinite, FS_Union DEF IInv
<1>5. Cardinality(Started \cap New(c)) = 0
  <2>1. Started \cap New(c) = New(c) \cap Started
    OBVIOUS
  <2>2. QED
    BY <1>3, <2>1, Zenon
<1>6. Cardinality(Started') = Cardinality(Started \cup New(c))
  BY <1>2, Zenon
<1>7. Cardinality(Started) \in Nat /\ Cardinality(New(c)) \in Nat
  BY KeysFinite DEF IInv
<1>8. Cardinality(Started') = Cardinality(Started) + Cardinality(New(c))
  BY <1>4, <1>5, <1>6, <1>7
<1>9. QED
  BY <1>2, <1>8

-----------------------------------------------------------------------------
(* Types                                                                   *)

\* The model emits calls for unused ids only, each with one of the lists.
LEMMA EmitTypes ==
    ASSUME TypeOK, ModelDispatches
    PROVE  /\ list' \in [Calls -> Lists \cup {<<>>}]
           /\ pc' \in [Calls -> InFlight \cup {"unused", "emitted", "over", "cancelled"}]
           /\ \A c \in Calls :
                 \/ pc[c] = "unused" /\ pc'[c] = "emitted" /\ list'[c] \in Lists
                 \/ pc'[c] = pc[c] /\ list'[c] = list[c]
           /\ \E c \in Calls : pc'[c] = "emitted"
<1>1. PICK C \in (SUBSET {c \in Calls : pc[c] = "unused"}) \ {{}} :
        /\ \E l \in [C -> Lists] :
              list' = [c \in Calls |-> IF c \in C THEN l[c] ELSE list[c]]
        /\ pc' = [c \in Calls |-> IF c \in C THEN "emitted" ELSE pc[c]]
  BY DEF ModelDispatches
<1>2. PICK l \in [C -> Lists] :
        list' = [c \in Calls |-> IF c \in C THEN l[c] ELSE list[c]]
  BY <1>1
<1>3. PICK d \in C : TRUE
  BY <1>1
<1>4. pc' \in [Calls -> InFlight \cup {"unused", "emitted", "over", "cancelled"}]
  <2>1. \A c \in Calls : pc[c] \in InFlight \cup {"unused", "emitted", "over", "cancelled"}
    BY DEF TypeOK
  <2>2. QED
    BY <1>1, <2>1
<1>5. list' \in [Calls -> Lists \cup {<<>>}]
  BY <1>1, <1>2 DEF TypeOK
<1>6. \A c \in Calls :
        \/ pc[c] = "unused" /\ pc'[c] = "emitted" /\ list'[c] \in Lists
        \/ pc'[c] = pc[c] /\ list'[c] = list[c]
  BY <1>1, <1>2
<1>7. \E c \in Calls : pc'[c] = "emitted"
  BY <1>1, <1>3
<1>8. QED
  BY <1>4, <1>5, <1>6, <1>7

\* The items of an answer or of a refusal are items.
LEMMA ItemTypes ==
    ASSUME IInv, NEW c \in Calls, Reject(c) \/ Gather(c)
    PROVE  items' \in [Calls -> Seq(Item)]
<1>1. list[c] \in Lists \cup {<<>>}
  BY DEF IInv, TypeOK
<1>2. PICK f : /\ items' = [items EXCEPT ![c] = f]
               /\ DOMAIN f = DOMAIN list[c]
               /\ \A i \in DOMAIN list[c] : f[i] \in Item
               /\ f = [i \in DOMAIN f |-> f[i]]
  <2>1. CASE Reject(c)
    <3> DEFINE f == [i \in DOMAIN list[c] |-> [status |-> "rejected", result |-> "none"]]
    <3>1. items' = [items EXCEPT ![c] = f]
      BY <2>1 DEF Reject
    <3>2. \A i \in DOMAIN list[c] : f[i] \in Item
      BY DEF Item
    <3>3. DOMAIN f = DOMAIN list[c] /\ f = [i \in DOMAIN f |-> f[i]]
      OBVIOUS
    <3> HIDE DEF f
    <3>4. QED
      BY <3>1, <3>2, <3>3
  <2>2. CASE Gather(c)
    <3> DEFINE f == [i \in DOMAIN list[c] |->
                       [status |-> IF OwnPlace(c, i) THEN outcome[list[c][i]]
                                   ELSE "duplicate",
                        result |-> outcome[list[c][i]]]]
    <3>1. items' = [items EXCEPT ![c] = f]
      BY <2>2 DEF Gather
    <3>2. \A i \in DOMAIN list[c] : outcome[list[c][i]] \in {"ok", "error"}
      BY <2>2 DEF Gather, Keys, Finished
    <3>3. \A i \in DOMAIN list[c] : f[i] \in Item
      BY <3>2 DEF Item
    <3>4. DOMAIN f = DOMAIN list[c] /\ f = [i \in DOMAIN f |-> f[i]]
      OBVIOUS
    <3> HIDE DEF f
    <3>5. QED
      BY <3>1, <3>3, <3>4
  <2>3. QED
    BY <2>1, <2>2
<1>3. f \in Seq(Item)
  BY <1>1, <1>2, MapsList
<1>4. QED
  BY <1>2, <1>3 DEF IInv, TypeOK

\* Every step keeps the types.
LEMMA TypesKept == IInv /\ [Next]_vars => TypeOK'
<1> SUFFICES ASSUME IInv, [Next]_vars PROVE TypeOK'
  OBVIOUS
<1> USE DEF IInv
<1>1. CASE ModelDispatches
  BY <1>1, EmitTypes DEF ModelDispatches, TypeOK, runs, budget, steps, memory
<1>2. CASE BeginModelStep
  BY <1>2 DEF BeginModelStep, TypeOK, runs, memory
<1>3. CASE ModelAnswers \/ ToolsReturn
  BY <1>3 DEF ModelAnswers, ToolsReturn, TypeOK, runs, budget, steps, memory
<1>4. CASE Stop
  BY <1>4 DEF Stop, TypeOK, budget, steps
<1>5. ASSUME NEW c \in Calls, CallStep(c) PROVE TypeOK'
  <2>1. CASE Reject(c)
    <3>1. items' \in [Calls -> Seq(Item)]
      BY <2>1, ItemTypes
    <3>2. QED
      BY <2>1, <3>1 DEF Reject, TypeOK, runs, steps, memory
  <2>2. CASE Start(c)
    <3>1. Cardinality(New(c)) \in Nat
      BY KeysFinite
    <3>2. runsUsed' \in Nat /\ roundsUsed' \in Nat /\ stepNewRuns' \in Nat /\ stepCalls' \in Nat
      <4>1. runsUsed \in Nat /\ roundsUsed \in Nat /\ stepNewRuns \in Nat /\ stepCalls \in Nat
        BY DEF TypeOK
      <4>2. /\ runsUsed' = runsUsed + Cardinality(New(c))
            /\ stepNewRuns' = stepNewRuns + Cardinality(New(c))
            /\ stepCalls' = stepCalls + 1
            /\ roundsUsed' = roundsUsed + 1 \/ roundsUsed' = roundsUsed
        BY <2>2 DEF Start
      <4> HIDE DEF IInv
      <4>3. QED
        BY <3>1, <4>1, <4>2
    <3>3. owner' \in [Requests -> Calls \cup {None}]
      BY <2>2 DEF Start, TypeOK
    <3>4. outcome' \in [Requests -> {"none", "pending", "ok", "error", "cancelled"}]
      BY <2>2 DEF Start, TypeOK
    <3>5. pc' \in [Calls -> InFlight \cup {"unused", "emitted", "over", "cancelled"}]
      BY <2>2 DEF Start, TypeOK, InFlight
    <3>6. QED
      BY <2>2, <3>2, <3>3, <3>4, <3>5 DEF Start, TypeOK, steps, memory
  <2>3. CASE Repeat(c)
    BY <2>3 DEF Repeat, TypeOK, InFlight, runs, steps, memory
  <2>4. CASE Gather(c)
    <3>1. items' \in [Calls -> Seq(Item)]
      BY <2>4, ItemTypes
    <3>2. QED
      BY <2>4, <3>1 DEF Gather, TypeOK, InFlight, runs, budget, steps, memory
  <2>5. CASE TakeLock(c) \/ SkipSave(c)
    BY <2>5 DEF TakeLock, SkipSave, TypeOK, InFlight, runs, budget, steps
  <2>6. CASE Load(c)
    <3>1. prior' \in [Calls -> SUBSET Requests]
      BY <2>6 DEF Load, TypeOK
    <3>2. faults' \in 0..MaxFaults
      BY <2>6, LimitsAssumption DEF Load, TypeOK
    <3>3. pc' \in [Calls -> InFlight \cup {"unused", "emitted", "over", "cancelled"}]
      BY <2>6 DEF Load, TypeOK, InFlight
    <3>4. QED
      BY <2>6, <3>1, <3>2, <3>3 DEF Load, TypeOK, runs, budget, steps
  <2>7. CASE Save(c)
    BY <2>7, LimitsAssumption DEF Save, TypeOK, InFlight, runs, budget, steps, Captured
  <2>8. QED
    BY <1>5, <2>1, <2>2, <2>3, <2>4, <2>5, <2>6, <2>7 DEF CallStep
<1>6. ASSUME NEW r \in Requests, RunStep(r) PROVE TypeOK'
  <2>1. CASE TakeSlot(r)
    BY <2>1 DEF TakeSlot, TypeOK, Needs, budget, steps, memory
  <2>2. CASE Finish(r)
    BY <2>2 DEF Finish, TypeOK, budget, steps, memory
  <2>3. QED
    BY <1>6, <2>1, <2>2 DEF RunStep
<1>7. CASE UNCHANGED vars
  BY <1>7 DEF vars, TypeOK, runs, budget, steps, memory
<1>8. QED
  BY <1>1, <1>2, <1>3, <1>4, <1>5, <1>6, <1>7 DEF Next, TurnStep

-----------------------------------------------------------------------------
(* The parts of the invariant                                              *)

\* Every step keeps the runs in shape.
LEMMA RunsKept == IInv /\ [Next]_vars => RunsShape'
<1> SUFFICES ASSUME IInv, [Next]_vars, NEW r \in Requests PROVE RunsShape!(r)'
  BY DEF RunsShape
<1> USE DEF IInv, RunsShape
<1>1. CASE ModelDispatches
  <2>1. owner[r] # None => pc'[owner[r]] = pc[owner[r]] /\ list'[owner[r]] = list[owner[r]]
    BY <1>1, EmitTypes DEF TypeOK
  <2>2. UNCHANGED runs
    BY <1>1 DEF ModelDispatches
  <2>3. QED
    BY <2>1, <2>2 DEF runs, Keys, Needs
<1>2. CASE BeginModelStep \/ ModelAnswers \/ ToolsReturn
  BY <1>2 DEF BeginModelStep, ModelAnswers, ToolsReturn, runs, Keys, Needs
<1>3. CASE Stop
  <2>1. owner' = owner /\ list' = list /\ slots'[r] = {}
    BY <1>3 DEF Stop
  <2>2. outcome'[r] = "none" <=> outcome[r] = "none"
    BY <1>3 DEF Stop, TypeOK
  <2>3. owner[r] # None => pc'[owner[r]] \notin {"unused", "emitted"}
    BY <1>3 DEF Stop, TypeOK
  <2>4. QED
    BY <2>1, <2>2, <2>3 DEF Keys, Needs
<1>4. ASSUME NEW c \in Calls, CallStep(c) PROVE RunsShape!(r)'
  <2>1. CASE Start(c)
    <3>1. /\ list' = list /\ slots' = slots
          /\ owner'[r] = IF r \in New(c) THEN c ELSE owner[r]
          /\ outcome'[r] = IF r \in New(c) THEN "pending" ELSE outcome[r]
      BY <2>1 DEF Start
    <3>2. pc'[c] = "gathering" /\ \A d \in Calls : d # c => pc'[d] = pc[d]
      BY <2>1 DEF Start, TypeOK
    <3>3. r \in New(c) => r \in Keys(list[c]) /\ owner[r] = None
      BY DEF New, Started
    <3>4. CASE r \in New(c)
      BY <3>1, <3>2, <3>3, <3>4, RequestsAssumption DEF Keys, Needs
    <3>5. CASE r \notin New(c)
      <4>1. owner[r] # None => pc'[owner[r]] \notin {"unused", "emitted"}
        BY <3>2 DEF TypeOK
      <4>2. QED
        BY <3>1, <3>5, <4>1 DEF Keys, Needs
    <3>6. QED
      BY <3>4, <3>5
  <2>2. CASE ~Start(c)
    <3>1. list' = list /\ UNCHANGED runs
      BY <1>4, <2>2 DEF CallStep, Reject, Repeat, Gather, TakeLock, SkipSave, Load, Save
    <3>2. \A d \in Calls : pc[d] \notin {"unused", "emitted"} => pc'[d] \notin {"unused", "emitted"}
      BY <1>4, <2>2 DEF CallStep, Reject, Repeat, Gather, TakeLock, SkipSave, Load, Save, TypeOK
    <3>3. QED
      BY <3>1, <3>2 DEF runs, Keys, Needs, TypeOK
  <2>3. QED
    BY <2>1, <2>2
<1>5. ASSUME NEW q \in Requests, RunStep(q) PROVE RunsShape!(r)'
  <2>1. owner' = owner /\ list' = list /\ pc' = pc
    BY <1>5 DEF RunStep, TakeSlot, Finish
  <2>2. CASE TakeSlot(q)
    <3>1. outcome' = outcome /\ outcome[q] = "pending"
      BY <2>2 DEF TakeSlot
    <3>2. PICK s \in Needs(q) \ slots[q] :
            /\ s = "total" => Needs(q) \ {"total"} \subseteq slots[q]
            /\ slots' = [slots EXCEPT ![q] = @ \cup {s}]
      BY <2>2 DEF TakeSlot
    <3>3. CASE r = q
      <4>1. slots'[r] = slots[r] \cup {s}
        BY <3>2, <3>3 DEF TypeOK
      <4>2. slots'[r] \subseteq Needs(r)
        BY <3>2, <3>3, <4>1
      <4>3. "total" \in slots'[r] => slots'[r] = Needs(r)
        BY <3>2, <3>3, <4>1, <4>2 DEF Needs
      <4>4. QED
        BY <2>1, <3>1, <3>3, <4>2, <4>3 DEF Keys, Needs
    <3>4. CASE r # q
      <4>1. slots'[r] = slots[r]
        BY <3>2, <3>4 DEF TypeOK
      <4>2. QED
        BY <2>1, <3>1, <4>1 DEF Keys, Needs
    <3>5. QED
      BY <3>3, <3>4
  <2>3. CASE Finish(q)
    <3>1. q = r => outcome[r] = "pending" /\ outcome'[r] \in {"ok", "error"} /\ slots'[r] = {}
      BY <2>3 DEF Finish, Running, TypeOK
    <3>2. q # r => outcome'[r] = outcome[r] /\ slots'[r] = slots[r]
      BY <2>3 DEF Finish, TypeOK
    <3>3. QED
      BY <2>1, <3>1, <3>2 DEF Keys, Needs
  <2>4. QED
    BY <1>5, <2>2, <2>3 DEF RunStep
<1>6. CASE UNCHANGED vars
  BY <1>6 DEF vars, runs, Keys, Needs
<1>7. QED
  BY <1>1, <1>2, <1>3, <1>4, <1>5, <1>6 DEF Next, TurnStep

\* An owner and an answered list stay: what is said of a place stays true.
LEMMA PlacesKept ==
    ASSUME IInv, list' = list, NEW c \in Calls, NEW i \in DOMAIN list[c],
           \A r \in Requests : owner[r] # None => owner'[r] = owner[r],
           OwnPlace(c, i)
    PROVE  OwnPlace(c, i)'
<1>1. list[c][i] \in Requests
  BY KeysFinite DEF IInv, Keys
<1>2. owner[list[c][i]] = c /\ c # None
  BY RequestsAssumption DEF OwnPlace
<1>3. owner'[list[c][i]] = c
  BY <1>1, <1>2
<1>4. QED
  BY <1>3 DEF OwnPlace

\* A step that starts no run and answers no call keeps the answers in shape,
\* if no answered call goes back and no run becomes pending.
LEMMA AnswersStay ==
    ASSUME IInv, list' = list, items' = items, owner' = owner,
           \A r \in Requests : outcome'[r] = "pending" => outcome[r] = "pending",
           \A c \in Calls :
              /\ pc'[c] \in {"unused", "emitted", "gathering"} =>
                    pc[c] \in {"unused", "emitted", "gathering"}
              /\ pc'[c] # "unused" => pc[c] # "unused"
              /\ pc[c] = "over" => pc'[c] = "over"
              /\ pc'[c] \in {"locking", "loading", "saving", "over"} =>
                    pc[c] \in {"locking", "loading", "saving", "over"}
    PROVE  AnswersShape'
<1> SUFFICES ASSUME NEW c \in Calls PROVE AnswersShape!(c)'
  BY DEF AnswersShape
<1> USE DEF IInv, AnswersShape
<1>1. \A i \in DOMAIN list[c] : OwnPlace(c, i) <=> OwnPlace(c, i)'
  BY DEF OwnPlace
<1>2. QED
  BY <1>1

\* Every step keeps the answers in shape.
LEMMA AnswersKept == IInv /\ [Next]_vars => AnswersShape'
<1> SUFFICES ASSUME IInv, [Next]_vars PROVE AnswersShape'
  OBVIOUS
<1>1. CASE ModelDispatches
  <2> SUFFICES ASSUME NEW c \in Calls PROVE AnswersShape!(c)'
    BY DEF AnswersShape
  <2>1. UNCHANGED <<items, owner, outcome>>
    BY <1>1 DEF ModelDispatches, runs
  <2>2. CASE pc[c] = "unused" /\ pc'[c] = "emitted" /\ list'[c] \in Lists
    <3>1. items[c] = <<>> /\ \A r \in Requests : owner[r] # c
      BY <2>2, RequestsAssumption DEF IInv, AnswersShape, RunsShape
    <3>2. DOMAIN items'[c] = {}
      BY <3>1, <2>1
    <3>3. QED
      BY <2>1, <2>2, <3>1, <3>2
  <2>3. CASE pc'[c] = pc[c] /\ list'[c] = list[c]
    <3>1. \A i \in DOMAIN list[c] : OwnPlace(c, i) <=> OwnPlace(c, i)'
      BY <2>1, <2>3 DEF OwnPlace
    <3>2. QED
      BY <2>1, <2>3, <3>1 DEF IInv, AnswersShape
  <2>4. QED
    BY <1>1, <2>2, <2>3, EmitTypes DEF IInv
<1>2. CASE BeginModelStep \/ ModelAnswers \/ ToolsReturn
  BY <1>2, AnswersStay DEF BeginModelStep, ModelAnswers, ToolsReturn, runs
<1>3. CASE Stop
  <2>1. \A r \in Requests : outcome'[r] = "pending" => outcome[r] = "pending"
    BY <1>3 DEF Stop
  <2>2. \A c \in Calls : pc'[c] = IF pc[c] \in InFlight THEN "cancelled" ELSE pc[c]
    BY <1>3 DEF Stop
  <2>3. QED
    BY <1>3, <2>1, <2>2, AnswersStay DEF Stop, InFlight
<1>4. ASSUME NEW c \in Calls, CallStep(c) PROVE AnswersShape'
  <2>1. CASE Reject(c)
    <3> SUFFICES ASSUME NEW d \in Calls PROVE AnswersShape!(d)'
      BY DEF AnswersShape
    <3>1. UNCHANGED <<list, owner, outcome>> /\ pc[c] = "emitted"
      BY <2>1 DEF Reject, runs
    <3>2. \A r \in Requests : owner[r] # c
      BY <3>1, RequestsAssumption DEF IInv, RunsShape
    <3>3. CASE d = c
      <4>1. pc'[c] = "over" /\ list[c] \in Lists
        BY <2>1, <3>1 DEF Reject, IInv, TypeOK, AnswersShape
      <4>2. items'[c] = [i \in DOMAIN list[c] |-> [status |-> "rejected", result |-> "none"]]
        BY <2>1 DEF Reject, IInv, TypeOK
      <4>3. QED
        BY <3>1, <3>2, <3>3, <4>1, <4>2
    <3>4. CASE d # c
      <4>1. pc'[d] = pc[d] /\ items'[d] = items[d]
        BY <2>1, <3>4 DEF Reject, IInv, TypeOK
      <4>2. \A i \in DOMAIN list[d] : OwnPlace(d, i) <=> OwnPlace(d, i)'
        BY <3>1 DEF OwnPlace
      <4>3. QED
        BY <3>1, <4>1, <4>2 DEF IInv, AnswersShape
    <3>5. QED
      BY <3>3, <3>4
  <2>2. CASE Start(c)
    <3> SUFFICES ASSUME NEW d \in Calls PROVE AnswersShape!(d)'
      BY DEF AnswersShape
    <3>1. UNCHANGED <<list, items>> /\ pc[c] = "emitted"
      BY <2>2 DEF Start
    <3>2. \A r \in Requests :
            \/ owner'[r] = c /\ owner[r] = None
            \/ owner'[r] = owner[r] /\ outcome'[r] = outcome[r]
      BY <2>2 DEF Start, New, Started
    <3>3. \A r \in Requests : owner[r] # None => owner'[r] = owner[r]
      BY <3>2
    <3>4. CASE d = c
      <4>1. pc'[c] = "gathering" /\ items[c] = <<>> /\ list[c] \in Lists
        BY <2>2, <3>1 DEF Start, IInv, TypeOK, AnswersShape
      <4>2. DOMAIN items'[c] = {}
        BY <3>1, <4>1
      <4>3. QED
        BY <3>1, <3>4, <4>1, <4>2
    <3>5. CASE d # c
      <4>1. pc'[d] = pc[d]
        BY <2>2, <3>5 DEF Start, IInv, TypeOK
      <4>2. \A i \in DOMAIN list[d] : OwnPlace(d, i) => OwnPlace(d, i)'
        BY <3>1, <3>3, PlacesKept
      <4>3. \A r \in Requests : owner'[r] = d => owner[r] = d /\ outcome'[r] = outcome[r]
        BY <3>2, <3>5
      <4>4. QED
        BY <3>1, <4>1, <4>2, <4>3 DEF IInv, AnswersShape
    <3>6. QED
      BY <3>4, <3>5
  <2>3. CASE Gather(c)
    <3> SUFFICES ASSUME NEW d \in Calls PROVE AnswersShape!(d)'
      BY DEF AnswersShape
    <3>1. UNCHANGED <<list, owner, outcome>> /\ pc[c] = "gathering"
      BY <2>3 DEF Gather, runs
    <3>2. \A i \in DOMAIN list[d] : OwnPlace(d, i) <=> OwnPlace(d, i)'
      BY <3>1 DEF OwnPlace
    <3>3. CASE d = c
      <4>1. pc'[c] \in {"locking", "over"} /\ list[c] \in Lists
        BY <2>3, <3>1 DEF Gather, IInv, TypeOK, AnswersShape
      <4>2. \A r \in Keys(list[c]) : outcome[r] \in {"ok", "error"}
        BY <2>3 DEF Gather, Finished
      <4>3. \A r \in Requests : owner[r] = c => outcome[r] \in {"ok", "error"}
        BY <4>2, RequestsAssumption DEF IInv, RunsShape
      <4>4. /\ DOMAIN items'[c] = DOMAIN list[c]
            /\ \A i \in DOMAIN list[c] :
                  items'[c][i].status = IF OwnPlace(c, i) THEN outcome[list[c][i]]
                                        ELSE "duplicate"
        BY <2>3 DEF Gather, IInv, TypeOK
      <4>5. \A i \in DOMAIN list[c] : outcome[list[c][i]] \in {"ok", "error"}
        BY <4>2 DEF Keys
      <4>6. QED
        BY <3>1, <3>2, <3>3, <4>1, <4>3, <4>4, <4>5
    <3>4. CASE d # c
      <4>1. pc'[d] = pc[d] /\ items'[d] = items[d]
        BY <2>3, <3>4 DEF Gather, IInv, TypeOK
      <4>2. QED
        BY <3>1, <3>2, <4>1 DEF IInv, AnswersShape
    <3>5. QED
      BY <3>3, <3>4
  <2>4. CASE Repeat(c) \/ TakeLock(c) \/ SkipSave(c) \/ Load(c) \/ Save(c)
    <3>1. UNCHANGED <<list, items, owner, outcome>>
      BY <2>4 DEF Repeat, TakeLock, SkipSave, Load, Save, runs
    <3>2. \A d \in Calls : d # c => pc'[d] = pc[d]
      BY <2>4 DEF Repeat, TakeLock, SkipSave, Load, Save, IInv, TypeOK
    <3>3. \/ pc[c] = "emitted" /\ pc'[c] = "gathering"
          \/ /\ pc[c] \in {"locking", "loading", "saving"}
             /\ pc'[c] \in {"loading", "saving", "over"}
      BY <2>4 DEF Repeat, TakeLock, SkipSave, Load, Save, IInv, TypeOK
    <3>4. QED
      BY <3>1, <3>2, <3>3, AnswersStay
  <2>5. QED
    BY <1>4, <2>1, <2>2, <2>3, <2>4 DEF CallStep
<1>5. ASSUME NEW q \in Requests, RunStep(q) PROVE AnswersShape'
  <2>1. UNCHANGED <<list, items, owner, pc>>
    BY <1>5 DEF RunStep, TakeSlot, Finish
  <2>2. \A r \in Requests : outcome'[r] = "pending" => outcome[r] = "pending"
    BY <1>5 DEF RunStep, TakeSlot, Finish, Running, IInv, TypeOK
  <2>3. QED
    BY <2>1, <2>2, AnswersStay
<1>6. CASE UNCHANGED vars
  BY <1>6, AnswersStay DEF vars, runs
<1>7. QED
  BY <1>1, <1>2, <1>3, <1>4, <1>5, <1>6 DEF Next, TurnStep

\* A step that leaves the saving calls, the lock and the context alone keeps
\* the saves in shape, if no call that is over gets more to save.
LEMMA SavingStays ==
    ASSUME IInv, lock' = lock, context' = context, prior' = prior, faults' = faults,
           \A c \in Calls :
              /\ pc'[c] \in {"loading", "saving"} <=> pc[c] \in {"loading", "saving"}
              /\ pc'[c] = "saving" => pc[c] = "saving"
              /\ pc'[c] = "over" =>
                     \/ Captured(c)' = {}
                     \/ pc[c] = "over" /\ Captured(c)' \subseteq Captured(c)
    PROVE  SavingShape'
<1>1. \A c \in Calls : lock' = c <=> pc'[c] \in {"loading", "saving"}
  BY DEF IInv, SavingShape
<1>2. faults' = 0 => \A c \in Calls : pc'[c] = "saving" => prior'[c] = context'
  BY DEF IInv, SavingShape
<1>3. ContextsKept'
  BY DEF IInv, SavingShape, ContextsKept
<1>4. QED
  BY <1>1, <1>2, <1>3 DEF SavingShape

\* Every step keeps the saves in shape.
LEMMA SavingKept == IInv /\ [Next]_vars => SavingShape'
<1> SUFFICES ASSUME IInv, [Next]_vars PROVE SavingShape'
  OBVIOUS
<1>1. CASE ModelDispatches
  <2>1. UNCHANGED <<owner, handed, lock, context, prior, faults>>
    BY <1>1 DEF ModelDispatches, runs, memory
  <2>2. \A c \in Calls : \/ pc'[c] = pc[c]
                         \/ pc'[c] = "emitted" /\ pc[c] = "unused"
    <3>1. TypeOK
      BY DEF IInv
    <3>2. QED
      BY <1>1, <3>1, EmitTypes
  <2>3. \A c \in Calls : Captured(c)' = Captured(c)
    BY <2>1 DEF Captured
  <2>4. \A c \in Calls : /\ pc'[c] \in {"loading", "saving"} <=> pc[c] \in {"loading", "saving"}
                         /\ pc'[c] = "saving" => pc[c] = "saving"
                         /\ pc'[c] = "over" => pc[c] = "over"
    BY <2>2
  <2>5. QED
    BY <2>1, <2>3, <2>4, SavingStays
<1>2. CASE BeginModelStep \/ ModelAnswers \/ ToolsReturn
  BY <1>2, SavingStays DEF BeginModelStep, ModelAnswers, ToolsReturn, runs, memory, Captured
<1>3. CASE Stop
  <2>1. UNCHANGED <<owner, handed, context, prior, faults>> /\ lock' = None
    BY <1>3 DEF Stop
  <2>2. \A c \in Calls : pc'[c] = IF pc[c] \in InFlight THEN "cancelled" ELSE pc[c]
    BY <1>3 DEF Stop
  <2>3. \A c \in Calls : pc'[c] \notin {"loading", "saving"} /\ (pc'[c] = "over" => pc[c] = "over")
    BY <2>2 DEF InFlight
  <2>4. ContextsKept'
    BY <2>1, <2>3 DEF IInv, SavingShape, ContextsKept, Captured
  <2>5. QED
    BY <2>1, <2>3, <2>4, RequestsAssumption DEF SavingShape
<1>4. ASSUME NEW c \in Calls, CallStep(c) PROVE SavingShape'
  <2>1. \A d \in Calls : d # c => pc'[d] = pc[d]
    BY <1>4 DEF CallStep, Reject, Start, Repeat, Gather, TakeLock, SkipSave, Load, Save,
           IInv, TypeOK
  <2>2. CASE Reject(c)
    <3>1. /\ UNCHANGED <<owner, handed, lock, context, prior, faults>>
          /\ pc[c] = "emitted" /\ pc'[c] = "over"
      BY <2>2 DEF Reject, runs, memory, IInv, TypeOK
    <3>2. Captured(c)' = {}
      BY <3>1, RequestsAssumption DEF Captured, IInv, TypeOK, RunsShape
    <3>3. QED
      BY <2>1, <3>1, <3>2, SavingStays DEF Captured
  <2>3. CASE Start(c)
    <3>1. /\ UNCHANGED <<handed, lock, context, prior, faults>>
          /\ pc[c] = "emitted" /\ pc'[c] = "gathering"
      BY <2>3 DEF Start, memory, IInv, TypeOK
    <3>2. \A r \in Requests : owner'[r] = c \/ owner'[r] = owner[r]
      BY <2>3 DEF Start
    <3>3. \A d \in Calls : d # c => Captured(d)' \subseteq Captured(d)
      BY <3>1, <3>2 DEF Captured, IInv, TypeOK
    <3>4. QED
      BY <2>1, <3>1, <3>3, SavingStays
  <2>4. CASE Repeat(c)
    <3>1. /\ UNCHANGED <<owner, handed, lock, context, prior, faults>>
          /\ pc[c] = "emitted" /\ pc'[c] = "gathering"
      BY <2>4 DEF Repeat, runs, memory, IInv, TypeOK
    <3>2. QED
      BY <2>1, <3>1, SavingStays DEF Captured
  <2>5. CASE Gather(c)
    <3>1. /\ UNCHANGED <<owner, handed, lock, context, prior, faults>> /\ pc[c] = "gathering"
          /\ pc'[c] \in {"locking", "over"}
          /\ pc'[c] = "over" => \A r \in Requests : owner[r] # c
      BY <2>5 DEF Gather, runs, memory, IInv, TypeOK
    <3>2. pc'[c] = "over" => Captured(c)' = {}
      BY <3>1 DEF Captured, IInv, TypeOK
    <3>3. QED
      BY <2>1, <3>1, <3>2, SavingStays DEF Captured
  <2>6. CASE TakeLock(c)
    <3>1. /\ UNCHANGED <<owner, handed, context, prior, faults>>
          /\ lock = None /\ lock' = c /\ pc'[c] = "loading"
      BY <2>6 DEF TakeLock, runs, IInv, TypeOK
    <3>2. \A d \in Calls : pc[d] \notin {"loading", "saving"}
      BY <3>1, RequestsAssumption DEF IInv, SavingShape
    <3>3. ContextsKept'
      BY <2>1, <3>1 DEF IInv, SavingShape, ContextsKept, Captured
    <3>4. QED
      BY <2>1, <3>1, <3>2, <3>3 DEF SavingShape
  <2>7. CASE SkipSave(c)
    <3>1. /\ UNCHANGED <<owner, handed, context, prior, faults>>
          /\ lock' = None /\ pc[c] = "loading" /\ pc'[c] = "over" /\ Captured(c) = {}
      BY <2>7 DEF SkipSave, runs, IInv, TypeOK
    <3>2. \A d \in Calls : d # c => pc[d] \notin {"loading", "saving"}
      BY <3>1 DEF IInv, SavingShape
    <3>3. ContextsKept'
      BY <2>1, <3>1 DEF IInv, SavingShape, ContextsKept, Captured
    <3>4. QED
      BY <2>1, <3>1, <3>2, <3>3, RequestsAssumption DEF SavingShape
  <2>8. CASE Load(c)
    <3>1. /\ UNCHANGED <<owner, handed, context, lock>>
          /\ pc[c] = "loading" /\ pc'[c] = "saving"
      BY <2>8 DEF Load, runs, IInv, TypeOK
    <3>2. /\ \A d \in Calls : d # c => prior'[d] = prior[d]
          /\ faults' = 0 => faults = 0 /\ prior'[c] = context
      BY <2>8, LimitsAssumption DEF Load, IInv, TypeOK
    <3>3. ContextsKept'
      BY <2>1, <3>1, <3>2 DEF IInv, SavingShape, ContextsKept, Captured
    <3>4. QED
      BY <2>1, <3>1, <3>2, <3>3 DEF IInv, SavingShape
  <2>9. CASE Save(c)
    <3>1. /\ UNCHANGED <<owner, handed, prior>>
          /\ lock' = None /\ pc[c] = "saving" /\ pc'[c] = "over"
      BY <2>9 DEF Save, runs, IInv, TypeOK
    <3>2. \A d \in Calls : d # c => pc[d] \notin {"loading", "saving"}
      BY <3>1 DEF IInv, SavingShape
    <3>3. faults' = 0 => faults = 0 /\ context' = context \cup Captured(c)
      BY <2>9, <3>1 DEF Save, IInv, TypeOK, SavingShape
    <3>4. ContextsKept'
      BY <2>1, <3>1, <3>3 DEF IInv, SavingShape, ContextsKept, Captured
    <3>5. QED
      BY <2>1, <3>1, <3>2, <3>4, RequestsAssumption DEF SavingShape
  <2>10. QED
    BY <1>4, <2>2, <2>3, <2>4, <2>5, <2>6, <2>7, <2>8, <2>9 DEF CallStep
<1>5. ASSUME NEW q \in Requests, RunStep(q) PROVE SavingShape'
  <2>1. UNCHANGED <<owner, pc, lock, context, prior, faults>>
    BY <1>5 DEF RunStep, TakeSlot, Finish, memory
  <2>2. outcome[q] = "pending" /\ (handed' = handed \/ handed' = handed \cup {q})
    BY <1>5 DEF RunStep, TakeSlot, Finish, Running
  <2>3. \A c \in Calls : pc[c] = "over" => owner[q] # c
    BY <2>2 DEF IInv, AnswersShape
  <2>4. \A c \in Calls : pc[c] = "over" => Captured(c)' \subseteq Captured(c)
    BY <2>1, <2>2, <2>3 DEF Captured
  <2>5. QED
    BY <2>1, <2>4, SavingStays
<1>6. CASE UNCHANGED vars
  BY <1>6, SavingStays DEF vars, runs, memory, Captured
<1>7. QED
  BY <1>1, <1>2, <1>3, <1>4, <1>5, <1>6 DEF Next, TurnStep

\* Every step keeps the pace.
LEMMA PaceKept == IInv /\ [Next]_vars => Pace'
<1> SUFFICES ASSUME IInv, [Next]_vars PROVE Pace'
  OBVIOUS
<1> USE LimitsAssumption DEF Pace, OnTime, Behind
<1>0. /\ step \in Nat /\ roundsUsed \in Nat /\ roundStep \in Nat \cup {-1}
      /\ runsUsed \in Nat /\ stepCalls \in Nat /\ stepNewRuns \in Nat
      /\ MaxRounds \in Nat /\ MaxRounds >= 1 /\ Pace /\ closed \in BOOLEAN
  BY DEF IInv, TypeOK
<1>1. CASE ModelDispatches
  <2>1. UNCHANGED <<budget, steps>> /\ phase = "thinking" /\ phase' = "dispatching" /\ ~closed
    BY <1>1 DEF ModelDispatches
  <2>2. \E c \in Calls : pc'[c] = "emitted"
    BY <1>1, EmitTypes DEF IInv
  <2>3. QED
    BY <1>0, <2>1, <2>2 DEF budget, steps
<1>2. CASE BeginModelStep
  <2>1. /\ phase = "between" /\ phase' = "thinking" /\ step' = step + 1
        /\ stepCalls' = 0 /\ stepNewRuns' = 0
        /\ UNCHANGED <<roundsUsed, roundStep>>
        /\ ~closed' => roundsUsed < MaxRounds /\ ~(stepCalls > 0 /\ stepNewRuns = 0)
    <3>1. closed' = (closed \/ (stepCalls > 0 /\ stepNewRuns = 0)
                            \/ roundsUsed >= MaxRounds \/ runsUsed >= MaxRuns)
      BY <1>2, Zenon DEF BeginModelStep
    <3>2. ~closed' => ~(roundsUsed >= MaxRounds) /\ ~(stepCalls > 0 /\ stepNewRuns = 0)
      BY <3>1, Zenon
    <3>3. QED
      BY <1>0, <1>2, <3>2 DEF BeginModelStep
  <2>2. CASE step = 0 /\ roundsUsed = 0 /\ roundStep = -1 /\ stepCalls = 0
    BY <1>0, <2>1, <2>2
  <2>3. CASE OnTime
    BY <1>0, <2>1, <2>3
  <2>4. CASE Behind /\ stepCalls > 0
    BY <1>0, <2>1, <2>4
  <2>5. QED
    BY <1>0, <2>1, <2>2, <2>3, <2>4
<1>3. CASE ModelAnswers
  BY <1>0, <1>3 DEF ModelAnswers, budget, steps
<1>4. CASE ToolsReturn
  <2>1. /\ phase = "dispatching" /\ phase' = "between" /\ UNCHANGED <<budget, steps>>
        /\ \A c \in Calls : pc[c] # "emitted"
    BY <1>4 DEF ToolsReturn
  <2>2. QED
    BY <1>0, <2>1 DEF budget, steps
<1>5. CASE Stop
  BY <1>0, <1>5 DEF Stop, budget, steps
<1>6. ASSUME NEW c \in Calls, phase = "dispatching", CallStep(c) PROVE Pace'
  <2>1. phase' = "dispatching" /\ UNCHANGED steps
    BY <1>6 DEF CallStep, Reject, Start, Repeat, Gather, TakeLock, SkipSave, Load, Save
  <2>2. CASE Reject(c) \/ Repeat(c)
    <3>1. stepCalls' = stepCalls + 1 /\ UNCHANGED <<roundsUsed, roundStep, stepNewRuns>>
      BY <2>2 DEF Reject, Repeat
    <3>2. QED
      BY <1>0, <1>6, <2>1, <3>1 DEF steps
  <2>3. CASE Start(c)
    <3>1. /\ roundsUsed' = IF roundStep # step THEN roundsUsed + 1 ELSE roundsUsed
          /\ roundStep' = step
      BY <2>3 DEF Start, OpensRound
    <3>2. QED
      BY <1>0, <1>6, <2>1, <3>1 DEF steps
  <2>4. CASE Gather(c) \/ TakeLock(c) \/ SkipSave(c) \/ Load(c) \/ Save(c)
    <3>1. UNCHANGED budget
      BY <2>4 DEF Gather, TakeLock, SkipSave, Load, Save
    <3>2. pc[c] # "emitted" /\ \A d \in Calls : d # c => pc'[d] = pc[d]
      BY <2>4 DEF Gather, TakeLock, SkipSave, Load, Save, IInv, TypeOK
    <3>3. (\E d \in Calls : pc[d] = "emitted") => \E d \in Calls : pc'[d] = "emitted"
      BY <3>2
    <3>4. QED
      BY <1>0, <1>6, <2>1, <3>1, <3>3 DEF steps, budget
  <2>5. QED
    BY <1>6, <2>2, <2>3, <2>4 DEF CallStep
<1>7. ASSUME NEW q \in Requests, RunStep(q) PROVE Pace'
  BY <1>0, <1>7 DEF RunStep, TakeSlot, Finish, budget, steps
<1>8. CASE UNCHANGED vars
  BY <1>0, <1>8 DEF vars, budget, steps
<1>9. QED
  BY <1>1, <1>2, <1>3, <1>4, <1>5, <1>6, <1>7, <1>8 DEF Next, TurnStep

\* Every step keeps the count of runs.
LEMMA BudgetKept == IInv /\ [Next]_vars => Budget'
<1> SUFFICES ASSUME IInv, [Next]_vars PROVE Budget'
  OBVIOUS
<1>1. ASSUME NEW c \in Calls, Start(c) PROVE Budget'
  <2>1. runsUsed' = runsUsed + Cardinality(New(c)) /\ ~(runsUsed + Cardinality(New(c)) > MaxRuns)
    BY <1>1 DEF Start, Refused
  <2>2. Cardinality(Started') = Cardinality(Started) + Cardinality(New(c))
    BY <1>1, StartCounts
  <2>3. Cardinality(New(c)) \in Nat /\ runsUsed \in Nat /\ MaxRuns \in Nat
    BY KeysFinite, LimitsAssumption DEF IInv, TypeOK
  <2>4. runsUsed' = Cardinality(Started)' /\ runsUsed' <= MaxRuns
    BY <2>1, <2>2, <2>3 DEF IInv, Budget
  <2>5. QED
    BY <2>4 DEF Budget
<1>2. CASE runsUsed' = runsUsed /\ owner' = owner
  BY <1>2 DEF IInv, Budget, Started
<1>3. ASSUME NEW c \in Calls, CallStep(c), ~Start(c) PROVE runsUsed' = runsUsed /\ owner' = owner
  BY <1>3 DEF CallStep, Reject, Repeat, Gather, TakeLock, SkipSave, Load, Save, runs, budget
<1>4. ASSUME NEW q \in Requests, RunStep(q) PROVE runsUsed' = runsUsed /\ owner' = owner
  BY <1>4 DEF RunStep, TakeSlot, Finish, budget
<1>5. TurnStep \/ UNCHANGED vars => runsUsed' = runsUsed /\ owner' = owner
  BY DEF TurnStep, BeginModelStep, ModelAnswers, ModelDispatches, ToolsReturn, Stop,
         vars, runs, budget
<1>6. QED
  BY <1>1, <1>2, <1>3, <1>4, <1>5 DEF Next

-----------------------------------------------------------------------------
(* The invariant                                                           *)

\* A turn begins with nothing asked, started or saved.
LEMMA InitInvariant == Init => IInv
<1> SUFFICES ASSUME Init PROVE IInv
  OBVIOUS
<1>1. TypeOK
  <2>1. <<>> \in Seq(Item)
    BY EmptySeq
  <2>2. items \in [Calls -> Seq(Item)] /\ list \in [Calls -> Lists \cup {<<>>}]
    BY <2>1 DEF Init
  <2>3. /\ pc \in [Calls -> InFlight \cup {"unused", "emitted", "over", "cancelled"}]
        /\ prior \in [Calls -> SUBSET Requests]
        /\ owner \in [Requests -> Calls \cup {None}]
        /\ outcome \in [Requests -> {"none", "pending", "ok", "error", "cancelled"}]
        /\ slots \in [Requests -> SUBSET {"satellite", "total"}]
    BY DEF Init
  <2>4. /\ {runsUsed, roundsUsed, step, stepCalls, stepNewRuns} \subseteq Nat
        /\ roundStep \in Nat \cup {-1}
        /\ faults \in 0..MaxFaults
    BY LimitsAssumption DEF Init
  <2>5. QED
    BY <2>2, <2>3, <2>4 DEF Init, TypeOK
<1>2. RunsShape
  BY DEF Init, RunsShape
<1>3. AnswersShape
  <2>1. \A c \in Calls : DOMAIN items[c] = {}
    BY DEF Init
  <2>2. QED
    BY <2>1 DEF Init, AnswersShape
<1>4. SavingShape
  BY RequestsAssumption DEF Init, SavingShape, ContextsKept
<1>5. Pace
  BY LimitsAssumption DEF Init, Pace
<1>6. Budget
  <2>1. Started = {}
    BY DEF Init, Started
  <2>2. Cardinality({}) = 0
    BY FS_EmptySet
  <2>3. Cardinality(Started) = 0
    BY <2>1, <2>2, Zenon
  <2>4. QED
    BY <2>3, LimitsAssumption DEF Init, Budget
<1>7. QED
  BY <1>1, <1>2, <1>3, <1>4, <1>5, <1>6 DEF IInv

\* The strengthened invariant holds of every turn of the executor.
THEOREM Invariance == Spec => []IInv
<1>1. IInv /\ [Next]_vars => IInv'
  BY TypesKept, RunsKept, AnswersKept, SavingKept, PaceKept, BudgetKept DEF IInv
<1>2. QED
  BY <1>1, InitInvariant, PTL DEF Spec

\* execute_dispatch and its callers keep the types of the turn's state.
THEOREM TypeCorrect == Spec => []TypeOK
<1>1. IInv => TypeOK
  BY DEF IInv
<1>2. QED
  BY <1>1, Invariance, PTL

\* The counters of _TurnState are exactly the runs and rounds it started, and
\* within its limits, for every set of sibling calls.
THEOREM BudgetIsExact == Spec => []BudgetExact
<1>1. IInv => BudgetExact
  BY DEF IInv, Budget, Pace, BudgetExact
<1>2. QED
  BY <1>1, Invariance, PTL

\* An outcome is reported as its caller's own in one place only.
THEOREM OutcomeReportedOnce == Spec => []ReportedOnce
<1>1. IInv => ReportedOnce
  <2> SUFFICES ASSUME IInv, NEW c \in Calls, NEW d \in Calls,
                      NEW i \in DOMAIN items[c], NEW j \in DOMAIN items[d],
                      items[c][i].status \in {"ok", "error"},
                      items[d][j].status \in {"ok", "error"},
                      list[c][i] = list[d][j]
               PROVE  c = d /\ i = j
    BY DEF ReportedOnce
  <2>1. i \in DOMAIN list[c] /\ j \in DOMAIN list[d] /\ OwnPlace(c, i) /\ OwnPlace(d, j)
    BY DEF IInv, AnswersShape
  <2>2. c = d
    BY <2>1 DEF OwnPlace
  <2>3. list[c] \in Seq(Requests)
    <3>1. list[c] \in Lists \cup {<<>>}
      BY DEF IInv, TypeOK
    <3>2. QED
      BY <3>1, RequestsAssumption, EmptySeq
  <2>4. i \in Nat /\ j \in Nat
    BY <2>1, <2>2, <2>3
  <2>5. i <= j /\ j <= i
    BY <2>1, <2>2 DEF OwnPlace
  <2>6. QED
    BY <2>2, <2>4, <2>5
<1>2. QED
  BY <1>1, Invariance, PTL

\* A list that is refused starts nothing, then or later.
THEOREM RefusalIsWhole == Spec => []RefusedWhole
<1>1. IInv => RefusedWhole
  BY DEF IInv, AnswersShape, RefusedWhole
<1>2. QED
  BY <1>1, Invariance, PTL

\* A shared slot is held by a run that has all it needs.
THEOREM SlotsAreWorked == Spec => []NoSlotIdles
<1>1. IInv => NoSlotIdles
  BY DEF IInv, RunsShape, NoSlotIdles, Running
<1>2. QED
  BY <1>1, Invariance, PTL

\* begin_model_step closes dispatch after a bounded number of steps.
THEOREM ModelIsMadeToAnswer == Spec => []ModelMustAnswer
<1>1. IInv => ModelMustAnswer
  BY DEF IInv, Pace, ModelMustAnswer
<1>2. QED
  BY <1>1, Invariance, PTL

\* No sibling call's save loses what another has saved.
THEOREM NoContextIsLost == Spec => []ContextsKept
<1>1. IInv => ContextsKept
  BY DEF IInv, SavingShape
<1>2. QED
  BY <1>1, Invariance, PTL

\* All safety of the executor at once, for all calls, requests, lists and
\* limits.
THEOREM BooksAlwaysBalance == Spec => []BooksBalance
<1>1. /\ TypeOK /\ BudgetExact /\ ReportedOnce /\ RefusedWhole
      /\ NoSlotIdles /\ ModelMustAnswer /\ ContextsKept
      => BooksBalance
  BY DEF BooksBalance
<1> QED
  BY <1>1, TypeCorrect, BudgetIsExact, OutcomeReportedOnce, RefusalIsWhole,
     SlotsAreWorked, ModelIsMadeToAnswer, NoContextIsLost, PTL

-----------------------------------------------------------------------------
(* The refinement                                                          *)

\* A step that begins no call changes nothing that was asked.
LEMMA AskedStays ==
    ASSUME \A c \in Calls :
              /\ pc'[c] \in {"unused", "emitted"} <=> pc[c] \in {"unused", "emitted"}
              /\ pc[c] \notin {"unused", "emitted"} => list'[c] = list[c]
    PROVE  Asked' = Asked
BY DEF Asked

\* A call that begins is asked its list.
LEMMA AskedGrows ==
    ASSUME NEW c \in Calls, pc[c] = "emitted", list' = list,
           pc'[c] \notin {"unused", "emitted"},
           \A d \in Calls : d # c => pc'[d] = pc[d]
    PROVE  Asked[c] = <<>> /\ Asked' = [Asked EXCEPT ![c] = list[c]]
BY DEF Asked

\* An instance counts as the module that makes it does.
LEMMA SameCardinality ==
    ASSUME NEW S PROVE Promise!Cardinality(S) = Cardinality(S)
BY DEF Promise!Cardinality, Cardinality

\* The promise and the executor count and compare the same things.
LEMMA SameSets ==
    ASSUME NEW c \in Calls
    PROVE  /\ Promise!Started = Started
           /\ Promise!New(list[c]) = New(c)
           /\ Promise!Cardinality(Promise!Started) = Cardinality(Started)
           /\ Promise!Cardinality(Promise!New(list[c])) = Cardinality(New(c))
<1>1. Promise!Started = Started
  BY Zenon DEF Promise!Started, Started
<1>2. Promise!New(list[c]) = New(c)
  BY <1>1, Zenon DEF Promise!New, Promise!Keys, New, Keys
<1>3. QED
  BY <1>1, <1>2, SameCardinality, Zenon

\* The first place of a request is the one no earlier place shares.
LEMMA SamePlaces ==
    ASSUME TypeOK, NEW c \in Calls, NEW i \in DOMAIN list[c]
    PROVE  OwnPlace(c, i) <=> Promise!Owns(c, list[c], i)
<1>1. list[c] \in Lists \cup {<<>>}
  BY DEF TypeOK
<1>2. list[c] \in Seq(Requests)
  BY <1>1, RequestsAssumption, EmptySeq
<1>3. DOMAIN list[c] = 1..Len(list[c]) /\ Len(list[c]) \in Nat
  BY <1>2
<1>4. i \in Nat /\ i >= 1
  BY <1>3
<1>5. ASSUME OwnPlace(c, i) PROVE Promise!Owns(c, list[c], i)
  <2>1. \A j \in 1..(i - 1) : j \in DOMAIN list[c] /\ ~(i <= j)
    BY <1>3, <1>4
  <2>2. QED
    BY <1>5, <2>1 DEF OwnPlace, Promise!Owns
<1>6. ASSUME Promise!Owns(c, list[c], i) PROVE OwnPlace(c, i)
  <2>1. \A j \in DOMAIN list[c] : j \in 1..(i - 1) \/ i <= j
    BY <1>3, <1>4
  <2>2. QED
    BY <1>6, <2>1 DEF OwnPlace, Promise!Owns
<1>7. QED
  BY <1>5, <1>6

\* Every step of the executor is a step of the promise, or changes nothing
\* that it speaks of.
LEMMA StepKeeps == IInv /\ [Next]_vars => [Promise!Next]_(Promise!vars)
<1> SUFFICES ASSUME IInv, [Next]_vars PROVE Promise!Next \/ UNCHANGED Promise!vars
  OBVIOUS
<1>0. TypeOK /\ AnswersShape
  BY DEF IInv
<1>1. CASE ModelDispatches
  <2>1. UNCHANGED <<items, owner, outcome>>
    BY <1>1 DEF ModelDispatches, runs
  <2>2. Asked' = Asked
    BY <1>0, <1>1, EmitTypes, AskedStays
  <2>3. QED
    BY <2>1, <2>2 DEF Promise!vars
<1>2. CASE BeginModelStep \/ ModelAnswers \/ ToolsReturn
  BY <1>2, AskedStays DEF BeginModelStep, ModelAnswers, ToolsReturn, runs, Promise!vars
<1>3. CASE Stop
  <2>1. \A c \in Calls : pc'[c] = IF pc[c] \in InFlight THEN "cancelled" ELSE pc[c]
    BY <1>3 DEF Stop
  <2>2. Asked' = Asked
    BY <1>3, <2>1, AskedStays DEF Stop, InFlight
  <2>3. Promise!Withdraw
    BY <1>3, <2>2 DEF Stop, Promise!Withdraw
  <2>4. QED
    BY <2>3 DEF Promise!Next
<1>4. ASSUME NEW c \in Calls, phase = "dispatching", CallStep(c)
      PROVE  Promise!Next \/ UNCHANGED Promise!vars
  <2>1. CASE Reject(c)
    <3>1. /\ pc[c] = "emitted" /\ list' = list /\ pc' = [pc EXCEPT ![c] = "over"]
          /\ items' = [items EXCEPT ![c] = [i \in DOMAIN list[c] |->
                        [status |-> "rejected", result |-> "none"]]]
          /\ New(c) # {} /\ Refused(c) /\ UNCHANGED <<owner, outcome>>
      BY <2>1 DEF Reject, runs
    <3>2. list[c] \in Lists
      BY <1>0, <3>1 DEF AnswersShape
    <3>3. Asked[c] = <<>> /\ Asked' = [Asked EXCEPT ![c] = list[c]]
      <4>1. pc'[c] \notin {"unused", "emitted"} /\ \A d \in Calls : d # c => pc'[d] = pc[d]
        BY <1>0, <3>1 DEF TypeOK
      <4>2. QED
        BY <3>1, <4>1, AskedGrows
    <3>4. Cardinality(Started) + Cardinality(New(c)) > MaxRuns
      <4>1. ~(OpensRound /\ roundsUsed >= MaxRounds)
        BY <1>4, LimitsAssumption DEF IInv, TypeOK, Pace, OnTime, Behind, OpensRound
      <4>2. runsUsed = Cardinality(Started)
        BY DEF IInv, Budget
      <4>3. QED
        BY <3>1, <4>1, <4>2 DEF Refused
    <3>5. Promise!Refuse(c, list[c])
      <4>1. items' = [items EXCEPT ![c] = Promise!Rejections(list[c])]
        BY <3>1, Zenon DEF Promise!Rejections
      <4>2. /\ Promise!New(list[c]) # {}
            /\ Promise!Cardinality(Promise!Started)
                 + Promise!Cardinality(Promise!New(list[c])) > MaxRuns
        BY <3>1, <3>4, SameSets
      <4>3. QED
        BY <3>1, <3>3, <4>1, <4>2 DEF Promise!Refuse
    <3>6. QED
      BY <3>2, <3>5 DEF Promise!Next
  <2>2. CASE Start(c) \/ Repeat(c)
    <3>1. /\ pc[c] = "emitted" /\ list' = list /\ pc' = [pc EXCEPT ![c] = "gathering"]
          /\ items' = items
      BY <2>2 DEF Start, Repeat
    <3>2. list[c] \in Lists
      BY <1>0, <3>1 DEF AnswersShape
    <3>3. Asked[c] = <<>> /\ Asked' = [Asked EXCEPT ![c] = list[c]]
      <4>1. pc'[c] \notin {"unused", "emitted"} /\ \A d \in Calls : d # c => pc'[d] = pc[d]
        BY <1>0, <3>1 DEF TypeOK
      <4>2. QED
        BY <3>1, <4>1, AskedGrows
    <3>4. /\ owner' = [r \in Requests |-> IF r \in New(c) THEN c ELSE owner[r]]
          /\ outcome' = [r \in Requests |-> IF r \in New(c) THEN "pending" ELSE outcome[r]]
      BY <1>0, <2>2 DEF Start, Repeat, runs, TypeOK
    <3>5. Cardinality(Started) + Cardinality(New(c)) <= MaxRuns
      <4>1. runsUsed = Cardinality(Started) /\ runsUsed <= MaxRuns
        BY DEF IInv, Budget
      <4>2. runsUsed \in Nat /\ Cardinality(New(c)) \in Nat /\ MaxRuns \in Nat
        BY <1>0, KeysFinite, LimitsAssumption DEF TypeOK
      <4>3. CASE Start(c)
        BY <4>1, <4>2, <4>3 DEF Start, Refused
      <4>4. CASE Repeat(c)
        <5>1. New(c) = {}
          BY <4>4 DEF Repeat
        <5>2. Cardinality(New(c)) = 0
          BY <5>1, FS_EmptySet, Zenon
        <5>3. QED
          BY <4>1, <4>2, <5>2
      <4>5. QED
        BY <2>2, <4>3, <4>4
    <3>6. Promise!Accept(c, list[c])
      <4>1. Promise!Cardinality(Promise!Started)
              + Promise!Cardinality(Promise!New(list[c])) <= MaxRuns
        BY <3>5, SameSets
      <4>2. Promise!New(list[c]) = New(c)
        BY SameSets
      <4>3. /\ owner' = [r \in Requests |-> IF r \in Promise!New(list[c]) THEN c ELSE owner[r]]
            /\ outcome' = [r \in Requests |-> IF r \in Promise!New(list[c]) THEN "pending"
                                              ELSE outcome[r]]
        BY <3>4, <4>2, Zenon
      <4>4. QED
        BY <3>1, <3>3, <4>1, <4>3 DEF Promise!Accept
    <3>7. QED
      BY <3>2, <3>6 DEF Promise!Next
  <2>3. CASE Gather(c)
    <3>1. /\ pc[c] = "gathering" /\ list' = list /\ UNCHANGED <<owner, outcome>>
          /\ \A r \in Keys(list[c]) : Finished(r)
      BY <2>3 DEF Gather, runs
    <3>2. \A d \in Calls : /\ pc'[d] \in {"unused", "emitted"} <=> pc[d] \in {"unused", "emitted"}
      BY <1>0, <2>3 DEF Gather, TypeOK
    <3>3. Asked' = Asked
      BY <3>1, <3>2, AskedStays
    <3>4. Asked[c] = list[c] /\ list[c] \in Lists /\ items[c] = <<>>
      BY <1>0, <3>1 DEF Asked, AnswersShape
    <3>5. list[c] # <<>>
      BY <3>4, RequestsAssumption
    <3>6. \A r \in Promise!Keys(list[c]) : Promise!Over(r)
      BY <3>1 DEF Keys, Promise!Keys, Finished, Promise!Over
    <3>7. [i \in DOMAIN list[c] |->
              [status |-> IF OwnPlace(c, i) THEN outcome[list[c][i]] ELSE "duplicate",
               result |-> outcome[list[c][i]]]] = Promise!Answers(c, list[c])
      BY <1>0, SamePlaces DEF Promise!Answers
    <3>8. items' = [items EXCEPT ![c] = Promise!Answers(c, list[c])]
      BY <2>3, <3>7, Zenon DEF Gather
    <3>9. Promise!Answer(c)
      BY <3>1, <3>3, <3>4, <3>5, <3>6, <3>8 DEF Promise!Answer
    <3>10. QED
      BY <3>9 DEF Promise!Next
  <2>4. CASE TakeLock(c) \/ SkipSave(c) \/ Load(c) \/ Save(c)
    <3>1. UNCHANGED <<list, items, owner, outcome>>
      BY <2>4 DEF TakeLock, SkipSave, Load, Save, runs
    <3>2. \A d \in Calls : pc'[d] \in {"unused", "emitted"} <=> pc[d] \in {"unused", "emitted"}
      BY <1>0, <2>4 DEF TakeLock, SkipSave, Load, Save, TypeOK
    <3>3. Asked' = Asked
      BY <3>1, <3>2, AskedStays
    <3>4. QED
      BY <3>1, <3>3 DEF Promise!vars
  <2>5. QED
    BY <1>4, <2>1, <2>2, <2>3, <2>4 DEF CallStep
<1>5. ASSUME NEW q \in Requests, RunStep(q) PROVE Promise!Next \/ UNCHANGED Promise!vars
  <2>1. UNCHANGED <<list, pc, items, owner>>
    BY <1>5 DEF RunStep, TakeSlot, Finish
  <2>2. Asked' = Asked
    BY <2>1, AskedStays
  <2>3. CASE TakeSlot(q)
    BY <2>1, <2>2, <2>3 DEF TakeSlot, Promise!vars
  <2>4. CASE Finish(q)
    <3>1. Promise!Finish(q)
      BY <2>1, <2>2, <2>4 DEF Finish, Running, Promise!Finish
    <3>2. QED
      BY <3>1 DEF Promise!Next
  <2>5. QED
    BY <1>5, <2>3, <2>4 DEF RunStep
<1>6. CASE UNCHANGED vars
  BY <1>6, AskedStays DEF vars, runs, Promise!vars
<1>7. QED
  BY <1>1, <1>2, <1>3, <1>4, <1>5, <1>6 DEF Next, TurnStep

\* execute_dispatch, with its rounds, slots, steps and saves, does what
\* DispatchPromise says of one turn.
THEOREM Refinement == Spec => KeepsPromise
<1>1. Init => Promise!Init
  BY DEF Init, Promise!Init, Asked
<1>2. QED
  BY <1>1, StepKeeps, Invariance, PTL DEF Spec, KeepsPromise, Promise!Spec
=============================================================================
