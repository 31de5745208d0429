--------------------------- MODULE VariableChoice ---------------------------
(***************************************************************************)
(* Which variable of a wide file is plotted (preprocessing/                *)
(* variable_resolver.py, the tail of AggregationService.to_dataarray's     *)
(* cascade), and which companions a retrieval must ask for beside it       *)
(* (retrieval_composites._pinned_companion_variables).                     *)
(*                                                                         *)
(* A file is a set of variables, each the signals the resolver reads:      *)
(*   kind    "science", or "plumbing" by flag attributes, leaf or pattern  *)
(*   asked   the request's text matches its name                           *)
(*   valid   its valid fraction: 0 is empty, 1 less than a tenth, then     *)
(*           growing tenths                                                *)
(*   mean, units, geo, cf, long   what its name and attributes carry       *)
(*   rank    the sensor and algorithm tables and then the name             *)
(***************************************************************************)
EXTENDS Integers, FiniteSets

Weight(v) ==
    (IF v.mean THEN 100 ELSE 0) + (IF v.units THEN 80 ELSE 0) + (IF v.geo THEN 40 ELSE 0)
    + (IF v.cf THEN 30 ELSE 0) + (IF v.long THEN 20 ELSE 0)
    - (IF v.kind = "plumbing" THEN 60 ELSE 0)

\* _valid_band
Band(v) == IF v.valid = 0 THEN 0 ELSE v.valid - 1
Pickable(v) == Band(v) > 0
Strong(v) == v.units \/ v.mean \/ v.cf

\* Plumbing and empty variables are out, unless asked for by name.
Candidates(file) == {v \in file : v.asked \/ (v.kind = "science" /\ v.valid > 0)}

\* The sort key: completeness, then score, then the tie-breaking tables.
Before(v, w) ==
    \/ Band(v) > Band(w)
    \/ Band(v) = Band(w) /\ Weight(v) > Weight(w)
    \/ Band(v) = Band(w) /\ Weight(v) = Weight(w) /\ v.rank < w.rank
First(variables) == CHOOSE v \in variables : \A w \in variables \ {v} : Before(v, w)

Nothing == 0
Refused == [chosen |-> Nothing, confidence |-> "low", ambiguity |-> "low", disclosed |-> FALSE]
Chose(v, confidence, ambiguity, disclosed) ==
    [chosen |-> v.rank, confidence |-> confidence, ambiguity |-> ambiguity,
     disclosed |-> disclosed]

\* Mutant of Rivals.
RivalsScoringAlike(top, candidates) == {v \in candidates : Strong(v) /\ Weight(v) = Weight(top)}
\* The strong science variables as complete as the top one, itself included.
Rivals(top, candidates) ==
    {v \in candidates : Pickable(v) /\ Strong(v) /\ v.kind = "science" /\ Band(v) = Band(top)}

resolve(file) ==
    LET hits == {v \in Candidates(file) : v.asked}
        pickable == {v \in Candidates(file) : Pickable(v)}
        top == First(pickable)
        contested == Cardinality(Rivals(top, Candidates(file))) >= 2
    IN  IF hits # {} THEN Chose(First(hits), "high", "low", FALSE)
        ELSE IF pickable = {} THEN Refused
        ELSE IF Strong(top) THEN Chose(top, "high", IF contested THEN "high" ELSE "low", contested)
        ELSE IF Cardinality(pickable) = 1 THEN Chose(top, "medium", "low", TRUE)
        ELSE Refused

Holds(file, name) == name \in {v.rank : v \in file}
Settled(name) == [chosen |-> name, confidence |-> "exact", ambiguity |-> "low", disclosed |-> FALSE]

\* The caller's variable, the choice the retrieval recorded, the only one, the
\* registry's primary, and then the resolver.
to_dataarray(file, named, recorded, primary) ==
    IF Holds(file, named) THEN Settled(named)
    ELSE IF Holds(file, recorded) THEN Settled(recorded)
    ELSE IF Cardinality(file) = 1 THEN Settled((CHOOSE v \in file : TRUE).rank)
    ELSE IF Holds(file, primary) THEN Settled(primary)
    ELSE resolve(file)

-----------------------------------------------------------------------------
(* Companions.  A requested name is [group, leaf] with group "none" for a   *)
(* bare one; a collection is [members, companions], names as it spells      *)
(* them, companions by leaf.                                                *)

Leaves(names) == {n.leaf : n \in names}

\* How a companion is spelled beside the science variable as it was asked for.
Spelling(asked, companion, cfg) ==
    LET grouped == {m \in cfg.members : m.leaf = companion /\ m.group # "none"}
    IN  IF asked.group = "none" THEN [group |-> "none", leaf |-> companion]
        ELSE IF grouped # {} THEN CHOOSE m \in grouped : TRUE
        ELSE [group |-> asked.group, leaf |-> companion]

_pinned_companion_variables(requested, registry) ==
    UNION {LET matched == {n \in requested : n.leaf \in Leaves(cfg.members) \ cfg.companions}
               asked == CHOOSE n \in matched : \A m \in matched : n.order <= m.order
           IN  IF matched = {} THEN {}
               ELSE {Spelling(asked, c, cfg) : c \in cfg.companions \ Leaves(requested)}
           : cfg \in registry}

-----------------------------------------------------------------------------
(* Properties of one input: the variables of a file are told apart by their  *)
(* names, and the names of a request by their order.                         *)

IsFile(file) ==
    /\ IsFiniteSet(file)
    /\ file \subseteq [rank : Nat \ {Nothing}, kind : {"science", "plumbing"}, asked : BOOLEAN, valid : Nat,
                       mean : BOOLEAN, units : BOOLEAN, geo : BOOLEAN, cf : BOOLEAN, long : BOOLEAN]
    /\ \A v, w \in file : v.rank = w.rank => v = w

IsRequest(requested) == \A n \in requested : n.order \in Nat

\* Dropping a variable that nobody asked for and that is plumbing, or holds no
\* value at all, never changes what is plotted or what is said about it.
NoiseDoesNotMatter(file) ==
    \A v \in file :
        ~v.asked /\ (v.kind = "plumbing" \/ v.valid = 0) => resolve(file \ {v}) = resolve(file)

\* A variable is plotted without a word, on no request, only when no other
\* science variable with as much data has as good a claim.
SilenceMeansUnrivalled(file) ==
    LET r == resolve(file) IN
    (\A v \in file : ~v.asked) /\ r.chosen # Nothing /\ ~r.disclosed =>
        \A v \in file :
            v.kind = "science" /\ Strong(v) /\ Pickable(v) /\ v.rank # r.chosen =>
                \E c \in file : c.rank = r.chosen /\ Band(c) > Band(v)

\* Whatever is plotted unasked, no other science variable covers more of the
\* grid by a tenth or more.
CoverageComesFirst(file) ==
    LET r == resolve(file) IN
    (\A v \in file : ~v.asked) /\ r.chosen # Nothing =>
        \A v, c \in file : c.rank = r.chosen /\ v.kind = "science" => Band(c) >= Band(v)

\* A retrieval that names a collection's variable in a group brings each of the
\* collection's companions exactly once, and never under a bare name.
CompanionsComeAlong(requested, cfg) ==
    LET added == _pinned_companion_variables(requested, {cfg})
        matched == {n \in requested : n.leaf \in Leaves(cfg.members) \ cfg.companions}
    IN  matched # {} =>
        \A c \in cfg.companions \ Leaves(requested) :
            /\ Cardinality({a \in added : a.leaf = c}) = 1
            /\ (\A n \in matched : n.group # "none") => [group |-> "none", leaf |-> c] \notin added

\* Once the caller or the retrieval has named a variable of the file, neither
\* another variable's presence nor the registry's primary changes what is plotted.
SettledChoicesStand(file, named, recorded, primary) ==
    LET chosen == to_dataarray(file, named, recorded, primary).chosen IN
    Holds(file, named) \/ Holds(file, recorded) =>
        \A other \in {primary} \cup {v.rank : v \in file} :
            /\ to_dataarray(file, named, recorded, other).chosen = chosen
            /\ \A v \in file :
                  v.rank # chosen =>
                    to_dataarray(file \ {v}, named, recorded, other).chosen = chosen
=============================================================================
