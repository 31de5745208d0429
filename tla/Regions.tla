------------------------------- MODULE Regions -------------------------------
(***************************************************************************)
(* How the words for a place become an extent to retrieve (the retrieval   *)
(* plane, workspace.py) and a boundary to mask by (the mask plane,         *)
(* plotting.py).  The two planes read the same tables at different times,  *)
(* and a cube that does not cover its mask is silently wrong.              *)
(*                                                                         *)
(* Geometry is an interval of one axis in tenths of the unit the extent is *)
(* written in.  An atlas w holds the tables: w.plain (normalisation),      *)
(* w.presets, w.states, w.postal, w.coalitions, w.aliases, w.countries,    *)
(* w.synonyms, w.suffixed, w.polygons (the boundary assets that loaded) and*)
(* w.gazetteer (what the geocoder finds).  A request n is a form with its parts.       *)
(***************************************************************************)
EXTENDS Integers, Sequences, FiniteSets, FiniteSetsExt

Ceiling == 120     \* widest envelope the frame budget admits
HalfTurn == 100    \* the antimeridian, on both sides of zero
Unit == 10         \* one unit of a written extent
Nearby == 1        \* half width of the box around a place with no outline

Keys(f) == DOMAIN f
Lookup(f, key) == IF key \in Keys(f) THEN {f[key]} ELSE {}
Target(f, key) == IF key \in Keys(f) THEN f[key] ELSE key
Width(g) == g[2] - g[1]
Hull(gs) == <<Min({g[1] : g \in gs}), Max({g[2] : g \in gs})>>

Refused == [is |-> "refused", bounds |-> <<0, 0>>, geocoded |-> FALSE]
Nowhere(geocoded) == [is |-> "nowhere", bounds |-> <<0, 0>>, geocoded |-> geocoded]
Region(g, geocoded) == [is |-> "region", bounds |-> g, geocoded |-> geocoded]
Words == [is |-> "words", bounds |-> <<0, 0>>]
Box(g) == [is |-> "box", bounds |-> g]

-----------------------------------------------------------------------------
(* The tables, as the resolver's constructor leaves them. *)

assert_no_alias_collisions(w) ==
    /\ w.coalitions \cap Keys(w.presets) = {}
    /\ \A alias \in Keys(w.aliases) :
        /\ alias \notin Keys(w.presets) \cup w.coalitions
        /\ w.aliases[alias] \in w.coalitions \cup Keys(w.presets)

assert_no_country_collisions(w) ==
    \A alias \in Keys(w.synonyms) :
        alias \notin Keys(w.presets) \cup Keys(w.aliases) \cup w.coalitions \cup Keys(w.postal) \cup w.states

\* What the asset builder and the shipped tables add: every state has a preset
\* with its outline's envelope, no country is called by a postal code, no state
\* or code ends in "(country)", and no alias stands for a preset whose outline
\* is not its box (which nothing checks at start: it would be retrieved by the
\* box and masked by the outline).
Shipped(w) ==
    /\ w.states \subseteq Keys(w.presets)
    /\ \A s \in w.states : \A g \in Lookup(w.polygons, s) : w.presets[s] = g
    /\ Keys(w.postal) \cap (Keys(w.countries) \cup Keys(w.presets)) = {}
    /\ Keys(w.suffixed) \cap (w.states \cup Keys(w.postal)) = {}
    /\ \A alias \in Keys(w.aliases) :
          w.aliases[alias] \in Keys(w.polygons) => w.aliases[alias] \in w.coalitions \cup w.states

Starts(w) == assert_no_alias_collisions(w) /\ assert_no_country_collisions(w) /\ Shipped(w)

-----------------------------------------------------------------------------
(* Composites: "NY + NJ". *)

_finalize_preset(w, key) == IF key \in Keys(w.polygons) THEN w.polygons[key] ELSE w.presets[key]

ambiguous_member_tokens(w) == w.states \cap Keys(w.countries)

\* "georgia (country)" is the country's own spelling.
_country_geometry(w, token) == Lookup(w.countries, Target(w.synonyms, Target(w.suffixed, token)))

\* A member token's outline, none when it names nothing or two things.
Members(w, token) ==
    IF token \in ambiguous_member_tokens(w) THEN {}
    ELSE IF Target(w.postal, token) \in w.states
    THEN {_finalize_preset(w, Target(w.postal, token))}
    ELSE _country_geometry(w, token)

dispatch_composite(w, n) ==
    LET outlines == {Members(w, w.plain[t]) : t \in Range(n.parts)}
        union == Hull(UNION outlines)
    IN IF {} \in outlines \/ \E g \in UNION outlines : Width(g) > Ceiling THEN Refused
       ELSE IF Width(union) > Ceiling THEN Refused
       ELSE Region(union, FALSE)

-----------------------------------------------------------------------------
(* Buffers: "within 50 km of Boston". *)

_named_region_vocabulary(w) ==
    Keys(w.presets) \cup w.coalitions \cup Keys(w.aliases) \cup Keys(w.postal) \cup Keys(w.countries)

parse_buffer(n) == n.unit = "known" /\ n.radius > 0

Disc(place, radius) == <<place.at - radius, place.at + radius>>
_check_pole(place, radius) == place.pole > radius
_crosses_antimeridian(g) == g[1] < -HalfTurn \/ g[2] > HalfTurn

dispatch_buffer(w, n) ==
    LET place == w.gazetteer[n.parts[1]]
        disc == Disc(place, n.radius)
    IN IF \/ ~parse_buffer(n)
          \/ w.plain[n.parts[1]] \in _named_region_vocabulary(w)
          \/ n.parts[1] \notin Keys(w.gazetteer)
       THEN Refused
       ELSE IF ~_check_pole(place, n.radius) \/ _crosses_antimeridian(disc) \/ Width(disc) > Ceiling
       THEN Refused
       ELSE Region(disc, TRUE)

-----------------------------------------------------------------------------
(* The mask plane. *)

\* Claimed words: a coalition has no fallback when its outline is missing.
dispatch(w, word) ==
    LET target == Target(w.aliases, word)
    IN IF target \in w.coalitions
       THEN {IF target \in Keys(w.polygons) THEN Region(w.polygons[target], FALSE) ELSE Nowhere(FALSE)}
       ELSE IF word \in Keys(w.aliases) THEN {Region(_finalize_preset(w, target), FALSE)}
       ELSE {}

_geocoded_region(place) ==
    IF place.outline # <<>> THEN place.outline ELSE <<place.at - Nearby, place.at + Nearby>>

resolve_location(w, n) ==
    IF n.form = "sum" THEN dispatch_composite(w, n)
    ELSE IF n.form = "within" THEN dispatch_buffer(w, n)
    ELSE LET word == w.plain[n.parts[1]]
         IN IF dispatch(w, word) # {} THEN CHOOSE r \in dispatch(w, word) : TRUE
            ELSE IF word \in Keys(w.presets) THEN Region(_finalize_preset(w, word), FALSE)
            ELSE IF n.parts[1] \in Keys(w.gazetteer)
            THEN Region(_geocoded_region(w.gazetteer[n.parts[1]]), TRUE)
            ELSE Nowhere(TRUE)

-----------------------------------------------------------------------------
(* The retrieval plane. *)

Floor(v) == v - (v % Unit)
Ceil(v) == -Floor(-v)
_bbox_string(g) == <<Floor(g[1] + Unit \div 2), Floor(g[2] + Unit \div 2)>>
\* Mutant of _outward_bbox: to the nearest degree, as _bbox_string does.
_outward_bboxNearest(g) == _bbox_string(g)
_outward_bbox(g) == <<Floor(g[1]), Ceil(g[2])>>

dispatch_extent(w, word) ==
    LET target == Target(w.aliases, word)
    IN IF target \in w.coalitions
       THEN {IF target \in Keys(w.polygons) THEN Box(_bbox_string(w.polygons[target])) ELSE Refused}
       ELSE IF word \in Keys(w.aliases) \cup w.states
       THEN {IF target \in Keys(w.presets) THEN Box(_bbox_string(w.presets[target])) ELSE Refused}
       ELSE {}

\* What is sent to the server for the user's words: a box, or the words.
region_aware_area_of_interest(w, n) ==
    LET composed == dispatch_composite(w, n)
        buffered == dispatch_buffer(w, n)
        claimed == dispatch_extent(w, w.plain[n.parts[1]])
    IN CASE n.form = "sum" -> IF composed.is = "region" THEN Box(_bbox_string(composed.bounds)) ELSE Refused
         [] n.form = "within" -> IF buffered.is = "region" THEN Box(_outward_bbox(buffered.bounds)) ELSE Refused
         [] OTHER -> IF claimed # {} THEN CHOOSE e \in claimed : TRUE ELSE Words

-----------------------------------------------------------------------------
(* A case c is an atlas c.w the resolver accepts and a request c.n. *)

Spans == Int \X Int
IsPlaceCase(c) ==
    LET w == c.w
        n == c.n
    IN  /\ Starts(w)
        /\ \A table \in {w.presets, w.polygons, w.countries} : table \in [Keys(table) -> Spans]
        /\ \A t \in Keys(w.gazetteer) : w.gazetteer[t].at \in Int /\ w.gazetteer[t].pole \in Int
        /\ n.form \in {"plain", "sum", "within"} /\ n.radius \in Int
        /\ n.parts \in Seq(Range(n.parts)) \ {<<>>}

Slack(n) == IF n.form = "within" THEN 0 ELSE Unit \div 2

(* The box that is retrieved contains the boundary the same words are      *)
(* masked by: exactly for a buffer, to half a written unit for the rest    *)
(* (_outward_bbox, _bbox_string; "Retrieval must contain the mask").       *)
RetrievalCoversTheMask(c) ==
    LET sent == region_aware_area_of_interest(c.w, c.n)
        mask == resolve_location(c.w, c.n)
    IN sent.is = "box" =>
        /\ mask.is = "region"
        /\ sent.bounds[1] <= mask.bounds[1] + Slack(c.n)
        /\ sent.bounds[2] >= mask.bounds[2] - Slack(c.n)

(* Whatever the retrieval plane refuses, the mask plane does not resolve,  *)
(* and least of all through the geocoder: a claimed name that failed never *)
(* falls through to a stranger's gazetteer (region_dispatch.py:172).       *)
FailedClaimsStayFailed(c) ==
    region_aware_area_of_interest(c.w, c.n).is = "refused" =>
        resolve_location(c.w, c.n).is # "region" /\ ~resolve_location(c.w, c.n).geocoded

(* A state's name and every word of the tables mean one thing on both      *)
(* planes: the retrieval plane never hands the server's geocoder words     *)
(* that the mask plane answers from an alias, a coalition or a state.      *)
OwnWordsAreNotGeocoded(c) ==
    LET word == c.w.plain[c.n.parts[1]]
    IN region_aware_area_of_interest(c.w, c.n).is = "words" =>
        word \notin Keys(c.w.aliases) \cup c.w.coalitions \cup c.w.states

(* No member of a resolved composite can be read as both a state and a     *)
(* country: the request names the two spellings instead of guessing.       *)
NoMemberIsGuessed(c) ==
    c.n.form = "sum" /\ resolve_location(c.w, c.n).is = "region" =>
        \A t \in Range(c.n.parts) :
            (Target(c.w.postal, c.w.plain[t]) \in c.w.states) # (_country_geometry(c.w, c.w.plain[t]) # {})

(* Every resolved composite or buffer is a shape a latitude/longitude box  *)
(* can hold: within the frame budget, short of the antimeridian, with no   *)
(* pole inside.                                                            *)
ShapesFitTheMap(c) ==
    LET mask == resolve_location(c.w, c.n)
    IN c.n.form \in {"sum", "within"} /\ mask.is = "region" =>
        /\ Width(mask.bounds) <= Ceiling
        /\ c.n.form = "within" =>
            /\ mask.bounds[1] >= -HalfTurn /\ mask.bounds[2] <= HalfTurn
            /\ c.w.gazetteer[c.n.parts[1]].pole > c.n.radius

==============================================================================
