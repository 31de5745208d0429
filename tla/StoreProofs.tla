----------------------------- MODULE StoreProofs -----------------------------
(***************************************************************************)
(* Theorems of ExtractCache, FrameStore and CubeCache, the three stores    *)
(* the data passes through on disk, for every number of openers, charts,   *)
(* planes, handles, calls and entries. What a reader is given is what one  *)
(* writer wrote, whatever the other writers, the removals and the restarts *)
(* have done in between; each needs to know where every writer is and what *)
(* it has put on disk by then.                                             *)
(***************************************************************************)
EXTENDS ExtractCache, FrameStore, CubeCache, SubsequenceProofs, WellFoundedInduction

-----------------------------------------------------------------------------
(* The bundle-extract cache. *)

Staging(o) == opener[o].at \in {"extract", "mark", "rename"}
Serves(b) == Complete(b) \/ b \in excused

\* Where an open is tells what it holds: a bundle, and in its staging directory
\* what it has extracted so far.
OpeningsInv ==
    \A o \in Openers :
        /\ opener[o].at # "free" => opener[o].bundle \in Bundles
        /\ opener[o].at = "free" => opener[o].doomed = <<>>
        /\ opener[o].at # "remove" => opener[o].doomed = <<>>
        /\ opener[o].at \in {"mark", "rename"} => opener[o].todo = {}
        /\ Staging(o) => (Contents \ opener[o].todo) \subseteq files[o] \/ o \in excused

\* Only bundles age, and none that an open may take for whole.
AgeInv ==
    /\ old \subseteq Bundles
    /\ \A o \in Openers :
         /\ opener[o].at = "read" => opener[o].bundle \notin old
         /\ Staging(o) /\ "marker" \in files[opener[o].bundle] => opener[o].bundle \notin old

\* A marked directory that lacks files for no named reason is old, and a
\* removal is at work on it.
MarkedInv ==
    \A b \in Bundles : "marker" \in files[b] => Serves(b) \/ (UnderRemoval(b) /\ b \in old)

ReadInv == \A o \in Openers : opener[o].at = "read" => Serves(opener[o].bundle)

\* What a removal may still take from a pinned directory that has aged, it
\* decided before the pin.
PinInv == \A b \in pinned : Serves(b) /\ (b \in old /\ Condemned(b) => b \in excused)

ExtractIInv == ExtractTypeOK /\ OpeningsInv /\ AgeInv /\ MarkedInv /\ ReadInv /\ PinInv

\* What the order of the directories becomes when some go and one is touched.
LEMMA RecentLaws ==
    ASSUME ExtractTypeOK
    PROVE  /\ \A G : /\ Without(recent, G) \in Seq(Dirs) /\ IsInjective(Without(recent, G))
                     /\ ToSet(Without(recent, G)) = There \ G
           /\ \A G : \A d \in Dirs : d \in G =>
                 /\ Append(Without(recent, G), d) \in Seq(Dirs)
                 /\ IsInjective(Append(Without(recent, G), d))
                 /\ ToSet(Append(Without(recent, G), d)) = (There \ G) \cup {d}
           /\ \A d \in Dirs : /\ Touched(d) \in Seq(Dirs) /\ IsInjective(Touched(d))
                              /\ ToSet(Touched(d)) = There \cup {d}
<1>1. recent \in Seq(Dirs) /\ IsInjective(recent)
  BY DEF ExtractTypeOK
<1>2. ASSUME NEW G
      PROVE  /\ Without(recent, G) \in Seq(Dirs) /\ IsInjective(Without(recent, G))
             /\ ToSet(Without(recent, G)) = There \ G
  BY <1>1, WithoutProperties DEF There
<1>3. ASSUME NEW G, NEW d \in Dirs, d \in G
      PROVE  /\ Append(Without(recent, G), d) \in Seq(Dirs)
             /\ IsInjective(Append(Without(recent, G), d))
             /\ ToSet(Append(Without(recent, G), d)) = (There \ G) \cup {d}
  <2> DEFINE w == Without(recent, G)
  <2>1. w \in Seq(Dirs) /\ IsInjective(w) /\ ToSet(w) = There \ G /\ d \notin ToSet(w)
    BY <1>2, <1>3
  <2> HIDE DEF w
  <2>2. /\ Append(w, d) \in Seq(Dirs) /\ ToSet(Append(w, d)) = ToSet(w) \cup {d}
        /\ IsInjective(Append(w, d))
    BY <2>1, AppendLaws
  <2> QED
    BY <2>1, <2>2, Zenon DEF w
<1>4. ASSUME NEW d \in Dirs
      PROVE  /\ Touched(d) \in Seq(Dirs) /\ IsInjective(Touched(d))
             /\ ToSet(Touched(d)) = There \cup {d}
  <2>1. d \in {d}
    OBVIOUS
  <2>2. /\ Append(Without(recent, {d}), d) \in Seq(Dirs)
        /\ IsInjective(Append(Without(recent, {d}), d))
        /\ ToSet(Append(Without(recent, {d}), d)) = (There \ {d}) \cup {d}
    BY <1>3, <2>1
  <2> QED
    BY <2>2 DEF Touched
<1> QED
  BY <1>2, <1>3, <1>4

\* What an open decides to remove exists, and nobody has pinned it.
LEMMA DoomedLaws ==
    ASSUME ExtractTypeOK
    PROVE  /\ Doomed \in Seq(Dirs \X {"age", "size"})
           /\ \A i \in DOMAIN Doomed : Doomed[i][1] \notin pinned
<1>1. recent \in Seq(Dirs) /\ Cap \in Nat
  BY ExtractAssumption DEF ExtractTypeOK
<1>2. /\ AgePass \in Seq(Dirs) /\ ToSet(AgePass) = ToSet(recent) \cap (old \ pinned)
      /\ Survivors \in Seq(Dirs) /\ ToSet(Survivors) = ToSet(recent) \ (old \cup pinned)
  BY <1>1, WithinProperties, WithoutProperties DEF AgePass, Survivors
<1> DEFINE a == Len(AgePass)
           n == IF Len(Survivors) > Cap THEN Len(Survivors) - Cap ELSE 0
<1>3. a \in Nat /\ n \in Nat /\ n <= Len(Survivors) /\ Len(Survivors) \in Nat
  BY <1>1, <1>2
<1>4. /\ SizePass \in Seq(Dirs) /\ Len(SizePass) = n
      /\ \A i \in 1 .. n : SizePass[i] = Survivors[i] /\ i \in DOMAIN Survivors
  <2> HIDE DEF n
  <2>1. SizePass = SubSeq(Survivors, 1, n)
    BY DEF SizePass, n
  <2> QED
    BY <1>2, <1>3, <2>1
<1>5. \A i \in 1 .. a : AgePass[i] \in Dirs /\ AgePass[i] \notin pinned
  <2>1. \A i \in 1 .. a : AgePass[i] \in Dirs /\ AgePass[i] \in ToSet(AgePass)
    BY <1>2 DEF ToSet
  <2> QED
    BY <1>2, <2>1
<1>6. \A i \in 1 .. n : SizePass[i] \in Dirs /\ SizePass[i] \notin pinned
  <2>1. \A i \in DOMAIN Survivors : Survivors[i] \in Dirs /\ Survivors[i] \in ToSet(Survivors)
    BY <1>2 DEF ToSet
  <2> QED
    BY <1>2, <1>4, <2>1
<1> HIDE DEF n, a
<1>7. Doomed = [i \in 1 .. a + n |-> IF i <= a THEN <<AgePass[i], "age">>
                                   ELSE <<SizePass[i - a], "size">>]
  BY <1>4 DEF Doomed, a
<1>8. \A i \in 1 .. a + n : /\ Doomed[i] \in Dirs \X {"age", "size"}
                            /\ Doomed[i][1] \notin pinned
  <2> TAKE i \in 1 .. a + n
  <2>1. CASE i <= a
    <3>1. i \in 1 .. a /\ Doomed[i] = <<AgePass[i], "age">>
      BY <2>1, <1>3, <1>7
    <3> QED
      BY <3>1, <1>5
  <2>2. CASE ~(i <= a)
    <3>1. i - a \in 1 .. n /\ Doomed[i] = <<SizePass[i - a], "size">>
      BY <2>2, <1>3, <1>7
    <3> QED
      BY <3>1, <1>6
  <2> QED
    BY <2>1, <2>2
<1>9. a + n \in Nat /\ Doomed \in [1 .. a + n -> Dirs \X {"age", "size"}] /\ DOMAIN Doomed = 1 .. a + n
  BY <1>3, <1>7, <1>8
<1> QED
  BY <1>8, <1>9

\* The types follow from those of each variable.
LEMMA TypesFromParts ==
    ASSUME files' \in [Dirs -> SUBSET Files], opener' \in [Openers -> Openings],
           recent' \in Seq(Dirs), IsInjective(recent'), old' \subseteq There',
           \A d \in Dirs : files'[d] = {} \/ d \in There',
           queued' \subseteq Bundles, pinned' \subseteq Bundles, excused' \subseteq Dirs,
           openings' \in 0 .. MaxOpenings
    PROVE  ExtractTypeOK'
  BY DEF ExtractTypeOK

\* What the proofs of the steps know of the state before.
LEMMA PartsOfTypes ==
    ASSUME ExtractTypeOK
    PROVE  /\ files \in [Dirs -> SUBSET Files] /\ opener \in [Openers -> Openings]
           /\ recent \in Seq(Dirs) /\ IsInjective(recent) /\ old \subseteq There
           /\ There \subseteq Dirs
           /\ \A d \in Dirs : files[d] = {} \/ d \in There
           /\ queued \subseteq Bundles /\ pinned \subseteq Bundles
           /\ excused \subseteq Dirs /\ openings \in 0 .. MaxOpenings
           /\ \A o \in Openers : opener[o] \in Openings
  BY DEF ExtractTypeOK, There, ToSet

\* An open decides what to remove.
LEMMA OpenBeginsKeeps ==
    ASSUME ExtractIInv, NEW o \in Openers, NEW b \in Bundles, OpenBegins(o, b)
    PROVE  ExtractIInv'
<1>0. ExtractTypeOK /\ OpeningsInv /\ AgeInv /\ MarkedInv /\ ReadInv /\ PinInv
  BY DEF ExtractIInv
<1>1. /\ opener[o].at = "free" /\ opener[o].doomed = <<>>
      /\ opener'[o].at = "remove" /\ opener'[o].bundle = b /\ opener'[o].doomed = Doomed
      /\ \A p \in Openers \ {o} : opener'[p] = opener[p]
  BY <1>0, PartsOfTypes DEF OpenBegins, Unused, OpeningsInv
<1>2. /\ files' = files /\ recent' = recent /\ There' = There /\ old' = old
      /\ queued' = queued /\ pinned' = pinned /\ excused' = excused
  BY DEF OpenBegins, There
<1>3. opener' \in [Openers -> Openings] /\ openings' \in 0 .. MaxOpenings
  <2>1. opener' = [opener EXCEPT ![o] = [Unused EXCEPT !.at = "remove", !.bundle = b, !.doomed = Doomed]]
    BY DEF OpenBegins
  <2>2. [Unused EXCEPT !.at = "remove", !.bundle = b, !.doomed = Doomed] \in Openings
    BY <1>0, DoomedLaws DEF Unused, Openings
  <2>3. openings' \in 0 .. MaxOpenings
    BY <1>0, PartsOfTypes, ExtractAssumption DEF OpenBegins
  <2> QED
    BY <1>0, <2>1, <2>2, <2>3, PartsOfTypes
<1>4. ExtractTypeOK'
  BY <1>0, PartsOfTypes, TypesFromParts, <1>2, <1>3
<1>5. OpeningsInv'
  BY <1>0, <1>1, <1>2 DEF OpeningsInv, Staging
<1>6. AgeInv'
  BY <1>0, <1>1, <1>2 DEF AgeInv, OpeningsInv, Staging
<1>7. MarkedInv'
  BY <1>0, <1>1, <1>2 DEF MarkedInv, AgeInv, Serves, Complete, UnderRemoval
<1>8. ReadInv'
  BY <1>0, <1>1, <1>2 DEF ReadInv, OpeningsInv, Serves, Complete
<1>9. PinInv'
  <2>1. \A d \in pinned : Condemned(d)' => Condemned(d)
    BY <1>0, <1>1, DoomedLaws DEF Condemned
  <2> QED
    BY <1>0, <1>2, <2>1 DEF PinInv, Serves, Complete
<1> QED
  BY <1>4, <1>5, <1>6, <1>7, <1>8, <1>9 DEF ExtractIInv

\* A removal takes one file, or the emptied directory.
LEMMA RemovesKeeps ==
    ASSUME ExtractIInv, NEW o \in Openers, Removes(o)
    PROVE  ExtractIInv'
<1>0. ExtractTypeOK /\ OpeningsInv /\ AgeInv /\ MarkedInv /\ ReadInv /\ PinInv
  BY DEF ExtractIInv
<1>1. PICK d \in Dirs, why \in {"age", "size"} :
         opener[o].doomed # <<>> /\ Head(opener[o].doomed) = <<d, why>> /\ opener[o].doomed[1] = <<d, why>>
  <2>1. opener[o].doomed \in Seq(Dirs \X {"age", "size"}) /\ opener[o].doomed # <<>>
    BY <1>0, PartsOfTypes DEF Removes, Openings
  <2>2. Head(opener[o].doomed) = opener[o].doomed[1] /\ Head(opener[o].doomed) \in Dirs \X {"age", "size"}
    BY <2>1, TailLaws
  <2> QED
    BY <2>1, <2>2
<1>2. /\ opener[o].at = "remove" /\ queued' = queued /\ pinned' = pinned /\ openings' = openings
      /\ d \in excused' \/ d \in old
      /\ excused \subseteq excused' /\ excused' \subseteq excused \cup {d}
  BY <1>1 DEF Removes, Late
<1>3. \/ /\ files[d] # {} /\ recent' = recent /\ old' = old /\ opener' = opener
         /\ \E f \in files[d] : files' = [files EXCEPT ![d] = @ \ {f}]
      \/ /\ files[d] = {} /\ files' = files
         /\ recent' = Without(recent, {d}) /\ old' = old \ {d}
         /\ opener' = [opener EXCEPT ![o].doomed = Tail(@)]
  <2> DEFINE e == Head(opener[o].doomed)[1]
  <2>1. e = d
    BY <1>1
  <2>2. \/ /\ files[e] # {} /\ recent' = recent /\ old' = old /\ opener' = opener
           /\ \E f \in files[e] : files' = [files EXCEPT ![e] = @ \ {f}]
        \/ /\ files[e] = {} /\ files' = files
           /\ recent' = Without(recent, {e}) /\ old' = old \ {e}
           /\ opener' = [opener EXCEPT ![o].doomed = Tail(@)]
    BY DEF Removes
  <2> HIDE DEF e
  <2> QED
    BY <2>1, <2>2
<1>4. /\ opener' \in [Openers -> Openings]
      /\ \A p \in Openers : /\ opener'[p].at = opener[p].at /\ opener'[p].bundle = opener[p].bundle
                             /\ opener'[p].todo = opener[p].todo
      /\ \A p \in Openers \ {o} : opener'[p] = opener[p]
      /\ \A i \in DOMAIN opener'[o].doomed : \E k \in DOMAIN opener[o].doomed :
            opener'[o].doomed[i] = opener[o].doomed[k]
      /\ files[d] # {} => opener' = opener
  <2>1. opener \in [Openers -> Openings] /\ opener[o] \in Openings
    BY <1>0, PartsOfTypes
  <2>2. CASE opener' = opener
    BY <2>1, <2>2
  <2>3. CASE files[d] = {} /\ opener' = [opener EXCEPT ![o].doomed = Tail(@)]
    <3>1. opener[o].doomed \in Seq(Dirs \X {"age", "size"}) /\ opener[o].doomed # <<>>
      BY <1>1, <2>1 DEF Openings
    <3>2. /\ Tail(opener[o].doomed) \in Seq(Dirs \X {"age", "size"})
          /\ \A i \in DOMAIN Tail(opener[o].doomed) : \E k \in DOMAIN opener[o].doomed :
                Tail(opener[o].doomed)[i] = opener[o].doomed[k]
      BY <3>1
    <3>3. /\ opener'[o] = [opener[o] EXCEPT !.doomed = Tail(@)]
          /\ \A p \in Openers \ {o} : opener'[p] = opener[p]
      BY <2>1, <2>3
    <3>4. opener'[o] \in Openings /\ opener'[o].doomed = Tail(opener[o].doomed)
          /\ opener'[o].at = opener[o].at /\ opener'[o].bundle = opener[o].bundle
          /\ opener'[o].todo = opener[o].todo
      BY <2>1, <3>2, <3>3 DEF Openings
    <3>5. opener' \in [Openers -> Openings]
      BY <2>1, <2>3, <3>4, <3>3
    <3> QED
      BY <2>3, <3>2, <3>3, <3>4, <3>5
  <2> QED
    BY <1>3, <2>2, <2>3
<1>5. /\ \A e \in Dirs \ {d} : files'[e] = files[e]
      /\ files'[d] \subseteq files[d] /\ files' \in [Dirs -> SUBSET Files]
  BY <1>0, <1>3, PartsOfTypes
<1>6. /\ recent' \in Seq(Dirs) /\ IsInjective(recent') /\ old' \subseteq old
      /\ old \subseteq old' \cup {d}
      /\ old' \subseteq There'
      /\ \A e \in Dirs : files'[e] = {} \/ e \in There'
  <2>0. /\ \A e \in Dirs : files[e] = {} \/ e \in There
        /\ old \subseteq There /\ recent \in Seq(Dirs) /\ IsInjective(recent)
        /\ Without(recent, {d}) \in Seq(Dirs) /\ IsInjective(Without(recent, {d}))
        /\ ToSet(Without(recent, {d})) = There \ {d}
    BY <1>0, PartsOfTypes, RecentLaws
  <2>1. CASE files[d] # {} /\ recent' = recent /\ old' = old
    <3>1. There' = There
      BY <2>1 DEF There
    <3>2. d \in There
      BY <2>0, <2>1
    <3>3. \A e \in Dirs : e # d => (files'[e] = {} \/ e \in There)
      BY <1>5, <2>0
    <3> QED
      BY <2>0, <2>1, <3>1, <3>2, <3>3
  <2>2. CASE files[d] = {} /\ files' = files /\ recent' = Without(recent, {d}) /\ old' = old \ {d}
    <3>1. There' = There \ {d}
      BY <2>0, <2>2 DEF There
    <3> QED
      BY <2>0, <2>2, <3>1
  <2> QED
    BY <1>3, <2>1, <2>2
<1>7. \A b \in Bundles : b # d \/ b \in excused' => (Serves(b) => Serves(b)')
  BY <1>2, <1>5 DEF Serves, Complete, Dirs
<1>8. \A b : Condemned(b)' => Condemned(b)
  <2> SUFFICES ASSUME NEW b, NEW p \in Openers, NEW i \in DOMAIN opener'[p].doomed,
                      opener'[p].doomed[i][1] = b
               PROVE  \E k \in DOMAIN opener[p].doomed : opener[p].doomed[k][1] = b
    BY DEF Condemned
  <2>1. CASE p = o
    BY <1>4, <2>1
  <2>2. CASE p # o
    BY <1>4, <2>2
  <2> QED
    BY <2>1, <2>2
<1>9. Condemned(d)
  <2>1. opener[o].doomed \in Seq(Dirs \X {"age", "size"}) /\ opener[o].doomed # <<>>
    BY <1>0, <1>1, PartsOfTypes DEF Openings
  <2>2. 1 \in DOMAIN opener[o].doomed /\ opener[o].doomed[1][1] = d
    BY <1>1, <2>1
  <2> QED
    BY <2>2 DEF Condemned
<1>10. ExtractTypeOK'
  <2>1. /\ excused' \subseteq Dirs /\ queued' \subseteq Bundles
        /\ pinned' \subseteq Bundles /\ openings' \in 0 .. MaxOpenings
    BY <1>0, <1>2, PartsOfTypes
  <2>2. opener' \in [Openers -> Openings] /\ files' \in [Dirs -> SUBSET Files]
    BY <1>4, <1>5
  <2>3. /\ recent' \in Seq(Dirs) /\ IsInjective(recent') /\ old' \subseteq There'
        /\ \A e \in Dirs : files'[e] = {} \/ e \in There'
    BY <1>6
  <2> QED
    BY <2>1, <2>2, <2>3, TypesFromParts
<1>11. OpeningsInv'
  <2>1. \A p \in Openers : opener[p].at # "remove" => p # o
    BY <1>2
  <2>2. \A p \in Openers : Staging(p)' => Staging(p)
    BY <1>4 DEF Staging
  <2>3. \A p \in Openers : p = d => files'[p] = files[p] \/ p \in excused'
    BY <1>0, <1>2, ExtractAssumption DEF AgeInv
  <2>4. \A p \in Openers : files'[p] = files[p] \/ p \in excused'
    BY <1>5, <2>3 DEF Dirs
  <2> QED
    BY <1>0, <1>2, <1>4, <2>1, <2>2, <2>4 DEF OpeningsInv
<1>12. AgeInv'
  <2>1. \A p \in Openers : Staging(p)' => Staging(p) /\ opener[p].bundle \in Bundles
    BY <1>0, <1>4 DEF Staging, OpeningsInv
  <2>2. \A b \in Bundles : files'[b] \subseteq files[b]
    BY <1>5 DEF Dirs
  <2> QED
    BY <1>0, <1>4, <1>6, <2>1, <2>2 DEF AgeInv
<1>13. MarkedInv'
  <2> SUFFICES ASSUME NEW b \in Bundles, "marker" \in files'[b]
               PROVE  Serves(b)' \/ (UnderRemoval(b)' /\ b \in old')
    BY DEF MarkedInv
  <2>1. CASE b # d
    <3>1. Serves(b) \/ (UnderRemoval(b) /\ b \in old)
      BY <1>0, <1>5, <2>1 DEF MarkedInv, Dirs
    <3>2. ASSUME UnderRemoval(b) PROVE UnderRemoval(b)'
      <4>1. PICK p \in Openers : /\ opener[p].at = "remove" /\ opener[p].doomed # <<>>
                                 /\ Head(opener[p].doomed)[1] = b
        BY <3>2 DEF UnderRemoval
      <4>2. p # o
        BY <1>1, <2>1, <4>1
      <4> QED
        BY <1>4, <4>1, <4>2 DEF UnderRemoval
    <3>3. b \in old => b \in old'
      BY <1>6, <2>1
    <3> QED
      BY <1>7, <2>1, <3>1, <3>2, <3>3
  <2>2. CASE b = d
    <3>1. files[d] # {} /\ opener' = opener /\ old' = old
      BY <1>3, <2>2
    <3>2. UnderRemoval(d)'
      BY <1>1, <1>2, <3>1 DEF UnderRemoval
    <3> QED
      BY <1>2, <2>2, <3>1, <3>2 DEF Serves
  <2> QED
    BY <2>1, <2>2
<1>14. ReadInv'
  <2>1. \A p \in Openers : opener'[p].at = "read" =>
           /\ opener[p].at = "read" /\ opener'[p].bundle = opener[p].bundle
           /\ opener[p].bundle \in Bundles /\ opener[p].bundle \notin old
    BY <1>0, <1>4 DEF OpeningsInv, AgeInv
  <2>2. \A b \in Bundles : b \notin old => b # d \/ b \in excused'
    BY <1>2
  <2> QED
    BY <1>0, <1>7, <2>1, <2>2 DEF ReadInv
<1>15. PinInv'
  BY <1>0, <1>2, <1>6, <1>7, <1>8, <1>9, PartsOfTypes DEF PinInv
<1> QED
  BY <1>10, <1>11, <1>12, <1>13, <1>14, <1>15 DEF ExtractIInv

\* A prune ends.
LEMMA PruneEndsKeeps ==
    ASSUME ExtractIInv, NEW o \in Openers, PruneEnds(o)
    PROVE  ExtractIInv'
<1>0. ExtractTypeOK /\ OpeningsInv /\ AgeInv /\ MarkedInv /\ ReadInv /\ PinInv
  BY DEF ExtractIInv
<1>1. /\ opener[o].at = "remove" /\ opener[o].doomed = <<>>
      /\ opener'[o].at = "check" /\ opener'[o].bundle = opener[o].bundle
      /\ opener'[o].doomed = opener[o].doomed /\ opener'[o].todo = opener[o].todo
      /\ \A p \in Openers \ {o} : opener'[p] = opener[p]
  BY <1>0, PartsOfTypes DEF PruneEnds, Openings
<1>2. /\ files' = files /\ recent' = recent /\ There' = There /\ old' = old
      /\ queued' = queued /\ pinned' = pinned /\ excused' = excused /\ openings' = openings
  BY DEF PruneEnds, There
<1>3. opener' \in [Openers -> Openings]
  BY <1>0, PartsOfTypes DEF PruneEnds, Openings
<1>4. ExtractTypeOK'
  BY <1>0, PartsOfTypes, TypesFromParts, <1>2, <1>3
<1>5. OpeningsInv'
  BY <1>0, <1>1, <1>2 DEF OpeningsInv, Staging
<1>6. AgeInv'
  BY <1>0, <1>1, <1>2 DEF AgeInv, OpeningsInv, Staging
<1>7. MarkedInv'
  BY <1>0, <1>1, <1>2 DEF MarkedInv, AgeInv, Serves, Complete, UnderRemoval
<1>8. ReadInv'
  BY <1>0, <1>1, <1>2 DEF ReadInv, OpeningsInv, Serves, Complete
<1>9. PinInv'
  BY <1>0, <1>1, <1>2 DEF PinInv, Serves, Complete, Condemned
<1> QED
  BY <1>4, <1>5, <1>6, <1>7, <1>8, <1>9 DEF ExtractIInv

\* A marked directory is adopted.
LEMMA AdoptsKeeps ==
    ASSUME ExtractIInv, NEW o \in Openers, Adopts(o)
    PROVE  ExtractIInv'
<1>0. ExtractTypeOK /\ OpeningsInv /\ AgeInv /\ MarkedInv /\ ReadInv /\ PinInv
  BY DEF ExtractIInv
<1>1. /\ opener[o].at = "check" /\ opener[o].bundle \in Bundles
      /\ "marker" \in files[opener[o].bundle]
      /\ opener'[o].at = "read" /\ opener'[o].bundle = opener[o].bundle
      /\ opener'[o].doomed = opener[o].doomed /\ opener'[o].todo = opener[o].todo
      /\ \A p \in Openers \ {o} : opener'[p] = opener[p]
  <2>1. opener' = [opener EXCEPT ![o].at = "read"]
    BY DEF Adopts
  <2>2. opener[o].at = "check" /\ opener[o].bundle \in Bundles /\ "marker" \in files[opener[o].bundle]
    BY <1>0 DEF Adopts, OpeningsInv
  <2> QED
    BY <1>0, <2>1, <2>2, PartsOfTypes DEF Openings
<1>2. opener' \in [Openers -> Openings]
  <2>1. opener' = [opener EXCEPT ![o].at = "read"]
    BY DEF Adopts
  <2> QED
    BY <1>0, <2>1, PartsOfTypes DEF Openings
<1>3. /\ files' = files /\ queued' = queued /\ pinned' = pinned /\ openings' = openings
      /\ old' = old \ {opener[o].bundle}
      /\ excused \subseteq excused' /\ excused' \subseteq excused \cup {opener[o].bundle}
      /\ UnderRemoval(opener[o].bundle) => opener[o].bundle \in excused'
  BY DEF Adopts
<1>4. recent' \in Seq(Dirs) /\ IsInjective(recent') /\ There' = There \cup {opener[o].bundle}
  BY <1>0, <1>1, RecentLaws DEF Adopts, There, Dirs
<1>5. \A b \in Bundles : Serves(b) => Serves(b)'
  BY <1>3 DEF Serves, Complete
<1>6. Serves(opener[o].bundle)'
  BY <1>0, <1>1, <1>3, <1>5 DEF MarkedInv, Serves
<1>7. ExtractTypeOK'
  BY <1>0, PartsOfTypes, TypesFromParts, <1>1, <1>2, <1>3, <1>4 DEF Dirs
<1>8. OpeningsInv'
  BY <1>0, <1>1, <1>3 DEF OpeningsInv, Staging
<1>9. AgeInv'
  BY <1>0, <1>1, <1>3 DEF AgeInv, OpeningsInv, Staging
<1>10. MarkedInv'
  <2>1. \A b \in Bundles : UnderRemoval(b) => UnderRemoval(b)'
    BY <1>1 DEF UnderRemoval
  <2> QED
    BY <1>0, <1>1, <1>3, <1>5, <1>6, <2>1 DEF MarkedInv
<1>11. ReadInv'
  BY <1>0, <1>1, <1>5, <1>6 DEF ReadInv, OpeningsInv
<1>12. PinInv'
  <2>1. \A b : Condemned(b)' => Condemned(b)
    BY <1>1 DEF Condemned
  <2> QED
    BY <1>0, <1>3, <1>5, <2>1, PartsOfTypes DEF PinInv
<1> QED
  BY <1>7, <1>8, <1>9, <1>10, <1>11, <1>12 DEF ExtractIInv

\* An open begins to extract.
LEMMA StagesKeeps ==
    ASSUME ExtractIInv, NEW o \in Openers, Stages(o)
    PROVE  ExtractIInv'
<1>0. ExtractTypeOK /\ OpeningsInv /\ AgeInv /\ MarkedInv /\ ReadInv /\ PinInv
  BY DEF ExtractIInv
<1>1. /\ opener[o].at = "check" /\ opener[o].bundle \in Bundles
      /\ "marker" \notin files[opener[o].bundle]
      /\ opener'[o].at = "extract" /\ opener'[o].bundle = opener[o].bundle
      /\ opener'[o].doomed = opener[o].doomed /\ opener'[o].todo = Contents
      /\ \A p \in Openers \ {o} : opener'[p] = opener[p]
      /\ opener' \in [Openers -> Openings]
  <2>1. opener' = [opener EXCEPT ![o] = [@ EXCEPT !.at = "extract", !.todo = Contents]]
    BY DEF Stages
  <2>2. opener \in [Openers -> Openings] /\ opener[o] \in Openings
    BY <1>0, PartsOfTypes
  <2>3. opener[o].at = "check" /\ opener[o].bundle \in Bundles /\ "marker" \notin files[opener[o].bundle]
    BY <1>0 DEF Stages, OpeningsInv
  <2> QED
    BY <2>1, <2>2, <2>3 DEF Openings
<1>2. /\ files' = files /\ old' = old /\ queued' = queued /\ pinned' = pinned /\ excused' = excused
      /\ openings' = openings
  BY DEF Stages
<1>3. recent' \in Seq(Dirs) /\ IsInjective(recent') /\ There' = There \cup {o}
  BY <1>0, RecentLaws DEF Stages, There, Dirs
<1>4. ExtractTypeOK'
  BY <1>0, PartsOfTypes, TypesFromParts, <1>1, <1>2, <1>3
<1>5. OpeningsInv'
  BY <1>0, <1>1, <1>2 DEF OpeningsInv, Staging
<1>6. AgeInv'
  BY <1>0, <1>1, <1>2 DEF AgeInv, OpeningsInv, Staging
<1>7. MarkedInv'
  BY <1>0, <1>1, <1>2 DEF MarkedInv, AgeInv, Serves, Complete, UnderRemoval
<1>8. ReadInv'
  BY <1>0, <1>1, <1>2 DEF ReadInv, OpeningsInv, Serves, Complete
<1>9. PinInv'
  BY <1>0, <1>1, <1>2 DEF PinInv, Serves, Complete, Condemned
<1> QED
  BY <1>4, <1>5, <1>6, <1>7, <1>8, <1>9 DEF ExtractIInv

\* A member is extracted.
LEMMA ExtractsKeeps ==
    ASSUME ExtractIInv, NEW o \in Openers, NEW f \in Contents, Extracts(o, f)
    PROVE  ExtractIInv'
<1>0. ExtractTypeOK /\ OpeningsInv /\ AgeInv /\ MarkedInv /\ ReadInv /\ PinInv
  BY DEF ExtractIInv
<1>1. /\ opener[o].at = "extract" /\ f \in opener[o].todo
      /\ opener'[o].at \in {"extract", "mark"} /\ opener'[o].bundle = opener[o].bundle
      /\ opener'[o].at = "mark" => opener'[o].todo = {}
      /\ opener'[o].doomed = opener[o].doomed /\ opener'[o].todo = opener[o].todo \ {f}
      /\ \A p \in Openers \ {o} : opener'[p] = opener[p]
      /\ opener' \in [Openers -> Openings]
  <2>1. opener' = [opener EXCEPT ![o].todo = @ \ {f},
                                ![o].at = IF opener[o].todo = {f} THEN "mark" ELSE "extract"]
    BY DEF Extracts
  <2>2. opener \in [Openers -> Openings] /\ opener[o] \in Openings
    BY <1>0, PartsOfTypes
  <2>3. opener[o].at = "extract" /\ f \in opener[o].todo
    BY <1>0 DEF Extracts
  <2> DEFINE r == opener'[o]
  <2>4. \A p \in Openers \ {o} : opener'[p] = opener[p]
    BY <2>1, <2>2
  <2>5. r = [opener[o] EXCEPT !.todo = opener[o].todo \ {f},
                              !.at = IF opener[o].todo = {f} THEN "mark" ELSE "extract"]
    BY <2>1, <2>2
  <2> HIDE DEF r
  <2>6. /\ r \in Openings /\ r.at \in {"extract", "mark"} /\ r.bundle = opener[o].bundle
        /\ r.doomed = opener[o].doomed /\ r.todo = opener[o].todo \ {f}
        /\ r.at = "mark" => r.todo = {}
    <3>1. CASE opener[o].todo = {f}
      <4>1. r = [opener[o] EXCEPT !.todo = opener[o].todo \ {f}, !.at = "mark"]
        BY <2>5, <3>1
      <4> QED
        BY <2>2, <3>1, <4>1 DEF Openings
    <3>2. CASE opener[o].todo # {f}
      <4>1. r = [opener[o] EXCEPT !.todo = opener[o].todo \ {f}, !.at = "extract"]
        BY <2>5, <3>2
      <4> QED
        BY <2>2, <4>1 DEF Openings
    <3> QED
      BY <3>1, <3>2
  <2>7. opener' \in [Openers -> Openings]
    <3>1. DOMAIN opener' = Openers /\ opener' = [p \in Openers |-> opener'[p]]
      BY <2>1, <2>2
    <3> QED
      BY <2>2, <2>4, <2>6, <3>1 DEF r
  <2> QED
    BY <2>3, <2>4, <2>6, <2>7 DEF r
<1>2. /\ old' = old /\ queued' = queued /\ pinned' = pinned /\ openings' = openings
      /\ excused \subseteq excused' /\ excused' \subseteq excused \cup {o}
  BY <1>0 DEF Extracts
<1>3. recent' \in Seq(Dirs) /\ IsInjective(recent') /\ There' = There \cup {o}
  BY <1>0, RecentLaws DEF Extracts, There, Dirs
<1>4. /\ files'[o] = files[o] \cup {f} /\ files' \in [Dirs -> SUBSET Files]
      /\ \A d \in Dirs \ {o} : files'[d] = files[d]
      /\ \A b \in Bundles : files'[b] = files[b]
  BY <1>0, PartsOfTypes, ExtractAssumption DEF Extracts, Dirs, Files
<1>5. \A b \in Bundles : (Serves(b) => Serves(b)') /\ (UnderRemoval(b) => UnderRemoval(b)')
  BY <1>1, <1>2, <1>4 DEF Serves, Complete, UnderRemoval
<1>6. ExtractTypeOK'
  BY <1>0, PartsOfTypes, TypesFromParts, <1>1, <1>2, <1>3, <1>4 DEF Dirs
<1>7. OpeningsInv'
  <2>1. \A p \in Openers \ {o} : files'[p] = files[p]
    BY <1>4 DEF Dirs
  <2>2. opener[o].bundle \in Bundles /\ opener[o].doomed = <<>>
    BY <1>0, <1>1 DEF OpeningsInv
  <2>3. (Contents \ opener'[o].todo) \subseteq files'[o] \/ o \in excused'
    BY <1>0, <1>1, <1>2, <1>4 DEF OpeningsInv, Staging
  <2>4. ASSUME NEW p \in Openers \ {o}
        PROVE  Staging(p)' => (Contents \ opener'[p].todo) \subseteq files'[p] \/ p \in excused'
    BY <1>0, <1>1, <1>2, <2>1 DEF OpeningsInv, Staging
  <2> QED
    BY <1>0, <1>1, <2>2, <2>3, <2>4 DEF OpeningsInv
<1>8. AgeInv'
  BY <1>0, <1>1, <1>2, <1>4 DEF AgeInv, OpeningsInv, Staging
<1>9. MarkedInv'
  BY <1>0, <1>2, <1>4, <1>5 DEF MarkedInv
<1>10. ReadInv'
  BY <1>0, <1>1, <1>5 DEF ReadInv, OpeningsInv
<1>11. PinInv'
  <2>1. \A b : Condemned(b)' => Condemned(b)
    BY <1>1 DEF Condemned
  <2> QED
    BY <1>0, <1>2, <1>5, <2>1, PartsOfTypes DEF PinInv
<1> QED
  BY <1>6, <1>7, <1>8, <1>9, <1>10, <1>11 DEF ExtractIInv

\* An open gives up.
LEMMA FailsKeeps ==
    ASSUME ExtractIInv, NEW o \in Openers, Staging(o), Fails(o),
           queued' = queued /\ pinned' = pinned, openings' = openings
    PROVE  ExtractIInv'
<1>0. ExtractTypeOK /\ OpeningsInv /\ AgeInv /\ MarkedInv /\ ReadInv /\ PinInv
  BY DEF ExtractIInv
<1>1. /\ opener[o].at # "read" /\ opener[o].doomed = <<>>
      /\ opener'[o] = Unused /\ Unused.at = "free" /\ Unused.doomed = <<>>
      /\ \A p \in Openers \ {o} : opener'[p] = opener[p]
      /\ opener' \in [Openers -> Openings]
  <2>1. opener' = [opener EXCEPT ![o] = Unused] /\ Unused \in Openings
    BY DEF Fails, Unused, Openings
  <2> QED
    BY <1>0, <2>1, PartsOfTypes DEF Unused, OpeningsInv, Staging
<1>2. old' = old \ {o} /\ excused' = excused \ {o} /\ queued' = queued /\ pinned' = pinned /\ openings' = openings
  BY DEF Fails
<1>3. recent' \in Seq(Dirs) /\ IsInjective(recent') /\ There' = There \ {o}
  BY <1>0, RecentLaws DEF Fails, There, Dirs
<1>4. /\ files'[o] = {} /\ files' \in [Dirs -> SUBSET Files]
      /\ \A d \in Dirs \ {o} : files'[d] = files[d]
      /\ \A b \in Bundles : files'[b] = files[b] /\ b # o
  BY <1>0, PartsOfTypes, ExtractAssumption DEF Fails, Dirs
<1>5. old' = old /\ \A b \in Bundles : (Serves(b) => Serves(b)') /\ (UnderRemoval(b) => UnderRemoval(b)')
  BY <1>0, <1>1, <1>2, <1>4, ExtractAssumption DEF Serves, Complete, UnderRemoval, AgeInv
<1>6. ExtractTypeOK'
  <2>1. \A d \in Dirs : files'[d] = {} \/ d \in There'
    BY <1>0, <1>3, <1>4, PartsOfTypes
  <2>2. /\ old' \subseteq There' /\ queued' \subseteq Bundles
        /\ pinned' \subseteq Bundles /\ excused' \subseteq Dirs /\ openings' \in 0 .. MaxOpenings
    BY <1>0, <1>2, <1>3, PartsOfTypes
  <2>3. /\ opener' \in [Openers -> Openings] /\ files' \in [Dirs -> SUBSET Files]
        /\ recent' \in Seq(Dirs) /\ IsInjective(recent')
    BY <1>1, <1>3, <1>4
  <2> QED
    BY <2>1, <2>2, <2>3, TypesFromParts
<1>7. OpeningsInv'
  <2>1. \A p \in Openers \ {o} : files'[p] = files[p] /\ (p \in excused => p \in excused')
    BY <1>2, <1>4 DEF Dirs
  <2> QED
    BY <1>0, <1>1, <2>1 DEF OpeningsInv, Staging
<1>8. AgeInv'
  BY <1>0, <1>1, <1>4, <1>5 DEF AgeInv, OpeningsInv, Staging
<1>9. MarkedInv'
  BY <1>0, <1>4, <1>5 DEF MarkedInv
<1>10. ReadInv'
  BY <1>0, <1>1, <1>5 DEF ReadInv, OpeningsInv
<1>11. PinInv'
  <2>1. \A b : Condemned(b)' => Condemned(b)
    BY <1>1 DEF Condemned
  <2> QED
    BY <1>0, <1>2, <1>5, <2>1, PartsOfTypes DEF PinInv
<1> QED
  BY <1>6, <1>7, <1>8, <1>9, <1>10, <1>11 DEF ExtractIInv

\* A bad member, or a full disk.
LEMMA ExtractFailsKeeps ==
    ASSUME ExtractIInv, NEW o \in Openers, ExtractFails(o)
    PROVE  ExtractIInv'
  BY FailsKeeps DEF ExtractFails, Staging

\* The marker goes in.
LEMMA MarksThere ==
    ASSUME ExtractIInv, NEW o \in Openers, Marks(o), o \in There
    PROVE  ExtractIInv'
<1>0. ExtractTypeOK /\ OpeningsInv /\ AgeInv /\ MarkedInv /\ ReadInv /\ PinInv
  BY DEF ExtractIInv
<1>1. /\ opener[o].at = "mark"
      /\ opener'[o].at = "rename" /\ opener'[o].bundle = opener[o].bundle
      /\ opener'[o].doomed = opener[o].doomed /\ opener'[o].todo = opener[o].todo
      /\ \A p \in Openers \ {o} : opener'[p] = opener[p]
      /\ opener' \in [Openers -> Openings]
  <2>1. opener' = [opener EXCEPT ![o].at = "rename"] /\ opener[o].at = "mark"
    BY DEF Marks
  <2>2. opener \in [Openers -> Openings] /\ opener[o] \in Openings
    BY <1>0, PartsOfTypes
  <2> QED
    BY <2>1, <2>2 DEF Openings
<1>2. /\ old' = old /\ queued' = queued /\ pinned' = pinned /\ openings' = openings /\ excused' = excused
  BY DEF Marks
<1>3. recent' \in Seq(Dirs) /\ IsInjective(recent') /\ There' = There \cup {o}
  BY <1>0, RecentLaws DEF Marks, There, Dirs
<1>4. /\ files[o] \subseteq files'[o] /\ files' \in [Dirs -> SUBSET Files]
      /\ \A d \in Dirs \ {o} : files'[d] = files[d]
      /\ \A b \in Bundles : files'[b] = files[b]
  <2>1. files' = [files EXCEPT ![o] = @ \cup {"marker"}]
    BY DEF Marks
  <2> QED
    BY <1>0, <2>1, PartsOfTypes, ExtractAssumption DEF Dirs, Files
<1>5. \A b \in Bundles : (Serves(b) => Serves(b)') /\ (UnderRemoval(b) => UnderRemoval(b)')
  BY <1>1, <1>2, <1>4 DEF Serves, Complete, UnderRemoval
<1>6. ExtractTypeOK'
  <2>1. \A d \in Dirs : files'[d] = {} \/ d \in There'
    BY <1>0, <1>3, <1>4, PartsOfTypes
  <2>2. /\ old' \subseteq There' /\ queued' \subseteq Bundles
        /\ pinned' \subseteq Bundles /\ excused' \subseteq Dirs /\ openings' \in 0 .. MaxOpenings
    BY <1>0, <1>2, <1>3, PartsOfTypes
  <2>3. /\ opener' \in [Openers -> Openings] /\ files' \in [Dirs -> SUBSET Files]
        /\ recent' \in Seq(Dirs) /\ IsInjective(recent')
    BY <1>1, <1>3, <1>4
  <2> QED
    BY <2>1, <2>2, <2>3, TypesFromParts
<1>7. OpeningsInv'
  <2>1. \A p \in Openers \ {o} : files'[p] = files[p]
    BY <1>4 DEF Dirs
  <2> QED
    BY <1>0, <1>1, <1>2, <1>4, <2>1 DEF OpeningsInv, Staging
<1>8. AgeInv'
  BY <1>0, <1>1, <1>2, <1>4 DEF AgeInv, OpeningsInv, Staging
<1>9. MarkedInv'
  BY <1>0, <1>2, <1>4, <1>5 DEF MarkedInv
<1>10. ReadInv'
  BY <1>0, <1>1, <1>5 DEF ReadInv, OpeningsInv
<1>11. PinInv'
  <2>1. \A b : Condemned(b)' => Condemned(b)
    BY <1>1 DEF Condemned
  <2> QED
    BY <1>0, <1>2, <1>5, <2>1, PartsOfTypes DEF PinInv
<1> QED
  BY <1>6, <1>7, <1>8, <1>9, <1>10, <1>11 DEF ExtractIInv

\* The marker goes in, or the directory has gone.
LEMMA MarksKeeps ==
    ASSUME ExtractIInv, NEW o \in Openers, Marks(o)
    PROVE  ExtractIInv'
<1>1. CASE o \in There
  BY <1>1, MarksThere
<1>2. CASE o \notin There
  <2>1. Staging(o) /\ Fails(o) /\ queued' = queued /\ pinned' = pinned /\ openings' = openings
    BY <1>2 DEF Marks, Staging
  <2> QED
    BY <2>1, FailsKeeps
<1> QED
  BY <1>1, <1>2

\* The rename takes its place.
LEMMA RenamesWonKeeps ==
    ASSUME ExtractIInv, NEW o \in Openers, NEW b, b = opener[o].bundle, Renames(o), o \in There,
           files[b] = {}
    PROVE  ExtractIInv'
<1>0. ExtractTypeOK /\ OpeningsInv /\ AgeInv /\ MarkedInv /\ ReadInv /\ PinInv
  BY DEF ExtractIInv
<1>1. /\ opener[o].at = "rename" /\ b \in Bundles /\ o \in There /\ files[b] = {}
      /\ opener'[o].at = "read" /\ opener'[o].bundle = opener[o].bundle
      /\ opener'[o].doomed = opener[o].doomed /\ opener'[o].todo = opener[o].todo
      /\ \A p \in Openers \ {o} : opener'[p] = opener[p]
      /\ opener' \in [Openers -> Openings]
  <2>1. opener' = [opener EXCEPT ![o].at = "read"] /\ opener[o].at = "rename" /\ o \in There /\ files[b] = {}
    BY DEF Renames
  <2>2. opener \in [Openers -> Openings] /\ opener[o] \in Openings /\ b \in Bundles
    BY <1>0, <2>1, PartsOfTypes DEF OpeningsInv
  <2> QED
    BY <2>1, <2>2 DEF Openings
<1>2. /\ old' = old \ {o, b} /\ queued' = queued /\ pinned' = pinned /\ openings' = openings
      /\ excused' = IF o \in excused THEN (excused \ {o}) \cup {b} ELSE excused \ {o, b}
  BY DEF Renames
<1>3. recent' \in Seq(Dirs) /\ IsInjective(recent') /\ There' = (There \ {o, b}) \cup {b}
  <2>1. recent' = Append(Without(recent, {o, b}), b) /\ b \in Dirs /\ b \in {o, b}
    BY <1>1 DEF Renames, Dirs
  <2> QED
    BY <1>0, <2>1, RecentLaws DEF There
<1>4. /\ files'[b] = files[o] /\ files'[o] = {} /\ b # o /\ files' \in [Dirs -> SUBSET Files]
      /\ \A d \in Dirs \ {o, b} : files'[d] = files[d]
      /\ \A d \in Bundles \ {b} : files'[d] = files[d] /\ d # o
  <2>1. files' = [files EXCEPT ![b] = files[o], ![o] = {}]
    BY <1>1 DEF Renames
  <2>2. o \in Dirs /\ b \in Dirs /\ o # b /\ \A d \in Bundles : d \in Dirs /\ d # o
    BY <1>1, ExtractAssumption DEF Dirs
  <2> QED
    BY <1>0, <2>1, <2>2, PartsOfTypes
<1>5. Serves(b)'
  <2>1. Contents \subseteq files[o] \/ o \in excused
    BY <1>0, <1>1 DEF OpeningsInv, Staging
  <2> QED
    BY <1>2, <1>4, <2>1 DEF Serves, Complete
<1>6. \A d \in Bundles : (Serves(d) => Serves(d)') /\ (UnderRemoval(d) => UnderRemoval(d)')
  <2>1. \A d \in Bundles : UnderRemoval(d) => UnderRemoval(d)'
    BY <1>1 DEF UnderRemoval
  <2>2. \A d \in Bundles \ {b} : Serves(d) => Serves(d)'
    BY <1>2, <1>4 DEF Serves, Complete
  <2> QED
    BY <1>5, <2>1, <2>2
<1>7. ExtractTypeOK'
  <2>1. \A d \in Dirs : files'[d] = {} \/ d \in There'
    BY <1>0, <1>3, <1>4, PartsOfTypes
  <2>2. /\ old' \subseteq There' /\ queued' \subseteq Bundles
        /\ pinned' \subseteq Bundles /\ excused' \subseteq Dirs /\ openings' \in 0 .. MaxOpenings
    BY <1>0, <1>1, <1>2, <1>3, PartsOfTypes DEF Dirs
  <2>3. /\ opener' \in [Openers -> Openings] /\ files' \in [Dirs -> SUBSET Files]
        /\ recent' \in Seq(Dirs) /\ IsInjective(recent')
    BY <1>1, <1>3, <1>4
  <2> QED
    BY <2>1, <2>2, <2>3, TypesFromParts
<1>8. OpeningsInv'
  <2>1. \A p \in Openers \ {o} : p \in Dirs \ {o, b}
    BY <1>1, ExtractAssumption DEF Dirs
  <2>2. \A p \in Openers \ {o} : files'[p] = files[p] /\ (p \in excused => p \in excused')
    BY <1>2, <1>4, <2>1
  <2> QED
    BY <1>0, <1>1, <2>2 DEF OpeningsInv, Staging
<1>9. AgeInv'
  <2>1. \A d \in Bundles : "marker" \in files'[d] => d = b \/ "marker" \in files[d]
    BY <1>4
  <2>2. \A p \in Openers \ {o} : Staging(p)' => Staging(p) /\ opener[p].bundle \in Bundles
    BY <1>0, <1>1 DEF Staging, OpeningsInv
  <2>3. old' \subseteq old /\ b \notin old' /\ old' \subseteq Bundles /\ ~Staging(o)'
    BY <1>0, <1>1, <1>2 DEF AgeInv, Staging
  <2> QED
    BY <1>0, <1>1, <2>1, <2>2, <2>3 DEF AgeInv
<1>10. MarkedInv'
  <2> SUFFICES ASSUME NEW d \in Bundles, "marker" \in files'[d]
               PROVE  Serves(d)' \/ (UnderRemoval(d)' /\ d \in old')
    BY DEF MarkedInv
  <2>1. CASE d = b
    BY <1>5, <2>1
  <2>2. CASE d # b
    BY <1>0, <1>2, <1>4, <1>6, <2>2 DEF MarkedInv
  <2> QED
    BY <2>1, <2>2
<1>11. ReadInv'
  BY <1>0, <1>1, <1>5, <1>6 DEF ReadInv, OpeningsInv
<1>12. PinInv'
  <2>1. \A d : Condemned(d)' => Condemned(d)
    BY <1>1 DEF Condemned
  <2> QED
    BY <1>0, <1>2, <1>6, <2>1, PartsOfTypes DEF PinInv
<1> QED
  BY <1>7, <1>8, <1>9, <1>10, <1>11, <1>12 DEF ExtractIInv

\* Another open won: its directory serves.
LEMMA RenamesLostKeeps ==
    ASSUME ExtractIInv, NEW o \in Openers, NEW b, b = opener[o].bundle, Renames(o),
           ~(o \in There /\ files[b] = {}), "marker" \in files[b]
    PROVE  ExtractIInv'
<1>0. ExtractTypeOK /\ OpeningsInv /\ AgeInv /\ MarkedInv /\ ReadInv /\ PinInv
  BY DEF ExtractIInv
<1>1. /\ opener[o].at = "rename" /\ b \in Bundles /\ "marker" \in files[b]
      /\ opener'[o].at = "read" /\ opener'[o].bundle = opener[o].bundle
      /\ opener'[o].doomed = opener[o].doomed /\ opener'[o].todo = opener[o].todo
      /\ \A p \in Openers \ {o} : opener'[p] = opener[p]
      /\ opener' \in [Openers -> Openings]
  <2>1. opener' = [opener EXCEPT ![o].at = "read"] /\ opener[o].at = "rename"
    BY DEF Renames
  <2>2. opener \in [Openers -> Openings] /\ opener[o] \in Openings /\ b \in Bundles
    BY <1>0, <2>1, PartsOfTypes DEF OpeningsInv
  <2> QED
    BY <2>1, <2>2 DEF Openings
<1>2. old' = old \ {o} /\ queued' = queued /\ pinned' = pinned /\ openings' = openings /\ excused' = excused \ {o}
  BY DEF Renames
<1>3. recent' \in Seq(Dirs) /\ IsInjective(recent') /\ There' = There \ {o}
  <2>1. recent' = Without(recent, {o})
    BY <1>1 DEF Renames
  <2> QED
    BY <1>0, <2>1, RecentLaws DEF There
<1>4. /\ files'[o] = {} /\ files' \in [Dirs -> SUBSET Files]
      /\ \A d \in Dirs \ {o} : files'[d] = files[d]
      /\ \A d \in Bundles : files'[d] = files[d] /\ d # o
  <2>1. files' = [files EXCEPT ![o] = {}]
    BY <1>1 DEF Renames
  <2>2. o \in Dirs /\ \A d \in Bundles : d \in Dirs /\ d # o
    BY ExtractAssumption DEF Dirs
  <2> QED
    BY <1>0, <2>1, <2>2, PartsOfTypes
<1>5. old' = old /\ \A d \in Bundles : (Serves(d) => Serves(d)') /\ (UnderRemoval(d) => UnderRemoval(d)')
  BY <1>0, <1>1, <1>2, <1>4, ExtractAssumption DEF Serves, Complete, UnderRemoval, AgeInv
<1>6. b \notin old /\ Serves(b)'
  BY <1>0, <1>1, <1>5 DEF AgeInv, Staging, MarkedInv
<1>7. ExtractTypeOK'
  <2>1. \A d \in Dirs : files'[d] = {} \/ d \in There'
    BY <1>0, <1>3, <1>4, PartsOfTypes
  <2>2. /\ old' \subseteq There' /\ queued' \subseteq Bundles
        /\ pinned' \subseteq Bundles /\ excused' \subseteq Dirs /\ openings' \in 0 .. MaxOpenings
    BY <1>0, <1>2, <1>3, PartsOfTypes
  <2>3. /\ opener' \in [Openers -> Openings] /\ files' \in [Dirs -> SUBSET Files]
        /\ recent' \in Seq(Dirs) /\ IsInjective(recent')
    BY <1>1, <1>3, <1>4
  <2> QED
    BY <2>1, <2>2, <2>3, TypesFromParts
<1>8. OpeningsInv'
  <2>1. \A p \in Openers \ {o} : files'[p] = files[p] /\ (p \in excused => p \in excused')
    BY <1>2, <1>4 DEF Dirs
  <2> QED
    BY <1>0, <1>1, <2>1 DEF OpeningsInv, Staging
<1>9. AgeInv'
  BY <1>0, <1>1, <1>4, <1>5, <1>6 DEF AgeInv, OpeningsInv, Staging
<1>10. MarkedInv'
  BY <1>0, <1>4, <1>5 DEF MarkedInv
<1>11. ReadInv'
  BY <1>0, <1>1, <1>5, <1>6 DEF ReadInv, OpeningsInv
<1>12. PinInv'
  <2>1. \A d : Condemned(d)' => Condemned(d)
    BY <1>1 DEF Condemned
  <2> QED
    BY <1>0, <1>2, <1>5, <2>1, PartsOfTypes DEF PinInv
<1> QED
  BY <1>7, <1>8, <1>9, <1>10, <1>11, <1>12 DEF ExtractIInv

\* The rename takes its place, finds another open's, or fails.
LEMMA RenamesKeeps ==
    ASSUME ExtractIInv, NEW o \in Openers, Renames(o)
    PROVE  ExtractIInv'
<1> DEFINE b == opener[o].bundle
<1>1. CASE o \in There /\ files[b] = {}
  BY <1>1, RenamesWonKeeps
<1>2. CASE ~(o \in There /\ files[b] = {}) /\ "marker" \in files[b]
  BY <1>2, RenamesLostKeeps
<1>3. CASE ~(o \in There /\ files[b] = {}) /\ "marker" \notin files[b]
  <2>1. Staging(o) /\ Fails(o) /\ queued' = queued /\ pinned' = pinned /\ openings' = openings
    BY <1>3 DEF Renames, Staging
  <2> QED
    BY <2>1, FailsKeeps
<1> QED
  BY <1>1, <1>2, <1>3

\* A lazy read.
LEMMA ReadsKeeps ==
    ASSUME ExtractIInv, NEW o \in Openers, Reads(o)
    PROVE  ExtractIInv'
<1>0. ExtractTypeOK /\ OpeningsInv /\ AgeInv /\ MarkedInv /\ ReadInv /\ PinInv
  BY DEF ExtractIInv
<1>1. /\ opener'[o].at = opener[o].at /\ opener'[o].bundle = opener[o].bundle
      /\ opener'[o].doomed = opener[o].doomed /\ opener'[o].todo = opener[o].todo
      /\ \A p \in Openers \ {o} : opener'[p] = opener[p]
      /\ opener' \in [Openers -> Openings]
  <2>1. opener' = [opener EXCEPT ![o].broken = ~Complete(opener[o].bundle)]
    BY DEF Reads
  <2>2. opener \in [Openers -> Openings] /\ opener[o] \in Openings /\ (~Complete(opener[o].bundle)) \in BOOLEAN
    BY <1>0, PartsOfTypes
  <2> QED
    BY <2>1, <2>2 DEF Openings
<1>2. /\ files' = files /\ recent' = recent /\ There' = There /\ old' = old
      /\ queued' = queued /\ pinned' = pinned /\ excused' = excused /\ openings' = openings
  BY DEF Reads, There
<1>3. ExtractTypeOK'
  BY <1>0, PartsOfTypes, TypesFromParts, <1>1, <1>2
<1>4. OpeningsInv'
  BY <1>0, <1>1, <1>2 DEF OpeningsInv, Staging
<1>5. AgeInv'
  BY <1>0, <1>1, <1>2 DEF AgeInv, OpeningsInv, Staging
<1>6. MarkedInv'
  BY <1>0, <1>1, <1>2 DEF MarkedInv, AgeInv, Serves, Complete, UnderRemoval
<1>7. ReadInv'
  BY <1>0, <1>1, <1>2 DEF ReadInv, OpeningsInv, Serves, Complete
<1>8. PinInv'
  BY <1>0, <1>1, <1>2 DEF PinInv, Serves, Complete, Condemned
<1> QED
  BY <1>3, <1>4, <1>5, <1>6, <1>7, <1>8 DEF ExtractIInv

\* What touches no directory, no call and no removal, and releases pins only.
LEMMA NothingTouchedKeeps ==
    ASSUME ExtractIInv, files' = files, recent' = recent, old' = old, opener' = opener,
           excused' = excused, openings' = openings, pinned' \subseteq pinned,
           queued' \subseteq Bundles
    PROVE  ExtractIInv'
<1>0. ExtractTypeOK /\ OpeningsInv /\ AgeInv /\ MarkedInv /\ ReadInv /\ PinInv
  BY DEF ExtractIInv
<1>1. ExtractTypeOK'
  BY <1>0 DEF ExtractTypeOK, There
<1>2. OpeningsInv'
  BY <1>0 DEF OpeningsInv, Staging
<1>3. AgeInv'
  BY <1>0 DEF AgeInv, Staging
<1>4. MarkedInv'
  BY <1>0 DEF MarkedInv, Serves, Complete, UnderRemoval
<1>5. ReadInv'
  BY <1>0 DEF ReadInv, Serves, Complete
<1>6. PinInv'
  BY <1>0 DEF PinInv, Serves, Complete, Condemned
<1> QED
  BY <1>1, <1>2, <1>3, <1>4, <1>5, <1>6 DEF ExtractIInv

\* An open's Dataset is to be written to a cube.
LEMMA QueuesKeeps ==
    ASSUME ExtractIInv, NEW o \in Openers, Queues(o)
    PROVE  ExtractIInv'
<1>1. ExtractTypeOK /\ OpeningsInv /\ AgeInv /\ MarkedInv /\ ReadInv /\ PinInv
  BY DEF ExtractIInv
<1>2. opener[o].bundle \in Bundles
  BY <1>1 DEF Queues, OpeningsInv
<1>3. /\ files' = files /\ recent' = recent /\ old' = old /\ opener' = opener
      /\ excused' = excused /\ openings' = openings /\ pinned' = pinned
      /\ queued' = queued \cup {opener[o].bundle}
  BY DEF Queues
<1> QED
  BY <1>1, <1>2, <1>3, NothingTouchedKeeps DEF ExtractTypeOK

\* A call ends.
LEMMA ClosesKeeps ==
    ASSUME ExtractIInv, NEW o \in Openers, Closes(o)
    PROVE  ExtractIInv'
<1>0. ExtractTypeOK /\ OpeningsInv /\ AgeInv /\ MarkedInv /\ ReadInv /\ PinInv
  BY DEF ExtractIInv
<1>1. /\ opener[o].at = "read"
      /\ opener'[o] = Unused /\ Unused.at = "free" /\ Unused.doomed = <<>>
      /\ \A p \in Openers \ {o} : opener'[p] = opener[p]
      /\ opener' \in [Openers -> Openings]
  <2>1. opener' = [opener EXCEPT ![o] = Unused] /\ Unused \in Openings /\ opener[o].at = "read"
    BY DEF Closes, Unused, Openings
  <2> QED
    BY <1>0, <2>1, PartsOfTypes DEF Unused
<1>2. /\ files' = files /\ recent' = recent /\ There' = There /\ old' = old /\ openings' = openings
      /\ excused' = excused /\ pinned' = pinned /\ queued' = queued
  BY DEF Closes, There
<1>3. \A d \in Bundles : (Serves(d) => Serves(d)') /\ (UnderRemoval(d) => UnderRemoval(d)')
  BY <1>1, <1>2 DEF Serves, Complete, UnderRemoval
<1>4. ExtractTypeOK'
  BY <1>0, <1>1, <1>2, PartsOfTypes, TypesFromParts
<1>5. OpeningsInv'
  BY <1>0, <1>1, <1>2 DEF OpeningsInv, Staging
<1>6. AgeInv'
  BY <1>0, <1>1, <1>2 DEF AgeInv, OpeningsInv, Staging
<1>7. MarkedInv'
  BY <1>0, <1>2, <1>3 DEF MarkedInv
<1>8. ReadInv'
  BY <1>0, <1>1, <1>3 DEF ReadInv, OpeningsInv
<1>9. PinInv'
  <2>1. \A d : Condemned(d)' => Condemned(d)
    BY <1>1 DEF Condemned
  <2> QED
    BY <1>0, <1>2, <1>3, <2>1, PartsOfTypes DEF PinInv
<1> QED
  BY <1>4, <1>5, <1>6, <1>7, <1>8, <1>9 DEF ExtractIInv

\* A cube write begins.
LEMMA PinsKeeps ==
    ASSUME ExtractIInv, NEW b \in Bundles, Pins(b)
    PROVE  ExtractIInv'
<1>0. ExtractTypeOK /\ OpeningsInv /\ AgeInv /\ MarkedInv /\ ReadInv /\ PinInv
  BY DEF ExtractIInv
<1>1. /\ files' = files /\ recent' = recent /\ old' = old /\ opener' = opener
      /\ openings' = openings /\ pinned' = {b} /\ queued' = queued \ {b}
      /\ excused \subseteq excused' /\ excused' \subseteq excused \cup {b}
      /\ Condemned(b) \/ ~Complete(b) => b \in excused'
  BY DEF Pins
<1>2. ExtractTypeOK'
  <2>1. excused' \subseteq Dirs
    BY <1>0, <1>1, PartsOfTypes DEF Dirs
  <2> QED
    BY <1>0, <1>1, <2>1 DEF ExtractTypeOK, There
<1>3. OpeningsInv'
  BY <1>0, <1>1 DEF OpeningsInv, Staging
<1>4. AgeInv'
  BY <1>0, <1>1 DEF AgeInv, Staging
<1>5. MarkedInv'
  BY <1>0, <1>1 DEF MarkedInv, Serves, Complete, UnderRemoval
<1>6. ReadInv'
  BY <1>0, <1>1 DEF ReadInv, Serves, Complete
<1>7. PinInv'
  BY <1>1 DEF PinInv, Serves, Complete, Condemned
<1> QED
  BY <1>2, <1>3, <1>4, <1>5, <1>6, <1>7 DEF ExtractIInv

\* A cube write is given up.
LEMMA AbandonsKeeps ==
    ASSUME ExtractIInv, NEW b \in Bundles, Abandons(b)
    PROVE  ExtractIInv'
<1>1. ExtractTypeOK
  BY DEF ExtractIInv
<1>2. /\ files' = files /\ recent' = recent /\ old' = old /\ opener' = opener
      /\ excused' = excused /\ openings' = openings /\ pinned' = pinned
      /\ queued' = queued \ {b}
  BY DEF Abandons
<1> QED
  BY <1>1, <1>2, NothingTouchedKeeps DEF ExtractTypeOK

\* A cube write lets go.
LEMMA UnpinsKeeps ==
    ASSUME ExtractIInv, NEW b \in Bundles, Unpins(b)
    PROVE  ExtractIInv'
<1>1. ExtractTypeOK
  BY DEF ExtractIInv
<1>2. /\ files' = files /\ recent' = recent /\ old' = old /\ opener' = opener
      /\ excused' = excused /\ openings' = openings /\ pinned' \subseteq pinned
      /\ queued' = queued
  BY DEF Unpins
<1> QED
  BY <1>1, <1>2, NothingTouchedKeeps DEF ExtractTypeOK

\* A time to live passes.
LEMMA PassesKeeps ==
    ASSUME ExtractIInv, NEW d \in Dirs, Passes(d)
    PROVE  ExtractIInv'
<1>0. ExtractTypeOK /\ OpeningsInv /\ AgeInv /\ MarkedInv /\ ReadInv /\ PinInv
  BY DEF ExtractIInv
<1>1. /\ files' = files /\ recent' = recent /\ opener' = opener /\ pinned' = pinned
      /\ queued' = queued /\ excused' = excused /\ openings' = openings /\ old' = old \cup {d} /\ d \in There
      /\ ~Condemned(d) /\ \A o \in Openers : o # d /\ opener[o].bundle # d
  BY DEF Passes
<1>2. ExtractTypeOK'
  BY <1>0, <1>1 DEF ExtractTypeOK, There
<1>3. OpeningsInv'
  BY <1>0, <1>1 DEF OpeningsInv, Staging
<1>4. AgeInv'
  BY <1>0, <1>1 DEF AgeInv, Staging, Dirs
<1>5. MarkedInv'
  BY <1>0, <1>1 DEF MarkedInv, Serves, Complete, UnderRemoval
<1>6. ReadInv'
  BY <1>0, <1>1 DEF ReadInv, Serves, Complete
<1>7. PinInv'
  BY <1>0, <1>1 DEF PinInv, Serves, Complete, Condemned
<1> QED
  BY <1>2, <1>3, <1>4, <1>5, <1>6, <1>7 DEF ExtractIInv

\* At the start nothing is there.
LEMMA ExtractInitKeeps == ExtractInit => ExtractIInv
<1> SUFFICES ASSUME ExtractInit PROVE ExtractIInv
  OBVIOUS
<1>1. ExtractTypeOK
  BY ExtractAssumption DEF ExtractInit, ExtractTypeOK, Openings, Unused, There, ToSet, IsInjective
<1>2. /\ \A o \in Openers : opener[o].at = "free" /\ opener[o].doomed = <<>>
      /\ old = {} /\ pinned = {} /\ \A d \in Dirs : files[d] = {}
  BY DEF ExtractInit, Unused
<1>3. OpeningsInv
  BY <1>2 DEF OpeningsInv, Staging
<1>4. AgeInv
  BY <1>2 DEF AgeInv, Staging
<1>5. MarkedInv
  BY <1>2 DEF MarkedInv, Dirs
<1>6. ReadInv /\ PinInv
  BY <1>2 DEF ReadInv, PinInv
<1> QED
  BY <1>1, <1>3, <1>4, <1>5, <1>6 DEF ExtractIInv

LEMMA ExtractStepKeeps == ExtractIInv /\ [ExtractNext]_extractVars => ExtractIInv'
<1> SUFFICES ASSUME ExtractIInv, [ExtractNext]_extractVars PROVE ExtractIInv'
  OBVIOUS
<1>1. CASE ExtractNext
  BY <1>1, OpenBeginsKeeps, RemovesKeeps, PruneEndsKeeps, AdoptsKeeps, StagesKeeps, ExtractsKeeps,
     ExtractFailsKeeps, MarksKeeps, RenamesKeeps, ReadsKeeps, QueuesKeeps, ClosesKeeps, PinsKeeps,
     AbandonsKeeps, UnpinsKeeps, PassesKeeps
     DEF ExtractNext
<1>2. CASE UNCHANGED extractVars
  BY <1>2 DEF extractVars, ExtractIInv, ExtractTypeOK, There, OpeningsInv, Staging, AgeInv,
     MarkedInv, Serves, Complete, UnderRemoval, ReadInv, PinInv, Condemned
<1> QED
  BY <1>1, <1>2

\* For any number of openers, bundles and files and any cap.
THEOREM ExtractInvariant == ExtractSpec => []ExtractIInv
  BY ExtractInitKeeps, ExtractStepKeeps, PTL DEF ExtractSpec

\* A marked directory is whole, and a reader or a cube write that holds a
\* bundle finds all its members, but for removals that are named
\* (_extract_bundle_cached).
THEOREM ExtractsStayWhole == ExtractSpec => []ExtractsAreWhole
<1>1. ExtractIInv => ExtractsAreWhole
  BY DEF ExtractIInv, ExtractsAreWhole, MarkedMeansWhole, ReadersKeepMembers, PinsHold,
     MarkedInv, ReadInv, PinInv, Serves
<1> QED
  BY <1>1, ExtractInvariant, PTL

-----------------------------------------------------------------------------
(* The frame store. *)

KeyAt(c, j) == <<c, Planes[j]>>
Working(c) == writes[c].at \in {"idle", "scan", "evict"}

\* What a chart has yet to write is not on disk, and what landed is its own.
FreshInv ==
    \A c \in Charts :
        /\ writes[c].at = "idle" => writes[c].landed = {}
        /\ Working(c) => \A j \in 1 .. Len(Planes) : j >= writes[c].plane => KeyAt(c, j) \notin OnDisk
        /\ \A k \in writes[c].landed : \E j \in 1 .. Len(Planes) :
              k = KeyAt(c, j) /\ (writes[c].at = "done" \/ j < writes[c].plane)

\* A chart that nothing overlapped is alone, and its planes are as it wrote them.
CleanInv ==
    \A c \in clean : /\ Others(c) = {}
                     /\ \A k \in writes[c].landed : manifest[k] = version /\ blob[k] = "whole"

ReadersInv ==
    \A r \in Readers : /\ reader[r].at = "opened" => reader[r].key \in EntryKeys
                       /\ reader[r].got \in {"none", "whole"}

\* A reading counts what it lists, and each entry once.
QueueInv ==
    \A c \in Charts : writes[c].at = "evict" =>
        IsInjective(writes[c].queue) /\ Len(writes[c].queue) <= writes[c].total

FrameBase == FrameTypeOK /\ QueueInv /\ FreshInv /\ CleanInv /\ ReadersInv /\ SweptClean

DiskOK ==
    /\ blob \in [EntryKeys -> {"none", "whole", "torn"}]
    /\ manifest \in [EntryKeys -> 0 .. MaxPipeline]
    /\ ages \in Seq(EntryKeys) /\ IsInjective(ages) /\ ToSet(ages) = OnDisk

LEMMA FrameConstants ==
    /\ Len(Planes) \in Nat /\ 1 \in 1 .. Len(Planes) /\ MaxPipeline \in Nat /\ Limit \in Nat
    /\ IsFiniteSet(EntryKeys) /\ IsFiniteSet(Charts)
    /\ \A c \in Charts : \A j \in 1 .. Len(Planes) : KeyAt(c, j) \in EntryKeys
    /\ \A c, d \in Charts : \A i, j \in 1 .. Len(Planes) :
          KeyAt(c, i) = KeyAt(d, j) => c = d /\ i = j
<1>1. /\ Planes \in Seq(ToSet(Planes)) /\ Planes # <<>> /\ IsInjective(Planes)
      /\ IsFiniteSet(Charts) /\ MaxPipeline \in Nat /\ Limit \in Nat
  BY FrameAssumption
<1>2. /\ Len(Planes) \in Nat /\ Len(Planes) # 0 /\ DOMAIN Planes = 1 .. Len(Planes)
      /\ \A j \in 1 .. Len(Planes) : Planes[j] \in ToSet(Planes)
  BY <1>1
<1>3. \A i, j \in 1 .. Len(Planes) : Planes[i] = Planes[j] => i = j
  BY <1>1, <1>2 DEF IsInjective
<1>4. IsFiniteSet(ToSet(Planes))
  <2> DEFINE n == Len(Planes)
             T == ToSet(Planes)
  <2>1. Planes \in Surjection(1 .. n, T)
    BY <1>1, <1>2 DEF Surjection, ToSet
  <2>2. IsFiniteSet(1 .. n)
    BY <1>2, FS_Interval
  <2> HIDE DEF n, T
  <2>3. IsFiniteSet(T)
    BY <2>1, <2>2, FS_Surjection
  <2> QED
    BY <2>3 DEF T
<1>5. IsFiniteSet(EntryKeys)
  BY <1>1, <1>4, FS_Product DEF EntryKeys
<1>6. \A c \in Charts : \A j \in 1 .. Len(Planes) : KeyAt(c, j) \in EntryKeys
  BY <1>2 DEF KeyAt, EntryKeys
<1>7. \A c, d \in Charts : \A i, j \in 1 .. Len(Planes) :
         KeyAt(c, i) = KeyAt(d, j) => c = d /\ i = j
  BY <1>3 DEF KeyAt
<1> QED
  BY <1>1, <1>2, <1>5, <1>6, <1>7

LEMMA FrameTypesFromParts ==
    ASSUME DiskOK', staging' \subseteq EntryKeys, unsynced' \subseteq EntryKeys,
           writes' \in [Charts -> Writes],
           reader' \in [Readers -> [at : {"idle", "opened", "over"}, key : EntryKeys \cup {<<>>},
                                    got : {"none", "whole", "torn"}]],
           clean' \subseteq Charts, version' \in 1 .. MaxPipeline, crashes' \in 0 .. MaxCrashes
    PROVE  FrameTypeOK'
  BY DEF FrameTypeOK, DiskOK

LEMMA FramePartsOfTypes ==
    ASSUME FrameTypeOK
    PROVE  /\ DiskOK /\ staging \subseteq EntryKeys /\ unsynced \subseteq EntryKeys
           /\ writes \in [Charts -> Writes]
           /\ reader \in [Readers -> [at : {"idle", "opened", "over"}, key : EntryKeys \cup {<<>>},
                                    got : {"none", "whole", "torn"}]]
           /\ clean \subseteq Charts /\ version \in 1 .. MaxPipeline /\ crashes \in 0 .. MaxCrashes
           /\ Entries \subseteq OnDisk /\ OnDisk \subseteq EntryKeys
           /\ \A c \in Charts : writes[c] \in Writes
           /\ \A c \in Charts : writes[c].plane \in 1 .. Len(Planes)
  BY DEF FrameTypeOK, DiskOK, Entries, OnDisk, Writes

\* Removing entries takes them, and nothing else, from the disk.
LEMMA RemovedLaws ==
    ASSUME FrameTypeOK, NEW K, Removed(K)
    PROVE  /\ DiskOK' /\ OnDisk' = OnDisk \ K /\ Entries' = Entries \ K
           /\ \A k \in EntryKeys : k \notin K => blob'[k] = blob[k] /\ manifest'[k] = manifest[k]
<1>1. DiskOK /\ MaxPipeline \in Nat
  BY FramePartsOfTypes, FrameConstants
<1>2. /\ blob' = [k \in EntryKeys |-> IF k \in K THEN "none" ELSE blob[k]]
      /\ manifest' = [k \in EntryKeys |-> IF k \in K THEN 0 ELSE manifest[k]]
      /\ ages' = Without(ages, K)
  BY DEF Removed
<1>3. /\ \A k \in EntryKeys : k \notin K => blob'[k] = blob[k] /\ manifest'[k] = manifest[k]
      /\ \A k \in EntryKeys : k \in K => blob'[k] = "none" /\ manifest'[k] = 0
      /\ blob' \in [EntryKeys -> {"none", "whole", "torn"}]
      /\ manifest' \in [EntryKeys -> 0 .. MaxPipeline]
  BY <1>1, <1>2 DEF DiskOK
<1>4. OnDisk' = OnDisk \ K
  BY <1>3 DEF OnDisk
<1>5. Entries' = Entries \ K
  BY <1>3 DEF Entries
<1>6. ages' \in Seq(EntryKeys) /\ IsInjective(ages') /\ ToSet(ages') = OnDisk \ K
  BY <1>1, <1>2, WithoutProperties DEF DiskOK
<1> QED
  BY <1>3, <1>4, <1>5, <1>6 DEF DiskOK

-----------------------------------------------------------------------------
(* A chart begins to store, scans, evicts, lands a plane or loses one. *)

LEMMA StoreBeginsKeeps ==
    ASSUME FrameBase, NEW c \in Charts, StoreBegins(c)
    PROVE  FrameBase'
<1>0. FrameTypeOK /\ QueueInv /\ FreshInv /\ CleanInv /\ ReadersInv /\ SweptClean
  BY DEF FrameBase
<1>1. /\ writes[c].at = "idle" /\ writes' \in [Charts -> Writes]
      /\ writes'[c].at = "scan" /\ writes'[c].plane = writes[c].plane
      /\ writes'[c].landed = writes[c].landed
      /\ \A d \in Charts \ {c} : writes'[d] = writes[d]
  BY <1>0, FramePartsOfTypes DEF StoreBegins, Writes
<1>2. /\ blob' = blob /\ manifest' = manifest /\ ages' = ages /\ staging' = staging
      /\ unsynced' = unsynced /\ reader' = reader /\ version' = version /\ crashes' = crashes
      /\ OnDisk' = OnDisk
  BY DEF StoreBegins, diskVars, OnDisk
<1>3. /\ clean' \subseteq {c} /\ (c \in clean' => Others(c) = {})
  BY <1>0, FramePartsOfTypes DEF StoreBegins
<1>4. DiskOK'
  BY <1>0, FramePartsOfTypes, <1>2 DEF DiskOK
<1>5. FrameTypeOK'
  BY <1>0, FramePartsOfTypes, FrameTypesFromParts, <1>1, <1>2, <1>3, <1>4
<1>6. FreshInv'
  BY <1>0, <1>1, <1>2 DEF FreshInv, Working
<1>7. CleanInv'
  <2>1. c \in clean' => Others(c)' = {}
    BY <1>1, <1>3 DEF Others
  <2>2. writes[c].landed = {}
    BY <1>0, <1>1 DEF FreshInv
  <2> QED
    BY <1>1, <1>3, <2>1, <2>2 DEF CleanInv
<1>8. ReadersInv' /\ SweptClean'
  BY <1>0, <1>2 DEF ReadersInv, SweptClean
<1>9. QueueInv'
  BY <1>0, <1>1 DEF QueueInv
<1> QED
  BY <1>5, <1>6, <1>7, <1>8, <1>9 DEF FrameBase

LEMMA ScansKeeps ==
    ASSUME FrameBase, NEW c \in Charts, Scans(c)
    PROVE  FrameBase'
<1>0. FrameTypeOK /\ QueueInv /\ FreshInv /\ CleanInv /\ ReadersInv /\ SweptClean
  BY DEF FrameBase
<1> DEFINE q == Within(ages, Entries)
           n == Cardinality(Entries)
<1>a. q \in Seq(EntryKeys) /\ n \in Nat /\ IsInjective(q) /\ Len(q) <= n
  <2>1. /\ ages \in Seq(EntryKeys) /\ IsInjective(ages) /\ Entries \in SUBSET EntryKeys
        /\ ToSet(ages) \cap Entries = Entries
    BY <1>0, FramePartsOfTypes DEF DiskOK
  <2>2. q \in Seq(EntryKeys) /\ IsInjective(q) /\ ToSet(q) = Entries
    BY <2>1, WithinProperties
  <2> HIDE DEF q
  <2>3. n \in Nat
    BY <2>1, FrameConstants, FS_Subset, FS_CardinalityType
  <2> QED
    BY <2>2, <2>3, FrameConstants, InjectiveLength
<1>b. /\ writes[c].at = "scan"
      /\ writes' = [writes EXCEPT ![c] = [@ EXCEPT !.at = "evict", !.total = n, !.queue = q]]
  BY DEF Scans
<1> HIDE DEF q, n
<1>1. /\ writes' \in [Charts -> Writes]
      /\ writes'[c].at = "evict" /\ writes'[c].plane = writes[c].plane
      /\ writes'[c].landed = writes[c].landed
      /\ writes'[c].queue = q /\ writes'[c].total = n
      /\ \A d \in Charts \ {c} : writes'[d] = writes[d]
  BY <1>0, <1>a, <1>b, FramePartsOfTypes DEF Writes
<1>2. /\ blob' = blob /\ manifest' = manifest /\ ages' = ages /\ staging' = staging
      /\ unsynced' = unsynced /\ reader' = reader /\ version' = version /\ crashes' = crashes
      /\ OnDisk' = OnDisk /\ clean' = clean
  BY DEF Scans, diskVars, OnDisk
<1>4. DiskOK'
  BY <1>0, FramePartsOfTypes, <1>2 DEF DiskOK
<1>5. FrameTypeOK'
  BY <1>0, FramePartsOfTypes, FrameTypesFromParts, <1>1, <1>2, <1>4
<1>6. FreshInv'
  BY <1>0, <1>1, <1>2, <1>b DEF FreshInv, Working
<1>7. CleanInv'
  <2>1. \A d \in Charts : Others(d)' = Others(d)
    BY <1>1, <1>b DEF Others
  <2> QED
    BY <1>0, <1>1, <1>2, <2>1, FramePartsOfTypes DEF CleanInv
<1>8. ReadersInv' /\ SweptClean'
  BY <1>0, <1>2 DEF ReadersInv, SweptClean
<1>9. QueueInv'
  BY <1>0, <1>a, <1>1 DEF QueueInv
<1> QED
  BY <1>5, <1>6, <1>7, <1>8, <1>9 DEF FrameBase

\* What an eviction does to the chart's write, spared or not.
LEMMA EvictsOneWrites ==
    ASSUME FrameBase, NEW c \in Charts, EvictsOne(c)
    PROVE  /\ writes[c].at = "evict" /\ writes[c].queue # <<>> /\ writes[c].total + 1 > Limit
           /\ writes' \in [Charts -> Writes]
           /\ writes'[c].at = "evict" /\ writes'[c].plane = writes[c].plane
           /\ writes'[c].landed = writes[c].landed
           /\ writes'[c].queue = Tail(writes[c].queue)
           /\ \A d \in Charts \ {c} : writes'[d] = writes[d]
           /\ \/ /\ Head(writes[c].queue) \in writes[c].landed /\ UNCHANGED diskVars
                 /\ writes'[c].total = writes[c].total
              \/ /\ Head(writes[c].queue) \notin writes[c].landed
                 /\ Removed({Head(writes[c].queue)})
                 /\ writes'[c].total = writes[c].total - 1
           /\ staging' = staging /\ unsynced' = unsynced /\ reader' = reader
           /\ version' = version /\ crashes' = crashes /\ clean' = clean
<1>1. writes \in [Charts -> Writes] /\ writes[c] \in Writes /\ Limit \in Nat
  BY FramePartsOfTypes, FrameConstants DEF FrameBase
<1> DEFINE k == Head(writes[c].queue)
           t == Tail(writes[c].queue)
<1>2. writes[c].at = "evict" /\ writes[c].queue # <<>> /\ writes[c].total + 1 > Limit
  BY DEF EvictsOne
<1>3. t \in Seq(EntryKeys)
  BY <1>1, <1>2 DEF Writes
<1>4. /\ staging' = staging /\ unsynced' = unsynced /\ reader' = reader
      /\ version' = version /\ crashes' = crashes /\ clean' = clean
  BY DEF EvictsOne
<1>5. CASE Spared(c, k)
  <2>1. writes' = [writes EXCEPT ![c].queue = t] /\ UNCHANGED diskVars
    BY <1>5 DEF EvictsOne
  <2> HIDE DEF t
  <2>2. /\ writes' \in [Charts -> Writes]
        /\ writes'[c].at = "evict" /\ writes'[c].plane = writes[c].plane
        /\ writes'[c].landed = writes[c].landed /\ writes'[c].queue = t
        /\ writes'[c].total = writes[c].total
        /\ \A d \in Charts \ {c} : writes'[d] = writes[d]
    BY <1>1, <1>2, <1>3, <2>1 DEF Writes
  <2> QED
    BY <1>2, <1>4, <1>5, <2>1, <2>2 DEF t, Spared
<1>6. CASE ~Spared(c, k)
  <2>1. /\ writes' = [writes EXCEPT ![c].queue = t, ![c].total = @ - 1]
        /\ Removed({k})
    BY <1>6 DEF EvictsOne
  <2>0. writes[c].total - 1 \in Nat
    <3>1. /\ writes[c].queue \in Seq(EntryKeys) /\ writes[c].total \in Nat
          /\ Len(writes[c].queue) <= writes[c].total
      BY <1>1, <1>2 DEF Writes, FrameBase, QueueInv
    <3>2. writes[c].total # 0
      BY <1>2, <3>1
    <3> QED
      BY <3>1, <3>2
  <2> HIDE DEF t
  <2>2. /\ writes' \in [Charts -> Writes]
        /\ writes'[c].at = "evict" /\ writes'[c].plane = writes[c].plane
        /\ writes'[c].landed = writes[c].landed /\ writes'[c].queue = t
        /\ writes'[c].total = writes[c].total - 1
        /\ \A d \in Charts \ {c} : writes'[d] = writes[d]
    BY <1>1, <1>2, <1>3, <2>0, <2>1 DEF Writes
  <2> QED
    BY <1>2, <1>4, <1>6, <2>1, <2>2 DEF t, Spared
<1> QED
  BY <1>5, <1>6

LEMMA EvictsOneKeeps ==
    ASSUME FrameBase, NEW c \in Charts, EvictsOne(c)
    PROVE  FrameBase'
<1>0. FrameTypeOK /\ QueueInv /\ FreshInv /\ CleanInv /\ ReadersInv /\ SweptClean
  BY DEF FrameBase
<1> DEFINE k == Head(writes[c].queue)
<1>1. /\ writes[c].at = "evict" /\ writes' \in [Charts -> Writes]
      /\ writes'[c].at = "evict" /\ writes'[c].plane = writes[c].plane
      /\ writes'[c].landed = writes[c].landed
      /\ \A d \in Charts \ {c} : writes'[d] = writes[d]
      /\ staging' = staging /\ unsynced' = unsynced /\ reader' = reader
      /\ version' = version /\ crashes' = crashes /\ clean' = clean
  BY EvictsOneWrites
<1>2. /\ DiskOK' /\ OnDisk' \subseteq OnDisk
      /\ \A i \in EntryKeys : i # k \/ k \in writes[c].landed =>
            blob'[i] = blob[i] /\ manifest'[i] = manifest[i]
      /\ \A i \in OnDisk' : manifest'[i] = manifest[i]
  <2>1. CASE k \in writes[c].landed /\ UNCHANGED diskVars
    BY <2>1, <1>0, FramePartsOfTypes DEF DiskOK, OnDisk, diskVars
  <2>2. CASE k \notin writes[c].landed /\ Removed({k})
    <3>1. /\ DiskOK' /\ OnDisk' = OnDisk \ {k}
          /\ \A i \in EntryKeys : i \notin {k} => blob'[i] = blob[i] /\ manifest'[i] = manifest[i]
      BY <1>0, <2>2, RemovedLaws
    <3> HIDE DEF k
    <3> QED
      BY <1>0, <2>2, <3>1, FramePartsOfTypes
  <2> QED
    BY <2>1, <2>2, EvictsOneWrites
<1> HIDE DEF k
<1>5. FrameTypeOK'
  BY <1>0, FramePartsOfTypes, FrameTypesFromParts, <1>1, <1>2
<1>6. FreshInv'
  BY <1>0, <1>1, <1>2 DEF FreshInv, Working
<1>7. CleanInv'
  <2>1. \A d \in Charts : Others(d)' = Others(d)
    BY <1>1 DEF Others
  <2>2. ASSUME NEW d \in clean
        PROVE  \A i \in writes[d].landed : manifest'[i] = version /\ blob'[i] = "whole"
    <3>1. d \in Charts /\ Others(d) = {} /\ writes[d].landed \subseteq EntryKeys
      BY <1>0, FramePartsOfTypes DEF CleanInv, Writes
    <3>2. d = c
      BY <1>1, <3>1 DEF Others
    <3> QED
      BY <1>0, <1>2, <3>1, <3>2 DEF CleanInv
  <2>3. clean \subseteq Charts /\ \A d \in Charts : writes'[d].landed = writes[d].landed
    BY <1>0, <1>1, FramePartsOfTypes
  <2> QED
    BY <1>0, <1>1, <2>1, <2>2, <2>3 DEF CleanInv
<1>8. ReadersInv' /\ SweptClean'
  BY <1>0, <1>1, <1>2 DEF ReadersInv, SweptClean
<1>9. QueueInv'
  <2>1. /\ IsInjective(Tail(writes[c].queue))
        /\ Len(Tail(writes[c].queue)) <= writes'[c].total
    <3>1. /\ writes[c].queue \in Seq(EntryKeys) /\ writes[c].queue # <<>> /\ writes[c].total \in Nat
          /\ IsInjective(writes[c].queue) /\ Len(writes[c].queue) <= writes[c].total
      BY <1>0, <1>1, EvictsOneWrites, FramePartsOfTypes DEF QueueInv, Writes
    <3>2. /\ IsInjective(Tail(writes[c].queue))
          /\ Len(Tail(writes[c].queue)) = Len(writes[c].queue) - 1
      BY <3>1, TailLaws
    <3>3. writes'[c].total = writes[c].total \/ writes'[c].total = writes[c].total - 1
      BY EvictsOneWrites
    <3> QED
      BY <3>1, <3>2, <3>3
  <2>2. writes'[c].queue = Tail(writes[c].queue)
    BY EvictsOneWrites
  <2> QED
    BY <1>0, <1>1, <2>1, <2>2 DEF QueueInv
<1> QED
  BY <1>5, <1>6, <1>7, <1>8, <1>9 DEF FrameBase

\* A chart advances to its next plane, or is done.
LEMMA AdvancedLaws ==
    ASSUME FrameTypeOK, NEW c \in Charts, NEW landed \in SUBSET EntryKeys,
           writes' = [writes EXCEPT ![c] = Advanced(writes[c], landed)]
    PROVE  /\ writes' \in [Charts -> Writes]
           /\ writes'[c].at \in {"scan", "done"} /\ writes'[c].landed = landed
           /\ writes'[c].at = "scan" => writes'[c].plane = writes[c].plane + 1
           /\ \A d \in Charts \ {c} : writes'[d] = writes[d]
<1>1. /\ writes \in [Charts -> Writes] /\ writes[c].plane \in 1 .. Len(Planes)
      /\ Len(Planes) \in Nat
      /\ 1 \in 1 .. Len(Planes)
  BY FramePartsOfTypes, FrameConstants
<1> DEFINE a == Advanced(writes[c], landed)
<1>2. /\ a \in Writes /\ a.at \in {"scan", "done"} /\ a.landed = landed
      /\ a.at = "scan" => a.plane = writes[c].plane + 1
  <2>1. CASE writes[c].plane = Len(Planes)
    <3>1. a = [at |-> "done", plane |-> 1, queue |-> <<>>, total |-> 0, landed |-> landed]
      BY <2>1 DEF Advanced, NoWrite
    <3> QED
      BY <1>1, <3>1 DEF Writes
  <2>2. CASE writes[c].plane # Len(Planes)
    <3>1. a = [at |-> "scan", plane |-> writes[c].plane + 1, queue |-> <<>>, total |-> 0,
                landed |-> landed]
      BY <2>2 DEF Advanced, NoWrite
    <3>2. writes[c].plane + 1 \in 1 .. Len(Planes)
      BY <1>1, <2>2
    <3> QED
      BY <1>1, <3>1, <3>2 DEF Writes
  <2> QED
    BY <2>1, <2>2
<1> HIDE DEF a
<1>3. writes' = [writes EXCEPT ![c] = a]
  BY DEF a
<1> QED
  BY <1>1, <1>2, <1>3

\* A plane's bytes and manifest appear together.
LEMMA LandsEffects ==
    ASSUME FrameBase, NEW c \in Charts, NEW synced \in BOOLEAN, Lands(c, synced)
    PROVE  /\ writes[c].at = "evict" /\ (writes[c].total + 1 <= Limit \/ writes[c].queue = <<>>)
           /\ KeyOf(c) = KeyAt(c, writes[c].plane) /\ KeyOf(c) \in EntryKeys
           /\ KeyOf(c) \notin OnDisk
           /\ writes' \in [Charts -> Writes]
           /\ writes'[c].at \in {"scan", "done"}
           /\ writes'[c].landed = writes[c].landed \cup {KeyOf(c)}
           /\ writes'[c].at = "scan" => writes'[c].plane = writes[c].plane + 1
           /\ \A d \in Charts \ {c} : writes'[d] = writes[d]
           /\ DiskOK' /\ OnDisk' = OnDisk \cup {KeyOf(c)} /\ Entries' = Entries \cup {KeyOf(c)}
           /\ blob'[KeyOf(c)] = "whole" /\ manifest'[KeyOf(c)] = version
           /\ \A k \in EntryKeys \ {KeyOf(c)} : blob'[k] = blob[k] /\ manifest'[k] = manifest[k]
           /\ unsynced' \subseteq EntryKeys
           /\ staging' = staging /\ reader' = reader /\ version' = version
           /\ crashes' = crashes /\ clean' = clean
<1>0. FrameTypeOK /\ FreshInv
  BY DEF FrameBase
<1>t. /\ DiskOK /\ unsynced \subseteq EntryKeys /\ writes[c] \in Writes
      /\ version \in 1 .. MaxPipeline
      /\ writes[c].plane \in 1 .. Len(Planes) /\ MaxPipeline \in Nat
  BY <1>0, FramePartsOfTypes, FrameConstants
<1>1. writes[c].at = "evict" /\ (writes[c].total + 1 <= Limit \/ writes[c].queue = <<>>)
  BY DEF Lands
<1> DEFINE k == KeyOf(c)
           l == writes[c].landed \cup {k}
<1>2. KeyOf(c) = KeyAt(c, writes[c].plane)
  BY DEF KeyOf, KeyAt
<1>3. k \in EntryKeys /\ k \notin OnDisk
  BY <1>0, <1>1, <1>2, <1>t, FrameConstants DEF FreshInv, Working
<1>4. /\ blob' = [blob EXCEPT ![k] = "whole"] /\ manifest' = [manifest EXCEPT ![k] = version]
      /\ ages' = Append(ages, k)
      /\ unsynced' = IF synced THEN unsynced ELSE unsynced \cup {k}
      /\ writes' = [writes EXCEPT ![c] = Advanced(writes[c], l)]
      /\ staging' = staging /\ reader' = reader /\ version' = version
      /\ crashes' = crashes /\ clean' = clean
  BY DEF Lands
<1> HIDE DEF k
<1>5. l \in SUBSET EntryKeys
  BY <1>3, <1>t DEF Writes
<1>6. /\ writes' \in [Charts -> Writes]
      /\ writes'[c].at \in {"scan", "done"} /\ writes'[c].landed = l
      /\ writes'[c].at = "scan" => writes'[c].plane = writes[c].plane + 1
      /\ \A d \in Charts \ {c} : writes'[d] = writes[d]
  <2> HIDE DEF l
  <2> QED
    BY <1>0, <1>4, <1>5, AdvancedLaws
<1>7. /\ blob'[k] = "whole" /\ manifest'[k] = version
      /\ \A i \in EntryKeys \ {k} : blob'[i] = blob[i] /\ manifest'[i] = manifest[i]
      /\ blob' \in [EntryKeys -> {"none", "whole", "torn"}]
      /\ manifest' \in [EntryKeys -> 0 .. MaxPipeline]
  BY <1>3, <1>4, <1>t DEF DiskOK
<1>8. OnDisk' = OnDisk \cup {k}
  BY <1>3, <1>7, <1>t DEF OnDisk
<1>9. Entries' = Entries \cup {k}
  BY <1>3, <1>7, <1>t DEF Entries
<1>10. ages' \in Seq(EntryKeys) /\ IsInjective(ages') /\ ToSet(ages') = OnDisk \cup {k}
  BY <1>3, <1>4, <1>t, AppendLaws DEF DiskOK
<1>11. DiskOK'
  BY <1>7, <1>8, <1>10 DEF DiskOK
<1>12. unsynced' \subseteq EntryKeys
  BY <1>3, <1>4, <1>t
<1> QED
  BY <1>1, <1>2, <1>3, <1>4, <1>6, <1>7, <1>8, <1>9, <1>11, <1>12 DEF k

LEMMA LandsKeeps ==
    ASSUME FrameBase, NEW c \in Charts, NEW synced \in BOOLEAN, Lands(c, synced)
    PROVE  FrameBase'
<1>0. FrameTypeOK /\ QueueInv /\ FreshInv /\ CleanInv /\ ReadersInv /\ SweptClean
  BY DEF FrameBase
<1> DEFINE k == KeyOf(c)
<1>1. /\ writes[c].at = "evict" /\ writes' \in [Charts -> Writes]
      /\ writes'[c].at \in {"scan", "done"} /\ writes'[c].landed = writes[c].landed \cup {k}
      /\ writes'[c].at = "scan" => writes'[c].plane = writes[c].plane + 1
      /\ \A d \in Charts \ {c} : writes'[d] = writes[d]
  BY LandsEffects
<1>2. /\ DiskOK' /\ OnDisk' = OnDisk \cup {k} /\ k = KeyAt(c, writes[c].plane) /\ k \in EntryKeys
      /\ k \notin OnDisk
      /\ blob'[k] = "whole" /\ manifest'[k] = version
      /\ \A i \in EntryKeys \ {k} : blob'[i] = blob[i] /\ manifest'[i] = manifest[i]
  BY LandsEffects
<1>3. /\ unsynced' \subseteq EntryKeys /\ staging' = staging /\ reader' = reader
      /\ version' = version /\ crashes' = crashes /\ clean' = clean
  BY LandsEffects
<1>4. \A d \in Charts : writes[d].plane \in 1 .. Len(Planes) /\ Len(Planes) \in Nat
  BY <1>0, FramePartsOfTypes, FrameConstants
<1> HIDE DEF k
<1>5. FrameTypeOK'
  BY <1>0, FramePartsOfTypes, FrameTypesFromParts, <1>1, <1>2, <1>3
<1>6. FreshInv'
  <2>1. ASSUME NEW d \in Charts, Working(d)', NEW j \in 1 .. Len(Planes), j >= writes'[d].plane
        PROVE  KeyAt(d, j) \notin OnDisk'
    <3>1. Working(d) /\ j >= writes[d].plane /\ (d = c => j > writes[c].plane)
      BY <1>1, <1>4, <2>1 DEF Working
    <3>2. KeyAt(d, j) \notin OnDisk
      BY <1>0, <3>1 DEF FreshInv
    <3>3. KeyAt(d, j) # k
      BY <1>2, <1>4, <3>1, FrameConstants
    <3> QED
      BY <1>2, <3>2, <3>3
  <2>2. ASSUME NEW d \in Charts, NEW i \in writes'[d].landed
        PROVE  \E j \in 1 .. Len(Planes) :
                  i = KeyAt(d, j) /\ (writes'[d].at = "done" \/ j < writes'[d].plane)
    <3>1. CASE d # c
      BY <1>0, <1>1, <2>2, <3>1 DEF FreshInv
    <3>2. CASE d = c /\ i = k
      BY <1>1, <1>2, <1>4, <3>2
    <3>3. CASE d = c /\ i \in writes[c].landed
      <4>1. PICK j \in 1 .. Len(Planes) :
                 i = KeyAt(c, j) /\ (writes[c].at = "done" \/ j < writes[c].plane)
        BY <1>0, <3>3 DEF FreshInv
      <4>2. writes'[c].at = "done" \/ j < writes'[c].plane
        BY <1>1, <1>4, <4>1
      <4> QED
        BY <3>3, <4>1, <4>2
    <3> QED
      BY <1>1, <2>2, <3>1, <3>2, <3>3
  <2>3. \A d \in Charts : writes'[d].at = "idle" => writes'[d].landed = {}
    BY <1>0, <1>1 DEF FreshInv
  <2> QED
    BY <2>1, <2>2, <2>3 DEF FreshInv
<1>7. CleanInv'
  <2>1. \A d \in Charts : Others(d)' \subseteq Others(d)
    BY <1>1 DEF Others
  <2>2. ASSUME NEW d \in clean
        PROVE  \A i \in writes'[d].landed : manifest'[i] = version /\ blob'[i] = "whole"
    <3>1. /\ d \in Charts /\ Others(d) = {} /\ writes[d].landed \subseteq EntryKeys
          /\ \A i \in writes[d].landed : manifest[i] = version /\ blob[i] = "whole"
      BY <1>0, FramePartsOfTypes DEF CleanInv, Writes
    <3>2. d = c
      BY <1>1, <3>1 DEF Others
    <3> QED
      BY <1>1, <1>2, <3>1, <3>2
  <2> QED
    BY <1>0, <1>3, <2>1, <2>2, FramePartsOfTypes DEF CleanInv
<1>8. ReadersInv' /\ SweptClean'
  <2>1. OnDisk \subseteq EntryKeys
    BY <1>0, FramePartsOfTypes
  <2> QED
    BY <1>0, <1>2, <1>3, <2>1 DEF ReadersInv, SweptClean
<1>9. QueueInv'
  BY <1>0, <1>1 DEF QueueInv
<1> QED
  BY <1>5, <1>6, <1>7, <1>8, <1>9 DEF FrameBase

LEMMA WriteDegradesKeeps ==
    ASSUME FrameBase, NEW c \in Charts, WriteDegrades(c)
    PROVE  FrameBase'
<1>0. FrameTypeOK /\ QueueInv /\ FreshInv /\ CleanInv /\ ReadersInv /\ SweptClean
  BY DEF FrameBase
<1>1. /\ writes[c].at = "evict" /\ writes' \in [Charts -> Writes]
      /\ writes'[c].at \in {"scan", "done"} /\ writes'[c].landed = writes[c].landed
      /\ writes'[c].at = "scan" => writes'[c].plane = writes[c].plane + 1
      /\ \A d \in Charts \ {c} : writes'[d] = writes[d]
  <2>1. writes[c].landed \in SUBSET EntryKeys
    BY <1>0, FramePartsOfTypes DEF Writes
  <2>2. /\ writes[c].at = "evict"
        /\ writes' = [writes EXCEPT ![c] = Advanced(writes[c], writes[c].landed)]
    BY <1>0, FramePartsOfTypes DEF WriteDegrades
  <2> QED
    BY <1>0, <2>1, <2>2, AdvancedLaws
<1>2. /\ blob' = blob /\ manifest' = manifest /\ ages' = ages /\ staging' = staging
      /\ unsynced' = unsynced /\ reader' = reader /\ version' = version /\ crashes' = crashes
      /\ OnDisk' = OnDisk /\ clean' = clean
  BY DEF WriteDegrades, diskVars, OnDisk
<1>3. \A d \in Charts : writes[d].plane \in 1 .. Len(Planes) /\ Len(Planes) \in Nat
  BY <1>0, FramePartsOfTypes, FrameConstants
<1>4. DiskOK'
  BY <1>0, FramePartsOfTypes, <1>2 DEF DiskOK
<1>5. FrameTypeOK'
  BY <1>0, FramePartsOfTypes, FrameTypesFromParts, <1>1, <1>2, <1>4
<1>6. FreshInv'
  <2>1. ASSUME NEW d \in Charts, Working(d)', NEW j \in 1 .. Len(Planes), j >= writes'[d].plane
        PROVE  KeyAt(d, j) \notin OnDisk'
    BY <1>0, <1>1, <1>2, <1>3, <2>1 DEF FreshInv, Working
  <2>2. ASSUME NEW d \in Charts, NEW i \in writes'[d].landed
        PROVE  \E j \in 1 .. Len(Planes) :
                  i = KeyAt(d, j) /\ (writes'[d].at = "done" \/ j < writes'[d].plane)
    <3>1. PICK j \in 1 .. Len(Planes) :
               i = KeyAt(d, j) /\ (writes[d].at = "done" \/ j < writes[d].plane)
      BY <1>0, <1>1, <2>2 DEF FreshInv
    <3>2. writes'[d].at = "done" \/ j < writes'[d].plane
      BY <1>1, <1>3, <3>1
    <3> QED
      BY <3>1, <3>2
  <2>3. \A d \in Charts : writes'[d].at = "idle" => writes'[d].landed = {}
    BY <1>0, <1>1 DEF FreshInv
  <2> QED
    BY <2>1, <2>2, <2>3 DEF FreshInv
<1>7. CleanInv'
  <2>1. \A d \in Charts : Others(d)' \subseteq Others(d) /\ writes'[d].landed = writes[d].landed
    BY <1>1 DEF Others
  <2> QED
    BY <1>0, <1>2, <2>1, FramePartsOfTypes DEF CleanInv
<1>8. ReadersInv' /\ SweptClean'
  BY <1>0, <1>2 DEF ReadersInv, SweptClean
<1>9. QueueInv'
  BY <1>0, <1>1 DEF QueueInv
<1> QED
  BY <1>5, <1>6, <1>7, <1>8, <1>9 DEF FrameBase

-----------------------------------------------------------------------------
(* Requests, a crash and the start. *)

\* A removal of one entry, or of none, that spares what clean charts landed.
LEMMA ReaderRemovesKeeps ==
    ASSUME FrameBase, DiskOK', OnDisk' \subseteq OnDisk,
           \A k \in OnDisk' : blob'[k] = blob[k] /\ manifest'[k] = manifest[k],
           \A c \in clean : \A k \in writes[c].landed : k \in OnDisk',
           writes' = writes, staging' = staging, unsynced' = unsynced, clean' = clean,
           version' = version, crashes' = crashes,
           reader' \in [Readers -> [at : {"idle", "opened", "over"}, key : EntryKeys \cup {<<>>},
                                    got : {"none", "whole", "torn"}]],
           ReadersInv'
    PROVE  FrameBase'
<1>0. FrameTypeOK /\ QueueInv /\ FreshInv /\ CleanInv /\ ReadersInv /\ SweptClean
  BY DEF FrameBase
<1>1. FrameTypeOK'
  BY <1>0, FramePartsOfTypes, FrameTypesFromParts
<1>2. FreshInv'
  BY <1>0 DEF FreshInv, Working
<1>3. CleanInv'
  BY <1>0 DEF CleanInv, Others
<1>4. SweptClean' /\ QueueInv'
  BY <1>0 DEF SweptClean, QueueInv
<1> QED
  BY <1>1, <1>2, <1>3, <1>4 DEF FrameBase

LEMMA OpensEntryKeeps ==
    ASSUME FrameBase, NEW r \in Readers, NEW k \in EntryKeys, OpensEntry(r, k)
    PROVE  FrameBase'
<1>0. FrameTypeOK /\ FreshInv /\ CleanInv /\ ReadersInv /\ SweptClean
  BY DEF FrameBase
<1>1. /\ writes' = writes /\ staging' = staging /\ unsynced' = unsynced /\ clean' = clean
      /\ version' = version /\ crashes' = crashes
  BY DEF OpensEntry
<1>2. \/ /\ UNCHANGED diskVars
         /\ \/ reader' = [reader EXCEPT ![r] = [NoRead EXCEPT !.at = "over"]]
            \/ reader' = [reader EXCEPT ![r] = [NoRead EXCEPT !.at = "opened", !.key = k]]
      \/ /\ reader' = [reader EXCEPT ![r] = [NoRead EXCEPT !.at = "over"]]
         /\ Removed({k}) /\ manifest[k] # version
  BY DEF OpensEntry
<1>3. /\ reader' \in [Readers -> [at : {"idle", "opened", "over"}, key : EntryKeys \cup {<<>>},
                                  got : {"none", "whole", "torn"}]]
      /\ ReadersInv'
  <2> DEFINE Readings == [at : {"idle", "opened", "over"}, key : EntryKeys \cup {<<>>},
                          got : {"none", "whole", "torn"}]
  <2>1. PICK n \in Readings : /\ reader' = [reader EXCEPT ![r] = n] /\ n.got = "none"
                              /\ n.at = "opened" => n.key \in EntryKeys
    <3>1. CASE reader' = [reader EXCEPT ![r] = [NoRead EXCEPT !.at = "over"]]
      <4>1. [NoRead EXCEPT !.at = "over"] = [at |-> "over", key |-> <<>>, got |-> "none"]
        BY DEF NoRead
      <4> QED
        BY <3>1, <4>1
    <3>2. CASE reader' = [reader EXCEPT ![r] = [NoRead EXCEPT !.at = "opened", !.key = k]]
      <4> DEFINE n == [NoRead EXCEPT !.at = "opened", !.key = k]
      <4>1. n \in Readings /\ n.at = "opened" /\ n.key = k /\ n.got = "none"
        BY DEF NoRead
      <4> HIDE DEF n, Readings
      <4> QED
        BY <3>2, <4>1 DEF n
    <3> QED
      BY <1>2, <3>1, <3>2
  <2>2. reader \in [Readers -> Readings]
    BY <1>0, FramePartsOfTypes
  <2> HIDE DEF Readings
  <2>3. /\ reader' \in [Readers -> Readings] /\ reader'[r] = n
        /\ \A s \in Readers \ {r} : reader'[s] = reader[s]
    BY <2>1, <2>2
  <2> QED
    BY <1>0, <2>1, <2>3 DEF ReadersInv, Readings
<1>4. /\ DiskOK' /\ OnDisk' \subseteq OnDisk
      /\ \A i \in OnDisk' : blob'[i] = blob[i] /\ manifest'[i] = manifest[i]
      /\ \A c \in clean : \A i \in writes[c].landed : i \in OnDisk'
  <2>0. \A c \in clean : \A i \in writes[c].landed :
           i \in OnDisk /\ manifest[i] = version
    <3>1. \A c \in clean : c \in Charts /\ writes[c].landed \subseteq EntryKeys
      BY <1>0, FramePartsOfTypes DEF Writes
    <3> QED
      BY <1>0, <3>1 DEF CleanInv, OnDisk
  <2>1. CASE UNCHANGED diskVars
    BY <2>0, <2>1, <1>0, FramePartsOfTypes DEF DiskOK, OnDisk, diskVars
  <2>2. CASE Removed({k}) /\ manifest[k] # version
    <3>1. /\ DiskOK' /\ OnDisk' = OnDisk \ {k}
          /\ \A i \in EntryKeys : i \notin {k} => blob'[i] = blob[i] /\ manifest'[i] = manifest[i]
      BY <1>0, <2>2, RemovedLaws
    <3> QED
      BY <1>0, <2>0, <2>2, <3>1, FramePartsOfTypes
  <2> QED
    BY <1>2, <2>1, <2>2
<1> QED
  BY <1>1, <1>3, <1>4, ReaderRemovesKeeps

LEMMA ReadsBlobKeeps ==
    ASSUME FrameBase, NEW r \in Readers, ReadsBlob(r)
    PROVE  FrameBase'
<1>0. FrameTypeOK /\ FreshInv /\ CleanInv /\ ReadersInv /\ SweptClean
  BY DEF FrameBase
<1> DEFINE k == reader[r].key
<1>1. /\ writes' = writes /\ staging' = staging /\ unsynced' = unsynced /\ clean' = clean
      /\ version' = version /\ crashes' = crashes /\ reader[r].at = "opened"
  BY DEF ReadsBlob
<1>2. \/ /\ blob[k] = "whole"
         /\ reader' = [reader EXCEPT ![r] = [@ EXCEPT !.at = "over", !.got = blob[k]]]
         /\ ages' = Append(Without(ages, {k}), k) /\ blob' = blob /\ manifest' = manifest
      \/ /\ blob[k] # "whole"
         /\ reader' = [reader EXCEPT ![r] = [@ EXCEPT !.at = "over"]]
         /\ Removed({k})
  BY DEF ReadsBlob, Intact
<1>3. k \in EntryKeys
  BY <1>0, <1>1 DEF ReadersInv
<1>4. /\ reader' \in [Readers -> [at : {"idle", "opened", "over"}, key : EntryKeys \cup {<<>>},
                                  got : {"none", "whole", "torn"}]]
      /\ ReadersInv'
  <2> DEFINE Readings == [at : {"idle", "opened", "over"}, key : EntryKeys \cup {<<>>},
                          got : {"none", "whole", "torn"}]
  <2>1. reader \in [Readers -> Readings] /\ reader[r] \in Readings
    BY <1>0, FramePartsOfTypes
  <2>2. reader[r].got \in {"none", "whole"}
    BY <1>0 DEF ReadersInv
  <2>3. PICK n \in Readings : /\ reader' = [reader EXCEPT ![r] = n] /\ n.got \in {"none", "whole"}
                           /\ n.at = "over"
    <3>1. CASE blob[k] = "whole" /\ reader' = [reader EXCEPT ![r] = [@ EXCEPT !.at = "over", !.got = blob[k]]]
      <4> DEFINE n == [reader[r] EXCEPT !.at = "over", !.got = "whole"]
      <4>1. n \in Readings /\ n.at = "over" /\ n.got = "whole"
        BY <2>1
      <4>2. reader' = [reader EXCEPT ![r] = n]
        BY <2>1, <3>1
      <4> HIDE DEF n, Readings
      <4> QED
        BY <4>1, <4>2
    <3>2. CASE reader' = [reader EXCEPT ![r] = [@ EXCEPT !.at = "over"]]
      <4> DEFINE n == [reader[r] EXCEPT !.at = "over"]
      <4>1. n \in Readings /\ n.at = "over" /\ n.got = reader[r].got
        BY <2>1
      <4>2. reader' = [reader EXCEPT ![r] = n]
        BY <2>1, <3>2
      <4> HIDE DEF n, Readings
      <4> QED
        BY <2>2, <4>1, <4>2
    <3> QED
      BY <1>2, <3>1, <3>2
  <2> HIDE DEF Readings
  <2>4. /\ reader' \in [Readers -> Readings] /\ reader'[r] = n
        /\ \A s \in Readers \ {r} : reader'[s] = reader[s]
    BY <2>1, <2>3
  <2> QED
    BY <1>0, <2>3, <2>4 DEF ReadersInv, Readings
<1>5. /\ DiskOK' /\ OnDisk' \subseteq OnDisk
      /\ \A i \in OnDisk' : blob'[i] = blob[i] /\ manifest'[i] = manifest[i]
      /\ \A c \in clean : \A i \in writes[c].landed : i \in OnDisk'
  <2> HIDE DEF k
  <2>0. \A c \in clean : \A i \in writes[c].landed : i \in OnDisk /\ blob[i] = "whole"
    <3>1. \A c \in clean : c \in Charts /\ writes[c].landed \subseteq EntryKeys
      BY <1>0, FramePartsOfTypes DEF Writes
    <3> QED
      BY <1>0, <3>1 DEF CleanInv, OnDisk
  <2>1. CASE /\ blob[k] = "whole" /\ ages' = Append(Without(ages, {k}), k)
             /\ blob' = blob /\ manifest' = manifest
    <3>1. k \in OnDisk /\ OnDisk' = OnDisk
      BY <1>3, <2>1 DEF OnDisk
    <3>2. ages' \in Seq(EntryKeys) /\ IsInjective(ages') /\ ToSet(ages') = OnDisk
      <4>1. ages \in Seq(EntryKeys) /\ IsInjective(ages) /\ ToSet(ages) = OnDisk
        BY <1>0, FramePartsOfTypes DEF DiskOK
      <4>2. /\ ages' \in Seq(EntryKeys) /\ IsInjective(ages')
            /\ ToSet(ages') = ToSet(ages) \cup {k}
        BY <1>3, <2>1, <4>1, MoveToEnd
      <4> QED
        BY <3>1, <4>1, <4>2
    <3> QED
      BY <1>0, <2>0, <2>1, <3>1, <3>2, FramePartsOfTypes DEF DiskOK
  <2>2. CASE blob[k] # "whole" /\ Removed({k})
    <3>1. /\ DiskOK' /\ OnDisk' = OnDisk \ {k}
          /\ \A i \in EntryKeys : i \notin {k} => blob'[i] = blob[i] /\ manifest'[i] = manifest[i]
      BY <1>0, <2>2, RemovedLaws
    <3> QED
      BY <1>0, <2>0, <2>2, <3>1, FramePartsOfTypes
  <2> QED
    BY <1>2, <2>1, <2>2 DEF k
<1> QED
  BY <1>1, <1>4, <1>5, ReaderRemovesKeeps

LEMMA CrashEffects ==
    ASSUME FrameBase, NEW T, NEW B, NEW M, NEW v \in 1 .. MaxPipeline,
           CrashesAndRestarts(T, B, M, v)
    PROVE  /\ DiskOK' /\ \A k \in OnDisk' : manifest'[k] = v
           /\ OnDisk' \subseteq OnDisk /\ Entries' \subseteq Entries
           /\ writes' \in [Charts -> Writes] /\ reader' = [r \in Readers |-> NoRead]
           /\ \A c \in Charts : \/ writes[c].at = "done" /\ writes'[c] = writes[c]
                                \/ writes'[c].at = "dead" /\ writes'[c].landed = {}
           /\ staging' = {} /\ unsynced' = {} /\ clean' = {} /\ version' = v
           /\ crashes' \in 0 .. MaxCrashes
<1>0. /\ DiskOK /\ writes \in [Charts -> Writes] /\ crashes \in 0 .. MaxCrashes
      /\ MaxCrashes \in Nat
      /\ MaxPipeline \in Nat /\ Entries \subseteq OnDisk /\ OnDisk \subseteq EntryKeys
      /\ 1 \in 1 .. Len(Planes)
  BY FramePartsOfTypes, FrameConstants, FrameAssumption DEF FrameBase
<1>1. /\ crashes < MaxCrashes /\ crashes' = crashes + 1 /\ reader' = [r \in Readers |-> NoRead]
      /\ staging' = {} /\ unsynced' = {} /\ clean' = {} /\ version' = v
      /\ writes' = [c \in Charts |-> IF writes[c].at = "done" THEN writes[c]
                                     ELSE [NoWrite EXCEPT !.at = "dead"]]
  BY DEF CrashesAndRestarts, Leftovers
<1> DEFINE b == [k \in EntryKeys |-> IF k \in B THEN "none" ELSE IF k \in T THEN "torn" ELSE blob[k]]
           m == [k \in EntryKeys |-> IF k \in M THEN 0 ELSE manifest[k]]
           D == Swept(m, v)
<1>2. /\ blob' = [k \in EntryKeys |-> IF k \in D THEN "none" ELSE b[k]]
      /\ manifest' = [k \in EntryKeys |-> IF k \in D THEN 0 ELSE m[k]]
      /\ ages' = Without(ages, D)
  BY DEF CrashesAndRestarts
<1>3. \A k \in EntryKeys : /\ k \in D => blob'[k] = "none" /\ manifest'[k] = 0
                           /\ k \notin D => /\ manifest'[k] = v /\ manifest[k] = v
                                            /\ blob'[k] \in {"none", "whole", "torn"}
  <2>1. \A k \in EntryKeys : k \in D <=> m[k] # v
    BY DEF Swept
  <2> HIDE DEF D
  <2>2. \A k \in EntryKeys : m[k] = v => manifest[k] = v
    OBVIOUS
  <2>3. \A k \in EntryKeys : b[k] \in {"none", "whole", "torn"}
    BY <1>0 DEF DiskOK
  <2> HIDE DEF m, b
  <2> QED
    BY <1>2, <2>1, <2>2, <2>3
<1>4. /\ blob' \in [EntryKeys -> {"none", "whole", "torn"}]
      /\ manifest' \in [EntryKeys -> 0 .. MaxPipeline]
  <2> HIDE DEF D
  <2>1. \A k \in EntryKeys : blob'[k] \in {"none", "whole", "torn"} /\ manifest'[k] \in 0 .. MaxPipeline
    BY <1>0, <1>3
  <2> HIDE DEF b, m
  <2> QED
    BY <1>2, <2>1
<1> HIDE DEF D
<1>5. OnDisk' = OnDisk \ D /\ Entries' \subseteq Entries
  BY <1>0, <1>3 DEF OnDisk, Entries
<1>6. ages' \in Seq(EntryKeys) /\ IsInjective(ages') /\ ToSet(ages') = OnDisk \ D
  BY <1>0, <1>2, WithoutProperties DEF DiskOK
<1>7. DiskOK'
  BY <1>4, <1>5, <1>6 DEF DiskOK
<1>8. \A k \in OnDisk' : manifest'[k] = v
  BY <1>0, <1>3, <1>5
<1>9. /\ writes' \in [Charts -> Writes]
      /\ \A c \in Charts : \/ writes[c].at = "done" /\ writes'[c] = writes[c]
                           \/ writes'[c].at = "dead" /\ writes'[c].landed = {}
  <2> DEFINE dead == [NoWrite EXCEPT !.at = "dead"]
  <2>1. dead = [at |-> "dead", plane |-> 1, queue |-> <<>>, total |-> 0, landed |-> {}]
    BY DEF NoWrite
  <2> HIDE DEF dead
  <2>4. dead.at = "dead" /\ dead.landed = {}
    BY <2>1
  <2>5. dead \in Writes
    <3>1. 1 \in 1 .. Len(Planes) /\ <<>> \in Seq(EntryKeys) /\ 0 \in Nat /\ {} \in SUBSET EntryKeys
      BY FrameConstants
    <3>2. "dead" \in {"idle", "scan", "evict", "done", "dead"}
      OBVIOUS
    <3> QED
      BY <2>1, <3>1, <3>2 DEF Writes
  <2>2. dead \in Writes /\ dead.at = "dead" /\ dead.landed = {}
    BY <2>4, <2>5
  <2>3. writes' = [c \in Charts |-> IF writes[c].at = "done" THEN writes[c] ELSE dead]
    BY <1>1 DEF dead
  <2> QED
    BY <1>0, <2>2, <2>3
<1>10. crashes' \in 0 .. MaxCrashes
  BY <1>0, <1>1
<1> QED
  BY <1>1, <1>5, <1>7, <1>8, <1>9, <1>10

LEMMA CrashesAndRestartsKeeps ==
    ASSUME FrameBase, NEW T, NEW B, NEW M, NEW v \in 1 .. MaxPipeline,
           CrashesAndRestarts(T, B, M, v)
    PROVE  FrameBase'
<1>0. FrameTypeOK /\ FreshInv
  BY DEF FrameBase
<1>1. /\ DiskOK' /\ \A k \in OnDisk' : manifest'[k] = v
      /\ OnDisk' \subseteq OnDisk
      /\ writes' \in [Charts -> Writes] /\ reader' = [r \in Readers |-> NoRead]
      /\ \A c \in Charts : \/ writes[c].at = "done" /\ writes'[c] = writes[c]
                           \/ writes'[c].at = "dead" /\ writes'[c].landed = {}
      /\ staging' = {} /\ unsynced' = {} /\ clean' = {} /\ version' = v
      /\ crashes' \in 0 .. MaxCrashes
  BY CrashEffects
<1>2. /\ reader' \in [Readers -> [at : {"idle", "opened", "over"}, key : EntryKeys \cup {<<>>},
                                  got : {"none", "whole", "torn"}]]
      /\ ReadersInv'
  BY <1>1 DEF NoRead, ReadersInv
<1>3. FrameTypeOK'
  BY <1>1, <1>2, FrameTypesFromParts
<1>4. FreshInv'
  BY <1>0, <1>1 DEF FreshInv, Working
<1>5. CleanInv' /\ QueueInv' /\ SweptClean'
  BY <1>1 DEF CleanInv, QueueInv, SweptClean
<1> QED
  BY <1>2, <1>3, <1>4, <1>5 DEF FrameBase

LEMMA FrameInitBase == FrameInit => FrameBase
<1> SUFFICES ASSUME FrameInit PROVE FrameBase
  OBVIOUS
<1>1. /\ blob = [k \in EntryKeys |-> "none"] /\ manifest = [k \in EntryKeys |-> 0]
      /\ ages = <<>> /\ staging = {} /\ unsynced = {} /\ clean = {} /\ version = 1 /\ crashes = 0
      /\ reader = [r \in Readers |-> NoRead]
      /\ \A c \in Charts : writes[c].at = "idle" /\ writes[c].landed = {}
  BY DEF FrameInit, NoWrite
<1>2. writes \in [Charts -> Writes]
  BY FrameConstants DEF FrameInit, NoWrite, Writes
<1>3. OnDisk = {}
  BY <1>1 DEF OnDisk
<1>4. DiskOK
  <2>1. ages \in Seq(EntryKeys) /\ IsInjective(ages) /\ ToSet(ages) = {}
    BY <1>1 DEF IsInjective, ToSet
  <2> QED
    BY <1>1, <1>3, <2>1, FrameConstants DEF DiskOK
<1>5. FrameTypeOK
  <2>1. reader \in [Readers -> [at : {"idle", "opened", "over"}, key : EntryKeys \cup {<<>>},
                                got : {"none", "whole", "torn"}]]
    BY <1>1 DEF NoRead
  <2>2. version \in 1 .. MaxPipeline /\ crashes \in 0 .. MaxCrashes
    BY <1>1, FrameAssumption
  <2> QED
    BY <1>1, <1>2, <1>4, <2>1, <2>2 DEF FrameTypeOK, DiskOK
<1>6. FreshInv /\ CleanInv /\ ReadersInv /\ SweptClean /\ QueueInv
  BY <1>1, <1>3 DEF FreshInv, CleanInv, ReadersInv, SweptClean, QueueInv, NoRead
<1> QED
  BY <1>5, <1>6 DEF FrameBase

LEMMA FrameStepBase == FrameBase /\ [FrameNext]_frameVars => FrameBase'
<1> SUFFICES ASSUME FrameBase, [FrameNext]_frameVars PROVE FrameBase'
  OBVIOUS
<1>1. CASE FrameNext
  BY <1>1, StoreBeginsKeeps, ScansKeeps, EvictsOneKeeps, LandsKeeps, WriteDegradesKeeps,
     OpensEntryKeeps, ReadsBlobKeeps, CrashesAndRestartsKeeps DEF FrameNext
<1>2. CASE UNCHANGED frameVars
  BY <1>2 DEF frameVars, FrameBase, FrameTypeOK, OnDisk, FreshInv, Working, CleanInv, Others,
     ReadersInv, SweptClean, QueueInv
<1> QED
  BY <1>1, <1>2

-----------------------------------------------------------------------------
(* The bound.  A chart that is making room tracks the store when the entries *)
(* it does not know of are at most those of charts that landed one since it  *)
(* scanned; one that no longer tracks it was overtaken by a chart that       *)
(* scanned, landed and landed again.  B is who may have overrun the cap.     *)

Evicting(c) == writes[c].at = "evict"

\* c's reading is of the entries e, less what it has removed, and landers are
\* the charts that have landed an entry since.
Tracks(c, landers, e) ==
    /\ c \notin landers /\ Cardinality(e) = writes[c].total
    /\ ToSet(writes[c].queue) \subseteq e
    /\ e \subseteq ToSet(writes[c].queue) \cup writes[c].landed
    /\ Cardinality(Entries \ e) <= Cardinality(landers)

BoundBy(B, K, L, C) ==
    /\ Cardinality(Entries) <= Room \/ Cardinality(Entries) < Room + Cardinality(B)
    /\ \A c \in Charts : Evicting(c) /\ c \notin K => B # {} /\ c \notin B
    /\ \A c \in Charts : Evicting(c) /\ c \in K => Tracks(c, L[c], C[c])
    /\ \A c, d \in Charts : Evicting(c) /\ Evicting(d) /\ c \in K /\ d \in L[c] =>
          d \in K /\ c \notin L[d] /\ L[d] \subseteq L[c]

BoundInv ==
    \E B, K \in SUBSET Charts, L \in [Charts -> SUBSET Charts], C \in [Charts -> SUBSET EntryKeys] :
        BoundBy(B, K, L, C)

LEMMA FiniteCharts == \A l \in SUBSET Charts : IsFiniteSet(l) /\ Cardinality(l) \in Nat
  BY FrameConstants, FS_Subset, FS_CardinalityType

LEMMA FiniteEntries == \A e \in SUBSET EntryKeys : IsFiniteSet(e) /\ Cardinality(e) \in Nat
  BY FrameConstants, FS_Subset, FS_CardinalityType

LEMMA RoomLaws == Room \in Nat /\ Limit <= Room /\ Len(Planes) <= Room
  BY FrameConstants DEF Room

\* A chart that has a plane to write has landed fewer than a stack.
LEMMA LandedSize ==
    ASSUME FrameBase, NEW c \in Charts, Evicting(c)
    PROVE  Cardinality(writes[c].landed) < Len(Planes)
<1>1. /\ FreshInv /\ writes[c].plane \in 1 .. Len(Planes) /\ Len(Planes) \in Nat
      /\ writes[c].landed \in SUBSET EntryKeys
  BY FramePartsOfTypes, FrameConstants DEF FrameBase, Writes
<1> DEFINE p == writes[c].plane - 1
           T == {KeyAt(c, j) : j \in 1 .. p}
           f == [j \in 1 .. p |-> KeyAt(c, j)]
<1>2. writes[c].landed \subseteq T
  BY <1>1 DEF FreshInv, Evicting
<1>3. IsFiniteSet(1 .. p) /\ Cardinality(1 .. p) = p
  <2>1. p \in Nat
    BY <1>1
  <2> HIDE DEF p
  <2>2. /\ IsFiniteSet(1 .. p)
        /\ Cardinality(1 .. p) = IF 1 > p THEN 0 ELSE p - 1 + 1
    BY <2>1, FS_Interval
  <2> QED
    BY <2>1, <2>2
<1>4. f \in Surjection(1 .. p, T)
  BY DEF Surjection
<1> HIDE DEF T, f
<1>5. IsFiniteSet(T) /\ Cardinality(T) <= p
  BY <1>3, <1>4, FS_Surjection
<1>6. Cardinality(writes[c].landed) <= p
  BY <1>1, <1>2, <1>3, <1>5, FS_Subset, FS_CardinalityType, FiniteEntries
<1> QED
  BY <1>1, <1>6, FiniteEntries

\* Fewer entries, and no chart making room that was not: the bound stands.
LEMMA FewerKeepsBound ==
    ASSUME FrameTypeOK, BoundInv, Entries' \subseteq Entries,
           \A c \in Charts : Evicting(c)' => writes'[c] = writes[c]
    PROVE  BoundInv'
<1>1. PICK B, K \in SUBSET Charts, L \in [Charts -> SUBSET Charts], C \in [Charts -> SUBSET EntryKeys] :
         BoundBy(B, K, L, C)
  BY DEF BoundInv
<1>2. Entries \subseteq EntryKeys
  BY DEF Entries
<1>3. \A e : /\ Cardinality(Entries' \ e) <= Cardinality(Entries \ e)
             /\ Cardinality(Entries' \ e) \in Nat /\ Cardinality(Entries \ e) \in Nat
  <2> TAKE e
  <2>1. /\ Entries \ e \in SUBSET EntryKeys /\ Entries' \ e \in SUBSET EntryKeys
        /\ Entries' \ e \in SUBSET (Entries \ e)
    BY <1>2
  <2> QED
    BY <2>1, FiniteEntries, FS_Subset
<1>4. /\ Cardinality(Entries') <= Cardinality(Entries)
      /\ Cardinality(Entries') \in Nat /\ Cardinality(Entries) \in Nat
  <2>1. Entries \in SUBSET EntryKeys /\ Entries' \in SUBSET EntryKeys /\ Entries' \in SUBSET Entries
    BY <1>2
  <2> QED
    BY <2>1, FiniteEntries, FS_Subset
<1>5. \A c \in Charts : Evicting(c)' => Evicting(c)
  BY DEF Evicting
<1>6. \A c \in Charts : Evicting(c)' /\ c \in K => Tracks(c, L[c], C[c])'
  <2> SUFFICES ASSUME NEW c \in Charts, Evicting(c)', c \in K PROVE Tracks(c, L[c], C[c])'
    OBVIOUS
  <2>1. Tracks(c, L[c], C[c])
    BY <1>1, <1>5 DEF BoundBy
  <2>2. Cardinality(L[c]) \in Nat
    BY FiniteCharts
  <2>3. Cardinality(Entries' \ C[c]) <= Cardinality(L[c])
    <3>1. Cardinality(Entries \ C[c]) <= Cardinality(L[c])
      BY <2>1 DEF Tracks
    <3> DEFINE m == Cardinality(Entries' \ C[c])
               n == Cardinality(Entries \ C[c])
    <3>2. m <= n /\ m \in Nat /\ n \in Nat
      BY <1>3
    <3> HIDE DEF m, n
    <3>3. m <= Cardinality(L[c])
      BY <2>2, <3>1, <3>2 DEF n
    <3> QED
      BY <3>3 DEF m
  <2>4. writes'[c] = writes[c]
    OBVIOUS
  <2> QED
    BY <2>1, <2>3, <2>4 DEF Tracks
<1>7. Cardinality(B) \in Nat /\ Room \in Nat
  BY FiniteCharts, RoomLaws
<1>8. BoundBy(B, K, L, C)'
  BY <1>1, <1>4, <1>5, <1>6, <1>7 DEF BoundBy, Room
<1> QED
  BY <1>8 DEF BoundInv

LEMMA ScansKeepsBound ==
    ASSUME FrameBase, BoundInv, NEW c \in Charts, Scans(c)
    PROVE  BoundInv'
<1>1. PICK B, K \in SUBSET Charts, L \in [Charts -> SUBSET Charts], C \in [Charts -> SUBSET EntryKeys] :
         BoundBy(B, K, L, C)
  BY DEF BoundInv
<1>2. /\ writes'[c].queue = Within(ages, Entries) /\ writes'[c].total = Cardinality(Entries)
      /\ \A d \in Charts \ {c} : writes'[d] = writes[d]
      /\ Entries' = Entries
  BY FramePartsOfTypes DEF FrameBase, Scans, Writes, Entries, diskVars
<1>3. ToSet(writes'[c].queue) = Entries
  <2>1. /\ ages \in Seq(EntryKeys) /\ ToSet(ages) \cap Entries = Entries
    BY FramePartsOfTypes DEF FrameBase, DiskOK
  <2> QED
    BY <1>2, <2>1, WithinProperties
<1>4. PICK E \in SUBSET EntryKeys : E = Entries
  BY DEF Entries
<1>5. PICK L2 \in [Charts -> SUBSET Charts] : L2 = [L EXCEPT ![c] = {}]
  OBVIOUS
<1>6. PICK C2 \in [Charts -> SUBSET EntryKeys] : C2 = [C EXCEPT ![c] = E]
  OBVIOUS
<1>7. PICK K2 \in SUBSET Charts : K2 = K \cup {c}
  OBVIOUS
<1>8. /\ L2[c] = {} /\ C2[c] = E
      /\ \A d \in Charts \ {c} : /\ L2[d] = L[d] /\ C2[d] = C[d]
                                 /\ (Evicting(d)' <=> Evicting(d)) /\ (d \in K2 <=> d \in K)
  BY <1>2, <1>5, <1>6, <1>7 DEF Evicting
<1>9. ASSUME NEW d \in Charts, Evicting(d)', d \in K2
      PROVE  Tracks(d, L2[d], C2[d])'
  <2>1. CASE d = c
    <3>1. Entries' \ E = {} /\ Cardinality({}) = 0
      BY <1>2, <1>4, FS_EmptySet
    <3>2. Cardinality(Entries' \ E) <= Cardinality({})
      BY <3>1
    <3>3. ToSet(writes'[c].queue) = E /\ Cardinality(E) = writes'[c].total
      BY <1>2, <1>3, <1>4
    <3>4. Tracks(c, {}, E)'
      BY <3>2, <3>3 DEF Tracks
    <3> QED
      BY <1>8, <2>1, <3>4
  <2>2. CASE d # c
    <3>1. Tracks(d, L[d], C[d])
      BY <1>1, <1>8, <1>9, <2>2 DEF BoundBy
    <3> QED
      BY <1>2, <1>8, <2>2, <3>1 DEF Tracks
  <2> QED
    BY <2>1, <2>2
<1>10. ASSUME NEW d \in Charts, NEW e \in Charts, Evicting(d)', Evicting(e)', d \in K2, e \in L2[d]
       PROVE  e \in K2 /\ d \notin L2[e] /\ L2[e] \subseteq L2[d]
  <2>1. d # c
    BY <1>8, <1>10
  <2>2. CASE e = c
    BY <1>7, <1>8, <2>2
  <2>3. CASE e # c
    BY <1>1, <1>8, <1>10, <2>1, <2>3 DEF BoundBy
  <2> QED
    BY <2>2, <2>3
<1>11. BoundBy(B, K2, L2, C2)'
  <2>1. \A d \in Charts : Evicting(d)' /\ d \notin K2 => B # {} /\ d \notin B
    BY <1>1, <1>7, <1>8 DEF BoundBy
  <2>2. Cardinality(Entries)' <= Room \/ Cardinality(Entries)' < Room + Cardinality(B)
    BY <1>1, <1>2 DEF BoundBy
  <2> QED
    BY <1>9, <1>10, <2>1, <2>2 DEF BoundBy, Room
<1> QED
  BY <1>11 DEF BoundInv

LEMMA EvictsOneKeepsBound ==
    ASSUME FrameBase, BoundInv, NEW c \in Charts, EvictsOne(c)
    PROVE  BoundInv'
<1>1. PICK B, K \in SUBSET Charts, L \in [Charts -> SUBSET Charts], C \in [Charts -> SUBSET EntryKeys] :
         BoundBy(B, K, L, C)
  BY DEF BoundInv
<1> DEFINE k == Head(writes[c].queue)
<1>2. /\ writes[c].at = "evict" /\ writes'[c].at = "evict" /\ writes[c].queue # <<>>
      /\ writes'[c].landed = writes[c].landed /\ writes'[c].queue = Tail(writes[c].queue)
      /\ \A d \in Charts \ {c} : writes'[d] = writes[d]
      /\ \/ k \in writes[c].landed /\ Entries' = Entries /\ writes'[c].total = writes[c].total
         \/ k \notin writes[c].landed /\ Entries' = Entries \ {k} /\ writes'[c].total = writes[c].total - 1
  <2>1. CASE k \in writes[c].landed /\ UNCHANGED diskVars /\ writes'[c].total = writes[c].total
    <3>1. Entries' = Entries
      BY <2>1 DEF Entries, diskVars
    <3> QED
      BY <2>1, <3>1, EvictsOneWrites
  <2>2. CASE k \notin writes[c].landed /\ Removed({k}) /\ writes'[c].total = writes[c].total - 1
    <3>1. Entries' = Entries \ {k}
      BY <2>2, RemovedLaws DEF FrameBase
    <3> QED
      BY <2>2, <3>1, EvictsOneWrites
  <2> QED
    BY <2>1, <2>2, EvictsOneWrites
<1>3. /\ ToSet(writes[c].queue) = ToSet(writes'[c].queue) \cup {k}
      /\ k \notin ToSet(writes'[c].queue)
  <2>1. writes[c].queue \in Seq(EntryKeys) /\ IsInjective(writes[c].queue)
    BY <1>2, FramePartsOfTypes DEF FrameBase, QueueInv, Writes
  <2> QED
    BY <1>2, <2>1, TailLaws
<1>4. PICK C2 \in [Charts -> SUBSET EntryKeys] :
         C2 = IF Entries' = Entries \ {k} /\ k \notin writes[c].landed
              THEN [C EXCEPT ![c] = @ \ {k}] ELSE C
  OBVIOUS
<1> HIDE DEF k
<1>5. Entries' \subseteq Entries /\ Entries \in SUBSET EntryKeys
  BY <1>2 DEF Entries
<1>6. /\ \A e : Cardinality(Entries' \ e) <= Cardinality(Entries \ e)
      /\ \A e : Cardinality(Entries' \ e) \in Nat /\ Cardinality(Entries \ e) \in Nat
      /\ Cardinality(Entries') <= Cardinality(Entries)
      /\ Cardinality(Entries') \in Nat /\ Cardinality(Entries) \in Nat
  <2>1. ASSUME NEW S, NEW T, S \subseteq T, T \subseteq EntryKeys
        PROVE  Cardinality(S) <= Cardinality(T) /\ Cardinality(S) \in Nat /\ Cardinality(T) \in Nat
    <3>1. S \in SUBSET EntryKeys /\ T \in SUBSET EntryKeys /\ S \in SUBSET T
      BY <2>1
    <3> QED
      BY <3>1, FiniteEntries, FS_Subset
  <2>2. ASSUME NEW e
        PROVE  /\ Cardinality(Entries' \ e) <= Cardinality(Entries \ e)
               /\ Cardinality(Entries' \ e) \in Nat /\ Cardinality(Entries \ e) \in Nat
    <3>1. Entries' \ e \subseteq Entries \ e /\ Entries \ e \subseteq EntryKeys
      BY <1>5
    <3> QED
      BY <2>1, <3>1
  <2> QED
    BY <1>5, <2>1, <2>2
<1>7. ASSUME NEW d \in Charts, Evicting(d)', d \in K
      PROVE  Tracks(d, L[d], C2[d])'
  <2>1. Tracks(d, L[d], C[d])
    BY <1>1, <1>2, <1>7 DEF BoundBy, Evicting
  <2>2. Cardinality(L[d]) \in Nat
    BY FiniteCharts
  <2>3. Cardinality(Entries' \ C[d]) <= Cardinality(L[d])
    <3> DEFINE m == Cardinality(Entries' \ C[d])
               n == Cardinality(Entries \ C[d])
    <3>1. m <= n /\ m \in Nat /\ n \in Nat
      BY <1>6
    <3>2. n <= Cardinality(L[d])
      BY <2>1 DEF Tracks
    <3> HIDE DEF m, n
    <3>3. m <= Cardinality(L[d])
      BY <2>2, <3>1, <3>2
    <3> QED
      BY <3>3 DEF m
  <2>4. CASE d # c
    <3>1. C2[d] = C[d] /\ writes'[d] = writes[d]
      BY <1>2, <1>4, <2>4
    <3> QED
      BY <2>1, <2>3, <3>1 DEF Tracks
  <2>5. CASE d = c /\ k \in writes[c].landed /\ Entries' = Entries /\ writes'[c].total = writes[c].total
    <3>1. C2[c] = C[c]
      BY <1>4, <2>5
    <3> QED
      BY <1>2, <1>3, <2>1, <2>3, <2>5, <3>1 DEF Tracks
  <2>6. CASE /\ d = c /\ k \notin writes[c].landed /\ Entries' = Entries \ {k}
             /\ writes'[c].total = writes[c].total - 1
    <3>1. C2[c] = C[c] \ {k} /\ k \in C[c]
      BY <1>3, <1>4, <2>1, <2>6 DEF Tracks
    <3>2. Cardinality(C2[c]) = writes'[c].total
      <4>1. C[c] \in SUBSET EntryKeys /\ IsFiniteSet(C[c])
        BY FiniteEntries
      <4>2. Cardinality(C[c] \ {k}) = Cardinality(C[c]) - 1
        BY <3>1, <4>1, FS_RemoveElement
      <4> QED
        BY <2>1, <2>6, <3>1, <4>2 DEF Tracks
    <3>3. /\ ToSet(writes'[c].queue) \subseteq C2[c]
          /\ C2[c] \subseteq ToSet(writes'[c].queue) \cup writes'[c].landed
      BY <1>2, <1>3, <2>1, <2>6, <3>1 DEF Tracks
    <3>4. Entries' \ C2[c] = Entries' \ C[c]
      BY <2>6, <3>1
    <3> QED
      BY <2>1, <2>3, <2>6, <3>2, <3>3, <3>4 DEF Tracks
  <2> QED
    BY <1>2, <2>4, <2>5, <2>6
<1>8. \A d \in Charts : Evicting(d)' <=> Evicting(d)
  BY <1>2 DEF Evicting
<1>9. Cardinality(Entries') <= Room \/ Cardinality(Entries') < Room + Cardinality(B)
  <2>1. Cardinality(B) \in Nat /\ Room \in Nat
    BY FiniteCharts, RoomLaws
  <2> QED
    BY <1>1, <1>6, <2>1 DEF BoundBy
<1>10. BoundBy(B, K, L, C2)'
  BY <1>1, <1>7, <1>8, <1>9 DEF BoundBy, Room
<1> QED
  BY <1>10 DEF BoundInv

\* An entry more that c has landed.
LEMMA LandsKeepsBound ==
    ASSUME FrameBase, BoundInv, NEW c \in Charts, NEW synced \in BOOLEAN, Lands(c, synced)
    PROVE  BoundInv'
<1>1. PICK B, K \in SUBSET Charts, L \in [Charts -> SUBSET Charts], C \in [Charts -> SUBSET EntryKeys] :
         BoundBy(B, K, L, C)
  BY DEF BoundInv
<1> DEFINE k == KeyOf(c)
<1>2. /\ Evicting(c) /\ ~Evicting(c)' /\ (writes[c].total + 1 <= Limit \/ writes[c].queue = <<>>)
      /\ \A d \in Charts \ {c} : writes'[d] = writes[d]
      /\ Entries' = Entries \cup {k} /\ k \in EntryKeys
  BY LandsEffects DEF Evicting
<1> HIDE DEF k
<1>3. PICK L2 \in [Charts -> SUBSET Charts] : L2 = [d \in Charts |-> L[d] \cup {c}]
  OBVIOUS
<1>4. PICK K2 \in SUBSET Charts : K2 = {d \in K : c \notin L[d]}
  OBVIOUS
<1>5. PICK B2 \in SUBSET Charts : B2 = IF c \in K THEN L[c] \cup {c} ELSE B \cup {c}
  OBVIOUS
<1>6. Entries \in SUBSET EntryKeys /\ writes[c] \in Writes
  BY FramePartsOfTypes DEF FrameBase, Entries
<1>7. \A d \in Charts : Evicting(d)' => d # c /\ Evicting(d)
  BY <1>2 DEF Evicting
<1>8. ASSUME NEW e \in SUBSET EntryKeys
      PROVE  /\ Cardinality(Entries' \ e) <= Cardinality(Entries \ e) + 1
             /\ Cardinality(Entries' \ e) \in Nat /\ Cardinality(Entries \ e) \in Nat
  <2>1. Entries \ e \in SUBSET EntryKeys /\ Entries' \ e \in SUBSET EntryKeys
    BY <1>2, <1>6
  <2>2. IsFiniteSet(Entries \ e) /\ Cardinality(Entries \ e) \in Nat /\ Cardinality(Entries' \ e) \in Nat
    BY <2>1, FiniteEntries
  <2>3. Entries' \ e = Entries \ e \/ Entries' \ e = (Entries \ e) \cup {k}
    BY <1>2
  <2>4. \/ Cardinality((Entries \ e) \cup {k}) = Cardinality(Entries \ e)
        \/ Cardinality((Entries \ e) \cup {k}) = Cardinality(Entries \ e) + 1
    BY <2>2, FS_AddElement
  <2>5. \/ Cardinality(Entries' \ e) = Cardinality(Entries \ e)
        \/ Cardinality(Entries' \ e) = Cardinality(Entries \ e) + 1
    BY <2>3, <2>4, Zenon
  <2> DEFINE m == Cardinality(Entries' \ e)
             n == Cardinality(Entries \ e)
  <2>6. m \in Nat /\ n \in Nat /\ (m = n \/ m = n + 1)
    BY <2>2, <2>5
  <2> HIDE DEF m, n
  <2>7. m <= n + 1
    BY <2>6
  <2> QED
    BY <2>6, <2>7 DEF m, n
\* The bound.
<1>9. Cardinality(Entries') < Room + Cardinality(B2) \/ Cardinality(Entries') <= Room
  <2>0. /\ Cardinality(Entries') <= Cardinality(Entries) + 1
        /\ Cardinality(Entries') \in Nat /\ Cardinality(Entries) \in Nat
    <3>1. {} \in SUBSET EntryKeys /\ Entries \ {} = Entries /\ Entries' \ {} = Entries'
      OBVIOUS
    <3> QED
      BY <1>8, <3>1
  <2>r. Room \in Nat /\ Limit \in Nat /\ Limit <= Room /\ Len(Planes) \in Nat /\ Len(Planes) <= Room
    BY RoomLaws, FrameConstants
  <2>1. CASE c \in K
    <3>1. Tracks(c, L[c], C[c])
      BY <1>1, <1>2, <2>1 DEF BoundBy
    <3>2. /\ IsFiniteSet(C[c]) /\ Cardinality(C[c]) \in Nat
          /\ IsFiniteSet(Entries \ C[c]) /\ Cardinality(Entries \ C[c]) \in Nat
      <4>1. C[c] \in SUBSET EntryKeys /\ Entries \ C[c] \in SUBSET EntryKeys
        BY <1>6
      <4> QED
        BY <4>1, FiniteEntries
    <3>3. Cardinality(Entries) <= Cardinality(C[c]) + Cardinality(Entries \ C[c])
      <4> DEFINE D == Entries \ C[c]
      <4>1. /\ IsFiniteSet(C[c] \cup D)
            /\ Cardinality(C[c] \cup D) = Cardinality(C[c]) + Cardinality(D) - Cardinality(C[c] \cap D)
        BY <3>2, FS_Union
      <4>2. C[c] \cap D = {} /\ Cardinality({}) = 0
        BY FS_EmptySet
      <4>3. Cardinality(Entries) <= Cardinality(C[c] \cup D)
        <5>1. Entries \in SUBSET (C[c] \cup D)
          OBVIOUS
        <5> HIDE DEF D
        <5> QED
          BY <4>1, <5>1, FS_Subset
      <4> HIDE DEF D
      <4>4. Cardinality(C[c] \cap D) = 0
        BY <4>2, Zenon
      <4>5. Cardinality(D) \in Nat
        BY <3>2 DEF D
      <4>6. Cardinality(Entries) <= Cardinality(C[c]) + Cardinality(D)
        BY <3>2, <4>1, <4>3, <4>4, <4>5
      <4> QED
        BY <4>6 DEF D
    <3>4. Cardinality(C[c]) + 1 <= Room
      <4>1. CASE writes[c].total + 1 <= Limit
        BY <2>r, <3>1, <3>2, <4>1 DEF Tracks
      <4>2. CASE writes[c].queue = <<>>
        <5>1. C[c] \subseteq writes[c].landed
          BY <3>1, <4>2 DEF Tracks, ToSet
        <5>2. writes[c].landed \in SUBSET EntryKeys
          BY <1>6 DEF Writes
        <5>3. /\ Cardinality(C[c]) <= Cardinality(writes[c].landed)
              /\ Cardinality(writes[c].landed) \in Nat
          BY <5>1, <5>2, FiniteEntries, FS_Subset
        <5>4. Cardinality(writes[c].landed) < Len(Planes)
          BY <1>2, LandedSize
        <5> QED
          BY <2>r, <3>2, <5>3, <5>4
      <4> QED
        BY <1>2, <4>1, <4>2
    <3>5. Cardinality(B2) = Cardinality(L[c]) + 1 /\ Cardinality(L[c]) \in Nat
      <4>1. B2 = L[c] \cup {c} /\ c \notin L[c] /\ IsFiniteSet(L[c]) /\ Cardinality(L[c]) \in Nat
        BY <1>5, <2>1, <3>1, FiniteCharts DEF Tracks
      <4> QED
        BY <4>1, FS_AddElement
    <3>6. Cardinality(Entries \ C[c]) <= Cardinality(L[c])
      BY <3>1 DEF Tracks
    <3> QED
      BY <2>0, <2>r, <3>2, <3>3, <3>4, <3>5, <3>6
  <2>2. CASE c \notin K
    <3>1. B # {} /\ c \notin B /\ IsFiniteSet(B) /\ Cardinality(B) \in Nat
      BY <1>1, <1>2, <2>2, FiniteCharts DEF BoundBy
    <3>2. Cardinality(B) # 0
      BY <3>1, FS_EmptySet
    <3>3. Cardinality(B2) = Cardinality(B) + 1
      BY <1>5, <2>2, <3>1, FS_AddElement
    <3>4. Cardinality(Entries) <= Room \/ Cardinality(Entries) < Room + Cardinality(B)
      BY <1>1 DEF BoundBy
    <3> QED
      BY <2>0, <2>r, <3>1, <3>2, <3>3, <3>4
  <2> QED
    BY <2>1, <2>2
\* Who no longer tracks the store has not overrun it.
<1>10. ASSUME NEW d \in Charts, Evicting(d)', d \notin K2
       PROVE  B2 # {} /\ d \notin B2
  <2>1. d # c /\ Evicting(d)
    BY <1>7, <1>10
  <2>2. CASE d \notin K
    <3>1. c \in K => d \notin L[c]
      BY <1>1, <1>2, <2>1, <2>2 DEF BoundBy
    <3>2. d \notin B
      BY <1>1, <2>1, <2>2 DEF BoundBy
    <3> QED
      BY <1>5, <2>1, <3>1, <3>2
  <2>3. CASE d \in K /\ c \in L[d]
    <3>1. c \in K /\ d \notin L[c]
      BY <1>1, <1>2, <2>1, <2>3 DEF BoundBy
    <3> QED
      BY <1>5, <2>1, <3>1
  <2> QED
    BY <1>4, <1>10, <2>2, <2>3
<1>11. ASSUME NEW d \in Charts, Evicting(d)', d \in K2
       PROVE  Tracks(d, L2[d], C[d])'
  <2>1. d # c /\ Evicting(d) /\ d \in K /\ c \notin L[d] /\ L2[d] = L[d] \cup {c}
    BY <1>3, <1>4, <1>7, <1>11
  <2>2. Tracks(d, L[d], C[d]) /\ writes'[d] = writes[d]
    BY <1>1, <1>2, <2>1 DEF BoundBy
  <2>3. Cardinality(L2[d]) = Cardinality(L[d]) + 1 /\ Cardinality(L[d]) \in Nat
    <3>1. IsFiniteSet(L[d]) /\ Cardinality(L[d]) \in Nat
      BY FiniteCharts
    <3> QED
      BY <2>1, <3>1, FS_AddElement
  <2>4. Cardinality(Entries' \ C[d]) <= Cardinality(L2[d])
    <3> DEFINE m == Cardinality(Entries' \ C[d])
               n == Cardinality(Entries \ C[d])
    <3>1. m <= n + 1 /\ m \in Nat /\ n \in Nat
      BY <1>8
    <3>2. n <= Cardinality(L[d])
      BY <2>2 DEF Tracks
    <3> HIDE DEF m, n
    <3>3. m <= Cardinality(L2[d])
      BY <2>3, <3>1, <3>2
    <3> QED
      BY <3>3 DEF m
  <2> QED
    BY <2>1, <2>2, <2>4 DEF Tracks
<1>12. ASSUME NEW d \in Charts, NEW e \in Charts, Evicting(d)', Evicting(e)', d \in K2, e \in L2[d]
       PROVE  e \in K2 /\ d \notin L2[e] /\ L2[e] \subseteq L2[d]
  <2>1. d # c /\ e # c /\ Evicting(d) /\ Evicting(e) /\ d \in K /\ c \notin L[d] /\ e \in L[d]
    BY <1>3, <1>4, <1>7, <1>12
  <2>2. e \in K /\ d \notin L[e] /\ L[e] \subseteq L[d]
    BY <1>1, <2>1 DEF BoundBy
  <2> QED
    BY <1>3, <1>4, <2>1, <2>2
<1>13. BoundBy(B2, K2, L2, C)'
  BY <1>9, <1>10, <1>11, <1>12 DEF BoundBy, Room
<1> QED
  BY <1>13 DEF BoundInv

FrameIInv == FrameBase /\ BoundInv

LEMMA FrameInitBound == FrameInit => BoundInv
<1> SUFFICES ASSUME FrameInit PROVE BoundInv
  OBVIOUS
<1>1. Entries = {} /\ \A c \in Charts : ~Evicting(c)
  BY DEF FrameInit, NoWrite, Entries, Evicting
<1>2. Cardinality(Entries) <= Room
  BY <1>1, RoomLaws, FS_EmptySet
<1>3. PICK L \in [Charts -> SUBSET Charts] : TRUE
  <2>1. [c \in Charts |-> {}] \in [Charts -> SUBSET Charts]
    OBVIOUS
  <2> QED
    BY <2>1
<1>4. PICK C \in [Charts -> SUBSET EntryKeys] : TRUE
  <2>1. [c \in Charts |-> {}] \in [Charts -> SUBSET EntryKeys]
    OBVIOUS
  <2> QED
    BY <2>1
<1>5. BoundBy({}, {}, L, C)
  BY <1>1, <1>2 DEF BoundBy
<1>6. {} \in SUBSET Charts
  OBVIOUS
<1> QED
  BY <1>5, <1>6 DEF BoundInv

LEMMA FrameStepBound == FrameIInv /\ [FrameNext]_frameVars => BoundInv'
<1> SUFFICES ASSUME FrameBase, BoundInv, [FrameNext]_frameVars PROVE BoundInv'
  BY DEF FrameIInv
<1>0. FrameTypeOK
  BY DEF FrameBase
<1>1. ASSUME NEW c \in Charts, StoreBegins(c)
      PROVE  BoundInv'
  <2>1. Entries' = Entries /\ writes \in [Charts -> Writes]
    BY <1>0, <1>1, FramePartsOfTypes DEF StoreBegins, Entries, diskVars
  <2>2. \A d \in Charts : Evicting(d)' => writes'[d] = writes[d]
    BY <1>1, <2>1 DEF StoreBegins, Evicting
  <2> QED
    BY <1>0, <2>1, <2>2, FewerKeepsBound
<1>2. ASSUME NEW c \in Charts, WriteDegrades(c)
      PROVE  BoundInv'
  <2>1. Entries' = Entries
    BY <1>2 DEF WriteDegrades, Entries, diskVars
  <2>2. writes[c].landed \in SUBSET EntryKeys
    BY <1>0, FramePartsOfTypes DEF Writes
  <2>3. writes' = [writes EXCEPT ![c] = Advanced(writes[c], writes[c].landed)]
    BY <1>0, <1>2, FramePartsOfTypes DEF WriteDegrades
  <2>4. writes'[c].at \in {"scan", "done"} /\ \A d \in Charts \ {c} : writes'[d] = writes[d]
    BY <1>0, <2>2, <2>3, AdvancedLaws
  <2>5. \A d \in Charts : Evicting(d)' => writes'[d] = writes[d]
    BY <2>4 DEF Evicting
  <2> QED
    BY <1>0, <2>1, <2>5, FewerKeepsBound
<1>3. ASSUME NEW r \in Readers, NEW k \in EntryKeys, OpensEntry(r, k)
      PROVE  BoundInv'
  <2>1. writes' = writes /\ (UNCHANGED diskVars \/ Removed({k}))
    BY <1>3 DEF OpensEntry
  <2>2. Entries' \subseteq Entries
    <3>1. CASE UNCHANGED diskVars
      BY <3>1 DEF diskVars, Entries
    <3>2. CASE Removed({k})
      BY <1>0, <3>2, RemovedLaws
    <3> QED
      BY <2>1, <3>1, <3>2
  <2> QED
    BY <1>0, <2>1, <2>2, FewerKeepsBound
<1>4. ASSUME NEW r \in Readers, ReadsBlob(r)
      PROVE  BoundInv'
  <2> DEFINE k == reader[r].key
  <2>1. writes' = writes /\ (manifest' = manifest \/ Removed({k}))
    BY <1>4 DEF ReadsBlob
  <2> HIDE DEF k
  <2>2. Entries' \subseteq Entries
    <3>1. CASE manifest' = manifest
      BY <3>1 DEF Entries
    <3>2. CASE Removed({k})
      BY <1>0, <3>2, RemovedLaws
    <3> QED
      BY <2>1, <3>1, <3>2
  <2> QED
    BY <1>0, <2>1, <2>2, FewerKeepsBound
<1>5. ASSUME NEW T, NEW B, NEW M, NEW v \in 1 .. MaxPipeline, CrashesAndRestarts(T, B, M, v)
      PROVE  BoundInv'
  <2>1. /\ Entries' \subseteq Entries
        /\ \A c \in Charts : (writes[c].at = "done" /\ writes'[c] = writes[c]) \/ writes'[c].at = "dead"
    BY <1>5, CrashEffects
  <2>2. \A c \in Charts : Evicting(c)' => writes'[c] = writes[c]
    BY <2>1 DEF Evicting
  <2> QED
    BY <1>0, <2>1, <2>2, FewerKeepsBound
<1>6. CASE UNCHANGED frameVars
  <2>1. Entries' = Entries /\ writes' = writes
    BY <1>6 DEF frameVars, Entries
  <2> QED
    BY <1>0, <2>1, FewerKeepsBound
<1> QED
  BY <1>1, <1>2, <1>3, <1>4, <1>5, <1>6, ScansKeepsBound, EvictsOneKeepsBound, LandsKeepsBound
     DEF FrameNext

\* For any number of charts, readers, planes and crashes, and any cap.
THEOREM FrameInvariant == FrameSpec => []FrameIInv
<1>1. FrameInit => FrameIInv
  BY FrameInitBase, FrameInitBound DEF FrameIInv
<1>2. FrameIInv /\ [FrameNext]_frameVars => FrameIInv'
  BY FrameStepBase, FrameStepBound DEF FrameIInv
<1> QED
  BY <1>1, <1>2, PTL DEF FrameSpec

LEMMA BoundInvBounds == BoundInv => FramesBounded
<1> SUFFICES ASSUME BoundInv PROVE FramesBounded
  OBVIOUS
<1>1. PICK B, K \in SUBSET Charts, L \in [Charts -> SUBSET Charts], C \in [Charts -> SUBSET EntryKeys] :
         BoundBy(B, K, L, C)
  BY DEF BoundInv
<1>2. /\ Cardinality(B) <= Cardinality(Charts) /\ Cardinality(B) \in Nat
      /\ Cardinality(Charts) \in Nat /\ Room \in Nat /\ IsFiniteSet(Charts)
  BY FrameConstants, FiniteCharts, FS_Subset, FS_CardinalityType, RoomLaws
<1>3. Cardinality(Entries) \in Nat
  <2>1. Entries \in SUBSET EntryKeys
    BY DEF Entries
  <2> QED
    BY <2>1, FiniteEntries
<1>4. Cardinality(Entries) <= Room \/ Cardinality(Entries) < Room + Cardinality(B)
  BY <1>1 DEF BoundBy
<1>5. CASE Charts = {}
  <2>1. Entries = {} /\ Cardinality(Entries) = 0 /\ Cardinality(Charts) = 0
    BY <1>5, FS_EmptySet DEF Entries, EntryKeys
  <2>2. Room >= 1
    BY FrameConstants, RoomLaws
  <2> QED
    BY <1>2, <2>1, <2>2 DEF FramesBounded
<1>6. CASE Charts # {}
  <2>1. Cardinality(Charts) # 0
    BY <1>2, <1>6, FS_EmptySet
  <2> QED
    BY <1>2, <1>3, <1>4, <2>1 DEF FramesBounded
<1> QED
  BY <1>5, <1>6

\* What a reader is served is whole, the store overruns its cap, or one stack,
\* by less than an entry for every chart, a chart that nobody overlapped keeps
\* all its planes, and a restart leaves only entries of the running version
\* (evict_to_fit, read_frames, sweep_store).
THEOREM FramesStayWhole == FrameSpec => []FramesAreWhole
<1>1. FrameIInv => FramesAreWhole
  <2> SUFFICES ASSUME FrameIInv PROVE FramesAreWhole
    OBVIOUS
  <2>1. FrameTypeOK /\ CleanInv /\ ReadersInv /\ SweptClean /\ FramesBounded
    BY BoundInvBounds DEF FrameIInv, FrameBase
  <2>2. OwnPlanesSurvive
    <3>1. /\ \A c \in clean : c \in Charts /\ writes[c].landed \subseteq EntryKeys
          /\ version # 0
      BY <2>1, FramePartsOfTypes DEF Writes
    <3> QED
      BY <2>1, <3>1 DEF CleanInv, OwnPlanesSurvive, Entries
  <2> QED
    BY <2>1, <2>2 DEF FramesAreWhole, FramesServedWhole, ReadersInv
<1> QED
  BY <1>1, FrameInvariant, PTL

-----------------------------------------------------------------------------
(* The cube cache.  One conjunct of the invariant for each group of          *)
(* variables, and one lemma for each that says who writes them.              *)

ProviderInv ==
    /\ delivered \in [Handles -> 1 .. MaxVersion] /\ ready \in [Handles -> BOOLEAN]
    /\ expiries \in 0 .. MaxExpiries /\ pipe \in 1 .. MaxPipe
    /\ opened \in 0 .. MaxOpens /\ raced \subseteq Handles

\* The entries that take room are those in line to be evicted, each once, none
\* larger than a cube may be and none of another pipeline version.
DiskInv ==
    /\ store \in [Keys -> {"none", "cube", "torn", "refused"}]
    /\ size \in [Keys -> 0 .. CubeLimit] /\ lru \in Seq(Keys)
    /\ IsInjective(lru) /\ ToSet(lru) = {k \in Keys : HasManifest(k)}
    /\ \A k \in Keys : /\ size[k] # 0 => HasManifest(k)
                       /\ HasManifest(k) => k[3] = pipe

IndexInv ==
    /\ index \in [Handles -> Keys \cup {NoKey}] /\ snap \in [Handles -> Keys \cup {NoKey}]
    /\ seen \in [Callers -> [Handles -> Keys \cup {NoKey}]]
    /\ \A h \in Handles : /\ index[h] # NoKey => HandleOf(index[h]) = h
                          /\ snap[h] # NoKey => HandleOf(snap[h]) = h
    /\ \A c \in Callers : \A h \in Handles : seen[c][h] # NoKey => HandleOf(seen[c][h]) = h

LineInv ==
    /\ opens \in [Keys -> 0 .. 2] /\ inflight \subseteq Keys /\ line \in Seq(Keys)
    /\ stage \in {"waiting", "released", "staged", "noting", "indexing"}
    /\ inflight = ToSet(line) /\ IsInjective(line)
    /\ \A k \in inflight : k[3] = pipe

\* Where a call holds the content of an export, and where it is past reconciling
\* the index with it.
Holding == {"opens", "drops", "looks", "notes"}
Past == {"drops", "looks", "notes"}

\* Nobody holds content that has not been delivered.
CallInv ==
    /\ call \in [Callers -> Calls]
    /\ \A c \in Callers : /\ call[c].v <= delivered[call[c].h]
                          /\ call[c].pc \in Holding => call[c].v # 0
VersionInv ==
    \A k \in Keys : Whole(k) \/ k \in inflight => VersionOf(k) <= delivered[HandleOf(k)]

\* The turns counted are those under way, and a writer that saw none has only
\* met turns that began since.
TurnInv ==
    /\ turns = Cardinality({t \in Turns : ~At(t, "idle")}) /\ idle \in BOOLEAN
    /\ idle => turns = 0
    /\ stage = "released" => \A t \in Turns : ~At(t, "idle") => call[t].met

\* A cube is staged only where there is room for some of it.
RoomInv ==
    /\ Total < Capacity + CubeLimit
    /\ stage = "staged" => Total < Capacity

\* Who is about to reconcile the content of h that was delivered last.
Bringing(c, h) ==
    call[c].h = h /\ (At(c, "reexports") \/ (At(c, "opens") /\ call[c].v = delivered[h]))

\* Without a race, a stale cube is in the index, where the call that had the
\* data delivered anew will find it, and nobody is past that point.
Settled(h) ==
    /\ Stale(h) \subseteq {index[h]}
    /\ \E c \in Callers : Bringing(c, h)
    /\ \A c \in Callers : call[c].h = h /\ call[c].pc \in Past => call[c].v # delivered[h]
    /\ \A k \in inflight : HandleOf(k) = h => VersionOf(k) # delivered[h]
StaleInv == \A h \in Handles \ raced : Stale(h) # {} => Settled(h)

CubeIInv ==
    /\ ProviderInv /\ DiskInv /\ IndexInv /\ LineInv /\ CallInv /\ VersionInv /\ TurnInv
    /\ RoomInv /\ StaleInv

-----------------------------------------------------------------------------
(* Keys and bytes. *)

LEMMA CubeConstants ==
    /\ MaxVersion \in Nat /\ MaxPipe \in Nat /\ MaxOpens \in Nat /\ MaxExpiries \in Nat
    /\ Capacity \in Nat /\ CubeLimit \in 1 .. Capacity /\ Sizes \subseteq Nat \ {0}
    /\ Estimates \subseteq Nat \ {0} /\ NoKey \notin Keys /\ IsFiniteSet(Keys) /\ IsFiniteSet(Turns)
    /\ 1 \in 1 .. MaxVersion /\ 1 \in 1 .. MaxPipe /\ OpenedBefore \in 0 .. 2
    /\ Turns \subseteq Callers
<1>1. /\ MaxVersion \in Nat \ {0} /\ MaxPipe \in Nat \ {0} /\ MaxOpens \in Nat
      /\ MaxExpiries \in Nat
      /\ Capacity \in Nat /\ CubeLimit \in 1 .. Capacity /\ Sizes \subseteq Nat \ {0}
      /\ Estimates \subseteq Nat \ {0} /\ NoKey \notin Keys /\ IsFiniteSet(Turns)
      /\ IsFiniteSet(Handles)
      /\ OpenedBefore \in 0 .. 2
  BY CubeAssumption DEF Keys
<1>2. IsFiniteSet(1 .. MaxVersion) /\ IsFiniteSet(1 .. MaxPipe)
  BY <1>1, FS_Interval
<1>3. IsFiniteSet(Keys)
  <2> DEFINE V == 1 .. MaxVersion
             P == 1 .. MaxPipe
             pairs == Handles \X V
             nested == pairs \X P
             flat == [n \in nested |-> <<n[1][1], n[1][2], n[2]>>]
  <2>1. IsFiniteSet(pairs)
    BY <1>1, <1>2, FS_Product
  <2>2. IsFiniteSet(nested)
    <3> HIDE DEF pairs
    <3> QED
      BY <1>2, <2>1, FS_Product
  <2>3. flat \in Surjection(nested, Keys)
    <3>1. flat \in [nested -> Keys]
      BY DEF Keys
    <3>2. ASSUME NEW k \in Keys
          PROVE  \E n \in nested : flat[n] = k
      <4>1. <<<<k[1], k[2]>>, k[3]>> \in nested /\ k = <<k[1], k[2], k[3]>>
        BY DEF Keys
      <4>2. flat[<<<<k[1], k[2]>>, k[3]>>] = k
        BY <4>1
      <4> QED
        BY <4>1, <4>2
    <3> QED
      BY <3>1, <3>2 DEF Surjection
  <2> HIDE DEF nested, flat
  <2> QED
    BY <2>2, <2>3, FS_Surjection
<1> QED
  BY <1>1, <1>3 DEF Callers

\* The bytes of a set of entries: finitely many, fewer for fewer entries, and
\* those of two sets at most the sum.
Held(K) == UNION {{k} \X (1 .. size[k]) : k \in K}

LEMMA BytesLaws ==
    ASSUME DiskInv, NEW K \in SUBSET Keys
    PROVE  /\ IsFiniteSet(Held(K)) /\ Bytes(K) = Cardinality(Held(K)) /\ Bytes(K) \in Nat
           /\ \A G \in SUBSET K : Bytes(G) <= Bytes(K) /\ Bytes(G) \in Nat
<1>1. size \in [Keys -> 0 .. CubeLimit] /\ CubeLimit \in Nat /\ IsFiniteSet(Keys)
  BY CubeConstants DEF DiskInv
<1> DEFINE box == Keys \X (1 .. CubeLimit)
<1>2. IsFiniteSet(box)
  <2>1. IsFiniteSet(1 .. CubeLimit)
    BY <1>1, FS_Interval
  <2> QED
    BY <1>1, <2>1, FS_Product
<1>3. \A G \in SUBSET K : Held(G) \in SUBSET Held(K) /\ Bytes(G) = Cardinality(Held(G))
  BY DEF Held, Bytes
<1>4. Held(K) \in SUBSET box
  BY <1>1 DEF Held
<1> HIDE DEF box
<1>5. IsFiniteSet(Held(K)) /\ Cardinality(Held(K)) \in Nat
  BY <1>2, <1>4, FS_Subset, FS_CardinalityType
<1>6. \A G \in SUBSET K : Cardinality(Held(G)) <= Cardinality(Held(K)) /\ Cardinality(Held(G)) \in Nat
  BY <1>3, <1>5, FS_Subset, FS_CardinalityType
<1>7. K \in SUBSET K
  OBVIOUS
<1> QED
  BY <1>3, <1>5, <1>6, <1>7

\* Removing entries leaves the bytes of the others.
LEMMA RemoveLaws ==
    ASSUME DiskInv, pipe' = pipe, NEW gone, RemoveEntries(gone)
    PROVE  /\ DiskInv' /\ Total' = Bytes(Keys \ gone) /\ Total' <= Total /\ Total' \in Nat
           /\ \A k \in Keys : Whole(k)' <=> Whole(k) /\ k \notin gone
           /\ \A k \in Keys : k \notin gone => store'[k] = store[k]
<1>1. /\ store' = [k \in Keys |-> IF k \in gone THEN "none" ELSE store[k]]
      /\ size' = [k \in Keys |-> IF k \in gone THEN 0 ELSE size[k]]
      /\ lru' = Without(lru, gone)
  BY DEF RemoveEntries
<1>2. /\ store' \in [Keys -> {"none", "cube", "torn", "refused"}]
      /\ size' \in [Keys -> 0 .. CubeLimit]
      /\ \A k \in Keys : k \in gone => store'[k] = "none" /\ size'[k] = 0
      /\ \A k \in Keys : k \notin gone => store'[k] = store[k] /\ size'[k] = size[k]
  BY <1>1, CubeConstants DEF DiskInv
<1>3. \A k \in Keys : HasManifest(k)' <=> HasManifest(k) /\ k \notin gone
  BY <1>2 DEF HasManifest
<1>4. /\ lru' \in Seq(Keys) /\ IsInjective(lru')
      /\ ToSet(lru') = {k \in Keys : HasManifest(k)} \ gone
  BY <1>1, WithoutProperties DEF DiskInv
<1>5. DiskInv'
  BY <1>2, <1>3, <1>4 DEF DiskInv
<1>6. Held(Keys)' = Held(Keys \ gone)
  <2>1. \A k \in Keys : k \in gone => 1 .. size'[k] = {}
    BY <1>2
  <2>2. \A k \in Keys : k \notin gone => 1 .. size'[k] = 1 .. size[k]
    BY <1>2
  <2>3. \A p : p \in Held(Keys)' <=> \E k \in Keys : p \in {k} \X (1 .. size'[k])
    BY DEF Held
  <2>4. \A p : p \in Held(Keys \ gone) <=> \E k \in Keys \ gone : p \in {k} \X (1 .. size[k])
    BY DEF Held
  <2> QED
    BY <2>1, <2>2, <2>3, <2>4
<1>7. Total' = Bytes(Keys \ gone)
  BY <1>6 DEF Total, Bytes, Held
<1>8. Total' <= Total /\ Total' \in Nat
  <2>1. Keys \ gone \in SUBSET Keys /\ Keys \in SUBSET Keys
    OBVIOUS
  <2> QED
    BY <1>7, <2>1, BytesLaws DEF Total
<1> QED
  BY <1>2, <1>5, <1>7, <1>8 DEF Whole

\* A look-up that hits moves the entry to the end of the line.
LEMMA TouchLaws ==
    ASSUME DiskInv, pipe' = pipe, NEW k \in Keys, HasManifest(k), Touch(k)
    PROVE  DiskInv' /\ store' = store /\ size' = size
<1>1. lru' = Append(Without(lru, {k}), k) /\ store' = store /\ size' = size
  BY DEF Touch
<1>2. lru \in Seq(Keys) /\ IsInjective(lru) /\ k \in ToSet(lru)
  BY DEF DiskInv
<1>3. lru' \in Seq(Keys) /\ IsInjective(lru') /\ ToSet(lru') = ToSet(lru)
  <2>1. /\ Append(Without(lru, {k}), k) \in Seq(Keys)
        /\ ToSet(Append(Without(lru, {k}), k)) = ToSet(lru) \cup {k}
        /\ IsInjective(Append(Without(lru, {k}), k))
    BY <1>2, MoveToEnd
  <2> QED
    BY <1>1, <1>2, <2>1
<1> QED
  BY <1>1, <1>3 DEF DiskInv, HasManifest

LEMMA MissLaws ==
    ASSUME DiskInv, pipe' = pipe, NEW k, LookupMisses(k), ~Whole(k)
    PROVE  /\ DiskInv' /\ Total' <= Total /\ Total' \in Nat
           /\ \A i \in Keys : (Whole(i)' <=> Whole(i))
<1>0. Total \in Nat
  BY BytesLaws DEF Total
<1>1. CASE HasManifest(k)
  BY <1>1, RemoveLaws DEF LookupMisses
<1>2. CASE ~HasManifest(k)
  BY <1>0, <1>2 DEF LookupMisses, disk, DiskInv, HasManifest, Whole, Total, Bytes
<1> QED
  BY <1>1, <1>2

-----------------------------------------------------------------------------
(* Each part of the invariant is kept. *)

LEMMA CubeTypesFromParts ==
    ProviderInv /\ DiskInv /\ IndexInv /\ LineInv /\ CallInv /\ TurnInv => CubeTypeOK
<1> SUFFICES ASSUME ProviderInv, DiskInv, IndexInv, LineInv, CallInv, TurnInv PROVE CubeTypeOK
  OBVIOUS
<1>1. size \in [Keys -> Nat]
  BY CubeConstants DEF DiskInv
<1>2. turns \in 0 .. Cardinality(Turns)
  <2>1. {t \in Turns : ~At(t, "idle")} \in SUBSET Turns
    OBVIOUS
  <2> QED
    BY <2>1, CubeConstants, FS_Subset, FS_CardinalityType DEF TurnInv
<1> QED
  BY <1>1, <1>2 DEF CubeTypeOK, Indexes, ProviderInv, DiskInv, IndexInv, LineInv, CallInv, TurnInv

LEMMA ProviderWriters ==
    CubeNext => \/ UNCHANGED <<delivered, ready, expiries, pipe>>
                \/ \E c \in Callers : Rematerialises(c)
                \/ \E h \in Replayed : Expires(h)
                \/ Restarts
  BY DEF CubeNext, CallerSteps, WriterSteps, Starts, AskHits, AskMisses, AskForgets, Forgets, Reexports,
     Reconciles, Drops, Looks, Notes, Ends, QuietComes, GivesUp, WriteSkips, WriteEvicts, WriteLands, WriteFails, WriteNotes,
     WriteIndexes, provider

LEMMA DiskWriters ==
    CubeNext => \/ UNCHANGED <<store, size, lru, pipe>>
                \/ \E c \in Callers : AskHits(c) \/ AskMisses(c) \/ Reconciles(c) \/ Looks(c)
                \/ WriteEvicts \/ WriteLands \/ WriteFails \/ Restarts
  BY DEF CubeNext, CallerSteps, WriterSteps, Starts, AskForgets, Forgets, Rematerialises, Reexports,
     Drops, Notes, Ends, QuietComes, GivesUp, WriteSkips, WriteNotes, WriteIndexes, Expires, disk

LEMMA IndexWriters ==
    CubeNext => \/ UNCHANGED <<index, snap, seen>>
                \/ \E c \in Callers : AskForgets(c) \/ Reconciles(c) \/ Looks(c)
                \/ \E c \in Callers : Forgets(c) \/ Drops(c) \/ Notes(c)
                \/ GivesUp \/ WriteSkips \/ WriteFails \/ WriteNotes \/ WriteIndexes \/ Restarts
  BY DEF CubeNext, CallerSteps, WriterSteps, Starts, AskHits, AskMisses, Rematerialises, Reexports,
     Ends, QuietComes, WriteEvicts, WriteLands, Expires, writer

LEMMA LineWriters ==
    CubeNext => \/ UNCHANGED <<opens, inflight, line, stage, pipe>>
                \/ \E c \in Callers : Looks(c) \/ Notes(c)
                \/ WriterSteps \/ Restarts
  BY DEF CubeNext, CallerSteps, Starts, AskHits, AskMisses, AskForgets, Forgets, Rematerialises,
     Reexports, Reconciles, Drops, Ends, Expires, writer

LEMMA CallWriters ==
    CubeNext => \/ UNCHANGED <<call, turns, idle>> /\ (WriterSteps \/ \E h \in Replayed : Expires(h))
                \/ \E c \in Callers : \/ CallerSteps(c) /\ UNCHANGED <<turns, idle>>
                                      \/ Ends(c) \/ \E h \in Handles : Starts(c, h)
                \/ Restarts
<1>1. \A c \in Callers : CallerSteps(c) => UNCHANGED <<turns, idle>>
  BY DEF CallerSteps, AskHits, AskMisses, AskForgets, Forgets, Rematerialises, Reexports,
     Reconciles, Drops, Looks, Notes, quiet
<1>2. WriterSteps => UNCHANGED <<call, turns, idle>>
  BY DEF WriterSteps, QuietComes, GivesUp, WriteSkips, WriteEvicts, WriteLands, WriteFails,
     WriteNotes, WriteIndexes, quiet
<1>3. (\E h \in Replayed : Expires(h)) => UNCHANGED <<call, turns, idle>>
  BY DEF Expires, quiet
<1> QED
  BY <1>1, <1>2, <1>3 DEF CubeNext

LEMMA RacedWriters ==
    CubeNext => \/ UNCHANGED raced
                \/ \E c \in Callers : Rematerialises(c) \/ Reexports(c) \/ Reconciles(c)
                \/ \E c \in Callers : Forgets(c) \/ Drops(c) \/ Notes(c)
                \/ WriteLands \/ WriteIndexes \/ Restarts
<1>1. \A c \in Callers : CallerSteps(c) =>
         \/ UNCHANGED raced
         \/ Rematerialises(c) \/ Reexports(c) \/ Reconciles(c)
         \/ Forgets(c) \/ Drops(c) \/ Notes(c)
  BY DEF CallerSteps, AskHits, AskMisses, AskForgets, Looks
<1>2. WriterSteps => UNCHANGED raced \/ WriteLands \/ WriteIndexes
  BY DEF WriterSteps, QuietComes, GivesUp, WriteSkips, WriteEvicts, WriteFails, WriteNotes
<1>3. \A c \in Callers : Ends(c) \/ (\E h \in Handles : Starts(c, h)) => UNCHANGED raced
  BY DEF Ends, Starts
<1>4. (\E h \in Replayed : Expires(h)) => UNCHANGED raced
  BY DEF Expires
<1> QED
  BY <1>1, <1>2, <1>3, <1>4 DEF CubeNext

LEMMA ProviderKept == ProviderInv /\ CallInv /\ LineInv /\ CubeNext => ProviderInv'
<1> SUFFICES ASSUME ProviderInv, CallInv, LineInv, CubeNext PROVE ProviderInv'
  OBVIOUS
<1>1. opened' \in 0 .. MaxOpens
  <2>1. opened' = opened \/ (opened < MaxOpens /\ opened' = opened + 1)
    BY DEF CubeNext, CallerSteps, WriterSteps, Starts, AskHits, AskMisses, AskForgets, Forgets,
       Rematerialises, Reexports, Reconciles, Drops, Looks, Notes, Ends, QuietComes, GivesUp, WriteSkips, WriteEvicts,
       WriteLands, WriteFails, WriteNotes, WriteIndexes, Expires, Restarts
  <2> QED
    BY <2>1, CubeConstants DEF ProviderInv
<1>2. raced' \subseteq Handles
  <2>1. raced \subseteq Handles /\ \A c \in Callers : call[c].h \in Handles
    BY DEF ProviderInv, CallInv, Calls
  <2>2. ASSUME NEW c \in Callers, Rematerialises(c) \/ Reexports(c) \/ Reconciles(c)
        PROVE  raced' \subseteq raced \cup {call[c].h}
    BY <2>2 DEF Rematerialises, Reexports, Reconciles
  <2>5. ASSUME NEW c \in Callers, Forgets(c) \/ Drops(c) \/ Notes(c)
        PROVE  raced' \subseteq Handles
    <3>1. PICK k : NoteBack(c, k)
      BY <2>5 DEF Forgets, Drops, Notes
    <3> QED
      BY <2>1, <3>1 DEF NoteBack, Witness, Hidden
  <2>3. ASSUME WriteLands \/ WriteIndexes
        PROVE  raced' \subseteq Handles
    <3>1. HandleOf(Job) \in Handles
      BY <2>3, TailLaws DEF WriteLands, WriteIndexes, AtWork, LineInv, Job, HandleOf, Keys
    <3> QED
      BY <2>1, <2>3, <3>1 DEF WriteLands, WriteIndexes, Witness, Hidden
  <2>4. ASSUME Restarts
        PROVE  raced' \subseteq Handles
    BY <2>1, <2>4 DEF Restarts
  <2> QED
    BY <2>1, <2>2, <2>3, <2>4, <2>5, RacedWriters
<1> DEFINE Types == /\ delivered \in [Handles -> 1 .. MaxVersion] /\ ready \in [Handles -> BOOLEAN]
                    /\ expiries \in 0 .. MaxExpiries /\ pipe \in 1 .. MaxPipe
<1>3. Types'
  <2>1. ASSUME NEW c \in Callers, Rematerialises(c)
        PROVE  Types'
    <3>1. /\ call[c].h \in Handles /\ expiries' = expiries /\ pipe' = pipe
          /\ ready' = [ready EXCEPT ![call[c].h] = TRUE]
          /\ \E v \in 1 .. MaxVersion : delivered' = [delivered EXCEPT ![call[c].h] = v]
      BY <2>1 DEF Rematerialises, CallInv, Calls, ProviderInv
    <3> QED
      BY <3>1 DEF ProviderInv
  <2>2. ASSUME NEW h \in Replayed, Expires(h)
        PROVE  Types'
    <3>1. /\ delivered' = delivered /\ pipe' = pipe /\ expiries < MaxExpiries
          /\ expiries' = expiries + 1 /\ ready' = [ready EXCEPT ![h] = FALSE]
      BY <2>2 DEF Expires
    <3>2. expiries' \in 0 .. MaxExpiries
      BY <3>1, CubeConstants DEF ProviderInv
    <3>3. ready' \in [Handles -> BOOLEAN]
      BY <3>1 DEF ProviderInv
    <3> QED
      BY <3>1, <3>2, <3>3 DEF ProviderInv
  <2>3. CASE Restarts
    BY <2>3, CubeConstants DEF ProviderInv, Restarts, provider
  <2>4. CASE UNCHANGED <<delivered, ready, expiries, pipe>>
    BY <2>4 DEF ProviderInv
  <2> QED
    BY <2>1, <2>2, <2>3, <2>4, ProviderWriters
<1> QED
  BY <1>1, <1>2, <1>3 DEF ProviderInv

\* The head of the line, when there is one.
LEMMA JobLaws ==
    ASSUME LineInv, line # <<>>
    PROVE  /\ Job \in Keys /\ Job \in inflight /\ Job[3] = pipe
           /\ Tail(line) \in Seq(Keys) /\ IsInjective(Tail(line))
           /\ ToSet(Tail(line)) = inflight \ {Job}
  BY TailLaws DEF LineInv, Job

LEMMA DiskKept == ProviderInv /\ DiskInv /\ IndexInv /\ LineInv /\ CallInv /\ CubeNext => DiskInv'
<1> SUFFICES ASSUME ProviderInv, DiskInv, IndexInv, LineInv, CallInv, CubeNext PROVE DiskInv'
  OBVIOUS
<1>1. ASSUME NEW c \in Callers, AskHits(c)
      PROVE  DiskInv'
  <2>1. index[call[c].h] \in Keys /\ HasManifest(index[call[c].h])
    BY <1>1 DEF AskHits, Whole, HasManifest, IndexInv, CallInv, Calls
  <2> QED
    BY <1>1, <2>1, TouchLaws DEF AskHits
<1>2. ASSUME NEW c \in Callers, AskMisses(c)
      PROVE  DiskInv'
  <2>1. pipe' = pipe /\ (UNCHANGED disk \/ (~Whole(index[call[c].h]) /\ LookupMisses(index[call[c].h])))
    BY <1>2 DEF AskMisses
  <2>2. UNCHANGED disk => DiskInv'
    BY <2>1 DEF disk, DiskInv, HasManifest
  <2> QED
    BY <2>1, <2>2, MissLaws
<1>3. ASSUME NEW c \in Callers, Reconciles(c)
      PROVE  DiskInv'
  <2>1. pipe' = pipe /\ (UNCHANGED disk \/ RemoveEntries({index[call[c].h]}))
    BY <1>3 DEF Reconciles
  <2>2. UNCHANGED disk => DiskInv'
    BY <2>1 DEF disk, DiskInv, HasManifest
  <2> QED
    BY <2>1, <2>2, RemoveLaws
<1>4. ASSUME NEW c \in Callers, Looks(c)
      PROVE  DiskInv'
  <2> DEFINE k == KeyFor(call[c].h, call[c].v)
  <2>1. /\ pipe' = pipe
        /\ \/ Whole(k) /\ Touch(k)
           \/ ~Whole(k) /\ LookupMisses(k)
    BY <1>4 DEF Looks
  <2>2. k \in Keys
    BY <1>4 DEF Looks, At, Holding, CallInv, Calls, ProviderInv, KeyFor, Keys
  <2> HIDE DEF k
  <2> QED
    BY <2>1, <2>2, TouchLaws, MissLaws DEF Whole, HasManifest
<1>5. ASSUME WriteEvicts
      PROVE  DiskInv'
  BY <1>5, RemoveLaws DEF WriteEvicts
<1>6. ASSUME WriteLands
      PROVE  DiskInv'
  <2>1. Job \in Keys /\ Job[3] = pipe
    BY <1>6, JobLaws DEF WriteLands, AtWork
  <2>2. PICK bytes \in Sizes : /\ bytes <= CubeLimit
                               /\ store' = [store EXCEPT ![Job] = "cube"]
                               /\ size' = [size EXCEPT ![Job] = bytes]
    BY <1>6 DEF WriteLands
  <2>3. store[Job] = "none" /\ lru' = Append(lru, Job) /\ pipe' = pipe
    BY <1>6 DEF WriteLands
  <2>4. bytes \in 0 .. CubeLimit
    BY <2>2, CubeConstants
  <2>5. /\ store' \in [Keys -> {"none", "cube", "torn", "refused"}]
        /\ size' \in [Keys -> 0 .. CubeLimit]
        /\ store'[Job] = "cube"
        /\ \A k \in Keys \ {Job} : store'[k] = store[k] /\ size'[k] = size[k]
    BY <2>1, <2>2, <2>4 DEF DiskInv
  <2>6. {k \in Keys : HasManifest(k)'} = {k \in Keys : HasManifest(k)} \cup {Job}
    BY <2>1, <2>5 DEF HasManifest
  <2>7. Job \notin ToSet(lru)
    BY <2>3 DEF DiskInv, HasManifest
  <2>8. /\ lru' \in Seq(Keys) /\ IsInjective(lru') /\ ToSet(lru') = ToSet(lru) \cup {Job}
    BY <2>1, <2>3, <2>7, AppendLaws DEF DiskInv
  <2>9. \A k \in Keys : /\ size'[k] # 0 => HasManifest(k)'
                        /\ HasManifest(k)' => k[3] = pipe'
    BY <2>1, <2>3, <2>5 DEF DiskInv, HasManifest
  <2> QED
    BY <2>5, <2>6, <2>8, <2>9 DEF DiskInv
<1>7. ASSUME WriteFails
      PROVE  DiskInv'
  <2>1. \/ UNCHANGED <<disk, pipe>>
        \/ /\ store[Job] = "none" /\ store' = [store EXCEPT ![Job] = "refused"]
           /\ size' = size /\ lru' = lru /\ pipe' = pipe
    BY <1>7 DEF WriteFails
  <2>2. UNCHANGED <<disk, pipe>> => DiskInv'
    BY DEF disk, DiskInv, HasManifest
  <2>3. ASSUME store[Job] = "none", store' = [store EXCEPT ![Job] = "refused"],
               size' = size, lru' = lru, pipe' = pipe
        PROVE  DiskInv'
    <3>1. /\ store' \in [Keys -> {"none", "cube", "torn", "refused"}]
          /\ \A k \in Keys : HasManifest(k)' <=> HasManifest(k)
      BY <2>3 DEF DiskInv, HasManifest
    <3> QED
      BY <2>3, <3>1 DEF DiskInv
  <2> QED
    BY <2>1, <2>2, <2>3
<1>8. ASSUME Restarts
      PROVE  DiskInv'
  <2>1. PICK torn \in Tearings, p \in {pipe, pipe + 1} :
          LET gone == {k \in Keys : SweepDrops(k, p)} IN
          /\ pipe' = p
          /\ store' = [k \in Keys |-> IF k \in gone THEN "none"
                                      ELSE IF k \in torn THEN "torn" ELSE store[k]]
          /\ size' = [k \in Keys |-> IF k \in gone THEN 0 ELSE size[k]]
          /\ lru' = Without(lru, gone)
    BY <1>8 DEF Restarts
  <2> DEFINE gone == {k \in Keys : SweepDrops(k, p)}
  <2>2. \A k \in Keys : k \in torn => HasManifest(k)
    BY DEF Tearings, HasManifest
  <2>3. \A k \in Keys : k \in gone <=> HasManifest(k) /\ k[3] # p
    BY DEF SweepDrops
  <2>4. /\ pipe' = p /\ lru' = Without(lru, gone)
        /\ store' = [k \in Keys |-> IF k \in gone THEN "none"
                                    ELSE IF k \in torn THEN "torn" ELSE store[k]]
        /\ size' = [k \in Keys |-> IF k \in gone THEN 0 ELSE size[k]]
    BY <2>1
  <2> HIDE DEF gone
  <2>5. /\ store' \in [Keys -> {"none", "cube", "torn", "refused"}]
        /\ size' \in [Keys -> 0 .. CubeLimit]
        /\ \A k \in Keys : k \in gone => store'[k] = "none" /\ size'[k] = 0
        /\ \A k \in Keys : k \notin gone => size'[k] = size[k] /\ store'[k] \in {"torn", store[k]}
                                            /\ (store'[k] = "torn" /\ store[k] # "torn" => k \in torn)
    BY <2>4, CubeConstants DEF DiskInv
  <2>6. \A k \in Keys : HasManifest(k)' <=> HasManifest(k) /\ k \notin gone
    BY <2>2, <2>5 DEF HasManifest
  <2>7. /\ lru' \in Seq(Keys) /\ IsInjective(lru')
        /\ ToSet(lru') = {k \in Keys : HasManifest(k)} \ gone
    BY <2>4, WithoutProperties DEF DiskInv
  <2>8. \A k \in Keys : /\ size'[k] # 0 => HasManifest(k)'
                        /\ HasManifest(k)' => k[3] = pipe'
    BY <2>3, <2>4, <2>5, <2>6 DEF DiskInv
  <2> QED
    BY <2>5, <2>6, <2>7, <2>8 DEF DiskInv
<1>9. CASE UNCHANGED <<store, size, lru, pipe>>
  BY <1>9 DEF DiskInv, HasManifest
<1> QED
  BY <1>1, <1>2, <1>3, <1>4, <1>5, <1>6, <1>7, <1>8, <1>9, DiskWriters

\* The index a caller puts back names each handle's own entries.
LEMMA NoteBackNames ==
    ASSUME IndexInv, NEW c \in Callers, call[c].h \in Handles, snap' = snap,
           NEW k \in Keys \cup {NoKey}, k # NoKey => HandleOf(k) = call[c].h, NoteBack(c, k)
    PROVE  IndexInv'
<1>1. /\ index' = [seen[c] EXCEPT ![call[c].h] = k] /\ seen' = [seen EXCEPT ![c] = Empty]
      /\ seen[c] \in [Handles -> Keys \cup {NoKey}] /\ Empty \in [Handles -> Keys \cup {NoKey}]
      /\ \A h \in Handles : Empty[h] = NoKey
  BY DEF NoteBack, Empty, IndexInv
<1>2. /\ index' \in [Handles -> Keys \cup {NoKey}]
      /\ \A h \in Handles : index'[h] = IF h = call[c].h THEN k ELSE seen[c][h]
  BY <1>1
<1>3. /\ seen' \in [Callers -> [Handles -> Keys \cup {NoKey}]] /\ seen'[c] = Empty
      /\ \A d \in Callers \ {c} : seen'[d] = seen[d]
  BY <1>1 DEF IndexInv
<1> QED
  BY <1>1, <1>2, <1>3 DEF IndexInv

\* The key of what a call holds.
LEMMA HeldKey ==
    ASSUME CallInv, ProviderInv, NEW c \in Callers, call[c].pc \in Holding
    PROVE  LET k == KeyFor(call[c].h, call[c].v) IN
           k \in Keys /\ HandleOf(k) = call[c].h /\ VersionOf(k) = call[c].v /\ k[3] = pipe
  BY DEF Holding, CallInv, Calls, ProviderInv, KeyFor, Keys, HandleOf, VersionOf

\* Every name in the index, and in a copy of it, is an entry of its handle.
LEMMA IndexKept == IndexInv /\ LineInv /\ CallInv /\ ProviderInv /\ CubeNext => IndexInv'
<1> SUFFICES ASSUME IndexInv, LineInv, CallInv, ProviderInv, CubeNext PROVE IndexInv'
  OBVIOUS
<1>1. ASSUME NEW c \in Callers, AskForgets(c) \/ Reconciles(c) \/ Looks(c)
      PROVE  IndexInv'
  <2>1. index' = index /\ snap' = snap /\ (seen' = seen \/ seen' = [seen EXCEPT ![c] = index])
    BY <1>1 DEF AskForgets, Reconciles, Looks, Copies, writer
  <2>2. /\ seen' \in [Callers -> [Handles -> Keys \cup {NoKey}]]
        /\ \A d \in Callers : seen'[d] \in {index, seen[d]}
    BY <2>1 DEF IndexInv
  <2> QED
    BY <2>1, <2>2 DEF IndexInv
<1>6. ASSUME NEW c \in Callers, Forgets(c) \/ Drops(c) \/ Notes(c)
      PROVE  IndexInv'
  <2>1. call[c].h \in Handles /\ snap' = snap
    BY <1>6 DEF CallInv, Calls, Forgets, Drops, Notes, writer
  <2>2. CASE NoteBack(c, NoKey)
    BY <2>1, <2>2, NoteBackNames
  <2>3. CASE Notes(c)
    <3>1. call[c].pc \in Holding
      BY <2>3 DEF Notes, At, Holding
    <3> QED
      BY <2>1, <2>3, <3>1, HeldKey, NoteBackNames DEF Notes
  <2> QED
    BY <1>6, <2>2, <2>3 DEF Forgets, Drops
<1>2. ASSUME GivesUp \/ WriteSkips \/ WriteFails \/ WriteNotes
      PROVE  IndexInv'
  <2>1. index' = index /\ seen' = seen
        /\ (snap' = snap \/ snap' = index \/ snap' = [h \in Handles |-> NoKey])
    BY <1>2 DEF GivesUp, WriteSkips, WriteFails, WriteNotes, Done, Empty
  <2> QED
    BY <2>1 DEF IndexInv
<1>3. ASSUME WriteIndexes
      PROVE  IndexInv'
  <2>1. Job \in Keys
    BY <1>3, JobLaws DEF WriteIndexes, AtWork
  <2>2. /\ index' = [snap EXCEPT ![HandleOf(Job)] = Job] /\ snap' = [h \in Handles |-> NoKey]
        /\ seen' = seen
    BY <1>3 DEF WriteIndexes, Done, Empty
  <2>3. HandleOf(Job) \in Handles
    BY <2>1 DEF HandleOf, Keys
  <2>4. /\ index' \in [Handles -> Keys \cup {NoKey}] /\ index'[HandleOf(Job)] = Job
        /\ \A h \in Handles : h # HandleOf(Job) => index'[h] = snap[h]
    BY <2>1, <2>2, <2>3 DEF IndexInv
  <2>5. snap' \in [Handles -> Keys \cup {NoKey}] /\ \A h \in Handles : snap'[h] = NoKey
    BY <2>2
  <2> QED
    BY <2>2, <2>4, <2>5 DEF IndexInv
<1>4. ASSUME Restarts
      PROVE  IndexInv'
  <2>1. /\ index' \in Rebuilt /\ snap' = [h \in Handles |-> NoKey]
        /\ seen' = [c \in Callers |-> [h \in Handles |-> NoKey]]
    BY <1>4 DEF Restarts, Empty
  <2>2. index' \in [Handles -> {NoKey} \cup Manifests'] /\ Manifests' \subseteq Keys
    BY <2>1 DEF Rebuilt, Manifests
  <2>3. \A h \in Handles : index'[h] = NoKey \/ HandleOf(index'[h]) = h
    BY <2>1 DEF Rebuilt
  <2> QED
    BY <2>1, <2>2, <2>3 DEF IndexInv
<1>5. CASE UNCHANGED <<index, snap, seen>>
  BY <1>5 DEF IndexInv
<1> QED
  BY <1>1, <1>2, <1>3, <1>4, <1>5, <1>6, IndexWriters

\* The task at the head is over.
LEMMA DoneLaws ==
    ASSUME LineInv, line # <<>>, Done
    PROVE  /\ line' \in Seq(Keys) /\ IsInjective(line') /\ inflight' = ToSet(line')
           /\ inflight' \subseteq inflight /\ stage' = "waiting"
           /\ snap' = [h \in Handles |-> NoKey]
  BY JobLaws DEF Done, Empty, LineInv

LEMMA LineKept == LineInv /\ CallInv /\ ProviderInv /\ CubeNext => LineInv'
<1> SUFFICES ASSUME LineInv, CallInv, ProviderInv, CubeNext PROVE LineInv'
  OBVIOUS
<1>1. ASSUME NEW c \in Callers, Looks(c) \/ Notes(c)
      PROVE  LineInv'
  <2> DEFINE k == KeyFor(call[c].h, call[c].v)
  <2>1. k \in Keys /\ k[3] = pipe
    <3>1. call[c].pc \in Holding
      BY <1>1 DEF Looks, Notes, At, Holding
    <3> QED
      BY <3>1, HeldKey
  <2>2. pipe' = pipe /\ stage' = stage /\ (Considers(k) \/ UNCHANGED <<opens, inflight, line>>)
    BY <1>1 DEF Looks, Notes
  <2> HIDE DEF k
  <2>3. CASE Considers(k)
    <3>1. opens' \in [Keys -> 0 .. 2]
      BY <2>1, <2>3 DEF Considers, LineInv
    <3>2. CASE k \notin inflight /\ inflight' = inflight \cup {k} /\ line' = Append(line, k)
      <4>1. line' \in Seq(Keys) /\ IsInjective(line') /\ ToSet(line') = ToSet(line) \cup {k}
        BY <2>1, <3>2, AppendLaws DEF LineInv
      <4> QED
        BY <2>1, <2>2, <3>1, <3>2, <4>1 DEF LineInv
    <3>3. CASE UNCHANGED <<inflight, line>>
      BY <2>2, <3>1, <3>3 DEF LineInv
    <3> QED
      BY <2>3, <3>2, <3>3 DEF Considers
  <2>4. CASE UNCHANGED <<opens, inflight, line>>
    BY <2>2, <2>4 DEF LineInv
  <2> QED
    BY <2>2, <2>3, <2>4
<1>2. ASSUME WriterSteps
      PROVE  LineInv'
  <2>1. /\ opens' = opens /\ pipe' = pipe
        /\ \/ /\ UNCHANGED <<inflight, line>>
              /\ stage' \in {"waiting", "released", "staged", "noting", "indexing"}
           \/ line # <<>> /\ Done
    BY <1>2 DEF WriterSteps, QuietComes, GivesUp, WriteSkips, WriteEvicts, WriteLands, WriteFails,
       WriteNotes, WriteIndexes, AtWork
  <2> QED
    BY <2>1, DoneLaws DEF LineInv
<1>3. ASSUME Restarts
      PROVE  LineInv'
  <2>1. /\ opens' = [k \in Keys |-> 0] /\ inflight' = {} /\ line' = <<>> /\ stage' = "waiting"
    BY <1>3 DEF Restarts
  <2>2. line' \in Seq(Keys) /\ IsInjective(line') /\ ToSet(line') = {}
    BY <2>1 DEF IsInjective, ToSet
  <2> QED
    BY <2>1, <2>2 DEF LineInv
<1>4. CASE UNCHANGED <<opens, inflight, line, stage, pipe>>
  BY <1>4 DEF LineInv
<1> QED
  BY <1>1, <1>2, <1>3, <1>4, LineWriters

LEMMA FreeLaws ==
    /\ Free \in Calls /\ Free.pc = "idle" /\ Free.v = 0 /\ Free.key = NoKey
<1>1. (CHOOSE h \in Handles : TRUE) \in Handles /\ 0 \in 0 .. MaxVersion
  BY CubeAssumption
<1> QED
  BY <1>1 DEF Free, Calls


\* What a caller's step does to its own call, and to no other.
Becomes(c, pcs) ==
    /\ call' \in [Callers -> Calls] /\ \A d \in Callers \ {c} : call'[d] = call[d]
    /\ call'[c].pc \in pcs

LEMMA CallParts ==
    ASSUME CallInv, ProviderInv, NEW c \in Callers
    PROVE  /\ call \in [Callers -> Calls] /\ call[c] \in Calls /\ call[c].h \in Handles
           /\ delivered[call[c].h] \in 1 .. MaxVersion /\ MaxVersion \in Nat
           /\ delivered[call[c].h] \in 0 .. MaxVersion
  BY CubeConstants DEF CallInv, Calls, ProviderInv

LEMMA StartsCall ==
    ASSUME CallInv, ProviderInv, NEW c \in Callers, NEW h \in Handles, Starts(c, h)
    PROVE  /\ Becomes(c, {"asks"}) /\ call[c].pc = "idle" /\ call'[c].v = 0 /\ call'[c].key = NoKey
           /\ call'[c].met = (stage = "released")
<1>1. call' = [call EXCEPT ![c] = [Free EXCEPT !.pc = "asks", !.h = h, !.met = stage = "released"]]
      /\ call[c].pc = "idle"
  BY DEF Starts, At
<1> DEFINE r == [Free EXCEPT !.pc = "asks", !.h = h, !.met = stage = "released"]
<1>2. r \in Calls /\ r.pc = "asks" /\ r.v = 0 /\ r.key = NoKey /\ r.met = (stage = "released")
  BY FreeLaws DEF Calls
<1> HIDE DEF r
<1> QED
  BY <1>1, <1>2, CallParts DEF Becomes, r

LEMMA EndsCall ==
    ASSUME CallInv, ProviderInv, NEW c \in Callers, Ends(c)
    PROVE  /\ Becomes(c, {"idle"}) /\ call[c].pc # "idle" /\ call'[c].v = 0 /\ call'[c].key = NoKey
  BY FreeLaws, CallParts DEF Ends, Becomes

LEMMA AskHitsCall ==
    ASSUME CallInv, ProviderInv, IndexInv, NEW c \in Callers, AskHits(c)
    PROVE  /\ Becomes(c, {"reading"}) /\ call[c].pc # "idle" /\ call'[c].h = call[c].h
           /\ call'[c].v = call[c].v /\ call'[c].met = call[c].met
           /\ call'[c].key = index[call[c].h]
<1>1. index[call[c].h] \in Keys \cup {NoKey} /\ call[c].pc # "idle"
      /\ call' = [call EXCEPT ![c].pc = "reading", ![c].key = index[call[c].h]]
  BY CallParts DEF AskHits, At, IndexInv
<1> QED
  BY <1>1, CallParts DEF Becomes, Calls

LEMMA AskMissesCall ==
    ASSUME CallInv, ProviderInv, NEW c \in Callers, AskMisses(c) \/ Forgets(c)
    PROVE  /\ Becomes(c, {"opens", "recovers"}) /\ call[c].pc # "idle" /\ call'[c].h = call[c].h
           /\ call'[c].met = call[c].met /\ call'[c].key = call[c].key
           /\ call'[c].v = IF call'[c].pc = "opens" THEN delivered[call[c].h] ELSE call[c].v
<1>1. /\ call[c].pc # "idle"
      /\ \/ call' = [call EXCEPT ![c].pc = "opens", ![c].v = delivered[call[c].h]]
         \/ call' = [call EXCEPT ![c].pc = "recovers", ![c].recovered = TRUE]
  BY DEF AskMisses, Forgets, Exported, At
<1> QED
  BY <1>1, CallParts DEF Becomes, Calls

LEMMA AskForgetsCall ==
    ASSUME CallInv, ProviderInv, NEW c \in Callers, AskForgets(c)
    PROVE  /\ Becomes(c, {"forgets"}) /\ call[c].pc = "asks" /\ call'[c].h = call[c].h
           /\ call'[c].met = call[c].met /\ call'[c].key = call[c].key /\ call'[c].v = call[c].v
<1>1. call[c].pc = "asks" /\ call' = [call EXCEPT ![c].pc = "forgets"]
  BY DEF AskForgets, At, Goes
<1> QED
  BY <1>1, CallParts DEF Becomes, Calls

LEMMA RematerialisesCall ==
    ASSUME CallInv, ProviderInv, NEW c \in Callers, Rematerialises(c)
    PROVE  /\ Becomes(c, {"reexports", "failed"}) /\ call[c].pc = "recovers"
           /\ call'[c].h = call[c].h /\ call'[c].met = call[c].met /\ call'[c].key = call[c].key
           /\ call'[c].v = call[c].v
<1>1. /\ call[c].pc = "recovers"
      /\ call' = [call EXCEPT ![c].pc = "reexports"] \/ call' = [call EXCEPT ![c].pc = "failed"]
  BY DEF Rematerialises, At, Goes
<1> QED
  BY <1>1, CallParts DEF Becomes, Calls

LEMMA ReexportsCall ==
    ASSUME CallInv, ProviderInv, NEW c \in Callers, Reexports(c)
    PROVE  /\ Becomes(c, {"opens", "failed"}) /\ call[c].pc = "reexports" /\ call'[c].h = call[c].h
           /\ call'[c].met = call[c].met /\ call'[c].key = call[c].key
           /\ call'[c].v = IF call'[c].pc = "opens" THEN delivered[call[c].h] ELSE call[c].v
<1>1. /\ call[c].pc = "reexports"
      /\ \/ call' = [call EXCEPT ![c].pc = "opens", ![c].v = delivered[call[c].h]]
         \/ call' = [call EXCEPT ![c].pc = "failed"]
  BY DEF Reexports, At, Goes
<1> QED
  BY <1>1, CallParts DEF Becomes, Calls

LEMMA ReconcilesCall ==
    ASSUME CallInv, ProviderInv, NEW c \in Callers, Reconciles(c)
    PROVE  /\ Becomes(c, {"looks", "drops"}) /\ call[c].pc = "opens" /\ call'[c].h = call[c].h
           /\ call'[c].met = call[c].met /\ call'[c].key = call[c].key /\ call'[c].v = call[c].v
<1>1. /\ call[c].pc = "opens"
      /\ call' = [call EXCEPT ![c].pc = "looks"] \/ call' = [call EXCEPT ![c].pc = "drops"]
  BY DEF Reconciles, At, Goes
<1> QED
  BY <1>1, CallParts DEF Becomes, Calls

LEMMA DropsCall ==
    ASSUME CallInv, ProviderInv, NEW c \in Callers, Drops(c)
    PROVE  /\ Becomes(c, {"looks"}) /\ call[c].pc = "drops" /\ call'[c].h = call[c].h
           /\ call'[c].met = call[c].met /\ call'[c].key = call[c].key /\ call'[c].v = call[c].v
<1>1. call[c].pc = "drops" /\ call' = [call EXCEPT ![c].pc = "looks"]
  BY DEF Drops, At, Goes
<1> QED
  BY <1>1, CallParts DEF Becomes, Calls

LEMMA NotesCall ==
    ASSUME CallInv, ProviderInv, NEW c \in Callers, Notes(c)
    PROVE  /\ Becomes(c, {"reading"}) /\ call[c].pc = "notes" /\ call'[c].h = call[c].h
           /\ call'[c].met = call[c].met /\ call'[c].key = call[c].key /\ call'[c].v = call[c].v
<1>1. call[c].pc = "notes" /\ call' = [call EXCEPT ![c].pc = "reading"]
  BY DEF Notes, At, Goes
<1> QED
  BY <1>1, CallParts DEF Becomes, Calls

LEMMA LooksCall ==
    ASSUME CallInv, ProviderInv, NEW c \in Callers, Looks(c)
    PROVE  LET k == KeyFor(call[c].h, call[c].v) IN
           /\ Becomes(c, {"reading", "notes", "failed", "recovers"}) /\ call[c].pc = "looks"
           /\ call'[c].h = call[c].h /\ call'[c].met = call[c].met /\ call'[c].v = call[c].v
           /\ call'[c].key = call[c].key \/ (call'[c].key = k /\ Whole(k))
           /\ k \in Keys /\ HandleOf(k) = call[c].h /\ VersionOf(k) = call[c].v /\ k[3] = pipe
<1> DEFINE k == KeyFor(call[c].h, call[c].v)
<1>1. call[c].pc = "looks" /\ call[c].pc \in Holding
  BY DEF Looks, At, Holding
<1>2. k \in Keys /\ HandleOf(k) = call[c].h /\ VersionOf(k) = call[c].v /\ k[3] = pipe
  BY <1>1, HeldKey
<1>3. \/ call' = [call EXCEPT ![c].pc = "reading", ![c].key = k] /\ Whole(k)
      \/ call' = [call EXCEPT ![c].pc = "notes", ![c].key = k] /\ Whole(k)
      \/ call' = [call EXCEPT ![c].pc = "reading"]
      \/ call' = [call EXCEPT ![c].pc = "failed"]
      \/ call' = [call EXCEPT ![c].pc = "recovers", ![c].recovered = TRUE]
  BY DEF Looks, Goes
<1> HIDE DEF k
<1>4. /\ Becomes(c, {"reading", "notes", "failed", "recovers"})
      /\ call'[c].h = call[c].h /\ call'[c].met = call[c].met /\ call'[c].v = call[c].v
      /\ call'[c].key = call[c].key \/ (call'[c].key = k /\ Whole(k))
  BY <1>2, <1>3, CallParts DEF Becomes, Calls
<1> QED
  BY <1>1, <1>2, <1>4 DEF k

LEMMA CallStep ==
    ASSUME CallInv, ProviderInv, IndexInv, NEW c \in Callers, CallerSteps(c)
    PROVE  /\ Becomes(c, {"forgets", "opens", "recovers", "reexports", "drops", "looks", "notes",
                           "reading", "failed"})
           /\ call[c].pc # "idle" /\ call'[c].h = call[c].h /\ call'[c].met = call[c].met
           /\ call'[c].v \in {call[c].v, delivered[call[c].h]}
           /\ call'[c].pc \in Holding => call'[c].v # 0
<1>0. delivered[call[c].h] # 0
  BY CallParts
<1>1. CASE AskHits(c)
  BY <1>1, AskHitsCall DEF Becomes, Holding
<1>2. CASE AskMisses(c) \/ Forgets(c)
  BY <1>0, <1>2, AskMissesCall DEF Becomes, Holding
<1>3. CASE AskForgets(c)
  BY <1>3, AskForgetsCall DEF Becomes, Holding
<1>4. CASE Rematerialises(c)
  BY <1>4, RematerialisesCall DEF Becomes, Holding
<1>5. CASE Reexports(c)
  BY <1>0, <1>5, ReexportsCall DEF Becomes, Holding
<1>6. CASE Reconciles(c)
  BY <1>6, ReconcilesCall DEF Becomes, CallInv, Holding
<1>7. CASE Drops(c)
  BY <1>7, DropsCall DEF Becomes, CallInv, Holding
<1>8. CASE Looks(c)
  BY <1>8, LooksCall DEF Becomes, CallInv, Holding
<1>9. CASE Notes(c)
  BY <1>9, NotesCall DEF Becomes, Holding
<1> QED
  BY <1>1, <1>2, <1>3, <1>4, <1>5, <1>6, <1>7, <1>8, <1>9 DEF CallerSteps

\* Content is only ever delivered anew.
LEMMA DeliveredGrows ==
    ASSUME CallInv, ProviderInv, CubeNext
    PROVE  \A h \in Handles : delivered[h] <= delivered'[h] /\ delivered[h] \in Nat /\ delivered'[h] \in Nat
<1>0. \A h \in Handles : delivered[h] \in Nat
  BY CubeConstants DEF ProviderInv
<1>1. ASSUME NEW c \in Callers, Rematerialises(c)
      PROVE  \A h \in Handles : delivered[h] <= delivered'[h] /\ delivered'[h] \in Nat
  <2>1. \E v \in {delivered[call[c].h], delivered[call[c].h] + 1} :
           delivered' = [delivered EXCEPT ![call[c].h] = v]
    BY <1>1 DEF Rematerialises
  <2> QED
    BY <1>0, <2>1, CallParts DEF ProviderInv
<1>2. CASE UNCHANGED delivered
  BY <1>0, <1>2
<1>3. (\E h \in Replayed : Expires(h)) \/ Restarts => UNCHANGED delivered
  BY DEF Expires, Restarts, provider
<1> QED
  BY <1>0, <1>1, <1>2, <1>3, ProviderWriters

LEMMA CallKept == CallInv /\ ProviderInv /\ IndexInv /\ CubeNext => CallInv'
<1> SUFFICES ASSUME CallInv, ProviderInv, IndexInv, CubeNext PROVE CallInv'
  OBVIOUS
<1>1. /\ call \in [Callers -> Calls]
      /\ \A d \in Callers : call[d].h \in Handles /\ call[d].v \in Nat
      /\ \A d \in Callers : call[d].v <= delivered[call[d].h]
      /\ \A d \in Callers : call[d].pc \in Holding => call[d].v # 0
  BY CubeConstants DEF CallInv, Calls
<1>2. \A h \in Handles : delivered[h] <= delivered'[h] /\ delivered[h] \in Nat /\ delivered'[h] \in Nat
  BY DeliveredGrows
<1>3. ASSUME NEW c \in Callers, CallerSteps(c)
      PROVE  CallInv'
  <2>1. /\ call' \in [Callers -> Calls] /\ \A d \in Callers \ {c} : call'[d] = call[d]
        /\ call'[c].h = call[c].h /\ call'[c].v \in {call[c].v, delivered[call[c].h]}
        /\ call'[c].pc \in Holding => call'[c].v # 0
    BY <1>3, CallStep DEF Becomes
  <2>2. call'[c].v <= delivered'[call'[c].h]
    BY <1>1, <1>2, <2>1
  <2>3. \A d \in Callers \ {c} : call'[d].v <= delivered'[call'[d].h]
    BY <1>1, <1>2, <2>1
  <2> QED
    BY <1>1, <2>1, <2>2, <2>3 DEF CallInv
<1>4. ASSUME NEW c \in Callers, Ends(c) \/ \E h \in Handles : Starts(c, h)
      PROVE  CallInv'
  <2>1. /\ call' \in [Callers -> Calls] /\ \A d \in Callers \ {c} : call'[d] = call[d]
        /\ call'[c].v = 0 /\ call'[c].pc \notin Holding
    BY <1>4, EndsCall, StartsCall DEF Becomes, Holding
  <2>2. call'[c].h \in Handles
    BY <2>1 DEF Calls
  <2>3. \A d \in Callers : call'[d].v <= delivered'[call'[d].h]
    BY <1>1, <1>2, <2>1, <2>2
  <2> QED
    BY <1>1, <2>1, <2>3 DEF CallInv
<1>5. CASE Restarts
  <2>1. call' = [c \in Callers |-> Free] /\ Free.h \in Handles
    BY <1>5, FreeLaws DEF Restarts, Calls
  <2> QED
    BY <1>2, <2>1, FreeLaws DEF CallInv, Holding
<1>6. CASE UNCHANGED call
  BY <1>1, <1>2, <1>6 DEF CallInv
<1> QED
  BY <1>3, <1>4, <1>5, <1>6, CallWriters

\* The turns under way.
Active == {t \in Turns : ~At(t, "idle")}

LEMMA ActiveLaws ==
    /\ IsFiniteSet(Active) /\ Cardinality(Active) \in Nat
    /\ Cardinality(Active) = 0 <=> Active = {}
<1>1. Active \in SUBSET Turns
  BY DEF Active
<1>2. IsFiniteSet(Active)
  BY <1>1, CubeConstants, FS_Subset
<1> QED
  BY <1>2, FS_CardinalityType, FS_EmptySet

\* Only a writer that sees no turn under way is released.
LEMMA StageSteps ==
    CubeNext /\ stage' = "released" => stage = "released" \/ (idle /\ UNCHANGED <<call, turns, idle>>)
<1> SUFFICES ASSUME CubeNext, stage' = "released"
             PROVE  stage = "released" \/ (idle /\ UNCHANGED <<call, turns, idle>>)
  OBVIOUS
<1>1. ASSUME WriterSteps
      PROVE  stage = "released" \/ (idle /\ UNCHANGED <<call, turns, idle>>)
  BY <1>1 DEF WriterSteps, QuietComes, GivesUp, WriteSkips, WriteEvicts, WriteLands, WriteFails,
     WriteNotes, WriteIndexes, Done, quiet, AtWork
<1>2. CASE Restarts
  BY <1>2 DEF Restarts
<1>3. ASSUME NEW c \in Callers, Looks(c) \/ Notes(c)
      PROVE  stage = "released"
  BY <1>3 DEF Looks, Notes
<1> QED
  BY <1>1, <1>2, <1>3, LineWriters

LEMMA TurnKept == TurnInv /\ CallInv /\ ProviderInv /\ IndexInv /\ CubeNext => TurnInv'
<1> SUFFICES ASSUME TurnInv, CallInv, ProviderInv, IndexInv, CubeNext PROVE TurnInv'
  OBVIOUS
<1>1. /\ turns = Cardinality(Active) /\ idle \in BOOLEAN /\ (idle => turns = 0)
      /\ stage = "released" => \A t \in Turns : ~At(t, "idle") => call[t].met
  BY DEF TurnInv, Active
<1> DEFINE Goal == /\ turns' = Cardinality(Active') /\ idle' \in BOOLEAN /\ (idle' => turns' = 0)
                   /\ stage' = "released" => \A t \in Turns : ~At(t, "idle")' => call'[t].met
<1>2. ASSUME NEW c \in Callers, CallerSteps(c), UNCHANGED <<turns, idle>>
      PROVE  Goal
  <2>1. /\ \A d \in Callers \ {c} : call'[d] = call[d]
        /\ call'[c].pc # "idle" /\ call[c].pc # "idle" /\ call'[c].met = call[c].met
    BY <1>2, CallStep DEF Becomes
  <2>2. \A t \in Turns : (At(t, "idle")' <=> At(t, "idle")) /\ call'[t].met = call[t].met
    BY <2>1, CubeConstants DEF At
  <2>3. Active' = Active
    BY <2>2 DEF Active
  <2>4. stage' = "released" => stage = "released" \/ idle
    BY StageSteps
  <2>5. idle => \A t \in Turns : At(t, "idle")
    BY <1>1, ActiveLaws DEF Active
  <2>6. turns' = Cardinality(Active')
    BY <1>1, <1>2, <2>3
  <2> QED
    BY <1>1, <1>2, <2>2, <2>4, <2>5, <2>6
<1>3. ASSUME NEW c \in Callers, NEW h \in Handles, Starts(c, h)
      PROVE  Goal
  <2>1. /\ \A d \in Callers \ {c} : call'[d] = call[d]
        /\ call'[c].pc # "idle" /\ call[c].pc = "idle" /\ call'[c].met = (stage = "released")
    BY <1>3, StartsCall DEF Becomes
  <2>2. stage' = stage /\ IF c \in Turns THEN turns' = turns + 1 /\ idle' = FALSE
                                         ELSE turns' = turns /\ idle' = idle
    BY <1>3 DEF Starts, writer, quiet
  <2>3. stage' = "released" => \A t \in Turns : ~At(t, "idle")' => call'[t].met
    BY <1>1, <2>1, <2>2, CubeConstants DEF At
  <2>4. CASE c \in Turns
    <3>1. c \notin Active /\ Active' = Active \cup {c}
      BY <2>1, <2>4, CubeConstants DEF Active, At
    <3>2. Cardinality(Active') = Cardinality(Active) + 1
      BY <3>1, ActiveLaws, FS_AddElement
    <3> QED
      BY <1>1, <2>2, <2>3, <2>4, <3>2
  <2>5. CASE c \notin Turns
    <3>1. Active' = Active
      BY <2>1, <2>5, CubeConstants DEF Active, At
    <3> QED
      BY <1>1, <2>2, <2>3, <2>5, <3>1
  <2> QED
    BY <2>4, <2>5
<1>4. ASSUME NEW c \in Callers, Ends(c)
      PROVE  Goal
  <2>1. /\ \A d \in Callers \ {c} : call'[d] = call[d]
        /\ call'[c].pc = "idle" /\ call[c].pc # "idle"
    BY <1>4, EndsCall DEF Becomes
  <2>2. /\ stage' = stage /\ turns' = TurnsLeft(c)
        /\ idle' = IF c \in Turns THEN idle \/ TurnsLeft(c) = 0 ELSE idle
    BY <1>4 DEF Ends, writer
  <2>3. stage' = "released" => \A t \in Turns : ~At(t, "idle")' => call'[t].met
    BY <1>1, <2>1, <2>2, CubeConstants DEF At
  <2>4. CASE c \in Turns
    <3>1. c \in Active /\ Active' = Active \ {c}
      BY <2>1, <2>4, CubeConstants DEF Active, At
    <3>2. Cardinality(Active') = Cardinality(Active) - 1
      BY <3>1, ActiveLaws, FS_RemoveElement
    <3>3. ~idle
      BY <1>1, <3>1, ActiveLaws
    <3>4. turns' = turns - 1 /\ (idle' <=> turns - 1 = 0) /\ idle' \in BOOLEAN
      BY <2>2, <2>4, <3>3 DEF TurnsLeft
    <3> QED
      BY <1>1, <2>3, <3>2, <3>4
  <2>5. CASE c \notin Turns
    <3>1. Active' = Active
      BY <2>1, <2>5, CubeConstants DEF Active, At
    <3> QED
      BY <1>1, <2>2, <2>3, <2>5, <3>1 DEF TurnsLeft
  <2> QED
    BY <2>4, <2>5
<1>5. ASSUME Restarts PROVE Goal
  <2>1. call' = [c \in Callers |-> Free] /\ turns' = 0 /\ idle' = TRUE /\ stage' = "waiting"
    BY <1>5 DEF Restarts
  <2>2. Active' = {}
    BY <2>1, FreeLaws, CubeConstants DEF Active, At
  <2>3. Cardinality(Active') = 0
    BY <2>2, FS_EmptySet
  <2>4. idle' \in BOOLEAN /\ turns' = 0 /\ stage' # "released"
    BY <2>1
  <2> QED
    BY <2>3, <2>4
<1>6. ASSUME UNCHANGED <<call, turns, idle>> PROVE Goal
  <2>1. Active' = Active /\ \A t \in Turns : (At(t, "idle")' <=> At(t, "idle")) /\ call'[t].met = call[t].met
    BY <1>6 DEF Active, At
  <2>2. stage' = "released" => stage = "released" \/ idle
    BY StageSteps
  <2>3. idle => \A t \in Turns : At(t, "idle")
    BY <1>1, ActiveLaws DEF Active
  <2>4. turns' = Cardinality(Active') /\ idle' = idle /\ turns' = turns
    BY <1>1, <1>6, <2>1
  <2>5. stage' = "released" => \A t \in Turns : ~At(t, "idle")' => call'[t].met
    BY <1>1, <2>1, <2>2, <2>3
  <2>6. idle' \in BOOLEAN /\ (idle' => turns' = 0)
    BY <1>1, <2>4
  <2> QED
    BY <2>4, <2>5, <2>6
<1> HIDE DEF Goal
<1>7. Goal
  <2>1. CASE \E c \in Callers : \/ CallerSteps(c) /\ UNCHANGED <<turns, idle>>
                               \/ Ends(c) \/ \E h \in Handles : Starts(c, h)
    BY <1>2, <1>3, <1>4, <2>1
  <2> QED
    BY <1>5, <1>6, <2>1, CallWriters
<1> QED
  BY <1>7 DEF Goal, TurnInv, Active

\* A cube comes to be only when the task at the head lands it, and a mark only
\* when a caller looks.
LEMMA WholeGrows ==
    ASSUME DiskInv, CubeNext, NEW k \in Keys, Whole(k)', ~Whole(k)
    PROVE  WriteLands /\ k = Job
<1>0. store \in [Keys -> {"none", "cube", "torn", "refused"}]
  BY DEF DiskInv
<1>1. ASSUME NEW i, LookupMisses(i) \/ RemoveEntries({i}) \/ Touch(i) \/ UNCHANGED disk
      PROVE  FALSE
  BY <1>1 DEF LookupMisses, RemoveEntries, Touch, disk, Whole
<1>2. ASSUME NEW c \in Callers, AskHits(c) \/ AskMisses(c)
      PROVE  FALSE
  BY <1>1, <1>2 DEF AskHits, AskMisses
<1>3. ASSUME NEW c \in Callers, Reconciles(c) \/ Looks(c)
      PROVE  FALSE
  BY <1>1, <1>3 DEF Reconciles, Looks
<1>4. ASSUME WriteEvicts
      PROVE  FALSE
  BY <1>4 DEF WriteEvicts, RemoveEntries, Whole
<1>5. ASSUME WriteFails
      PROVE  FALSE
  BY <1>0, <1>5 DEF WriteFails, disk, Whole
<1>6. ASSUME WriteLands, k # Job
      PROVE  FALSE
  BY <1>0, <1>6 DEF WriteLands, Whole
<1>7. ASSUME Restarts
      PROVE  FALSE
  BY <1>7 DEF Restarts, Whole
<1>8. CASE UNCHANGED <<store, size, lru, pipe>>
  BY <1>8 DEF Whole
<1> QED
  BY <1>2, <1>3, <1>4, <1>5, <1>6, <1>7, <1>8, DiskWriters

LEMMA MarkGrows ==
    ASSUME LineInv, CallInv, ProviderInv, CubeNext, NEW k \in inflight', k \notin inflight
    PROVE  \E c \in Callers : (Looks(c) \/ Notes(c)) /\ k = KeyFor(call[c].h, call[c].v)
<1>1. ASSUME WriterSteps
      PROVE  FALSE
  BY <1>1 DEF WriterSteps, QuietComes, GivesUp, WriteSkips, WriteEvicts, WriteLands, WriteFails,
     WriteNotes, WriteIndexes, Done
<1>2. CASE Restarts
  BY <1>2 DEF Restarts
<1>3. ASSUME NEW c \in Callers, Looks(c) \/ Notes(c)
      PROVE  k = KeyFor(call[c].h, call[c].v)
  BY <1>3 DEF Looks, Notes, Considers
<1> QED
  BY <1>1, <1>2, <1>3, LineWriters

LEMMA VersionKept ==
    VersionInv /\ DiskInv /\ LineInv /\ CallInv /\ ProviderInv /\ CubeNext => VersionInv'
<1> SUFFICES ASSUME VersionInv, DiskInv, LineInv, CallInv, ProviderInv, CubeNext,
                    NEW k \in Keys, Whole(k)' \/ k \in inflight'
             PROVE  VersionOf(k) <= delivered'[HandleOf(k)]
  BY DEF VersionInv, VersionOf, HandleOf
<1>1. /\ HandleOf(k) \in Handles /\ VersionOf(k) \in Nat
      /\ delivered[HandleOf(k)] <= delivered'[HandleOf(k)]
      /\ delivered[HandleOf(k)] \in Nat /\ delivered'[HandleOf(k)] \in Nat
  <2>1. HandleOf(k) \in Handles /\ VersionOf(k) \in Nat
    BY CubeConstants DEF HandleOf, VersionOf, Keys
  <2> QED
    BY <2>1, DeliveredGrows
<1>2. CASE Whole(k) \/ k \in inflight
  BY <1>1, <1>2 DEF VersionInv
<1>3. CASE Whole(k)' /\ ~Whole(k)
  <2>1. WriteLands /\ k = Job
    BY <1>3, WholeGrows
  <2>2. k \in inflight
    BY <2>1, JobLaws DEF WriteLands, AtWork
  <2> QED
    BY <1>2, <2>2
<1>4. CASE k \in inflight' /\ k \notin inflight
  <2>1. PICK c \in Callers : (Looks(c) \/ Notes(c)) /\ k = KeyFor(call[c].h, call[c].v)
    BY <1>4, MarkGrows
  <2>2. HandleOf(k) = call[c].h /\ VersionOf(k) = call[c].v
    <3>1. call[c].pc \in Holding
      BY <2>1 DEF Looks, Notes, At, Holding
    <3> QED
      BY <2>1, <3>1, HeldKey
  <2> QED
    BY <1>1, <2>2 DEF CallInv
<1> QED
  BY <1>2, <1>3, <1>4

\* Only a landing cube takes room.
LEMMA SizeShrinks ==
    ASSUME DiskInv, CubeNext, ~WriteLands, NEW k \in Keys
    PROVE  size'[k] <= size[k]
<1>0. size \in [Keys -> 0 .. CubeLimit] /\ size[k] \in Nat /\ 0 <= size[k]
  BY CubeConstants DEF DiskInv
<1>1. ASSUME NEW i, LookupMisses(i) \/ RemoveEntries({i}) \/ Touch(i) \/ UNCHANGED disk
      PROVE  size'[k] <= size[k]
  BY <1>0, <1>1 DEF LookupMisses, RemoveEntries, Touch, disk
<1>2. ASSUME NEW c \in Callers, AskHits(c) \/ AskMisses(c)
      PROVE  size'[k] <= size[k]
  BY <1>1, <1>2 DEF AskHits, AskMisses
<1>3. ASSUME NEW c \in Callers, Reconciles(c) \/ Looks(c)
      PROVE  size'[k] <= size[k]
  BY <1>1, <1>3 DEF Reconciles, Looks
<1>4. ASSUME WriteEvicts
      PROVE  size'[k] <= size[k]
  BY <1>0, <1>4 DEF WriteEvicts, RemoveEntries
<1>5. ASSUME WriteFails
      PROVE  size'[k] <= size[k]
  BY <1>0, <1>5 DEF WriteFails, disk
<1>6. ASSUME Restarts
      PROVE  size'[k] <= size[k]
  BY <1>0, <1>6 DEF Restarts
<1>7. CASE UNCHANGED <<store, size, lru, pipe>>
  BY <1>0, <1>7
<1> QED
  BY <1>2, <1>3, <1>4, <1>5, <1>6, <1>7, DiskWriters

LEMMA TotalShrinks ==
    ASSUME DiskInv, DiskInv', CubeNext, ~WriteLands
    PROVE  Total' <= Total /\ Total \in Nat /\ Total' \in Nat
<1>1. \A k \in Keys : size'[k] <= size[k] /\ size[k] \in Nat /\ size'[k] \in Nat
  BY SizeShrinks, CubeConstants DEF DiskInv
<1>2. Held(Keys)' \in SUBSET Held(Keys)
  <2>1. \A k \in Keys : 1 .. size'[k] \subseteq 1 .. size[k]
    BY <1>1
  <2> QED
    BY <2>1 DEF Held
<1>3. IsFiniteSet(Held(Keys)) /\ Total = Cardinality(Held(Keys)) /\ Total' = Cardinality(Held(Keys)')
  BY BytesLaws DEF Total, Bytes, Held
<1>4. IsFiniteSet(Held(Keys)')
  BY <1>2, <1>3, FS_Subset
<1> QED
  BY <1>2, <1>3, <1>4, FS_Subset, FS_CardinalityType

\* Eviction makes room for what comes, or empties the store.
LEMMA EvictedLaws ==
    ASSUME DiskInv, NEW incoming \in 1 .. CubeLimit
    PROVE  Bytes(Keys \ Evicted(incoming)) < Capacity
<1> DEFINE Coldest(n) == {lru[i] : i \in 1 .. n}
           enough == {n \in 0 .. Len(lru) : Bytes(Keys \ Coldest(n)) + incoming <= Capacity}
<1>0. /\ Capacity \in Nat /\ 0 < Capacity /\ incoming \in Nat /\ 1 <= incoming
      /\ \A n \in 0 .. Len(lru) : Bytes(Keys \ Coldest(n)) \in Nat
  <2>1. \A n : Keys \ Coldest(n) \in SUBSET Keys /\ Keys \in SUBSET Keys
    OBVIOUS
  <2> QED
    BY <2>1, CubeConstants, BytesLaws
<1>1. CASE enough = {}
  <2>1. Evicted(incoming) = Coldest(Len(lru))
    BY <1>1 DEF Evicted
  <2>2. Coldest(Len(lru)) = {k \in Keys : HasManifest(k)}
    <3>1. Coldest(Len(lru)) = ToSet(lru)
      BY DEF DiskInv, ToSet
    <3> QED
      BY <3>1 DEF DiskInv
  <2>3. \A k \in Keys \ Evicted(incoming) : size[k] = 0 /\ 1 .. size[k] = {}
    BY <2>1, <2>2, CubeConstants DEF DiskInv
  <2>4. Held(Keys \ Evicted(incoming)) = {}
    BY <2>3 DEF Held
  <2>5. Bytes(Keys \ Evicted(incoming)) = 0
    BY <2>4, FS_EmptySet DEF Held, Bytes
  <2> QED
    BY <1>0, <2>5
<1>2. CASE enough # {}
  <2>1. \E m \in enough : \A x \in enough : m <= x
    <3>1. enough \in SUBSET Nat
      BY DEF DiskInv
    <3> HIDE DEF enough
    <3> QED
      BY <1>2, <3>1, LeastNatural
  <2> DEFINE n == CHOOSE m \in enough : \A x \in enough : m <= x
  <2>2. n \in enough
    <3> HIDE DEF enough
    <3> QED
      BY <2>1
  <2>3. Evicted(incoming) = Coldest(n)
    BY <1>2 DEF Evicted
  <2> HIDE DEF n
  <2>4. n \in 0 .. Len(lru) /\ Bytes(Keys \ Coldest(n)) + incoming <= Capacity
    BY <2>2
  <2> HIDE DEF Coldest, enough
  <2> QED
    BY <1>0, <2>3, <2>4
<1> QED
  BY <1>1, <1>2

\* A landing cube adds its bytes.
LEMMA LandsLaws ==
    ASSUME DiskInv, DiskInv', LineInv, WriteLands
    PROVE  Total' <= Total + CubeLimit /\ Total \in Nat /\ Total' \in Nat
<1>1. Job \in Keys
  BY JobLaws DEF WriteLands, AtWork
<1>2. PICK bytes \in Sizes : bytes <= CubeLimit /\ size' = [size EXCEPT ![Job] = bytes]
  BY DEF WriteLands
<1>3. /\ size \in [Keys -> 0 .. CubeLimit] /\ bytes \in Nat /\ CubeLimit \in Nat
      /\ store[Job] = "none" /\ size[Job] = 0
  BY <1>1, <1>2, CubeConstants DEF DiskInv, WriteLands, HasManifest
<1> DEFINE added == {Job} \X (1 .. bytes)
<1>4. Held(Keys)' \in SUBSET (Held(Keys) \cup added)
  <2>1. \A k \in Keys : size'[k] = IF k = Job THEN bytes ELSE size[k]
    BY <1>1, <1>2, <1>3
  <2> QED
    BY <2>1 DEF Held
<1>5. IsFiniteSet(added) /\ Cardinality(added) = bytes
  <2>1. IsFiniteSet(1 .. bytes) /\ Cardinality(1 .. bytes) = bytes
    BY <1>3, FS_Interval
  <2>2. IsFiniteSet({Job}) /\ Cardinality({Job}) = 1
    BY FS_Singleton
  <2>3. IsFiniteSet(added) /\ Cardinality(added) = Cardinality({Job}) * Cardinality(1 .. bytes)
    BY <2>1, <2>2, FS_Product
  <2> QED
    BY <1>3, <2>1, <2>2, <2>3
<1>6. IsFiniteSet(Held(Keys)) /\ Total = Cardinality(Held(Keys)) /\ Total' = Cardinality(Held(Keys)')
  BY BytesLaws DEF Total, Bytes, Held
<1> HIDE DEF added
<1> DEFINE all == Held(Keys) \cup added
<1>7. /\ IsFiniteSet(all) /\ IsFiniteSet(Held(Keys) \cap added)
      /\ Cardinality(all) = Cardinality(Held(Keys)) + Cardinality(added) - Cardinality(Held(Keys) \cap added)
  <2>1. Held(Keys) \cap added \in SUBSET added
    OBVIOUS
  <2> QED
    BY <1>5, <1>6, <2>1, FS_Union, FS_Subset
<1>8. IsFiniteSet(Held(Keys)') /\ Cardinality(Held(Keys)') <= Cardinality(all)
  <2> HIDE DEF all
  <2>1. Held(Keys)' \in SUBSET all
    BY <1>4 DEF all
  <2> QED
    BY <1>7, <2>1, FS_Subset
<1>9. /\ Cardinality(Held(Keys) \cap added) \in Nat /\ Cardinality(Held(Keys)) \in Nat
      /\ Cardinality(Held(Keys)') \in Nat
  BY <1>6, <1>7, <1>8, FS_CardinalityType
<1> QED
  BY <1>2, <1>3, <1>5, <1>6, <1>7, <1>8, <1>9

LEMMA RoomKept == RoomInv /\ DiskInv /\ DiskInv' /\ LineInv /\ CubeNext => RoomInv'
<1> SUFFICES ASSUME RoomInv, DiskInv, DiskInv', LineInv, CubeNext PROVE RoomInv'
  OBVIOUS
<1>0. Capacity \in Nat /\ CubeLimit \in 1 .. Capacity
  BY CubeConstants
<1>1. CASE WriteLands
  <2>1. stage = "staged" /\ stage' = "noting"
    BY <1>1 DEF WriteLands, AtWork
  <2> QED
    BY <1>0, <1>1, <2>1, LandsLaws DEF RoomInv
<1>2. CASE WriteEvicts
  <2>1. PICK estimate \in Estimates : RemoveEntries(Evicted(Smaller(estimate, CubeLimit)))
    BY <1>2 DEF WriteEvicts
  <2>2. Smaller(estimate, CubeLimit) \in 1 .. CubeLimit
    BY CubeConstants DEF Smaller
  <2>3. pipe' = pipe /\ Total' = Bytes(Keys \ Evicted(Smaller(estimate, CubeLimit)))
    <3>1. pipe' = pipe
      BY <1>2 DEF WriteEvicts
    <3> QED
      BY <2>1, <3>1, RemoveLaws
  <2>4. Total' < Capacity
    BY <2>2, <2>3, EvictedLaws
  <2>5. Total' \in Nat
    BY <1>2, TotalShrinks DEF WriteEvicts, WriteLands, AtWork
  <2> QED
    BY <1>0, <2>4, <2>5 DEF RoomInv
<1>3. CASE ~WriteLands /\ ~WriteEvicts
  <2>1. Total' <= Total /\ Total \in Nat /\ Total' \in Nat
    BY <1>3, TotalShrinks
  <2>2. stage' = "staged" => stage = "staged"
    <3>1. ASSUME WriterSteps
          PROVE  stage' = "staged" => stage = "staged"
      BY <1>3, <3>1 DEF WriterSteps, QuietComes, GivesUp, WriteSkips, WriteFails, WriteNotes,
         WriteIndexes, Done
    <3>2. Restarts => stage' = "waiting"
      BY DEF Restarts
    <3>3. ASSUME NEW c \in Callers, Looks(c) \/ Notes(c)
          PROVE  stage' = stage
      BY <3>3 DEF Looks, Notes
    <3> QED
      BY <3>1, <3>2, <3>3, LineWriters
  <2> QED
    BY <1>0, <2>1, <2>2 DEF RoomInv
<1> QED
  BY <1>1, <1>2, <1>3

\* While nothing is delivered, no cube becomes stale but one that lands.
LEMMA StaleShrinks ==
    ASSUME DiskInv, CubeNext, NEW h \in Handles, delivered'[h] = delivered[h],
           WriteLands /\ HandleOf(Job) = h => VersionOf(Job) = delivered[h]
    PROVE  Stale(h)' \subseteq Stale(h)
<1> SUFFICES ASSUME NEW k \in Stale(h)' PROVE k \in Stale(h)
  OBVIOUS
<1>1. k \in Keys /\ HandleOf(k) = h /\ Whole(k)' /\ VersionOf(k) # delivered[h]
  BY DEF Stale, HandleOf, VersionOf
<1>2. Whole(k)
  BY <1>1, WholeGrows
<1> QED
  BY <1>1, <1>2 DEF Stale

\* A step that neither brings content of h nor lists an entry of h, and after
\* which nobody holds the content just delivered, leaves h settled.
LEMMA SettledStays ==
    ASSUME NEW h \in Handles, Settled(h), Stale(h)' \subseteq Stale(h), index'[h] = index[h],
           delivered'[h] = delivered[h], call' = call,
           \A k \in inflight' : HandleOf(k) = h => k \in inflight \/ VersionOf(k) # delivered[h]
    PROVE  Settled(h)'
<1>1. \A c \in Callers : Bringing(c, h)' <=> Bringing(c, h)
  BY DEF Bringing, At
<1>2. Stale(h)' \subseteq {index'[h]}
  BY DEF Settled
<1>3. \A c \in Callers : call'[c].h = h /\ call'[c].pc \in Past => call'[c].v # delivered'[h]
  BY DEF Settled
<1>4. \A k \in inflight' : HandleOf(k) = h => VersionOf(k) # delivered'[h]
  BY DEF Settled
<1> QED
  BY <1>1, <1>2, <1>3, <1>4 DEF Settled, HandleOf, VersionOf

LEMMA SettledStaysFor ==
    ASSUME NEW h \in Handles, NEW c \in Callers, Settled(h), Stale(h)' \subseteq Stale(h),
           index'[h] = index[h], delivered'[h] = delivered[h],
           \A d \in Callers \ {c} : call'[d] = call[d],
           Bringing(c, h) => Bringing(c, h)',
           call'[c].h = h /\ call'[c].pc \in Past => call'[c].v # delivered[h],
           \A k \in inflight' : HandleOf(k) = h => k \in inflight \/ VersionOf(k) # delivered[h]
    PROVE  Settled(h)'
<1>1. \A d \in Callers : Bringing(d, h) => Bringing(d, h)'
  <2>1. \A d \in Callers \ {c} : Bringing(d, h)' <=> Bringing(d, h)
    BY DEF Bringing, At
  <2> QED
    BY <2>1
<1>2. Stale(h)' \subseteq {index'[h]}
  BY DEF Settled
<1>3. \A d \in Callers : call'[d].h = h /\ call'[d].pc \in Past => call'[d].v # delivered'[h]
  BY DEF Settled
<1>4. \A k \in inflight' : HandleOf(k) = h => VersionOf(k) # delivered'[h]
  BY DEF Settled
<1>5. \E d \in Callers : Bringing(d, h)'
  BY <1>1 DEF Settled
<1> QED
  BY <1>2, <1>3, <1>4, <1>5 DEF Settled, HandleOf, VersionOf

\* The provider delivers other content: what was whole and listed is now stale,
\* and the caller it was delivered for will find it.
LEMMA RematerialisesSettles ==
    ASSUME ProviderInv, IndexInv, LineInv, CallInv, VersionInv, DiskInv, StaleInv, CubeNext,
           NEW c \in Callers, Rematerialises(c), NEW h \in Handles \ raced', Stale(h)' # {}
    PROVE  Settled(h)'
<1>1. PICK v \in {delivered[call[c].h]} \cup {delivered[call[c].h] + 1}, ok \in BOOLEAN :
        /\ delivered' = [delivered EXCEPT ![call[c].h] = v]
        /\ Goes(c, IF ok THEN "reexports" ELSE "failed")
        /\ raced' = IF v # delivered[call[c].h]
                       /\ (Unindexed(call[c].h) \/ (~ok /\ index[call[c].h] # NoKey))
                    THEN raced \cup {call[c].h} ELSE raced
  BY DEF Rematerialises
<1>2. index' = index /\ inflight' = inflight /\ store' = store
  BY DEF Rematerialises, writer, disk
<1>3. /\ \A d \in Callers \ {c} : call'[d] = call[d]
      /\ call[c].pc = "recovers" /\ call'[c].h = call[c].h /\ call'[c].pc \notin Past
      /\ call'[c].v = call[c].v
  BY RematerialisesCall DEF Becomes, Past
<1>4. /\ call[c].h \in Handles /\ h \notin raced /\ ~Bringing(c, h)
      /\ delivered[call[c].h] \in Nat /\ delivered'[call[c].h] = v
      /\ \A g \in Handles \ {call[c].h} : delivered'[g] = delivered[g]
  BY <1>1, <1>3, CallParts DEF Bringing, At, ProviderInv
<1>5. CASE delivered'[h] = delivered[h]
  <2>1. Stale(h)' \subseteq Stale(h)
    BY <1>2, <1>5 DEF Stale, Whole, HandleOf, VersionOf
  <2>2. Settled(h)
    BY <1>4, <2>1 DEF StaleInv
  <2> QED
    BY <1>2, <1>3, <1>4, <1>5, <2>1, <2>2, SettledStaysFor
<1>6. CASE delivered'[h] # delivered[h]
  <2>1. h = call[c].h /\ v = delivered[h] + 1 /\ delivered[h] \in Nat /\ delivered'[h] = v
    BY <1>1, <1>4, <1>6
  <2>2. ~Unindexed(h) /\ (ok \/ index[h] = NoKey)
    BY <1>1, <1>4, <2>1
  <2>3. \A k \in Keys : HandleOf(k) = h /\ Whole(k) => index[h] = k
    BY <2>2 DEF Unindexed
  <2>4. Stale(h)' \subseteq {index'[h]}
    BY <1>2, <2>3 DEF Stale, Whole, HandleOf, VersionOf
  <2>5. index[h] # NoKey
    <3>1. PICK k \in Keys : k \in Stale(h)'
      BY DEF Stale
    <3> QED
      BY <1>2, <2>4, <3>1, CubeConstants
  <2>6. Bringing(c, h)'
    BY <1>1, <1>3, <2>1, <2>2, <2>5, CallParts DEF Bringing, At, Goes
  <2>7. \A d \in Callers : call'[d].h = h => call'[d].v # delivered'[h]
    <3>1. \A d \in Callers : call'[d].h = call[d].h /\ call'[d].v = call[d].v
      BY <1>3
    <3>2. \A d \in Callers : call[d].v \in Nat /\ call[d].v <= delivered[call[d].h]
      BY CubeConstants DEF CallInv, Calls
    <3> QED
      BY <2>1, <3>1, <3>2
  <2>8. \A k \in inflight' : HandleOf(k) = h => VersionOf(k) # delivered'[h]
    <3>1. \A k \in inflight : HandleOf(k) = h => VersionOf(k) <= delivered[h] /\ VersionOf(k) \in Nat
      BY CubeConstants DEF VersionInv, LineInv, VersionOf, Keys
    <3> QED
      BY <1>2, <2>1, <3>1
  <2> QED
    BY <2>4, <2>6, <2>7, <2>8 DEF Settled, HandleOf, VersionOf
<1> QED
  BY <1>5, <1>6

LEMMA ReconcilesSettles ==
    ASSUME ProviderInv, IndexInv, LineInv, CallInv, DiskInv, StaleInv, CubeNext,
           NEW c \in Callers, Reconciles(c), NEW h \in Handles \ raced', Stale(h)' # {}
    PROVE  Settled(h)'
<1> DEFINE g == call[c].h
           k == KeyFor(g, call[c].v)
           was == index[g]
<1>1. /\ \A d \in Callers \ {c} : call'[d] = call[d]
      /\ call[c].pc = "opens" /\ call'[c].h = g /\ call'[c].v = call[c].v
      /\ g \in Handles
  BY ReconcilesCall, CallParts DEF Becomes
<1>2. /\ delivered' = delivered /\ inflight' = inflight /\ VersionOf(k) = call[c].v
      /\ index' = index
  BY DEF Reconciles, provider, writer, VersionOf, KeyFor
<1>3. Stale(h)' \subseteq Stale(h)
  <2>1. ~WriteLands
    BY <1>1, <1>2 DEF Reconciles, WriteLands, AtWork, writer
  <2> QED
    BY <1>2, <2>1, StaleShrinks
<1>4. CASE was \notin {NoKey, k}
  <2>1. /\ RemoveEntries({was}) /\ pipe' = pipe
        /\ raced' = IF Stale(g) \subseteq {was} THEN raced \ {g} ELSE raced
    BY <1>4 DEF Reconciles
  <2>2. CASE h = g
    <3>1. Stale(g) \subseteq {was}
      BY <1>3, <2>1, <2>2 DEF StaleInv, Settled
    <3>2. \A i \in Keys : Whole(i)' => i # was
      BY <2>1, RemoveLaws
    <3> QED
      BY <1>3, <2>2, <3>1, <3>2 DEF Stale
  <2>3. CASE h # g
    <3>1. index'[h] = index[h] /\ h \notin raced
      BY <1>2, <2>1, <2>3
    <3>2. Settled(h)
      BY <1>3, <3>1 DEF StaleInv
    <3>3. ~Bringing(c, h)
      BY <2>3 DEF Bringing
    <3> QED
      BY <1>1, <1>2, <1>3, <2>3, <3>1, <3>2, <3>3, SettledStaysFor
  <2> QED
    BY <2>2, <2>3
<1>5. CASE was \in {NoKey, k}
  <2>1. raced' = raced
    BY <1>5 DEF Reconciles
  <2>2. Settled(h) /\ Stale(h) # {} /\ Stale(h) \subseteq {index[h]}
    BY <1>3, <2>1 DEF StaleInv, Settled
  <2>3. h = g => call[c].v # delivered[h]
    <3>1. PICK i \in Keys : i \in Stale(h)
      BY <2>2 DEF Stale
    <3>2. i = index[h] /\ VersionOf(i) # delivered[h] /\ i # NoKey
      BY <2>2, <3>1, CubeConstants DEF Stale
    <3> QED
      BY <1>2, <1>5, <3>2
  <2>4. ~Bringing(c, h)
    BY <1>1, <2>3 DEF Bringing, At
  <2> QED
    BY <1>1, <1>2, <1>3, <2>1, <2>2, <2>3, <2>4, SettledStaysFor
<1> QED
  BY <1>4, <1>5

\* A call that is past reconciling, with the content of h or of another handle.
LEMMA PastSettles ==
    ASSUME ProviderInv, IndexInv, LineInv, CallInv, DiskInv, StaleInv, CubeNext,
           NEW c \in Callers, Drops(c) \/ Looks(c) \/ Notes(c), NEW h \in Handles \ raced',
           Stale(h)' # {}
    PROVE  Settled(h)'
<1> DEFINE g == call[c].h
           k == KeyFor(g, call[c].v)
<1>1. /\ \A d \in Callers \ {c} : call'[d] = call[d]
      /\ call[c].pc \in Past /\ call[c].pc \in Holding /\ ~Bringing(c, h)
      /\ call'[c].h = g /\ call'[c].v = call[c].v
  BY DropsCall, LooksCall, NotesCall DEF Becomes, Bringing, At, Past, Holding
<1>2. delivered' = delivered /\ raced \subseteq raced' /\ stage' = stage
  BY DEF Drops, Looks, Notes, NoteBack, provider, writer, Witness
<1>3. Stale(h)' \subseteq Stale(h)
  <2>1. ~WriteLands
    BY <1>2 DEF WriteLands, AtWork
  <2> QED
    BY <1>2, <2>1, StaleShrinks
<1>4. Settled(h) /\ Stale(h) # {}
  BY <1>2, <1>3 DEF StaleInv
<1>5. h = g => call[c].v # delivered[h]
  BY <1>1, <1>4 DEF Settled
<1>6. index'[h] = index[h]
  <2>1. CASE Looks(c)
    BY <2>1 DEF Looks
  <2>2. CASE Drops(c) \/ Notes(c)
    <3>1. PICK i : NoteBack(c, i)
      BY <2>2 DEF Drops, Notes
    <3> QED
      BY <1>4, <3>1 DEF NoteBack, Hidden
  <2> QED
    BY <2>1, <2>2
<1>7. \A i \in inflight' : HandleOf(i) = h => i \in inflight \/ VersionOf(i) # delivered[h]
  <2>1. inflight' \subseteq inflight \cup {k}
    BY DEF Drops, Looks, Notes, Considers, writer
  <2>2. HandleOf(k) = g /\ VersionOf(k) = call[c].v
    BY <1>1, HeldKey
  <2> QED
    BY <1>5, <2>1, <2>2
<1> QED
  BY <1>1, <1>2, <1>3, <1>4, <1>5, <1>6, <1>7, SettledStaysFor

LEMMA WriterSettles ==
    ASSUME ProviderInv, IndexInv, LineInv, CallInv, DiskInv, StaleInv, CubeNext,
           WriterSteps, NEW h \in Handles \ raced', Stale(h)' # {}
    PROVE  Settled(h)'
<1>1. delivered' = delivered /\ call' = call /\ raced \subseteq raced' /\ inflight' \subseteq inflight
  BY DEF WriterSteps, QuietComes, GivesUp, WriteSkips, WriteEvicts, WriteLands, WriteFails,
     WriteNotes, WriteIndexes, Done, provider, Witness
<1>2. line # <<>> /\ Job \in inflight
  BY JobLaws DEF WriterSteps, QuietComes, GivesUp, WriteSkips, WriteEvicts, WriteLands, WriteFails,
     WriteNotes, WriteIndexes, AtWork
<1>3. WriteLands \/ WriteIndexes => (HandleOf(Job) = h => VersionOf(Job) = delivered[h])
  BY DEF WriteLands, WriteIndexes, Witness, Unsettled
<1>4. Stale(h)' \subseteq Stale(h)
  BY <1>1, <1>3, StaleShrinks
<1>5. Settled(h) /\ Stale(h) # {}
  BY <1>1, <1>4 DEF StaleInv
<1>7. index'[h] = index[h]
  <2>1. CASE WriteIndexes
    <3>1. h \notin Hidden(index')
      BY <2>1 DEF WriteIndexes
    <3> QED
      BY <1>5, <3>1 DEF Hidden
  <2>2. CASE ~WriteIndexes
    BY <2>2 DEF WriterSteps, QuietComes, GivesUp, WriteSkips, WriteEvicts, WriteLands, WriteFails,
       WriteNotes
  <2> QED
    BY <2>1, <2>2
<1> QED
  BY <1>1, <1>4, <1>5, <1>7, SettledStays

\* The other steps of a caller deliver nothing and look at nothing delivered.
LEMMA CallersSettle ==
    ASSUME ProviderInv, IndexInv, LineInv, CallInv, DiskInv, StaleInv, CubeNext, NEW c \in Callers,
           \/ AskHits(c) \/ AskMisses(c) \/ AskForgets(c) \/ Forgets(c) \/ Reexports(c) \/ Ends(c)
           \/ \E g \in Handles : Starts(c, g),
           NEW h \in Handles \ raced', Stale(h)' # {}
    PROVE  Settled(h)'
<1>1. /\ delivered' = delivered /\ raced \subseteq raced' /\ inflight' = inflight
      /\ line' = line /\ stage' = stage
  BY DEF AskHits, AskMisses, AskForgets, Forgets, NoteBack, Reexports, Ends, Starts, provider, writer
<1>2. Stale(h)' \subseteq Stale(h)
  <2>1. ~WriteLands
    BY <1>1 DEF WriteLands, AtWork
  <2> QED
    BY <1>1, <2>1, StaleShrinks
<1>3. Settled(h) /\ Stale(h) # {}
  BY <1>1, <1>2 DEF StaleInv
<1>4. \A d \in Callers \ {c} : call'[d] = call[d]
  BY CallStep, EndsCall, StartsCall DEF Becomes, CallerSteps
<1>5. call'[c].pc \notin Past
  <2>1. Reexports(c) => call'[c].pc \notin Past
    BY ReexportsCall DEF Becomes, Past
  <2>2. AskHits(c) \/ AskMisses(c) \/ AskForgets(c) \/ Forgets(c) => call'[c].pc \notin Past
    BY AskHitsCall, AskMissesCall, AskForgetsCall DEF Becomes, Past
  <2>3. Ends(c) \/ (\E g \in Handles : Starts(c, g)) => call'[c].pc \notin Past
    BY EndsCall, StartsCall DEF Becomes, Past
  <2> QED
    BY <2>1, <2>2, <2>3
<1>6. Bringing(c, h) => Bringing(c, h)'
  <2>1. CASE Reexports(c)
    <3>1. ready[call[c].h] => call'[c].pc = "opens"
      <4>1. ready[call[c].h] => call' = [call EXCEPT ![c].pc = "opens", ![c].v = delivered[call[c].h]]
        BY <2>1 DEF Reexports
      <4> QED
        BY <4>1, CallParts DEF Calls
    <3>2. call'[c].h = call[c].h /\ (call'[c].pc = "opens" => call'[c].v = delivered[call[c].h])
      BY <2>1, ReexportsCall
    <3>3. ~ready[call[c].h] => call[c].h # h
      BY <1>3, <2>1 DEF Reexports
    <3> QED
      BY <1>1, <3>1, <3>2, <3>3 DEF Bringing, At
  <2>2. CASE ~Reexports(c)
    BY <2>2 DEF AskHits, AskMisses, AskForgets, Forgets, Ends, Starts, Bringing, At
  <2> QED
    BY <2>1, <2>2
<1>7. index'[h] = index[h]
  <2>1. ~Forgets(c) => index' = index
    BY DEF AskHits, AskMisses, AskForgets, Reexports, Ends, Starts
  <2>2. CASE Forgets(c)
    BY <1>3, <2>2 DEF Forgets, NoteBack, Hidden
  <2> QED
    BY <2>1, <2>2
<1> QED
  BY <1>1, <1>2, <1>3, <1>4, <1>5, <1>6, <1>7, SettledStaysFor

LEMMA StaleKept ==
    StaleInv /\ ProviderInv /\ DiskInv /\ IndexInv /\ LineInv /\ CallInv /\ VersionInv /\ CubeNext
      => StaleInv'
<1> SUFFICES ASSUME StaleInv, ProviderInv, DiskInv, IndexInv, LineInv, CallInv, VersionInv,
                    CubeNext,
                    NEW h \in Handles \ raced', Stale(h)' # {}
             PROVE  Settled(h)'
  BY DEF StaleInv, Settled, Stale, HandleOf, VersionOf
<1>1. ASSUME NEW c \in Callers, CallerSteps(c) \/ Ends(c)
      PROVE  Settled(h)'
  BY <1>1, RematerialisesSettles, ReconcilesSettles, PastSettles, CallersSettle DEF CallerSteps
<1>2. ASSUME NEW c \in Callers, NEW g \in Handles, Starts(c, g)
      PROVE  Settled(h)'
  BY <1>2, CallersSettle
<1>3. CASE WriterSteps
  BY <1>3, WriterSettles
<1>4. ASSUME NEW g \in Replayed, Expires(g)
      PROVE  Settled(h)'
  <2>1. UNCHANGED <<delivered, store, index, inflight, call, raced>>
    BY <1>4 DEF Expires, disk, writer
  <2>2. Stale(h)' \subseteq Stale(h)
    BY <2>1 DEF Stale, Whole, HandleOf, VersionOf
  <2>3. Settled(h)
    BY <2>1, <2>2 DEF StaleInv
  <2> QED
    BY <2>1, <2>2, <2>3, SettledStays
<1>5. CASE Restarts
  <2>1. /\ delivered' = delivered
        /\ raced' = raced \cup {call[c].h : c \in {d \in Callers : At(d, "reexports") \/ At(d, "opens")}}
    BY <1>5 DEF Restarts, provider
  <2>2. Stale(h)' \subseteq Stale(h)
    <3>1. \A k \in Keys : Whole(k)' => Whole(k)
      BY <1>5 DEF Restarts, Whole
    <3> QED
      BY <2>1, <3>1 DEF Stale, HandleOf, VersionOf
  <2>3. Settled(h)
    BY <2>1, <2>2 DEF StaleInv
  <2>4. PICK c \in Callers : Bringing(c, h)
    BY <2>3 DEF Settled
  <2>5. h \in raced'
    BY <2>1, <2>4 DEF Bringing
  <2> QED
    BY <2>5
<1> QED
  BY <1>1, <1>2, <1>3, <1>4, <1>5 DEF CubeNext

-----------------------------------------------------------------------------
(* The invariant and what it gives. *)

LEMMA CubeStarts == CubeInit => CubeIInv
<1> SUFFICES ASSUME CubeInit PROVE CubeIInv
  OBVIOUS
<1>1. ProviderInv
  BY CubeConstants DEF CubeInit, ProviderInv
<1>2. DiskInv /\ \A k \in Keys : size[k] = 0
  <2>1. /\ store = [k \in Keys |-> "none"] /\ size = [k \in Keys |-> 0] /\ lru = << >>
    BY DEF CubeInit
  <2>2. lru \in Seq(Keys) /\ IsInjective(lru) /\ ToSet(lru) = {}
    BY <2>1 DEF IsInjective, ToSet
  <2>3. \A k \in Keys : ~HasManifest(k) /\ size[k] = 0 /\ size[k] \in 0 .. CubeLimit
    BY <2>1, CubeConstants DEF HasManifest
  <2> QED
    BY <2>1, <2>2, <2>3 DEF DiskInv
<1>3. IndexInv
  BY DEF CubeInit, IndexInv, Empty
<1>4. LineInv
  <2>1. /\ opens = [k \in Keys |-> IF VersionOf(k) = 1 THEN OpenedBefore ELSE 0]
        /\ inflight = {} /\ line = << >> /\ stage = "waiting"
    BY DEF CubeInit
  <2>2. line \in Seq(Keys) /\ IsInjective(line) /\ ToSet(line) = {}
    BY <2>1 DEF IsInjective, ToSet
  <2>3. opens \in [Keys -> 0 .. 2]
    BY <2>1, CubeConstants
  <2> QED
    BY <2>1, <2>2, <2>3 DEF LineInv
<1>5. CallInv
  <2>1. call = [c \in Callers |-> Free] /\ Free.h \in Handles
    BY FreeLaws DEF CubeInit, Calls
  <2> QED
    BY <1>1, <2>1, FreeLaws, CubeConstants DEF CallInv, ProviderInv, Holding
<1>6. VersionInv
  BY DEF CubeInit, VersionInv, Whole
<1>7. TurnInv
  <2>1. call = [c \in Callers |-> Free] /\ turns = 0 /\ idle = TRUE /\ stage = "waiting"
    BY DEF CubeInit
  <2>2. {t \in Turns : ~At(t, "idle")} = {}
    BY <2>1, FreeLaws, CubeConstants DEF At
  <2>3. Cardinality({t \in Turns : ~At(t, "idle")}) = 0
    BY <2>2, FS_EmptySet
  <2>4. idle \in BOOLEAN /\ turns = 0 /\ stage # "released"
    BY <2>1
  <2> QED
    BY <2>3, <2>4 DEF TurnInv
<1>8. RoomInv
  <2>1. Held(Keys) = {}
    <3>1. \A k \in Keys : 1 .. size[k] = {}
      BY <1>2
    <3> QED
      BY <3>1 DEF Held
  <2>2. Total = 0
    BY <2>1, FS_EmptySet DEF Total, Bytes, Held
  <2> QED
    BY <2>2, CubeConstants DEF RoomInv
<1>9. StaleInv
  BY DEF CubeInit, StaleInv, Stale, Whole
<1> QED
  BY <1>1, <1>2, <1>3, <1>4, <1>5, <1>6, <1>7, <1>8, <1>9 DEF CubeIInv

LEMMA CubeKept == CubeIInv /\ CubeNext => CubeIInv'
<1> SUFFICES ASSUME CubeIInv, CubeNext PROVE CubeIInv'
  OBVIOUS
<1>1. /\ ProviderInv /\ DiskInv /\ IndexInv /\ LineInv /\ CallInv /\ VersionInv /\ TurnInv
      /\ RoomInv /\ StaleInv
  BY DEF CubeIInv
<1>2. ProviderInv' /\ DiskInv' /\ IndexInv' /\ LineInv' /\ CallInv' /\ VersionInv'
  BY <1>1, ProviderKept, DiskKept, IndexKept, LineKept, CallKept, VersionKept
<1>3. TurnInv' /\ RoomInv' /\ StaleInv'
  BY <1>1, <1>2, TurnKept, RoomKept, StaleKept
<1> QED
  BY <1>2, <1>3 DEF CubeIInv

LEMMA CubeStutters == CubeIInv /\ UNCHANGED cubeVars => CubeIInv'
<1> SUFFICES ASSUME CubeIInv, UNCHANGED cubeVars PROVE CubeIInv'
  OBVIOUS
<1>1. UNCHANGED <<delivered, ready, expiries, pipe, store, size, lru, index, seen, opens, inflight,
                  line, stage, snap, turns, idle, call, opened, raced>>
  BY DEF cubeVars, provider, disk, writer, quiet
<1>2. ProviderInv' /\ DiskInv' /\ IndexInv'
  BY <1>1 DEF CubeIInv, ProviderInv, DiskInv, IndexInv, HasManifest, Whole, HandleOf
<1>3. LineInv' /\ CallInv' /\ VersionInv'
  BY <1>1 DEF CubeIInv, LineInv, CallInv, VersionInv, HasManifest, Whole
<1>4. TurnInv' /\ RoomInv'
  BY <1>1 DEF CubeIInv, TurnInv, RoomInv, At, Total, Bytes
<1>5. StaleInv'
  BY <1>1 DEF CubeIInv, StaleInv, Settled, Stale, Bringing, Whole, At
<1> QED
  BY <1>2, <1>3, <1>4, <1>5 DEF CubeIInv

\* The inductive invariant: who holds which version, what takes room, and why a
\* stale cube is always in somebody's way to be reconciled.
THEOREM CubeInvariant == CubeSpec => []CubeIInv
<1>1. CubeInit => CubeIInv
  BY CubeStarts
<1>2. CubeIInv /\ [CubeNext]_cubeVars => CubeIInv'
  BY CubeKept, CubeStutters
<1> QED
  BY <1>1, <1>2, PTL DEF CubeSpec

\* An index entry is stale only after a race that is named, the store stays
\* within its capacity and one write, and a key marked as being written has
\* exactly one task, whatever expires, fails, is evicted or restarts.
THEOREM CubesStayAccounted == CubeSpec => []CubesAreAccounted
<1>1. CubeIInv => CubesAreAccounted
  <2> SUFFICES ASSUME CubeIInv PROVE CubesAreAccounted
    OBVIOUS
  <2>0. /\ ProviderInv /\ DiskInv /\ IndexInv /\ LineInv /\ CallInv /\ VersionInv /\ TurnInv
        /\ RoomInv /\ StaleInv
    BY DEF CubeIInv
  <2>1. CubeTypeOK
    BY <2>0, CubeTypesFromParts
  <2>2. StaleIndexNeedsARace
    <3> SUFFICES ASSUME NEW h \in Handles, index[h] # NoKey, store[index[h]] = "cube",
                        VersionOf(index[h]) # delivered[h], h \notin raced
                 PROVE  \E c \in Callers : call[c].h = h /\ call[c].pc \in {"reexports", "opens"}
      BY DEF StaleIndexNeedsARace
    <3>1. index[h] \in Stale(h)
      BY <2>0 DEF IndexInv, Stale, Whole
    <3>2. Settled(h)
      BY <2>0, <3>1 DEF StaleInv
    <3> QED
      BY <3>2 DEF Settled, Bringing, At
  <2>3. StoreBounded
    BY <2>0 DEF RoomInv, StoreBounded
  <2>4. MarksHaveTasks
    <3>1. ToSet(line) = {line[i] : i \in 1 .. Len(line)}
      BY <2>0 DEF LineInv, ToSet
    <3>2. \A i, j \in 1 .. Len(line) : line[i] = line[j] => i = j
      BY <2>0 DEF LineInv, IsInjective
    <3> QED
      BY <2>0, <3>1, <3>2 DEF LineInv, MarksHaveTasks
  <2> QED
    BY <2>1, <2>2, <2>3, <2>4 DEF CubesAreAccounted
<1> QED
  BY <1>1, CubeInvariant, PTL

\* A look-up hands out nothing but a whole cube of the running pipeline's
\* version, and no eviction takes a cube while a turn that began before the
\* writer saw the process quiet may be reading it.
THEOREM CubesStayPut == CubeSpec => CubesStay
<1> DEFINE Served == \A c \in Callers :
                        call'[c].key # call[c].key /\ call'[c].key # NoKey
                          => store[call'[c].key] = "cube" /\ call'[c].key[3] = pipe
           Exempt == \A t \in Turns :
                        WriteEvicts /\ ~At(t, "idle") /\ call[t].key # NoKey /\ ~call[t].met
                          => store'[call[t].key] = store[call[t].key]
<1>1. CubeIInv /\ CubeNext => Served
  <2> SUFFICES ASSUME CubeIInv, CubeNext, NEW c \in Callers,
                      call'[c].key # call[c].key, call'[c].key # NoKey
               PROVE  store[call'[c].key] = "cube" /\ call'[c].key[3] = pipe
    OBVIOUS
  <2>0. ProviderInv /\ DiskInv /\ IndexInv /\ LineInv /\ CallInv
    BY DEF CubeIInv
  <2>1. \A d \in Callers : CallerSteps(d) \/ Ends(d) \/ (\E h \in Handles : Starts(d, h)) => d = c
    BY <2>0, CallStep, EndsCall, StartsCall DEF Becomes
  <2>2. ~Ends(c) /\ ~(\E h \in Handles : Starts(c, h))
    BY <2>0, EndsCall, StartsCall
  <2>3. ~Restarts
    BY FreeLaws DEF Restarts
  <2>4. CallerSteps(c)
    BY <2>1, <2>2, <2>3, CallWriters
  <2>5. /\ ~Rematerialises(c) /\ ~Reexports(c) /\ ~Reconciles(c) /\ ~AskMisses(c)
        /\ ~AskForgets(c) /\ ~Forgets(c) /\ ~Drops(c) /\ ~Notes(c)
    BY <2>0, RematerialisesCall, ReexportsCall, ReconcilesCall, AskMissesCall, AskForgetsCall,
       DropsCall, NotesCall
  <2>6. CASE AskHits(c)
    <3>1. call'[c].key = index[call[c].h] /\ Whole(call'[c].key)
      BY <2>0, <2>6, AskHitsCall DEF AskHits
    <3>2. call'[c].key \in Keys
      BY <2>0, <2>6, <3>1, CallParts DEF IndexInv, AskHits
    <3> QED
      BY <2>0, <3>1, <3>2 DEF DiskInv, Whole, HasManifest
  <2>7. CASE Looks(c)
    <3>1. Whole(call'[c].key) /\ call'[c].key[3] = pipe
      BY <2>0, <2>7, LooksCall
    <3> QED
      BY <3>1 DEF Whole
  <2> QED
    BY <2>4, <2>5, <2>6, <2>7 DEF CallerSteps
<1>2. CubeIInv => Exempt
  BY DEF CubeIInv, TurnInv, WriteEvicts, AtWork, At
<1>3. UNCHANGED cubeVars => Served
  BY DEF cubeVars
<1>4. CubeIInv /\ [CubeNext]_cubeVars => [Served]_cubeVars /\ [Exempt]_cubeVars
  BY <1>1, <1>2
<1>5. CubeSpec => [][Served]_cubeVars /\ [][Exempt]_cubeVars
  BY <1>4, CubeInvariant, PTL DEF CubeSpec
<1> QED
  BY <1>5 DEF CubesStay, ServesWholeCubes, EvictionSparesTurns
=============================================================================
