------------------------------ MODULE MCAlerts ------------------------------
EXTENDS AlertHistory

(***************************************************************************)
(* Product 1 has every kind of reading, product 2 is there to be in a      *)
(* snapshot that product 1 has vanished from.                              *)
(***************************************************************************)
Built(d, p) == [delta |-> d, buildings |-> TRUE, prod |-> p]

Unbuilt(d) == [delta |-> d, buildings |-> FALSE, prod |-> 0]

Readings ==
    << {Built(d, p) : d \in {"negative", "other"}, p \in {0, 150}}
       \cup {Built("other", Unreadable), Unbuilt("negative"), Unbuilt("other")},
       {Unbuilt("other")} >>

MaxReadings == <<5, 1>>

(***************************************************************************)
(* Three levels of productivity.                                           *)
(***************************************************************************)
LevelReadings ==
    << {Built(d, p) : d \in {"negative", "other"}, p \in {0, 60, 100}}, {Unbuilt("other")} >>

(***************************************************************************)
(* Two samples for what takes three by default; the points are defaults.   *)
(***************************************************************************)
GivenConfig ==
    [DeficitSamples |-> 2, DeficitClearSamples |-> 2, DropNegativeSamples |-> 1,
     MinSamplesForDrop |-> 2, DropPercentagePoints |-> 0, DropClearPercentagePoints |-> -1,
     DropWindow |-> 1]
=============================================================================
