---------------------------- MODULE ConfigContract ----------------------------
(***************************************************************************)
(* What the programs rely on when they keep their settings in device.json: *)
(* a save sets its key and touches no other.  The one thing that may       *)
(* happen instead is that a crash loses all of them.                       *)
(***************************************************************************)
CONSTANTS Keys, Values, Missing, Default

VARIABLE conf

NoKeys == [k \in Keys |-> Missing]

Init == conf = Default

SaveKey(k, v) == conf' = [conf EXCEPT ![k] = v]

Lose == conf' = NoKeys

Next == (\E k \in Keys, v \in Values \cup {Missing} : SaveKey(k, v)) \/ Lose

Spec == Init /\ [][Next]_conf
=============================================================================
