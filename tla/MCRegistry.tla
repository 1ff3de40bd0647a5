------------------------------ MODULE MCRegistry ------------------------------
(***************************************************************************)
(* Small instances of Registry.                                            *)
(***************************************************************************)
EXTENDS Registry

(* Two components, and spellings that are one name to the agent. *)
MCNames == {"temp", "hum"}
SpelledNames == {"temp", "TEMP"}
MCTypes == {"t1"}
MCLower == [s \in MCNames \cup SpelledNames \cup MCTypes |->
                IF s = "TEMP" THEN "temp" ELSE s]

Kind(n, t) == [name |-> n, type |-> t]
TwoNames == {Kind("temp", "t1"), Kind("hum", "t1")}
OneKind == {Kind("TEMP", "t1")}

CidSymmetry == Permutations(Cids)
=============================================================================
