------------------------------- MODULE MCMessages -------------------------------
(***************************************************************************)
(* A small instance of Messages.                                           *)
(***************************************************************************)
EXTENDS Messages

CONSTANTS Temp, Hum, Home, Ann

(* One attribute besides the reported one. *)
OwnerAnn == [a \in Attrs |-> IF a = "owner" THEN Ann ELSE None]

Readings ==
    {[n |-> Temp, v |-> 1], [n |-> Hum, v |-> 1, loc |-> Home]}

Registrations == {[n |-> Temp, t |-> "t1.0"]}

DeviceUpdates ==
    {[attributes |-> OwnerAnn, loc |-> Home]}

(* Names and types that are too short, a place that is none, and a reading *)
(* with its time.                                                          *)
Odd ==
    {[n |-> Short, v |-> 1], [n |-> Temp, t |-> Short], [n |-> Temp, v |-> 1, loc |-> Short],
     [n |-> Temp, t |-> "1618325707931", v |-> 1]}

Lists == {[items |-> <<Temp, Hum>>]}

MCSendable == Readings \cup Registrations \cup DeviceUpdates \cup Odd \cup Lists

MCDocs ==
    {Doc(m, name) : m \in {x \in MCSendable : ~IsREG(x) /\ ~IsSUBMIT(x) /\ IsUPDATE(x)},
                    name \in SavedNames}
=============================================================================
