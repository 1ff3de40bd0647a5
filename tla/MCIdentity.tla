------------------------------ MODULE MCIdentity ------------------------------
(***************************************************************************)
(* A small instance of Identity.                                           *)
(***************************************************************************)
EXTENDS Identity

MCKeys == {"device_id", "device_token", "sensor_list"}
MCValues == Ids \cup {Off, Given}
MCDefault == [k \in MCKeys |-> IF k = "sensor_list" THEN Given ELSE Off]
=============================================================================
