------------------------------ MODULE DeviceConfig ------------------------------
(***************************************************************************)
(* device.json as lib/common.js reads and writes it.  Every setting of the *)
(* device is a key of this one file, and every program of the device, the  *)
(* agent and each admin command, saves to it: the whole file is read, a    *)
(* key is set, and the whole file is written over the old one.  Nothing    *)
(* locks it, and a crash while it is written leaves what does not parse.   *)
(***************************************************************************)
EXTENDS Integers, FiniteSets

CONSTANTS Procs,    \* the programs
          Keys,     \* keys of device.json
          Values,   \* their values
          Missing,  \* a key that is not there reads as undefined
          Default   \* what a new file holds

ASSUME DeviceConfigAssumption == Default \in [Keys -> Values \cup {Missing}]

VARIABLES file,   \* device.json
          stage,  \* how far each program is with a save
          copy    \* what it is about to write

configVars == <<file, stage, copy>>

Conf == [Keys -> Values \cup {Missing}]
NoKeys == [k \in Keys |-> Missing]

Json(conf) == [kind |-> "json", conf |-> conf]

(* A file that is not there, that was truncated, or that holds a part of   *)
(* what was written: none has keys.                                        *)
Without(kind) == [kind |-> kind, conf |-> NoKeys]

ConfigTypeOK ==
    /\ file \in [kind : {"absent", "empty", "torn", "json"}, conf : Conf]
    /\ file.kind # "json" => file.conf = NoKeys
    /\ stage \in [Procs -> {"idle", "read", "open"}]
    /\ copy \in [Procs -> Conf]

ConfigInit ==
    /\ file = Without("absent")
    /\ stage = [p \in Procs |-> "idle"]
    /\ copy = [p \in Procs |-> NoKeys]

-----------------------------------------------------------------------------
(* Reading.  readFileToJson hands on the bytes of what it cannot parse:    *)
(* an object without any of the keys.                                      *)
Setting(k) == file.conf[k]

(* getDeviceConfigName: a file that is not there is made first. *)
Create(p) ==
    /\ stage[p] = "idle"
    /\ file.kind = "absent"
    /\ stage' = [stage EXCEPT ![p] = "read"]
    /\ copy' = [copy EXCEPT ![p] = Default]
    /\ UNCHANGED file

(* saveConfig, up to the write.  What comes of setting a key on bytes is   *)
(* written as an object that describes bytes, without the key.             *)
SaveReplaces(p, k, v) ==
    /\ stage[p] = "idle"
    /\ file.kind # "absent"
    /\ stage' = [stage EXCEPT ![p] = "read"]
    /\ copy' = [copy EXCEPT ![p] = IF file.kind = "json" THEN [NoKeys EXCEPT ![k] = v]
                                   ELSE NoKeys]
    /\ UNCHANGED file
Save(p, k, v) ==
    /\ stage[p] = "idle"
    /\ file.kind # "absent"
    /\ stage' = [stage EXCEPT ![p] = "read"]
    /\ copy' = [copy EXCEPT ![p] = IF file.kind = "json" THEN [file.conf EXCEPT ![k] = v]
                                   ELSE NoKeys]
    /\ UNCHANGED file

(* writeToJson: the file is emptied, and written.  Over what another       *)
(* program wrote in between the shorter text leaves a rest of the longer.  *)
Open(p) ==
    /\ stage[p] = "read"
    /\ file' = Without("empty")
    /\ stage' = [stage EXCEPT ![p] = "open"]
    /\ UNCHANGED copy

Write(p) ==
    /\ stage[p] = "open"
    /\ \/ file' = Json(copy[p])
       \/ file.kind # "empty" /\ file' = Without("torn")
    /\ stage' = [stage EXCEPT ![p] = "idle"]
    /\ copy' = [copy EXCEPT ![p] = NoKeys]

(* A crash or a power cut within a save. *)
Break(p) ==
    /\ stage[p] # "idle"
    /\ \/ UNCHANGED file
       \/ stage[p] = "open" /\ file' = Without("torn")
    /\ stage' = [stage EXCEPT ![p] = "idle"]
    /\ copy' = [copy EXCEPT ![p] = NoKeys]

ConfigStep(p) ==
    \/ Create(p) \/ Open(p) \/ Write(p) \/ Break(p)
    \/ \E k \in Keys, v \in Values \cup {Missing} : Save(p, k, v)

ConfigNext == \E p \in Procs : ConfigStep(p)

-----------------------------------------------------------------------------
(* Nothing in the code keeps two saves apart.  They are a few system calls *)
(* long, and most of the time do not meet.                                 *)
Alone == \A p, q \in Procs : stage[p] # "idle" /\ stage[q] # "idle" => p = q

AloneSpec == ConfigInit /\ [][ConfigNext /\ Alone']_configVars

(* The settings as they stand: what an open save will have written. *)
Standing ==
    IF \E p \in Procs : stage[p] = "open"
    THEN copy[CHOOSE p \in Procs : stage[p] = "open"]
    ELSE IF file.kind = "absent" THEN Default ELSE file.conf

Contract == INSTANCE ConfigContract WITH conf <- Standing

(* A save sets its key and no other, whatever another program saved        *)
(* before and wherever one crashed: a crash loses all settings or none     *)
(* (lib/common.js:185, which relies on nobody else writing in between).    *)
KeepsConfigContract == Contract!Spec
=============================================================================
