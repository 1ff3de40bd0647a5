-------------------------------- MODULE Identity --------------------------------
(***************************************************************************)
(* Under which id the device talks to its cloud.  A program takes          *)
(* device_id of device.json or, when none is set, what the machine calls   *)
(* itself (the address of a network interface, or the host name), which    *)
(* need not stay the same.  A token is issued to an id.  oisp-admin        *)
(* activate pins the id it activated; an agent that activates itself does  *)
(* not.  The commands that change settings are here too, and the ways in   *)
(* which device.json can be damaged and repaired.                          *)
(*                                                                         *)
(* The token stands for the account and the refresh token that are saved   *)
(* with it: Credentials has each of their saves.                           *)
(***************************************************************************)
EXTENDS DeviceConfig, Sequences

CONSTANTS Ids,    \* device ids
          Off,    \* false, null or ""
          Given   \* a list of components

ASSUME IdentityAssumption ==
    /\ Keys = {"device_id", "device_token", "sensor_list"}
    /\ Values = Ids \cup {Off, Given}
    /\ Default = [k \in Keys |-> IF k = "sensor_list" THEN Given ELSE Off]
    /\ {Off, Given, Missing} \cap Ids = {}
    /\ Missing \notin {Off, Given} /\ Off # Given

VARIABLES machine,  \* what the machine calls itself
          prog,     \* what each program is
          phase,    \* how far it is
          id,       \* the id it goes by
          token,    \* the id its device token was issued to
          store,    \* whether its sensor store holds a list
          saves,    \* the saves it has still to do
          name      \* observer: what became of the name of the device

programs == <<prog, phase, id, token, store, saves>>
vars == <<configVars, machine, programs, name>>

Put(k, v) == [key |-> k, value |-> v]

TypeOK ==
    /\ ConfigTypeOK
    /\ machine \in Ids
    /\ prog \in [Procs -> {"none", "agent", "activate", "setting", "override"}]
    /\ phase \in [Procs -> {"down", "loaded", "activating", "updating", "pinning",
                            "running", "exiting"}]
    /\ id \in [Procs -> Ids \cup {Off}]
    /\ token \in [Procs -> Values \cup {Missing}]
    /\ store \in [Procs -> Values \cup {Missing}]
    /\ saves \in [Procs -> Seq([key : Keys, value : Values \cup {Missing}])]
    /\ name \in {"open", "pinned", "adrift"}
    /\ \A p \in Procs : phase[p] = "down" => prog[p] = "none" /\ saves[p] = <<>>

Init ==
    /\ ConfigInit
    /\ machine \in Ids
    /\ prog = [p \in Procs |-> "none"]
    /\ phase = [p \in Procs |-> "down"]
    /\ id = [p \in Procs |-> Off]
    /\ token = [p \in Procs |-> Off]
    /\ store = [p \in Procs |-> Off]
    /\ saves = [p \in Procs |-> <<>>]
    /\ name = "open"

-----------------------------------------------------------------------------
(* isActivated, of what is on disk. *)
Activated == Setting("device_token") \in Ids

(* No program is at work, but for one that may be making the file. *)
AllDown == \A p \in Procs : phase[p] = "down"

(* p has done its saves and goes on. *)
At(p, ph) == phase[p] = ph /\ saves[p] = <<>> /\ stage[p] = "idle"

Go(p, ph) == phase' = [phase EXCEPT ![p] = ph]
Queue(p, s) == saves' = [saves EXCEPT ![p] = s]

(* The programs ps end, with what they had still to save. *)
GoneButSaves(ps) ==
    /\ prog' = [p \in Procs |-> IF p \in ps THEN "none" ELSE prog[p]]
    /\ phase' = [p \in Procs |-> IF p \in ps THEN "down" ELSE phase[p]]
    /\ id' = [p \in Procs |-> IF p \in ps THEN Off ELSE id[p]]
    /\ token' = [p \in Procs |-> IF p \in ps THEN Off ELSE token[p]]
    /\ store' = [p \in Procs |-> IF p \in ps THEN Off ELSE store[p]]
    /\ UNCHANGED saves
Gone(ps) ==
    /\ prog' = [p \in Procs |-> IF p \in ps THEN "none" ELSE prog[p]]
    /\ phase' = [p \in Procs |-> IF p \in ps THEN "down" ELSE phase[p]]
    /\ id' = [p \in Procs |-> IF p \in ps THEN Off ELSE id[p]]
    /\ token' = [p \in Procs |-> IF p \in ps THEN Off ELSE token[p]]
    /\ store' = [p \in Procs |-> IF p \in ps THEN Off ELSE store[p]]
    /\ saves' = [p \in Procs |-> IF p \in ps THEN <<>> ELSE saves[p]]

(* getDeviceId, with the device_id that utils.init read. *)
DeviceId == IF Setting("device_id") \in Ids THEN Setting("device_id") ELSE machine

(* Any program starts by reading device.json, and makes it if need be. *)
FirstRead(p) ==
    /\ phase[p] = "down"
    /\ Create(p)
    /\ UNCHANGED <<machine, programs, name>>

Launch(p, g) ==
    /\ At(p, "down") /\ file.kind # "absent"
    /\ prog' = [prog EXCEPT ![p] = g]
    /\ id' = [id EXCEPT ![p] = DeviceId]
    /\ Go(p, "loaded")
    /\ name' = IF \E q \in Procs : prog[q] = "override" THEN "adrift" ELSE name
    /\ UNCHANGED <<configVars, machine, token, store, saves>>

(* Cloud.init, once the id is known, and activate: the device may be       *)
(* activated, or it needs a code, or exits.  Whether a code is at hand, on *)
(* the command line or saved, is left open.                                *)
Construct(p) ==
    /\ At(p, "loaded")
    /\ token' = [token EXCEPT ![p] = Setting("device_token")]
    /\ store' = [store EXCEPT ![p] = Setting("sensor_list")]
    /\ \/ Activated /\ Go(p, "updating")
       \/ ~Activated /\ Go(p, "activating")
    /\ UNCHANGED <<configVars, machine, prog, id, saves, name>>

(* activationComplete: a token for the id the program goes by. *)
Answer(p) ==
    /\ At(p, "activating")
    /\ token' = [token EXCEPT ![p] = id[p]]
    /\ Queue(p, <<Put("device_token", id[p])>>)
    /\ Go(p, "updating")
    /\ UNCHANGED <<configVars, machine, prog, id, store, name>>

(* What an answer to getDevice does.  Without components (the cloud was    *)
(* not to be had) nothing; else the list the store was made with is saved. *)
(* A store made from a file without one, or that reads such a file on a    *)
(* miss, ends the program when the cloud knows components of the device.   *)
Update(p, ph) ==
    /\ \/ /\ Go(p, ph)
          /\ Queue(p, <<Put("sensor_list", store[p])>>) \/ UNCHANGED saves
          /\ UNCHANGED <<prog, id, token, store>>
       \/ /\ Missing \in {store[p], Setting("sensor_list")}
          /\ Gone({p})
    /\ UNCHANGED <<configVars, machine, name>>

(* The round that activate begins with, and those an agent that runs does  *)
(* for each message that updates the device.                               *)
UpdateRound(p) ==
    /\ At(p, "updating")
    /\ Update(p, IF prog[p] = "agent" THEN "running" ELSE "pinning")

UpdateMessage(p) == At(p, "running") /\ Update(p, "running")

(* oisp-admin activate, when all went well. *)
PinNothing(p) ==
    /\ At(p, "pinning")
    /\ Queue(p, <<>>)
    /\ Go(p, "exiting")
    /\ UNCHANGED <<configVars, machine, prog, id, token, store, name>>
Pin(p) ==
    /\ At(p, "pinning")
    /\ Queue(p, <<Put("device_id", id[p])>>)
    /\ Go(p, "exiting")
    /\ UNCHANGED <<configVars, machine, prog, id, token, store, name>>

Exit(p) ==
    /\ At(p, "exiting")
    /\ Gone({p})
    /\ name' = IF prog[p] = "activate" /\ name = "open" THEN "pinned" ELSE name
    /\ UNCHANGED <<configVars, machine>>

-----------------------------------------------------------------------------
(* Saving *)

SaveNext(p) ==
    /\ saves[p] # <<>>
    /\ Save(p, Head(saves[p]).key, Head(saves[p]).value)
    /\ Queue(p, Tail(saves[p]))
    /\ UNCHANGED <<machine, prog, phase, id, token, store, name>>

WriteOut(p) ==
    /\ Open(p) \/ Write(p)
    /\ UNCHANGED <<machine, programs, name>>

-----------------------------------------------------------------------------
(* Commands that only save *)

Command(p, g, s) ==
    /\ At(p, "down") /\ file.kind # "absent"
    /\ prog' = [prog EXCEPT ![p] = g]
    /\ Queue(p, s)
    /\ Go(p, "exiting")
    /\ UNCHANGED <<configVars, machine, id, token, store>>

InitializeOnlyTokens == <<Put("device_token", Off)>>
Initialize == <<Put("sensor_list", Given), Put("device_token", Off)>>

(* initialize and reset-components. *)
Reset(p) ==
    /\ \E s \in {Initialize, <<Put("sensor_list", Given)>>} : Command(p, "setting", s)
    /\ UNCHANGED name

(* set-device-id and clear-device-id. *)
OverrideId(p) ==
    \E v \in Ids \cup {Off} :
       /\ Command(p, "override", <<Put("device_id", v)>>)
       /\ name' = IF Activated \/ ~AllDown THEN "adrift"
                  ELSE IF v = Off /\ name = "pinned" THEN "open" ELSE name

-----------------------------------------------------------------------------
(* Failures *)

(* An exit (without a code to activate with, refused by the cloud), a      *)
(* kill: between two saves.                                                *)
Stop(p) ==
    /\ phase[p] # "down" /\ stage[p] = "idle"
    /\ Gone({p})
    /\ UNCHANGED <<configVars, machine, name>>

(* All programs end, and with them the saves that were under way. *)
PowerCut ==
    /\ \/ UNCHANGED file
       \/ (\E p \in Procs : stage[p] = "open") /\ file' = Without("torn")
    /\ stage' = [p \in Procs |-> "idle"]
    /\ copy' = [p \in Procs |-> NoKeys]
    /\ Gone(Procs)
    /\ name' = IF file'.kind # "json" /\ name = "pinned" THEN "open" ELSE name
    /\ UNCHANGED machine

(* The machine gets another address, or another host name. *)
MachineRenamed ==
    /\ machine' \in Ids \ {machine}
    /\ name' = IF name # "pinned" /\ (Activated \/ ~AllDown) THEN "adrift" ELSE name
    /\ UNCHANGED <<configVars, programs>>

-----------------------------------------------------------------------------
Step(p) == Construct(p) \/ Answer(p) \/ UpdateRound(p) \/ Pin(p) \/ Exit(p)
           \/ SaveNext(p) \/ WriteOut(p)

Next ==
    \/ \E p \in Procs : \/ FirstRead(p) \/ Launch(p, "agent") \/ Launch(p, "activate")
                        \/ Step(p) \/ UpdateMessage(p) \/ Reset(p) \/ OverrideId(p)
                        \/ Stop(p)
    \/ PowerCut
    \/ MachineRenamed

Spec == Init /\ [][Next]_vars

(* No save is under way. *)
Quiet == \A p \in Procs : stage[p] = "idle"

(* Nothing in the code keeps two saves apart.  OneSaveSpec is the use in    *)
(* which they do not meet, and ApartSpec that in which nothing else falls  *)
(* into a save either: they are a few system calls long.                   *)
Apart == Alone' /\ (~Quiet => configVars' # configVars)

OneSaveSpec == Init /\ [][Next /\ Alone']_vars

ApartSpec == Init /\ [][Next /\ Apart]_vars

(* A program that has begun goes on, and the cloud answers it. *)
FairSpec == ApartSpec /\ \A p \in Procs : WF_vars(Step(p) /\ Apart)

-----------------------------------------------------------------------------
(* Properties *)

(* A program that uses a token goes by the id the token was issued to,     *)
(* across crashes, activations by the agent and by the command, settings   *)
(* that are reset or lost, and changes of the machine's name once activate *)
(* has ended well (admin/operational.js:49 saves the id for this).  Two    *)
(* uses are excepted, and the code has nothing against either: a machine   *)
(* renamed after an agent activated itself, which saves no id, and an id   *)
(* set or cleared under a token.                                           *)
TokenFitsId ==
    name # "adrift" =>
        \A p \in Procs : phase[p] \in {"updating", "pinning", "running"} => token[p] = id[p]

(* A step that ends a program before it has saved all it set out to save.  *)
SaveLost ==
    \E p \in Procs : /\ phase[p] # "down" /\ phase'[p] = "down"
                     /\ saves[p] # <<>> \/ stage[p] # "idle"

(* A lost file is repaired by what the operator has: if saves are no       *)
(* longer cut short, the programs that started from a file without a list  *)
(* have ended, and initialize is run again and again, there is a list of   *)
(* components from some time on, although the first save to a damaged file *)
(* is lost.  (A program that started from one may take the list away again *)
(* with every update round for as long as it runs.)                        *)
RepairedInTheEnd ==
    /\ <>[][~SaveLost]_vars
    /\ <>[](\A p \in Procs : store[p] # Missing)
    /\ []<><<\E p \in Procs : Command(p, "setting", Initialize)>>_vars
    => <>[](Standing["sensor_list"] # Missing)
=============================================================================
