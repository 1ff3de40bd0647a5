---------------------------- MODULE Identity_proofs ----------------------------
(***************************************************************************)
(* Identity is type correct, however the programs' saves fall.  As long as *)
(* no two saves meet, the programs keep the contract of the settings; as   *)
(* long as nothing else falls into one either, no token is used under      *)
(* another id than its own: for any programs, ids and names of the machine.*)
(***************************************************************************)
EXTENDS Identity, DeviceConfig_proofs

Settings == [key : Keys, value : Values \cup {Missing}]

(* A program that is not saving has nothing at hand to write. *)
Blank == \A p \in Procs : stage[p] = "idle" => copy[p] = NoKeys

Inv == TypeOK /\ Blank

LEMMA InitInv == Init => Inv
<1> SUFFICES ASSUME Init PROVE Inv
  OBVIOUS
<1>1. ConfigTypeOK /\ Blank
  BY InitConfigInv DEF Init, ConfigInv, ConfigInit, Blank
<1>2. Off \in Values
  BY IdentityAssumption
<1>3. saves \in [Procs -> Seq(Settings)]
  <2>1. <<>> \in Seq(Settings)
    OBVIOUS
  <2> QED
    BY <2>1 DEF Init
<1>4. TypeOK
  BY <1>1, <1>2, <1>3 DEF Init, TypeOK, Settings
<1> QED
  BY <1>1, <1>4 DEF Inv

(* A step that leaves the file alone. *)
LEMMA SameFile ==
  ASSUME Inv, UNCHANGED configVars
  PROVE  ConfigTypeOK' /\ Blank'
  BY DEF Inv, TypeOK, configVars, ConfigTypeOK, Blank

LEMMA GoneTypes ==
  ASSUME Inv, NEW ps \in SUBSET Procs, Gone(ps)
  PROVE  /\ prog' \in [Procs -> {"none", "agent", "activate", "setting", "override"}]
         /\ phase' \in [Procs -> {"down", "loaded", "activating", "updating", "pinning",
                                  "running", "exiting"}]
         /\ id' \in [Procs -> Ids \cup {Off}]
         /\ token' \in [Procs -> Values \cup {Missing}]
         /\ store' \in [Procs -> Values \cup {Missing}]
         /\ saves' \in [Procs -> Seq(Settings)]
         /\ \A p \in Procs : phase'[p] = "down" => prog'[p] = "none" /\ saves'[p] = <<>>
<1>1. Off \in Values
  BY IdentityAssumption
<1>2. <<>> \in Seq(Settings)
  OBVIOUS
<1> QED
  BY <1>1, <1>2 DEF Inv, TypeOK, Gone, Settings

(* The setting of any key has its type. *)
LEMMA SettingType ==
  ASSUME Inv, NEW k \in Keys
  PROVE  Setting(k) \in Values \cup {Missing}
  BY DEF Inv, TypeOK, ConfigTypeOK, Setting, Conf

LEMMA PutType ==
  ASSUME NEW k \in Keys, NEW v \in Values \cup {Missing}
  PROVE  <<Put(k, v)>> \in Seq(Settings)
  BY DEF Put, Settings

LEMMA KeysAre ==
  /\ "device_id" \in Keys /\ "device_token" \in Keys
  /\ "sensor_list" \in Keys
  /\ Ids \subseteq Values /\ Off \in Values /\ Given \in Values
  BY IdentityAssumption

LEMMA QueueTypes ==
  ASSUME Inv, NEW p \in Procs, NEW s \in Seq(Settings), Queue(p, s)
  PROVE  /\ saves' \in [Procs -> Seq(Settings)]
         /\ saves'[p] = s
         /\ \A q \in Procs : q # p => saves'[q] = saves[q]
  BY DEF Inv, TypeOK, Queue, Settings

LEMMA GoTypes ==
  ASSUME Inv, NEW p \in Procs,
         NEW ph \in {"loaded", "activating", "updating", "pinning", "running", "exiting"},
         Go(p, ph)
  PROVE  /\ phase' \in [Procs -> {"down", "loaded", "activating", "updating", "pinning",
                                  "running", "exiting"}]
         /\ phase'[p] = ph
         /\ \A q \in Procs : q # p => phase'[q] = phase[q]
  BY DEF Inv, TypeOK, Go

-----------------------------------------------------------------------------
(* The steps that leave the file alone. *)

LEMMA LaunchKeeps ==
  ASSUME Inv, NEW p \in Procs, NEW g \in {"agent", "activate"}, Launch(p, g)
  PROVE  Inv'
<1>1. ConfigTypeOK' /\ Blank'
  BY SameFile DEF Launch
<1>2. DeviceId \in Ids
  BY KeysAre, SettingType DEF DeviceId, Inv, TypeOK
<1>3. Go(p, "loaded")
  BY DEF Launch
<1> QED
  BY <1>1, <1>2, <1>3, GoTypes DEF Launch, Inv, TypeOK

LEMMA ConstructKeeps ==
  ASSUME Inv, NEW p \in Procs, Construct(p)
  PROVE  Inv'
<1>1. ConfigTypeOK' /\ Blank'
  BY SameFile DEF Construct
<1>2. Setting("device_token") \in Values \cup {Missing}
      /\ Setting("sensor_list") \in Values \cup {Missing}
  BY KeysAre, SettingType
<1>3. \E ph \in {"updating", "activating"} : Go(p, ph)
  BY DEF Construct
<1> QED
  BY <1>1, <1>2, <1>3, GoTypes DEF Construct, Inv, TypeOK

LEMMA AnswerKeeps ==
  ASSUME Inv, NEW p \in Procs, Answer(p)
  PROVE  Inv'
<1>1. ConfigTypeOK' /\ Blank'
  BY SameFile DEF Answer
<1>2. id[p] \in Values
  BY KeysAre DEF Inv, TypeOK
<1>3. Go(p, "updating")
  BY DEF Answer
<1>4. <<Put("device_token", id[p])>> \in Seq(Settings)
  BY <1>2, KeysAre, PutType
<1>5. Queue(p, <<Put("device_token", id[p])>>)
  BY DEF Answer
<1> QED
  BY <1>1, <1>2, <1>3, <1>4, <1>5, GoTypes, QueueTypes DEF Answer, Inv, TypeOK, Settings

LEMMA UpdateKeeps ==
  ASSUME Inv, NEW p \in Procs, NEW ph \in {"pinning", "running"}, Update(p, ph)
  PROVE  Inv'
<1>1. ConfigTypeOK' /\ Blank'
  BY SameFile DEF Update
<1>2. CASE Gone({p})
  BY <1>1, <1>2, GoneTypes DEF Update, Inv, TypeOK, Settings
<1>3. CASE /\ Queue(p, <<Put("sensor_list", store[p])>>) \/ UNCHANGED saves
           /\ Go(p, ph)
           /\ UNCHANGED <<prog, id, token, store>>
  <2>1. <<Put("sensor_list", store[p])>> \in Seq(Settings)
    BY KeysAre, PutType DEF Inv, TypeOK
  <2> QED
    BY <1>1, <1>3, <2>1, GoTypes, QueueTypes DEF Update, Inv, TypeOK, Settings
<1> QED
  BY <1>2, <1>3 DEF Update

LEMMA PinKeeps ==
  ASSUME Inv, NEW p \in Procs, Pin(p)
  PROVE  Inv'
<1>1. ConfigTypeOK' /\ Blank'
  BY SameFile DEF Pin
<1>2. <<Put("device_id", id[p])>> \in Seq(Settings)
  BY KeysAre, PutType DEF Inv, TypeOK
<1>3. Go(p, "exiting") /\ Queue(p, <<Put("device_id", id[p])>>)
  BY DEF Pin
<1> QED
  BY <1>1, <1>2, <1>3, GoTypes, QueueTypes DEF Pin, Inv, TypeOK, Settings

LEMMA ExitKeeps ==
  ASSUME Inv, NEW p \in Procs, Exit(p)
  PROVE  Inv'
<1>1. ConfigTypeOK' /\ Blank'
  BY SameFile DEF Exit
<1>2. Gone({p}) /\ name' \in {"open", "pinned", "adrift"} /\ machine' = machine
  BY DEF Exit, Inv, TypeOK
<1> QED
  BY <1>1, <1>2, GoneTypes DEF Inv, TypeOK, Settings

LEMMA StopKeeps ==
  ASSUME Inv, NEW p \in Procs, Stop(p)
  PROVE  Inv'
<1>1. ConfigTypeOK' /\ Blank'
  BY SameFile DEF Stop
<1>2. Gone({p}) /\ name' = name /\ machine' = machine
  BY DEF Stop
<1> QED
  BY <1>1, <1>2, GoneTypes DEF Inv, TypeOK, Settings

LEMMA CommandKeeps ==
  ASSUME Inv, NEW p \in Procs, NEW g \in {"setting", "override"}, NEW s \in Seq(Settings),
         Command(p, g, s), name' \in {"open", "pinned", "adrift"}
  PROVE  Inv'
<1>1. ConfigTypeOK' /\ Blank'
  BY SameFile DEF Command
<1>2. Go(p, "exiting") /\ Queue(p, s)
  BY DEF Command
<1> QED
  BY <1>1, <1>2, GoTypes, QueueTypes DEF Command, Inv, TypeOK, Settings

LEMMA ResetKeeps ==
  ASSUME Inv, NEW p \in Procs, Reset(p)
  PROVE  Inv'
<1>1. PICK s \in {Initialize, <<Put("sensor_list", Given)>>} : Command(p, "setting", s)
  BY DEF Reset
<1>2. Initialize \in Seq(Settings)
  BY KeysAre DEF Initialize, Put, Settings
<1>3. s \in Seq(Settings)
  BY <1>2, KeysAre, PutType
<1> QED
  BY <1>1, <1>3, CommandKeeps DEF Reset, Inv, TypeOK

LEMMA OverrideIdKeeps ==
  ASSUME Inv, NEW p \in Procs, OverrideId(p)
  PROVE  Inv'
<1>1. PICK v \in Ids \cup {Off} : Command(p, "override", <<Put("device_id", v)>>)
  BY DEF OverrideId
<1>2. <<Put("device_id", v)>> \in Seq(Settings)
  BY KeysAre, PutType
<1>3. name' \in {"open", "pinned", "adrift"}
  BY DEF OverrideId, Inv, TypeOK
<1> QED
  BY <1>1, <1>2, <1>3, CommandKeeps

LEMMA MachineRenamedKeeps ==
  ASSUME Inv, MachineRenamed
  PROVE  Inv'
<1>1. ConfigTypeOK' /\ Blank'
  BY SameFile DEF MachineRenamed
<1> QED
  BY <1>1 DEF MachineRenamed, programs, Inv, TypeOK

-----------------------------------------------------------------------------
(* The steps on the file. *)

LEMMA FirstReadIsConfigStep ==
  ASSUME Inv, NEW p \in Procs, FirstRead(p)
  PROVE  ConfigStep(p)
  BY DEF FirstRead, ConfigStep

LEMMA SaveNextIsConfigStep ==
  ASSUME Inv, NEW p \in Procs, SaveNext(p)
  PROVE  ConfigStep(p)
<1>1. Head(saves[p]) \in Settings
  <2>1. saves[p] \in Seq(Settings)
    BY DEF Inv, TypeOK, Settings
  <2>2. saves[p] # <<>>
    BY DEF SaveNext
  <2> QED
    BY <2>1, <2>2
<1>2. Head(saves[p]).key \in Keys /\ Head(saves[p]).value \in Values \cup {Missing}
  BY <1>1 DEF Settings
<1>3. Save(p, Head(saves[p]).key, Head(saves[p]).value)
  BY DEF SaveNext
<1> QED
  BY <1>2, <1>3 DEF ConfigStep

LEMMA WriteOutIsConfigStep ==
  ASSUME NEW p \in Procs, WriteOut(p)
  PROVE  ConfigStep(p)
  BY DEF WriteOut, ConfigStep

LEMMA ConfigStepTypes ==
  ASSUME Inv, NEW p \in Procs, ConfigStep(p)
  PROVE  ConfigTypeOK' /\ Blank'
<1>1. CASE Create(p)
  BY <1>1, DeviceConfigAssumption
  DEF Create, Inv, TypeOK, ConfigTypeOK, Conf, Blank
<1>2. CASE Open(p)
  BY <1>2, NoKeysIsConf DEF Open, Without, Inv, TypeOK, ConfigTypeOK, Blank
<1>3. CASE Write(p)
  BY <1>3, NoKeysIsConf DEF Write, Without, Json, Inv, TypeOK, ConfigTypeOK, Blank
<1>4. CASE Break(p)
  BY <1>4, NoKeysIsConf DEF Break, Without, Inv, TypeOK, ConfigTypeOK, Blank
<1>5. ASSUME NEW k \in Keys, NEW v \in Values \cup {Missing}, Save(p, k, v)
      PROVE  ConfigTypeOK' /\ Blank'
  <2> DEFINE c == IF file.kind = "json" THEN [file.conf EXCEPT ![k] = v] ELSE NoKeys
  <2>1. c \in Conf
    BY NoKeysIsConf DEF Inv, TypeOK, ConfigTypeOK, Conf
  <2>2. /\ file' = file
        /\ stage' = [stage EXCEPT ![p] = "read"]
        /\ copy' = [copy EXCEPT ![p] = c]
    BY <1>5 DEF Save
  <2> QED
    BY <2>1, <2>2 DEF Inv, TypeOK, ConfigTypeOK, Blank
<1> QED
  BY <1>1, <1>2, <1>3, <1>4, <1>5 DEF ConfigStep

LEMMA FileStepKeeps ==
  ASSUME Inv, NEW p \in Procs, FirstRead(p) \/ SaveNext(p) \/ WriteOut(p)
  PROVE  Inv'
<1>1. ConfigTypeOK' /\ Blank'
  BY FirstReadIsConfigStep, SaveNextIsConfigStep, WriteOutIsConfigStep, ConfigStepTypes
<1>2. CASE FirstRead(p) \/ WriteOut(p)
  BY <1>1, <1>2 DEF FirstRead, WriteOut, programs, Inv, TypeOK
<1>3. CASE SaveNext(p)
  <2>1. Tail(saves[p]) \in Seq(Settings)
    <3>1. saves[p] \in Seq(Settings)
      BY DEF Inv, TypeOK, Settings
    <3>2. saves[p] # <<>>
      BY <1>3 DEF SaveNext
    <3> QED
      BY <3>1, <3>2
  <2>2. Queue(p, Tail(saves[p])) /\ saves[p] # <<>>
    BY <1>3 DEF SaveNext
  <2>3. \A q \in Procs : saves'[q] = <<>> \/ saves[q] # <<>>
    BY <2>1, <2>2, QueueTypes DEF Inv, TypeOK, Settings
  <2> QED
    BY <1>1, <1>3, <2>1, <2>2, <2>3, QueueTypes DEF SaveNext, Inv, TypeOK, Settings
<1> QED
  BY <1>2, <1>3

LEMMA PowerCutKeeps ==
  ASSUME Inv, PowerCut
  PROVE  Inv'
<1>1. ConfigTypeOK' /\ Blank'
  BY NoKeysIsConf DEF PowerCut, Without, Inv, TypeOK, ConfigTypeOK, Blank
<1>2. Gone(Procs) /\ name' \in {"open", "pinned", "adrift"} /\ machine' = machine
  BY DEF PowerCut, Inv, TypeOK
<1> QED
  BY <1>1, <1>2, GoneTypes DEF Inv, TypeOK, Settings

LEMMA NextInv == Inv /\ [Next]_vars => Inv'
<1> SUFFICES ASSUME Inv, [Next]_vars PROVE Inv'
  OBVIOUS
<1>1. CASE UNCHANGED vars
  BY <1>1, SameFile DEF vars, programs, Inv, TypeOK
<1>2. CASE \E p \in Procs : FirstRead(p) \/ SaveNext(p) \/ WriteOut(p)
  BY <1>2, FileStepKeeps
<1>3. CASE PowerCut
  BY <1>3, PowerCutKeeps
<1>4. CASE MachineRenamed
  BY <1>4, MachineRenamedKeeps
<1>5. CASE \E p \in Procs : \/ Launch(p, "agent") \/ Launch(p, "activate") \/ Construct(p)
                            \/ Answer(p) \/ Pin(p) \/ Exit(p)
                            \/ Reset(p) \/ OverrideId(p) \/ Stop(p)
  BY <1>5, LaunchKeeps, ConstructKeeps, AnswerKeeps, PinKeeps, ExitKeeps,
     ResetKeeps, OverrideIdKeeps, StopKeeps
<1>6. CASE \E p \in Procs : UpdateRound(p) \/ UpdateMessage(p)
  BY <1>6, UpdateKeeps DEF UpdateRound, UpdateMessage
<1> QED
  BY <1>1, <1>2, <1>3, <1>4, <1>5, <1>6 DEF Next, Step

(* Programs, file and saves are well typed, and a program that is down has *)
(* nothing left to save: whatever saves meet, and whatever ends programs.  *)
THEOREM TypeCorrect == Spec => []TypeOK
<1>1. Init => Inv
  BY InitInv
<1>2. Inv /\ [Next]_vars => Inv'
  BY NextInv
<1>3. Inv => TypeOK
  BY DEF Inv
<1> QED
  BY <1>1, <1>2, <1>3, PTL DEF Spec

-----------------------------------------------------------------------------
(* As long as no two saves meet, every step is a step on device.json as    *)
(* DeviceConfig has them, or leaves it alone.                              *)
LEMMA PowerCutIsConfigStep ==
  ASSUME Inv, ConfigInv, PowerCut
  PROVE  ConfigNext \/ UNCHANGED configVars
<1>1. CASE \A p \in Procs : stage[p] = "idle"
  BY <1>1 DEF PowerCut, configVars, Inv, Blank, TypeOK, ConfigTypeOK
<1>2. ASSUME NEW p \in Procs, stage[p] # "idle"
      PROVE  ConfigNext
  <2>1. \A q \in Procs : q # p => stage[q] = "idle" /\ copy[q] = NoKeys
    BY <1>2 DEF ConfigInv, Alone, Inv, Blank
  <2>2. /\ stage' = [stage EXCEPT ![p] = "idle"]
        /\ copy' = [copy EXCEPT ![p] = NoKeys]
    BY <2>1 DEF PowerCut, Inv, TypeOK, ConfigTypeOK
  <2>3. UNCHANGED file \/ (stage[p] = "open" /\ file' = Without("torn"))
    BY <2>1 DEF PowerCut
  <2>4. Break(p)
    BY <1>2, <2>2, <2>3 DEF Break
  <2> QED
    BY <2>4 DEF ConfigNext, ConfigStep
<1> QED
  BY <1>1, <1>2

LEMMA NextIsConfigNext ==
  Inv /\ ConfigInv /\ [Next /\ Alone']_vars => [ConfigNext /\ Alone']_configVars
<1> SUFFICES ASSUME Inv, ConfigInv, [Next /\ Alone']_vars
             PROVE  (ConfigNext /\ Alone') \/ UNCHANGED configVars
  OBVIOUS
<1>1. CASE UNCHANGED vars
  BY <1>1 DEF vars
<1>2. CASE \E p \in Procs : FirstRead(p) \/ SaveNext(p) \/ WriteOut(p)
  BY <1>2, FirstReadIsConfigStep, SaveNextIsConfigStep, WriteOutIsConfigStep
  DEF ConfigNext, vars, configVars
<1>3. CASE PowerCut
  BY <1>3, PowerCutIsConfigStep DEF vars, configVars
<1>4. CASE MachineRenamed
  BY <1>4 DEF MachineRenamed
<1>5. CASE \E p \in Procs : \/ Launch(p, "agent") \/ Launch(p, "activate") \/ Construct(p)
                            \/ Answer(p) \/ UpdateRound(p) \/ UpdateMessage(p) \/ Pin(p)
                            \/ Exit(p) \/ Reset(p) \/ OverrideId(p) \/ Stop(p)
  BY <1>5 DEF Launch, Construct, Answer, UpdateRound, UpdateMessage, Update, Pin, Exit,
              Reset, OverrideId, Command, Stop
<1> QED
  BY <1>1, <1>2, <1>3, <1>4, <1>5 DEF Next, Step

(* The agent and the commands, with their kills and power cuts, keep the   *)
(* contract of the settings as long as no two saves meet.                  *)
THEOREM ProgramsKeepContract == OneSaveSpec => KeepsConfigContract
<1>1. Init => ConfigInit
  BY DEF Init
<1>2. Init => Inv /\ ConfigInv
  BY InitInv, InitConfigInv DEF Init
<1>3. Inv /\ ConfigInv /\ [Next /\ Alone']_vars => Inv' /\ ConfigInv'
  BY NextInv, NextIsConfigNext, NextConfigInv
<1>4. OneSaveSpec => AloneSpec
  BY <1>1, <1>2, <1>3, NextIsConfigNext, PTL DEF OneSaveSpec, AloneSpec
<1> QED
  BY <1>4, ContractKept

-----------------------------------------------------------------------------
(* Why a token fits the id.  Every program in use of an id goes by the     *)
(* same one, which is the one that device.json and each version of it that *)
(* is being written give; so does every token that is saved or about to    *)
(* be.  From the end of an activate on, all versions hold the id, and the  *)
(* name of the machine no longer matters.  All this until the name of the  *)
(* device is adrift, if it ever is.                                        *)

(* What device.json holds, or will hold once a save is through. *)
Draft(c) ==
    \/ c = file.conf /\ \A p \in Procs : stage[p] # "open"
    \/ \E p \in Procs : stage[p] # "idle" /\ c = copy[p]

(* The id a program that reads c goes by. *)
Name(c) == IF c["device_id"] \in Ids THEN c["device_id"] ELSE machine

Up(p) == prog[p] \in {"agent", "activate"}
Overridden == \E p \in Procs : prog[p] = "override"

TokenOfId ==
    \A p \in Procs : phase[p] \in {"updating", "pinning", "running"} => token[p] = id[p]

ProgOfPhase ==
    \A p \in Procs :
        /\ phase[p] \in {"loaded", "activating", "updating"} => Up(p)
        /\ phase[p] = "running" => prog[p] = "agent"
        /\ phase[p] = "pinning" => prog[p] = "activate"
        /\ prog[p] \in {"setting", "override"} => phase[p] = "exiting"

IdIsName ==
    \A p \in Procs : Up(p) => /\ ~Overridden
                              /\ id[p] \in Ids
                              /\ \A c \in Conf : Draft(c) => Name(c) = id[p]

TokenIsName ==
    \A c \in Conf : Draft(c) /\ c["device_token"] \in Ids =>
        /\ ~Overridden
        /\ \A d \in Conf : Draft(d) => Name(d) = c["device_token"]

(* A save of p that does not bring in another id. *)
Fits(p, s) ==
    /\ s.key = "device_token" /\ s.value \in Ids => Up(p) /\ s.value = id[p]
    /\ s.key = "device_id" =>
          \/ prog[p] = "activate" /\ s.value = id[p]
          \/ prog[p] = "override" /\ (name = "pinned" => s.value \in Ids)
SavesFit == \A p \in Procs : \A n \in DOMAIN saves[p] : Fits(p, saves[p][n])

Fixed == \A c \in Conf : Draft(c) => c["device_id"] \in Ids
PinnedStays == name = "pinned" => Fixed

(* The file has keys, or will have: a save to it sets one. *)
Whole == file.kind = "json" \/ \E q \in Procs : stage[q] # "idle"

WillPin ==
    \A p \in Procs : prog[p] = "activate" =>
        /\ phase[p] = "updating" => Whole \/ saves[p] # <<>>
        /\ phase[p] \in {"pinning", "exiting"} => Whole
        /\ phase[p] = "exiting" =>
              \/ saves[p] = <<Put("device_id", id[p])>>
              \/ /\ saves[p] = <<>>
                 /\ IF stage[p] = "idle" THEN Fixed ELSE copy[p]["device_id"] \in Ids

IdInv == TokenOfId /\ ProgOfPhase /\ IdIsName /\ TokenIsName /\ SavesFit /\ PinnedStays
         /\ WillPin

AllInv == Inv /\ ConfigInv /\ IdInv

(* A step that leaves the file alone falls into no save, and one that      *)
(* begins a save finds no other.                                           *)
LEMMA NotInASave == ASSUME Apart, UNCHANGED configVars PROVE Quiet
  BY DEF Apart

LEMMA FirstSave ==
  ASSUME Inv, Apart, NEW p \in Procs, stage[p] = "idle",
         stage' = [stage EXCEPT ![p] = "read"]
  PROVE  Quiet
  BY DEF Apart, Alone, Quiet, Inv, TypeOK, ConfigTypeOK

LEMMA InitIdInv == Init => IdInv
<1> SUFFICES ASSUME Init PROVE IdInv
  OBVIOUS
<1>1. \A p \in Procs : prog[p] = "none" /\ phase[p] = "down" /\ saves[p] = <<>>
  BY DEF Init
<1>2. \A c : Draft(c) => c = NoKeys
  BY DEF Init, ConfigInit, Draft, Without
<1>3. NoKeys["device_token"] \notin Ids
  BY KeysAre, IdentityAssumption DEF NoKeys
<1> QED
  BY <1>1, <1>2, <1>3 DEF Init, IdInv, TokenOfId, ProgOfPhase, IdIsName, TokenIsName,
     SavesFit, PinnedStays, WillPin, Up

LEMMA SameDrafts ==
  ASSUME UNCHANGED configVars
  PROVE  (\A c : Draft(c)' <=> Draft(c)) /\ (Whole' <=> Whole)
  BY DEF configVars, Draft, Whole

LEMMA SameNames ==
  ASSUME UNCHANGED machine
  PROVE  \A c : Name(c)' = Name(c)
  BY DEF Name

(* The file stays, and so does every program's stage and what it writes. *)
LEMMA SameFixed ==
  ASSUME UNCHANGED configVars
  PROVE  (Fixed' <=> Fixed) /\ stage' = stage /\ copy' = copy
  BY SameDrafts DEF Fixed, configVars

LEMMA GoneIdInv ==
  ASSUME AllInv, NEW ps \in SUBSET Procs, Gone(ps), UNCHANGED <<configVars, machine>>,
         PinnedStays', name' = "pinned" => name = "pinned" \/ ~Overridden
  PROVE  IdInv'
<1>1. \A p \in Procs : \/ prog'[p] = "none" /\ phase'[p] = "down" /\ saves'[p] = <<>>
                       \/ /\ prog'[p] = prog[p] /\ phase'[p] = phase[p] /\ id'[p] = id[p]
                          /\ token'[p] = token[p] /\ saves'[p] = saves[p]
  BY DEF AllInv, Inv, TypeOK, Gone
<1>2. Overridden' => Overridden
  BY <1>1 DEF Overridden
<1>3. \A p \in Procs : Up(p)' => Up(p) /\ id'[p] = id[p]
  BY <1>1 DEF Up
<1>4. TokenOfId' /\ ProgOfPhase'
  BY <1>1 DEF AllInv, IdInv, TokenOfId, ProgOfPhase, Up
<1>5. IdIsName' /\ TokenIsName'
  BY <1>2, <1>3, SameDrafts, SameNames DEF AllInv, IdInv, IdIsName, TokenIsName
<1>6. SavesFit'
  BY <1>1 DEF AllInv, IdInv, SavesFit, Fits, Up, Overridden
<1>7. WillPin'
  BY <1>1, SameDrafts, SameFixed DEF AllInv, IdInv, WillPin
<1> QED
  BY <1>4, <1>5, <1>6, <1>7 DEF IdInv

(* Reading, beginning, and going on: the file and the name stay. *)

LEMMA LaunchIdInv ==
  ASSUME AllInv, NEW p \in Procs, NEW g \in {"agent", "activate"}, Launch(p, g), Apart,
         name # "adrift", name' # "adrift"
  PROVE  IdInv'
<1>1. /\ prog' = [prog EXCEPT ![p] = g] /\ id' = [id EXCEPT ![p] = DeviceId]
      /\ phase' = [phase EXCEPT ![p] = "loaded"] /\ token' = token /\ saves' = saves
      /\ ~Overridden /\ saves[p] = <<>> /\ phase[p] = "down"
      /\ name' = name
  BY DEF Launch, Go, At, Overridden
<1>2. UNCHANGED configVars /\ UNCHANGED machine
  BY DEF Launch
<1>3. \A c \in Conf : Draft(c) => Name(c) = DeviceId
  BY <1>2, NotInASave DEF Quiet, Draft, Name, DeviceId, Setting
<1>4. DeviceId \in Ids
  BY DEF DeviceId, AllInv, Inv, TypeOK
<1>5. ~Overridden'
  BY <1>1 DEF Overridden, AllInv, Inv, TypeOK
<1>6. TokenOfId' /\ ProgOfPhase'
  BY <1>1 DEF AllInv, Inv, TypeOK, IdInv, TokenOfId, ProgOfPhase, Up
<1>7. IdIsName' /\ TokenIsName'
  BY <1>1, <1>2, <1>3, <1>4, <1>5, SameDrafts, SameNames
  DEF AllInv, Inv, TypeOK, IdInv, IdIsName, TokenIsName, Up
<1>8. SavesFit'
  BY <1>1 DEF AllInv, Inv, TypeOK, IdInv, SavesFit, Fits, Up, Overridden
<1>9. PinnedStays' /\ WillPin'
  BY <1>1, <1>2, SameDrafts, SameFixed
  DEF AllInv, Inv, TypeOK, IdInv, PinnedStays, WillPin
<1> QED
  BY <1>6, <1>7, <1>8, <1>9 DEF IdInv

(* A program that is up goes from one phase to the next. *)
LEMMA OnIdInv ==
  ASSUME AllInv, NEW p \in Procs, Up(p),
         UNCHANGED <<configVars, machine, prog, id, name>>,
         NEW ph \in {"activating", "updating", "pinning", "running", "exiting"}, Go(p, ph),
         \A q \in Procs : q # p => token'[q] = token[q] /\ saves'[q] = saves[q],
         ph \in {"updating", "pinning", "running"} => token'[p] = id[p],
         ph = "pinning" => prog[p] = "activate",
         ph = "running" => prog[p] = "agent",
         \A n \in DOMAIN saves'[p] : Fits(p, saves'[p][n]),
         prog[p] = "activate" =>
            /\ ph = "updating" => Whole \/ saves'[p] # <<>>
            /\ ph \in {"pinning", "exiting"} => Whole
            /\ ph = "exiting" => saves'[p] = <<Put("device_id", id[p])>>
  PROVE  IdInv'
<1>1. /\ phase'[p] = ph
      /\ \A q \in Procs : q # p => phase'[q] = phase[q]
  BY DEF Go, AllInv, Inv, TypeOK
<1>2. TokenOfId' /\ ProgOfPhase'
  BY <1>1 DEF AllInv, IdInv, TokenOfId, ProgOfPhase, Up
<1>3. IdIsName' /\ TokenIsName'
  BY SameDrafts, SameNames DEF AllInv, IdInv, IdIsName, TokenIsName, Up, Overridden
<1>4. SavesFit'
  BY DEF AllInv, IdInv, SavesFit, Fits, Up
<1>5. PinnedStays'
  BY SameFixed DEF AllInv, IdInv, PinnedStays
<1>6. WillPin'
  <2> SUFFICES ASSUME NEW q \in Procs, prog'[q] = "activate"
               PROVE  /\ phase'[q] = "updating" => Whole' \/ saves'[q] # <<>>
                      /\ phase'[q] \in {"pinning", "exiting"} => Whole'
                      /\ phase'[q] = "exiting" =>
                            \/ saves'[q] = <<Put("device_id", id[q])>>
                            \/ /\ saves'[q] = <<>>
                               /\ IF stage'[q] = "idle" THEN Fixed'
                                  ELSE copy'[q]["device_id"] \in Ids
    BY DEF WillPin, Put
  <2>1. CASE q = p
    BY <1>1, <2>1, SameDrafts
  <2>2. CASE q # p
    BY <1>1, <2>2, SameDrafts, SameFixed DEF AllInv, IdInv, WillPin
  <2> QED
    BY <2>1, <2>2
<1> QED
  BY <1>2, <1>3, <1>4, <1>5, <1>6 DEF IdInv

(* The same of one save, or none. *)
LEMMA OneSaveFits ==
  ASSUME AllInv, NEW p \in Procs, NEW k, NEW v, Fits(p, Put(k, v)),
         Queue(p, <<Put(k, v)>>)
  PROVE  /\ \A n \in DOMAIN saves'[p] : Fits(p, saves'[p][n])
         /\ saves'[p] = <<Put(k, v)>>
         /\ saves'[p] # <<>>
         /\ \A q \in Procs : q # p => saves'[q] = saves[q]
<1>1. /\ saves'[p] = <<Put(k, v)>>
      /\ \A q \in Procs : q # p => saves'[q] = saves[q]
  BY DEF Queue, AllInv, Inv, TypeOK
<1>2. \A n \in DOMAIN saves'[p] : saves'[p][n] = Put(k, v)
  BY <1>1
<1> QED
  BY <1>1, <1>2

LEMMA QuietWhole ==
  ASSUME AllInv, Quiet
  PROVE  /\ \A k \in Keys : Setting(k) # Missing => Whole
         /\ Whole => file.kind = "json"
         /\ Draft(file.conf) /\ file.conf \in Conf
<1>1. file.kind # "json" => \A k \in Keys : Setting(k) = Missing
  BY DEF AllInv, Inv, TypeOK, ConfigTypeOK, Setting, NoKeys
<1> QED
  BY <1>1 DEF AllInv, Inv, TypeOK, ConfigTypeOK, Quiet, Whole, Draft

LEMMA ConstructIdInv ==
  ASSUME AllInv, NEW p \in Procs, Construct(p), Apart
  PROVE  IdInv'
<1>1. /\ UNCHANGED <<configVars, machine, prog, id, name>> /\ saves' = saves
      /\ phase[p] = "loaded" /\ saves[p] = <<>> /\ Quiet
      /\ token'[p] = Setting("device_token")
      /\ \A q \in Procs : q # p => token'[q] = token[q]
  BY NotInASave DEF Construct, At, AllInv, Inv, TypeOK
<1>2. Up(p)
  BY <1>1 DEF AllInv, IdInv, ProgOfPhase
<1>3. Activated => Setting("device_token") = id[p] /\ Whole
  <2>1. Activated => Name(file.conf) = Setting("device_token") /\ Name(file.conf) = id[p]
    BY <1>1, <1>2, QuietWhole DEF AllInv, IdInv, IdIsName, TokenIsName, Activated, Setting
  <2>2. Activated => Whole
    BY <1>1, QuietWhole, KeysAre, IdentityAssumption DEF Activated
  <2> QED
    BY <2>1, <2>2
<1>4. \E ph \in {"activating", "updating"} :
         Go(p, ph) /\ (ph = "updating" => Activated)
  BY DEF Construct
<1>5. \A n \in DOMAIN saves'[p] : Fits(p, saves'[p][n])
  BY <1>1
<1> QED
  BY <1>1, <1>2, <1>3, <1>4, <1>5, OnIdInv

LEMMA AnswerIdInv ==
  ASSUME AllInv, NEW p \in Procs, Answer(p)
  PROVE  IdInv'
<1>1. /\ UNCHANGED <<configVars, machine, prog, id, name>>
      /\ phase[p] = "activating" /\ Go(p, "updating")
      /\ Queue(p, <<Put("device_token", id[p])>>)
      /\ token'[p] = id[p]
      /\ \A q \in Procs : q # p => token'[q] = token[q]
  BY DEF Answer, At, AllInv, Inv, TypeOK
<1>2. Up(p)
  BY <1>1 DEF AllInv, IdInv, ProgOfPhase
<1>3. Fits(p, Put("device_token", id[p]))
  BY <1>2 DEF Fits, Put
<1> QED
  BY <1>1, <1>2, <1>3, OneSaveFits, OnIdInv

LEMMA UpdateIdInv ==
  ASSUME AllInv, NEW p \in Procs, NEW ph \in {"pinning", "running"}, Update(p, ph),
         Up(p), token[p] = id[p], saves[p] = <<>>,
         ph = "pinning" => prog[p] = "activate" /\ Whole,
         ph = "running" => prog[p] = "agent"
  PROVE  IdInv'
<1>1. UNCHANGED <<configVars, machine, name>>
  BY DEF Update
<1>2. CASE Gone({p})
  <2>1. PinnedStays'
    BY <1>1, SameFixed DEF AllInv, IdInv, PinnedStays
  <2> QED
    BY <1>1, <1>2, <2>1, GoneIdInv
<1>3. CASE /\ Go(p, ph)
           /\ Queue(p, <<Put("sensor_list", store[p])>>)
           /\ UNCHANGED <<prog, id, token, store>>
  <2>1. Fits(p, Put("sensor_list", store[p]))
    BY DEF Fits, Put
  <2> QED
    BY <1>1, <1>3, <2>1, OneSaveFits, OnIdInv
<1>4. CASE /\ Go(p, ph) /\ UNCHANGED saves
           /\ UNCHANGED <<prog, id, token, store>>
  BY <1>1, <1>4, OnIdInv
<1> QED
  BY <1>2, <1>3, <1>4 DEF Update

LEMMA UpdateRoundIdInv ==
  ASSUME AllInv, NEW p \in Procs, UpdateRound(p)
  PROVE  IdInv'
<1>1. /\ phase[p] = "updating" /\ saves[p] = <<>>
      /\ Update(p, IF prog[p] = "agent" THEN "running" ELSE "pinning")
  BY DEF UpdateRound, At
<1>2. Up(p) /\ token[p] = id[p]
  BY <1>1 DEF AllInv, IdInv, ProgOfPhase, TokenOfId
<1>3. prog[p] = "activate" => Whole
  BY <1>1 DEF AllInv, IdInv, WillPin
<1>4. CASE prog[p] = "agent"
  BY <1>1, <1>2, <1>4, UpdateIdInv
<1>5. CASE prog[p] = "activate"
  BY <1>1, <1>2, <1>3, <1>5, UpdateIdInv
<1> QED
  BY <1>2, <1>4, <1>5 DEF Up

LEMMA UpdateMessageIdInv ==
  ASSUME AllInv, NEW p \in Procs, UpdateMessage(p)
  PROVE  IdInv'
<1>1. phase[p] = "running" /\ saves[p] = <<>> /\ Update(p, "running")
  BY DEF UpdateMessage, At
<1>2. prog[p] = "agent" /\ Up(p) /\ token[p] = id[p]
  BY <1>1 DEF AllInv, IdInv, ProgOfPhase, TokenOfId, Up
<1> QED
  BY <1>1, <1>2, UpdateIdInv

LEMMA PinIdInv ==
  ASSUME AllInv, NEW p \in Procs, Pin(p)
  PROVE  IdInv'
<1>1. /\ UNCHANGED <<configVars, machine, prog, id, token, name>>
      /\ phase[p] = "pinning" /\ Go(p, "exiting")
      /\ Queue(p, <<Put("device_id", id[p])>>)
  BY DEF Pin, At
<1>2. prog[p] = "activate" /\ Whole
  BY <1>1 DEF AllInv, IdInv, ProgOfPhase, WillPin
<1>3. Fits(p, Put("device_id", id[p])) /\ Up(p)
  BY <1>2 DEF Fits, Put, Up
<1> QED
  BY <1>1, <1>2, <1>3, OneSaveFits, OnIdInv

LEMMA ExitIdInv ==
  ASSUME AllInv, NEW p \in Procs, Exit(p)
  PROVE  IdInv'
<1>1. /\ UNCHANGED <<configVars, machine>> /\ Gone({p})
      /\ phase[p] = "exiting" /\ saves[p] = <<>> /\ stage[p] = "idle"
      /\ name' = "pinned" => name = "pinned" \/ prog[p] = "activate"
  BY DEF Exit, At
<1>2. prog[p] = "activate" => Fixed /\ ~Overridden
  <2>1. \A x : <<x>> # <<>>
    OBVIOUS
  <2>2. Fixed \/ prog[p] # "activate"
    BY <1>1, <2>1 DEF AllInv, IdInv, WillPin
  <2> QED
    BY <2>2 DEF AllInv, IdInv, IdIsName, Up
<1>3. PinnedStays'
  BY <1>1, <1>2, SameFixed DEF AllInv, IdInv, PinnedStays
<1> QED
  BY <1>1, <1>2, <1>3, GoneIdInv

LEMMA StopIdInv ==
  ASSUME AllInv, NEW p \in Procs, Stop(p)
  PROVE  IdInv'
<1>1. UNCHANGED <<configVars, machine, name>> /\ Gone({p})
  BY DEF Stop
<1>2. PinnedStays'
  BY <1>1, SameFixed DEF AllInv, IdInv, PinnedStays
<1> QED
  BY <1>1, <1>2, GoneIdInv

-----------------------------------------------------------------------------
(* The commands, and a new name of the machine. *)

LEMMA CommandIdInv ==
  ASSUME AllInv, NEW p \in Procs, NEW g \in {"setting", "override"}, NEW s,
         Command(p, g, s), Apart, name' = "pinned" => name = "pinned",
         g = "override" => \A q \in Procs : phase[q] = "down",
         g = "override" => ~Activated,
         \A n \in DOMAIN s :
            /\ s[n].key = "device_token" => s[n].value \notin Ids
            /\ s[n].key = "device_id" => g = "override" /\ (name' = "pinned" => s[n].value \in Ids)
  PROVE  IdInv'
<1>1. /\ UNCHANGED <<configVars, machine, id, token>> /\ Quiet
      /\ prog'[p] = g /\ phase'[p] = "exiting" /\ saves'[p] = s
      /\ \A q \in Procs : q # p => /\ prog'[q] = prog[q] /\ phase'[q] = phase[q]
                                   /\ saves'[q] = saves[q]
  BY NotInASave DEF Command, Go, Queue, At, AllInv, Inv, TypeOK
<1>2. TokenOfId' /\ ProgOfPhase'
  BY <1>1 DEF AllInv, IdInv, TokenOfId, ProgOfPhase, Up
<1>3. ~Up(p)' /\ \A q \in Procs : q # p => (Up(q)' <=> Up(q))
  BY <1>1 DEF Up
<1>4. ASSUME g = "setting" PROVE IdIsName' /\ TokenIsName'
  <2>1. Overridden' => Overridden
    BY <1>1, <1>4 DEF Overridden
  <2> QED
    BY <1>1, <1>3, <2>1, SameDrafts, SameNames DEF AllInv, IdInv, IdIsName, TokenIsName
<1>5. ASSUME g = "override" PROVE IdIsName' /\ TokenIsName'
  <2>1. \A q \in Procs : ~Up(q)'
    BY <1>1, <1>3, <1>5 DEF AllInv, Inv, TypeOK, Up
  <2>2. \A c \in Conf : Draft(c) => c["device_token"] \notin Ids
    BY <1>1, <1>5 DEF Draft, Quiet, Activated, Setting
  <2> QED
    BY <2>1, <2>2, <1>1, SameDrafts DEF IdIsName, TokenIsName
<1>6. IdIsName' /\ TokenIsName'
  BY <1>4, <1>5
<1>7. SavesFit'
  <2>1. \A n \in DOMAIN saves'[p] : Fits(p, saves[p][n])'
    BY <1>1 DEF Fits
  <2>2. \A q \in Procs : q # p => \A n \in DOMAIN saves'[q] : Fits(q, saves[q][n])'
    BY <1>1, <1>3 DEF AllInv, IdInv, SavesFit, Fits
  <2> QED
    BY <2>1, <2>2 DEF SavesFit
<1>8. PinnedStays'
  BY <1>1, SameFixed DEF AllInv, IdInv, PinnedStays
<1>9. WillPin'
  BY <1>1, SameDrafts, SameFixed DEF AllInv, IdInv, WillPin
<1> QED
  BY <1>2, <1>6, <1>7, <1>8, <1>9 DEF IdInv

LEMMA ResetIdInv ==
  ASSUME AllInv, NEW p \in Procs, Reset(p), Apart
  PROVE  IdInv'
<1>1. PICK s \in {Initialize, <<Put("sensor_list", Given)>>} : Command(p, "setting", s)
  BY DEF Reset
<1>2. \A n \in DOMAIN s : /\ s[n].key = "device_token" => s[n].value \notin Ids
                          /\ s[n].key # "device_id"
  BY IdentityAssumption DEF Initialize, Put
<1> QED
  BY <1>1, <1>2, CommandIdInv DEF Reset

LEMMA OverrideIdIdInv ==
  ASSUME AllInv, NEW p \in Procs, OverrideId(p), Apart, name' # "adrift"
  PROVE  IdInv'
<1>1. PICK v \in Ids \cup {Off} :
         /\ Command(p, "override", <<Put("device_id", v)>>)
         /\ ~Activated /\ AllDown
         /\ name' = "pinned" => name = "pinned" /\ v # Off
  BY DEF OverrideId
<1>2. \A n \in DOMAIN <<Put("device_id", v)>> :
         /\ <<Put("device_id", v)>>[n].key = "device_id"
         /\ <<Put("device_id", v)>>[n].value = v
  BY DEF Put
<1> QED
  BY <1>1, <1>2, CommandIdInv DEF AllDown

LEMMA MachineRenamedIdInv ==
  ASSUME AllInv, MachineRenamed, Apart, name' # "adrift"
  PROVE  IdInv'
<1>1. UNCHANGED <<configVars, programs>> /\ Quiet
      /\ name' = name /\ (name = "pinned" \/ (~Activated /\ AllDown))
  BY NotInASave DEF MachineRenamed
<1>2. /\ prog' = prog /\ phase' = phase /\ id' = id /\ token' = token
      /\ saves' = saves /\ name' = name
  BY <1>1 DEF programs
<1>3. TokenOfId' /\ ProgOfPhase' /\ SavesFit' /\ PinnedStays' /\ WillPin'
  BY <1>1, <1>2, SameDrafts, SameFixed
  DEF AllInv, IdInv, TokenOfId, ProgOfPhase, SavesFit, Fits, Up, PinnedStays, WillPin
<1>4. CASE name = "pinned"
  <2>1. \A c \in Conf : Draft(c) => Name(c)' = Name(c)
    BY <1>4 DEF AllInv, IdInv, PinnedStays, Fixed, Name
  <2> QED
    BY <1>1, <1>2, <1>3, <2>1, SameDrafts
    DEF AllInv, IdInv, IdIsName, TokenIsName, Up, Overridden
<1>5. CASE ~Activated /\ AllDown
  <2>1. \A c \in Conf : Draft(c) => c["device_token"] \notin Ids
    BY <1>1, <1>5 DEF Draft, Quiet, Activated, Setting
  <2>2. \A p \in Procs : ~Up(p)
    BY <1>5 DEF AllDown, AllInv, Inv, TypeOK, Up
  <2> QED
    BY <1>1, <1>2, <1>3, <2>1, <2>2, SameDrafts DEF IdInv, IdIsName, TokenIsName, Up
<1> QED
  BY <1>1, <1>4, <1>5

-----------------------------------------------------------------------------
(* Reads and writes of device.json. *)

(* The file has a version less, or the ones it had: nothing new. *)
LEMMA FewerIdInv ==
  ASSUME AllInv, UNCHANGED <<machine, programs, name>>,
         \A c \in Conf : Draft(c)' => Draft(c), Whole',
         NEW p \in Procs, \A q \in Procs : q # p => stage'[q] = stage[q] /\ copy'[q] = copy[q],
         \A q \in Procs : q # p => stage[q] = "idle",
         stage'[p] = "idle" => Draft(copy[p]) /\ \A c \in Conf : Draft(c)' => c = copy[p],
         stage[p] # "idle", stage'[p] # "idle" => copy'[p] = copy[p]
  PROVE  IdInv'
<1>1. /\ prog' = prog /\ phase' = phase /\ id' = id /\ token' = token
      /\ saves' = saves /\ name' = name
  BY DEF programs
<1>2. TokenOfId' /\ ProgOfPhase' /\ SavesFit'
  BY <1>1 DEF AllInv, IdInv, TokenOfId, ProgOfPhase, SavesFit, Fits, Up
<1>3. IdIsName' /\ TokenIsName'
  BY <1>1, SameNames DEF AllInv, IdInv, IdIsName, TokenIsName, Up, Overridden
<1>4. Fixed => Fixed'
  BY DEF Fixed
<1>5. PinnedStays'
  BY <1>1, <1>4 DEF AllInv, IdInv, PinnedStays
<1>6. copy[p]["device_id"] \in Ids /\ stage'[p] = "idle" => Fixed'
  BY DEF Fixed
<1>7. WillPin'
  <2> SUFFICES ASSUME NEW q \in Procs, prog[q] = "activate", phase[q] = "exiting"
               PROVE  \/ saves[q] = <<Put("device_id", id[q])>>
                      \/ /\ saves[q] = <<>>
                         /\ IF stage'[q] = "idle" THEN Fixed'
                            ELSE copy'[q]["device_id"] \in Ids
    BY <1>1 DEF AllInv, IdInv, WillPin, Put
  <2>1. \/ saves[q] = <<Put("device_id", id[q])>>
        \/ /\ saves[q] = <<>>
           /\ IF stage[q] = "idle" THEN Fixed ELSE copy[q]["device_id"] \in Ids
    BY DEF AllInv, IdInv, WillPin
  <2>2. CASE q = p
    BY <2>1, <2>2, <1>6
  <2>3. CASE q # p
    BY <2>1, <2>3, <1>4
  <2> QED
    BY <2>2, <2>3
<1> QED
  BY <1>2, <1>3, <1>5, <1>7 DEF IdInv

LEMMA WriteOutIdInv ==
  ASSUME AllInv, NEW p \in Procs, WriteOut(p)
  PROVE  IdInv'
<1>1. /\ UNCHANGED <<machine, programs, name>>
      /\ stage[p] # "idle"
      /\ \A q \in Procs : q # p => stage[q] = "idle"
  BY DEF WriteOut, Open, Write, AllInv, ConfigInv, Alone
<1>2. CASE Open(p)
  <2>1. /\ stage'[p] = "open" /\ copy' = copy
        /\ \A q \in Procs : q # p => stage'[q] = stage[q]
    BY <1>2 DEF Open, AllInv, Inv, TypeOK, ConfigTypeOK
  <2>2. \A c \in Conf : Draft(c)' => Draft(c)
    BY <1>1, <2>1 DEF Draft
  <2>3. Whole'
    BY <2>1 DEF Whole
  <2> QED
    BY <1>1, <2>1, <2>2, <2>3, FewerIdInv
<1>3. CASE Write(p)
  <2>1. file' = Json(copy[p])
    BY <1>3 DEF Write, AllInv, ConfigInv
  <2>2. /\ stage'[p] = "idle"
        /\ \A q \in Procs : q # p => stage'[q] = stage[q] /\ copy'[q] = copy[q]
    BY <1>3 DEF Write, AllInv, Inv, TypeOK, ConfigTypeOK
  <2>3. file'.conf = copy[p] /\ Whole'
    BY <2>1, JsonFields DEF Whole
  <2>4. \A c \in Conf : Draft(c)' => c = copy[p]
    BY <1>1, <2>2, <2>3 DEF Draft
  <2>5. Draft(copy[p])
    BY <1>1 DEF Draft
  <2>6. \A c \in Conf : Draft(c)' => Draft(c)
    BY <2>4, <2>5
  <2> QED
    BY <1>1, <2>2, <2>3, <2>4, <2>5, <2>6, FewerIdInv
<1> QED
  BY <1>2, <1>3 DEF WriteOut

(* A new file gives no id and no token. *)
LEMMA FirstReadIdInv ==
  ASSUME AllInv, NEW p \in Procs, FirstRead(p), Apart
  PROVE  IdInv'
<1>1. /\ prog' = prog /\ phase' = phase /\ id' = id /\ token' = token
      /\ saves' = saves /\ name' = name /\ machine' = machine
      /\ phase[p] = "down" /\ Quiet
  BY FirstSave DEF FirstRead, Create, programs, AllInv
<1>2. /\ stage'[p] = "read" /\ copy'[p] = Default /\ file' = file
      /\ \A q \in Procs : q # p => stage'[q] = stage[q] /\ copy'[q] = copy[q]
      /\ file.conf = NoKeys
  BY DEF FirstRead, Create, AllInv, Inv, TypeOK, ConfigTypeOK
<1>3. \A c \in Conf : Draft(c)' => c \in {NoKeys, Default}
  BY <1>1, <1>2 DEF Draft, Quiet
<1>4. Draft(NoKeys) /\ NoKeys \in Conf
  BY <1>1, <1>2, QuietWhole
<1>5. \A c \in {NoKeys, Default} : c["device_id"] \notin Ids /\ c["device_token"] \notin Ids
  BY KeysAre, IdentityAssumption DEF NoKeys
<1>6. name # "pinned" /\ ~Fixed
  BY <1>4, <1>5 DEF AllInv, IdInv, PinnedStays, Fixed
<1>7. TokenOfId' /\ ProgOfPhase' /\ SavesFit' /\ PinnedStays'
  BY <1>1, <1>6 DEF AllInv, IdInv, TokenOfId, ProgOfPhase, SavesFit, Fits, Up, PinnedStays
<1>8. TokenIsName'
  BY <1>3, <1>5 DEF TokenIsName
<1>9. IdIsName'
  <2>1. \A c \in {NoKeys, Default} : Name(c)' = machine
    BY <1>1, <1>5 DEF Name
  <2>2. Name(NoKeys) = machine
    BY <1>5 DEF Name
  <2> QED
    BY <1>1, <1>3, <1>4, <2>1, <2>2 DEF AllInv, IdInv, IdIsName, Up, Overridden
<1>10. WillPin'
  <2>1. Whole'
    BY <1>2 DEF Whole
  <2>2. prog[p] # "activate"
    BY <1>1 DEF AllInv, Inv, TypeOK
  <2> QED
    BY <1>1, <1>2, <1>6, <2>1, <2>2 DEF AllInv, IdInv, WillPin, Quiet
<1> QED
  BY <1>7, <1>8, <1>9, <1>10 DEF IdInv

(* A save that fits brings in no other id, and pins the one there is. *)
LEMMA SaveNextIdInv ==
  ASSUME AllInv, NEW p \in Procs, SaveNext(p), Apart
  PROVE  IdInv'
<1> DEFINE s == Head(saves[p])
           c2 == IF file.kind = "json" THEN [file.conf EXCEPT ![s.key] = s.value]
                 ELSE NoKeys
<1>1. /\ prog' = prog /\ phase' = phase /\ id' = id /\ token' = token
      /\ name' = name /\ machine' = machine /\ Quiet
      /\ saves[p] # <<>> /\ saves[p] \in Seq(Settings)
      /\ saves'[p] = Tail(saves[p])
      /\ \A q \in Procs : q # p => saves'[q] = saves[q]
  BY FirstSave DEF SaveNext, Save, Queue, AllInv, Inv, TypeOK, Settings
<1>2. /\ stage'[p] = "read" /\ copy'[p] = c2 /\ file' = file
      /\ \A q \in Procs : q # p => stage'[q] = stage[q] /\ copy'[q] = copy[q]
  BY DEF SaveNext, Save, AllInv, Inv, TypeOK, ConfigTypeOK
<1>3. s \in Settings /\ s = saves[p][1] /\ 1 \in DOMAIN saves[p]
  BY <1>1
<1>4. Fits(p, s)
  BY <1>3 DEF AllInv, IdInv, SavesFit
<1>5. \A n \in DOMAIN Tail(saves[p]) : \E m \in DOMAIN saves[p] : Tail(saves[p])[n] = saves[p][m]
  BY <1>1
<1>6. Draft(file.conf) /\ file.conf \in Conf /\ (file.kind # "json" => file.conf = NoKeys)
  BY <1>1, QuietWhole DEF AllInv, Inv, TypeOK, ConfigTypeOK
<1>7. \A c \in Conf : Draft(c)' => c \in {file.conf, c2}
  BY <1>1, <1>2 DEF Draft, Quiet
<1>8. \A k \in Keys : c2[k] = file.conf[k] \/ (k = s.key /\ c2[k] = s.value /\ file.kind = "json")
  BY <1>6 DEF Conf
<1> HIDE DEF c2, s
<1>9. TokenOfId' /\ ProgOfPhase'
  BY <1>1 DEF AllInv, IdInv, TokenOfId, ProgOfPhase, Up
<1>10. SavesFit'
  <2>1. \A n \in DOMAIN saves'[p] : Fits(p, saves[p][n])'
    <3> SUFFICES ASSUME NEW n \in DOMAIN Tail(saves[p])
                 PROVE  Fits(p, saves[p][n])'
      BY <1>1
    <3>1. PICK m \in DOMAIN saves[p] : Tail(saves[p])[n] = saves[p][m]
      BY <1>5
    <3>2. Fits(p, saves[p][m])
      BY DEF AllInv, IdInv, SavesFit
    <3> QED
      BY <1>1, <3>1, <3>2 DEF Fits, Up
  <2>2. \A q \in Procs : q # p => \A n \in DOMAIN saves'[q] : Fits(q, saves[q][n])'
    BY <1>1 DEF AllInv, IdInv, SavesFit, Fits, Up
  <2> QED
    BY <2>1, <2>2 DEF SavesFit
<1>11. Overridden \/ Name(c2) = Name(file.conf)
  <2>1. CASE c2["device_id"] = file.conf["device_id"]
    BY <2>1 DEF Name
  <2>2. CASE s.key = "device_id" /\ c2["device_id"] = s.value
    <3>1. CASE prog[p] = "override"
      BY <3>1 DEF Overridden
    <3>2. CASE prog[p] = "activate" /\ s.value = id[p]
      BY <1>6, <2>2, <3>2 DEF AllInv, IdInv, IdIsName, Up, Name
    <3> QED
      BY <1>4, <2>2, <3>1, <3>2 DEF Fits
  <2> QED
    BY <1>8, <2>1, <2>2, KeysAre
<1>12. \A c : Name(c)' = Name(c)
  BY <1>1, SameNames
<1>13. IdIsName'
  BY <1>1, <1>6, <1>7, <1>11, <1>12 DEF AllInv, IdInv, IdIsName, Up, Overridden
<1>14. TokenIsName'
  <2>1. c2["device_token"] \in Ids =>
           ~Overridden /\ Name(file.conf) = c2["device_token"]
    <3>1. CASE c2["device_token"] = file.conf["device_token"]
      BY <1>6, <3>1 DEF AllInv, IdInv, TokenIsName
    <3>2. CASE s.key = "device_token" /\ c2["device_token"] = s.value
      BY <1>4, <1>6, <3>2 DEF Fits, AllInv, IdInv, IdIsName
    <3> QED
      BY <1>8, <3>1, <3>2, KeysAre
  <2>2. file.conf["device_token"] \in Ids =>
           ~Overridden /\ Name(file.conf) = file.conf["device_token"]
    BY <1>6 DEF AllInv, IdInv, TokenIsName
  <2>3. Overridden' <=> Overridden
    BY <1>1 DEF Overridden
  <2> QED
    BY <1>7, <1>11, <1>12, <2>1, <2>2, <2>3 DEF TokenIsName
<1>15. Fixed => c2["device_id"] \in Ids \/ prog[p] = "override"
  <2>1. CASE c2["device_id"] = file.conf["device_id"]
    BY <1>6, <2>1 DEF Fixed
  <2>2. CASE s.key = "device_id" /\ c2["device_id"] = s.value
    BY <1>4, <2>2 DEF Fits, AllInv, IdInv, IdIsName, Up
  <2> QED
    BY <1>8, <2>1, <2>2, KeysAre
<1>16. PinnedStays'
  <2> SUFFICES ASSUME name = "pinned" PROVE Fixed'
    BY <1>1 DEF PinnedStays
  <2>1. file.conf["device_id"] \in Ids
    BY <1>6 DEF AllInv, IdInv, PinnedStays, Fixed
  <2>2. c2["device_id"] \in Ids
    <3>1. CASE c2["device_id"] = file.conf["device_id"]
      BY <2>1, <3>1
    <3>2. CASE s.key = "device_id" /\ c2["device_id"] = s.value
      BY <1>4, <3>2 DEF Fits, AllInv, IdInv, IdIsName, Up
    <3> QED
      BY <1>8, <3>1, <3>2, KeysAre
  <2> QED
    BY <1>7, <2>1, <2>2 DEF Fixed
<1>17. WillPin'
  <2>1. Whole'
    BY <1>2 DEF Whole
  <2> SUFFICES ASSUME NEW q \in Procs, prog[q] = "activate", phase[q] = "exiting"
               PROVE  \/ saves'[q] = <<Put("device_id", id[q])>>
                      \/ /\ saves'[q] = <<>>
                         /\ IF stage'[q] = "idle" THEN Fixed'
                            ELSE copy'[q]["device_id"] \in Ids
    BY <1>1, <2>1 DEF WillPin, Put
  <2>2. \/ saves[q] = <<Put("device_id", id[q])>>
        \/ saves[q] = <<>> /\ Fixed
    BY <1>1 DEF AllInv, IdInv, WillPin, Quiet
  <2>3. id[q] \in Ids /\ ~Overridden
    BY DEF AllInv, IdInv, IdIsName, Up
  <2>4. CASE q = p
    <3>1. saves[p] = <<Put("device_id", id[p])>>
      BY <1>1, <2>2, <2>4
    <3>2. s = Put("device_id", id[p]) /\ saves'[p] = <<>>
      BY <1>1, <1>3, <3>1
    <3>3. file.kind = "json"
      BY <1>1, <2>4, QuietWhole DEF AllInv, IdInv, WillPin
    <3>4. c2["device_id"] = id[p]
      BY <1>6, <3>2, <3>3, KeysAre DEF c2, Put, Conf
    <3> QED
      BY <1>2, <2>3, <2>4, <3>2, <3>4
  <2>5. CASE q # p
    <3>1. Fixed => Fixed'
      BY <1>6, <1>7, <1>15, <2>3 DEF Fixed, Overridden
    <3> QED
      BY <1>1, <1>2, <2>2, <2>5, <3>1 DEF Quiet
  <2> QED
    BY <2>4, <2>5
<1> QED
  BY <1>9, <1>10, <1>13, <1>14, <1>16, <1>17 DEF IdInv

LEMMA PowerCutIdInv ==
  ASSUME AllInv, PowerCut
  PROVE  IdInv'
<1>1. /\ \A p \in Procs : prog'[p] = "none" /\ phase'[p] = "down" /\ saves'[p] = <<>>
      /\ machine' = machine
      /\ name' = "pinned" => name = "pinned" /\ file'.kind = "json"
  BY DEF PowerCut, Gone
<1>2. \A p \in Procs : stage'[p] = "idle"
  BY DEF PowerCut
<1>3. \A c \in Conf : Draft(c)' => c = file'.conf
  BY <1>2 DEF Draft
<1>4. \/ Draft(file'.conf) /\ file'.conf \in Conf
      \/ file'.conf = NoKeys /\ file'.kind # "json"
  <2>1. CASE file' = file /\ \A p \in Procs : stage[p] # "open"
    BY <2>1 DEF Draft, AllInv, Inv, TypeOK, ConfigTypeOK
  <2>2. CASE file' = file /\ \E p \in Procs : stage[p] = "open"
    BY <2>2 DEF AllInv, ConfigInv, ConfigTypeOK
  <2>3. CASE file' = Without("torn")
    BY <2>3, WithoutFields
  <2> QED
    BY <2>1, <2>2, <2>3 DEF PowerCut
<1>5. NoKeys["device_token"] \notin Ids
  BY KeysAre, IdentityAssumption DEF NoKeys
<1>6. TokenOfId' /\ ProgOfPhase' /\ SavesFit' /\ IdIsName' /\ WillPin' /\ ~Overridden'
  BY <1>1 DEF TokenOfId, ProgOfPhase, SavesFit, IdIsName, WillPin, Up, Overridden
<1>7. TokenIsName'
  <2>1. \A c : Name(c)' = Name(c)
    BY <1>1, SameNames
  <2> QED
    BY <1>3, <1>4, <1>5, <1>6, <2>1 DEF TokenIsName, AllInv, IdInv
<1>8. PinnedStays'
  BY <1>1, <1>3, <1>4 DEF PinnedStays, Fixed, AllInv, IdInv
<1> QED
  BY <1>6, <1>7, <1>8 DEF IdInv

-----------------------------------------------------------------------------
(* Nothing is claimed of a device once its name is adrift, and it stays so. *)
Kept == name # "adrift" => IdInv

LEMMA AdriftStays ==
  ASSUME [Next]_vars, name = "adrift"
  PROVE  name' = "adrift"
<1>1. CASE UNCHANGED vars
  BY <1>1 DEF vars
<1>2. CASE PowerCut \/ MachineRenamed
  BY <1>2 DEF PowerCut, MachineRenamed
<1>3. CASE \E p \in Procs : \/ FirstRead(p) \/ SaveNext(p) \/ WriteOut(p)
                            \/ Launch(p, "agent") \/ Launch(p, "activate") \/ Construct(p)
                            \/ Answer(p) \/ UpdateRound(p) \/ UpdateMessage(p) \/ Pin(p)
                            \/ Exit(p) \/ Reset(p) \/ OverrideId(p) \/ Stop(p)
  BY <1>3 DEF FirstRead, SaveNext, WriteOut, Launch, Construct, Answer, UpdateRound,
              UpdateMessage, Update, Pin, Exit, Reset, OverrideId, Stop
<1> QED
  BY <1>1, <1>2, <1>3 DEF Next, Step

LEMMA NextIdInv ==
  Inv /\ ConfigInv /\ Kept /\ [Next /\ Apart]_vars => Kept'
<1> SUFFICES ASSUME Inv, ConfigInv, Kept, [Next /\ Apart]_vars, name' # "adrift"
             PROVE  IdInv'
  BY DEF Kept
<1>1. AllInv /\ name # "adrift"
  BY AdriftStays DEF Kept, AllInv
<1>2. CASE UNCHANGED vars
  <2>1. /\ UNCHANGED <<configVars, machine, name>> /\ prog' = prog /\ phase' = phase
        /\ id' = id /\ token' = token /\ saves' = saves
    BY <1>2 DEF vars, programs
  <2> QED
    BY <1>1, <2>1, SameDrafts, SameNames, SameFixed
    DEF AllInv, IdInv, TokenOfId, ProgOfPhase, IdIsName, TokenIsName, SavesFit, Fits,
        PinnedStays, WillPin, Up, Overridden
<1>3. CASE Next /\ Apart
  <2>1. CASE \E p \in Procs : FirstRead(p) \/ SaveNext(p) \/ WriteOut(p)
    BY <1>1, <1>3, <2>1, FirstReadIdInv, SaveNextIdInv, WriteOutIdInv
  <2>2. CASE PowerCut
    BY <1>1, <2>2, PowerCutIdInv
  <2>3. CASE MachineRenamed
    BY <1>1, <1>3, <2>3, MachineRenamedIdInv
  <2>4. CASE \E p \in Procs : \/ Launch(p, "agent") \/ Launch(p, "activate")
                              \/ Construct(p) \/ Reset(p) \/ OverrideId(p)
    BY <1>1, <1>3, <2>4, LaunchIdInv, ConstructIdInv, ResetIdInv, OverrideIdIdInv
  <2>5. CASE \E p \in Procs : \/ Answer(p) \/ UpdateRound(p) \/ UpdateMessage(p) \/ Pin(p)
                              \/ Exit(p) \/ Stop(p)
    BY <1>1, <2>5, AnswerIdInv, UpdateRoundIdInv, UpdateMessageIdInv, PinIdInv, ExitIdInv,
       StopIdInv
  <2> QED
    BY <1>3, <2>1, <2>2, <2>3, <2>4, <2>5 DEF Next, Step
<1> QED
  BY <1>2, <1>3

(* No program uses a token that was issued to another id than the one it   *)
(* goes by, for any programs, ids and names of the machine, as long as     *)
(* saves are not disturbed and the name of the device is not adrift.       *)
THEOREM TokensFit == ApartSpec => []TokenFitsId
<1>1. Init => Inv /\ ConfigInv /\ Kept
  BY InitInv, InitConfigInv, InitIdInv DEF Init, Kept
<1>2. [Next /\ Apart]_vars => [Next]_vars /\ [Next /\ Alone']_vars
  BY DEF Apart
<1>3. Inv /\ ConfigInv /\ Kept /\ [Next /\ Apart]_vars => Inv' /\ ConfigInv' /\ Kept'
  BY <1>2, NextInv, NextIsConfigNext, NextConfigInv, NextIdInv
<1>4. Kept => TokenFitsId
  BY DEF Kept, IdInv, TokenOfId, TokenFitsId
<1> QED
  BY <1>1, <1>3, <1>4, PTL DEF ApartSpec
=============================================================================
