--------------------------- MODULE DeviceConfig_proofs ---------------------------
(***************************************************************************)
(* As long as no two saves overlap, device.json keeps the contract of      *)
(* ConfigContract: for any programs, keys and values.                      *)
(***************************************************************************)
EXTENDS DeviceConfig, TLAPS

(* What a program is about to write once it has read the file: the file    *)
(* as it still is, but for one key.                                        *)
Prepared(p) ==
    \/ file.kind = "absent" /\ copy[p] = Default
    \/ /\ file.kind = "json"
       /\ \E k \in Keys, v \in Values \cup {Missing} : copy[p] = [file.conf EXCEPT ![k] = v]
    \/ file.kind \in {"empty", "torn"} /\ copy[p] = NoKeys

ConfigInv ==
    /\ ConfigTypeOK
    /\ Alone
    /\ \A p \in Procs : stage[p] = "read" => Prepared(p)
    /\ \A p \in Procs : stage[p] = "open" => file.kind = "empty"

LEMMA NoKeysIsConf == NoKeys \in Conf
  BY DEF NoKeys, Conf

LEMMA WithoutFields == ASSUME NEW k PROVE Without(k).kind = k /\ Without(k).conf = NoKeys
  BY DEF Without

LEMMA JsonFields == ASSUME NEW c PROVE Json(c).kind = "json" /\ Json(c).conf = c
  BY DEF Json

LEMMA StandingOpen ==
  ASSUME Alone, NEW p \in Procs, stage[p] = "open"
  PROVE  Standing = copy[p]
<1>1. \A q \in Procs : stage[q] = "open" => q = p
  BY DEF Alone
<1>2. (CHOOSE q \in Procs : stage[q] = "open") = p
  BY <1>1
<1> QED
  BY <1>2 DEF Standing

LEMMA StandingClosed ==
  ASSUME \A p \in Procs : stage[p] # "open"
  PROVE  Standing = IF file.kind = "absent" THEN Default ELSE file.conf
  BY DEF Standing

(* The same of the state after a step. *)
LEMMA StandingOpenNext ==
  ASSUME Alone', NEW p \in Procs, stage'[p] = "open"
  PROVE  Standing' = copy'[p]
<1>1. \A q \in Procs : stage'[q] = "open" => q = p
  BY DEF Alone
<1>2. (CHOOSE q \in Procs : stage'[q] = "open") = p
  BY <1>1
<1> QED
  BY <1>2 DEF Standing

LEMMA StandingClosedNext ==
  ASSUME \A p \in Procs : stage'[p] # "open"
  PROVE  Standing' = IF file'.kind = "absent" THEN Default ELSE file'.conf
  BY DEF Standing

LEMMA InitConfigInv == ConfigInit => ConfigInv
<1> SUFFICES ASSUME ConfigInit PROVE ConfigInv
  OBVIOUS
<1>1. ConfigTypeOK
  BY NoKeysIsConf DEF ConfigInit, ConfigTypeOK, Without
<1> QED
  BY <1>1 DEF ConfigInit, ConfigInv, Alone

-----------------------------------------------------------------------------
(* Each step keeps the invariant. *)

LEMMA CreateKeeps ==
  ASSUME ConfigInv, NEW p \in Procs, Create(p), Alone'
  PROVE  ConfigInv'
<1>1. ConfigTypeOK'
  BY DeviceConfigAssumption DEF ConfigInv, ConfigTypeOK, Create, Conf
<1>2. \A q \in Procs : stage'[q] = "read" => Prepared(q)'
  BY DEF ConfigInv, ConfigTypeOK, Create, Prepared, Alone
<1>3. \A q \in Procs : stage'[q] = "open" => file'.kind = "empty"
  BY DEF ConfigInv, ConfigTypeOK, Create
<1> QED
  BY <1>1, <1>2, <1>3 DEF ConfigInv

LEMMA SaveKeeps ==
  ASSUME ConfigInv, Alone', NEW p \in Procs,
         NEW k \in Keys, NEW v \in Values \cup {Missing}, Save(p, k, v)
  PROVE  ConfigInv'
<1> DEFINE c == IF file.kind = "json" THEN [file.conf EXCEPT ![k] = v] ELSE NoKeys
<1>1. c \in Conf
  BY NoKeysIsConf DEF ConfigInv, ConfigTypeOK, Conf
<1>2. /\ file' = file
      /\ stage' = [stage EXCEPT ![p] = "read"]
      /\ copy' = [copy EXCEPT ![p] = c]
      /\ file.kind # "absent"
  BY DEF Save
<1>3. ConfigTypeOK'
  BY <1>1, <1>2 DEF ConfigInv, ConfigTypeOK
<1>4. Prepared(p)'
  <2>1. copy'[p] = c
    BY <1>2 DEF ConfigInv, ConfigTypeOK
  <2>2. CASE file.kind = "json"
    BY <1>2, <2>1, <2>2 DEF Prepared
  <2>3. CASE file.kind # "json"
    BY <1>2, <2>1, <2>3 DEF Prepared, ConfigInv, ConfigTypeOK
  <2> QED
    BY <2>2, <2>3
<1>5. \A q \in Procs : stage'[q] = "read" => Prepared(q)'
  <2> SUFFICES ASSUME NEW q \in Procs, stage'[q] = "read" PROVE Prepared(q)'
    OBVIOUS
  <2>1. q = p
    BY <1>2 DEF Alone, ConfigInv, ConfigTypeOK
  <2> QED
    BY <1>4, <2>1
<1>6. \A q \in Procs : stage'[q] = "open" => file'.kind = "empty"
  BY <1>2 DEF ConfigInv, ConfigTypeOK
<1> QED
  BY <1>3, <1>5, <1>6 DEF ConfigInv

LEMMA OpenKeeps ==
  ASSUME ConfigInv, Alone', NEW p \in Procs, Open(p)
  PROVE  ConfigInv'
<1>1. file'.kind = "empty" /\ file'.conf = NoKeys
  BY WithoutFields DEF Open
<1>2. ConfigTypeOK'
  BY NoKeysIsConf DEF ConfigInv, ConfigTypeOK, Open, Without
<1>3. \A q \in Procs : stage'[q] # "read"
  BY DEF ConfigInv, ConfigTypeOK, Open, Alone
<1> QED
  BY <1>1, <1>2, <1>3 DEF ConfigInv

LEMMA WriteKeeps ==
  ASSUME ConfigInv, Alone', NEW p \in Procs, Write(p)
  PROVE  ConfigInv'
<1>1. ConfigTypeOK'
  BY NoKeysIsConf DEF ConfigInv, ConfigTypeOK, Write, Without, Json
<1>2. \A q \in Procs : stage'[q] = "idle"
  BY DEF ConfigInv, ConfigTypeOK, Write, Alone
<1> QED
  BY <1>1, <1>2 DEF ConfigInv

LEMMA BreakKeeps ==
  ASSUME ConfigInv, Alone', NEW p \in Procs, Break(p)
  PROVE  ConfigInv'
<1>1. ConfigTypeOK'
  BY NoKeysIsConf DEF ConfigInv, ConfigTypeOK, Break, Without
<1>2. \A q \in Procs : stage'[q] = "idle"
  BY DEF ConfigInv, ConfigTypeOK, Break, Alone
<1> QED
  BY <1>1, <1>2 DEF ConfigInv

LEMMA NextConfigInv == ConfigInv /\ [ConfigNext /\ Alone']_configVars => ConfigInv'
<1> SUFFICES ASSUME ConfigInv, [ConfigNext /\ Alone']_configVars PROVE ConfigInv'
  OBVIOUS
<1>1. CASE UNCHANGED configVars
  BY <1>1 DEF configVars, ConfigInv, ConfigTypeOK, Alone, Prepared
<1>2. CASE ConfigNext /\ Alone'
  <2>1. PICK p \in Procs : ConfigStep(p)
    BY <1>2 DEF ConfigNext
  <2>2. CASE Create(p)
    BY <1>2, <2>2, CreateKeeps
  <2>3. CASE Open(p)
    BY <1>2, <2>3, OpenKeeps
  <2>4. CASE Write(p)
    BY <1>2, <2>4, WriteKeeps
  <2>5. CASE Break(p)
    BY <1>2, <2>5, BreakKeeps
  <2>6. CASE \E k \in Keys, v \in Values \cup {Missing} : Save(p, k, v)
    BY <1>2, <2>6, SaveKeeps
  <2> QED
    BY <2>1, <2>2, <2>3, <2>4, <2>5, <2>6 DEF ConfigStep
<1> QED
  BY <1>1, <1>2

(* What lib/common.js keeps about device.json: the types, and that a       *)
(* program is about to write the file as it is but for one key.            *)
THEOREM ConfigCorrect == AloneSpec => []ConfigInv
<1>1. AloneSpec => [][ConfigNext /\ Alone']_configVars /\ ConfigInit
  BY DEF AloneSpec
<1> QED
  BY <1>1, InitConfigInv, NextConfigInv, PTL

-----------------------------------------------------------------------------
(* Each step is one of the contract, or none. *)

LEMMA ReadStutters ==
  ASSUME ConfigInv, Alone', NEW p \in Procs, stage[p] = "idle",
         stage' = [stage EXCEPT ![p] = "read"], file' = file
  PROVE  Standing' = Standing
<1>1. \A q \in Procs : stage'[q] # "open"
  BY DEF ConfigInv, ConfigTypeOK, Alone
<1>2. \A q \in Procs : stage[q] # "open"
  BY <1>1 DEF ConfigInv, ConfigTypeOK
<1> QED
  BY <1>1, <1>2, StandingClosed, StandingClosedNext

LEMMA OpenSaves ==
  ASSUME ConfigInv, Alone', NEW p \in Procs, Open(p)
  PROVE  Contract!Next \/ Standing' = Standing
<1>1. \A q \in Procs : stage[q] # "open"
  BY DEF ConfigInv, ConfigTypeOK, Open, Alone
<1>2. Standing = IF file.kind = "absent" THEN Default ELSE file.conf
  BY <1>1, StandingClosed
<1>3. stage'[p] = "open" /\ copy' = copy
  BY DEF Open, ConfigInv, ConfigTypeOK
<1>4. Standing' = copy[p]
  BY <1>3, StandingOpenNext
<1>5. Prepared(p)
  BY DEF ConfigInv, Open
<1>6. CASE file.kind = "absent" /\ copy[p] = Default
  BY <1>2, <1>4, <1>6
<1>7. CASE /\ file.kind = "json"
           /\ \E k \in Keys, v \in Values \cup {Missing} : copy[p] = [file.conf EXCEPT ![k] = v]
  BY <1>2, <1>4, <1>7 DEF Contract!Next, Contract!SaveKey
<1>8. CASE file.kind \in {"empty", "torn"} /\ copy[p] = NoKeys
  BY <1>2, <1>4, <1>8 DEF ConfigInv, ConfigTypeOK
<1> QED
  BY <1>5, <1>6, <1>7, <1>8 DEF Prepared

LEMMA WriteStutters ==
  ASSUME ConfigInv, NEW p \in Procs, Write(p)
  PROVE  Standing' = Standing
<1>1. file.kind = "empty"
  BY DEF ConfigInv, Write
<1>2. Standing = copy[p]
  BY StandingOpen DEF Write, ConfigInv
<1>3. \A q \in Procs : stage'[q] # "open"
  BY DEF ConfigInv, ConfigTypeOK, Write, Alone
<1>4. file'.kind = "json" /\ file'.conf = copy[p]
  BY <1>1, JsonFields DEF Write
<1> QED
  BY <1>2, <1>3, <1>4, StandingClosedNext

LEMMA BreakLosesAllOrNothing ==
  ASSUME ConfigInv, NEW p \in Procs, Break(p)
  PROVE  Contract!Next \/ Standing' = Standing
<1>1. \A q \in Procs : stage'[q] # "open"
  BY DEF ConfigInv, ConfigTypeOK, Break, Alone
<1>2. CASE stage[p] = "open"
  <2>1. file'.kind \in {"empty", "torn"} /\ file'.conf = NoKeys
    BY <1>2, WithoutFields DEF ConfigInv, ConfigTypeOK, Break
  <2>2. Standing' = NoKeys
    BY <1>1, <2>1, StandingClosedNext
  <2> QED
    BY <2>2 DEF Contract!Next, Contract!Lose, Contract!NoKeys, NoKeys
<1>3. CASE stage[p] # "open"
  <2>1. file' = file /\ \A q \in Procs : stage[q] # "open"
    BY <1>3 DEF ConfigInv, ConfigTypeOK, Break, Alone
  <2> QED
    BY <1>1, <2>1, StandingClosed, StandingClosedNext
<1> QED
  BY <1>2, <1>3

LEMMA StepKeepsContract ==
  ConfigInv /\ [ConfigNext /\ Alone']_configVars => [Contract!Next]_Standing
<1> SUFFICES ASSUME ConfigInv, [ConfigNext /\ Alone']_configVars
             PROVE  Contract!Next \/ Standing' = Standing
  OBVIOUS
<1>1. CASE UNCHANGED configVars
  BY <1>1 DEF configVars, Standing
<1>2. CASE ConfigNext /\ Alone'
  <2>1. PICK p \in Procs : ConfigStep(p)
    BY <1>2 DEF ConfigNext
  <2>2. CASE Create(p)
    BY <1>2, <2>2, ReadStutters DEF Create
  <2>3. CASE Open(p)
    BY <1>2, <2>3, OpenSaves
  <2>4. CASE Write(p)
    BY <2>4, WriteStutters
  <2>5. CASE Break(p)
    BY <2>5, BreakLosesAllOrNothing
  <2>6. CASE \E k \in Keys, v \in Values \cup {Missing} : Save(p, k, v)
    BY <1>2, <2>6, ReadStutters DEF Save
  <2> QED
    BY <2>1, <2>2, <2>3, <2>4, <2>5, <2>6 DEF ConfigStep
<1> QED
  BY <1>1, <1>2

LEMMA InitKeepsContract == ConfigInit => Standing = Default
<1> SUFFICES ASSUME ConfigInit PROVE Standing = Default
  OBVIOUS
<1>1. \A p \in Procs : stage[p] # "open"
  BY DEF ConfigInit
<1> QED
  BY <1>1, StandingClosed, WithoutFields DEF ConfigInit

(* lib/common.js keeps the settings the way its callers rely on, as long   *)
(* as no two saves overlap: each save sets its key and no other, and a     *)
(* crash loses all of them or none.                                        *)
THEOREM ContractKept == AloneSpec => KeepsConfigContract
<1>1. AloneSpec => ConfigInit /\ [][ConfigNext /\ Alone']_configVars
  BY DEF AloneSpec
<1>2. ConfigInit => Contract!Init
  BY InitKeepsContract DEF Contract!Init
<1> QED
  BY <1>1, <1>2, ConfigCorrect, StepKeepsContract, PTL
     DEF KeepsConfigContract, Contract!Spec
=============================================================================
