------------------------------ MODULE DeviceRecord ------------------------------
(***************************************************************************)
(* What the cloud holds of the device besides its components: its name,    *)
(* custom and reported attributes, tags and a location.  An update, of the *)
(* agent or of an admin command, reads the record, merges it with what the *)
(* message says and writes the whole of it (lib/cloud.proxy.js, update).   *)
(* Reading and writing are two requests, and updates do not wait for each  *)
(* other.                                                                  *)
(*                                                                         *)
(* The components of the same answer are in Registry.                      *)
(***************************************************************************)
EXTENDS Naturals, FiniteSets

CONSTANTS Updates,  \* updates in flight
          Attrs,    \* names of attributes
          Reported, \* those getAgentAttr reports of the agent and its machine
          Values,   \* values of attributes
          Own,      \* the values reported
          Places,   \* locations
          Words,    \* tags other than the numbers
          Titles,   \* names of the device
          None,     \* not there
          Docs      \* what updates say of the device

ASSUME DeviceRecordAssumption ==
    /\ Reported \subseteq Attrs
    /\ Own \notin Values /\ None \notin Values \cup {Own} \cup Places \cup Titles

Attributes == [Attrs -> Values \cup {Own, None}]
Record == [name : Titles \cup {None}, attributes : Attributes,
           tags : SUBSET (Words \cup Nat), loc : Places \cup {None}]

ASSUME DocsAssumption == Docs \subseteq Record

VARIABLES device,  \* the cloud's record of the device
          upd      \* the updates in flight

recordVars == <<device, upd>>

Nothing == [name |-> None, attributes |-> [a \in Attrs |-> None], tags |-> {}, loc |-> None]
Free == [phase |-> "free", doc |-> Nothing, read |-> Nothing]
Upd == [phase : {"free", "asked", "answered", "sent"}, doc : Docs \cup {Nothing},
        read : Record]

(* The types, and that a record that was written has what the agent        *)
(* reports.                                                                *)
RecordTypeOK ==
    /\ device \in Record
    /\ upd \in [Updates -> Upd]
    /\ device # Nothing => \A a \in Reported : device.attributes[a] # None

RecordInit ==
    /\ device = Nothing
    /\ upd = [u \in Updates |-> Free]

-----------------------------------------------------------------------------
(* Merging *)

(* What the agent reports of itself and its machine, in every update. *)
AgentAttr == [a \in Attrs |-> IF a \in Reported THEN Own ELSE None]

(* What an update starts from, in a program that knows the device by a     *)
(* name, or by none.                                                       *)
Metadata(name) == [Nothing EXCEPT !.name = name, !.attributes = AgentAttr]

(* for (tag in tags) goes over the positions of the list. *)
Positions(tags) == 0 .. Cardinality(tags) - 1

(* What is sent, given what the update says and what was read.             *)
MergedNoneReported(doc, read) ==
    [name |-> doc.name,
     attributes |-> [a \in Attrs |->
         IF doc.attributes[a] # None THEN doc.attributes[a] ELSE read.attributes[a]],
     tags |-> {}, loc |-> doc.loc]
MergedForgetsRead(doc, read) ==
    [name |-> doc.name,
     attributes |-> [a \in Attrs |->
         IF doc.attributes[a] # None THEN doc.attributes[a] ELSE AgentAttr[a]],
     tags |-> {}, loc |-> doc.loc]
MergedOldFirst(doc, read) ==
    [name |-> doc.name,
     attributes |-> [a \in Attrs |->
         IF read.attributes[a] # None THEN read.attributes[a]
         ELSE IF a \in Reported THEN Own ELSE doc.attributes[a]],
     tags |-> {}, loc |-> doc.loc]
Merged(doc, read) ==
    LET metadata == Metadata(doc.name)
    IN  [name |-> metadata.name,
         attributes |-> [a \in Attrs |->
             IF doc.attributes[a] # None THEN doc.attributes[a]
             ELSE IF metadata.attributes[a] # None THEN metadata.attributes[a]
             ELSE read.attributes[a]],
         tags |-> IF doc.tags = {} THEN {} ELSE doc.tags \cup Positions(read.tags),
         loc |-> doc.loc]

(* What the cloud makes of it: attributes are replaced as a whole, name,   *)
(* tags and location when there are any.                                   *)
Replaced(old, sent) ==
    [name |-> IF sent.name = None THEN old.name ELSE sent.name,
     attributes |-> sent.attributes,
     tags |-> IF sent.tags = {} THEN old.tags ELSE sent.tags,
     loc |-> IF sent.loc = None THEN old.loc ELSE sent.loc]

-----------------------------------------------------------------------------
(* An update *)

(* With a token that is good, it asks for the device. *)
Ask(u, doc) ==
    /\ upd[u].phase = "free"
    /\ upd' = [upd EXCEPT ![u] = [Free EXCEPT !.phase = "asked", !.doc = doc]]
    /\ UNCHANGED device

CloudReads(u) ==
    /\ upd[u].phase = "asked"
    /\ upd' = [upd EXCEPT ![u].phase = "answered", ![u].read = device]
    /\ UNCHANGED device

(* An answer without a device: the merge is with nothing. *)
ReadFails(u) ==
    /\ upd[u].phase = "asked"
    /\ upd' = [upd EXCEPT ![u].phase = "sent"]
    /\ UNCHANGED device

(* The callback of getDevice. *)
Send(u) ==
    /\ upd[u].phase = "answered"
    /\ upd' = [upd EXCEPT ![u].phase = "sent"]
    /\ UNCHANGED device

CloudWrites(u) ==
    /\ upd[u].phase = "sent"
    /\ device' = Replaced(device, Merged(upd[u].doc, upd[u].read))
    /\ upd' = [upd EXCEPT ![u] = Free]

(* Requests are lost or refused, or their program ends before the callback. *)
Abandon(us) ==
    /\ us # {} /\ \A u \in us : upd[u].phase # "free"
    /\ upd' = [u \in Updates |-> IF u \in us THEN Free ELSE upd[u]]
    /\ UNCHANGED device

UpdateStep(u) == CloudReads(u) \/ ReadFails(u) \/ Send(u) \/ CloudWrites(u)

RecordNext ==
    \/ \E u \in Updates : UpdateStep(u) \/ \E doc \in Docs : Ask(u, doc)
    \/ \E us \in SUBSET Updates : Abandon(us)

RecordSpec == RecordInit /\ [][RecordNext]_recordVars

(* An update that has begun goes on: the callback runs, and the cloud      *)
(* answers.                                                                *)
FairRecordSpec == RecordSpec /\ \A u \in Updates : WF_recordVars(UpdateStep(u))

-----------------------------------------------------------------------------
(* Properties *)

(* An attribute that neither the message names nor the agent reports stays *)
(* what it was, when nothing was written between the read and the write,   *)
(* whatever tags and location the message has and wherever earlier updates *)
(* ended ("Append custom attributes to update", lib/cloud.proxy.js:254).   *)
(* With a write in between, the attributes it set are lost.                *)
AttributesKept ==
    [][\A u \in Updates, a \in Attrs :
          /\ CloudWrites(u)
          /\ upd[u].read.attributes = device.attributes
          /\ upd[u].doc.attributes[a] = None /\ a \notin Reported
          => device'.attributes[a] = device.attributes[a]]_recordVars

(* No other update begins, from some time on, and this one is repeated and *)
(* not lost again and again.                                               *)
Repeated(doc) ==
    /\ <>[][\A u \in Updates, e \in Docs \ {doc} : ~Ask(u, e)]_recordVars
    /\ []<><<\E u \in Updates : Ask(u, doc)>>_recordVars
    /\ <>[][\A us \in SUBSET Updates : ~Abandon(us)]_recordVars

(* Repeating an update repairs what overlapping updates did to it, and an  *)
(* update of a program that knows the device by an older name: in the end  *)
(* the record says what the message says, under the name that its sender   *)
(* read at its start (lib/cloud.proxy.js:49, 245), also if reads fail.     *)
RepeatedUpdateLands ==
    \A doc \in Docs : Repeated(doc) =>
        <>[](/\ \A a \in Attrs :
                   doc.attributes[a] # None => device.attributes[a] = doc.attributes[a]
             /\ doc.name # None => device.name = doc.name)

-----------------------------------------------------------------------------
(* What a comment says, and the code does not do *)

(* lib/cloud.proxy.js:276, "Append existing tags to update": the tags of   *)
(* the device stay when an update has tags and nothing was written between *)
(* its read and its write.                                                 *)
TagsKept ==
    [][\A u \in Updates :
          CloudWrites(u) /\ upd[u].read.tags = device.tags
          => device.tags \subseteq device'.tags]_recordVars
=============================================================================
