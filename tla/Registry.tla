------------------------------- MODULE Registry -------------------------------
(***************************************************************************)
(* The components of one device: what the cloud holds, what device.json    *)
(* lists, and what each running process keeps in memory.  Processes are    *)
(* the agent (bin/agent.js) and the admin commands register, update and    *)
(* observation (admin/components.js); each is one Node thread, so a        *)
(* handler is one step, and they share only the file and the cloud.        *)
(*                                                                         *)
(* Inside a process there are two caches of the same list: the store of    *)
(* the message handler (lib/agent-message.js), used by registrations and   *)
(* observations, and the store of the cloud proxy (lib/cloud.proxy.js),    *)
(* used when the cloud's list is merged in.  Neither tells the other.      *)
(***************************************************************************)
EXTENDS SensorStore

CONSTANTS Procs,      \* process names
          Agent,      \* the one that runs bin/agent.js
          NoProc,     \* owner of a request whose process is gone
          Kinds,      \* the [name, type] pairs that are ever registered
          UpdateIds,  \* bound on the metadata updates in flight
          MaxRegs     \* bound on the registrations in flight

ASSUME RegistryAssumption ==
    /\ Agent \in Procs
    /\ NoProc \notin Procs
    /\ Kinds \subseteq [name : Names, type : Types]
    /\ MaxRegs \in Nat

VARIABLES accepted,    \* the components the cloud holds for the device
          disk,        \* sensor_list in device.json
          phase,       \* where each process is
          job,         \* what each process was started for
          msgStore,    \* AgentMessage.store.data of each process
          cloudStore,  \* IoTKitCloud.store.data of each process
          regs,        \* registrations whose callback has not been called
          updates      \* getDevice / attributes requests in flight

stores == <<msgStore, cloudStore>>
vars == <<accepted, disk, phase, job, stores, regs, updates>>

Jobs == {"agent", "register", "update", "observe"}
Reg == [proc : Procs \cup {NoProc}, comp : Component,
        state : {"sent", "accepted", "failed", "saved", "deleted"}]
Update == [id : UpdateIds, proc : Procs, boot : BOOLEAN,
           phase : {"asked", "listed", "attributes"}, list : Seq(Component)]

TypeOK ==
    /\ accepted \in SUBSET Component
    /\ disk \in Seq(Component)
    /\ phase \in [Procs -> {"down", "booting", "ready", "closing"}]
    /\ job \in [Procs -> Jobs]
    /\ msgStore \in [Procs -> Seq(Component)]
    /\ cloudStore \in [Procs -> Seq(Component)]
    /\ regs \in SUBSET Reg
    /\ updates \in SUBSET Update

Init ==
    /\ accepted = {}
    /\ disk = <<>>
    /\ phase = [p \in Procs |-> "down"]
    /\ job = [p \in Procs |-> "agent"]
    /\ msgStore = [p \in Procs |-> <<>>]
    /\ cloudStore = [p \in Procs |-> <<>>]
    /\ regs = {}
    /\ updates = {}

-----------------------------------------------------------------------------
(* Helpers *)

(* uuid.v4(): an id nothing remembers. *)
CreateId(c) == /\ c \notin {k.cid : k \in accepted}
               /\ c \notin {r.comp.cid : r \in regs}

(* An id that is not that of another update in flight. *)
FreeUpdate(u) == u \notin {x.id : x \in updates}

(* The update a process begins: it asks the cloud for the device. *)
Asked(u, p, boot) ==
    [id |-> u, proc |-> p, boot |-> boot, phase |-> "asked", list |-> <<>>]

(* An admin command handles one message and then exits. *)
AfterMessage(p) ==
    IF job[p] = "agent" THEN UNCHANGED phase
    ELSE phase' = [phase EXCEPT ![p] = "closing"]

-----------------------------------------------------------------------------
(* Processes start, stop and crash *)

(* Cloud.init loads the proxy's store; activation of an activated device   *)
(* goes straight to the update round, and the message handler, with its    *)
(* own store, exists only after that round.                                *)
StartWithUpdate(p, j, boot) ==
    /\ phase[p] = "down"
    /\ phase' = [phase EXCEPT ![p] = IF boot THEN "booting" ELSE "closing"]
    /\ job' = [job EXCEPT ![p] = j]
    /\ cloudStore' = [cloudStore EXCEPT ![p] = disk]
    /\ \E u \in UpdateIds : /\ FreeUpdate(u)
                            /\ updates' = updates \cup {Asked(u, p, boot)}
    /\ UNCHANGED <<accepted, disk, msgStore, regs>>

StartAgent == StartWithUpdate(Agent, "agent", TRUE)

AdminRegister(p) == p # Agent /\ StartWithUpdate(p, "register", TRUE)

AdminUpdate(p) == p # Agent /\ StartWithUpdate(p, "update", FALSE)

AdminObservation(p) ==
    /\ p # Agent
    /\ phase[p] = "down"
    /\ phase' = [phase EXCEPT ![p] = "ready"]
    /\ job' = [job EXCEPT ![p] = "observe"]
    /\ cloudStore' = [cloudStore EXCEPT ![p] = disk]
    /\ msgStore' = [msgStore EXCEPT ![p] = disk]
    /\ UNCHANGED <<accepted, disk, regs, updates>>

(* The process exits or crashes: its memory and its callbacks are gone,    *)
(* but a registration already sent may still reach the cloud.              *)
StopKeepsCallbacks(p) ==
    /\ phase[p] # "down"
    /\ phase' = [phase EXCEPT ![p] = "down"]
    /\ job' = [job EXCEPT ![p] = "agent"]
    /\ msgStore' = [msgStore EXCEPT ![p] = <<>>]
    /\ cloudStore' = [cloudStore EXCEPT ![p] = <<>>]
    /\ regs' = {[r EXCEPT !.proc = IF @ = p THEN NoProc ELSE @] : r \in regs}
    /\ updates' = {[u EXCEPT !.proc = IF @ = p THEN NoProc ELSE @] : u \in updates}
    /\ UNCHANGED <<accepted, disk>>
Stop(p) ==
    /\ phase[p] # "down"
    /\ phase' = [phase EXCEPT ![p] = "down"]
    /\ job' = [job EXCEPT ![p] = "agent"]
    /\ msgStore' = [msgStore EXCEPT ![p] = <<>>]
    /\ cloudStore' = [cloudStore EXCEPT ![p] = <<>>]
    /\ regs' = {r \in regs : r.proc # p} \cup
               {[r EXCEPT !.proc = NoProc] :
                    r \in {q \in regs : q.proc = p /\ q.state = "sent"}}
    /\ updates' = {u \in updates : u.proc # p}
    /\ UNCHANGED <<accepted, disk>>

-----------------------------------------------------------------------------
(* Registration *)

(* The component is found, in memory or after reading the file: the        *)
(* answer is `true' and nothing is sent.                                   *)
RegisterKnown(p, k) ==
    /\ phase[p] = "ready" /\ job[p] \in {"agent", "register"}
    /\ LET data == Refreshed(msgStore[p], Exist(msgStore[p], k), disk)
       IN  /\ Exist(data, k) # {}
           /\ msgStore' = [msgStore EXCEPT ![p] = data]
    /\ AfterMessage(p)
    /\ UNCHANGED <<accepted, disk, job, cloudStore, regs, updates>>

(* It is not: it gets an id and goes to the cloud. *)
RegisterNew(p, k) ==
    /\ phase[p] = "ready" /\ job[p] \in {"agent", "register"}
    /\ LET data == Refreshed(msgStore[p], Exist(msgStore[p], k), disk)
       IN  /\ Exist(data, k) = {}
           /\ msgStore' = [msgStore EXCEPT ![p] = data]
    /\ Cardinality(regs) < MaxRegs
    /\ \E c \in Cids :
          /\ CreateId(c)
          /\ regs' = regs \cup
                {[proc |-> p, state |-> "sent",
                  comp |-> [cid |-> c, name |-> k.name, type |-> k.type]]}
    /\ AfterMessage(p)
    /\ UNCHANGED <<accepted, disk, job, cloudStore, updates>>

(* The cloud takes the component; the process may still see a failure      *)
(* (a lost answer, a status other than 0), or be gone.                     *)
CloudAccepts(r) ==
    /\ r \in regs /\ r.state = "sent"
    /\ accepted' = accepted \cup {r.comp}
    /\ IF r.proc = NoProc THEN regs' = regs \ {r}
       ELSE \E s \in {"accepted", "failed"} :
                regs' = (regs \ {r}) \cup {[r EXCEPT !.state = s]}
    /\ UNCHANGED <<disk, phase, job, stores, updates>>

CloudRejects(r) ==
    /\ r \in regs /\ r.state = "sent"
    /\ regs' = IF r.proc = NoProc THEN regs \ {r}
               ELSE (regs \ {r}) \cup {[r EXCEPT !.state = "failed"]}
    /\ UNCHANGED <<accepted, disk, phase, job, stores, updates>>

(* What regComponent's callback ends with.  Without SparkplugB it calls    *)
(* the caller back at once; with it a birth goes out and the caller is     *)
(* called back once that is answered, a later turn, or never.              *)
CallBack(r, state) ==
    \/ regs' = regs \ {r}
    \/ regs' = (regs \ {r}) \cup {[r EXCEPT !.state = state]}

BirthAnswered(r) ==
    /\ r \in regs /\ r.state \in {"saved", "deleted"}
    /\ regs' = regs \ {r}
    /\ UNCHANGED <<accepted, disk, phase, job, stores, updates>>

(* The callback of regComponent with status 0: add and save.               *)
RegisteredUnasked(r) ==
    /\ r \in regs /\ r.state \in {"sent", "accepted"} /\ r.proc # NoProc
    /\ LET data == Add(msgStore[r.proc], r.comp)
       IN  /\ msgStore' = [msgStore EXCEPT ![r.proc] = data]
           /\ disk' = data
    /\ CallBack(r, "saved")
    /\ UNCHANGED <<accepted, phase, job, cloudStore, updates>>
RegisteredUnsaved(r) ==
    /\ r \in regs /\ r.state = "accepted"
    /\ msgStore' = [msgStore EXCEPT ![r.proc] = Add(@, r.comp)]
    /\ CallBack(r, "saved")
    /\ UNCHANGED <<accepted, disk, phase, job, cloudStore, updates>>
Registered(r) ==
    /\ r \in regs /\ r.state = "accepted"
    /\ LET data == Add(msgStore[r.proc], r.comp)
       IN  /\ msgStore' = [msgStore EXCEPT ![r.proc] = data]
           /\ disk' = data
    /\ CallBack(r, "saved")
    /\ UNCHANGED <<accepted, phase, job, cloudStore, updates>>

(* With any other status: delete from memory, without saving.              *)
NotRegistered(r) ==
    /\ r \in regs /\ r.state = "failed"
    /\ msgStore' = [msgStore EXCEPT ![r.proc] = Del(@, r.comp.cid)]
    /\ CallBack(r, "deleted")
    /\ UNCHANGED <<accepted, disk, phase, job, cloudStore, updates>>

-----------------------------------------------------------------------------
(* Observations *)

(* The list a lookup by name works on, and the id it finds there.          *)
Looked(p, n) == Refreshed(msgStore[p], ByName(msgStore[p], n), disk)
AliasFirst(p, n) == Looked(p, n)[1].cid
Alias(p, n) == Found(Looked(p, n), ByName(Looked(p, n), n)).cid

(* The name is known: the reading goes to the connector under Alias(p, n). *)
Submit(p, n) ==
    /\ phase[p] = "ready" /\ job[p] \in {"agent", "observe"}
    /\ ByName(Looked(p, n), n) # {}
    /\ msgStore' = [msgStore EXCEPT ![p] = Looked(p, n)]
    /\ AfterMessage(p)
    /\ UNCHANGED <<accepted, disk, job, cloudStore, regs, updates>>

(* No component has the name: the reading is dropped.                      *)
SubmitUnknown(p, n) ==
    /\ phase[p] = "ready" /\ job[p] \in {"agent", "observe"}
    /\ ByName(Looked(p, n), n) = {}
    /\ msgStore' = [msgStore EXCEPT ![p] = Looked(p, n)]
    /\ AfterMessage(p)
    /\ UNCHANGED <<accepted, disk, job, cloudStore, regs, updates>>

-----------------------------------------------------------------------------
(* The update round *)

UpdateMessage(p) ==
    /\ phase[p] = "ready" /\ job[p] = "agent"
    /\ \E u \in UpdateIds : /\ FreeUpdate(u)
                            /\ updates' = updates \cup {Asked(u, p, FALSE)}
    /\ UNCHANGED <<accepted, disk, phase, job, stores, regs>>

(* getDevice reaches the cloud, which lists what it holds at that moment.  *)
CloudLists(u) ==
    /\ u \in updates /\ u.phase = "asked"
    /\ \E list \in SetToSeqs(accepted) :
          updates' = (updates \ {u}) \cup
                        {[u EXCEPT !.phase = "listed", !.list = list]}
    /\ UNCHANGED <<accepted, disk, phase, job, stores, regs>>

(* The attributes go out; whether and when they are answered matters only  *)
(* to the round at the start, which waits for it.                          *)
SendAttributes(u) ==
    updates' = (updates \ {u}) \cup
        {[x EXCEPT !.phase = "attributes", !.list = <<>>] : x \in {y \in {u} : y.boot}}

(* The answer: the attributes go out and the list is merged and saved.     *)
DeviceReceived(u) ==
    /\ u \in updates /\ u.phase = "listed"
    /\ SendAttributes(u)
    /\ LET data == SyncAll(cloudStore[u.proc], u.list, disk)
       IN  /\ cloudStore' = [cloudStore EXCEPT ![u.proc] = data]
           /\ disk' = data
    /\ UNCHANGED <<accepted, phase, job, msgStore, regs>>

(* An answer without components (a failure): nothing is merged.            *)
DeviceNotReceived(u) ==
    /\ u \in updates /\ u.phase = "asked"
    /\ SendAttributes(u)
    /\ UNCHANGED <<accepted, disk, phase, job, stores, regs>>

(* The answer to the attributes is the callback of activate, which creates *)
(* the message handler and opens the listeners.                            *)
AttributesAnswered(u) ==
    /\ u \in updates /\ u.phase = "attributes"
    /\ updates' = updates \ {u}
    /\ phase' = [phase EXCEPT ![u.proc] = "ready"]
    /\ msgStore' = [msgStore EXCEPT ![u.proc] = disk]
    /\ UNCHANGED <<accepted, disk, job, cloudStore, regs>>

-----------------------------------------------------------------------------
(* Others *)

(* A component created for the device through the cloud's API.             *)
CloudApiAdds(k) ==
    /\ \E c \in Cids :
          /\ CreateId(c)
          /\ accepted' = accepted \cup {[cid |-> c, name |-> k.name, type |-> k.type]}
    /\ UNCHANGED <<disk, phase, job, stores, regs, updates>>

(* oisp-admin reset-components (also part of initialize).                  *)
ResetComponents ==
    /\ disk' = <<>>
    /\ UNCHANGED <<accepted, phase, job, stores, regs, updates>>

-----------------------------------------------------------------------------
ProcStep(p) ==
    \/ AdminRegister(p) \/ AdminUpdate(p) \/ AdminObservation(p)
    \/ Stop(p)
    \/ \E k \in Kinds : RegisterKnown(p, k) \/ RegisterNew(p, k)
    \/ \E n \in Names : Submit(p, n) \/ SubmitUnknown(p, n)
    \/ UpdateMessage(p)

RegStep(r) ==
    \/ CloudAccepts(r) \/ CloudRejects(r)
    \/ Registered(r) \/ NotRegistered(r) \/ BirthAnswered(r)

UpdateStep(u) ==
    \/ CloudLists(u) \/ DeviceReceived(u) \/ DeviceNotReceived(u)
    \/ AttributesAnswered(u)

Next ==
    \/ StartAgent
    \/ \E p \in Procs : ProcStep(p)
    \/ \E r \in regs : RegStep(r)
    \/ \E u \in updates : UpdateStep(u)
    \/ \E k \in Kinds : CloudApiAdds(k)
    \/ ResetComponents

Spec == Init /\ [][Next]_vars

-----------------------------------------------------------------------------
(* The caches, the file and the messages keep the contract of              *)
(* RegistryContract: its clients are the processes that run, and its       *)
(* requests those whose callback a process still holds.                    *)
clients == {p \in Procs : phase[p] # "down"}
Waiting(states) ==
    {[client |-> r.proc, comp |-> r.comp] :
        r \in {q \in regs : q.proc # NoProc /\ q.state \in states}}
pending == Waiting({"sent", "accepted", "failed", "saved", "deleted"})
granted == Waiting({"accepted"})
recorded == Waiting({"saved"})

Contract == INSTANCE RegistryContract
                WITH Client <- Procs, held <- accepted, known <- Range(disk)

-----------------------------------------------------------------------------
(* Properties *)

(* Registration, as the clients and the cloud see it, is what              *)
(* RegistryContract promises.                                              *)
KeepsContract == Contract!Spec

(* Nothing the device knows is invented: every component on disk, in a     *)
(* cache or in an answer on its way is one the cloud holds, whatever       *)
(* answers are lost and whichever process saves                            *)
(* (comp.registration.js adds a component only once the cloud took it).    *)
KnownWasAccepted ==
    /\ Range(disk) \subseteq accepted
    /\ \A p \in Procs : Range(msgStore[p]) \cup Range(cloudStore[p]) \subseteq accepted
    /\ \A u \in updates : Range(u.list) \subseteq accepted
    /\ \A r \in regs : r.state \in {"accepted", "saved"} => r.comp \in accepted

(* A component's id is listed twice at most, in the file and in every      *)
(* cache: once by an update round that heard of it before the registering  *)
(* process did, and once by the answer to the registration.  However many  *)
(* rounds follow, and whichever process merges, none adds a third: the     *)
(* merge takes out one entry of the id for the one it puts in              *)
(* (cloud.proxy.js:630-633, comp.registration.js:65).                      *)
ListedTwiceAtMost ==
    \A c \in Cids :
        /\ AtMostTwice(disk, c)
        /\ \A p \in Procs : AtMostTwice(msgStore[p], c) /\ AtMostTwice(cloudStore[p], c)

(* A reading submitted now, by any process, leaves under the id of a cloud *)
(* component that has its name, and of no other (data.submission.js        *)
(* resolves names against caches that two other actors rewrite).           *)
ReadingIsRouted ==
    \A p \in Procs, n \in Names :
        phase[p] = "ready" /\ ByName(Looked(p, n), n) # {} =>
            \E c \in accepted : /\ c.cid = Alias(p, n)
                                /\ SameText(c.name, n)
                                /\ \A d \in accepted : d.cid = c.cid => d = c

(* Merging the cloud's list never takes from device.json a component the   *)
(* list has.  And when the proxy's cache agrees with the file, as it does  *)
(* after a start or a merge, the next merge brings in at least one listed  *)
(* component that was missing, until none is: the reload on a miss inside  *)
(* updateComponents throws away what the same loop added, but repeated     *)
(* updates converge.  That is so of components created through the cloud's *)
(* API as well: README.md:216-218 has it as a known limitation that the    *)
(* agent will not know them, which cloud.proxy.js:619-636 no longer bears  *)
(* out.                                                                    *)
SyncConverges ==
    [][\A u \in updates : DeviceReceived(u) =>
          LET listed == Range(u.list)
              before == Range(disk) \cap listed
              after == Range(disk') \cap listed
          IN  /\ before \subseteq after
              /\ Range(cloudStore[u.proc]) = Range(disk)
                    => after = listed \/ before # after]_vars
=============================================================================
