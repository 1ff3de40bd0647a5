------------------------------- MODULE Actuations -------------------------------
(***************************************************************************)
(* How commands for the device's components reach the program that         *)
(* executes them, the receiver on another UDP port: pushed by the cloud    *)
(* over MQTT to the running agent (lib/control.proxy.js), or fetched by    *)
(* oisp-admin pull-actuations (lib/cloud.proxy.js).  Both send from the    *)
(* agent's own UDP port (lib/server/udp.js), which one process can have.   *)
(*                                                                         *)
(* The clock is the number of actuations issued so far: actuation i is     *)
(* issued at time i.  The machine's clock and the cloud's agree.           *)
(***************************************************************************)
EXTENDS Integers, Sequences, FiniteSets

CONSTANTS Cids,           \* components
          MaxActuations,  \* bound on what is issued
          Never           \* last_actuations_pull_time is false

ASSUME ActuationsAssumption ==
    /\ MaxActuations \in Nat
    /\ Never \notin Nat

VARIABLES issued,   \* the component of each actuation the cloud issued
          listed,   \* sensor_list in device.json
          since,    \* last_actuations_pull_time in device.json
          control,  \* the actuations MQTT has to deliver
          agent,    \* the agent
          cache,    \* its control proxy's sensor store
          pull,     \* the pull command, of which one runs at a time
          handed,   \* how often a pull sent an actuation from the port
          lost,     \* those a pull queued and gave up
          forwarded,\* those the agent forwarded
          missed    \* issued between a pull's answer and the time it saves

counts == <<handed, lost, forwarded, missed>>
vars == <<issued, listed, since, control, agent, cache, pull, counts>>

Actuation == 1 .. MaxActuations
Now == Len(issued)

NoPull == [phase |-> "down", from |-> 0, upto |-> 0, known |-> {}]
Pull == [phase : {"down", "killed", "loaded", "asking", "answered", "binding", "holding"},
         from : {Never} \cup 0 .. MaxActuations, upto : 0 .. MaxActuations,
         known : SUBSET Cids]

(* The types, and that the port has one holder. *)
TypeOK ==
    /\ issued \in Seq(Cids) /\ Len(issued) <= MaxActuations
    /\ listed \subseteq Cids
    /\ since \in {Never} \cup 0 .. Len(issued)
    /\ control \subseteq 1 .. Len(issued)
    /\ agent \in {"down", "binding", "up", "deaf"}
    /\ cache \subseteq Cids
    /\ pull \in Pull
    /\ handed \in [Actuation -> Nat]
    /\ lost \subseteq Actuation
    /\ forwarded \subseteq 1 .. Len(issued)
    /\ missed \subseteq 1 .. Len(issued)
    /\ ~(agent = "up" /\ pull.phase = "holding")

Init ==
    /\ issued = <<>>
    /\ listed = {}
    /\ since = Never
    /\ control = {}
    /\ agent = "down"
    /\ cache = {}
    /\ pull = NoPull
    /\ handed = [i \in Actuation |-> 0]
    /\ lost = {}
    /\ forwarded = {}
    /\ missed = {}

-----------------------------------------------------------------------------
(* The cloud, the sensor list, and device.json *)

(* The control proxy listens from the moment the agent has made it. *)
Bound == agent # "down"

(* An actuation is issued, and pushed to an agent that listens. *)
Issue(c) ==
    /\ Now < MaxActuations
    /\ issued' = Append(issued, c)
    /\ \/ Bound /\ control' = control \cup {Now + 1}
       \/ UNCHANGED control
    /\ UNCHANGED <<listed, since, agent, cache, pull, counts>>

(* Registration or an update round adds to the list, reset-components      *)
(* empties it.                                                             *)
List ==
    /\ \/ \E c \in Cids \ listed : listed' = listed \cup {c}
       \/ listed # {} /\ listed' = {}
    /\ UNCHANGED <<issued, since, control, agent, cache, pull, counts>>

(* Only a pull saves the time of a pull, and only if it finds one.  The    *)
(* first one must be put into the file by hand.                            *)
EditTime ==
    /\ since = Never
    /\ since' = 0
    /\ UNCHANGED <<issued, listed, control, agent, cache, pull, counts>>

-----------------------------------------------------------------------------
(* The agent *)

(* It makes its UDP server and its control proxy, which has a sensor store *)
(* of its own; the port is bound later.                                    *)
ControlInit == cache' = listed
AgentStart ==
    /\ agent = "down"
    /\ agent' = "binding"
    /\ ControlInit
    /\ UNCHANGED <<issued, listed, since, control, pull, counts>>

(* A port that is taken is an error in the log; the agent goes on. *)
AgentBindsAnyway ==
    /\ agent = "binding"
    /\ agent' = "up"
    /\ UNCHANGED <<issued, listed, since, control, cache, pull, counts>>
AgentBinds ==
    /\ agent = "binding"
    /\ agent' = IF pull.phase = "holding" THEN "deaf" ELSE "up"
    /\ UNCHANGED <<issued, listed, since, control, cache, pull, counts>>

(* controlAction: the component is looked up in the store, and in the file *)
(* if it is not there; send hands the command to the socket, which has     *)
(* been bound by then or sends without the port.  MQTT may deliver it      *)
(* again.                                                                  *)
ControlFromCache(i) ==
    /\ agent \in {"up", "deaf"} /\ i \in control
    /\ control' \in {control, control \ {i}}
    /\ forwarded' = IF issued[i] \in cache THEN forwarded \cup {i} ELSE forwarded
    /\ UNCHANGED <<issued, listed, since, agent, cache, pull, handed, lost, missed>>
Control(i) ==
    /\ agent \in {"up", "deaf"} /\ i \in control
    /\ control' \in {control, control \ {i}}
    /\ cache' = IF issued[i] \in cache THEN cache ELSE listed
    /\ forwarded' = IF issued[i] \in cache' THEN forwarded \cup {i} ELSE forwarded
    /\ UNCHANGED <<issued, listed, since, agent, pull, handed, lost, missed>>

(* The agent ends, by a crash or by a TCP message that is no JSON or comes *)
(* in two segments: listeners/tcp.js parses outside of its try.  What the  *)
(* broker has for it is lost with the session.                             *)
AgentDies ==
    /\ agent # "down"
    /\ agent' = "down"
    /\ control' = {}
    /\ cache' = {}
    /\ UNCHANGED <<issued, listed, since, pull, counts>>

-----------------------------------------------------------------------------
(* The pull *)

PullIs(ph) == pull.phase = ph

(* The time is read when the program starts, the store when the cloud      *)
(* proxy is made.                                                          *)
PullStart ==
    /\ PullIs("down") \/ PullIs("killed")
    /\ pull' = [phase |-> "loaded", from |-> since, upto |-> 0, known |-> listed]
    /\ UNCHANGED <<issued, listed, since, control, agent, cache, counts>>

(* getLastActuationsPullTime throws when there is no time, and the program *)
(* ends.                                                                   *)
PullHasTimeAfterStart ==
    /\ PullIs("loaded")
    /\ pull' = IF pull.from \in {Never, 0} THEN NoPull ELSE [pull EXCEPT !.phase = "asking"]
    /\ UNCHANGED <<issued, listed, since, control, agent, cache, counts>>
PullHasTime ==
    /\ PullIs("loaded")
    /\ pull' = IF pull.from = Never THEN NoPull ELSE [pull EXCEPT !.phase = "asking"]
    /\ UNCHANGED <<issued, listed, since, control, agent, cache, counts>>

(* The cloud answers with what was issued after the time. *)
CloudAnswers ==
    /\ PullIs("asking")
    /\ pull' = [pull EXCEPT !.phase = "answered", !.upto = Now]
    /\ UNCHANGED <<issued, listed, since, control, agent, cache, counts>>

Batch == pull.from + 1 .. pull.upto

(* Every component of the batch is in the store, or in the file.           *)
AllFound == \A i \in Batch : issued[i] \in pull.known \cup listed

(* The handler of the answer: a component that is not found is an          *)
(* exception that ends the program; otherwise the batch is queued at a     *)
(* socket that is not bound yet, and the time saved is the time it is.     *)
HandOver ==
    /\ PullIs("answered") /\ Batch # {} /\ AllFound
    /\ missed' = missed \cup (pull.upto + 1 .. Now)
    /\ pull' = [pull EXCEPT !.phase = "binding"]

GiveUp ==
    /\ PullIs("answered") /\ (Batch = {} \/ ~AllFound)
    /\ pull' = NoPull
    /\ UNCHANGED missed

PullHandlesTimeFirst ==
    /\ HandOver \/ GiveUp
    /\ since' = IF Batch = {} THEN since ELSE Now
    /\ UNCHANGED <<issued, listed, control, agent, cache, handed, lost, forwarded>>
PullHandlesNoTime ==
    /\ HandOver \/ GiveUp
    /\ UNCHANGED <<issued, listed, since, control, agent, cache, handed, lost, forwarded>>
PullHandles ==
    /\ \/ HandOver /\ since' = Now
       \/ GiveUp /\ UNCHANGED since
    /\ UNCHANGED <<issued, listed, control, agent, cache, handed, lost, forwarded>>

(* The port: an agent that has it keeps it, and the queue is given up with *)
(* an error in the log.  Otherwise the queue is the socket's to send: the  *)
(* pull has done its part (close is queued behind it, and what the socket  *)
(* still sends then is up to the library).                                 *)
PullBinds ==
    /\ PullIs("binding")
    /\ \/ /\ agent = "up"
          /\ lost' = lost \cup Batch
          /\ pull' = NoPull
          /\ UNCHANGED handed
       \/ /\ agent # "up"
          /\ handed' = [i \in Actuation |-> handed[i] + IF i \in Batch THEN 1 ELSE 0]
          /\ pull' = [NoPull EXCEPT !.phase = "holding"]
          /\ UNCHANGED lost
    /\ UNCHANGED <<issued, listed, since, control, agent, cache, forwarded, missed>>

PullCloses ==
    /\ PullIs("holding")
    /\ pull' = NoPull
    /\ UNCHANGED <<issued, listed, since, control, agent, cache, counts>>

(* It is killed, or refused; a queue that waits for the port is gone. *)
PullKilled ==
    /\ ~PullIs("down") /\ ~PullIs("killed")
    /\ pull' = [NoPull EXCEPT !.phase = "killed"]
    /\ lost' = IF PullIs("binding") THEN lost \cup Batch ELSE lost
    /\ UNCHANGED <<issued, listed, since, control, agent, cache, handed, forwarded, missed>>

-----------------------------------------------------------------------------
PullStep == PullHasTime \/ CloudAnswers \/ PullHandles \/ PullBinds \/ PullCloses

Next ==
    \/ \E c \in Cids : Issue(c)
    \/ List \/ EditTime
    \/ AgentStart \/ AgentBinds \/ AgentDies
    \/ \E i \in Actuation : Control(i)
    \/ PullStart \/ PullStep \/ PullKilled

Spec == Init /\ [][Next]_vars

(* The agent is started again (oisp-agent.service:7, Restart=always), and  *)
(* what has begun goes on.                                                 *)
FairSpec == Spec /\ WF_vars(AgentStart) /\ WF_vars(AgentBinds) /\ WF_vars(PullStep)

-----------------------------------------------------------------------------
(* Properties *)

(* No actuation is taken up by two pulls, however often they are run and   *)
(* wherever they end: none is sent twice, and none that a pull gave up is  *)
(* sent by another (the time saved at lib/cloud.proxy.js:596, after the    *)
(* loop, covers the batch).                                                *)
PulledOnce == \A i \in Actuation : handed[i] <= 1 /\ (i \in lost => handed[i] = 0)

(* What a later pull does not ask for again was sent once: a batch with an *)
(* unknown component, or a pull that ends before the save, is asked for    *)
(* again.  Three things are excepted, because the time is saved before     *)
(* anything is sent, and is that of the handler: what was issued while the *)
(* answer was on its way, what a pull queued and gave up, beside an agent  *)
(* that has the port or killed before it had it, and what one has queued.  *)
MarkedWasHanded ==
    since # Never =>
        \A i \in 1 .. since :
            \/ handed[i] = 1 \/ i \in missed \/ i \in lost
            \/ PullIs("binding") /\ i \in Batch

(* A command that MQTT delivers for a component of device.json is          *)
(* forwarded, also for one that another program registered since the       *)
(* control proxy read the file (byCid reads it again on a miss).           *)
KnownIsForwarded ==
    [][\A i \in Actuation :
          i \in control \ control' /\ issued[i] \in listed /\ agent' # "down"
          => i \in forwarded']_vars

(* Pulls are run again and again, to their end, and the list of components *)
(* gets to hold what the cloud knows.                                      *)
KeepsPulling ==
    /\ []<><<PullStart>>_vars
    /\ <>[][~PullKilled]_vars
    /\ <>[](listed = Cids)

AllPulled ==
    \A i \in Actuation : (i <= Now) ~> (handed[i] > 0 \/ i \in missed \/ i \in lost)

(* A pull takes up every actuation in the end, but for those missed: an    *)
(* unknown component holds up the others of its batch, and no longer than  *)
(* it is unknown.  (What becomes of it then, beside an agent that has the  *)
(* port, is another matter.)                                               *)
PulledInTheEnd == KeepsPulling /\ <>(since # Never) => AllPulled

-----------------------------------------------------------------------------
(* What the documentation says, and the code does not do *)

(* admin/components.js:191: pull-actuations fetches actuations from the    *)
(* last time, or of 24 hours if there never was one.                       *)
FirstPull == KeepsPulling => AllPulled
=============================================================================
