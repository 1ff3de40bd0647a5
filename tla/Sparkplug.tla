------------------------------- MODULE Sparkplug -------------------------------
(***************************************************************************)
(* Data submission of an agent that is activated and configured for        *)
(* SparkplugB (lib/cloud.proxy.js): the node birth and the device births,  *)
(* the registrations that cause new births (lib/comp.registration.js), and *)
(* the submissions that poll until a birth is acknowledged.                *)
(*                                                                         *)
(* A component stands for its cid, which is its alias in the births and in *)
(* the data.  Births are answered in any order, or never.                  *)
(***************************************************************************)
EXTENDS Integers

CONSTANTS Comps,         \* components
          CloudCatalog,  \* those whose type the catalog of the cloud has
          SubIds,        \* bound on the submissions in flight
          MaxBirths,     \* bound on the device births in flight
          Patience       \* polls before a submission times out (40 in the code)

ASSUME SparkplugAssumption ==
    /\ CloudCatalog \subseteq Comps
    /\ MaxBirths \in Nat
    /\ Patience \in Nat

VARIABLES components,  \* sensor_list in device.json
          catalog,     \* the components whose type is in catalog.json
          phase,       \* of the agent
          proxy,       \* whether spBProxy is defined
          born,        \* birthMsgStatus
          metrics,     \* the aliases in spbMetricList
          host,        \* those in the last device birth it sent
          node,        \* whether the node birth is not answered yet
          births,      \* the device births that are not answered yet
          regs,        \* the components whose registration is not answered yet
          fetching,    \* whether the catalog is being fetched
          subs         \* submissions

files == <<components, catalog>>
session == <<proxy, born, metrics, host, node, births>>
work == <<regs, fetching, subs>>
vars == <<files, phase, session, work>>

Submission == [id : SubIds, want : SUBSET Comps, polls : 0 .. Patience, late : BOOLEAN,
               state : {"token", "polling", "sent", "rest"}]

(* The types, and that a process that is down has no callbacks. *)
TypeOK ==
    /\ components \in SUBSET Comps
    /\ catalog \in SUBSET Comps
    /\ phase \in {"down", "booting", "ready"}
    /\ proxy \in BOOLEAN /\ born \in BOOLEAN
    /\ metrics \in SUBSET Comps /\ host \in SUBSET Comps
    /\ node \in BOOLEAN
    /\ births \in 0 .. MaxBirths
    /\ regs \in SUBSET Comps
    /\ fetching \in BOOLEAN
    /\ subs \in SUBSET Submission
    /\ phase = "down" => ~node /\ births = 0 /\ regs = {} /\ ~fetching /\ subs = {}

Init ==
    /\ components = {} /\ catalog = {}
    /\ phase = "down"
    /\ proxy = FALSE /\ born = FALSE
    /\ metrics = {} /\ host = {}
    /\ node = FALSE /\ births = 0
    /\ regs = {} /\ fetching = FALSE /\ subs = {}

-----------------------------------------------------------------------------
(* catalog.json: whose type getItemFromCatalog finds, and the whole of it  *)
(* replaced by the catalog of the cloud.                                   *)
InCatalog(list) == list \cap catalog
UpdateCatalog == catalog' = CloudCatalog

-----------------------------------------------------------------------------
(* The process *)

(* The constructor: the profile is made, and the node birth is sent. *)
Start ==
    /\ phase = "down"
    /\ phase' = "booting"
    /\ proxy' = TRUE /\ born' = FALSE
    /\ metrics' = InCatalog(components)
    /\ node' = TRUE
    /\ UNCHANGED <<files, host, births, work>>

(* The callback of activate opens the listeners and fetches the catalog. *)
Ready ==
    /\ phase = "booting"
    /\ phase' = "ready"
    /\ fetching' = TRUE
    /\ UNCHANGED <<files, session, regs, subs>>

(* The process ends, with all its callbacks. *)
Exit ==
    /\ phase' = "down"
    /\ proxy' = FALSE /\ born' = FALSE /\ metrics' = {}
    /\ node' = FALSE /\ births' = 0
    /\ regs' = {} /\ fetching' = FALSE /\ subs' = {}
    /\ UNCHANGED <<files, host>>

Stop == phase # "down" /\ Exit

-----------------------------------------------------------------------------
(* Births *)

(* sendDevBirthMsg, with the list on disk: refreshDevProf, then the birth. *)
SendDevBirthMsgFirst(list) ==
    /\ births < MaxBirths
    /\ metrics' = InCatalog(list)
    /\ host' = metrics
    /\ born' = FALSE
    /\ births' = births + 1
SendDevBirthMsg(list) ==
    /\ births < MaxBirths
    /\ metrics' = InCatalog(list)
    /\ host' = metrics'
    /\ born' = FALSE
    /\ births' = births + 1

(* The node birth is acknowledged: the device is next, *)
NodeBorn ==
    /\ node /\ proxy
    /\ node' = FALSE
    /\ SendDevBirthMsg(components)
    /\ UNCHANGED <<files, phase, proxy, work>>

(* unless the birth of a registration has failed meanwhile: spBProxy is    *)
(* undefined and the callback throws.                                      *)
NodeBornTooLate == node /\ ~proxy /\ Exit

NodeNotBorn ==
    /\ node
    /\ node' = FALSE
    /\ proxy' = FALSE
    /\ UNCHANGED <<files, phase, born, metrics, host, births, work>>

DeviceBorn ==
    /\ births > 0
    /\ births' = births - 1
    /\ born' = TRUE
    /\ UNCHANGED <<files, phase, proxy, metrics, host, node, work>>

(* A failure takes the connector away, but not the flag that the           *)
(* acknowledgement of another birth has set.                               *)
DeviceNotBorn ==
    /\ births > 0
    /\ births' = births - 1
    /\ proxy' = FALSE
    /\ UNCHANGED <<files, phase, born, metrics, host, node, work>>

-----------------------------------------------------------------------------
(* Registrations and the catalog *)

(* A component that is not on the list; the catalog is fetched if it lacks *)
(* the type, and nothing waits for it.                                     *)
Register(c) ==
    /\ phase = "ready"
    /\ c \notin components \cup regs
    /\ regs' = regs \cup {c}
    /\ fetching' = (fetching \/ c \notin catalog)
    /\ UNCHANGED <<files, phase, session, subs>>

(* The answer, with the list that is on disk after it: a birth either way. *)
RegistrationAnswered(c, list) ==
    /\ c \in regs
    /\ regs' = regs \ {c}
    /\ components' = list
    /\ IF proxy THEN SendDevBirthMsg(list) ELSE UNCHANGED <<born, metrics, host, births>>
    /\ UNCHANGED <<catalog, phase, proxy, node, fetching, subs>>

Registered(c) == RegistrationAnswered(c, components \cup {c})
NotRegistered(c) == RegistrationAnswered(c, components)

(* One of the fetches is answered, perhaps not the last, perhaps without a *)
(* catalog.                                                                *)
CatalogAnswered ==
    /\ fetching
    /\ UpdateCatalog \/ UNCHANGED catalog
    /\ fetching' \in BOOLEAN
    /\ UNCHANGED <<components, phase, session, regs, subs>>

(* oisp-admin catalog fetches it too; the agent is not told. *)
CatalogCommand ==
    /\ UpdateCatalog
    /\ UNCHANGED <<components, phase, session, work>>

(* An admin command or an update round saves another list. *)
OtherSaves ==
    /\ components' \in SUBSET Comps
    /\ UNCHANGED <<catalog, phase, session, work>>

-----------------------------------------------------------------------------
(* Submissions *)

(* What the handler of dataSubmit makes of a reading: it goes by REST when *)
(* there is no connector; else the flag is checked, and checked again      *)
(* until a birth is acknowledged; then what the metric list has is sent,   *)
(* and nothing is sent, but answered, if it has none of it.                *)
Handled(s) ==
    IF ~proxy THEN {[s EXCEPT !.state = "rest"]}
    ELSE IF ~born THEN {[s EXCEPT !.state = "polling", !.polls = IF Patience = 0 THEN 0 ELSE 1,
                                  !.late = Patience = 0]}
    ELSE {[s EXCEPT !.state = "sent", !.want = @ \cap metrics] : x \in s.want \cap metrics}

(* checkDeviceToken calls the handler at once, or when the token has been  *)
(* refreshed.                                                              *)
Submit(i, want) ==
    /\ phase = "ready"
    /\ i \notin {s.id : s \in subs}
    /\ LET s == [id |-> i, want |-> want, polls |-> 0, late |-> FALSE, state |-> "token"]
       IN  subs' = subs \cup {s} \/ subs' = subs \cup Handled(s)
    /\ UNCHANGED <<files, phase, session, regs, fetching>>

TokenRefreshed(s) ==
    /\ s \in subs /\ s.state = "token"
    /\ subs' = (subs \ {s}) \cup Handled(s)
    /\ UNCHANGED <<files, phase, session, regs, fetching>>

(* checkFlag, called by its timer: not yet, *)
StillWaitsUncounted(s) ==
    /\ s \in subs /\ s.state = "polling"
    /\ ~born /\ s.polls < Patience
    /\ UNCHANGED vars
StillWaitsOnceMore(s) ==
    /\ s \in subs /\ s.state = "polling"
    /\ ~born /\ s.polls <= Patience
    /\ subs' = (subs \ {s}) \cup {[s EXCEPT !.polls = @ + 1]}
    /\ UNCHANGED <<files, phase, session, regs, fetching>>
StillWaits(s) ==
    /\ s \in subs /\ s.state = "polling"
    /\ ~born /\ s.polls < Patience
    /\ subs' = (subs \ {s}) \cup {[s EXCEPT !.polls = @ + 1]}
    /\ UNCHANGED <<files, phase, session, regs, fetching>>

(* for too long: the caller is told `timeout', and the timer runs on,      *)
TimesOut(s) ==
    /\ s \in subs /\ s.state = "polling"
    /\ ~born /\ s.polls = Patience /\ ~s.late
    /\ subs' = (subs \ {s}) \cup {[s EXCEPT !.late = TRUE]}
    /\ UNCHANGED <<files, phase, session, regs, fetching>>

(* or a birth is acknowledged, *)
StopsWaiting(s) ==
    /\ s \in subs /\ s.state = "polling"
    /\ born /\ (proxy \/ s.want \cap metrics = {})
    /\ subs' = (subs \ {s}) \cup
                 {[s EXCEPT !.state = "sent", !.want = @ \cap metrics] : x \in s.want \cap metrics}
    /\ UNCHANGED <<files, phase, session, regs, fetching>>

(* but another one has failed: spBProxy is undefined and the timer's       *)
(* callback throws.                                                        *)
StopsWaitingTooLate(s) ==
    /\ s \in subs /\ s.state = "polling"
    /\ born /\ ~proxy /\ s.want \cap metrics # {}
    /\ Exit

(* The callback of the connector. *)
Answered(s) ==
    /\ s \in subs /\ s.state \in {"sent", "rest"}
    /\ subs' = subs \ {s}
    /\ UNCHANGED <<files, phase, session, regs, fetching>>

-----------------------------------------------------------------------------
Checked(s) ==
    TokenRefreshed(s) \/ StillWaits(s) \/ TimesOut(s) \/ StopsWaiting(s) \/ StopsWaitingTooLate(s)

Next ==
    \/ Start \/ Ready \/ Stop
    \/ NodeBorn \/ NodeBornTooLate \/ NodeNotBorn \/ DeviceBorn \/ DeviceNotBorn
    \/ \E c \in Comps : Register(c) \/ Registered(c) \/ NotRegistered(c)
    \/ CatalogAnswered \/ CatalogCommand \/ OtherSaves
    \/ \E i \in SubIds, want \in SUBSET Comps \ {{}} : Submit(i, want)
    \/ \E s \in subs : Checked(s) \/ Answered(s)

Spec == Init /\ [][Next]_vars

(* The timers of the process run, its requests for a token end, and the    *)
(* connectors answer what was sent.  No birth need ever be answered.       *)
OfId(i) == {s \in subs : s.id = i}
Fairness ==
    \A i \in SubIds : /\ WF_vars(\E s \in OfId(i) : Checked(s))
                      /\ WF_vars(\E s \in OfId(i) : Answered(s))

FairSpec == Spec /\ Fairness

-----------------------------------------------------------------------------
(* Properties *)

(* What leaves was announced: every alias in a data message is in the last *)
(* device birth sent before it, whatever registrations, other programs,    *)
(* catalogs and failed births came between (lib/cloud.proxy.js:69: the     *)
(* birth is mandatory before data; refreshDevProf and deviceBirth keep     *)
(* spbMetricList and the announcement in step).                            *)
AnnouncedBeforeData ==
    [][\A s \in subs' \ subs : s.state = "sent" => s.want \subseteq host]_vars

(* Every submission is answered in the end, if only with `timeout', or its *)
(* process ends, even when no birth is ever answered.                      *)
SubmissionsAnswered ==
    \A i \in SubIds : []<>(\A s \in OfId(i) : s.late)

-----------------------------------------------------------------------------
(* What the documentation says, and the code does not do *)

(* README.md:86: values of a component that was registered can be sent, so *)
(* a reading that is about to leave is of an announced component whenever  *)
(* device.json lists it.                                                   *)
RegisteredCanBeSent ==
    \A s \in subs : s.state = "polling" /\ born => s.want \cap components \subseteq metrics
=============================================================================
