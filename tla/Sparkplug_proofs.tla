---------------------------- MODULE Sparkplug_proofs ----------------------------
(***************************************************************************)
(* That nothing leaves before it was announced, for any components,        *)
(* catalog and bounds.                                                     *)
(***************************************************************************)
EXTENDS Sparkplug, TLAPS

(* While a birth is acknowledged, or may still be, the metric list is what *)
(* the last birth announced: in between births may fail, and a new list    *)
(* may be made only together with a new birth.                             *)
ListIsAnnounced == born \/ births > 0 => metrics = host

IInv == TypeOK /\ ListIsAnnounced

(* Counting, apart from the rest: what the counter of births may do. *)
LEMMA BirthCounts ==
    /\ 0 \in 0 .. MaxBirths /\ ~(0 > 0)
    /\ \A b \in 0 .. MaxBirths : /\ b > 0 => b - 1 \in 0 .. MaxBirths
                                 /\ b < MaxBirths => b + 1 \in 0 .. MaxBirths
BY SparkplugAssumption

LEMMA InitInv == Init => IInv
BY BirthCounts, Zenon DEF Init, IInv, TypeOK, ListIsAnnounced

-----------------------------------------------------------------------------
(* Steps of births *)

LEMMA ExitInv == ASSUME IInv, Exit PROVE IInv'
<1>1. components' = components /\ catalog' = catalog /\ host' = host
  BY DEF Exit, files
<1> QED  BY <1>1, BirthCounts, Zenon DEF IInv, TypeOK, ListIsAnnounced, Exit

LEMMA SendDevBirthMsgInv ==
    ASSUME TypeOK, NEW list \in SUBSET Comps, SendDevBirthMsg(list)
    PROVE  /\ metrics' \in SUBSET Comps /\ host' \in SUBSET Comps
           /\ born' \in BOOLEAN /\ births' \in 0 .. MaxBirths
           /\ ListIsAnnounced'
<1>1. births' \in 0 .. MaxBirths
  BY BirthCounts DEF TypeOK, SendDevBirthMsg
<1>2. list \cap catalog \in SUBSET Comps
  OBVIOUS
<1> QED  BY <1>1, <1>2, Zenon DEF SendDevBirthMsg, InCatalog, ListIsAnnounced

LEMMA BirthStepInv ==
    ASSUME IInv, NodeBorn \/ NodeNotBorn \/ DeviceBorn \/ DeviceNotBorn PROVE IInv'
<1> USE DEF IInv
<1>1. CASE NodeBorn
  BY <1>1, SendDevBirthMsgInv DEF NodeBorn, TypeOK, files, work
<1>2. CASE NodeNotBorn
  BY <1>2 DEF NodeNotBorn, TypeOK, ListIsAnnounced, files, work
<1>3. CASE DeviceBorn
  BY <1>3, SparkplugAssumption DEF DeviceBorn, TypeOK, ListIsAnnounced, files, work
<1>4. CASE DeviceNotBorn
  <2>1. births' \in 0 .. MaxBirths
    BY <1>4, BirthCounts DEF DeviceNotBorn, TypeOK
  <2>2. /\ UNCHANGED <<components, catalog, phase, born, metrics, host, node>>
        /\ UNCHANGED <<regs, fetching, subs>> /\ proxy' = FALSE
        /\ births > 0
    BY <1>4 DEF DeviceNotBorn, files, work
  <2>3. phase # "down"
    BY <2>2, BirthCounts, Zenon DEF TypeOK
  <2>4. ListIsAnnounced'
    BY <2>2, Zenon DEF ListIsAnnounced
  <2> QED  BY <2>1, <2>2, <2>3, <2>4, Zenon DEF TypeOK
<1> QED  BY <1>1, <1>2, <1>3, <1>4

LEMMA RegistrationInv ==
    ASSUME IInv, NEW c \in Comps, NEW list \in SUBSET Comps, RegistrationAnswered(c, list)
    PROVE  IInv'
<1> USE DEF IInv
<1>1. phase # "down"
  BY DEF RegistrationAnswered, TypeOK
<1>2. CASE proxy
  BY <1>1, <1>2, SendDevBirthMsgInv DEF RegistrationAnswered, TypeOK
<1>3. CASE ~proxy
  BY <1>1, <1>3 DEF RegistrationAnswered, TypeOK, ListIsAnnounced
<1> QED  BY <1>2, <1>3

-----------------------------------------------------------------------------
(* Steps of submissions *)

(* A submission that a step of its own changes. *)
LEMMA HandledTyped ==
    ASSUME NEW s \in Submission PROVE Handled(s) \subseteq Submission
<1>1. [s EXCEPT !.state = "rest"] \in Submission
  BY DEF Submission
<1>2. [s EXCEPT !.state = "polling", !.polls = IF Patience = 0 THEN 0 ELSE 1,
                !.late = Patience = 0] \in Submission
  <2>1. (IF Patience = 0 THEN 0 ELSE 1) \in 0 .. Patience
    BY SparkplugAssumption
  <2>2. (Patience = 0) \in BOOLEAN
    OBVIOUS
  <2> QED  BY <2>1, <2>2 DEF Submission
<1>3. [s EXCEPT !.state = "sent", !.want = @ \cap metrics] \in Submission
  BY DEF Submission
<1> QED  BY <1>1, <1>2, <1>3, Zenon DEF Handled

LEMMA SubmissionInv ==
    ASSUME IInv, NEW new \in SUBSET Submission, subs' \subseteq subs \cup new,
           phase # "down", UNCHANGED <<files, phase, session, regs, fetching>>
    PROVE  IInv'
BY DEF IInv, TypeOK, ListIsAnnounced, files, session

LEMMA SubmitInv ==
    ASSUME IInv, NEW i \in SubIds, NEW want \in SUBSET Comps, Submit(i, want) PROVE IInv'
<1> DEFINE s == [id |-> i, want |-> want, polls |-> 0, late |-> FALSE, state |-> "token"]
<1>1. s \in Submission
  <2>1. 0 \in 0 .. Patience
    BY SparkplugAssumption
  <2> QED  BY <2>1 DEF Submission
<1>2. Handled(s) \subseteq Submission
  BY <1>1, HandledTyped
<1>3. /\ subs' \subseteq subs \cup ({s} \cup Handled(s))
      /\ phase # "down" /\ UNCHANGED <<files, phase, session, regs, fetching>>
  BY DEF Submit
<1> HIDE DEF s
<1> QED  BY <1>1, <1>2, <1>3, SubmissionInv

LEMMA CheckedInv ==
    ASSUME IInv, NEW s \in subs, Checked(s) \/ Answered(s) PROVE IInv'
<1>1. s \in Submission /\ phase # "down"
  BY DEF IInv, TypeOK
<1>2. CASE TokenRefreshed(s)
  BY <1>1, <1>2, HandledTyped, SubmissionInv DEF TokenRefreshed
<1>3. CASE StillWaits(s)
  <2>1. [s EXCEPT !.polls = @ + 1] \in Submission
    BY <1>1, <1>3, SparkplugAssumption DEF StillWaits, Submission
  <2> QED  BY <1>1, <1>3, <2>1, SubmissionInv DEF StillWaits
<1>4. CASE TimesOut(s)
  <2>1. [s EXCEPT !.late = TRUE] \in Submission
    BY <1>1 DEF Submission
  <2> QED  BY <1>1, <1>4, <2>1, SubmissionInv DEF TimesOut
<1>5. CASE StopsWaiting(s)
  <2>1. [s EXCEPT !.state = "sent", !.want = @ \cap metrics] \in Submission
    BY <1>1 DEF Submission
  <2> QED  BY <1>1, <1>5, <2>1, SubmissionInv DEF StopsWaiting
<1>6. CASE StopsWaitingTooLate(s)
  BY <1>6, ExitInv DEF StopsWaitingTooLate
<1>7. CASE Answered(s)
  BY <1>1, <1>7, SubmissionInv DEF Answered
<1> QED  BY <1>2, <1>3, <1>4, <1>5, <1>6, <1>7 DEF Checked

-----------------------------------------------------------------------------
LEMMA NextInv == ASSUME IInv, [Next]_vars PROVE IInv'
<1>1. CASE Start
  <2>1. births = 0 /\ UNCHANGED <<components, catalog, host, births, regs, fetching, subs>>
    BY <1>1 DEF IInv, TypeOK, Start, files, work
  <2>2. components \cap catalog \in SUBSET Comps
    BY DEF IInv, TypeOK
  <2>3. phase' # "down"
    BY <1>1 DEF Start
  <2> QED  BY <1>1, <2>1, <2>2, <2>3, BirthCounts, Zenon
              DEF IInv, TypeOK, ListIsAnnounced, Start, InCatalog
<1>10. CASE Ready
  BY <1>10 DEF IInv, TypeOK, ListIsAnnounced, Ready, files, session
<1>2. CASE Stop \/ NodeBornTooLate
  BY <1>2, ExitInv DEF Stop, NodeBornTooLate
<1>3. CASE NodeBorn \/ NodeNotBorn \/ DeviceBorn \/ DeviceNotBorn
  BY <1>3, BirthStepInv
<1>4. ASSUME NEW c \in Comps, Register(c) PROVE IInv'
  BY <1>4 DEF IInv, TypeOK, ListIsAnnounced, Register, files, session
<1>5. ASSUME NEW c \in Comps, Registered(c) \/ NotRegistered(c) PROVE IInv'
  <2>1. components \cup {c} \in SUBSET Comps /\ components \in SUBSET Comps
    BY DEF IInv, TypeOK
  <2> QED  BY <1>5, <2>1, RegistrationInv DEF Registered, NotRegistered
<1>6. CASE CatalogAnswered \/ CatalogCommand \/ OtherSaves
  BY <1>6, SparkplugAssumption
     DEF IInv, TypeOK, ListIsAnnounced, CatalogAnswered, CatalogCommand, UpdateCatalog,
         OtherSaves, files, session, work
<1>7. ASSUME NEW i \in SubIds, NEW want \in SUBSET Comps, Submit(i, want) PROVE IInv'
  BY <1>7, SubmitInv
<1>8. ASSUME NEW s \in subs, Checked(s) \/ Answered(s) PROVE IInv'
  BY <1>8, CheckedInv
<1>9. CASE UNCHANGED vars
  BY <1>9 DEF IInv, TypeOK, ListIsAnnounced, vars, files, session, work
<1> QED  BY <1>1, <1>2, <1>3, <1>4, <1>5, <1>6, <1>7, <1>8, <1>9, <1>10 DEF Next

(* Every state has the types of the model, and a process that is down has  *)
(* no callbacks, whatever failed before.                                   *)
THEOREM SessionTyped == Spec => []TypeOK
<1>1. IInv /\ [Next]_vars => IInv'
  BY NextInv
<1>2. IInv => TypeOK
  BY DEF IInv
<1> QED  BY <1>1, <1>2, InitInv, PTL DEF Spec

-----------------------------------------------------------------------------
(* What a step newly sends *)

LEMMA HandledSends ==
    ASSUME IInv, NEW s \in Submission, NEW x \in Handled(s), s.state = "token", x.state = "sent"
    PROVE  x.want \subseteq host
<1>1. CASE ~proxy
  BY <1>1 DEF Handled, Submission
<1>2. CASE proxy /\ ~born
  BY <1>2 DEF Handled, Submission
<1>3. CASE proxy /\ born
  <2>1. x = [s EXCEPT !.state = "sent", !.want = @ \cap metrics]
    BY <1>3 DEF Handled
  <2>2. x.want \subseteq metrics
    BY <2>1 DEF Submission
  <2>3. metrics = host
    BY <1>3, Zenon DEF IInv, ListIsAnnounced
  <2> QED  BY <2>2, <2>3
<1> QED  BY <1>1, <1>2, <1>3

LEMMA NextSends ==
    ASSUME IInv, [Next]_vars, NEW x \in subs' \ subs, x.state = "sent"
    PROVE  x.want \subseteq host
<1>1. ASSUME NEW i \in SubIds, NEW want \in SUBSET Comps, Submit(i, want)
      PROVE  x.want \subseteq host
  <2> DEFINE s == [id |-> i, want |-> want, polls |-> 0, late |-> FALSE, state |-> "token"]
  <2>1. s.state = "token" /\ (x = s \/ x \in Handled(s))
    BY <1>1 DEF Submit
  <2>2. s \in Submission
    <3>1. 0 \in 0 .. Patience
      BY SparkplugAssumption
    <3> QED  BY <3>1 DEF Submission
  <2> HIDE DEF s
  <2> QED  BY <2>1, <2>2, HandledSends
<1>2. ASSUME NEW s \in subs, Checked(s) \/ Answered(s) PROVE x.want \subseteq host
  <2>0. s \in Submission
    BY DEF IInv, TypeOK
  <2>1. CASE TokenRefreshed(s)
    BY <2>0, <2>1, HandledSends DEF TokenRefreshed
  <2>2. CASE StillWaits(s)
    BY <2>0, <2>2 DEF StillWaits, Submission
  <2>3. CASE TimesOut(s)
    BY <2>0, <2>3 DEF TimesOut, Submission
  <2>4. CASE StopsWaiting(s)
    <3>1. x = [s EXCEPT !.state = "sent", !.want = @ \cap metrics]
      BY <2>4 DEF StopsWaiting
    <3>2. x.want \subseteq metrics
      BY <2>0, <3>1 DEF Submission
    <3>3. metrics = host
      BY <2>4, Zenon DEF StopsWaiting, IInv, ListIsAnnounced
    <3> QED  BY <3>2, <3>3
  <2>5. CASE StopsWaitingTooLate(s) \/ Answered(s)
    BY <2>5 DEF StopsWaitingTooLate, Exit, Answered
  <2> QED  BY <1>2, <2>1, <2>2, <2>3, <2>4, <2>5 DEF Checked
<1>3. CASE subs' \subseteq subs
  BY <1>3
<1> QED  BY <1>1, <1>2, <1>3
            DEF Next, Start, Ready, Stop, Exit, NodeBorn, NodeBornTooLate, NodeNotBorn,
                DeviceBorn, DeviceNotBorn, Register, Registered, NotRegistered,
                RegistrationAnswered, CatalogAnswered, CatalogCommand, OtherSaves, vars, work

(* Every alias in a data message is in the last device birth sent before,  *)
(* for any interleaving of births, registrations and submissions.          *)
THEOREM DataWasAnnounced == Spec => AnnouncedBeforeData
<1>1. IInv /\ [Next]_vars => IInv'
  BY NextInv
<1>2. IInv /\ [Next]_vars =>
        [\A s \in subs' \ subs : s.state = "sent" => s.want \subseteq host]_vars
  BY NextSends
<1> QED  BY <1>1, <1>2, InitInv, PTL DEF Spec, AnnouncedBeforeData
=============================================================================
