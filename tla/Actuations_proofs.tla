--------------------------- MODULE Actuations_proofs ---------------------------
(***************************************************************************)
(* Actuations is type correct, no actuation is taken up by two pulls, and  *)
(* none is marked as pulled that was not sent, missed or given up, for any *)
(* components and any number of actuations; and none at all is sent        *)
(* without a time in device.json.                                          *)
(***************************************************************************)
EXTENDS Actuations, TLAPS

(* A pull that has a time asks from the time in the file, which nothing    *)
(* else moves, up to an actuation that was issued; what it has queued is   *)
(* before the time it saved.                                               *)
PullAsksFromTime ==
    /\ pull.phase = "loaded" /\ pull.from # Never => pull.from = since
    /\ pull.phase \in {"asking", "answered"} => pull.from = since /\ since # Never
    /\ pull.phase = "answered" => pull.upto <= Len(issued)
    /\ pull.phase = "binding" => since # Never /\ pull.from # Never /\ pull.upto <= since

(* No pull has taken i up, or none but the one that has it queued. *)
Untouched(i) == handed[i] = 0 /\ i \notin lost

(* Nothing later than the time in the file was taken up, and nothing       *)
(* before it twice.                                                        *)
HandedUpToTime ==
    \A i \in Actuation :
        /\ since = Never => Untouched(i)
        /\ since # Never /\ i > since => Untouched(i)
        /\ pull.phase = "binding" /\ i \in Batch => Untouched(i)
        /\ handed[i] <= 1 /\ (i \in lost => handed[i] = 0)

IInv == TypeOK /\ PullAsksFromTime /\ HandedUpToTime /\ MarkedWasHanded

LEMMA InitIInv == Init => IInv
<1> SUFFICES ASSUME Init PROVE IInv
  OBVIOUS
<1>1. TypeOK
  BY ActuationsAssumption
     DEF Init, TypeOK, NoPull, Pull, Actuation
<1>2. PullAsksFromTime /\ HandedUpToTime /\ MarkedWasHanded
  BY DEF Init, NoPull, PullAsksFromTime, HandedUpToTime, Untouched, MarkedWasHanded, Actuation
<1> QED
  BY <1>1, <1>2 DEF IInv

-----------------------------------------------------------------------------
(* Steps that move no time, no count and no pull.                          *)
LEMMA Bookkeeping ==
    ASSUME PullAsksFromTime, HandedUpToTime, MarkedWasHanded,
           UNCHANGED <<issued, since, pull, handed, lost, missed>>
    PROVE  PullAsksFromTime' /\ HandedUpToTime' /\ MarkedWasHanded'
BY DEF PullAsksFromTime, HandedUpToTime, Untouched, Batch, MarkedWasHanded, PullIs

(* Steps of a pull that has nothing queued, and queues nothing.            *)
LEMMA NothingHanded ==
    ASSUME HandedUpToTime, MarkedWasHanded, UNCHANGED <<issued, since, handed, lost, missed>>,
           pull.phase # "binding", pull'.phase # "binding"
    PROVE  HandedUpToTime' /\ MarkedWasHanded'
BY DEF HandedUpToTime, Untouched, MarkedWasHanded, PullIs

-----------------------------------------------------------------------------
(* The cloud, the list and the agent *)

LEMMA IssueKeeps ==
    ASSUME IInv, NEW c \in Cids, Issue(c)
    PROVE  IInv'
<1> USE DEF IInv
<1>1. Len(issued) \in Nat /\ Len(issued') = Len(issued) + 1 /\ issued' \in Seq(Cids)
      /\ Len(issued') <= MaxActuations
  BY ActuationsAssumption DEF Issue, TypeOK, Now
<1>2. TypeOK'
  <2>1. since' \in {Never} \cup 0 .. Len(issued')
    BY <1>1 DEF Issue, TypeOK
  <2>2. control' \subseteq 1 .. Len(issued')
    <3>1. control \subseteq 1 .. Len(issued') /\ Now + 1 \in 1 .. Len(issued')
      BY <1>1 DEF TypeOK, Now
    <3>2. control' = control \cup {Now + 1} \/ control' = control
      BY DEF Issue
    <3> QED
      BY <3>1, <3>2
  <2>3. forwarded' \subseteq 1 .. Len(issued') /\ missed' \subseteq 1 .. Len(issued')
    BY <1>1 DEF Issue, counts, TypeOK
  <2> QED
    BY <1>1, <2>1, <2>2, <2>3 DEF Issue, TypeOK, counts
<1>3. PullAsksFromTime'
  <2>1. pull.phase = "answered" => pull.upto \in Nat
    BY DEF TypeOK, Pull
  <2> QED
    BY <1>1, <2>1 DEF Issue, PullAsksFromTime
<1>4. HandedUpToTime' /\ MarkedWasHanded'
  BY DEF Issue, counts, HandedUpToTime, Untouched, Batch, MarkedWasHanded, PullIs
<1> QED
  BY <1>2, <1>3, <1>4

LEMMA ListKeeps ==
    ASSUME IInv, List
    PROVE  IInv'
<1>1. TypeOK'
  BY DEF IInv, List, counts, TypeOK
<1> QED
  BY <1>1, Bookkeeping DEF IInv, List, counts

LEMMA EditTimeKeeps ==
    ASSUME IInv, EditTime
    PROVE  IInv'
<1> USE DEF IInv
<1>1. Len(issued) \in Nat
  BY DEF TypeOK
<1>2. TypeOK'
  BY <1>1 DEF EditTime, counts, TypeOK
<1>3. PullAsksFromTime'
  BY ActuationsAssumption DEF EditTime, PullAsksFromTime
<1>4. HandedUpToTime'
  BY DEF EditTime, counts, HandedUpToTime, Untouched, Batch
<1>5. MarkedWasHanded'
  BY DEF EditTime, MarkedWasHanded
<1> QED
  BY <1>2, <1>3, <1>4, <1>5

LEMMA AgentKeeps ==
    ASSUME IInv, AgentStart \/ AgentBinds \/ AgentDies
    PROVE  IInv'
<1>1. TypeOK'
  BY DEF IInv, AgentStart, ControlInit, AgentBinds, AgentDies, counts, TypeOK
<1> QED
  BY <1>1, Bookkeeping DEF IInv, AgentStart, AgentBinds, AgentDies, counts

LEMMA ControlKeeps ==
    ASSUME IInv, NEW i \in Actuation, Control(i)
    PROVE  IInv'
<1>1. TypeOK'
  BY DEF IInv, Control, TypeOK
<1> QED
  BY <1>1, Bookkeeping DEF IInv, Control

-----------------------------------------------------------------------------
(* The pull *)

LEMMA PullForms ==
    /\ PullStart => pull' = [phase |-> "loaded", from |-> since, upto |-> 0, known |-> listed]
    /\ PullKilled => pull' = [phase |-> "killed", from |-> 0, upto |-> 0, known |-> {}]
    /\ PullHasTime => pull' = IF pull.from = Never THEN NoPull
                              ELSE [pull EXCEPT !.phase = "asking"]
    /\ CloudAnswers => pull' = [[pull EXCEPT !.phase = "answered"] EXCEPT !.upto = Now]
    /\ HandOver => pull' = [pull EXCEPT !.phase = "binding"]
BY DEF PullStart, PullKilled, PullHasTime, CloudAnswers, HandOver, NoPull

LEMMA PullGoesOnKeeps ==
    ASSUME IInv, PullStart \/ PullCloses
    PROVE  IInv'
<1> USE DEF IInv
<1>1. pull' \in Pull
  <2>1. CASE PullStart
    <3>1. Len(issued) <= MaxActuations /\ Len(issued) \in Nat
      BY DEF TypeOK
    <3>2. since \in {Never} \cup 0 .. MaxActuations
      BY <3>1, ActuationsAssumption DEF TypeOK
    <3> QED
      BY <2>1, <3>2, PullForms, ActuationsAssumption DEF TypeOK, Pull
  <2>2. CASE PullCloses
    BY <2>2, ActuationsAssumption DEF PullCloses, Pull, NoPull
  <2> QED
    BY <2>1, <2>2
<1>2. UNCHANGED <<issued, listed, since, control, agent, cache, counts>>
  BY DEF PullStart, PullCloses
<1>3. pull'.phase \in {"loaded", "down"} /\ pull.phase # "binding"
  BY PullForms DEF PullStart, PullCloses, PullIs, NoPull
<1>4. TypeOK'
  BY <1>1, <1>2, <1>3 DEF TypeOK, counts
<1>5. PullAsksFromTime'
  BY <1>2, <1>3, PullForms DEF PullStart, PullCloses, NoPull, PullAsksFromTime
<1> QED
  BY <1>2, <1>3, <1>4, <1>5, NothingHanded DEF counts

(* The queue of a pull is given up: by the port, or with the pull. *)
LEMMA GivenUpKeeps ==
    ASSUME IInv, pull.phase = "binding", lost' = lost \cup Batch,
           UNCHANGED <<issued, listed, since, control, agent, cache, handed, forwarded, missed>>,
           pull' \in Pull, pull'.phase \in {"down", "killed"}
    PROVE  IInv'
<1> USE DEF IInv
<1>1. Batch \subseteq Actuation
  <2>1. pull.from \in Nat /\ pull.upto \in Nat /\ pull.upto <= MaxActuations
    BY ActuationsAssumption DEF PullAsksFromTime, TypeOK, Pull
  <2> QED
    BY <2>1, ActuationsAssumption DEF Batch, Actuation
<1>2. TypeOK'
  BY <1>1 DEF TypeOK
<1>3. PullAsksFromTime'
  BY DEF PullAsksFromTime
<1>4. \A i \in Actuation : i \in Batch => i <= since /\ since # Never
  BY ActuationsAssumption DEF PullAsksFromTime, TypeOK, Pull, Batch, Actuation
<1>5. \A i \in Actuation : i > since => ~(i <= since) \/ since = Never
  BY ActuationsAssumption DEF TypeOK, Actuation
<1>6. HandedUpToTime'
  BY <1>4, <1>5 DEF HandedUpToTime, Untouched
<1>7. MarkedWasHanded'
  BY DEF MarkedWasHanded, PullIs
<1> QED
  BY <1>2, <1>3, <1>6, <1>7

LEMMA PullKilledKeeps ==
    ASSUME IInv, PullKilled
    PROVE  IInv'
<1>1. pull' \in Pull /\ pull'.phase = "killed"
  BY PullForms, ActuationsAssumption DEF Pull
<1>2. CASE PullIs("binding")
  BY <1>1, <1>2, GivenUpKeeps DEF PullKilled, PullIs
<1>3. CASE ~PullIs("binding")
  <2>1. UNCHANGED <<issued, listed, since, control, agent, cache, handed, lost, forwarded,
                    missed>>
    BY <1>3 DEF PullKilled
  <2>2. TypeOK' /\ PullAsksFromTime'
    BY <1>1, <2>1 DEF IInv, TypeOK, PullAsksFromTime
  <2> QED
    BY <1>1, <1>3, <2>1, <2>2, NothingHanded DEF IInv, PullIs
<1> QED
  BY <1>2, <1>3

(* Beside an agent that has the port, or sent. *)
LEMMA PullBindsKeeps ==
    ASSUME IInv, PullBinds
    PROVE  IInv'
<1>1. CASE agent = "up"
  <2>1. pull' = [phase |-> "down", from |-> 0, upto |-> 0, known |-> {}]
    BY <1>1 DEF PullBinds, NoPull
  <2>2. pull' \in Pull /\ pull'.phase = "down"
    BY <2>1, ActuationsAssumption DEF Pull
  <2> QED
    BY <1>1, <2>2, GivenUpKeeps DEF PullBinds, PullIs
<1>2. CASE agent # "up"
  <2>1. pull' = [phase |-> "holding", from |-> 0, upto |-> 0, known |-> {}]
    BY <1>2 DEF PullBinds, NoPull
  <2>2. pull' \in Pull /\ pull'.phase = "holding"
    BY <2>1, ActuationsAssumption DEF Pull
  <2>3. /\ UNCHANGED <<issued, listed, since, control, agent, cache, lost, forwarded, missed>>
        /\ pull.phase = "binding"
    BY <1>2 DEF PullBinds, PullIs
  <2>4. \A i \in Actuation : /\ handed[i] \in Nat
                             /\ handed'[i] = handed[i] + IF i \in Batch THEN 1 ELSE 0
    BY <1>2 DEF PullBinds, IInv, TypeOK
  <2>5. handed' \in [Actuation -> Nat]
    <3>1. handed' = [i \in Actuation |-> handed[i] + IF i \in Batch THEN 1 ELSE 0]
      BY <1>2 DEF PullBinds
    <3>2. \A i \in Actuation : handed[i] + (IF i \in Batch THEN 1 ELSE 0) \in Nat
      BY <2>4
    <3> QED
      BY <3>1, <3>2
  <2>6. TypeOK'
    BY <1>2, <2>2, <2>3, <2>5 DEF IInv, TypeOK
  <2>7. PullAsksFromTime'
    BY <2>2 DEF PullAsksFromTime
  <2>8. \A i \in Actuation : i \in Batch => handed'[i] = 1 /\ i \notin lost
    BY <2>3, <2>4 DEF IInv, HandedUpToTime, Untouched
  <2>9. \A i \in Actuation : i \notin Batch => handed'[i] = handed[i]
    BY <2>4
  <2>10. \A i \in Actuation : i \in Batch => since # Never /\ ~(i > since)
    BY <2>3, ActuationsAssumption
    DEF IInv, PullAsksFromTime, TypeOK, Pull, Batch, Actuation
  <2>11. HandedUpToTime'
    <3> SUFFICES ASSUME NEW i \in Actuation
                 PROVE  /\ since = Never => handed'[i] = 0 /\ i \notin lost
                        /\ since # Never /\ i > since => handed'[i] = 0 /\ i \notin lost
                        /\ handed'[i] <= 1 /\ (i \in lost => handed'[i] = 0)
      BY <2>2, <2>3 DEF HandedUpToTime, Untouched
    <3>1. CASE i \in Batch
      BY <2>8, <2>10, <3>1
    <3>2. CASE i \notin Batch
      BY <2>9, <3>2 DEF IInv, HandedUpToTime, Untouched
    <3> QED
      BY <3>1, <3>2
  <2>12. MarkedWasHanded'
    <3> SUFFICES ASSUME since # Never, NEW i \in 1 .. since
                 PROVE  handed'[i] = 1 \/ i \in missed \/ i \in lost
      BY <2>3 DEF MarkedWasHanded
    <3>1. i \in Actuation
      BY ActuationsAssumption DEF IInv, TypeOK, Actuation
    <3>2. handed[i] = 1 \/ i \in missed \/ i \in lost \/ i \in Batch
      BY DEF IInv, MarkedWasHanded
    <3> QED
      BY <2>8, <2>9, <3>1, <3>2
  <2> QED
    BY <2>6, <2>7, <2>11, <2>12 DEF IInv
<1> QED
  BY <1>1, <1>2

LEMMA PullAsksKeeps ==
    ASSUME IInv, PullHasTime \/ CloudAnswers
    PROVE  IInv'
<1> USE DEF IInv
<1>0. pull \in Pull /\ Len(issued) \in Nat /\ Len(issued) <= MaxActuations
  BY DEF TypeOK
<1>1. /\ UNCHANGED <<issued, listed, since, control, agent, cache, handed, lost, forwarded,
                      missed>>
      /\ pull.phase # "binding"
  BY DEF PullHasTime, CloudAnswers, PullIs, counts
<1>2. CASE PullHasTime
  <2>1. CASE pull.from = Never
    <3>1. pull' = NoPull
      BY <1>2, <2>1, PullForms
    <3>2. TypeOK'
      BY <1>1, <3>1, ActuationsAssumption DEF TypeOK, Pull, NoPull
    <3>3. PullAsksFromTime'
      BY <3>1 DEF PullAsksFromTime, NoPull
    <3> QED
      BY <1>1, <3>1, <3>2, <3>3, NothingHanded DEF NoPull
  <2>2. CASE pull.from # Never
    <3>1. pull' = [pull EXCEPT !.phase = "asking"] /\ pull.phase = "loaded"
      BY <1>2, <2>2, PullForms DEF PullHasTime, PullIs
    <3>2. pull' \in Pull /\ pull'.phase = "asking" /\ pull'.from = pull.from
      BY <1>0, <3>1 DEF Pull
    <3>3. TypeOK'
      BY <1>1, <3>2 DEF TypeOK
    <3>4. PullAsksFromTime'
      BY <1>1, <2>2, <3>1, <3>2 DEF PullAsksFromTime
    <3> QED
      BY <1>1, <3>2, <3>3, <3>4, NothingHanded
  <2> QED
    BY <2>1, <2>2
<1>3. CASE CloudAnswers
  <2>1. /\ pull' \in Pull /\ pull'.phase = "answered"
        /\ pull'.from = pull.from /\ pull'.upto = Len(issued)
    <3> DEFINE q == [pull EXCEPT !.phase = "answered"]
    <3>1. /\ q \in Pull /\ q.phase = "answered" /\ q.from = pull.from
      BY <1>0 DEF Pull
    <3>2. pull' = [q EXCEPT !.upto = Len(issued)]
      BY <1>3, PullForms DEF Now
    <3> HIDE DEF q
    <3> QED
      BY <1>0, <3>1, <3>2 DEF Pull
  <2>2. TypeOK'
    BY <1>1, <2>1 DEF TypeOK
  <2>3. PullAsksFromTime'
    BY <1>0, <1>1, <1>3, <2>1 DEF PullAsksFromTime, CloudAnswers, PullIs
  <2> QED
    BY <1>1, <2>1, <2>2, <2>3, NothingHanded
<1> QED
  BY <1>2, <1>3

LEMMA GiveUpKeeps ==
    ASSUME IInv, PullHandles, ~HandOver
    PROVE  IInv'
<1> USE DEF IInv
<1>1. /\ UNCHANGED <<issued, listed, since, control, agent, cache, handed, lost, forwarded,
                      missed>>
      /\ pull' = NoPull /\ pull.phase = "answered"
  BY DEF PullHandles, GiveUp, PullIs
<1>2. TypeOK'
  BY <1>1, ActuationsAssumption DEF TypeOK, Pull, NoPull
<1>3. PullAsksFromTime'
  BY <1>1 DEF PullAsksFromTime, NoPull
<1> QED
  BY <1>1, <1>2, <1>3, NothingHanded DEF NoPull

(* The batch begins where the time in the file is, so no pull took any of  *)
(* it up before; what it does not reach is missed.                         *)
LEMMA HandOverKeeps ==
    ASSUME IInv, PullHandles, HandOver
    PROVE  IInv'
<1> USE DEF IInv
<1>0. /\ pull \in Pull /\ Len(issued) \in Nat /\ Len(issued) <= MaxActuations
      /\ MaxActuations \in Nat
  BY ActuationsAssumption DEF TypeOK
<1>1. /\ UNCHANGED <<issued, listed, control, agent, cache, handed, lost, forwarded>>
      /\ since' = Len(issued)
      /\ missed' = missed \cup (pull.upto + 1 .. Len(issued))
  BY DEF PullHandles, HandOver, GiveUp, AllFound, Now
<1>2. /\ pull.from = since /\ since # Never /\ pull.upto <= Len(issued)
      /\ since \in Nat /\ pull.upto \in Nat /\ since <= Len(issued)
  BY <1>0 DEF HandOver, PullIs, PullAsksFromTime, TypeOK, Pull
<1>3. \A i \in Actuation : i \in Nat /\ (i \in Batch <=> since < i /\ i <= pull.upto)
  BY <1>0, <1>2 DEF Batch, Actuation
<1>4. /\ pull' \in Pull /\ pull'.phase = "binding" /\ pull'.from = pull.from
      /\ pull'.upto = pull.upto
  <2>1. pull' = [pull EXCEPT !.phase = "binding"]
    BY PullForms
  <2> QED
    BY <1>0, <2>1 DEF Pull
<1>5. Batch' = Batch
  BY <1>4 DEF Batch
<1>6. since' # Never
  BY <1>0, <1>1, ActuationsAssumption
<1>7. TypeOK'
  <2>1. missed' \subseteq 1 .. Len(issued')
    <3>1. missed \subseteq 1 .. Len(issued)
      BY DEF TypeOK
    <3>2. pull.upto + 1 .. Len(issued) \subseteq 1 .. Len(issued)
      BY <1>0, <1>2
    <3> QED
      BY <1>1, <3>1, <3>2
  <2>2. since' \in {Never} \cup 0 .. Len(issued')
    BY <1>0, <1>1
  <2> QED
    BY <1>1, <1>4, <2>1, <2>2 DEF TypeOK
<1>8. PullAsksFromTime'
  BY <1>1, <1>2, <1>4, <1>6 DEF PullAsksFromTime
<1>9. HandedUpToTime'
  <2> SUFFICES ASSUME NEW i \in Actuation
               PROVE  /\ i > Len(issued) => Untouched(i)
                      /\ i \in Batch => Untouched(i)
                      /\ handed[i] <= 1 /\ (i \in lost => handed[i] = 0)
    BY <1>1, <1>5, <1>6 DEF HandedUpToTime, Untouched
  <2>1. i > Len(issued) => i > since
    BY <1>0, <1>2, <1>3
  <2>2. i \in Batch => i > since
    BY <1>2, <1>3
  <2> QED
    BY <1>2, <2>1, <2>2 DEF HandedUpToTime
<1>10. MarkedWasHanded'
  <2> SUFFICES ASSUME NEW i \in 1 .. Len(issued)
               PROVE  handed[i] = 1 \/ i \in missed' \/ i \in lost \/ i \in Batch
    BY <1>1, <1>4, <1>5 DEF MarkedWasHanded, PullIs
  <2>1. i \in Actuation
    BY <1>0 DEF Actuation
  <2>2. CASE i <= since
    <3>1. handed[i] = 1 \/ i \in missed \/ i \in lost
      BY <1>2, <2>1, <2>2 DEF MarkedWasHanded, HandOver, PullIs
    <3> QED
      BY <1>1, <3>1
  <2>3. CASE ~(i <= since) /\ i <= pull.upto
    BY <1>2, <1>3, <2>1, <2>3
  <2>4. CASE ~(i <= pull.upto)
    BY <1>0, <1>1, <1>2, <2>4
  <2> QED
    BY <2>2, <2>3, <2>4
<1> QED
  BY <1>7, <1>8, <1>9, <1>10

-----------------------------------------------------------------------------
(* Every step *)

LEMMA StepKeeps ==
    ASSUME IInv, [Next]_vars
    PROVE  IInv'
<1>1. CASE Next
  <2>1. CASE \E c \in Cids : Issue(c)
    BY <2>1, IssueKeeps
  <2>2. CASE List \/ EditTime
    BY <2>2, ListKeeps, EditTimeKeeps
  <2>3. CASE AgentStart \/ AgentBinds \/ AgentDies
    BY <2>3, AgentKeeps
  <2>4. CASE \E i \in Actuation : Control(i)
    BY <2>4, ControlKeeps
  <2>5. CASE PullStart \/ PullBinds \/ PullCloses \/ PullKilled
    BY <2>5, PullGoesOnKeeps, PullBindsKeeps, PullKilledKeeps
  <2>6. CASE PullHasTime \/ CloudAnswers
    BY <2>6, PullAsksKeeps
  <2>7. CASE PullHandles
    BY <2>7, GiveUpKeeps, HandOverKeeps
  <2> QED
    BY <1>1, <2>1, <2>2, <2>3, <2>4, <2>5, <2>6, <2>7 DEF Next, PullStep
<1>2. CASE UNCHANGED vars
  <2>1. TypeOK'
    BY <1>2 DEF vars, counts, IInv, TypeOK
  <2> QED
    BY <1>2, <2>1, Bookkeeping DEF vars, counts, IInv
<1> QED
  BY <1>1, <1>2

-----------------------------------------------------------------------------
(* The theorems *)

(* What holds of every reachable state: the types, and how the time in the *)
(* file, the pull under way and what it has sent belong together.          *)
THEOREM Invariant == Spec => []IInv
<1>1. Init => IInv
  BY InitIInv
<1>2. IInv /\ [Next]_vars => IInv'
  BY StepKeeps
<1> QED
  BY <1>1, <1>2, PTL DEF Spec

(* The types of the variables, and that the UDP port has one holder.       *)
THEOREM TypeCorrect == Spec => []TypeOK
<1>1. IInv => TypeOK
  BY DEF IInv
<1> QED
  BY Invariant, <1>1, PTL

(* No actuation is taken up by two pulls, however many are run and         *)
(* wherever they are killed.                                               *)
THEOREM NoneTwice == Spec => []PulledOnce
<1>1. IInv => PulledOnce
  BY DEF IInv, HandedUpToTime, PulledOnce
<1> QED
  BY Invariant, <1>1, PTL

(* What the time in the file says was pulled was sent once, but for what   *)
(* was issued while an answer was on its way, what a pull gave up for want *)
(* of the port or of its life, and what one is about to send.              *)
THEOREM MarkedOnlyHanded == Spec => []MarkedWasHanded
<1>1. IInv => MarkedWasHanded
  BY DEF IInv
<1> QED
  BY Invariant, <1>1, PTL

(* A step that takes a command from the broker is of the control proxy or  *)
(* of the agent's end, and the control proxy forwards what the file knows. *)
LEMMA TakenIsForwarded ==
    ASSUME [Next]_vars, NEW i \in Actuation,
           i \in control \ control', issued[i] \in listed, agent' # "down"
    PROVE  i \in forwarded'
<1>1. \E j \in Actuation : Control(j)
  BY DEF Next, PullStep, Issue, List, EditTime, AgentStart, AgentBinds, AgentDies, PullStart,
         PullHasTime, CloudAnswers, PullHandles, PullBinds, PullCloses, PullKilled, vars, counts
<1>2. Control(i)
  BY <1>1 DEF Control
<1> QED
  BY <1>2 DEF Control

(* A command for a component of device.json is forwarded when it arrives.  *)
THEOREM ListedIsForwarded == Spec => KnownIsForwarded
<1>1. [Next]_vars =>
        [\A i \in Actuation :
            i \in control \ control' /\ issued[i] \in listed /\ agent' # "down"
            => i \in forwarded']_vars
  BY TakenIsForwarded
<1> QED
  BY <1>1, PTL DEF Spec, KnownIsForwarded

-----------------------------------------------------------------------------
(* Without the edit by hand *)

(* A pull that finds no time in the file ends before it asks.              *)
StillNothing ==
    /\ since = Never
    /\ pull.phase \in {"down", "killed", "loaded"}
    /\ pull.phase = "loaded" => pull.from = Never
    /\ lost = {}
    /\ \A i \in Actuation : handed[i] = 0

LEMMA StaysNothing ==
    ASSUME StillNothing, [Next]_vars, [~EditTime]_vars
    PROVE  StillNothing'
<1>1. CASE UNCHANGED <<since, pull, handed, lost>>
  BY <1>1 DEF StillNothing
<1>2. CASE PullStart
  BY <1>2 DEF StillNothing, PullStart, counts
<1>3. CASE PullHasTime
  BY <1>3 DEF StillNothing, PullHasTime, PullIs, NoPull, counts
<1>4. CASE PullKilled
  BY <1>4 DEF StillNothing, PullKilled, PullIs, NoPull
<1>5. ~CloudAnswers /\ ~PullHandles /\ ~PullBinds /\ ~PullCloses
  BY DEF StillNothing, CloudAnswers, PullHandles, HandOver, GiveUp, PullBinds, PullCloses, PullIs
<1>6. CASE EditTime
  BY <1>6, ActuationsAssumption DEF EditTime, vars
<1> QED
  BY <1>1, <1>2, <1>3, <1>4, <1>5, <1>6
     DEF Next, PullStep, Issue, List, AgentStart, AgentBinds, AgentDies, Control, vars, counts

(* Unless someone writes a time into device.json by hand, no pull ever     *)
(* takes an actuation up, whatever is issued and however often it is       *)
(* run (lib/utils.js:173 throws before it asks, and only the answer would  *)
(* save a time).                                                           *)
THEOREM NothingPulled ==
    Spec /\ [][~EditTime]_vars =>
        [](since = Never /\ lost = {} /\ \A i \in Actuation : handed[i] = 0)
<1>1. Init => StillNothing
  BY DEF Init, NoPull, StillNothing
<1>2. StillNothing /\ [Next]_vars /\ [~EditTime]_vars => StillNothing'
  BY StaysNothing
<1>3. StillNothing => since = Never /\ lost = {} /\ \A i \in Actuation : handed[i] = 0
  BY DEF StillNothing
<1> QED
  BY <1>1, <1>2, <1>3, PTL DEF Spec
=============================================================================
