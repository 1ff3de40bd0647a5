---------------------------- MODULE Registry_proofs ----------------------------
(***************************************************************************)
(* Proofs about Registry for any number of processes, components, ids and  *)
(* requests: types, KnownWasAccepted, ReadingIsRouted, ListedTwiceAtMost,  *)
(* SyncConverges and KeepsContract.  The first needs CidsIdentify to be    *)
(* inductive, and CidsIdentify needs it: a list is one of accepted         *)
(* components only if the request that extends it was accepted, and a      *)
(* request keeps its id to itself only if ids of lists are ids the cloud   *)
(* has.                                                                    *)
(***************************************************************************)
EXTENDS Registry, SensorStore_proofs

(* What a gone process leaves behind has not been answered. *)
OrphansAreSent == \A r \in regs : r.proc = NoProc => r.state = "sent"

AcceptedIsFinite == IsFiniteSet(accepted)

(* Ids stay ids, as long as uuid.v4 repeats none: no two components of the *)
(* cloud share one, and no request sent carries one that is taken.         *)
CidsIdentify ==
    /\ \A a, b \in accepted : a.cid = b.cid => a = b
    /\ \A r, q \in regs : r.comp.cid = q.comp.cid => r = q
    /\ \A r \in regs : r.state = "sent" => r.comp.cid \notin {a.cid : a \in accepted}

IInv ==
    /\ TypeOK
    /\ AcceptedIsFinite
    /\ OrphansAreSent
    /\ KnownWasAccepted
    /\ CidsIdentify

USE RegistryAssumption

(* The empty list has no components. *)
LEMMA EmptyRange == <<>> \in Seq(Component) /\ Range(<<>>) = {}
  BY DEF Range

(* The list after a lookup is one of the two the process has. *)
LEMMA RefreshedRange ==
    ASSUME NEW list \in Seq(Component), NEW disklist \in Seq(Component), NEW hits
    PROVE  /\ Refreshed(list, hits, disklist) \in Seq(Component)
           /\ Refreshed(list, hits, disklist) \in {list, disklist}
  BY DEF Refreshed

(* The invariant holds at first: nothing is known, held or asked for. *)
LEMMA InitInv == Init => IInv
<1> SUFFICES ASSUME Init PROVE IInv
  OBVIOUS
<1>1. TypeOK
  BY EmptyRange DEF Init, TypeOK, Jobs
<1>2. AcceptedIsFinite
  BY FS_EmptySet DEF Init, AcceptedIsFinite
<1>3. OrphansAreSent /\ CidsIdentify
  BY DEF Init, OrphansAreSent, CidsIdentify
<1>4. KnownWasAccepted
  BY EmptyRange DEF Init, KnownWasAccepted
<1> QED
  BY <1>1, <1>2, <1>3, <1>4 DEF IInv

(* A new update is one, and lists nothing yet. *)
LEMMA AskedIsUpdate ==
    ASSUME NEW u \in UpdateIds, NEW p \in Procs, NEW boot \in BOOLEAN
    PROVE  Asked(u, p, boot) \in Update /\ Range(Asked(u, p, boot).list) = {}
  BY EmptyRange DEF Asked, Update

-----------------------------------------------------------------------------
(* A start reads the file and asks the cloud. *)
LEMMA StartInv ==
    ASSUME IInv, NEW p \in Procs, NEW j \in Jobs, NEW boot \in BOOLEAN,
           StartWithUpdate(p, j, boot)
    PROVE  IInv'
<1>1. PICK u \in UpdateIds : updates' = updates \cup {Asked(u, p, boot)}
  BY DEF StartWithUpdate
<1>2. updates' \in SUBSET Update
  BY <1>1, AskedIsUpdate DEF IInv, TypeOK
<1>3. TypeOK'
  BY <1>2 DEF IInv, TypeOK, StartWithUpdate
<1>4. AcceptedIsFinite' /\ OrphansAreSent' /\ CidsIdentify'
  BY DEF IInv, AcceptedIsFinite, OrphansAreSent, CidsIdentify, StartWithUpdate
<1>5. KnownWasAccepted'
  BY <1>1, AskedIsUpdate DEF IInv, TypeOK, KnownWasAccepted, StartWithUpdate
<1> QED
  BY <1>3, <1>4, <1>5 DEF IInv

(* An observation command reads the file. *)
LEMMA ObservationInv == ASSUME IInv, NEW p \in Procs, AdminObservation(p) PROVE IInv'
<1>1. TypeOK'
  BY DEF IInv, TypeOK, AdminObservation, Jobs
<1>2. AcceptedIsFinite' /\ OrphansAreSent' /\ CidsIdentify'
  BY DEF IInv, AcceptedIsFinite, OrphansAreSent, CidsIdentify, AdminObservation
<1>3. KnownWasAccepted'
  BY DEF IInv, TypeOK, KnownWasAccepted, AdminObservation
<1> QED
  BY <1>1, <1>2, <1>3 DEF IInv

(* What a stopped process leaves is still asked for at most once. *)
LEMMA StopInv == ASSUME IInv, NEW p \in Procs, Stop(p) PROVE IInv'
<1> DEFINE Orphan(q) == [q EXCEPT !.proc = NoProc]
<1>1. ASSUME NEW r \in regs'
      PROVE  \E q \in regs : \/ q.proc # p /\ r = q
                             \/ /\ q.proc = p /\ q.state = "sent"
                                /\ r = Orphan(q)
  BY DEF Stop
<1>2. ASSUME NEW q \in regs
      PROVE  /\ q \in Reg
             /\ Orphan(q) \in Reg
             /\ Orphan(q).comp = q.comp
             /\ Orphan(q).state = q.state
             /\ Orphan(q).proc = NoProc
  BY DEF IInv, TypeOK, Reg
<1> HIDE DEF Orphan
<1>3. regs' \in SUBSET Reg
  BY <1>1, <1>2
<1>4. updates' \in SUBSET updates
  BY DEF Stop
<1>5. TypeOK'
  BY <1>3, <1>4, EmptyRange DEF IInv, TypeOK, Stop, Jobs
<1>6. AcceptedIsFinite' /\ OrphansAreSent'
  <2>1. AcceptedIsFinite'
    BY DEF IInv, AcceptedIsFinite, Stop
  <2>2. OrphansAreSent'
    <3> SUFFICES ASSUME NEW r \in regs', r.proc = NoProc PROVE r.state = "sent"
      BY DEF OrphansAreSent
    <3> QED
      BY <1>1, <1>2 DEF IInv, OrphansAreSent
  <2> QED
    BY <2>1, <2>2
<1>7. KnownWasAccepted'
  <2>1. \A r \in regs' : r.state \in {"accepted", "saved"} => r.comp \in accepted
    <3> SUFFICES ASSUME NEW r \in regs', r.state \in {"accepted", "saved"}
                 PROVE  r.comp \in accepted
      OBVIOUS
    <3> QED
      BY <1>1, <1>2 DEF IInv, KnownWasAccepted
  <2>2. \A q \in Procs : Range(msgStore'[q]) \cup Range(cloudStore'[q]) \subseteq accepted
    BY EmptyRange DEF IInv, TypeOK, KnownWasAccepted, Stop
  <2> QED
    BY <2>1, <2>2, <1>4 DEF IInv, KnownWasAccepted, Stop
<1>8. CidsIdentify'
  <2>1. \A r, s \in regs' : r.comp.cid = s.comp.cid => r = s
    <3> SUFFICES ASSUME NEW r \in regs', NEW s \in regs', r.comp.cid = s.comp.cid
                 PROVE  r = s
      OBVIOUS
    <3>1. PICK q \in regs : \/ q.proc # p /\ r = q
                            \/ /\ q.proc = p /\ q.state = "sent"
                               /\ r = Orphan(q)
      BY <1>1
    <3>2. PICK t \in regs : \/ t.proc # p /\ s = t
                            \/ /\ t.proc = p /\ t.state = "sent"
                               /\ s = Orphan(t)
      BY <1>1
    <3>3. q.comp.cid = t.comp.cid
      BY <1>2, <3>1, <3>2
    <3>4. q = t
      BY <3>3 DEF IInv, CidsIdentify
    <3> QED
      BY <3>1, <3>2, <3>4
  <2>2. \A r \in regs' : r.state = "sent" => r.comp.cid \notin {a.cid : a \in accepted}
    <3> SUFFICES ASSUME NEW r \in regs', r.state = "sent"
                 PROVE  r.comp.cid \notin {a.cid : a \in accepted}
      OBVIOUS
    <3> QED
      BY <1>1, <1>2 DEF IInv, CidsIdentify
  <2> QED
    BY <2>1, <2>2 DEF IInv, CidsIdentify, Stop
<1> QED
  BY <1>5, <1>6, <1>7, <1>8 DEF IInv

-----------------------------------------------------------------------------
(* A step that only looks something up and answers: the list in memory may *)
(* have been read again.                                                   *)
LEMMA LookupInv ==
    ASSUME IInv, NEW p \in Procs, NEW hits,
           msgStore' = [msgStore EXCEPT ![p] = Refreshed(msgStore[p], hits, disk)],
           AfterMessage(p),
           UNCHANGED <<accepted, disk, job, cloudStore, updates>>
    PROVE  /\ regs' \in SUBSET Reg => TypeOK'
           /\ AcceptedIsFinite'
           /\ (\A r \in regs' : r.state \in {"accepted", "saved"} => r.comp \in accepted)
                  => KnownWasAccepted'
           /\ UNCHANGED regs => OrphansAreSent' /\ CidsIdentify'
<1>1. /\ Refreshed(msgStore[p], hits, disk) \in Seq(Component)
      /\ Refreshed(msgStore[p], hits, disk) \in {msgStore[p], disk}
  BY RefreshedRange DEF IInv, TypeOK
<1>2. phase' \in [Procs -> {"down", "booting", "ready", "closing"}]
  BY DEF IInv, TypeOK, AfterMessage
<1>3. regs' \in SUBSET Reg => TypeOK'
  BY <1>1, <1>2 DEF IInv, TypeOK
<1>4. \A q \in Procs : Range(msgStore'[q]) \subseteq accepted
  BY <1>1 DEF IInv, TypeOK, KnownWasAccepted
<1>5. (\A r \in regs' : r.state \in {"accepted", "saved"} => r.comp \in accepted)
         => KnownWasAccepted'
  BY <1>4 DEF IInv, KnownWasAccepted
<1>6. UNCHANGED regs => OrphansAreSent' /\ CidsIdentify'
  BY DEF IInv, OrphansAreSent, CidsIdentify
<1> QED
  BY <1>3, <1>5, <1>6 DEF IInv, AcceptedIsFinite

(* A registration of a known component, and either kind of observation. *)
LEMMA AnsweredInv ==
    ASSUME IInv, NEW p \in Procs, NEW k, NEW n,
           RegisterKnown(p, k) \/ Submit(p, n) \/ SubmitUnknown(p, n)
    PROVE  IInv'
<1>1. /\ AfterMessage(p)
      /\ UNCHANGED <<accepted, disk, job, cloudStore, regs, updates>>
  BY DEF RegisterKnown, Submit, SubmitUnknown
<1>2. \E hits : msgStore' = [msgStore EXCEPT ![p] = Refreshed(msgStore[p], hits, disk)]
  BY DEF RegisterKnown, Submit, SubmitUnknown, Looked
<1>3. /\ regs' \in SUBSET Reg
      /\ \A r \in regs' : r.state \in {"accepted", "saved"} => r.comp \in accepted
  BY <1>1 DEF IInv, TypeOK, KnownWasAccepted
<1> QED
  BY <1>1, <1>2, <1>3, LookupInv DEF IInv

(* A registration that goes to the cloud, under an id no one has. *)
LEMMA RegisterNewInv ==
    ASSUME IInv, NEW p \in Procs, NEW k \in Kinds, RegisterNew(p, k)
    PROVE  IInv'
<1>1. PICK c \in Cids :
          /\ CreateId(c)
          /\ regs' = regs \cup
                {[proc |-> p, state |-> "sent",
                  comp |-> [cid |-> c, name |-> k.name, type |-> k.type]]}
  BY DEF RegisterNew
<1> DEFINE new == [proc |-> p, state |-> "sent",
                   comp |-> [cid |-> c, name |-> k.name, type |-> k.type]]
<1>2. /\ new \in Reg /\ new.state = "sent" /\ new.comp.cid = c /\ new.proc = p
  BY DEF Reg, Component
<1> HIDE DEF new
<1>3. regs' = regs \cup {new}
  BY <1>1 DEF new
<1>4. regs' \in SUBSET Reg
  BY <1>2, <1>3 DEF IInv, TypeOK
<1>5. \A r \in regs' : r.state \in {"accepted", "saved"} => r.comp \in accepted
  BY <1>2, <1>3 DEF IInv, KnownWasAccepted
<1>6. /\ AfterMessage(p)
      /\ UNCHANGED <<accepted, disk, job, cloudStore, updates>>
      /\ \E hits : msgStore' = [msgStore EXCEPT ![p] = Refreshed(msgStore[p], hits, disk)]
  BY DEF RegisterNew
<1>7. TypeOK' /\ AcceptedIsFinite' /\ KnownWasAccepted'
  BY <1>4, <1>5, <1>6, LookupInv
<1>8. OrphansAreSent'
  BY <1>2, <1>3 DEF IInv, OrphansAreSent
<1>9. CidsIdentify'
  BY <1>1, <1>2, <1>3, <1>6 DEF IInv, CidsIdentify, CreateId
<1> QED
  BY <1>7, <1>8, <1>9 DEF IInv
-----------------------------------------------------------------------------
(* Replacing a request of a running process by its answered form, or       *)
(* dropping it, keeps ids apart and orphans unanswered.                    *)
LEMMA ReplaceReg ==
    ASSUME IInv, NEW r \in regs, NEW new \in Reg,
           new.comp = r.comp, new.proc = r.proc, r.proc # NoProc,
           new.state # "sent",
           regs' = regs \ {r} \/ regs' = (regs \ {r}) \cup {new}
    PROVE  /\ regs' \in SUBSET Reg
           /\ OrphansAreSent'
           /\ \A q, s \in regs' : q.comp.cid = s.comp.cid => q = s
           /\ \A q \in regs' : q.state = "sent" => q \in regs /\ q # r
  BY DEF IInv, TypeOK, OrphansAreSent, CidsIdentify

(* Dropping a request altogether. *)
LEMMA DropReg ==
    ASSUME IInv, NEW r \in regs, regs' = regs \ {r}
    PROVE  /\ regs' \in SUBSET Reg
           /\ OrphansAreSent'
           /\ \A q, s \in regs' : q.comp.cid = s.comp.cid => q = s
           /\ \A q \in regs' : q \in regs /\ q # r
  BY DEF IInv, TypeOK, OrphansAreSent, CidsIdentify

(* The cloud takes a component. *)
LEMMA CloudAcceptsInv == ASSUME IInv, NEW r \in regs, CloudAccepts(r) PROVE IInv'
<1>1. /\ r \in Reg /\ r.comp \in Component /\ r.state = "sent"
      /\ accepted' = accepted \cup {r.comp}
      /\ UNCHANGED <<disk, phase, job, stores, updates>>
  BY DEF IInv, TypeOK, Reg, CloudAccepts
<1>2. /\ regs' \in SUBSET Reg
      /\ OrphansAreSent'
      /\ \A q, s \in regs' : q.comp.cid = s.comp.cid => q = s
      /\ \A q \in regs' : q.state = "sent" => q \in regs /\ q # r
      /\ \A q \in regs' : q.state \in {"accepted", "saved"} => q \in regs \/ q.comp = r.comp
  <2>1. CASE r.proc = NoProc
    <3>1. regs' = regs \ {r}
      BY <2>1 DEF CloudAccepts
    <3> QED
      BY <3>1, DropReg
  <2>2. CASE r.proc # NoProc
    <3>1. PICK s \in {"accepted", "failed"} :
              regs' = (regs \ {r}) \cup {[r EXCEPT !.state = s]}
      BY <2>2 DEF CloudAccepts
    <3> DEFINE new == [r EXCEPT !.state = s]
    <3>2. /\ new \in Reg /\ new.comp = r.comp /\ new.proc = r.proc
          /\ new.state = s /\ s # "sent"
      BY <1>1 DEF Reg
    <3>3. regs' = (regs \ {r}) \cup {new}
      BY <3>1
    <3> HIDE DEF new
    <3>4. /\ regs' \in SUBSET Reg
          /\ OrphansAreSent'
          /\ \A q, t \in regs' : q.comp.cid = t.comp.cid => q = t
          /\ \A q \in regs' : q.state = "sent" => q \in regs /\ q # r
      BY <2>2, <3>2, <3>3, ReplaceReg
    <3> QED
      BY <3>2, <3>3, <3>4
  <2> QED
    BY <2>1, <2>2
<1>3. TypeOK' /\ AcceptedIsFinite'
  BY <1>1, <1>2, FS_AddElement DEF IInv, TypeOK, AcceptedIsFinite, stores
<1>4. KnownWasAccepted'
  <2>1. \A q \in regs' : q.state \in {"accepted", "saved"} => q.comp \in accepted'
    BY <1>1, <1>2 DEF IInv, KnownWasAccepted
  <2> QED
    BY <1>1, <2>1 DEF IInv, KnownWasAccepted, stores
<1>5. CidsIdentify'
  <2>1. \A a, b \in accepted' : a.cid = b.cid => a = b
    BY <1>1 DEF IInv, CidsIdentify
  <2>2. ASSUME NEW q \in regs', q.state = "sent"
        PROVE  q.comp.cid \notin {a.cid : a \in accepted'}
    <3>1. q \in regs /\ q # r
      BY <1>2, <2>2
    <3>2. q.comp.cid # r.comp.cid
      BY <3>1 DEF IInv, CidsIdentify
    <3> QED
      BY <1>1, <2>2, <3>1, <3>2 DEF IInv, CidsIdentify
  <2> QED
    BY <1>2, <2>1, <2>2 DEF CidsIdentify
<1> QED
  BY <1>2, <1>3, <1>4, <1>5 DEF IInv

(* The cloud refuses one. *)
LEMMA CloudRejectsInv == ASSUME IInv, NEW r \in regs, CloudRejects(r) PROVE IInv'
<1>1. /\ r \in Reg /\ r.state = "sent"
      /\ UNCHANGED <<accepted, disk, phase, job, stores, updates>>
  BY DEF IInv, TypeOK, CloudRejects
<1>2. /\ regs' \in SUBSET Reg
      /\ OrphansAreSent'
      /\ \A q, s \in regs' : q.comp.cid = s.comp.cid => q = s
      /\ \A q \in regs' : q.state \in {"sent", "accepted", "saved"} => q \in regs
  <2>1. CASE r.proc = NoProc
    <3>1. regs' = regs \ {r}
      BY <2>1 DEF CloudRejects
    <3> QED
      BY <3>1, DropReg
  <2>2. CASE r.proc # NoProc
    <3> DEFINE new == [r EXCEPT !.state = "failed"]
    <3>1. regs' = (regs \ {r}) \cup {new}
      BY <2>2 DEF CloudRejects
    <3>2. /\ new \in Reg /\ new.comp = r.comp /\ new.proc = r.proc
          /\ new.state = "failed"
      BY <1>1 DEF Reg
    <3> HIDE DEF new
    <3>3. /\ regs' \in SUBSET Reg
          /\ OrphansAreSent'
          /\ \A q, s \in regs' : q.comp.cid = s.comp.cid => q = s
      BY <2>2, <3>1, <3>2, ReplaceReg
    <3> QED
      BY <3>1, <3>2, <3>3
  <2> QED
    BY <2>1, <2>2
<1>3. TypeOK' /\ AcceptedIsFinite'
  BY <1>1, <1>2 DEF IInv, TypeOK, AcceptedIsFinite, stores
<1>4. KnownWasAccepted'
  BY <1>1, <1>2 DEF IInv, KnownWasAccepted, stores
<1>5. CidsIdentify'
  BY <1>1, <1>2 DEF IInv, CidsIdentify
<1> QED
  BY <1>2, <1>3, <1>4, <1>5 DEF IInv

(* A request that is answered is gone, or waits for the birth. *)
LEMMA CallBackRegs ==
    ASSUME IInv, NEW r \in regs, r.state # "sent",
           \/ CallBack(r, "saved") /\ r.comp \in accepted
           \/ CallBack(r, "deleted")
           \/ regs' = regs \ {r}
    PROVE  /\ regs' \in SUBSET Reg
           /\ OrphansAreSent'
           /\ \A q, s \in regs' : q.comp.cid = s.comp.cid => q = s
           /\ \A q \in regs' : q.state = "sent" => q \in regs /\ q # r
           /\ \A q \in regs' : q.state \in {"accepted", "saved"} => q.comp \in accepted
<1>1. r \in Reg /\ r.proc # NoProc
  BY DEF IInv, TypeOK, OrphansAreSent
<1>2. CASE regs' = regs \ {r}
  BY <1>2, DropReg DEF IInv, KnownWasAccepted
<1>3. ASSUME NEW s \in {"saved", "deleted"}, s = "saved" => r.comp \in accepted,
             regs' = (regs \ {r}) \cup {[r EXCEPT !.state = s]}
      PROVE  /\ regs' \in SUBSET Reg
             /\ OrphansAreSent'
             /\ \A q, t \in regs' : q.comp.cid = t.comp.cid => q = t
             /\ \A q \in regs' : q.state = "sent" => q \in regs /\ q # r
             /\ \A q \in regs' : q.state \in {"accepted", "saved"} => q.comp \in accepted
  <2> DEFINE new == [r EXCEPT !.state = s]
  <2>1. /\ new \in Reg /\ new.comp = r.comp /\ new.proc = r.proc /\ new.state = s
    BY <1>1 DEF Reg
  <2>2. regs' = (regs \ {r}) \cup {new}
    BY <1>3
  <2> HIDE DEF new
  <2>3. /\ regs' \in SUBSET Reg
        /\ OrphansAreSent'
        /\ \A q, t \in regs' : q.comp.cid = t.comp.cid => q = t
        /\ \A q \in regs' : q.state = "sent" => q \in regs /\ q # r
    BY <1>1, <1>3, <2>1, <2>2, ReplaceReg
  <2>4. \A q \in regs' : q.state \in {"accepted", "saved"} => q.comp \in accepted
    BY <1>3, <2>1, <2>2 DEF IInv, KnownWasAccepted
  <2> QED
    BY <2>3, <2>4
<1>4. CASE CallBack(r, "saved") /\ r.comp \in accepted
  <2>1. \/ regs' = regs \ {r}
        \/ regs' = (regs \ {r}) \cup {[r EXCEPT !.state = "saved"]}
    BY <1>4 DEF CallBack
  <2> QED
    BY <1>2, <1>3, <1>4, <2>1
<1>5. CASE CallBack(r, "deleted")
  <2>1. \/ regs' = regs \ {r}
        \/ regs' = (regs \ {r}) \cup {[r EXCEPT !.state = "deleted"]}
    BY <1>5 DEF CallBack
  <2> QED
    BY <1>2, <1>3, <2>1
<1> QED
  BY <1>2, <1>4, <1>5

(* The answer to a birth is passed on. *)
LEMMA BirthAnsweredInv == ASSUME IInv, NEW r \in regs, BirthAnswered(r) PROVE IInv'
<1>1. /\ r.state # "sent" /\ regs' = regs \ {r}
      /\ UNCHANGED <<accepted, disk, phase, job, stores, updates>>
  BY DEF BirthAnswered
<1>2. /\ regs' \in SUBSET Reg
      /\ OrphansAreSent'
      /\ \A q, s \in regs' : q.comp.cid = s.comp.cid => q = s
      /\ \A q \in regs' : q.state = "sent" => q \in regs /\ q # r
      /\ \A q \in regs' : q.state \in {"accepted", "saved"} => q.comp \in accepted
  BY <1>1, CallBackRegs
<1>3. TypeOK' /\ AcceptedIsFinite'
  BY <1>1, <1>2 DEF IInv, TypeOK, AcceptedIsFinite, stores
<1>4. KnownWasAccepted'
  BY <1>1, <1>2 DEF IInv, KnownWasAccepted, stores
<1>5. CidsIdentify'
  BY <1>1, <1>2 DEF IInv, CidsIdentify
<1> QED
  BY <1>2, <1>3, <1>4, <1>5 DEF IInv

(* The callback of a registration, with success or without. *)
LEMMA RegAnsweredInv ==
    ASSUME IInv, NEW r \in regs, Registered(r) \/ NotRegistered(r)
    PROVE  IInv'
<1>1. /\ r \in Reg /\ r.comp \in Component /\ r.proc \in Procs
      /\ r.state \in {"accepted", "failed"}
      /\ UNCHANGED <<accepted, phase, job, cloudStore, updates>>
  BY DEF IInv, TypeOK, Reg, OrphansAreSent, Registered, NotRegistered
<1>2. /\ regs' \in SUBSET Reg
      /\ OrphansAreSent'
      /\ \A q, s \in regs' : q.comp.cid = s.comp.cid => q = s
      /\ \A q \in regs' : q.state = "sent" => q \in regs /\ q # r
      /\ \A q \in regs' : q.state \in {"accepted", "saved"} => q.comp \in accepted
  BY <1>1, CallBackRegs DEF Registered, NotRegistered, IInv, KnownWasAccepted
<1>3. \E data \in Seq(Component) :
         /\ Range(data) \subseteq accepted
         /\ msgStore' = [msgStore EXCEPT ![r.proc] = data]
         /\ disk' \in {disk, data}
  <2>1. CASE Registered(r)
    <3> DEFINE data == Add(msgStore[r.proc], r.comp)
    <3>1. msgStore[r.proc] \in Seq(Component)
      BY <1>1 DEF IInv, TypeOK
    <3>2. data \in Seq(Component) /\ Range(data) = Range(msgStore[r.proc]) \cup {r.comp}
      BY <1>1, <3>1, AddRange
    <3>3. r.comp \in accepted /\ Range(msgStore[r.proc]) \subseteq accepted
      BY <1>1, <2>1 DEF IInv, KnownWasAccepted, Registered
    <3> QED
      BY <2>1, <3>2, <3>3 DEF Registered
  <2>2. CASE NotRegistered(r)
    <3> DEFINE data == Del(msgStore[r.proc], r.comp.cid)
    <3>1. msgStore[r.proc] \in Seq(Component)
      BY <1>1 DEF IInv, TypeOK
    <3>2. data \in Seq(Component) /\ Range(data) \subseteq Range(msgStore[r.proc])
      BY <3>1, DelRange
    <3>3. Range(msgStore[r.proc]) \subseteq accepted
      BY <1>1 DEF IInv, KnownWasAccepted
    <3> QED
      BY <2>2, <3>2, <3>3 DEF NotRegistered
  <2> QED
    BY <2>1, <2>2
<1>4. TypeOK' /\ AcceptedIsFinite'
  BY <1>1, <1>2, <1>3 DEF IInv, TypeOK, AcceptedIsFinite
<1>5. KnownWasAccepted'
  <2>1. Range(disk') \subseteq accepted
    BY <1>3 DEF IInv, KnownWasAccepted
  <2>2. \A p \in Procs : Range(msgStore'[p]) \subseteq accepted
    BY <1>1, <1>3 DEF IInv, TypeOK, KnownWasAccepted
  <2> QED
    BY <1>1, <1>2, <2>1, <2>2 DEF IInv, KnownWasAccepted
<1>6. CidsIdentify'
  BY <1>1, <1>2 DEF IInv, CidsIdentify
<1> QED
  BY <1>2, <1>4, <1>5, <1>6 DEF IInv

-----------------------------------------------------------------------------
(* A step that only moves an update along. *)
LEMMA UpdatesInv ==
    ASSUME IInv, updates' \in SUBSET Update,
           \A u \in updates' : Range(u.list) \subseteq accepted,
           UNCHANGED <<accepted, disk, phase, job, stores, regs>>
    PROVE  IInv'
<1>1. TypeOK' /\ AcceptedIsFinite' /\ OrphansAreSent' /\ CidsIdentify'
  BY DEF IInv, TypeOK, AcceptedIsFinite, OrphansAreSent, CidsIdentify, stores
<1>2. KnownWasAccepted'
  BY DEF IInv, KnownWasAccepted, stores
<1> QED
  BY <1>1, <1>2 DEF IInv

(* The agent is told to update the metadata. *)
LEMMA UpdateMessageInv == ASSUME IInv, NEW p \in Procs, UpdateMessage(p) PROVE IInv'
<1>1. PICK u \in UpdateIds : updates' = updates \cup {Asked(u, p, FALSE)}
  BY DEF UpdateMessage
<1>2. /\ updates' \in SUBSET Update
      /\ \A x \in updates' : Range(x.list) \subseteq accepted
  BY <1>1, AskedIsUpdate DEF IInv, TypeOK, KnownWasAccepted
<1> QED
  BY <1>2, UpdatesInv DEF UpdateMessage

(* The cloud lists what it holds. *)
LEMMA CloudListsInv == ASSUME IInv, NEW u \in updates, CloudLists(u) PROVE IInv'
<1>1. PICK list \in SetToSeqs(accepted) :
          updates' = (updates \ {u}) \cup {[u EXCEPT !.phase = "listed", !.list = list]}
  BY DEF CloudLists
<1>2. list \in Seq(Component) /\ Range(list) \subseteq accepted
  BY EnumerationRange DEF IInv, TypeOK, AcceptedIsFinite
<1> DEFINE new == [u EXCEPT !.phase = "listed", !.list = list]
<1>3. new \in Update /\ new.list = list
  BY <1>2 DEF IInv, TypeOK, Update
<1> HIDE DEF new
<1>4. updates' = (updates \ {u}) \cup {new}
  BY <1>1 DEF new
<1>5. /\ updates' \in SUBSET Update
      /\ \A x \in updates' : Range(x.list) \subseteq accepted
  BY <1>2, <1>3, <1>4 DEF IInv, TypeOK, KnownWasAccepted
<1> QED
  BY <1>5, UpdatesInv DEF CloudLists

(* What is left of an update once its attributes are sent. *)
LEMMA SendAttributesUpdates ==
    ASSUME IInv, NEW u \in updates, SendAttributes(u)
    PROVE  /\ updates' \in SUBSET Update
           /\ \A x \in updates' : Range(x.list) \subseteq accepted
<1> DEFINE new == [u EXCEPT !.phase = "attributes", !.list = <<>>]
<1>1. new \in Update /\ new.list = <<>>
  BY EmptyRange DEF IInv, TypeOK, Update
<1>2. \A x \in updates' : x \in updates \/ x = new
  BY DEF SendAttributes
<1> HIDE DEF new
<1> QED
  BY <1>1, <1>2, EmptyRange DEF IInv, TypeOK, KnownWasAccepted

(* The cloud's list is merged into the file. *)
LEMMA DeviceReceivedInv == ASSUME IInv, NEW u \in updates, DeviceReceived(u) PROVE IInv'
<1> DEFINE data == SyncAll(cloudStore[u.proc], u.list, disk)
<1>1. /\ u.proc \in Procs /\ u.list \in Seq(Component) /\ disk \in Seq(Component)
      /\ cloudStore[u.proc] \in Seq(Component)
  BY DEF IInv, TypeOK, Update
<1>2. /\ data \in Seq(Component)
      /\ Range(data) \subseteq Range(cloudStore[u.proc]) \cup Range(u.list) \cup Range(disk)
  BY <1>1, SyncAllRange
<1>3. Range(data) \subseteq accepted
  BY <1>1, <1>2 DEF IInv, KnownWasAccepted
<1>4. /\ cloudStore' = [cloudStore EXCEPT ![u.proc] = data]
      /\ disk' = data
      /\ UNCHANGED <<accepted, phase, job, msgStore, regs>>
      /\ SendAttributes(u)
  BY DEF DeviceReceived
<1> HIDE DEF data
<1>5. /\ updates' \in SUBSET Update
      /\ \A x \in updates' : Range(x.list) \subseteq accepted
  BY <1>4, SendAttributesUpdates
<1>6. TypeOK' /\ AcceptedIsFinite' /\ OrphansAreSent' /\ CidsIdentify'
  BY <1>1, <1>2, <1>4, <1>5
     DEF IInv, TypeOK, AcceptedIsFinite, OrphansAreSent, CidsIdentify
<1>7. KnownWasAccepted'
  <2>1. \A p \in Procs : Range(cloudStore'[p]) \subseteq accepted
    BY <1>1, <1>3, <1>4 DEF IInv, TypeOK, KnownWasAccepted
  <2> QED
    BY <1>3, <1>4, <1>5, <2>1 DEF IInv, KnownWasAccepted
<1> QED
  BY <1>6, <1>7 DEF IInv

(* Nothing to merge. *)
LEMMA DeviceNotReceivedInv ==
    ASSUME IInv, NEW u \in updates, DeviceNotReceived(u)
    PROVE  IInv'
<1>1. SendAttributes(u) /\ UNCHANGED <<accepted, disk, phase, job, stores, regs>>
  BY DEF DeviceNotReceived
<1> QED
  BY <1>1, SendAttributesUpdates, UpdatesInv

(* The message handler is created, with a store read from the file. *)
LEMMA AttributesAnsweredInv ==
    ASSUME IInv, NEW u \in updates, AttributesAnswered(u)
    PROVE  IInv'
<1>1. u.proc \in Procs
  BY DEF IInv, TypeOK, Update
<1>2. TypeOK' /\ AcceptedIsFinite' /\ OrphansAreSent' /\ CidsIdentify'
  BY <1>1 DEF IInv, TypeOK, AcceptedIsFinite, OrphansAreSent, CidsIdentify,
              AttributesAnswered
<1>3. KnownWasAccepted'
  BY <1>1 DEF IInv, TypeOK, KnownWasAccepted, AttributesAnswered
<1> QED
  BY <1>2, <1>3 DEF IInv

-----------------------------------------------------------------------------
(* A component appears in the cloud without the agent. *)
LEMMA CloudApiAddsInv == ASSUME IInv, NEW k \in Kinds, CloudApiAdds(k) PROVE IInv'
<1>1. PICK c \in Cids :
          /\ CreateId(c)
          /\ accepted' = accepted \cup {[cid |-> c, name |-> k.name, type |-> k.type]}
  BY DEF CloudApiAdds
<1> DEFINE new == [cid |-> c, name |-> k.name, type |-> k.type]
<1>2. new \in Component /\ new.cid = c
  BY DEF Component
<1> HIDE DEF new
<1>3. /\ accepted' = accepted \cup {new}
      /\ UNCHANGED <<disk, phase, job, stores, regs, updates>>
  BY <1>1 DEF CloudApiAdds, new
<1>4. TypeOK' /\ AcceptedIsFinite' /\ OrphansAreSent'
  BY <1>2, <1>3, FS_AddElement
     DEF IInv, TypeOK, AcceptedIsFinite, OrphansAreSent, stores
<1>5. KnownWasAccepted'
  BY <1>3 DEF IInv, KnownWasAccepted, stores
<1>6. CidsIdentify'
  BY <1>1, <1>2, <1>3 DEF IInv, CidsIdentify, CreateId
<1> QED
  BY <1>4, <1>5, <1>6 DEF IInv

(* The list is cleared. *)
LEMMA ResetInv == ASSUME IInv, ResetComponents PROVE IInv'
<1>1. TypeOK' /\ AcceptedIsFinite' /\ OrphansAreSent' /\ CidsIdentify'
  BY EmptyRange DEF IInv, TypeOK, AcceptedIsFinite, OrphansAreSent, CidsIdentify,
                    ResetComponents, stores
<1>2. KnownWasAccepted'
  BY EmptyRange DEF IInv, KnownWasAccepted, ResetComponents, stores
<1> QED
  BY <1>1, <1>2 DEF IInv

-----------------------------------------------------------------------------
(* Every step keeps the invariant. *)
LEMMA NextInv == IInv /\ [Next]_vars => IInv'
<1> SUFFICES ASSUME IInv, [Next]_vars PROVE IInv'
  OBVIOUS
<1>1. CASE StartAgent
  BY <1>1, StartInv DEF StartAgent, Jobs
<1>2. ASSUME NEW p \in Procs, ProcStep(p) PROVE IInv'
  <2>1. CASE AdminRegister(p) \/ AdminUpdate(p)
    BY <2>1, StartInv DEF AdminRegister, AdminUpdate, Jobs
  <2>2. CASE AdminObservation(p)
    BY <2>2, ObservationInv
  <2>3. CASE Stop(p)
    BY <2>3, StopInv
  <2>4. CASE \E k \in Kinds : RegisterKnown(p, k) \/ RegisterNew(p, k)
    BY <2>4, AnsweredInv, RegisterNewInv
  <2>5. CASE \E n \in Names : Submit(p, n) \/ SubmitUnknown(p, n)
    BY <2>5, AnsweredInv
  <2>6. CASE UpdateMessage(p)
    BY <2>6, UpdateMessageInv
  <2> QED
    BY <1>2, <2>1, <2>2, <2>3, <2>4, <2>5, <2>6 DEF ProcStep
<1>3. ASSUME NEW r \in regs, RegStep(r) PROVE IInv'
  BY <1>3, CloudAcceptsInv, CloudRejectsInv, RegAnsweredInv, BirthAnsweredInv DEF RegStep
<1>4. ASSUME NEW u \in updates, UpdateStep(u) PROVE IInv'
  BY <1>4, CloudListsInv, DeviceReceivedInv, DeviceNotReceivedInv,
     AttributesAnsweredInv DEF UpdateStep
<1>5. CASE \E k \in Kinds : CloudApiAdds(k)
  BY <1>5, CloudApiAddsInv
<1>6. CASE ResetComponents
  BY <1>6, ResetInv
<1>7. CASE UNCHANGED vars
  BY <1>7 DEF vars, stores, IInv, TypeOK, AcceptedIsFinite, OrphansAreSent,
              KnownWasAccepted, CidsIdentify
<1> QED
  BY <1>1, <1>2, <1>3, <1>4, <1>5, <1>6, <1>7 DEF Next

(* The invariant holds in every state. *)
THEOREM Invariant == Spec => []IInv
  BY InitInv, NextInv, PTL DEF Spec

(* Every variable of the registry keeps its type. *)
THEOREM TypeCorrect == Spec => []TypeOK
<1>1. IInv => TypeOK
  BY DEF IInv
<1> QED
  BY <1>1, Invariant, PTL

(* Whatever is lost, repeated or overtaken, the device never knows a       *)
(* component the cloud does not hold.                                      *)
THEOREM NothingInvented == Spec => []KnownWasAccepted
<1>1. IInv => KnownWasAccepted
  BY DEF IInv
<1> QED
  BY <1>1, Invariant, PTL

-----------------------------------------------------------------------------
(***************************************************************************)
(* How often ids are listed.  What the invariant adds: until a granted     *)
(* request is recorded its id is on each list once at most, put there by   *)
(* an update round.                                                        *)
(***************************************************************************)
Awaited == {r.comp.cid : r \in {q \in regs : q.state = "accepted"}}

Listed(list) ==
    \A c : AtMostTwice(list, c) /\ (c \in Awaited => AtMostOnce(list, c))

ListsInv == Listed(disk) /\ \A p \in Procs : Listed(msgStore[p]) /\ Listed(cloudStore[p])

LEMMA EmptyListed == Listed(<<>>) /\ Listed(<<>>)'
  BY DEF Listed, AtMostOnce, AtMostTwice, ByCid

(* A list of components of the cloud lists no id that is not taken. *)
LEMMA NewIsNotListed ==
    ASSUME NEW list, Range(list) \subseteq accepted, NEW c, c \notin {a.cid : a \in accepted}
    PROVE  AtMostOnce(list, c)
  BY DEF AtMostOnce, ByCid, Range

(* Lists that are copies of lists, when no request is granted but one of   *)
(* an id that was not taken.                                               *)
LEMMA CopiesListed ==
    ASSUME IInv, ListsInv,
           \A c \in Awaited' : c \in Awaited \/ c \notin {a.cid : a \in accepted},
           disk' \in {disk, <<>>},
           \A p \in Procs : /\ msgStore'[p] \in {msgStore[p], disk, <<>>}
                            /\ cloudStore'[p] \in {cloudStore[p], disk, <<>>}
    PROVE  ListsInv'
<1>1. ASSUME NEW list, list = <<>> \/ (Listed(list) /\ Range(list) \subseteq accepted)
      PROVE  Listed(list)'
  <2>1. CASE list = <<>>
    BY <2>1, EmptyListed DEF Listed
  <2>2. CASE Listed(list) /\ Range(list) \subseteq accepted
    BY <2>2, NewIsNotListed DEF Listed
  <2> QED
    BY <1>1, <2>1, <2>2
<1>2. /\ disk = <<>> \/ (Listed(disk) /\ Range(disk) \subseteq accepted)
      /\ \A p \in Procs : /\ Listed(msgStore[p]) /\ Range(msgStore[p]) \subseteq accepted
                         /\ Listed(cloudStore[p]) /\ Range(cloudStore[p]) \subseteq accepted
  BY DEF IInv, KnownWasAccepted, ListsInv
<1>3. Listed(disk)' /\ \A p \in Procs : Listed(msgStore[p])' /\ Listed(cloudStore[p])'
  BY <1>1, <1>2
<1> QED
  BY <1>3 DEF ListsInv

LEMMA AwaitedBy ==
    ASSUME NEW c PROVE c \in Awaited <=> \E r \in regs : r.state = "accepted" /\ r.comp.cid = c
  BY DEF Awaited

LEMMA AwaitedByNext ==
    ASSUME NEW c PROVE c \in Awaited' <=> \E r \in regs' : r.state = "accepted" /\ r.comp.cid = c
  BY DEF Awaited

LEMMA LookupLists ==
    ASSUME IInv, ListsInv, NEW p \in Procs, NEW hits,
           msgStore' = [msgStore EXCEPT ![p] = Refreshed(msgStore[p], hits, disk)],
           UNCHANGED <<disk, cloudStore>>,
           \A c \in Awaited' : c \in Awaited
    PROVE  ListsInv'
<1>1. \A q \in Procs : msgStore'[q] \in {msgStore[q], disk}
  BY DEF IInv, TypeOK, Refreshed
<1> QED
  BY <1>1, CopiesListed

LEMMA StartLists ==
    ASSUME IInv, ListsInv, NEW p \in Procs, NEW j, NEW boot, StartWithUpdate(p, j, boot)
    PROVE  ListsInv'
<1>1. /\ UNCHANGED <<disk, msgStore, regs>>
      /\ \A q \in Procs : cloudStore'[q] \in {cloudStore[q], disk}
  BY DEF StartWithUpdate, IInv, TypeOK
<1>2. Awaited' = Awaited
  BY <1>1 DEF Awaited
<1> QED
  BY <1>1, <1>2, CopiesListed

(* Lookups and what happens to updates and in the cloud. *)
LEMMA QuietLists ==
    ASSUME IInv, ListsInv, UNCHANGED regs, NEW p \in Procs, NEW u,
           \/ AdminObservation(p)
           \/ \E k : RegisterKnown(p, k)
           \/ \E n : Submit(p, n) \/ SubmitUnknown(p, n)
           \/ UpdateMessage(p)
           \/ CloudLists(u) \/ DeviceNotReceived(u) \/ AttributesAnswered(u)
           \/ (\E k : CloudApiAdds(k)) \/ ResetComponents \/ UNCHANGED vars
    PROVE  ListsInv'
<1>1. Awaited' = Awaited
  BY DEF Awaited
<1>2. CASE (\E k : RegisterKnown(p, k)) \/ \E n : Submit(p, n) \/ SubmitUnknown(p, n)
  <2>1. /\ UNCHANGED <<disk, cloudStore>>
        /\ \E hits : msgStore' = [msgStore EXCEPT ![p] = Refreshed(msgStore[p], hits, disk)]
    BY <1>2 DEF RegisterKnown, Submit, SubmitUnknown, Looked
  <2> QED
    BY <1>1, <2>1, LookupLists
<1>3. CASE \/ AdminObservation(p) \/ UpdateMessage(p)
          \/ CloudLists(u) \/ DeviceNotReceived(u) \/ AttributesAnswered(u)
          \/ (\E k : CloudApiAdds(k)) \/ ResetComponents \/ UNCHANGED vars
  <2>1. disk' \in {disk, <<>>}
    BY <1>3 DEF AdminObservation, UpdateMessage, CloudLists,
       DeviceNotReceived, AttributesAnswered, CloudApiAdds, ResetComponents, vars
  <2>2. \A q \in Procs : /\ msgStore'[q] \in {msgStore[q], disk}
                         /\ cloudStore'[q] \in {cloudStore[q], disk}
    BY <1>3 DEF AdminObservation, UpdateMessage, CloudLists,
       DeviceNotReceived, AttributesAnswered, CloudApiAdds, ResetComponents, vars,
       stores, IInv, TypeOK
  <2> QED
    BY <1>1, <2>1, <2>2, CopiesListed
<1> QED
  BY <1>2, <1>3

LEMMA StopLists == ASSUME IInv, ListsInv, NEW p \in Procs, Stop(p) PROVE ListsInv'
<1>1. ASSUME NEW r \in regs', r.state = "accepted" PROVE r \in regs
  <2>1. ASSUME NEW q \in regs, q.state = "sent", r = [q EXCEPT !.proc = NoProc] PROVE FALSE
    BY <1>1, <2>1 DEF IInv, TypeOK, Reg
  <2> QED
    BY <2>1 DEF Stop
<1>2. \A c \in Awaited' : c \in Awaited
  BY <1>1, AwaitedBy, AwaitedByNext
<1>3. /\ disk' = disk
      /\ \A q \in Procs : /\ msgStore'[q] \in {msgStore[q], <<>>}
                         /\ cloudStore'[q] \in {cloudStore[q], <<>>}
  BY DEF Stop, IInv, TypeOK
<1> QED
  BY <1>2, <1>3, CopiesListed

LEMMA RegisterNewLists ==
    ASSUME IInv, ListsInv, NEW p \in Procs, NEW k \in Kinds, RegisterNew(p, k) PROVE ListsInv'
<1>1. /\ UNCHANGED <<disk, cloudStore>>
      /\ \E hits : msgStore' = [msgStore EXCEPT ![p] = Refreshed(msgStore[p], hits, disk)]
  BY DEF RegisterNew
<1>2. \A c \in Awaited' : c \in Awaited
  BY AwaitedBy, AwaitedByNext DEF RegisterNew
<1> QED
  BY <1>1, <1>2, LookupLists

(* What the cloud and a birth do to requests. *)
LEMMA AnswersLists ==
    ASSUME IInv, ListsInv, NEW r \in regs, CloudAccepts(r) \/ CloudRejects(r) \/ BirthAnswered(r)
    PROVE  ListsInv'
<1>1. UNCHANGED <<disk, msgStore, cloudStore>> /\ r \in Reg
  BY DEF CloudAccepts, CloudRejects, BirthAnswered, stores, IInv, TypeOK
<1>2. ASSUME NEW q \in regs', q.state = "accepted"
      PROVE  q \in regs \/ q.comp.cid \notin {a.cid : a \in accepted}
  <2>1. CASE BirthAnswered(r)
    BY <1>2, <2>1 DEF BirthAnswered
  <2>2. CASE CloudRejects(r)
    <3>1. [r EXCEPT !.state = "failed"].state = "failed"
      BY <1>1 DEF Reg
    <3> QED
      BY <1>2, <2>2, <3>1 DEF CloudRejects
  <2>3. CASE CloudAccepts(r)
    <3>1. r.state = "sent" /\ r.comp.cid \notin {a.cid : a \in accepted}
      BY <2>3 DEF CloudAccepts, IInv, CidsIdentify
    <3>2. \A s : [r EXCEPT !.state = s].comp = r.comp
      BY <1>1 DEF Reg
    <3> QED
      BY <1>2, <2>3, <3>1, <3>2 DEF CloudAccepts
  <2> QED
    BY <2>1, <2>2, <2>3
<1>3. \A c \in Awaited' : c \in Awaited \/ c \notin {a.cid : a \in accepted}
  BY <1>2, AwaitedBy, AwaitedByNext
<1>4. /\ disk' = disk
      /\ \A q \in Procs : msgStore'[q] = msgStore[q] /\ cloudStore'[q] = cloudStore[q]
  BY <1>1
<1> QED
  BY <1>3, <1>4, CopiesListed

(* The callback of a registration takes the request off those granted. *)
LEMMA CallBackAwaited ==
    ASSUME IInv, NEW r \in regs,
           \/ r.state = "accepted" /\ CallBack(r, "saved")
           \/ r.state = "failed" /\ CallBack(r, "deleted")
    PROVE  \A c \in Awaited' : c \in Awaited /\ c # r.comp.cid
<1>1. ASSUME NEW q \in regs', q.state = "accepted" PROVE q \in regs /\ q # r
  <2>1. \A s : [r EXCEPT !.state = s].state = s
    BY DEF IInv, TypeOK, Reg
  <2> QED
    BY <1>1, <2>1 DEF CallBack
<1>2. \A q \in regs : q # r => q.comp.cid # r.comp.cid
  BY DEF IInv, CidsIdentify
<1> QED
  BY <1>1, <1>2, AwaitedBy, AwaitedByNext

LEMMA NotRegisteredLists == ASSUME IInv, ListsInv, NEW r \in regs, NotRegistered(r) PROVE ListsInv'
<1> DEFINE short == Del(msgStore[r.proc], r.comp.cid)
<1>1. r.proc \in Procs /\ msgStore[r.proc] \in Seq(Component)
  BY DEF NotRegistered, IInv, TypeOK, Reg, OrphansAreSent
<1>2. \A c \in Awaited' : c \in Awaited
  BY CallBackAwaited DEF NotRegistered
<1>3. Listed(short)
  BY <1>1, DelCopies DEF ListsInv, Listed
<1>4. /\ msgStore' = [msgStore EXCEPT ![r.proc] = short]
      /\ UNCHANGED <<disk, cloudStore>> /\ msgStore \in [Procs -> Seq(Component)]
  BY DEF NotRegistered, IInv, TypeOK
<1> HIDE DEF short
<1>5. ASSUME NEW list, Listed(list) PROVE Listed(list)'
  BY <1>2, <1>5 DEF Listed
<1>6. \A q \in Procs : Listed(msgStore'[q])
  BY <1>1, <1>3, <1>4 DEF ListsInv
<1> QED
  BY <1>4, <1>5, <1>6 DEF ListsInv

LEMMA RegisteredLists == ASSUME IInv, ListsInv, NEW r \in regs, Registered(r) PROVE ListsInv'
<1> DEFINE long == Add(msgStore[r.proc], r.comp)
<1>1. /\ r.proc \in Procs /\ msgStore[r.proc] \in Seq(Component) /\ r.comp \in Component
      /\ r.state = "accepted" /\ r.comp.cid \in Awaited
  BY AwaitedBy DEF Registered, IInv, TypeOK, Reg, OrphansAreSent
<1>2. \A c \in Awaited' : c \in Awaited /\ c # r.comp.cid
  BY CallBackAwaited DEF Registered
<1>3. \A c : AtMostTwice(long, c) /\ (c \in Awaited' => AtMostOnce(long, c))
  <2> DEFINE old == msgStore[r.proc]
             sen == r.comp
  <2>1. /\ \A c : AtMostTwice(old, c)
        /\ \A c \in Awaited : AtMostOnce(old, c)
    BY <1>1 DEF ListsInv, Listed
  <2>2. long = Add(old, sen) /\ old \in Seq(Component) /\ sen \in Component
    BY <1>1
  <2> HIDE DEF old, sen, long
  <2>4. ASSUME NEW c
        PROVE  /\ c = sen.cid /\ AtMostOnce(old, c) => AtMostTwice(long, c)
               /\ c # sen.cid /\ AtMostOnce(old, c) => AtMostOnce(long, c)
               /\ c # sen.cid /\ AtMostTwice(old, c) => AtMostTwice(long, c)
    BY <2>2, AddOnce
  <2>5. sen.cid \in Awaited /\ \A c \in Awaited' : c \in Awaited /\ c # sen.cid
    BY <1>1, <1>2 DEF sen
  <2>6. ASSUME NEW c
        PROVE  AtMostTwice(long, c) /\ (c \in Awaited' => AtMostOnce(long, c))
    BY <2>1, <2>4, <2>5
  <2> QED
    BY <2>6
<1>4. /\ disk' = long /\ msgStore' = [msgStore EXCEPT ![r.proc] = long]
      /\ UNCHANGED cloudStore /\ msgStore \in [Procs -> Seq(Component)]
  BY DEF Registered, IInv, TypeOK
<1> HIDE DEF long
<1>5. ASSUME NEW list, Listed(list) PROVE Listed(list)'
  BY <1>2, <1>5 DEF Listed
<1>6. Listed(disk)'
  BY <1>3, <1>4 DEF Listed
<1>7. ASSUME NEW q \in Procs PROVE Listed(msgStore[q])' /\ Listed(cloudStore[q])'
  <2>1. Listed(msgStore[q]) /\ Listed(cloudStore[q])
    BY DEF ListsInv
  <2>2. CASE q = r.proc
    <3>1. msgStore'[q] = long
      BY <1>4, <2>2
    <3> QED
      BY <1>3, <1>4, <1>5, <2>1, <3>1 DEF Listed
  <2>3. CASE q # r.proc
    <3>1. msgStore'[q] = msgStore[q]
      BY <1>4, <2>3
    <3> QED
      BY <1>4, <1>5, <2>1, <3>1
  <2> QED
    BY <2>2, <2>3
<1> QED
  BY <1>6, <1>7 DEF ListsInv

(* The merge. *)
LEMMA DeviceReceivedLists ==
    ASSUME IInv, ListsInv, NEW u \in updates, DeviceReceived(u) PROVE ListsInv'
<1> DEFINE data == SyncAll(cloudStore[u.proc], u.list, disk)
<1>1. /\ u.proc \in Procs /\ u.list \in Seq(Component) /\ Range(u.list) \subseteq accepted
      /\ disk \in Seq(Component) /\ Range(disk) \subseteq accepted
      /\ cloudStore[u.proc] \in Seq(Component) /\ Range(cloudStore[u.proc]) \subseteq accepted
      /\ accepted \in SUBSET Component
      /\ \A a, b \in accepted : a.cid = b.cid => a = b
  BY DEF IInv, TypeOK, Update, KnownWasAccepted, CidsIdentify
<1>2. Listed(disk) /\ Listed(cloudStore[u.proc])
  BY <1>1 DEF ListsInv
<1>3. ASSUME NEW c
      PROVE  /\ AtMostOnce(cloudStore[u.proc], c) /\ AtMostOnce(disk, c) => AtMostOnce(data, c)
             /\ AtMostTwice(cloudStore[u.proc], c) /\ AtMostTwice(disk, c)
                  => AtMostTwice(data, c)
  BY <1>1, SyncAllCopies
<1>4. /\ disk' = data /\ cloudStore' = [cloudStore EXCEPT ![u.proc] = data]
      /\ UNCHANGED <<msgStore, regs>> /\ cloudStore \in [Procs -> Seq(Component)]
  BY DEF DeviceReceived, IInv, TypeOK
<1> HIDE DEF data
<1>5. Listed(data)
  <2> SUFFICES ASSUME NEW c
               PROVE  AtMostTwice(data, c) /\ (c \in Awaited => AtMostOnce(data, c))
    BY DEF Listed
  <2>1. /\ AtMostTwice(disk, c) /\ AtMostTwice(cloudStore[u.proc], c)
        /\ c \in Awaited => AtMostOnce(disk, c) /\ AtMostOnce(cloudStore[u.proc], c)
    BY <1>2 DEF Listed
  <2> QED
    BY <1>3, <2>1, Zenon
<1>6. ASSUME NEW list, Listed(list) PROVE Listed(list)'
  BY <1>4, <1>6 DEF Listed, Awaited
<1>7. Listed(disk') /\ \A q \in Procs : Listed(msgStore'[q]) /\ Listed(cloudStore'[q])
  BY <1>1, <1>4, <1>5 DEF ListsInv
<1> QED
  BY <1>6, <1>7 DEF ListsInv

LEMMA NextLists == ASSUME IInv, ListsInv, [Next]_vars PROVE ListsInv'
<1>1. CASE StartAgent
  BY <1>1, StartLists DEF StartAgent
<1>2. ASSUME NEW p \in Procs, ProcStep(p) PROVE ListsInv'
  <2>1. CASE AdminRegister(p) \/ AdminUpdate(p)
    BY <2>1, StartLists DEF AdminRegister, AdminUpdate
  <2>2. CASE AdminObservation(p) \/ UpdateMessage(p)
    BY <2>2, QuietLists DEF AdminObservation, UpdateMessage
  <2>3. CASE Stop(p)
    BY <2>3, StopLists
  <2>4. ASSUME NEW k \in Kinds, RegisterKnown(p, k) PROVE ListsInv'
    BY <2>4, QuietLists DEF RegisterKnown
  <2>5. ASSUME NEW k \in Kinds, RegisterNew(p, k) PROVE ListsInv'
    BY <2>5, RegisterNewLists
  <2>6. ASSUME NEW n \in Names, Submit(p, n) \/ SubmitUnknown(p, n) PROVE ListsInv'
    BY <2>6, QuietLists DEF Submit, SubmitUnknown
  <2> QED
    BY <1>2, <2>1, <2>2, <2>3, <2>4, <2>5, <2>6 DEF ProcStep
<1>3. ASSUME NEW r \in regs, RegStep(r) PROVE ListsInv'
  BY <1>3, AnswersLists, RegisteredLists, NotRegisteredLists DEF RegStep
<1>4. ASSUME NEW u \in updates, UpdateStep(u) PROVE ListsInv'
  <2>1. CASE DeviceReceived(u)
    BY <2>1, DeviceReceivedLists
  <2>2. CASE CloudLists(u) \/ DeviceNotReceived(u) \/ AttributesAnswered(u)
    BY <2>2, QuietLists, RegistryAssumption DEF CloudLists, DeviceNotReceived, AttributesAnswered
  <2> QED
    BY <1>4, <2>1, <2>2 DEF UpdateStep
<1>5. ASSUME NEW k \in Kinds, CloudApiAdds(k) PROVE ListsInv'
  BY <1>5, QuietLists, RegistryAssumption DEF CloudApiAdds
<1>6. CASE ResetComponents
  BY <1>6, QuietLists, RegistryAssumption DEF ResetComponents
<1>7. CASE UNCHANGED vars
  BY <1>7, QuietLists, RegistryAssumption DEF vars
<1> QED
  BY <1>1, <1>2, <1>3, <1>4, <1>5, <1>6, <1>7 DEF Next

(* No id is listed more than twice, by the file or by any cache, however   *)
(* many update rounds, registrations and programs write the list.          *)
THEOREM NoneThrice == Spec => []ListedTwiceAtMost
<1>1. Init => ListsInv
  BY EmptyListed DEF Init, ListsInv
<1>2. IInv /\ ListsInv /\ [Next]_vars => ListsInv'
  BY NextLists
<1>3. ListsInv => ListedTwiceAtMost
  BY DEF ListsInv, Listed, ListedTwiceAtMost
<1> QED
  BY <1>1, <1>2, <1>3, Invariant, PTL DEF Spec

(* In every state, a reading that is submitted goes out under the id of    *)
(* the one cloud component that has that id, and its name is the reading's. *)
THEOREM Routing == Spec => []ReadingIsRouted
<1>1. IInv => ReadingIsRouted
  <2> SUFFICES ASSUME IInv, NEW p \in Procs, NEW n \in Names,
                      ByName(Looked(p, n), n) # {}
               PROVE  \E c \in accepted :
                         /\ c.cid = Alias(p, n)
                         /\ SameText(c.name, n)
                         /\ \A d \in accepted : d.cid = c.cid => d = c
    BY DEF ReadingIsRouted
  <2> DEFINE list == Looked(p, n)
             hits == ByName(list, n)
  <2>1. list \in Seq(Component) /\ Range(list) \subseteq accepted
    BY RefreshedRange DEF IInv, TypeOK, KnownWasAccepted, Looked
  <2>2. Min(hits) \in hits
    <3>1. hits \in SUBSET Nat
      BY <2>1 DEF ByName
    <3> QED
      BY <3>1, MinOfHits
  <2>3. Min(hits) \in DOMAIN list /\ SameText(list[Min(hits)].name, n)
    BY <2>2 DEF ByName
  <2>4. list[Min(hits)] \in accepted
    BY <2>1, <2>3 DEF Range
  <2>5. Alias(p, n) = list[Min(hits)].cid
    BY DEF Alias, Found
  <2> QED
    BY <2>3, <2>4, <2>5 DEF IInv, CidsIdentify
<1> QED
  BY <1>1, Invariant, PTL

(* Merging the cloud's list takes nothing listed from device.json, and     *)
(* from a cache that agrees with the file it brings in what is missing, if *)
(* not all at once: for lists of any length, although a miss in the middle *)
(* of the loop throws away what the loop had added.                        *)
THEOREM MergesConverge == Spec => SyncConverges
<1> DEFINE Converges ==
              \A u \in updates : DeviceReceived(u) =>
                 LET listed == Range(u.list)
                     before == Range(disk) \cap listed
                     after == Range(disk') \cap listed
                 IN  /\ before \subseteq after
                     /\ Range(cloudStore[u.proc]) = Range(disk)
                           => after = listed \/ before # after
<1>1. IInv => Converges
  <2> SUFFICES ASSUME IInv, NEW u \in updates, DeviceReceived(u)
               PROVE  /\ Range(disk) \cap Range(u.list) \subseteq
                            Range(disk') \cap Range(u.list)
                      /\ Range(cloudStore[u.proc]) = Range(disk) =>
                            \/ Range(disk') \cap Range(u.list) = Range(u.list)
                            \/ Range(disk) \cap Range(u.list) #
                                  Range(disk') \cap Range(u.list)
    OBVIOUS
  <2>1. /\ u.proc \in Procs /\ u.list \in Seq(Component) /\ disk \in Seq(Component)
        /\ cloudStore[u.proc] \in Seq(Component)
    BY DEF IInv, TypeOK, Update
  <2>2. \A a, b \in Range(u.list) : a.cid = b.cid => a = b
    BY DEF IInv, KnownWasAccepted, CidsIdentify
  <2>3. disk' = SyncAll(cloudStore[u.proc], u.list, disk)
    BY DEF DeviceReceived
  <2>4. /\ Range(disk) \cap Range(u.list) \subseteq Range(disk')
        /\ Range(cloudStore[u.proc]) = Range(disk) =>
              \/ Range(u.list) \subseteq Range(disk')
              \/ \E c \in Range(u.list) : c \in Range(disk') /\ c \notin Range(disk)
    BY <2>1, <2>2, <2>3, SyncAllKeeps
  <2> QED
    BY <2>4
<1> HIDE DEF Converges
<1>2. IInv /\ [Next]_vars => [Converges]_vars
  BY <1>1
<1>3. Spec => [][Converges]_vars
  BY <1>2, Invariant, PTL DEF Spec
<1> QED
  BY <1>3 DEF SyncConverges, Converges

-----------------------------------------------------------------------------
(***************************************************************************)
(* That Registry implements RegistryContract: each step of the caches, the *)
(* file and the messages is a step of the contract, or none.               *)
(***************************************************************************)

(* What a client has asked for with a request. *)
Asks(r) == [client |-> r.proc, comp |-> r.comp]

ContractStep == [Contract!Next]_(Contract!vars)

-----------------------------------------------------------------------------
(* The state of the contract *)

LEMMA WaitingMembers ==
    ASSUME NEW states, NEW a
    PROVE  a \in Waiting(states) <=>
             \E r \in regs : r.proc # NoProc /\ r.state \in states /\ a = Asks(r)
BY DEF Waiting, Asks

LEMMA AllWaiting ==
    ASSUME TypeOK, NEW a
    PROVE  a \in pending <=> \E r \in regs : r.proc # NoProc /\ a = Asks(r)
BY WaitingMembers DEF pending, TypeOK, Reg

LEMMA RecordedWaiting ==
    ASSUME NEW a
    PROVE  a \in recorded <=> \E r \in regs : r.proc # NoProc /\ r.state = "saved" /\ a = Asks(r)
BY WaitingMembers DEF recorded

LEMMA GrantedWaiting ==
    ASSUME NEW a
    PROVE  a \in granted <=> \E r \in regs : r.proc # NoProc /\ r.state = "accepted" /\ a = Asks(r)
BY WaitingMembers DEF granted

(* No two requests ask for the same. *)
LEMMA AsksIdentify ==
    ASSUME CidsIdentify, NEW r \in regs, NEW q \in regs, Asks(r) = Asks(q) PROVE r = q
BY DEF CidsIdentify, Asks

LEMMA AsksTyped ==
    ASSUME TypeOK, NEW r \in regs, r.proc # NoProc
    PROVE  Asks(r) \in Contract!Ask /\ r.proc \in Procs /\ r.comp \in Component
BY DEF Asks, Contract!Ask, TypeOK, Reg

(* A step that no client notices. *)
LEMMA Unnoticed ==
    ASSUME accepted' = accepted, disk' = disk, clients' = clients, regs' = regs
    PROVE  ContractStep
BY DEF ContractStep, Contract!vars, pending, granted, recorded, Waiting

-----------------------------------------------------------------------------
(* Clients *)

LEMMA JoinStep ==
    ASSUME NEW p \in Procs, clients' = clients \cup {p},
           accepted' = accepted, disk' = disk, regs' = regs
    PROVE  ContractStep
<1>1. pending' = pending /\ granted' = granted /\ recorded' = recorded
  BY DEF pending, granted, recorded, Waiting
<1> QED  BY <1>1 DEF ContractStep, Contract!Next, Contract!Join

LEMMA StartJoins ==
    ASSUME IInv, NEW p \in Procs, NEW j, NEW boot,
           StartWithUpdate(p, j, boot) PROVE ContractStep
<1>1. clients' = clients \cup {p}
  BY DEF StartWithUpdate, clients, IInv, TypeOK
<1> QED  BY <1>1, JoinStep DEF StartWithUpdate

LEMMA ObservationJoins ==
    ASSUME IInv, NEW p \in Procs, AdminObservation(p) PROVE ContractStep
<1>1. clients' = clients \cup {p}
  BY DEF AdminObservation, clients, IInv, TypeOK
<1> QED  BY <1>1, JoinStep DEF AdminObservation

LEMMA BootedJoins ==
    ASSUME IInv, NEW u \in updates, AttributesAnswered(u) PROVE ContractStep
<1>1. u.proc \in Procs
  BY DEF IInv, TypeOK, Update
<1>2. clients' = clients \cup {u.proc}
  BY <1>1 DEF AttributesAnswered, clients, IInv, TypeOK
<1> QED  BY <1>1, <1>2, JoinStep DEF AttributesAnswered

LEMMA StopLeaves == ASSUME IInv, NEW p \in Procs, Stop(p) PROVE ContractStep
<1>1. clients' = clients \ {p}
  BY DEF Stop, clients, IInv, TypeOK
<1>2. NoProc # p
  BY RegistryAssumption
<1>3. \A states : Waiting(states)' = {a \in Waiting(states) : a.client # p}
  <2> SUFFICES ASSUME NEW states
               PROVE  Waiting(states)' = {a \in Waiting(states) : a.client # p}
    OBVIOUS
  <2>1. ASSUME NEW r
        PROVE  r \in regs' /\ r.proc # NoProc <=> r \in regs /\ r.proc # NoProc /\ r.proc # p
    <3>1. ASSUME NEW q \in regs, r = [q EXCEPT !.proc = NoProc] PROVE r.proc = NoProc
      BY <3>1 DEF IInv, TypeOK, Reg
    <3> QED  BY <3>1 DEF Stop
  <2> QED  BY <2>1 DEF Waiting
<1>4. /\ pending' = {a \in pending : a.client # p} /\ granted' = {a \in granted : a.client # p}
      /\ recorded' = {a \in recorded : a.client # p}
  BY <1>3 DEF pending, granted, recorded
<1> QED  BY <1>1, <1>4 DEF ContractStep, Contract!Next, Contract!Leave, Stop

-----------------------------------------------------------------------------
(* Handlers of messages: whoever is there stays. *)
LEMMA HandlerKeepsClients ==
    ASSUME IInv, NEW p \in Procs, phase[p] = "ready", AfterMessage(p) \/ UNCHANGED phase
    PROVE  clients' = clients
BY DEF AfterMessage, clients, IInv, TypeOK

LEMMA MessageUnnoticed ==
    ASSUME IInv, NEW p \in Procs,
           \/ \E k \in Kinds : RegisterKnown(p, k)
           \/ \E n \in Names : Submit(p, n) \/ SubmitUnknown(p, n)
           \/ UpdateMessage(p)
    PROVE  ContractStep
<1>1. phase[p] = "ready" /\ (AfterMessage(p) \/ UNCHANGED phase)
      /\ accepted' = accepted /\ disk' = disk /\ regs' = regs
  BY DEF RegisterKnown, Submit, SubmitUnknown, UpdateMessage
<1> QED  BY <1>1, HandlerKeepsClients, Unnoticed

LEMMA RegisterRequests ==
    ASSUME IInv, NEW p \in Procs, NEW k \in Kinds, RegisterNew(p, k) PROVE ContractStep
<1>1. PICK c \in Cids :
        /\ CreateId(c)
        /\ regs' = regs \cup {[proc |-> p, state |-> "sent",
                               comp |-> [cid |-> c, name |-> k.name, type |-> k.type]]}
  BY DEF RegisterNew
<1> DEFINE comp == [cid |-> c, name |-> k.name, type |-> k.type]
           new == [proc |-> p, state |-> "sent", comp |-> comp]
<1>2. comp \in Component /\ comp.cid = c
  BY RegistryAssumption DEF Component
<1>3. p # NoProc
  BY RegistryAssumption
<1>4. /\ new.proc = p /\ new.comp = comp /\ new.state = "sent"
      /\ Asks(new) = [client |-> p, comp |-> comp]
  BY DEF Asks
<1>5. accepted' = accepted /\ disk' = disk /\ clients' = clients /\ p \in clients
  BY HandlerKeepsClients DEF RegisterNew, clients
<1> HIDE DEF comp, new
<1>6. pending' = pending \cup {Asks(new)}
  BY <1>1, <1>3, <1>4 DEF pending, Waiting, Asks, comp, new
<1>7. granted' = granted /\ recorded' = recorded
  BY <1>1, <1>4 DEF granted, recorded, Waiting, comp, new
<1>8. Asks(new) \in Contract!Ask
  BY <1>2, <1>4 DEF Contract!Ask
<1>9. c \notin {x.cid : x \in accepted} \cup {b.comp.cid : b \in pending}
  BY <1>1 DEF CreateId, pending, Waiting
<1>10. Contract!Request(Asks(new))
  BY <1>2, <1>4, <1>5, <1>6, <1>7, <1>9 DEF Contract!Request, Contract!CidsOf
<1> QED  BY <1>8, <1>10 DEF ContractStep, Contract!Next

-----------------------------------------------------------------------------
(* Requests *)

(* A request of a client that is still there goes from sent to answered. *)
LEMMA Answers ==
    ASSUME IInv, NEW r \in regs, r.proc # NoProc, r.state = "sent",
           NEW s \in {"accepted", "failed"},
           regs' = (regs \ {r}) \cup {[r EXCEPT !.state = s]}
    PROVE  /\ pending' = pending
           /\ granted' = IF s = "accepted" THEN granted \cup {Asks(r)} ELSE granted
           /\ recorded' = recorded
<1> DEFINE q == [r EXCEPT !.state = s]
<1>1. q.proc = r.proc /\ q.comp = r.comp /\ q.state = s /\ Asks(q) = Asks(r)
  BY DEF IInv, TypeOK, Reg, Asks
<1> HIDE DEF q
<1>2. regs' = (regs \ {r}) \cup {q}
  BY DEF q
<1>3. pending' = pending
  BY <1>1, <1>2 DEF pending, Waiting, Asks
<1>4. granted' = IF s = "accepted" THEN granted \cup {Asks(r)} ELSE granted
  BY <1>1, <1>2 DEF granted, Waiting, Asks
<1>5. recorded' = recorded
  BY <1>1, <1>2 DEF recorded, Waiting, Asks
<1> QED  BY <1>3, <1>4, <1>5

(* A request whose client is gone is dropped, and no one asked for it. *)
LEMMA OrphanDropped ==
    ASSUME NEW r \in regs, r.proc = NoProc, regs' = regs \ {r}
    PROVE  pending' = pending /\ granted' = granted /\ recorded' = recorded
BY DEF pending, granted, recorded, Waiting

LEMMA TakeStep ==
    ASSUME NEW c \in Component, c.cid \notin {x.cid : x \in accepted},
           accepted' = accepted \cup {c},
           disk' = disk, clients' = clients, pending' = pending, recorded' = recorded,
           granted' = granted \/ \E a \in pending : a.comp = c /\ granted' = granted \cup {a}
    PROVE  ContractStep
<1>1. Contract!Take(c)
  BY DEF Contract!Take, Contract!CidsOf
<1> QED  BY <1>1 DEF ContractStep, Contract!Next

LEMMA CloudAcceptsTakes == ASSUME IInv, NEW r \in regs, CloudAccepts(r) PROVE ContractStep
<1>1. /\ r.comp \in Component /\ r.comp.cid \notin {x.cid : x \in accepted}
      /\ accepted' = accepted \cup {r.comp} /\ disk' = disk /\ clients' = clients
      /\ r.state = "sent"
  BY DEF CloudAccepts, IInv, TypeOK, Reg, CidsIdentify, clients
<1>2. CASE r.proc = NoProc
  BY <1>1, <1>2, OrphanDropped, TakeStep DEF CloudAccepts
<1>3. CASE r.proc # NoProc
  <2>1. PICK s \in {"accepted", "failed"} : regs' = (regs \ {r}) \cup {[r EXCEPT !.state = s]}
    BY <1>3 DEF CloudAccepts
  <2>2. /\ pending' = pending
        /\ granted' = IF s = "accepted" THEN granted \cup {Asks(r)} ELSE granted
        /\ recorded' = recorded
    BY <1>1, <1>3, <2>1, Answers
  <2>3. Asks(r) \in pending /\ Asks(r).comp = r.comp
    BY <1>3, AllWaiting DEF IInv, Asks
  <2> QED  BY <1>1, <2>2, <2>3, TakeStep
<1> QED  BY <1>2, <1>3

LEMMA CloudRejectsUnnoticed == ASSUME IInv, NEW r \in regs, CloudRejects(r) PROVE ContractStep
<1>1. /\ accepted' = accepted /\ disk' = disk /\ clients' = clients /\ r.state = "sent"
  BY DEF CloudRejects, clients
<1>2. pending' = pending /\ granted' = granted /\ recorded' = recorded
  <2>1. CASE r.proc = NoProc
    BY <2>1, OrphanDropped DEF CloudRejects
  <2>2. CASE r.proc # NoProc
    BY <1>1, <2>2, Answers DEF CloudRejects
  <2> QED  BY <2>1, <2>2
<1> QED  BY <1>1, <1>2 DEF ContractStep, Contract!vars

(* Calling back takes a request, and nothing else, out. *)
LEMMA Reported ==
    ASSUME IInv, NEW r \in regs, r.proc # NoProc, regs' = regs \ {r}
    PROVE  /\ pending' = pending \ {Asks(r)} /\ granted' = granted \ {Asks(r)}
           /\ recorded' = recorded \ {Asks(r)}
<1>1. \A q \in regs : Asks(q) = Asks(r) => q = r
  BY AsksIdentify DEF IInv
<1>2. pending' = pending \ {Asks(r)}
  BY <1>1 DEF pending, Waiting, Asks
<1>3. granted' = granted \ {Asks(r)}
  BY <1>1 DEF granted, Waiting, Asks
<1>4. recorded' = recorded \ {Asks(r)}
  BY <1>1 DEF recorded, Waiting, Asks
<1> QED  BY <1>2, <1>3, <1>4

(* With a birth under way it stays asked for, and what was granted is *)
(* recorded.                                                          *)
LEMMA AwaitsBirth ==
    ASSUME IInv, NEW r \in regs, r.proc # NoProc, r.state \in {"accepted", "failed"},
           NEW s \in {"saved", "deleted"}, regs' = (regs \ {r}) \cup {[r EXCEPT !.state = s]}
    PROVE  /\ pending' = pending /\ granted' = granted \ {Asks(r)}
           /\ recorded' = IF s = "saved" THEN recorded \cup {Asks(r)} ELSE recorded
<1> DEFINE q == [r EXCEPT !.state = s]
<1>1. q.proc = r.proc /\ q.comp = r.comp /\ q.state = s /\ Asks(q) = Asks(r)
  BY DEF IInv, TypeOK, Reg, Asks
<1>2. \A t \in regs : Asks(t) = Asks(r) => t = r
  BY AsksIdentify DEF IInv
<1>3. r.state \in {"sent", "accepted", "failed", "saved", "deleted"}
  OBVIOUS
<1> HIDE DEF q
<1>4. regs' = (regs \ {r}) \cup {q}
  BY DEF q
<1>5. pending' = pending
  BY <1>1, <1>3, <1>4 DEF pending, Waiting, Asks
<1>6. granted' = granted \ {Asks(r)}
  BY <1>1, <1>2, <1>4 DEF granted, Waiting, Asks
<1>7. recorded' = IF s = "saved" THEN recorded \cup {Asks(r)} ELSE recorded
  BY <1>1, <1>4 DEF recorded, Waiting, Asks
<1> QED  BY <1>5, <1>6, <1>7

LEMMA RegisteredRecords ==
    ASSUME IInv, IInv', NEW r \in regs, Registered(r) PROVE ContractStep
<1>1. r.proc # NoProc /\ r.state = "accepted"
  BY DEF Registered, IInv, OrphansAreSent
<1>2. /\ Asks(r) \in granted /\ Asks(r) \in Contract!Ask /\ Asks(r).comp = r.comp
      /\ r.proc \in Procs /\ r.comp \in Component
  BY <1>1, GrantedWaiting, AsksTyped DEF IInv, Asks
<1>3. Range(disk)' \in SUBSET accepted
  BY DEF IInv, KnownWasAccepted, Registered
<1>4. r.comp \in Range(disk)'
  <2>1. msgStore[r.proc] \in Seq(Component)
    BY <1>2 DEF IInv, TypeOK
  <2> QED  BY <1>2, <2>1, AddRange DEF Registered
<1>5. clients' = clients /\ accepted' = accepted
  BY DEF Registered, clients
<1>6. CASE regs' = regs \ {r}
  <2>1. recorded' = recorded
    <3>1. Asks(r) \notin recorded
      <4>1. \A q \in regs : Asks(q) = Asks(r) => q = r
        BY AsksIdentify DEF IInv
      <4> QED  BY <1>1, <4>1, RecordedWaiting
    <3> QED  BY <1>1, <1>6, <3>1, Reported
  <2>2. pending' = pending \ {Asks(r)} /\ granted' = granted \ {Asks(r)}
    BY <1>1, <1>6, Reported
  <2>3. Contract!RecordAndSucceed(Asks(r))
    BY <1>2, <1>3, <1>4, <1>5, <2>1, <2>2 DEF Contract!RecordAndSucceed
  <2> QED  BY <1>2, <2>3 DEF ContractStep, Contract!Next
<1>7. CASE regs' = (regs \ {r}) \cup {[r EXCEPT !.state = "saved"]}
  <2>1. /\ pending' = pending /\ granted' = granted \ {Asks(r)}
        /\ recorded' = recorded \cup {Asks(r)}
    BY <1>1, <1>7, AwaitsBirth
  <2>2. Contract!Record(Asks(r))
    BY <1>2, <1>3, <1>4, <1>5, <2>1 DEF Contract!Record
  <2> QED  BY <1>2, <2>2 DEF ContractStep, Contract!Next
<1> QED  BY <1>6, <1>7 DEF Registered, CallBack

(* Failure can be reported of what was asked for and neither granted nor *)
(* recorded.                                                             *)
LEMMA FailStep ==
    ASSUME IInv, NEW r \in regs, r.proc # NoProc, r.state \in {"failed", "deleted"},
           regs' = regs \ {r}, clients' = clients, accepted' = accepted, disk' = disk
    PROVE  ContractStep
<1>1. Asks(r) \in pending /\ Asks(r) \in Contract!Ask
  BY AllWaiting, AsksTyped DEF IInv
<1>2. Asks(r) \notin granted /\ Asks(r) \notin recorded
  <2>1. \A q \in regs : Asks(q) = Asks(r) => q = r
    BY AsksIdentify DEF IInv
  <2> QED  BY <2>1, GrantedWaiting, RecordedWaiting
<1>3. pending' = pending \ {Asks(r)} /\ granted' = granted /\ recorded' = recorded
  BY <1>2, Reported
<1>4. Contract!Fail(Asks(r))
  BY <1>1, <1>2, <1>3 DEF Contract!Fail
<1> QED  BY <1>1, <1>4 DEF ContractStep, Contract!Next

LEMMA NotRegisteredFails == ASSUME IInv, NEW r \in regs, NotRegistered(r) PROVE ContractStep
<1>1. r.proc # NoProc /\ r.state = "failed"
  BY DEF NotRegistered, IInv, OrphansAreSent
<1>2. clients' = clients /\ accepted' = accepted /\ disk' = disk
  BY DEF NotRegistered, clients
<1>3. CASE regs' = regs \ {r}
  BY <1>1, <1>2, <1>3, FailStep
<1>4. CASE regs' = (regs \ {r}) \cup {[r EXCEPT !.state = "deleted"]}
  <2>1. Asks(r) \notin granted
    <3>1. \A q \in regs : Asks(q) = Asks(r) => q = r
      BY AsksIdentify DEF IInv
    <3> QED  BY <1>1, <3>1, GrantedWaiting
  <2>2. pending' = pending /\ granted' = granted /\ recorded' = recorded
    BY <1>1, <1>4, <2>1, AwaitsBirth
  <2> QED  BY <1>2, <2>2 DEF ContractStep, Contract!vars
<1> QED  BY <1>3, <1>4 DEF NotRegistered, CallBack

LEMMA BirthAnsweredReports == ASSUME IInv, NEW r \in regs, BirthAnswered(r) PROVE ContractStep
<1>1. /\ r.proc # NoProc /\ r.state \in {"saved", "deleted"} /\ regs' = regs \ {r}
      /\ clients' = clients /\ accepted' = accepted /\ disk' = disk
  BY DEF BirthAnswered, IInv, OrphansAreSent, clients
<1>2. CASE r.state = "deleted"
  BY <1>1, <1>2, FailStep
<1>3. CASE r.state = "saved"
  <2>1. Asks(r) \in recorded /\ Asks(r) \in Contract!Ask
    BY <1>1, <1>3, RecordedWaiting, AsksTyped DEF IInv
  <2>2. Asks(r) \notin granted
    <3>1. \A q \in regs : Asks(q) = Asks(r) => q = r
      BY AsksIdentify DEF IInv
    <3> QED  BY <1>3, <3>1, GrantedWaiting
  <2>3. pending' = pending \ {Asks(r)} /\ granted' = granted /\ recorded' = recorded \ {Asks(r)}
    BY <1>1, <2>2, Reported
  <2>4. Contract!Succeed(Asks(r))
    BY <1>1, <2>1, <2>3 DEF Contract!Succeed
  <2> QED  BY <2>1, <2>4 DEF ContractStep, Contract!Next
<1> QED  BY <1>1, <1>2, <1>3

-----------------------------------------------------------------------------
(* The list, and the cloud's other users *)

LEMMA RewriteStep ==
    ASSUME IInv', accepted' = accepted, clients' = clients, regs' = regs PROVE ContractStep
<1>1. pending' = pending /\ granted' = granted /\ recorded' = recorded
  BY DEF pending, granted, recorded, Waiting
<1>2. Range(disk)' \in SUBSET accepted
  BY DEF IInv, KnownWasAccepted
<1> QED  BY <1>1, <1>2 DEF ContractStep, Contract!Next, Contract!Rewrite

LEMMA UpdateStepKept ==
    ASSUME IInv, IInv', NEW u \in updates, UpdateStep(u) PROVE ContractStep
<1>1. CASE CloudLists(u) \/ DeviceReceived(u) \/ DeviceNotReceived(u)
  <2>1. accepted' = accepted /\ clients' = clients /\ regs' = regs
    BY <1>1 DEF CloudLists, DeviceReceived, DeviceNotReceived, clients
  <2> QED  BY <2>1, RewriteStep
<1>2. CASE AttributesAnswered(u)
  BY <1>2, BootedJoins
<1> QED  BY <1>1, <1>2 DEF UpdateStep

LEMMA CloudApiAddsTakes == ASSUME IInv, NEW k \in Kinds, CloudApiAdds(k) PROVE ContractStep
<1>1. PICK c \in Cids :
         /\ CreateId(c)
         /\ accepted' = accepted \cup {[cid |-> c, name |-> k.name, type |-> k.type]}
  BY DEF CloudApiAdds
<1> DEFINE comp == [cid |-> c, name |-> k.name, type |-> k.type]
<1>2. comp \in Component /\ comp.cid = c
  BY RegistryAssumption DEF Component
<1>3. comp.cid \notin {x.cid : x \in accepted} /\ accepted' = accepted \cup {comp}
  BY <1>1, <1>2 DEF CreateId
<1>4. /\ disk' = disk /\ clients' = clients /\ pending' = pending /\ granted' = granted
      /\ recorded' = recorded
  BY DEF CloudApiAdds, clients, pending, granted, recorded, Waiting
<1> HIDE DEF comp
<1> QED  BY <1>2, <1>3, <1>4, TakeStep

-----------------------------------------------------------------------------
LEMMA InitKept == Init => Contract!Init
<1> SUFFICES ASSUME Init PROVE Contract!Init
  OBVIOUS
<1>1. accepted = {} /\ Range(disk) = {}
  BY EmptyRange DEF Init
<1>2. clients = {} /\ pending = {} /\ granted = {} /\ recorded = {}
  BY DEF Init, clients, pending, granted, recorded, Waiting
<1> QED  BY <1>1, <1>2 DEF Contract!Init

LEMMA NextKept == ASSUME IInv, IInv', [Next]_vars PROVE ContractStep
<1>1. CASE StartAgent
  BY <1>1, StartJoins, RegistryAssumption DEF StartAgent
<1>2. ASSUME NEW p \in Procs, ProcStep(p) PROVE ContractStep
  <2>1. CASE AdminRegister(p) \/ AdminUpdate(p)
    BY <2>1, StartJoins DEF AdminRegister, AdminUpdate
  <2>2. CASE AdminObservation(p) \/ Stop(p)
    BY <2>2, ObservationJoins, StopLeaves
  <2>3. ASSUME NEW k \in Kinds, RegisterKnown(p, k) \/ RegisterNew(p, k) PROVE ContractStep
    BY <2>3, MessageUnnoticed, RegisterRequests
  <2>4. CASE (\E n \in Names : Submit(p, n) \/ SubmitUnknown(p, n)) \/ UpdateMessage(p)
    BY <2>4, MessageUnnoticed
  <2> QED  BY <1>2, <2>1, <2>2, <2>3, <2>4 DEF ProcStep
<1>3. ASSUME NEW r \in regs, RegStep(r) PROVE ContractStep
  BY <1>3, CloudAcceptsTakes, CloudRejectsUnnoticed, RegisteredRecords, NotRegisteredFails,
     BirthAnsweredReports DEF RegStep
<1>4. ASSUME NEW u \in updates, UpdateStep(u) PROVE ContractStep
  BY <1>4, UpdateStepKept
<1>5. ASSUME NEW k \in Kinds, CloudApiAdds(k) PROVE ContractStep
  BY <1>5, CloudApiAddsTakes
<1>6. CASE ResetComponents
  BY <1>6, RewriteStep DEF ResetComponents, clients
<1>7. CASE UNCHANGED vars
  BY <1>7, Unnoticed DEF vars, clients
<1> QED  BY <1>1, <1>2, <1>3, <1>4, <1>5, <1>6, <1>7 DEF Next

(* Registration keeps its contract: success is reported only of a          *)
(* component the cloud holds and that was on the list at a moment between  *)
(* the cloud's consent and the report, a granted request is not reported   *)
(* as failed, and the file never has what the cloud does not hold, through *)
(* any restarts, lost answers, late births and other programs.             *)
THEOREM ContractKept == Spec => KeepsContract
<1>1. IInv /\ IInv' /\ [Next]_vars => [Contract!Next]_(Contract!vars)
  BY NextKept DEF ContractStep
<1> QED  BY <1>1, InitKept, Invariant, PTL DEF Spec, KeepsContract, Contract!Spec
=============================================================================
