---------------------------- MODULE Messages_proofs ----------------------------
(***************************************************************************)
(* The cloud's record and the agent's messages are type correct, an update *)
(* keeps the attributes it does not name, and each message is taken for    *)
(* what TakenFor says: for any messages, names, attributes and number of   *)
(* updates in flight.  What the loop over a list of readings returns is    *)
(* proved for lists of any length; the handler gives it one reading.       *)
(***************************************************************************)
EXTENDS Messages, SequenceTheorems, WellFoundedInduction, TLAPS

-----------------------------------------------------------------------------
(* Induction.  A set takes the place of the predicate. *)

LEMMA LeastOf ==
    ASSUME NEW S \in SUBSET Nat, S # {}
    PROVE  \E x \in S : \A y \in S : x <= y
<1>1. \E x \in S : \A y \in S : ~ (<<y, x>> \in OpToRel(<, Nat))
  BY NatLessThanWellFounded, WFMin
<1>2. ASSUME NEW x \in Nat, NEW y \in Nat, ~ (<<y, x>> \in OpToRel(<, Nat))
      PROVE  x <= y
  <2>1. <<y, x>> \in Nat \X Nat /\ <<y, x>>[1] = y /\ <<y, x>>[2] = x
    OBVIOUS
  <2>2. ~ (y < x)
    BY <1>2, <2>1 DEF OpToRel
  <2> QED
    BY <2>2
<1> QED
  BY <1>1, <1>2

LEMMA UpTo ==
    ASSUME NEW n \in Nat, NEW S, 0 \in S, \A k \in 1 .. n : k - 1 \in S => k \in S
    PROVE  0 .. n \subseteq S
<1> DEFINE Bad == (0 .. n) \ S
<1>1. SUFFICES ASSUME Bad # {} PROVE FALSE
  OBVIOUS
<1>2. PICK k \in Bad : \A j \in Bad : k <= j
  <2>1. Bad \in SUBSET Nat
    OBVIOUS
  <2> QED
    BY <2>1, <1>1, LeastOf
<1>3. k \in 1 .. n /\ k - 1 \in 0 .. n /\ ~ (k <= k - 1)
  BY <1>2
<1>4. k - 1 \in S
  BY <1>2, <1>3
<1> QED
  BY <1>2, <1>3, <1>4

(* The lists that are reached from the empty one by putting an element in  *)
(* front are all lists.                                                    *)
LEMMA AllLists ==
    ASSUME NEW S, NEW T, <<>> \in T,
           \A x \in S, s \in Seq(S) : s \in T => <<x>> \o s \in T
    PROVE  Seq(S) \subseteq T
<1> SUFFICES ASSUME NEW b \in Seq(S) PROVE b \in T
  OBVIOUS
<1> DEFINE n == Len(b)
           rest(k) == SubSeq(b, n + 1 - k, n)
           Good == {k \in 0 .. n : rest(k) \in T}
<1>1. n \in Nat /\ n = Len(b)
  OBVIOUS
<1> HIDE DEF n
<1>2. ASSUME NEW k \in 0 .. n PROVE k \in Good <=> rest(k) \in T
  OBVIOUS
<1>3. 0 \in 0 .. n /\ rest(0) = <<>>
  <2>1. n + 1 - 0 \in Int /\ n < n + 1 - 0 /\ 0 \in 0 .. n /\ n \in Int
    BY <1>1
  <2> QED
    BY <2>1, SubSeqEmpty
<1>4. ASSUME NEW k \in 1 .. n, rest(k - 1) \in T PROVE rest(k) \in T
  <2>1. /\ n + 1 - k \in 1 .. n /\ n \in (n + 1 - k) .. n
        /\ n + 1 - (k - 1) = (n + 1 - k) + 1 /\ n + 1 - (k - 1) \in Int
        /\ \A i \in n + 1 - (k - 1) .. n : i \in 1 .. n
    BY <1>1
  <2>2. \A i \in 1 .. n : b[i] \in S
    BY <1>1, ElementOfSeq
  <2>3. rest(k) = <<b[n + 1 - k]>> \o rest(k - 1)
    <3>1. n + 1 - k \in 1 .. Len(b) /\ n \in (n + 1 - k) .. Len(b)
      BY <1>1, <2>1
    <3> QED
      BY <3>1, <2>1, SubSeqRecursiveFirst
  <2>4. rest(k - 1) \in Seq(S)
    BY <1>1, <2>1, <2>2, SubSeqProperties
  <2> HIDE DEF rest
  <2> QED
    BY <1>4, <2>1, <2>2, <2>3, <2>4
<1> HIDE DEF rest
<1>5. 0 \in Good
  BY <1>2, <1>3
<1>6. ASSUME NEW k \in 1 .. n, k - 1 \in Good PROVE k \in Good
  <2>1. k \in 0 .. n /\ k - 1 \in 0 .. n
    BY <1>1
  <2> QED
    BY <2>1, <1>2, <1>4, <1>6
<1>7. n \in 0 .. n /\ n \in Good
  <2> HIDE DEF Good
  <2>1. 0 .. n \subseteq Good
    BY <1>1, <1>5, <1>6, UpTo
  <2> QED
    BY <2>1, <1>1
<1>8. rest(n) = b
  <2>1. n + 1 - n = 1
    BY <1>1
  <2> QED
    BY <2>1, <1>1, SubSeqFull DEF rest
<1> HIDE DEF Good
<1> QED
  BY <1>2, <1>7, <1>8

(* A function over 0 .. n is given by its first value and its steps.       *)
Run(f, n, A, x0, step) ==
    /\ f \in [0 .. n -> A]
    /\ f[0] = x0
    /\ \A k \in 1 .. n : f[k] = step[k][f[k - 1]]

LEMMA Turns ==
    ASSUME NEW n \in Nat, NEW A, NEW x0 \in A, NEW step \in [1 .. n -> [A -> A]]
    PROVE  \E f : Run(f, n, A, x0, step)
<1> DEFINE Good == {k \in 0 .. n : \E f : Run(f, k, A, x0, step)}
<1>1. 0 \in Good
  <2>1. Run([i \in 0 .. 0 |-> x0], 0, A, x0, step)
    BY DEF Run
  <2>2. 0 \in 0 .. n
    OBVIOUS
  <2> QED
    BY <2>1, <2>2
<1>2. ASSUME NEW k \in 1 .. n, k - 1 \in Good PROVE k \in Good
  <2>1. PICK f : Run(f, k - 1, A, x0, step)
    BY <1>2
  <2>2. /\ k \in 0 .. n /\ k - 1 \in 0 .. k - 1 /\ k \in 0 .. k /\ 0 \in 0 .. k - 1
        /\ k \in Int /\ ~ (k < k)
        /\ \A i \in 1 .. k : /\ i \in 0 .. k /\ i - 1 \in 0 .. k /\ i - 1 < k
                             /\ i < k => i \in 1 .. k - 1
                             /\ ~ (i < k) => i = k
        /\ \A i \in 0 .. k : i < k => i \in 0 .. k - 1
        /\ \A i \in 0 .. k - 1 : i \in 0 .. k /\ i < k
    OBVIOUS
  <2>3. f \in [0 .. k - 1 -> A] /\ f[0] = x0
    BY <2>1 DEF Run
  <2>4. \A i \in 1 .. k - 1 : f[i] = step[i][f[i - 1]]
    BY <2>1 DEF Run
  <2> DEFINE g == [i \in 0 .. k |-> IF i < k THEN f[i] ELSE step[k][f[k - 1]]]
  <2>5. step[k][f[k - 1]] \in A
    <3>1. f[k - 1] \in A
      BY <2>2, <2>3
    <3>2. step[k] \in [A -> A]
      OBVIOUS
    <3> QED
      BY <3>1, <3>2
  <2>6. /\ \A i \in 0 .. k - 1 : g[i] = f[i]
        /\ g[k] = step[k][f[k - 1]]
    BY <2>2
  <2>7. g \in [0 .. k -> A]
    BY <2>2, <2>3, <2>5
  <2> HIDE DEF g
  <2>8. g[0] = x0
    BY <2>2, <2>3, <2>6
  <2>9. ASSUME NEW i \in 1 .. k PROVE g[i] = step[i][g[i - 1]]
    <3>1. CASE i < k
      <4>1. i \in 0 .. k - 1 /\ i - 1 \in 0 .. k - 1 /\ i \in 1 .. k - 1
        BY <3>1
      <4> QED
        BY <4>1, <2>4, <2>6
    <3>2. CASE i = k
      BY <3>2, <2>2, <2>6
    <3> QED
      BY <3>1, <3>2, <2>2
  <2>10. Run(g, k, A, x0, step)
    BY <2>7, <2>8, <2>9 DEF Run
  <2> QED
    BY <2>2, <2>10
<1>3. n \in Good
  <2> HIDE DEF Good
  <2>1. 0 .. n \subseteq Good
    BY <1>1, <1>2, UpTo
  <2> QED
    BY <2>1
<1> QED
  BY <1>3

-----------------------------------------------------------------------------
(* The record and its updates are type correct, and a record that was      *)
(* written has what the agent reports.                                     *)

LEMMA NothingIsRecord == Nothing \in Record
BY DEF Nothing, Record, Attributes

LEMMA PositionsAreNumbers ==
    ASSUME NEW tags
    PROVE  Positions(tags) \subseteq Nat
BY DEF Positions

(* What is sent is a record again, with a value of each reported attribute. *)
LEMMA MergedIsRecord ==
    ASSUME NEW doc \in Record, NEW read \in Record
    PROVE  /\ Merged(doc, read) \in Record
           /\ \A a \in Reported : Merged(doc, read).attributes[a] # None
<1> DEFINE new == Merged(doc, read)
           given == Metadata(doc.name)
<1>1. given.name = doc.name /\ given.attributes = AgentAttr
  BY DEF Metadata, Nothing
<1>2. AgentAttr \in Attributes /\ \A a \in Reported : a \in Attrs /\ AgentAttr[a] # None
  BY DeviceRecordAssumption DEF AgentAttr, Attributes
<1>3. /\ doc.attributes \in Attributes /\ read.attributes \in Attributes
      /\ doc.name \in Titles \cup {None} /\ doc.loc \in Places \cup {None}
      /\ doc.tags \in SUBSET (Words \cup Nat)
  BY DEF Record
<1> HIDE DEF given
<1>4. /\ new.name = doc.name /\ new.loc = doc.loc
      /\ new.tags = IF doc.tags = {} THEN {} ELSE doc.tags \cup Positions(read.tags)
      /\ new.attributes = [a \in Attrs |->
            IF doc.attributes[a] # None THEN doc.attributes[a]
            ELSE IF AgentAttr[a] # None THEN AgentAttr[a]
            ELSE read.attributes[a]]
      /\ new = [name |-> new.name, attributes |-> new.attributes,
                tags |-> new.tags, loc |-> new.loc]
  BY <1>1 DEF Merged, given
<1> HIDE DEF new
<1>5. new.tags \in SUBSET (Words \cup Nat)
  BY <1>3, <1>4, PositionsAreNumbers
<1>6. new.attributes \in Attributes
  BY <1>2, <1>3, <1>4 DEF Attributes
<1>7. new \in Record
  BY <1>3, <1>4, <1>5, <1>6 DEF Record
<1>8. \A a \in Reported : new.attributes[a] # None
  BY <1>2, <1>4
<1> QED
  BY <1>7, <1>8 DEF new

LEMMA ReplacedIsRecord ==
    ASSUME NEW old \in Record, NEW new \in Record
    PROVE  Replaced(old, new) \in Record /\ Replaced(old, new).attributes = new.attributes
BY DEF Replaced, Record

LEMMA InitRecordTypes == RecordInit => RecordTypeOK
BY NothingIsRecord DEF RecordInit, RecordTypeOK, Free, Upd

LEMMA AskTypes ==
    ASSUME RecordTypeOK, NEW u \in Updates, NEW doc \in Docs, Ask(u, doc)
    PROVE  RecordTypeOK'
<1> DEFINE new == [Free EXCEPT !.phase = "asked", !.doc = doc]
<1>1. new \in Upd
  BY NothingIsRecord DEF Free, Upd
<1>2. upd' = [upd EXCEPT ![u] = new] /\ device' = device
  BY DEF Ask
<1> HIDE DEF new
<1> QED
  BY <1>1, <1>2 DEF RecordTypeOK

LEMMA ReadTypes ==
    ASSUME RecordTypeOK, NEW u \in Updates, CloudReads(u) \/ ReadFails(u) \/ Send(u)
    PROVE  RecordTypeOK'
<1>1. upd[u] \in Upd /\ device \in Record /\ device' = device
  BY DEF RecordTypeOK, CloudReads, ReadFails, Send
<1>2. \E new \in Upd : upd' = [upd EXCEPT ![u] = new]
  <2>1. CASE CloudReads(u)
    <3>1. [upd[u] EXCEPT !.phase = "answered", !.read = device] \in Upd
      BY <1>1 DEF Upd
    <3>2. upd' = [upd EXCEPT ![u] = [upd[u] EXCEPT !.phase = "answered", !.read = device]]
      BY <2>1 DEF CloudReads, RecordTypeOK
    <3> QED
      BY <3>1, <3>2
  <2>2. CASE ReadFails(u) \/ Send(u)
    <3>1. [upd[u] EXCEPT !.phase = "sent"] \in Upd
      BY <1>1 DEF Upd
    <3>2. upd' = [upd EXCEPT ![u] = [upd[u] EXCEPT !.phase = "sent"]]
      BY <2>2 DEF ReadFails, Send, RecordTypeOK
    <3> QED
      BY <3>1, <3>2
  <2> QED
    BY <2>1, <2>2
<1> QED
  BY <1>1, <1>2 DEF RecordTypeOK

LEMMA WriteTypes ==
    ASSUME RecordTypeOK, NEW u \in Updates, CloudWrites(u)
    PROVE  RecordTypeOK'
<1> DEFINE new == Merged(upd[u].doc, upd[u].read)
<1>1. upd[u].doc \in Record /\ upd[u].read \in Record /\ device \in Record
  BY DocsAssumption, NothingIsRecord DEF RecordTypeOK, Upd
<1>2. new \in Record /\ \A a \in Reported : new.attributes[a] # None
  BY <1>1, MergedIsRecord
<1>3. device' = Replaced(device, new) /\ upd' = [upd EXCEPT ![u] = Free]
  BY DEF CloudWrites
<1> HIDE DEF new
<1>4. device' \in Record /\ \A a \in Reported : device'.attributes[a] # None
  BY <1>1, <1>2, <1>3, ReplacedIsRecord
<1>5. upd' \in [Updates -> Upd]
  <2>1. Free \in Upd
    BY NothingIsRecord DEF Free, Upd
  <2> QED
    BY <1>3, <2>1 DEF RecordTypeOK
<1> QED
  BY <1>4, <1>5 DEF RecordTypeOK

LEMMA AbandonTypes ==
    ASSUME RecordTypeOK, NEW us \in SUBSET Updates, Abandon(us)
    PROVE  RecordTypeOK'
<1>1. Free \in Upd
  BY NothingIsRecord DEF Free, Upd
<1> QED
  BY <1>1 DEF Abandon, RecordTypeOK

RecordStep == [RecordNext]_recordVars

LEMMA RecordStepTypes ==
    ASSUME RecordTypeOK, RecordStep
    PROVE  RecordTypeOK'
<1>1. CASE UNCHANGED recordVars
  BY <1>1 DEF recordVars, RecordTypeOK
<1>2. ASSUME NEW u \in Updates, UpdateStep(u) PROVE RecordTypeOK'
  BY <1>2, ReadTypes, WriteTypes DEF UpdateStep
<1> QED
  BY <1>1, <1>2, AskTypes, AbandonTypes DEF RecordStep, RecordNext

(* The record is type correct, and one that was written has a value of     *)
(* each reported attribute: for any number of updates in flight.           *)
THEOREM RecordTypes == RecordSpec => []RecordTypeOK
<1>1. RecordTypeOK /\ [RecordNext]_recordVars => RecordTypeOK'
  BY RecordStepTypes DEF RecordStep
<1> QED
  BY InitRecordTypes, <1>1, PTL DEF RecordSpec

-----------------------------------------------------------------------------
(* One update.  What is written is the merge with what was read, in which  *)
(* an attribute that is neither named nor reported is as it was read.      *)

LEMMA UnnamedIsRead ==
    ASSUME NEW doc, NEW read, NEW a \in Attrs, doc.attributes[a] = None, a \notin Reported
    PROVE  Merged(doc, read).attributes[a] = read.attributes[a]
<1>1. Metadata(doc.name).attributes = AgentAttr /\ AgentAttr[a] = None
  BY DEF Metadata, Nothing, AgentAttr
<1> QED
  BY <1>1 DEF Merged

LEMMA WriteKeeps ==
    ASSUME NEW u \in Updates, NEW a \in Attrs, CloudWrites(u),
           upd[u].read.attributes = device.attributes,
           upd[u].doc.attributes[a] = None, a \notin Reported
    PROVE  device'.attributes[a] = device.attributes[a]
<1>1. device'.attributes = Merged(upd[u].doc, upd[u].read).attributes
  BY DEF CloudWrites, Replaced
<1> QED
  BY <1>1, UnnamedIsRead

(* The attributes that an update neither names nor reports survive it.     *)
THEOREM AttributesStay == RecordSpec => AttributesKept
<1>1. [RecordNext]_recordVars =>
        [\A u \in Updates, a \in Attrs :
            /\ CloudWrites(u)
            /\ upd[u].read.attributes = device.attributes
            /\ upd[u].doc.attributes[a] = None /\ a \notin Reported
            => device'.attributes[a] = device.attributes[a]]_recordVars
  BY WriteKeeps
<1> QED
  BY <1>1, PTL DEF RecordSpec, AttributesKept

-----------------------------------------------------------------------------
(* What RepeatedUpdateLands needs besides fairness: an update that is      *)
(* written lands, and if every update in flight says the same it stays.    *)

Landed(doc) ==
    /\ \A a \in Attrs : doc.attributes[a] # None => device.attributes[a] = doc.attributes[a]
    /\ doc.name # None => device.name = doc.name

OnlyThis(doc) == \A u \in Updates : upd[u].phase # "free" => upd[u].doc = doc

NoOther(doc) == \A u \in Updates, e \in Docs \ {doc} : ~Ask(u, e)

LEMMA WriteLands ==
    ASSUME RecordTypeOK, NEW u \in Updates, CloudWrites(u), NEW doc, upd[u].doc = doc
    PROVE  Landed(doc)'
<1> DEFINE new == Merged(doc, upd[u].read)
<1>1. new.name = doc.name
  BY DEF Merged, Metadata, Nothing
<1>2. \A a \in Attrs : doc.attributes[a] # None => new.attributes[a] = doc.attributes[a]
  BY DEF Merged
<1>3. device' = Replaced(device, new)
  BY DEF CloudWrites
<1> HIDE DEF new
<1>4. device'.attributes = new.attributes
      /\ device'.name = IF new.name = None THEN device.name ELSE new.name
  BY <1>3 DEF Replaced
<1> QED
  BY <1>1, <1>2, <1>4 DEF Landed

LEMMA LandedStep ==
    ASSUME RecordTypeOK, NEW doc \in Docs, OnlyThis(doc), Landed(doc),
           RecordStep, NoOther(doc) \/ UNCHANGED recordVars
    PROVE  OnlyThis(doc)' /\ Landed(doc)'
<1>1. CASE UNCHANGED recordVars
  BY <1>1 DEF recordVars, OnlyThis, Landed
<1>2. ASSUME NEW u \in Updates, CloudReads(u) \/ ReadFails(u) \/ Send(u)
      PROVE  OnlyThis(doc)' /\ Landed(doc)'
  <2>1. \A v \in Updates : /\ upd'[v].doc = upd[v].doc
                           /\ upd'[v].phase # "free" => upd[v].phase # "free"
    BY <1>2 DEF CloudReads, ReadFails, Send, RecordTypeOK, Upd
  <2>2. device' = device
    BY <1>2 DEF CloudReads, ReadFails, Send
  <2>3. OnlyThis(doc)'
    BY <2>1 DEF OnlyThis
  <2>4. Landed(doc)'
    BY <2>2 DEF Landed
  <2> QED
    BY <2>3, <2>4
<1>3. ASSUME NEW u \in Updates, CloudWrites(u)
      PROVE  OnlyThis(doc)' /\ Landed(doc)'
  <2>1. upd[u].doc = doc
    BY <1>3 DEF CloudWrites, OnlyThis
  <2>2. \A v \in Updates : upd'[v] = upd[v] \/ upd'[v].phase = "free"
    BY <1>3 DEF CloudWrites, Free, RecordTypeOK
  <2> QED
    BY <1>3, <2>1, <2>2, WriteLands DEF OnlyThis
<1>4. ASSUME NEW u \in Updates, NEW e \in Docs, Ask(u, e), NoOther(doc)
      PROVE  OnlyThis(doc)' /\ Landed(doc)'
  <2>1. e = doc
    BY <1>4 DEF NoOther
  <2>2. upd' = [upd EXCEPT ![u] = [Free EXCEPT !.phase = "asked", !.doc = e]] /\ device' = device
    BY <1>4 DEF Ask
  <2>3. [Free EXCEPT !.phase = "asked", !.doc = e].doc = e
    BY DEF Free
  <2>4. \A v \in Updates : upd'[v] = upd[v] \/ upd'[v].doc = doc
    BY <2>1, <2>2, <2>3 DEF RecordTypeOK
  <2> QED
    BY <2>2, <2>4 DEF OnlyThis, Landed
<1>5. ASSUME NEW us \in SUBSET Updates, Abandon(us)
      PROVE  OnlyThis(doc)' /\ Landed(doc)'
  <2>1. device' = device /\ \A v \in Updates : upd'[v] = upd[v] \/ upd'[v].phase = "free"
    BY <1>5 DEF Abandon, Free
  <2> QED
    BY <2>1 DEF OnlyThis, Landed
<1> QED
  BY <1>1, <1>2, <1>3, <1>4, <1>5 DEF RecordStep, RecordNext, UpdateStep

(* The safety half of RepeatedUpdateLands: from a time on from which no    *)
(* other update begins or is in flight, what has landed stays.             *)
THEOREM LandedStays ==
    ASSUME NEW doc \in Docs
    PROVE  RecordSpec /\ [][NoOther(doc)]_recordVars =>
              [](OnlyThis(doc) /\ Landed(doc) => [](OnlyThis(doc) /\ Landed(doc)))
<1> DEFINE Stays == OnlyThis(doc) /\ Landed(doc)
<1>1. RecordTypeOK /\ Stays /\ [RecordNext]_recordVars /\ [NoOther(doc)]_recordVars => Stays'
  BY LandedStep DEF RecordStep
<1> QED
  BY <1>1, RecordTypes, PTL DEF RecordSpec

-----------------------------------------------------------------------------
(* Lists of readings *)

LEMMA InFront ==
    ASSUME NEW S, NEW x \in S, NEW s \in Seq(S)
    PROVE  /\ <<x>> \o s \in Seq(S)
           /\ Len(<<x>> \o s) = Len(s) + 1
           /\ (<<x>> \o s)[1] = x
           /\ \A i \in 1 .. Len(s) : (<<x>> \o s)[i + 1] = s[i]
           /\ Range(<<x>> \o s) = {x} \cup Range(s)
<1> DEFINE t == <<x>> \o s
<1>1. <<x>> \in Seq(S) /\ Len(<<x>>) = 1 /\ <<x>>[1] = x /\ Len(s) \in Nat
  OBVIOUS
<1>2. /\ t \in Seq(S)
      /\ Len(t) = Len(s) + 1
      /\ \A i \in 1 .. Len(s) + 1 : t[i] = IF i <= 1 THEN <<x>>[i] ELSE s[i - 1]
  BY <1>1, ConcatProperties
<1> HIDE DEF t
<1>3. t[1] = x
  BY <1>1, <1>2
<1>4. ASSUME NEW i \in 1 .. Len(s) PROVE t[i + 1] = s[i]
  <2>1. i + 1 \in 1 .. Len(s) + 1 /\ ~ (i + 1 <= 1) /\ (i + 1) - 1 = i
    BY <1>1
  <2> QED
    BY <1>2, <2>1
<1>5. Range(t) = {x} \cup Range(s)
  <2>1. DOMAIN t = 1 .. Len(s) + 1 /\ DOMAIN s = 1 .. Len(s)
    BY <1>2
  <2>2. \A i \in DOMAIN t : i = 1 \/ (i - 1 \in DOMAIN s /\ t[i] = s[i - 1])
    BY <1>1, <1>2, <2>1
  <2>3. 1 \in DOMAIN t /\ \A i \in DOMAIN s : i + 1 \in DOMAIN t
    BY <1>1, <2>1
  <2>4. Range(t) \subseteq {x} \cup Range(s)
    BY <1>3, <2>2 DEF Range
  <2>5. x \in Range(t)
    BY <1>3, <2>3 DEF Range
  <2>6. Range(s) \subseteq Range(t)
    BY <1>4, <2>1, <2>3 DEF Range
  <2> QED
    BY <2>4, <2>5, <2>6
<1> QED
  BY <1>2, <1>3, <1>4, <1>5 DEF t

(* The position from the end is the same with one more in front. *)
LEMMA FromTheEnd ==
    ASSUME NEW S, NEW x \in S, NEW s \in Seq(S)
    PROVE  LET t == <<x>> \o s
           IN  /\ \A k \in 1 .. Len(s) :
                     k \in 1 .. Len(t) /\ t[Len(t) + 1 - k] = s[Len(s) + 1 - k]
               /\ Len(t) \in 1 .. Len(t) /\ Len(t) - 1 = Len(s)
               /\ t[Len(t) + 1 - Len(t)] = x
<1> DEFINE t == <<x>> \o s
<1>1. /\ Len(s) \in Nat /\ Len(t) = Len(s) + 1 /\ t[1] = x
      /\ \A i \in 1 .. Len(s) : t[i + 1] = s[i]
  BY InFront
<1> HIDE DEF t
<1>2. ASSUME NEW k \in 1 .. Len(s)
      PROVE  k \in 1 .. Len(t) /\ t[Len(t) + 1 - k] = s[Len(s) + 1 - k]
  <2>1. /\ k \in 1 .. Len(t) /\ Len(s) + 1 - k \in 1 .. Len(s)
        /\ Len(t) + 1 - k = (Len(s) + 1 - k) + 1
    BY <1>1
  <2> QED
    BY <1>1, <2>1
<1>3. Len(t) \in 1 .. Len(t) /\ Len(t) - 1 = Len(s) /\ Len(t) + 1 - Len(t) = 1
  BY <1>1
<1> QED
  BY <1>1, <1>2, <1>3 DEF t

(* The readings of a list whose names are among some, in their order.      *)
Those(names, batch) ==
    LET last[i \in 0 .. Len(batch)] ==
            IF i = 0 THEN <<>>
            ELSE LET n == batch[Len(batch) + 1 - i]
                 IN  IF n \in names THEN <<n>> \o last[i - 1] ELSE last[i - 1]
    IN  last[Len(batch)]

(* What Those takes from a list, turn by turn. *)
ThoseTurn(names, batch, k, taken) ==
    LET n == batch[Len(batch) + 1 - k]
    IN  IF n \in names THEN <<n>> \o taken ELSE taken

LEMMA ThoseTurns ==
    ASSUME NEW S, NEW names, NEW batch \in Seq(S)
    PROVE  \E last :
              /\ last[0] = <<>>
              /\ \A k \in 1 .. Len(batch) : last[k] = ThoseTurn(names, batch, k, last[k - 1])
              /\ Those(names, batch) = last[Len(batch)]
<1> DEFINE n == Len(batch)
           A == Seq(S)
           step == [k \in 1 .. n |-> [taken \in A |-> ThoseTurn(names, batch, k, taken)]]
           Runs(f) == f = [i \in 0 .. n |->
                             IF i = 0 THEN <<>> ELSE ThoseTurn(names, batch, i, f[i - 1])]
           last == CHOOSE f : Runs(f)
<1>1. n \in Nat /\ <<>> \in A /\ \A k \in 1 .. n : n + 1 - k \in 1 .. n
  OBVIOUS
<1>2. ASSUME NEW k \in 1 .. n, NEW taken \in A
      PROVE  ThoseTurn(names, batch, k, taken) \in A
  <2>1. batch[Len(batch) + 1 - k] \in S
    BY <1>1
  <2> QED
    BY <2>1, InFront DEF ThoseTurn
<1>3. step \in [1 .. n -> [A -> A]]
  BY <1>2
<1>4. \A k \in 1 .. n, taken \in A : step[k][taken] = ThoseTurn(names, batch, k, taken)
  OBVIOUS
<1>5. Those(names, batch) = last[n]
  BY DEF Those, ThoseTurn
<1> HIDE DEF step, n, A
<1>6. PICK f : Run(f, n, A, <<>>, step)
  BY <1>1, <1>3, Turns
<1>7. ASSUME NEW k \in 1 .. n
      PROVE  f[k] = ThoseTurn(names, batch, k, f[k - 1])
  <2>1. k - 1 \in 0 .. n
    BY <1>1
  <2>2. f[k - 1] \in A
    BY <2>1, <1>6 DEF Run
  <2> QED
    BY <2>2, <1>4, <1>6 DEF Run
<1>8. Runs(f)
  <2>1. \A i \in 0 .. n : i # 0 => i \in 1 .. n
    BY <1>1
  <2>2. \A i \in 0 .. n :
          f[i] = IF i = 0 THEN <<>> ELSE ThoseTurn(names, batch, i, f[i - 1])
    BY <2>1, <1>6, <1>7 DEF Run
  <2>3. f = [i \in 0 .. n |-> f[i]]
    BY <1>6 DEF Run
  <2> QED
    BY <2>2, <2>3
<1>9. Runs(last)
  BY <1>8
<1> HIDE DEF last
<1>10. last[0] = <<>> /\ \A k \in 1 .. n : last[k] = ThoseTurn(names, batch, k, last[k - 1])
  <2>1. 0 \in 0 .. n /\ \A k \in 1 .. n : k \in 0 .. n /\ k # 0
    BY <1>1
  <2> QED
    BY <2>1, <1>9
<1> QED
  BY <1>5, <1>10 DEF n

LEMMA ThoseEmpty ==
    ASSUME NEW names
    PROVE  Those(names, <<>>) = <<>>
<1>1. <<>> \in Seq({}) /\ Len(<<>>) = 0
  OBVIOUS
<1>2. PICK last : last[0] = <<>> /\ Those(names, <<>>) = last[Len(<<>>)]
  <2> DEFINE none == <<>>
  <2>1. none \in Seq({})
    BY <1>1
  <2> HIDE DEF none
  <2>2. \E last : last[0] = <<>> /\ Those(names, none) = last[Len(none)]
    BY <2>1, ThoseTurns
  <2> QED
    BY <2>2 DEF none
<1> QED
  BY <1>1, <1>2

ThoseOfMore(names, x, s) ==
    /\ x \in names => Those(names, <<x>> \o s) = <<x>> \o Those(names, s)
    /\ x \notin names => Those(names, <<x>> \o s) = Those(names, s)

LEMMA ThoseInFront ==
    ASSUME NEW S, NEW names, NEW x \in S, NEW s \in Seq(S)
    PROVE  ThoseOfMore(names, x, s)
<1> DEFINE t == <<x>> \o s
<1>1. PICK old :
         /\ old[0] = <<>>
         /\ \A k \in 1 .. Len(s) : old[k] = ThoseTurn(names, s, k, old[k - 1])
         /\ Those(names, s) = old[Len(s)]
  BY ThoseTurns
<1>2. t \in Seq(S)
  BY InFront
<1>3. PICK new :
         /\ new[0] = <<>>
         /\ \A k \in 1 .. Len(t) : new[k] = ThoseTurn(names, t, k, new[k - 1])
         /\ Those(names, t) = new[Len(t)]
  BY <1>2, ThoseTurns
<1>4. /\ \A k \in 1 .. Len(s) : k \in 1 .. Len(t) /\ t[Len(t) + 1 - k] = s[Len(s) + 1 - k]
      /\ Len(t) \in 1 .. Len(t) /\ Len(t) - 1 = Len(s) /\ t[Len(t) + 1 - Len(t)] = x
  BY FromTheEnd
<1>5. Len(s) \in Nat
  OBVIOUS
<1> HIDE DEF t
<1> DEFINE Same == {k \in 0 .. Len(s) : new[k] = old[k]}
<1>6. 0 \in Same
  BY <1>1, <1>3, <1>5
<1>7. ASSUME NEW k \in 1 .. Len(s), k - 1 \in Same PROVE k \in Same
  <2>1. new[k - 1] = old[k - 1] /\ k \in 0 .. Len(s)
    BY <1>7, <1>5
  <2>2. new[k] = ThoseTurn(names, t, k, old[k - 1])
    BY <2>1, <1>3, <1>4
  <2>3. old[k] = ThoseTurn(names, s, k, old[k - 1])
    BY <1>1
  <2>4. new[k] = old[k]
    BY <2>2, <2>3, <1>4 DEF ThoseTurn
  <2> QED
    BY <2>1, <2>4
<1>8. new[Len(s)] = old[Len(s)]
  <2> HIDE DEF Same
  <2>1. 0 .. Len(s) \subseteq Same
    BY <1>5, <1>6, <1>7, UpTo
  <2>2. Len(s) \in Same
    BY <2>1, <1>5
  <2> QED
    BY <2>2 DEF Same
<1>9. new[Len(t)] = ThoseTurn(names, t, Len(t), new[Len(t) - 1])
  BY <1>3, <1>4
<1>10. Those(names, t) = IF x \in names THEN <<x>> \o old[Len(s)] ELSE old[Len(s)]
  BY <1>3, <1>4, <1>8, <1>9 DEF ThoseTurn
<1> QED
  BY <1>1, <1>10 DEF t, ThoseOfMore

(* What Kept makes of a list, turn by turn. *)
KeptTurn(batch, k, acc) ==
    LET n == batch[Len(batch) + 1 - k]
        now == Looked(acc.names, n)
    IN  [names |-> now, kept |-> IF n \in now THEN <<n>> \o acc.kept ELSE acc.kept]

(* What there is before the first turn. *)
KeptNone(names) == [names |-> names, kept |-> <<>>]

LEMMA KeptTurns ==
    ASSUME NEW S, NEW names, NEW batch \in Seq(S)
    PROVE  \E after :
              /\ after[0] = KeptNone(names)
              /\ \A k \in 1 .. Len(batch) : after[k] = KeptTurn(batch, k, after[k - 1])
              /\ Kept(names, batch) = after[Len(batch)]
<1> DEFINE n == Len(batch)
           A == [names : {names, listed}, kept : Seq(S)]
           step == [k \in 1 .. n |-> [acc \in A |-> KeptTurn(batch, k, acc)]]
           Runs(f) == f = [i \in 0 .. n |->
                             IF i = 0 THEN KeptNone(names) ELSE KeptTurn(batch, i, f[i - 1])]
           after == CHOOSE f : Runs(f)
<1>1. n \in Nat /\ KeptNone(names) \in A /\ \A k \in 1 .. n : n + 1 - k \in 1 .. n
  BY DEF KeptNone
<1>2. ASSUME NEW k \in 1 .. n, NEW acc \in A
      PROVE  KeptTurn(batch, k, acc) \in A
  <2>1. batch[Len(batch) + 1 - k] \in S
    BY <1>1
  <2>2. Looked(acc.names, batch[Len(batch) + 1 - k]) \in {names, listed}
    BY DEF Looked
  <2> QED
    BY <2>1, <2>2, InFront DEF KeptTurn
<1>3. step \in [1 .. n -> [A -> A]]
  BY <1>2
<1>4. \A k \in 1 .. n, acc \in A : step[k][acc] = KeptTurn(batch, k, acc)
  OBVIOUS
<1>5. Kept(names, batch) = after[n]
  BY DEF Kept, KeptTurn, KeptNone
<1> HIDE DEF step, n, A
<1>6. PICK f : Run(f, n, A, KeptNone(names), step)
  BY <1>1, <1>3, Turns
<1>7. ASSUME NEW k \in 1 .. n
      PROVE  f[k] = KeptTurn(batch, k, f[k - 1])
  <2>1. k - 1 \in 0 .. n
    BY <1>1
  <2>2. f[k - 1] \in A
    BY <2>1, <1>6 DEF Run
  <2> QED
    BY <2>2, <1>4, <1>6 DEF Run
<1>8. Runs(f)
  <2>1. \A i \in 0 .. n : i # 0 => i \in 1 .. n
    BY <1>1
  <2>2. \A i \in 0 .. n :
          f[i] = IF i = 0 THEN KeptNone(names) ELSE KeptTurn(batch, i, f[i - 1])
    BY <2>1, <1>6, <1>7 DEF Run
  <2>3. f = [i \in 0 .. n |-> f[i]]
    BY <1>6 DEF Run
  <2> QED
    BY <2>2, <2>3
<1>9. Runs(after)
  BY <1>8
<1> HIDE DEF after
<1>10. /\ after[0] = KeptNone(names)
       /\ \A k \in 1 .. n : after[k] = KeptTurn(batch, k, after[k - 1])
  <2>1. 0 \in 0 .. n /\ \A k \in 1 .. n : k \in 0 .. n /\ k # 0
    BY <1>1
  <2> QED
    BY <2>1, <1>9
<1> QED
  BY <1>5, <1>10 DEF n

LEMMA KeptEmpty ==
    ASSUME NEW names
    PROVE  Kept(names, <<>>) = KeptNone(names)
<1>1. <<>> \in Seq({}) /\ Len(<<>>) = 0
  OBVIOUS
<1>2. PICK after : after[0] = KeptNone(names) /\ Kept(names, <<>>) = after[Len(<<>>)]
  <2> DEFINE none == <<>>
  <2>1. none \in Seq({})
    BY <1>1
  <2> HIDE DEF none
  <2>2. \E after : after[0] = KeptNone(names) /\ Kept(names, none) = after[Len(none)]
    BY <2>1, KeptTurns
  <2> QED
    BY <2>2 DEF none
<1> QED
  BY <1>1, <1>2

KeptOfMore(names, x, s) ==
    LET now == Looked(Kept(names, s).names, x)
    IN  /\ Kept(names, <<x>> \o s).names = now
        /\ x \in now => Kept(names, <<x>> \o s).kept = <<x>> \o Kept(names, s).kept
        /\ x \notin now => Kept(names, <<x>> \o s).kept = Kept(names, s).kept

LEMMA KeptInFront ==
    ASSUME NEW S, NEW names, NEW x \in S, NEW s \in Seq(S)
    PROVE  KeptOfMore(names, x, s)
<1> DEFINE t == <<x>> \o s
<1>1. PICK old :
         /\ old[0] = KeptNone(names)
         /\ \A k \in 1 .. Len(s) : old[k] = KeptTurn(s, k, old[k - 1])
         /\ Kept(names, s) = old[Len(s)]
  BY KeptTurns
<1>2. t \in Seq(S)
  BY InFront
<1>3. PICK new :
         /\ new[0] = KeptNone(names)
         /\ \A k \in 1 .. Len(t) : new[k] = KeptTurn(t, k, new[k - 1])
         /\ Kept(names, t) = new[Len(t)]
  BY <1>2, KeptTurns
<1>4. /\ \A k \in 1 .. Len(s) : k \in 1 .. Len(t) /\ t[Len(t) + 1 - k] = s[Len(s) + 1 - k]
      /\ Len(t) \in 1 .. Len(t) /\ Len(t) - 1 = Len(s) /\ t[Len(t) + 1 - Len(t)] = x
  BY FromTheEnd
<1>5. Len(s) \in Nat
  OBVIOUS
<1> HIDE DEF t
<1> DEFINE Same == {k \in 0 .. Len(s) : new[k] = old[k]}
<1>6. 0 \in Same
  BY <1>1, <1>3, <1>5
<1>7. ASSUME NEW k \in 1 .. Len(s), k - 1 \in Same PROVE k \in Same
  <2>1. new[k - 1] = old[k - 1] /\ k \in 0 .. Len(s)
    BY <1>7, <1>5
  <2>2. new[k] = KeptTurn(t, k, old[k - 1])
    BY <2>1, <1>3, <1>4
  <2>3. old[k] = KeptTurn(s, k, old[k - 1])
    BY <1>1
  <2>4. t[Len(t) + 1 - k] = s[Len(s) + 1 - k]
    BY <1>4
  <2>5. KeptTurn(t, k, old[k - 1]) = KeptTurn(s, k, old[k - 1])
    BY <2>4 DEF KeptTurn
  <2>6. new[k] = old[k]
    BY <2>2, <2>3, <2>5
  <2> QED
    BY <2>1, <2>6
<1>8. new[Len(s)] = old[Len(s)]
  <2> HIDE DEF Same
  <2>1. 0 .. Len(s) \subseteq Same
    BY <1>5, <1>6, <1>7, UpTo
  <2>2. Len(s) \in Same
    BY <2>1, <1>5
  <2> QED
    BY <2>2 DEF Same
<1>9. new[Len(t)] = KeptTurn(t, Len(t), old[Len(s)])
  BY <1>3, <1>4, <1>8
<1>10. Kept(names, t) = [names |-> Looked(old[Len(s)].names, x),
                         kept |-> IF x \in Looked(old[Len(s)].names, x)
                                  THEN <<x>> \o old[Len(s)].kept ELSE old[Len(s)].kept]
  BY <1>3, <1>4, <1>9 DEF KeptTurn
<1> QED
  BY <1>1, <1>10 DEF t, KeptOfMore

(* A list is kept as KeptWell says, and the store in memory is then        *)
(* what it was or what the file holds.                                     *)
KeptWell(names, batch) ==
    LET after == Kept(names, batch)
    IN  /\ after.names \in {names, listed}
        /\ after.kept \in Seq(Names)
        /\ Range(after.kept) \subseteq names \cup listed
        /\ Those(listed, after.kept) = Those(listed, batch)
        /\ names \subseteq listed => after.kept = Those(listed, batch)

(* Of readings in a list of any length, whatever is in memory and in the   *)
(* file: the loop takes out none that the file has, keeps none that        *)
(* nothing knows, and does not change their order.                         *)
THEOREM AllKeptWell ==
    ASSUME NEW names, NEW batch \in Seq(Names)
    PROVE  KeptWell(names, batch)
<1> DEFINE Good == {b \in Seq(Names) : KeptWell(names, b)}
<1>1. <<>> \in Good
  <2>1. Kept(names, <<>>).names = names /\ Kept(names, <<>>).kept = <<>>
    BY KeptEmpty DEF KeptNone
  <2>2. <<>> \in Seq(Names) /\ Range(<<>>) = {}
    BY DEF Range
  <2>3. KeptWell(names, <<>>)
    BY <2>1, <2>2, ThoseEmpty DEF KeptWell
  <2> QED
    BY <2>2, <2>3
<1>2. ASSUME NEW x \in Names, NEW s \in Seq(Names), s \in Good
      PROVE  <<x>> \o s \in Good
  <2> DEFINE rest == Kept(names, s)
             now == Looked(rest.names, x)
             t == <<x>> \o s
  <2>1. KeptWell(names, s)
    BY <1>2
  <2>2. /\ rest.names \in {names, listed}
        /\ rest.kept \in Seq(Names)
        /\ Range(rest.kept) \subseteq names \cup listed
        /\ Those(listed, rest.kept) = Those(listed, s)
        /\ names \subseteq listed => rest.kept = Those(listed, s)
    BY <2>1 DEF KeptWell
  <2>3. /\ Kept(names, t).names = now
        /\ x \in now => Kept(names, t).kept = <<x>> \o rest.kept
        /\ x \notin now => Kept(names, t).kept = rest.kept
    <3>1. KeptOfMore(names, x, s)
      BY KeptInFront
    <3> QED
      BY <3>1 DEF KeptOfMore
  <2>4. /\ x \in listed => Those(listed, t) = <<x>> \o Those(listed, s)
        /\ x \notin listed => Those(listed, t) = Those(listed, s)
    <3>1. ThoseOfMore(listed, x, s)
      BY ThoseInFront
    <3> QED
      BY <3>1 DEF ThoseOfMore
  <2>5. /\ now \in {names, listed}
        /\ x \notin now => x \notin listed
    BY <2>2 DEF Looked
  <2>6. t \in Seq(Names)
    BY InFront
  <2> HIDE DEF t, rest, now
  <2>7. CASE x \in now
    <3>1. Kept(names, t).kept = <<x>> \o rest.kept
      BY <2>3, <2>7
    <3>2. /\ <<x>> \o rest.kept \in Seq(Names)
          /\ Range(<<x>> \o rest.kept) = {x} \cup Range(rest.kept)
      BY <2>2, InFront
    <3>3. /\ x \in listed => Those(listed, <<x>> \o rest.kept) = <<x>> \o Those(listed, rest.kept)
          /\ x \notin listed => Those(listed, <<x>> \o rest.kept) = Those(listed, rest.kept)
      <4>1. ThoseOfMore(listed, x, rest.kept)
        BY <2>2, ThoseInFront
      <4> QED
        BY <4>1 DEF ThoseOfMore
    <3>4. x \in names \cup listed /\ (names \subseteq listed => x \in listed)
      BY <2>5, <2>7
    <3>5. KeptWell(names, t)
      BY <2>2, <2>3, <2>4, <2>5, <3>1, <3>2, <3>3, <3>4 DEF KeptWell
    <3> QED
      BY <2>6, <3>5 DEF t
  <2>8. CASE x \notin now
    <3>1. KeptWell(names, t)
      BY <2>2, <2>3, <2>4, <2>5, <2>8 DEF KeptWell
    <3> QED
      BY <2>6, <3>1 DEF t
  <2> QED
    BY <2>7, <2>8
<1> HIDE DEF Good
<1>3. batch \in Good
  BY <1>1, <1>2, AllLists
<1> QED
  BY <1>3 DEF Good

-----------------------------------------------------------------------------
(* The agent's steps.  Each moves the record as DeviceRecord says.         *)

LEMMA SavedName == None \in SavedNames
BY DEF SavedNames

(* What else the agent and the commands do leaves the record alone.        *)
LEMMA OthersLeaveRecord ==
    ASSUME \/ Start \/ Others
           \/ \E n \in Names, negative \in BOOLEAN : Observation(n, negative)
           \/ \E n \in Names \cup {Undefined} : Registered(n) \/ NotRegistered(n)
    PROVE  RecordStep
BY DEF Start, Others, Observation, RegisterObservation, Registered, NotRegistered,
       RecordStep, recordVars

(* A message begins an update, with what the message says, or none.        *)
LEMMA HandleIsStep ==
    ASSUME title \in SavedNames, NEW m \in Sendable, Handle(m)
    PROVE  RecordStep
<1>1. CASE Registration(m)
  BY <1>1 DEF Registration, RecordStep, recordVars
<1>2. CASE Submission(m)
  BY <1>2 DEF Submission, RecordStep, recordVars
<1>3. CASE ~IsREG(m) /\ ~IsSUBMIT(m) /\ IsUPDATE(m) /\ DeviceUpdate(m)
  <2>1. Doc(m, title) \in Docs
    BY <1>3, SendableAssumption
  <2>2. PICK u \in Updates : Ask(u, Doc(m, title))
    BY <1>3 DEF DeviceUpdate
  <2> QED
    BY <2>1, <2>2 DEF RecordStep, RecordNext
<1>4. CASE UNCHANGED vars
  BY <1>4 DEF vars, RecordStep, recordVars
<1> QED
  BY <1>1, <1>2, <1>3, <1>4 DEF Handle

(* The agent's end abandons what it waited for, and nothing that is sent.  *)
LEMMA ExitIsStep ==
    ASSUME RecordTypeOK, Exit
    PROVE  RecordStep
<1> DEFINE us == {u \in Updates : upd[u].phase \in {"asked", "answered"}}
<1>1. UNCHANGED device /\ upd' = [u \in Updates |-> IF u \in us THEN Free ELSE upd[u]]
  BY DEF Exit
<1>2. CASE us = {}
  BY <1>1, <1>2 DEF RecordTypeOK, RecordStep, recordVars
<1>3. CASE us # {}
  <2>1. Abandon(us)
    BY <1>1, <1>3 DEF Abandon
  <2> QED
    BY <2>1 DEF RecordStep, RecordNext
<1> QED
  BY <1>2, <1>3

LEMMA GoesOnIsStep ==
    ASSUME NEW u \in Updates, UpdateGoesOn(u)
    PROVE  RecordStep
BY DEF UpdateGoesOn, UpdateStep, RecordStep, RecordNext

LEMMA StepIsStep ==
    ASSUME TypeOK, [Next]_vars
    PROVE  RecordStep
<1>1. CASE UNCHANGED vars
  BY <1>1 DEF vars, RecordStep, recordVars
<1>2. ASSUME NEW m \in Sendable, Udp(m) \/ Tcp(m)
      PROVE  RecordStep
  BY <1>2, HandleIsStep DEF Udp, Tcp, TypeOK
<1>3. CASE Exit \/ TcpBreaks
  BY <1>3, ExitIsStep DEF TcpBreaks, TypeOK
<1> QED
  BY <1>1, <1>2, <1>3, OthersLeaveRecord, GoesOnIsStep DEF Next

-----------------------------------------------------------------------------
(* The agent is type correct: what else there is besides the record.       *)

AgentTypes ==
    /\ agent \in {"up", "down"}
    /\ title \in SavedNames
    /\ cache \subseteq Names \cup {Undefined}
    /\ listed \subseteq Names \cup {Undefined}
    /\ regs \subseteq Names \cup {Undefined}
    /\ sent \in Seq(Names)
    /\ agent = "down" =>
          cache \cup regs = {} /\ \A u \in Updates : upd[u].phase \in {"free", "sent"}

LEMMA TypeParts == TypeOK <=> RecordTypeOK /\ AgentTypes
BY DEF TypeOK, AgentTypes

(* An agent that is up and stays up has nothing to show for the updates.   *)
LEMMA UpTypes ==
    ASSUME AgentTypes, agent = "up", agent' = agent, title' = title,
           cache' \subseteq Names \cup {Undefined}, listed' \subseteq Names \cup {Undefined},
           regs' \subseteq Names \cup {Undefined}, sent' \in Seq(Names)
    PROVE  AgentTypes'
BY DEF AgentTypes

LEMMA NameOf ==
    ASSUME NEW m \in Sendable
    PROVE  /\ IsList(m) => m.items \in Seq(Names)
           /\ ~IsList(m) /\ Long(m, "n") => m.n \in Names
BY MessagesAssumption DEF IsList, Long, Fields

LEMMA LookedTypes ==
    ASSUME AgentTypes, NEW n
    PROVE  Looked(cache, n) \subseteq Names \cup {Undefined}
BY DEF AgentTypes, Looked

LEMMA RegistrationTypes ==
    ASSUME AgentTypes, agent = "up", NEW m \in Sendable, IsREG(m), Registration(m)
    PROVE  AgentTypes'
<1> DEFINE n == IF IsList(m) THEN Undefined ELSE m.n
<1>1. n \in Names \cup {Undefined}
  BY NameOf DEF IsREG
<1>2. cache' = Looked(cache, n) /\ (regs' = regs \/ regs' = regs \cup {n})
  BY DEF Registration
<1>3. agent' = agent /\ title' = title /\ listed' = listed /\ sent' = sent
  BY DEF Registration
<1> HIDE DEF n
<1>4. cache' \subseteq Names \cup {Undefined}
  BY <1>2, LookedTypes
<1> QED
  BY <1>1, <1>2, <1>3, <1>4, UpTypes DEF AgentTypes

LEMMA SubmissionTypes ==
    ASSUME AgentTypes, agent = "up", NEW m \in Sendable, IsSUBMIT(m), Submission(m)
    PROVE  AgentTypes'
<1> DEFINE batch == IF IsList(m) THEN m.items ELSE <<m.n>>
           after == Kept(cache, batch)
<1>1. batch \in Seq(Names)
  <2>1. CASE IsList(m)
    BY <2>1, NameOf
  <2>2. CASE ~IsList(m)
    <3>1. m.n \in Names
      BY <2>2, NameOf DEF IsSUBMIT
    <3> QED
      BY <2>2, <3>1
  <2> QED
    BY <2>1, <2>2
<1>2. /\ cache' = after.names
      /\ sent' = IF after.kept = <<>> THEN sent ELSE after.kept
  BY DEF Submission
<1>3. agent' = agent /\ title' = title /\ listed' = listed /\ regs' = regs
  BY DEF Submission
<1> HIDE DEF batch
<1>4. KeptWell(cache, batch)
  <2> DEFINE names == cache
  <2> HIDE DEF names
  <2>1. KeptWell(names, batch)
    BY <1>1, AllKeptWell
  <2> QED
    BY <2>1 DEF names
<1>5. after.names \in {cache, listed} /\ after.kept \in Seq(Names)
  BY <1>4 DEF KeptWell
<1> HIDE DEF after
<1> QED
  BY <1>2, <1>3, <1>5, UpTypes DEF AgentTypes

LEMMA HandleTypes ==
    ASSUME AgentTypes, agent = "up", NEW m \in Sendable, Handle(m)
    PROVE  AgentTypes'
<1>1. CASE ~IsREG(m) /\ ~IsSUBMIT(m) /\ IsUPDATE(m) /\ DeviceUpdate(m)
  BY <1>1, UpTypes DEF DeviceUpdate, storeVars, AgentTypes
<1>2. CASE UNCHANGED vars
  BY <1>2, UpTypes DEF vars, storeVars, AgentTypes
<1> QED
  BY <1>1, <1>2, RegistrationTypes, SubmissionTypes DEF Handle

LEMMA ExitTypes ==
    ASSUME RecordTypeOK, AgentTypes, Exit
    PROVE  AgentTypes'
<1>1. \A u \in Updates : upd'[u].phase \in {"free", "sent"}
  <2> SUFFICES ASSUME NEW u \in Updates PROVE upd'[u].phase \in {"free", "sent"}
    OBVIOUS
  <2>1. upd[u].phase \in {"free", "asked", "answered", "sent"}
    BY DEF RecordTypeOK, Upd
  <2>2. upd'[u] = IF upd[u].phase \in {"asked", "answered"} THEN Free ELSE upd[u]
    BY DEF Exit
  <2> QED
    BY <2>1, <2>2 DEF Free
<1> QED
  BY <1>1, SavedName DEF Exit, AgentTypes

(* No update of an agent that is down is waiting for its read.             *)
LEMMA GoesOnTypes ==
    ASSUME RecordTypeOK, AgentTypes, NEW u \in Updates, UpdateGoesOn(u)
    PROVE  AgentTypes'
<1>1. /\ agent' = agent /\ title' = title /\ cache' = cache /\ regs' = regs /\ sent' = sent
      /\ listed' \subseteq Names \cup {Undefined}
  BY DEF UpdateGoesOn, AgentTypes
<1>2. ASSUME agent = "down" PROVE \A v \in Updates : upd'[v].phase \in {"free", "sent"}
  <2>1. \A v \in Updates : upd[v].phase \in {"free", "sent"}
    BY <1>2 DEF AgentTypes
  <2>2. upd \in [Updates -> Upd]
    BY DEF RecordTypeOK
  <2>3. CASE CloudReads(u) \/ ReadFails(u)
    BY <2>1, <2>3 DEF CloudReads, ReadFails
  <2>4. CASE Send(u)
    BY <2>1, <2>4 DEF Send
  <2>5. CASE CloudWrites(u)
    BY <2>1, <2>2, <2>5 DEF CloudWrites, Free
  <2>6. CASE Abandon({u})
    BY <2>1, <2>6 DEF Abandon, Free
  <2> QED
    BY <2>3, <2>4, <2>5, <2>6 DEF UpdateGoesOn
<1> QED
  BY <1>1, <1>2 DEF AgentTypes

LEMMA OthersTypes ==
    ASSUME AgentTypes,
           \/ Start \/ Others
           \/ \E n \in Names, negative \in BOOLEAN : Observation(n, negative)
           \/ \E n \in Names \cup {Undefined} : Registered(n) \/ NotRegistered(n)
    PROVE  AgentTypes'
<1>1. CASE Start \/ Others
  BY <1>1 DEF Start, Others, recordVars, AgentTypes
<1>2. ASSUME NEW n \in Names, NEW negative \in BOOLEAN, Observation(n, negative)
      PROVE  AgentTypes'
  <2>1. sent' \in Seq(Names)
    <3>1. <<n>> \in Seq(Names) /\ sent \in Seq(Names)
      BY DEF AgentTypes
    <3> QED
      BY <1>2, <3>1 DEF Observation, RegisterObservation
  <2> QED
    BY <1>2, <2>1 DEF Observation, RegisterObservation, recordVars, AgentTypes
<1>3. ASSUME NEW n \in Names \cup {Undefined}, Registered(n) \/ NotRegistered(n)
      PROVE  AgentTypes'
  BY <1>3 DEF Registered, NotRegistered, recordVars, AgentTypes
<1> QED
  BY <1>1, <1>2, <1>3

LEMMA InitTypes == Init => TypeOK
<1> SUFFICES ASSUME Init PROVE TypeOK
  OBVIOUS
<1>1. RecordTypeOK
  BY InitRecordTypes DEF Init
<1>2. <<>> \in Seq(Names)
  OBVIOUS
<1> QED
  BY <1>1, <1>2, SavedName DEF Init, RecordInit, Free, TypeOK

LEMMA StepTypes ==
    ASSUME TypeOK, [Next]_vars
    PROVE  TypeOK'
<1>1. RecordTypeOK'
  BY StepIsStep, RecordStepTypes DEF TypeOK
<1>2. RecordTypeOK /\ AgentTypes
  BY TypeParts
<1>3. AgentTypes'
  <2>1. CASE UNCHANGED vars
    BY <1>2, <2>1 DEF vars, storeVars, recordVars, AgentTypes
  <2>2. ASSUME NEW m \in Sendable, Udp(m) \/ Tcp(m)
        PROVE  AgentTypes'
    BY <1>2, <2>2, HandleTypes DEF Udp, Tcp
  <2>3. CASE Exit \/ TcpBreaks
    BY <1>2, <2>3, ExitTypes DEF TcpBreaks
  <2> QED
    BY <1>2, <2>1, <2>2, <2>3, OthersTypes, GoesOnTypes DEF Next
<1> QED
  BY <1>1, <1>3 DEF TypeOK, AgentTypes

-----------------------------------------------------------------------------
(* The theorems *)

(* Messages is type correct, and an agent that is down waits for nothing:  *)
(* for any messages and any number of updates and registrations.           *)
THEOREM AgentTypesHold == Spec => []TypeOK
<1>1. TypeOK /\ [Next]_vars => TypeOK'
  BY StepTypes
<1> QED
  BY InitTypes, <1>1, PTL DEF Spec

(* An agent that takes messages, and may end at any time, keeps the        *)
(* attributes its updates neither name nor report.                         *)
THEOREM AgentKeepsAttributes == Spec => AttributesKept
<1>1. Init => RecordInit
  BY DEF Init
<1>2. TypeOK /\ [Next]_vars => [RecordNext]_recordVars
  BY StepIsStep DEF RecordStep
<1>3. Spec => RecordSpec
  BY <1>1, <1>2, AgentTypesHold, PTL DEF Spec, RecordSpec
<1> QED
  BY <1>3, AttributesStay

(* A reading of a name in the file is kept, alone as in a list.            *)
LEMMA OneKept ==
    ASSUME NEW n \in Names, n \in listed
    PROVE  Kept(cache, <<n>>).kept = <<n>>
<1> DEFINE names == cache
<1>1. Kept(names, <<>>).names = names /\ Kept(names, <<>>).kept = <<>>
  BY KeptEmpty DEF KeptNone
<1>2. <<>> \in Seq(Names) /\ <<n>> \o <<>> = <<n>>
  OBVIOUS
<1>3. n \in Looked(names, n)
  BY DEF Looked
<1> HIDE DEF names
<1> DEFINE none == <<>>
<1>4. none \in Seq(Names)
  BY <1>2
<1> HIDE DEF none
<1>5. KeptOfMore(names, n, none)
  BY <1>4, KeptInFront
<1>6. Kept(names, <<n>> \o none).kept = <<n>> \o Kept(names, none).kept
  BY <1>1, <1>3, <1>5 DEF KeptOfMore, none
<1> QED
  BY <1>1, <1>2, <1>6 DEF names, none

(* A device update is another one in flight, and nothing else.             *)
LEMMA UpdateBegins ==
    ASSUME TypeOK, NEW m \in Sendable, DeviceUpdate(m)
    PROVE  upd' # upd /\ UNCHANGED <<sent, regs>>
<1>1. PICK u \in Updates : Ask(u, Doc(m, title))
  BY DEF DeviceUpdate
<1>2. upd'[u].phase = "asked" /\ upd[u].phase = "free"
  BY <1>1 DEF Ask, Free, TypeOK, RecordTypeOK
<1> QED
  BY <1>2 DEF DeviceUpdate, storeVars

LEMMA EachTaken ==
    ASSUME TypeOK, NEW m \in Sendable
    PROVE  Taken(m)
<1> SUFFICES ASSUME Handle(m)
             PROVE  /\ IsList(m) => ListTaken(m)
                    /\ ~IsList(m) /\ GoodPlace(m) =>
                          ReadingTaken(m) /\ RegistrationTaken(m) /\ UpdateTaken(m) /\ ShortTaken(m)
  BY DEF Taken
<1>1. ASSUME IsList(m) PROVE ListTaken(m)
  <2>1. Registration(m)
    BY <1>1 DEF Handle, IsREG
  <2> QED
    BY <1>1, <2>1 DEF Registration, ListTaken
<1>2. ASSUME ~IsList(m), GoodPlace(m) PROVE ReadingTaken(m)
  <2> SUFFICES ASSUME {"n", "v"} \subseteq Fields(m), m.n \in listed
               PROVE  sent' = <<m.n>> /\ UNCHANGED recordVars
    BY DEF ReadingTaken
  <2>1. m.n \in Names /\ m.n # Short
    BY MessagesAssumption DEF TypeOK, Fields
  <2>2. ~IsREG(m) /\ IsSUBMIT(m)
    BY <1>2, <2>1 DEF IsREG, IsSUBMIT, Long
  <2>3. Submission(m)
    BY <2>2 DEF Handle
  <2>4. Kept(cache, <<m.n>>).kept = <<m.n>> /\ <<m.n>> # <<>>
    BY <2>1, OneKept
  <2> QED
    BY <1>2, <2>3, <2>4 DEF Submission
<1>3. ASSUME ~IsList(m) PROVE RegistrationTaken(m)
  <2> SUFFICES ASSUME Fields(m) = {"n", "t"}, Long(m, "n"), Long(m, "t")
               PROVE  m.n \in regs' \cup cache' /\ UNCHANGED recordVars
    BY DEF RegistrationTaken
  <2>1. Registration(m)
    BY DEF IsREG, Handle
  <2> QED
    BY <1>3, <2>1 DEF Registration
<1>4. ASSUME ~IsList(m), GoodPlace(m) PROVE UpdateTaken(m)
  <2> SUFFICES ASSUME Fields(m) \subseteq {"attributes", "loc"}
               PROVE  upd' # upd
    BY DEF UpdateTaken
  <2>1. ~IsREG(m) /\ ~IsSUBMIT(m) /\ IsUPDATE(m)
    BY <1>4 DEF IsREG, IsSUBMIT, IsUPDATE, Long
  <2> QED
    BY <2>1, UpdateBegins DEF Handle
<1>5. ASSUME ~IsList(m), GoodPlace(m) PROVE ShortTaken(m)
  <2> SUFFICES ASSUME \/ Fields(m) = {"n", "v"} /\ ~Long(m, "n")
                      \/ Fields(m) = {"n", "t"} /\ ~(Long(m, "n") /\ Long(m, "t"))
               PROVE  upd' # upd /\ UNCHANGED <<sent, regs>>
    BY DEF ShortTaken
  <2>1. ~IsREG(m) /\ ~IsSUBMIT(m) /\ IsUPDATE(m)
    BY <1>5 DEF IsREG, IsSUBMIT, IsUPDATE
  <2> QED
    BY <2>1, UpdateBegins DEF Handle
<1> QED
  BY <1>1, <1>2, <1>3, <1>4, <1>5

(* TakenFor, for messages of any fields and of any number of names.        *)
THEOREM KindsStay == Spec => TakenFor
<1>1. TypeOK /\ [Next]_vars => [\A m \in Sendable : Taken(m)]_vars
  BY EachTaken
<1> QED
  BY <1>1, AgentTypesHold, PTL DEF Spec, TakenFor
=============================================================================
