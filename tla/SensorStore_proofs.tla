-------------------------- MODULE SensorStore_proofs --------------------------
(***************************************************************************)
(* What the list operations return: lists of components again, with        *)
(* nothing in them that was not in their arguments; and what a merge of    *)
(* the cloud's list keeps.                                                 *)
(***************************************************************************)
EXTENDS SensorStore, SequenceTheorems, WellFoundedInduction,
        FiniteSetTheorems, TLAPS

(* Adding puts the component on the list and changes nothing else. *)
LEMMA AddRange ==
    ASSUME NEW list \in Seq(Component), NEW sen \in Component
    PROVE  /\ Add(list, sen) \in Seq(Component)
           /\ Range(Add(list, sen)) = Range(list) \cup {sen}
<1>1. Append(list, sen) \in Seq(Component)
  OBVIOUS
<1>2. /\ DOMAIN Append(list, sen) = 1 .. Len(list) + 1
      /\ DOMAIN list = 1 .. Len(list)
      /\ \A i \in 1 .. Len(list) : Append(list, sen)[i] = list[i]
      /\ Append(list, sen)[Len(list) + 1] = sen
  OBVIOUS
<1>3. \A i \in 1 .. Len(list) + 1 : i \in 1 .. Len(list) \/ i = Len(list) + 1
  OBVIOUS
<1>4. \A i \in 1 .. Len(list) : i \in 1 .. Len(list) + 1
  OBVIOUS
<1>5. Len(list) + 1 \in 1 .. Len(list) + 1
  OBVIOUS
<1>6. Range(Append(list, sen)) = Range(list) \cup {sen}
  BY <1>2, <1>3, <1>4, <1>5 DEF Range
<1> QED
  BY <1>1, <1>6 DEF Add

(* A non-empty set of positions has a least one. *)
LEMMA MinOfHits ==
    ASSUME NEW S \in SUBSET Nat, S # {}
    PROVE  Min(S) \in S /\ \A y \in S : Min(S) <= y
<1>1. \E x \in S : \A y \in S : ~ (<<y, x>> \in OpToRel(<, Nat))
  BY NatLessThanWellFounded, WFMin
<1>2. ASSUME NEW x \in Nat, NEW y \in Nat, ~ (<<y, x>> \in OpToRel(<, Nat))
      PROVE  x <= y
  <2>1. <<y, x>> \in Nat \X Nat /\ <<y, x>>[1] = y /\ <<y, x>>[2] = x
    OBVIOUS
  <2>2. ~ (y < x)
    BY <1>2, <2>1 DEF OpToRel
  <2> QED
    BY <2>2
<1>3. \E x \in S : \A y \in S : x <= y
  BY <1>1, <1>2
<1> QED
  BY <1>3 DEF Min

(* What a hit finds is on the list. *)
LEMMA FoundIsListed ==
    ASSUME NEW list \in Seq(Component), NEW hits \in SUBSET DOMAIN list, hits # {}
    PROVE  Found(list, hits) \in Range(list)
<1>1. hits \in SUBSET Nat
  OBVIOUS
<1> QED
  BY <1>1, MinOfHits DEF Found, Range

(* Deleting by id takes out the first entry of the id and moves up those   *)
(* behind it.                                                              *)
LEMMA DelMovesUp ==
    ASSUME NEW list \in Seq(Component), NEW cid, ByCid(list, cid) # {}
    PROVE  \E m \in ByCid(list, cid) :
              /\ Del(list, cid) \in Seq(Component)
              /\ Len(Del(list, cid)) = Len(list) - 1
              /\ \A i \in 1 .. Len(list) - 1 :
                    Del(list, cid)[i] = IF i <= m - 1 THEN list[i] ELSE list[i + 1]
<1> DEFINE m == Min(ByCid(list, cid))
           a == SubSeq(list, 1, m - 1)
           b == SubSeq(list, m + 1, Len(list))
<1>1. ByCid(list, cid) \in SUBSET Nat
  BY DEF ByCid
<1>2. m \in ByCid(list, cid)
  BY <1>1, MinOfHits
<1>3. m \in 1 .. Len(list)
  BY <1>2 DEF ByCid
<1> HIDE DEF m
<1>4. /\ a \in Seq(Component) /\ Len(a) = m - 1
      /\ \A i \in 1 .. m - 1 : a[i] = list[i]
  BY <1>3
<1>5. /\ b \in Seq(Component) /\ Len(b) = Len(list) - m
      /\ \A i \in 1 .. Len(list) - m : b[i] = list[m + i]
  BY <1>3
<1> HIDE DEF a, b
<1>6. /\ a \o b \in Seq(Component)
      /\ Len(a \o b) = Len(list) - 1
      /\ \A i \in 1 .. Len(list) - 1 :
            (a \o b)[i] = IF i <= m - 1 THEN list[i] ELSE list[i + 1]
  <2>1. /\ a \o b \in Seq(Component) /\ Len(a \o b) = Len(list) - 1
    <3>1. a \o b \in Seq(Component) /\ Len(a \o b) = Len(a) + Len(b)
      BY <1>4, <1>5, ConcatProperties
    <3>2. Len(list) \in Nat /\ m \in Int
      BY <1>3
    <3> QED
      BY <3>1, <3>2, <1>4, <1>5
  <2>2. ASSUME NEW i \in 1 .. Len(list) - 1, i <= m - 1
        PROVE  (a \o b)[i] = list[i]
    BY <1>3, <1>4, <1>5, <2>2
  <2>3. ASSUME NEW i \in 1 .. Len(list) - 1, ~ (i <= m - 1)
        PROVE  (a \o b)[i] = list[i + 1]
    <3>1. (a \o b)[i] = b[i - (m - 1)]
      BY <1>3, <1>4, <1>5, <2>3
    <3>2. i - (m - 1) \in 1 .. Len(list) - m /\ m + (i - (m - 1)) = i + 1
      BY <1>3, <2>3
    <3> QED
      BY <3>1, <3>2, <1>5
  <2> QED
    BY <2>1, <2>2, <2>3
<1>7. Del(list, cid) = a \o b
  BY DEF Del, RemoveAt, m, a, b
<1> QED
  BY <1>2, <1>6, <1>7

(* Deleting by id leaves a list of components that were there before. *)
LEMMA DelRange ==
    ASSUME NEW list \in Seq(Component), NEW cid
    PROVE  /\ Del(list, cid) \in Seq(Component)
           /\ Range(Del(list, cid)) \subseteq Range(list)
<1>1. CASE ByCid(list, cid) = {}
  BY <1>1 DEF Del
<1>2. CASE ByCid(list, cid) # {}
  <2>1. PICK m \in ByCid(list, cid) :
           /\ Del(list, cid) \in Seq(Component)
           /\ Len(Del(list, cid)) = Len(list) - 1
           /\ \A i \in 1 .. Len(list) - 1 :
                 Del(list, cid)[i] = IF i <= m - 1 THEN list[i] ELSE list[i + 1]
    BY <1>2, DelMovesUp
  <2>2. \A i \in 1 .. Len(list) - 1 : i \in DOMAIN list /\ i + 1 \in DOMAIN list
    OBVIOUS
  <2>3. DOMAIN Del(list, cid) = 1 .. Len(list) - 1
    BY <2>1, LenProperties
  <2>4. \A i \in DOMAIN Del(list, cid) : Del(list, cid)[i] \in Range(list)
    BY <2>1, <2>2, <2>3 DEF Range
  <2> QED
    BY <2>1, <2>4 DEF Range
<1> QED
  BY <1>1, <1>2

(* A concatenation has what its parts have. *)
LEMMA ConcatKeeps ==
    ASSUME NEW a \in Seq(Component), NEW b \in Seq(Component)
    PROVE  Range(a) \cup Range(b) \subseteq Range(a \o b)
<1>1. /\ a \o b \in Seq(Component) /\ Len(a \o b) = Len(a) + Len(b)
      /\ \A i \in 1 .. Len(a) + Len(b) :
            (a \o b)[i] = IF i <= Len(a) THEN a[i] ELSE b[i - Len(a)]
  BY ConcatProperties
<1>2. \A i \in 1 .. Len(a) : i \in DOMAIN (a \o b) /\ (a \o b)[i] = a[i]
  BY <1>1
<1>3. \A i \in 1 .. Len(b) :
         Len(a) + i \in DOMAIN (a \o b) /\ (a \o b)[Len(a) + i] = b[i]
  <2> SUFFICES ASSUME NEW i \in 1 .. Len(b)
               PROVE  Len(a) + i \in DOMAIN (a \o b) /\ (a \o b)[Len(a) + i] = b[i]
    OBVIOUS
  <2>1. /\ Len(a) + i \in 1 .. Len(a) + Len(b)
        /\ ~ (Len(a) + i <= Len(a)) /\ (Len(a) + i) - Len(a) = i
    OBVIOUS
  <2>2. DOMAIN (a \o b) = 1 .. Len(a) + Len(b)
    BY <1>1, LenProperties
  <2> QED
    BY <1>1, <2>1, <2>2
<1>4. DOMAIN a = 1 .. Len(a) /\ DOMAIN b = 1 .. Len(b)
  OBVIOUS
<1> QED
  BY <1>2, <1>3, <1>4 DEF Range

(* Deleting by id keeps what has another id. *)
LEMMA DelKeeps ==
    ASSUME NEW list \in Seq(Component), NEW cid,
           NEW x \in Range(list), x.cid # cid
    PROVE  x \in Range(Del(list, cid))
<1>1. CASE ByCid(list, cid) = {}
  BY <1>1 DEF Del
<1>2. CASE ByCid(list, cid) # {}
  <2> DEFINE m == Min(ByCid(list, cid))
             a == SubSeq(list, 1, m - 1)
             b == SubSeq(list, m + 1, Len(list))
  <2>1. ByCid(list, cid) \in SUBSET Nat
    BY DEF ByCid
  <2>2. m \in 1 .. Len(list) /\ list[m].cid = cid
    <3>1. m \in ByCid(list, cid)
      BY <1>2, <2>1, MinOfHits
    <3> HIDE DEF m
    <3> QED
      BY <3>1 DEF ByCid
  <2> HIDE DEF m
  <2>3. /\ a \in Seq(Component) /\ Len(a) = m - 1
        /\ \A i \in 1 .. m - 1 : a[i] = list[i]
    BY <2>2
  <2>4. /\ b \in Seq(Component) /\ Len(b) = Len(list) - m
        /\ \A i \in 1 .. Len(list) - m : b[i] = list[m + i]
    BY <2>2
  <2>5. Del(list, cid) = a \o b
    BY <1>2 DEF Del, RemoveAt, m, a, b
  <2> HIDE DEF a, b
  <2>6. PICK i \in 1 .. Len(list) : list[i] = x
    BY DEF Range
  <2>7. i # m
    BY <2>2, <2>6
  <2>8. CASE i < m
    <3>1. i \in 1 .. Len(a) /\ a[i] = x
      BY <2>2, <2>3, <2>6, <2>8
    <3>2. x \in Range(a)
      BY <3>1, <2>3 DEF Range
    <3> QED
      BY <3>2, <2>3, <2>4, <2>5, ConcatKeeps
  <2>9. CASE i > m
    <3>1. i - m \in 1 .. Len(b) /\ b[i - m] = x
      BY <2>2, <2>4, <2>6, <2>9
    <3>2. x \in Range(b)
      BY <3>1, <2>4 DEF Range
    <3> QED
      BY <3>2, <2>3, <2>4, <2>5, ConcatKeeps
  <2> QED
    BY <2>2, <2>7, <2>8, <2>9
<1> QED
  BY <1>1, <1>2

(* One turn of the merge loop: the result holds the cloud's component and  *)
(* otherwise only what was in memory or on disk.                           *)
LEMMA SyncOneRange ==
    ASSUME NEW list \in Seq(Component), NEW sen \in Component,
           NEW disk \in Seq(Component)
    PROVE  /\ SyncOne(list, sen, disk) \in Seq(Component)
           /\ Range(SyncOne(list, sen, disk)) \subseteq
                  Range(list) \cup {sen} \cup Range(disk)
<1> DEFINE data == Refreshed(list, ByName(list, sen.name), disk)
           kept == IF ByName(data, sen.name) = {} THEN data ELSE Del(data, sen.cid)
<1>1. data \in Seq(Component) /\ Range(data) \subseteq Range(list) \cup Range(disk)
  BY DEF Refreshed
<1> HIDE DEF data
<1>2. kept \in Seq(Component) /\ Range(kept) \subseteq Range(data)
  BY <1>1, DelRange
<1>3. SyncOne(list, sen, disk) = Add(kept, sen)
  BY DEF SyncOne, data
<1> HIDE DEF kept
<1>4. /\ Add(kept, sen) \in Seq(Component)
      /\ Range(Add(kept, sen)) = Range(kept) \cup {sen}
  BY <1>2, AddRange
<1> QED
  BY <1>1, <1>2, <1>3, <1>4

(* A list whose entries of an id can be sent, one to one, to entries of it *)
(* in another list has no more of them.                                    *)
LEMMA FewerCopies ==
    ASSUME NEW new, NEW old, NEW c, NEW f,
           \A i \in ByCid(new, c) : f[i] \in ByCid(old, c),
           \A i, j \in ByCid(new, c) : f[i] = f[j] => i = j
    PROVE  /\ AtMostOnce(old, c) => AtMostOnce(new, c)
           /\ AtMostTwice(old, c) => AtMostTwice(new, c)
<1>1. AtMostOnce(old, c) => AtMostOnce(new, c)
  BY DEF AtMostOnce
<1>2. AtMostTwice(old, c) => AtMostTwice(new, c)
  BY DEF AtMostTwice
<1> QED
  BY <1>1, <1>2

(* Adding makes one more of the added id and none of another. *)
LEMMA AddCopies ==
    ASSUME NEW list \in Seq(Component), NEW sen \in Component, NEW c
    PROVE  /\ ByCid(Add(list, sen), c) =
                 ByCid(list, c) \cup (IF c = sen.cid THEN {Len(list) + 1} ELSE {})
           /\ Len(list) + 1 \notin ByCid(list, c)
<1>1. /\ DOMAIN Append(list, sen) = 1 .. Len(list) + 1
      /\ DOMAIN list = 1 .. Len(list)
      /\ \A i \in 1 .. Len(list) : Append(list, sen)[i] = list[i]
      /\ Append(list, sen)[Len(list) + 1] = sen
      /\ Len(list) \in Nat
  OBVIOUS
<1>2. 1 .. Len(list) + 1 = 1 .. Len(list) \cup {Len(list) + 1}
  BY <1>1
<1> QED
  BY <1>1, <1>2 DEF Add, ByCid

LEMMA AddOnce ==
    ASSUME NEW list \in Seq(Component), NEW sen \in Component, NEW c
    PROVE  /\ c = sen.cid /\ ByCid(list, c) = {} => AtMostOnce(Add(list, sen), c)
           /\ c = sen.cid /\ AtMostOnce(list, c) => AtMostTwice(Add(list, sen), c)
           /\ c # sen.cid /\ AtMostOnce(list, c) => AtMostOnce(Add(list, sen), c)
           /\ c # sen.cid /\ AtMostTwice(list, c) => AtMostTwice(Add(list, sen), c)
<1>1. ByCid(Add(list, sen), c) =
         ByCid(list, c) \cup (IF c = sen.cid THEN {Len(list) + 1} ELSE {})
  BY AddCopies
<1> QED
  BY <1>1 DEF AtMostOnce, AtMostTwice

(* Deleting makes no more copies, and one less of the deleted id: adding   *)
(* what was deleted makes no more than there were.                         *)
LEMMA DelCopies ==
    ASSUME NEW list \in Seq(Component), NEW cid, NEW c
    PROVE  /\ AtMostOnce(list, c) => AtMostOnce(Del(list, cid), c)
           /\ AtMostTwice(list, c) => AtMostTwice(Del(list, cid), c)
           /\ \A sen \in Component : sen.cid = cid /\ ByCid(list, cid) # {} =>
                 /\ AtMostOnce(list, c) => AtMostOnce(Add(Del(list, cid), sen), c)
                 /\ AtMostTwice(list, c) => AtMostTwice(Add(Del(list, cid), sen), c)
<1>1. CASE ByCid(list, cid) = {}
  BY <1>1 DEF Del
<1>2. CASE ByCid(list, cid) # {}
  <2> DEFINE short == Del(list, cid)
             n == Len(list)
  <2>1. PICK m \in ByCid(list, cid) :
           /\ short \in Seq(Component)
           /\ Len(short) = n - 1
           /\ \A i \in 1 .. n - 1 :
                 short[i] = IF i <= m - 1 THEN list[i] ELSE list[i + 1]
    BY <1>2, DelMovesUp
  <2>2. m \in 1 .. n /\ list[m].cid = cid /\ n \in Nat /\ DOMAIN list = 1 .. n
    BY <2>1 DEF ByCid
  <2>3. DOMAIN short = 1 .. n - 1
    BY <2>1, LenProperties
  <2> HIDE DEF short, n
  <2> DEFINE f == [i \in 1 .. n - 1 |-> IF i <= m - 1 THEN i ELSE i + 1]
             g == [i \in 1 .. n |-> IF i = n THEN m ELSE f[i]]
  <2>4. \A i \in 1 .. n - 1 : f[i] \in 1 .. n /\ f[i] # m /\ short[i] = list[f[i]]
    BY <2>1, <2>2
  <2>5. \A i, j \in 1 .. n - 1 : f[i] = f[j] => i = j
    BY <2>2
  <2> HIDE DEF f
  <2>6. \A i \in ByCid(short, c) : i \in 1 .. n - 1 /\ f[i] \in ByCid(list, c)
    BY <2>2, <2>3, <2>4 DEF ByCid
  <2>7. /\ AtMostOnce(list, c) => AtMostOnce(short, c)
        /\ AtMostTwice(list, c) => AtMostTwice(short, c)
    <3>1. \A i, j \in ByCid(short, c) : f[i] = f[j] => i = j
      BY <2>5, <2>6
    <3> QED
      BY <2>6, <3>1, FewerCopies
  <2>8. ASSUME NEW sen \in Component, sen.cid = cid
        PROVE  /\ AtMostOnce(list, c) => AtMostOnce(Add(short, sen), c)
               /\ AtMostTwice(list, c) => AtMostTwice(Add(short, sen), c)
    <3>1. ByCid(Add(short, sen), c) =
             ByCid(short, c) \cup (IF c = cid THEN {Len(short) + 1} ELSE {})
      BY <2>1, <2>8, AddCopies
    <3>2. Len(short) + 1 = n /\ n \in 1 .. n /\ \A i \in 1 .. n - 1 : i \in 1 .. n /\ i # n
      BY <2>1, <2>2
    <3>3. g[n] = m /\ \A i \in 1 .. n - 1 : g[i] = f[i]
      BY <3>2
    <3> HIDE DEF g
    <3>4. \A i \in ByCid(Add(short, sen), c) :
             /\ g[i] \in ByCid(list, c)
             /\ i = n \/ i \in 1 .. n - 1
      BY <2>1, <2>6, <3>1, <3>2, <3>3
    <3>5. \A i, j \in ByCid(Add(short, sen), c) : g[i] = g[j] => i = j
      BY <2>4, <2>5, <3>3, <3>4
    <3> QED
      BY <3>4, <3>5, FewerCopies
  <2> QED
    BY <2>7, <2>8 DEF short
<1> QED
  BY <1>1, <1>2

(* One turn of the merge loop lists no id more often than memory or disk   *)
(* did, but for one that neither had.                                      *)
LEMMA SyncOneCopies ==
    ASSUME NEW held \in SUBSET Component, \A a, b \in held : a.cid = b.cid => a = b,
           NEW list \in Seq(Component), Range(list) \subseteq held,
           NEW disk \in Seq(Component), Range(disk) \subseteq held,
           NEW sen \in held, NEW c
    PROVE  /\ AtMostOnce(list, c) /\ AtMostOnce(disk, c)
                 => AtMostOnce(SyncOne(list, sen, disk), c)
           /\ AtMostTwice(list, c) /\ AtMostTwice(disk, c)
                 => AtMostTwice(SyncOne(list, sen, disk), c)
<1> DEFINE data == Refreshed(list, ByName(list, sen.name), disk)
           kept == IF ByName(data, sen.name) = {} THEN data ELSE Del(data, sen.cid)
<1>1. data \in {list, disk} /\ data \in Seq(Component) /\ Range(data) \subseteq held
  BY DEF Refreshed
<1>2. SyncOne(list, sen, disk) = Add(kept, sen)
  BY DEF SyncOne
<1> HIDE DEF data
<1>3. ByName(data, sen.name) = {} => ByCid(data, sen.cid) = {}
  <2> SUFFICES ASSUME NEW i \in ByCid(data, sen.cid) PROVE i \in ByName(data, sen.name)
    OBVIOUS
  <2>1. data[i] \in held /\ data[i].cid = sen.cid /\ i \in DOMAIN data
    BY <1>1 DEF ByCid, Range
  <2>2. data[i] = sen
    BY <2>1
  <2> QED
    BY <2>1, <2>2 DEF ByName, SameText
<1>4. AtMostOnce(data, c) => AtMostTwice(data, c)
  BY DEF AtMostOnce, AtMostTwice
<1>5. CASE ByCid(data, sen.cid) = {}
  <2>1. kept = data
    BY <1>5 DEF Del
  <2>2. AtMostOnce(Add(data, sen), c) => AtMostTwice(Add(data, sen), c)
    BY DEF AtMostOnce, AtMostTwice
  <2> QED
    BY <1>1, <1>2, <1>5, <2>1, <2>2, AddOnce
<1>6. CASE ByCid(data, sen.cid) # {}
  <2>1. SyncOne(list, sen, disk) = Add(Del(data, sen.cid), sen)
    BY <1>2, <1>3, <1>6
  <2>2. /\ AtMostOnce(data, c) => AtMostOnce(Add(Del(data, sen.cid), sen), c)
        /\ AtMostTwice(data, c) => AtMostTwice(Add(Del(data, sen.cid), sen), c)
    BY <1>1, <1>6, DelCopies
  <2> QED
    BY <1>1, <2>1, <2>2
<1> QED
  BY <1>5, <1>6

(* The recursive function of the loop exists: its induction over the       *)
(* cloud's list is by the least turn that goes wrong.                      *)
LEMMA SyncAllRuns ==
    ASSUME NEW list \in Seq(Component), NEW data \in Seq(Component),
           NEW disk \in Seq(Component)
    PROVE  \E after :
              /\ after[0] = list
              /\ \A k \in 1 .. Len(data) : after[k] = SyncOne(after[k - 1], data[k], disk)
              /\ SyncAll(list, data, disk) = after[Len(data)]
<1> DEFINE n == Len(data)
           Turn(l, i) == SyncOne(l, data[i], disk)
           Runs(f, k) == f = [i \in 0 .. k |-> IF i = 0 THEN list ELSE Turn(f[i - 1], i)]
           after == CHOOSE f : Runs(f, n)
<1>1. n \in Nat
  OBVIOUS
<1>2. \E f : Runs(f, n)
  <2> DEFINE Bad == {k \in 0 .. n : ~ \E f : Runs(f, k)}
  <2> HIDE DEF Turn
  <2>1. SUFFICES ASSUME Bad # {} PROVE FALSE
    BY <1>1
  <2>2. PICK k \in Bad : \A j \in Bad : k <= j
    <3>1. Bad \in SUBSET Nat
      OBVIOUS
    <3> QED
      BY <3>1, <2>1, MinOfHits
  <2>3. k \in 0 .. n /\ ~ \E f : Runs(f, k)
    BY <2>2
  <2>4. k # 0
    <3>1. Runs([i \in 0 .. 0 |-> list], 0)
      OBVIOUS
    <3> QED
      BY <3>1, <2>3
  <2>5. k - 1 \in 0 .. n /\ k - 1 \notin Bad
    <3>1. k \in Int /\ k - 1 \in 0 .. n /\ ~ (k <= k - 1)
      BY <2>3, <2>4, <1>1
    <3> HIDE DEF Bad
    <3> QED
      BY <3>1, <2>2
  <2>6. PICK f : Runs(f, k - 1)
    BY <2>5
  <2> DEFINE g == [i \in 0 .. k |-> IF i < k THEN f[i] ELSE Turn(f[k - 1], k)]
  <2>7. ASSUME NEW i \in 0 .. k
        PROVE  g[i] = IF i = 0 THEN list ELSE Turn(g[i - 1], i)
    <3>1. CASE i = 0
      BY <3>1, <2>3, <2>4, <2>6
    <3>2. CASE i # 0 /\ i < k
      <4>1. g[i] = f[i] /\ g[i - 1] = f[i - 1] /\ i \in 0 .. k - 1
        BY <3>2, <2>3, <1>1
      <4>2. f[i] = Turn(f[i - 1], i)
        BY <4>1, <3>2, <2>6
      <4> QED
        BY <4>1, <4>2, <3>2
    <3>3. CASE i = k
      <4>1. g[i] = Turn(f[k - 1], k) /\ g[i - 1] = f[k - 1]
        BY <3>3, <2>3, <2>4, <1>1
      <4> QED
        BY <4>1, <3>3, <2>4
    <3> QED
      BY <3>1, <3>2, <3>3, <2>3, <1>1
  <2>8. Runs(g, k)
    <3> HIDE DEF g
    <3>1. g = [i \in 0 .. k |-> g[i]]
      BY DEF g
    <3> QED
      BY <3>1, <2>7
  <2> QED
    BY <2>8, <2>3
<1>3. Runs(after, n)
  BY <1>2
<1>4. SyncAll(list, data, disk) = after[n]
  BY DEF SyncAll
<1> HIDE DEF after
<1>5. after[0] = list
  BY <1>1, <1>3
<1>6. \A k \in 1 .. n : after[k] = SyncOne(after[k - 1], data[k], disk)
  <2> SUFFICES ASSUME NEW k \in 1 .. n PROVE after[k] = SyncOne(after[k - 1], data[k], disk)
    OBVIOUS
  <2>1. k \in 0 .. n /\ k # 0
    BY <1>1
  <2> QED
    BY <2>1, <1>3
<1> QED
  BY <1>4, <1>5, <1>6

(* Each of its values is a list of components from its sources. *)
LEMMA SyncAllRange ==
    ASSUME NEW list \in Seq(Component), NEW data \in Seq(Component),
           NEW disk \in Seq(Component)
    PROVE  /\ SyncAll(list, data, disk) \in Seq(Component)
           /\ Range(SyncAll(list, data, disk)) \subseteq
                  Range(list) \cup Range(data) \cup Range(disk)
<1> DEFINE n == Len(data)
           all == Range(list) \cup Range(data) \cup Range(disk)
<1>1. n \in Nat
  OBVIOUS
<1>2. PICK after :
         /\ after[0] = list
         /\ \A k \in 1 .. n : after[k] = SyncOne(after[k - 1], data[k], disk)
         /\ SyncAll(list, data, disk) = after[n]
  BY SyncAllRuns
<1>5. \A k \in 0 .. n : after[k] \in Seq(Component) /\ Range(after[k]) \subseteq all
  <2> DEFINE Fine(k) == after[k] \in Seq(Component) /\ Range(after[k]) \subseteq all
             Bad == {k \in 0 .. n : ~ Fine(k)}
  <2>1. SUFFICES ASSUME Bad # {} PROVE FALSE
    OBVIOUS
  <2>2. PICK k \in Bad : \A j \in Bad : k <= j
    <3>1. Bad \in SUBSET Nat
      OBVIOUS
    <3> QED
      BY <3>1, <2>1, MinOfHits
  <2>3. k \in 0 .. n /\ ~ Fine(k)
    BY <2>2
  <2>4. CASE k = 0
    <3>1. after[0] = list
      BY <1>2
    <3> QED
      BY <3>1, <2>3, <2>4
  <2>5. CASE k # 0
    <3>1. k - 1 \in 0 .. n /\ k \in 1 .. n
      BY <2>3, <2>5, <1>1
    <3>2. k - 1 \notin Bad
      BY <2>2, <2>3
    <3>3. Fine(k - 1)
      BY <3>1, <3>2
    <3>4. after[k] = SyncOne(after[k - 1], data[k], disk)
      BY <3>1, <1>2
    <3>5. data[k] \in Component /\ data[k] \in Range(data)
      BY <3>1 DEF Range
    <3>6. /\ SyncOne(after[k - 1], data[k], disk) \in Seq(Component)
          /\ Range(SyncOne(after[k - 1], data[k], disk)) \subseteq
                Range(after[k - 1]) \cup {data[k]} \cup Range(disk)
      BY <3>3, <3>5, SyncOneRange
    <3>7. Fine(k)
      BY <3>3, <3>4, <3>5, <3>6
    <3> QED
      BY <3>7, <2>3
  <2> QED
    BY <2>4, <2>5
<1> QED
  BY <1>1, <1>2, <1>5

(* Nor does the loop. *)
LEMMA SyncAllCopies ==
    ASSUME NEW held \in SUBSET Component, \A a, b \in held : a.cid = b.cid => a = b,
           NEW list \in Seq(Component), Range(list) \subseteq held,
           NEW disk \in Seq(Component), Range(disk) \subseteq held,
           NEW data \in Seq(Component), Range(data) \subseteq held, NEW c
    PROVE  /\ AtMostOnce(list, c) /\ AtMostOnce(disk, c)
                 => AtMostOnce(SyncAll(list, data, disk), c)
           /\ AtMostTwice(list, c) /\ AtMostTwice(disk, c)
                 => AtMostTwice(SyncAll(list, data, disk), c)
<1> DEFINE n == Len(data)
<1>1. n \in Nat
  OBVIOUS
<1>2. PICK after :
         /\ after[0] = list
         /\ \A k \in 1 .. n : after[k] = SyncOne(after[k - 1], data[k], disk)
         /\ SyncAll(list, data, disk) = after[n]
  BY SyncAllRuns
<1> DEFINE Fine(k) ==
              /\ after[k] \in Seq(Component) /\ Range(after[k]) \subseteq held
              /\ AtMostOnce(list, c) /\ AtMostOnce(disk, c) => AtMostOnce(after[k], c)
              /\ AtMostTwice(list, c) /\ AtMostTwice(disk, c) => AtMostTwice(after[k], c)
           Bad == {k \in 0 .. n : ~ Fine(k)}
<1>3. Fine(0)
  BY <1>2
<1>4. ASSUME NEW k \in 1 .. n, Fine(k - 1) PROVE Fine(k)
  <2>1. data[k] \in held /\ data[k] \in Component
    BY DEF Range
  <2>2. after[k] = SyncOne(after[k - 1], data[k], disk)
    BY <1>2
  <2>3. after[k] \in Seq(Component) /\ Range(after[k]) \subseteq held
    BY <1>4, <2>1, <2>2, SyncOneRange
  <2> DEFINE old == after[k - 1]
             sen == data[k]
  <2>4. /\ old \in Seq(Component) /\ Range(old) \subseteq held /\ sen \in held
        /\ after[k] = SyncOne(old, sen, disk)
    BY <1>4, <2>1, <2>2
  <2> HIDE DEF old, sen
  <2>5. /\ AtMostOnce(old, c) /\ AtMostOnce(disk, c) => AtMostOnce(SyncOne(old, sen, disk), c)
        /\ AtMostTwice(old, c) /\ AtMostTwice(disk, c) => AtMostTwice(SyncOne(old, sen, disk), c)
    BY <2>4, SyncOneCopies
  <2>6. /\ AtMostOnce(after[k - 1], c) /\ AtMostOnce(disk, c) => AtMostOnce(after[k], c)
        /\ AtMostTwice(after[k - 1], c) /\ AtMostTwice(disk, c) => AtMostTwice(after[k], c)
    BY <2>4, <2>5 DEF old
  <2> QED
    BY <1>4, <2>3, <2>6
<1> HIDE DEF Fine
<1>5. Bad = {}
  <2>1. SUFFICES ASSUME Bad # {} PROVE FALSE
    OBVIOUS
  <2>2. PICK k \in Bad : \A j \in Bad : k <= j
    <3>1. Bad \in SUBSET Nat
      OBVIOUS
    <3> QED
      BY <3>1, <2>1, MinOfHits
  <2>3. k \in 1 .. n /\ k - 1 \in 0 .. n /\ ~ (k <= k - 1)
    BY <1>1, <1>3, <2>2
  <2>4. Fine(k - 1)
    BY <2>2, <2>3
  <2> QED
    BY <1>4, <2>2, <2>3, <2>4
<1>6. Fine(n)
  BY <1>1, <1>5
<1> QED
  BY <1>2, <1>6 DEF Fine

(* One turn keeps what is listed: by a hit what was in memory, and after a *)
(* miss, which is only on a component that was not there, what is on disk. *)
LEMMA SyncOneKeeps ==
    ASSUME NEW list \in Seq(Component), NEW disk \in Seq(Component),
           NEW listed \in SUBSET Component, NEW sen \in listed,
           \A a, b \in listed : a.cid = b.cid => a = b
    PROVE  /\ sen \in Range(SyncOne(list, sen, disk))
           /\ \/ Range(list) \cap listed \subseteq Range(SyncOne(list, sen, disk))
              \/ /\ sen \notin Range(list)
                 /\ Range(disk) \cap listed \subseteq Range(SyncOne(list, sen, disk))
<1> DEFINE data == Refreshed(list, ByName(list, sen.name), disk)
           kept == IF ByName(data, sen.name) = {} THEN data ELSE Del(data, sen.cid)
<1>1. data \in Seq(Component)
  BY DEF Refreshed
<1>2. \/ data = list
      \/ data = disk /\ sen \notin Range(list)
  <2>1. sen \in Range(list) => ByName(list, sen.name) # {}
    BY DEF Range, ByName, SameText
  <2> QED
    BY <2>1 DEF Refreshed
<1> HIDE DEF data
<1>3. kept \in Seq(Component)
  BY <1>1, DelRange
<1>4. \A x \in Range(data) \cap listed : x = sen \/ x \in Range(kept)
  BY <1>1, DelKeeps
<1>5. SyncOne(list, sen, disk) = Add(kept, sen)
  BY DEF SyncOne, data
<1> HIDE DEF kept
<1>6. Range(Add(kept, sen)) = Range(kept) \cup {sen}
  BY <1>3, AddRange
<1> QED
  BY <1>2, <1>4, <1>5, <1>6

(* The loop keeps what is on disk and listed; if memory and disk agree, it *)
(* ends with all that is listed, or with something that is not on disk.    *)
LEMMA SyncAllKeeps ==
    ASSUME NEW list \in Seq(Component), NEW data \in Seq(Component),
           NEW disk \in Seq(Component),
           \A a, b \in Range(data) : a.cid = b.cid => a = b
    PROVE  LET after == Range(SyncAll(list, data, disk))
           IN  /\ Range(disk) \cap Range(data) \subseteq after
               /\ Range(list) = Range(disk) =>
                     \/ Range(data) \subseteq after
                     \/ \E c \in Range(data) : c \in after /\ c \notin Range(disk)
<1>1. PICK after :
         /\ after[0] = list
         /\ \A k \in 1 .. Len(data) : after[k] = SyncOne(after[k - 1], data[k], disk)
         /\ SyncAll(list, data, disk) = after[Len(data)]
  BY SyncAllRuns
<1> DEFINE n == Len(data)
           listed == Range(data)
           turns(k) == {data[i] : i \in 1 .. k}
<1>2. n \in Nat /\ listed \in SUBSET Component /\ turns(n) = listed
  BY DEF Range
<1> DEFINE Kept(k) == Range(disk) \cap turns(k) \subseteq Range(after[k])
           Gained(k) ==
              /\ Range(disk) \cap listed \subseteq Range(after[k])
              /\ \/ turns(k) \subseteq Range(after[k])
                 \/ \E c \in listed : c \in Range(after[k]) /\ c \notin Range(disk)
           Fine(k) == /\ after[k] \in Seq(Component)
                      /\ Kept(k)
                      /\ Range(list) = Range(disk) => Gained(k)
           Bad == {k \in 0 .. n : ~ Fine(k)}
<1>3. Fine(0)
  <2>1. turns(0) = {}
    OBVIOUS
  <2> QED
    BY <1>1, <2>1
<1>4. ASSUME NEW k \in 1 .. n, Fine(k - 1)
      PROVE  Fine(k)
  <2>1. data[k] \in listed /\ data[k] \in Component
    BY DEF Range
  <2>2. turns(k) = turns(k - 1) \cup {data[k]}
    <3>1. 1 .. k = 1 .. k - 1 \cup {k}
      BY <1>2
    <3> QED
      BY <3>1
  <2>3. turns(k - 1) \subseteq listed
    <3>1. \A i \in 1 .. k - 1 : i \in DOMAIN data
      BY <1>2
    <3> QED
      BY <3>1 DEF Range
  <2> DEFINE old == after[k - 1]
             new == after[k]
  <2>4. old \in Seq(Component) /\ new = SyncOne(old, data[k], disk)
    BY <1>1, <1>4
  <2>5. new \in Seq(Component)
    BY <2>1, <2>4, SyncOneRange
  <2>6. /\ data[k] \in Range(new)
        /\ \/ Range(old) \cap listed \subseteq Range(new)
           \/ data[k] \notin Range(old) /\ Range(disk) \cap listed \subseteq Range(new)
    BY <1>2, <2>1, <2>4, SyncOneKeeps
  <2> HIDE DEF turns, listed
  <2>7. Kept(k)
    BY <1>4, <2>2, <2>3, <2>6
  <2>8. Range(list) = Range(disk) => Gained(k)
    BY <1>4, <2>1, <2>2, <2>3, <2>6
  <2> QED
    BY <2>5, <2>7, <2>8
<1> HIDE DEF Fine
<1>5. Bad = {}
  <2>1. SUFFICES ASSUME Bad # {} PROVE FALSE
    OBVIOUS
  <2>2. PICK k \in Bad : \A j \in Bad : k <= j
    <3>1. Bad \in SUBSET Nat
      OBVIOUS
    <3> QED
      BY <3>1, <2>1, MinOfHits
  <2>3. k \in 1 .. n /\ k - 1 \in 0 .. n /\ ~ (k <= k - 1)
    BY <1>2, <1>3, <2>2
  <2>4. Fine(k - 1)
    BY <2>2, <2>3
  <2> QED
    BY <1>4, <2>2, <2>3, <2>4
<1>6. Fine(n)
  BY <1>2, <1>5
<1> QED
  BY <1>1, <1>2, <1>6 DEF Fine

(* An enumeration of a finite set of components is a list of them. *)
LEMMA EnumerationRange ==
    ASSUME NEW S \in SUBSET Component, IsFiniteSet(S), NEW list \in SetToSeqs(S)
    PROVE  list \in Seq(Component) /\ Range(list) \subseteq S
<1>1. Cardinality(S) \in Nat
  BY FS_CardinalityType
<1>2. list \in [1 .. Cardinality(S) -> S]
  BY DEF SetToSeqs
<1>3. list \in Seq(S)
  BY <1>1, <1>2
<1>4. list \in Seq(Component)
  BY <1>3, SeqMonotonic
<1> QED
  BY <1>2, <1>4 DEF Range
=============================================================================
