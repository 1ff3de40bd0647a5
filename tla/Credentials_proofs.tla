--------------------------- MODULE Credentials_proofs ---------------------------
(***************************************************************************)
(* What any number of programs leave of the credentials, for any accounts  *)
(* and bounds: they keep their types, what a program uses is saved unless  *)
(* another saves over it, and credentials belong together when activations *)
(* and resets are done alone.                                              *)
(***************************************************************************)
EXTENDS Credentials, TLAPS

-----------------------------------------------------------------------------
(* The invariant of every use: where each callback has come *)

T(s) == Put("token", s.token)
R(s) == Put("refresh", s.refresh)
E(s) == Put("expire", s.expire)
A(s) == Put("account", s.account)

(* The saves that a callback of activation, of a refresh, or initialize    *)
(* may have left.                                                          *)
OfActivation(s, queue) ==
    \/ queue = <<>> \/ queue = <<A(s)>> \/ queue = <<E(s), A(s)>>
    \/ queue = <<R(s), E(s), A(s)>> \/ queue = <<T(s), R(s), E(s), A(s)>>
OfRefresh(s, queue) ==
    \/ queue = <<>> \/ queue = <<E(s)>> \/ queue = <<R(s), E(s)>>
    \/ queue = <<T(s), R(s), E(s)>>
OfReset(queue) ==
    \/ queue = <<Put("token", None)>>
    \/ queue = <<Put("account", NoAccount), Put("token", None)>>

Complete(s) == IsActivated(s) /\ s.refresh # None

(* An activation that comes to its last saves has saved a refresh token,   *)
(* and no program ever takes one off the file.                             *)
Shaped(p) ==
    /\ secret[p].refresh <= Len(owner)
    /\ phase[p] = "down" => saves[p] = <<>>
    /\ phase[p] = "activating" =>
          /\ OfActivation(secret[p], saves[p])
          /\ saves[p] # <<>> => Complete(secret[p])
          /\ Len(saves[p]) \in 1 .. 2 => disk.refresh # None
    /\ phase[p] = "running" => OfRefresh(secret[p], saves[p]) /\ Complete(secret[p])
    /\ phase[p] = "resetting" => OfReset(saves[p])

Placed(r) ==
    /\ r.grant <= Len(owner)
    /\ r.kind = "activate" => /\ phase[r.proc] = "activating" /\ saves[r.proc] = <<>>
                              /\ \A q \in calls : q.proc = r.proc => q = r
    /\ r.kind = "refresh" => phase[r.proc] = "running"

DiskRefreshes ==
    /\ disk.refresh <= Len(owner)
    /\ disk.account # NoAccount => disk.refresh # None

BaseInv ==
    /\ TypeOK
    /\ DiskRefreshes
    /\ \A r \in calls : Placed(r)
    /\ \A p \in Procs : Shaped(p)

-----------------------------------------------------------------------------
LEMMA InitBase == Init => BaseInv
<1> SUFFICES ASSUME Init PROVE BaseInv
  OBVIOUS
<1>1. TypeOK
  BY CredentialsAssumption DEF Init, TypeOK, Nothing, None, Secret, Grant
<1> QED
  BY <1>1 DEF BaseInv, Init, Nothing, None, DiskRefreshes, Shaped

LEMMA Queue ==
    ASSUME NEW a, NEW b, NEW c, NEW d
    PROVE  /\ Head(<<a>>) = a /\ Tail(<<a>>) = <<>> /\ Len(<<a>>) = 1
           /\ Head(<<a, b>>) = a /\ Tail(<<a, b>>) = <<b>> /\ Len(<<a, b>>) = 2
           /\ Head(<<a, b, c>>) = a /\ Tail(<<a, b, c>>) = <<b, c>> /\ Len(<<a, b, c>>) = 3
           /\ /\ Head(<<a, b, c, d>>) = a /\ Tail(<<a, b, c, d>>) = <<b, c, d>>
              /\ Len(<<a, b, c, d>>) = 4
           /\ Len(<<>>) = 0
OBVIOUS

LEMMA PutTyped ==
    ASSUME NEW s \in Secret
    PROVE  T(s) \in Save /\ R(s) \in Save /\ E(s) \in Save /\ A(s) \in Save
BY DEF Secret, Save, Put, T, R, E, A

LEMMA ResetTyped == Put("account", NoAccount) \in Save /\ Put("token", None) \in Save
BY CredentialsAssumption DEF Put, Save, Grant, None

(* What one save writes. *)
SetsToken(v) ==
    /\ disk'.token = v /\ disk'.refresh = disk.refresh
    /\ disk'.expire = disk.expire /\ disk'.account = disk.account
SetsRefresh(v) ==
    /\ disk'.token = disk.token /\ disk'.refresh = v
    /\ disk'.expire = disk.expire /\ disk'.account = disk.account
SetsExpire(v) ==
    /\ disk'.token = disk.token /\ disk'.refresh = disk.refresh
    /\ disk'.expire = v /\ disk'.account = disk.account
SetsAccount(v) ==
    /\ disk'.token = disk.token /\ disk'.refresh = disk.refresh
    /\ disk'.expire = disk.expire /\ disk'.account = v

LEMMA Writes ==
    ASSUME disk \in Secret, NEW v,
           NEW k, disk' = [disk EXCEPT ![k] = v]
    PROVE  /\ k = "token" => SetsToken(v) /\ (v \in Grant => disk' \in Secret)
           /\ k = "refresh" => SetsRefresh(v) /\ (v \in Grant => disk' \in Secret)
           /\ k = "expire" => SetsExpire(v) /\ (v \in Grant => disk' \in Secret)
           /\ k = "account" =>
                SetsAccount(v) /\ (v \in Accounts \cup {NoAccount} => disk' \in Secret)
<1>1. CASE k = "token"
  BY <1>1 DEF Secret, SetsToken
<1>2. CASE k = "refresh"
  BY <1>2 DEF Secret, SetsRefresh
<1>3. CASE k = "expire"
  BY <1>3 DEF Secret, SetsExpire
<1>4. CASE k = "account"
  BY <1>4 DEF Secret, SetsAccount
<1> QED
  BY <1>1, <1>2, <1>3, <1>4

(* One save: the value of the key at the head of the queue goes to disk.   *)
LEMMA Saved ==
    ASSUME TypeOK, NEW p \in Procs, SaveKey(p), NEW k, NEW v, NEW rest,
           Head(saves[p]) = Put(k, v), Tail(saves[p]) = rest
    PROVE  /\ saves' = [saves EXCEPT ![p] = rest] /\ saves'[p] = rest
           /\ k = "token" => SetsToken(v) /\ (v \in Grant => disk' \in Secret)
           /\ k = "refresh" => SetsRefresh(v) /\ (v \in Grant => disk' \in Secret)
           /\ k = "expire" => SetsExpire(v) /\ (v \in Grant => disk' \in Secret)
           /\ k = "account" =>
                SetsAccount(v) /\ (v \in Accounts \cup {NoAccount} => disk' \in Secret)
<1>1. Head(saves[p]).key = k /\ Head(saves[p]).value = v
  BY DEF Put
<1>2. disk' = [disk EXCEPT ![k] = v]
  BY <1>1, Zenon DEF SaveKey
<1>3. disk \in Secret /\ saves \in [Procs -> Seq(Save)]
  BY DEF TypeOK
<1>4. saves' = [saves EXCEPT ![p] = rest]
  BY DEF SaveKey
<1> QED
  BY <1>2, <1>3, <1>4, Writes

(* The order of the saves: token, refresh token, expiry, and the account   *)
(* last; of a reset, the account first.                                    *)
InOrder(p) ==
    LET s == secret[p]
        n == Len(saves[p])
    IN  /\ phase[p] = "activating" =>
              /\ n \in 1 .. 4
              /\ n = 4 => SetsToken(s.token)
              /\ n = 3 => SetsRefresh(s.refresh)
              /\ n = 2 => SetsExpire(s.expire)
              /\ n = 1 => SetsAccount(s.account)
        /\ phase[p] = "running" =>
              /\ n \in 1 .. 3
              /\ n = 3 => SetsToken(s.token)
              /\ n = 2 => SetsRefresh(s.refresh)
              /\ n = 1 => SetsExpire(s.expire)
        /\ phase[p] = "resetting" =>
              /\ n \in 1 .. 2
              /\ n = 2 => SetsAccount(NoAccount)
              /\ n = 1 => SetsToken(None)

LEMMA Ordered ==
    ASSUME BaseInv, NEW p \in Procs, SaveKey(p)
    PROVE  /\ InOrder(p)
           /\ disk' \in Secret
           /\ saves' \in [Procs -> Seq(Save)]
           /\ Len(saves'[p]) = Len(saves[p]) - 1
           /\ saves'[p] = <<>> <=> Len(saves[p]) = 1
           /\ \A q \in Procs : q # p => saves'[q] = saves[q]
           /\ phase[p] \in {"activating", "running", "resetting"}
           /\ phase[p] = "activating" => OfActivation(secret[p], saves'[p])
           /\ phase[p] = "running" => OfRefresh(secret[p], saves'[p])
           /\ phase[p] = "resetting" => saves'[p] = <<>> \/ OfReset(saves'[p])
<1> DEFINE s == secret[p]
           N == Put("account", NoAccount)
           O == Put("token", None)
<1>1. /\ TypeOK /\ Shaped(p) /\ s \in Secret /\ saves[p] # <<>>
      /\ saves \in [Procs -> Seq(Save)]
      /\ phase[p] \in {"activating", "running", "resetting"}
  BY DEF BaseInv, TypeOK, SaveKey, Shaped
<1>2. /\ T(s) \in Save /\ R(s) \in Save /\ E(s) \in Save /\ A(s) \in Save
      /\ N \in Save /\ O \in Save
  BY <1>1, PutTyped, ResetTyped
<1>3. /\ s.token \in Grant /\ s.refresh \in Grant /\ s.expire \in Grant
      /\ s.account \in Accounts \cup {NoAccount} /\ None \in Grant
  BY <1>1, CredentialsAssumption DEF Secret, Grant, None
<1> DEFINE Done(rest) == /\ saves' = [saves EXCEPT ![p] = rest] /\ saves'[p] = rest
                         /\ disk' \in Secret
<1>4. ASSUME NEW rest, Tail(saves[p]) = rest
      PROVE  /\ Head(saves[p]) = T(s) => Done(rest) /\ SetsToken(s.token)
             /\ Head(saves[p]) = R(s) => Done(rest) /\ SetsRefresh(s.refresh)
             /\ Head(saves[p]) = E(s) => Done(rest) /\ SetsExpire(s.expire)
             /\ Head(saves[p]) = A(s) => Done(rest) /\ SetsAccount(s.account)
             /\ Head(saves[p]) = N => Done(rest) /\ SetsAccount(NoAccount)
             /\ Head(saves[p]) = O => Done(rest) /\ SetsToken(None)
  BY <1>1, <1>3, <1>4, Saved DEF T, R, E, A
<1>5. CASE phase[p] = "activating" /\ saves[p] = <<T(s), R(s), E(s), A(s)>>
  <2> DEFINE rest == <<R(s), E(s), A(s)>>
  <2>1. Head(saves[p]) = T(s) /\ Tail(saves[p]) = rest /\ Len(saves[p]) = 4 /\ Len(rest) = 3
    BY <1>5, Queue
  <2>2. rest \in Seq(Save) /\ (rest = <<>> <=> Len(saves[p]) = 1)
    BY <1>2, <2>1
  <2>3. OfActivation(s, rest)
    BY DEF OfActivation
  <2> HIDE DEF rest
  <2>4. Done(rest) /\ SetsToken(s.token)
    BY <1>4, <2>1
  <2>5. InOrder(p)
    BY <1>5, <2>1, <2>4 DEF InOrder
  <2>6. /\ saves'[p] = rest /\ saves' \in [Procs -> Seq(Save)] /\ disk' \in Secret
        /\ \A q \in Procs : q # p => saves'[q] = saves[q]
    BY <1>1, <2>2, <2>4
  <2> HIDE DEF Done
  <2>7. Len(saves'[p]) = Len(saves[p]) - 1 /\ (saves'[p] = <<>> <=> Len(saves[p]) = 1)
    BY <2>1, <2>2, <2>6
  <2> QED
    BY <1>1, <1>5, <2>3, <2>5, <2>6, <2>7
<1>6. CASE phase[p] = "activating" /\ saves[p] = <<R(s), E(s), A(s)>>
  <2> DEFINE rest == <<E(s), A(s)>>
  <2>1. Head(saves[p]) = R(s) /\ Tail(saves[p]) = rest /\ Len(saves[p]) = 3 /\ Len(rest) = 2
    BY <1>6, Queue
  <2>2. rest \in Seq(Save) /\ (rest = <<>> <=> Len(saves[p]) = 1)
    BY <1>2, <2>1
  <2>3. OfActivation(s, rest)
    BY DEF OfActivation
  <2> HIDE DEF rest
  <2>4. Done(rest) /\ SetsRefresh(s.refresh)
    BY <1>4, <2>1
  <2>5. InOrder(p)
    BY <1>6, <2>1, <2>4 DEF InOrder
  <2>6. /\ saves'[p] = rest /\ saves' \in [Procs -> Seq(Save)] /\ disk' \in Secret
        /\ \A q \in Procs : q # p => saves'[q] = saves[q]
    BY <1>1, <2>2, <2>4
  <2> HIDE DEF Done
  <2>7. Len(saves'[p]) = Len(saves[p]) - 1 /\ (saves'[p] = <<>> <=> Len(saves[p]) = 1)
    BY <2>1, <2>2, <2>6
  <2> QED
    BY <1>1, <1>6, <2>3, <2>5, <2>6, <2>7
<1>7. CASE phase[p] = "activating" /\ saves[p] = <<E(s), A(s)>>
  <2> DEFINE rest == <<A(s)>>
  <2>1. Head(saves[p]) = E(s) /\ Tail(saves[p]) = rest /\ Len(saves[p]) = 2 /\ Len(rest) = 1
    BY <1>7, Queue
  <2>2. rest \in Seq(Save) /\ (rest = <<>> <=> Len(saves[p]) = 1)
    BY <1>2, <2>1
  <2>3. OfActivation(s, rest)
    BY DEF OfActivation
  <2> HIDE DEF rest
  <2>4. Done(rest) /\ SetsExpire(s.expire)
    BY <1>4, <2>1
  <2>5. InOrder(p)
    BY <1>7, <2>1, <2>4 DEF InOrder
  <2>6. /\ saves'[p] = rest /\ saves' \in [Procs -> Seq(Save)] /\ disk' \in Secret
        /\ \A q \in Procs : q # p => saves'[q] = saves[q]
    BY <1>1, <2>2, <2>4
  <2> HIDE DEF Done
  <2>7. Len(saves'[p]) = Len(saves[p]) - 1 /\ (saves'[p] = <<>> <=> Len(saves[p]) = 1)
    BY <2>1, <2>2, <2>6
  <2> QED
    BY <1>1, <1>7, <2>3, <2>5, <2>6, <2>7
<1>8. CASE phase[p] = "activating" /\ saves[p] = <<A(s)>>
  <2> DEFINE rest == <<>>
  <2>1. Head(saves[p]) = A(s) /\ Tail(saves[p]) = rest /\ Len(saves[p]) = 1 /\ Len(rest) = 0
    BY <1>8, Queue
  <2>2. rest \in Seq(Save) /\ (rest = <<>> <=> Len(saves[p]) = 1)
    BY <1>2, <2>1
  <2>3. OfActivation(s, rest)
    BY DEF OfActivation
  <2> HIDE DEF rest
  <2>4. Done(rest) /\ SetsAccount(s.account)
    BY <1>4, <2>1
  <2>5. InOrder(p)
    BY <1>8, <2>1, <2>4 DEF InOrder
  <2>6. /\ saves'[p] = rest /\ saves' \in [Procs -> Seq(Save)] /\ disk' \in Secret
        /\ \A q \in Procs : q # p => saves'[q] = saves[q]
    BY <1>1, <2>2, <2>4
  <2> HIDE DEF Done
  <2>7. Len(saves'[p]) = Len(saves[p]) - 1 /\ (saves'[p] = <<>> <=> Len(saves[p]) = 1)
    BY <2>1, <2>2, <2>6
  <2> QED
    BY <1>1, <1>8, <2>3, <2>5, <2>6, <2>7
<1>9. CASE phase[p] = "running" /\ saves[p] = <<T(s), R(s), E(s)>>
  <2> DEFINE rest == <<R(s), E(s)>>
  <2>1. Head(saves[p]) = T(s) /\ Tail(saves[p]) = rest /\ Len(saves[p]) = 3 /\ Len(rest) = 2
    BY <1>9, Queue
  <2>2. rest \in Seq(Save) /\ (rest = <<>> <=> Len(saves[p]) = 1)
    BY <1>2, <2>1
  <2>3. OfRefresh(s, rest)
    BY DEF OfRefresh
  <2> HIDE DEF rest
  <2>4. Done(rest) /\ SetsToken(s.token)
    BY <1>4, <2>1
  <2>5. InOrder(p)
    BY <1>9, <2>1, <2>4 DEF InOrder
  <2>6. /\ saves'[p] = rest /\ saves' \in [Procs -> Seq(Save)] /\ disk' \in Secret
        /\ \A q \in Procs : q # p => saves'[q] = saves[q]
    BY <1>1, <2>2, <2>4
  <2> HIDE DEF Done
  <2>7. Len(saves'[p]) = Len(saves[p]) - 1 /\ (saves'[p] = <<>> <=> Len(saves[p]) = 1)
    BY <2>1, <2>2, <2>6
  <2> QED
    BY <1>1, <1>9, <2>3, <2>5, <2>6, <2>7
<1>10. CASE phase[p] = "running" /\ saves[p] = <<R(s), E(s)>>
  <2> DEFINE rest == <<E(s)>>
  <2>1. Head(saves[p]) = R(s) /\ Tail(saves[p]) = rest /\ Len(saves[p]) = 2 /\ Len(rest) = 1
    BY <1>10, Queue
  <2>2. rest \in Seq(Save) /\ (rest = <<>> <=> Len(saves[p]) = 1)
    BY <1>2, <2>1
  <2>3. OfRefresh(s, rest)
    BY DEF OfRefresh
  <2> HIDE DEF rest
  <2>4. Done(rest) /\ SetsRefresh(s.refresh)
    BY <1>4, <2>1
  <2>5. InOrder(p)
    BY <1>10, <2>1, <2>4 DEF InOrder
  <2>6. /\ saves'[p] = rest /\ saves' \in [Procs -> Seq(Save)] /\ disk' \in Secret
        /\ \A q \in Procs : q # p => saves'[q] = saves[q]
    BY <1>1, <2>2, <2>4
  <2> HIDE DEF Done
  <2>7. Len(saves'[p]) = Len(saves[p]) - 1 /\ (saves'[p] = <<>> <=> Len(saves[p]) = 1)
    BY <2>1, <2>2, <2>6
  <2> QED
    BY <1>1, <1>10, <2>3, <2>5, <2>6, <2>7
<1>11. CASE phase[p] = "running" /\ saves[p] = <<E(s)>>
  <2> DEFINE rest == <<>>
  <2>1. Head(saves[p]) = E(s) /\ Tail(saves[p]) = rest /\ Len(saves[p]) = 1 /\ Len(rest) = 0
    BY <1>11, Queue
  <2>2. rest \in Seq(Save) /\ (rest = <<>> <=> Len(saves[p]) = 1)
    BY <1>2, <2>1
  <2>3. OfRefresh(s, rest)
    BY DEF OfRefresh
  <2> HIDE DEF rest
  <2>4. Done(rest) /\ SetsExpire(s.expire)
    BY <1>4, <2>1
  <2>5. InOrder(p)
    BY <1>11, <2>1, <2>4 DEF InOrder
  <2>6. /\ saves'[p] = rest /\ saves' \in [Procs -> Seq(Save)] /\ disk' \in Secret
        /\ \A q \in Procs : q # p => saves'[q] = saves[q]
    BY <1>1, <2>2, <2>4
  <2> HIDE DEF Done
  <2>7. Len(saves'[p]) = Len(saves[p]) - 1 /\ (saves'[p] = <<>> <=> Len(saves[p]) = 1)
    BY <2>1, <2>2, <2>6
  <2> QED
    BY <1>1, <1>11, <2>3, <2>5, <2>6, <2>7
<1>12. CASE phase[p] = "resetting" /\ saves[p] = <<N, O>>
  <2> DEFINE rest == <<O>>
  <2>1. Head(saves[p]) = N /\ Tail(saves[p]) = rest /\ Len(saves[p]) = 2 /\ Len(rest) = 1
    BY <1>12, Queue
  <2>2. rest \in Seq(Save) /\ (rest = <<>> <=> Len(saves[p]) = 1)
    BY <1>2, <2>1
  <2>3. OfReset(rest)
    BY DEF OfReset
  <2> HIDE DEF rest
  <2>4. Done(rest) /\ SetsAccount(NoAccount)
    BY <1>4, <2>1
  <2>5. InOrder(p)
    BY <1>12, <2>1, <2>4 DEF InOrder
  <2>6. /\ saves'[p] = rest /\ saves' \in [Procs -> Seq(Save)] /\ disk' \in Secret
        /\ \A q \in Procs : q # p => saves'[q] = saves[q]
    BY <1>1, <2>2, <2>4
  <2> HIDE DEF Done
  <2>7. Len(saves'[p]) = Len(saves[p]) - 1 /\ (saves'[p] = <<>> <=> Len(saves[p]) = 1)
    BY <2>1, <2>2, <2>6
  <2> QED
    BY <1>1, <1>12, <2>3, <2>5, <2>6, <2>7
<1>13. CASE phase[p] = "resetting" /\ saves[p] = <<O>>
  <2> DEFINE rest == <<>>
  <2>1. Head(saves[p]) = O /\ Tail(saves[p]) = rest /\ Len(saves[p]) = 1 /\ Len(rest) = 0
    BY <1>13, Queue
  <2>2. rest \in Seq(Save) /\ (rest = <<>> <=> Len(saves[p]) = 1)
    BY <1>2, <2>1
  <2>3. rest = <<>>
    OBVIOUS
  <2> HIDE DEF rest
  <2>4. Done(rest) /\ SetsToken(None)
    BY <1>4, <2>1
  <2>5. InOrder(p)
    BY <1>13, <2>1, <2>4 DEF InOrder
  <2>6. /\ saves'[p] = rest /\ saves' \in [Procs -> Seq(Save)] /\ disk' \in Secret
        /\ \A q \in Procs : q # p => saves'[q] = saves[q]
    BY <1>1, <2>2, <2>4
  <2> HIDE DEF Done
  <2>7. Len(saves'[p]) = Len(saves[p]) - 1 /\ (saves'[p] = <<>> <=> Len(saves[p]) = 1)
    BY <2>1, <2>2, <2>6
  <2> QED
    BY <1>1, <1>13, <2>3, <2>5, <2>6, <2>7
<1> QED
  BY <1>1, <1>5, <1>6, <1>7, <1>8, <1>9, <1>10, <1>11, <1>12, <1>13
  DEF Shaped, OfActivation, OfRefresh, OfReset

-----------------------------------------------------------------------------
(* It is kept *)

LEMMA Lengths ==
    ASSUME TypeOK
    PROVE  /\ Len(owner) \in Nat /\ disk.refresh \in Nat
           /\ \A p \in Procs : secret[p].refresh \in Nat /\ saves[p] \in Seq(Save)
           /\ \A r \in calls : r.grant \in Nat /\ r.proc \in Procs
BY CredentialsAssumption DEF TypeOK, Secret, Grant, Call

(* A step of p leaves what the others have come to. *)
LEMMA OthersShaped ==
    ASSUME BaseInv, NEW p \in Procs, owner' = owner,
           \A q \in Procs : q # p => /\ phase'[q] = phase[q] /\ secret'[q] = secret[q]
                                     /\ saves'[q] = saves[q],
           disk.refresh # None => disk'.refresh # None, Shaped(p)'
    PROVE  \A q \in Procs : Shaped(q)'
<1>1. ASSUME NEW q \in Procs, q # p PROVE Shaped(q)'
  <2>1. Shaped(q)
    BY DEF BaseInv
  <2> QED
    BY <1>1, <2>1 DEF Shaped
<1> QED
  BY <1>1

LEMMA OthersPlaced ==
    ASSUME BaseInv, NEW p \in Procs, owner' = owner,
           \A q \in Procs : q # p => phase'[q] = phase[q] /\ saves'[q] = saves[q],
           \A r \in calls' : r \in calls \/ r.proc = p,
           \A r \in calls' : r.proc = p => Placed(r)'
    PROVE  \A r \in calls' : Placed(r)'
<1>1. ASSUME NEW r \in calls', r.proc # p PROVE Placed(r)'
  <2>1. r \in calls /\ Placed(r) /\ r.proc \in Procs
    BY <1>1, Lengths DEF BaseInv
  <2> QED
    BY <1>1, <2>1 DEF Placed
<1> QED
  BY <1>1

(* What checkDeviceToken adds to the requests. *)
LEMMA Checked ==
    ASSUME TypeOK, NEW p \in Procs, NEW s \in Secret, s.refresh \in 1 .. Len(owner),
           CheckDeviceToken(p, s)
    PROVE  /\ calls \subseteq calls'
           /\ calls' \subseteq Call
           /\ \A r \in calls' \ calls :
                 /\ r.kind = "refresh" /\ r.proc = p
                 /\ r.account = owner[s.refresh] /\ r.grant = None
<1>1. owner[s.refresh] \in Accounts
  BY DEF TypeOK
<1>2. CASE UNCHANGED calls
  BY <1>2 DEF TypeOK
<1>3. CASE Send(p, "refresh", owner[s.refresh])
  <2>1. PICK i \in CallIds :
           calls' = calls \cup {[id |-> i, proc |-> p, kind |-> "refresh",
                                 account |-> owner[s.refresh], grant |-> None]}
    BY <1>3 DEF Send
  <2>2. [id |-> i, proc |-> p, kind |-> "refresh",
         account |-> owner[s.refresh], grant |-> None] \in Call
    BY <1>1, CredentialsAssumption DEF Call, Grant, None
  <2> QED
    BY <2>1, <2>2 DEF TypeOK
<1> QED
  BY <1>2, <1>3 DEF CheckDeviceToken

(* A complete secret whose refresh token was issued can be refreshed. *)
LEMMA Refreshable ==
    ASSUME TypeOK, NEW s \in Secret, Complete(s), s.refresh <= Len(owner)
    PROVE  s.refresh \in 1 .. Len(owner)
BY Lengths, CredentialsAssumption DEF Complete, None, Secret, Grant

(* A program that is down has no requests. *)
LEMMA DownCalls ==
    ASSUME TypeOK, NEW p \in Procs, phase[p] \in {"down", "resetting"}
    PROVE  \A r \in calls : r.proc # p
BY DEF TypeOK

LEMMA StartActivatedBase ==
    ASSUME BaseInv, NEW p \in Procs, StartActivated(p), undisturbed' \subseteq Procs
    PROVE  BaseInv'
<1> USE DEF BaseInv
<1>1. /\ TypeOK /\ phase[p] = "down" /\ saves[p] = <<>> /\ disk \in Secret
      /\ phase' = [phase EXCEPT ![p] = "running"]
      /\ secret' = [secret EXCEPT ![p] = disk]
      /\ UNCHANGED <<cloud, code, disk, saves>> /\ CheckDeviceToken(p, disk)
      /\ phase'[p] = "running" /\ secret'[p] = disk
  BY DEF StartActivated, Load, TypeOK, Shaped
<1>2. Complete(disk) /\ disk.refresh <= Len(owner)
  BY DEF StartActivated, IsActivated, Complete, DiskRefreshes
<1>3. /\ calls \subseteq calls' /\ calls' \subseteq Call
      /\ \A r \in calls' \ calls : /\ r.kind = "refresh" /\ r.proc = p /\ r.grant = None
  BY <1>1, <1>2, Checked, Refreshable
<1>4. TypeOK'
  BY <1>1, <1>3 DEF StartActivated, Load, TypeOK, cloud
<1>5. Shaped(p)'
  BY <1>1, <1>2 DEF Shaped, OfRefresh, cloud
<1>6. \A r \in calls' : r.proc = p => Placed(r)'
  BY <1>1, <1>3, DownCalls, Lengths DEF Placed, cloud, None
<1>7. \A q \in Procs : q # p => /\ phase'[q] = phase[q] /\ secret'[q] = secret[q]
                                /\ saves'[q] = saves[q]
  BY <1>1 DEF TypeOK
<1> QED
  BY <1>1, <1>3, <1>4, <1>5, <1>6, <1>7, OthersShaped, OthersPlaced DEF DiskRefreshes, cloud

LEMMA ActivateBase ==
    ASSUME BaseInv, NEW p \in Procs, NEW c \in Accounts \cup {NoAccount}, Activate(p, c),
           undisturbed' \subseteq Procs
    PROVE  BaseInv'
<1> USE DEF BaseInv
<1>1. /\ TypeOK /\ phase[p] = "down" /\ saves[p] = <<>> /\ disk \in Secret
      /\ phase' = [phase EXCEPT ![p] = "activating"]
      /\ secret' = [secret EXCEPT ![p] = disk]
      /\ UNCHANGED <<cloud, code, disk, saves>> /\ c \in Accounts
      /\ phase'[p] = "activating" /\ secret'[p] = disk
  BY DEF Activate, Load, TypeOK, Shaped
<1>2. PICK i \in CallIds :
         calls' = calls \cup
            {[id |-> i, proc |-> p, kind |-> "activate", account |-> c, grant |-> None]}
  BY DEF Activate, Send
<1> DEFINE n == [id |-> i, proc |-> p, kind |-> "activate", account |-> c, grant |-> None]
<1>3. n \in Call /\ n.proc = p /\ n.kind = "activate" /\ n.grant = None
  BY <1>1, CredentialsAssumption DEF Call, Grant, None
<1> HIDE DEF n
<1>4. TypeOK'
  BY <1>1, <1>2, <1>3 DEF Activate, Load, TypeOK, cloud, n
<1>5. Shaped(p)'
  BY <1>1, Queue DEF Shaped, OfActivation, cloud, DiskRefreshes
<1>6. \A r \in calls' : r.proc = p => Placed(r)'
  BY <1>1, <1>2, <1>3, DownCalls, Lengths DEF Placed, cloud, None, n
<1>7. \A q \in Procs : q # p => /\ phase'[q] = phase[q] /\ secret'[q] = secret[q]
                                /\ saves'[q] = saves[q]
  BY <1>1 DEF TypeOK
<1>8. \A r \in calls' : r \in calls \/ r.proc = p
  BY <1>2, <1>3 DEF n
<1> QED
  BY <1>1, <1>4, <1>5, <1>6, <1>7, <1>8, OthersShaped, OthersPlaced DEF DiskRefreshes, cloud

LEMMA InitializeBase ==
    ASSUME BaseInv, NEW p \in Procs, StartInitialize(p), undisturbed' \subseteq Procs
    PROVE  BaseInv'
<1> USE DEF BaseInv
<1> DEFINE queue == <<Put("account", NoAccount), Put("token", None)>>
<1>1. /\ TypeOK /\ phase[p] = "down"
      /\ phase' = [phase EXCEPT ![p] = "resetting"]
      /\ saves' = [saves EXCEPT ![p] = queue]
      /\ UNCHANGED <<cloud, code, disk, secret, connector, calls>>
  BY DEF StartInitialize, ResetSaves
<1>2. queue \in Seq(Save) /\ OfReset(queue)
  BY ResetTyped DEF OfReset
<1> HIDE DEF queue
<1>3. TypeOK' /\ phase'[p] = "resetting" /\ saves'[p] = queue
  BY <1>1, <1>2, DownCalls DEF TypeOK, cloud, Call
<1>4. Shaped(p)'
  BY <1>1, <1>2, <1>3 DEF Shaped, cloud
<1>5. \A r \in calls' : r.proc = p => Placed(r)'
  BY <1>1, DownCalls
<1>6. \A q \in Procs : q # p => /\ phase'[q] = phase[q] /\ secret'[q] = secret[q]
                                /\ saves'[q] = saves[q]
  BY <1>1 DEF TypeOK
<1> QED
  BY <1>1, <1>3, <1>4, <1>5, <1>6, OthersShaped, OthersPlaced DEF DiskRefreshes, cloud

LEMMA GoneBase ==
    ASSUME BaseInv, NEW p \in Procs, Gone(p), UNCHANGED <<cloud, code, disk>>,
           undisturbed' \subseteq Procs
    PROVE  BaseInv'
<1> USE DEF BaseInv
<1>1. /\ TypeOK /\ calls' = {r \in calls : r.proc # p}
      /\ phase' = [phase EXCEPT ![p] = "down"] /\ secret' = [secret EXCEPT ![p] = Nothing]
      /\ saves' = [saves EXCEPT ![p] = <<>>]
      /\ Nothing \in Secret /\ Nothing.refresh = 0
  BY CredentialsAssumption DEF Gone, Nothing, Secret, Grant, None
<1>2. TypeOK' /\ phase'[p] = "down" /\ saves'[p] = <<>> /\ secret'[p] = Nothing
  BY <1>1 DEF Gone, TypeOK, cloud, Call
<1>3. Shaped(p)'
  BY <1>1, <1>2, Lengths DEF Shaped, cloud
<1>4. \A q \in Procs : q # p => /\ phase'[q] = phase[q] /\ secret'[q] = secret[q]
                                /\ saves'[q] = saves[q]
  BY <1>1 DEF TypeOK
<1>5. (\A r \in calls' : r \in calls \/ r.proc = p) /\ \A r \in calls' : r.proc = p => Placed(r)'
  BY <1>1
<1> QED
  BY <1>1, <1>2, <1>3, <1>4, <1>5, OthersShaped, OthersPlaced DEF DiskRefreshes, cloud

LEMMA RequestBase ==
    ASSUME BaseInv, NEW p \in Procs, Request(p), undisturbed' \subseteq Procs
    PROVE  BaseInv'
<1> USE DEF BaseInv
<1>1. /\ TypeOK /\ Shaped(p) /\ phase[p] = "running" /\ secret[p] \in Secret
      /\ UNCHANGED <<cloud, code, disk, phase, secret, connector, saves>>
      /\ CheckDeviceToken(p, secret[p])
  BY DEF Request, TypeOK
<1>2. /\ calls \subseteq calls' /\ calls' \subseteq Call
      /\ \A r \in calls' \ calls : r.kind = "refresh" /\ r.proc = p /\ r.grant = None
  BY <1>1, Checked, Refreshable DEF Shaped
<1>3. TypeOK'
  BY <1>1, <1>2 DEF TypeOK, cloud
<1>4. Shaped(p)'
  BY <1>1 DEF Shaped, cloud
<1>5. \A r \in calls' : r.proc = p => Placed(r)'
  BY <1>1, <1>2, Lengths DEF Placed, cloud, None
<1> QED
  BY <1>1, <1>2, <1>3, <1>4, <1>5, OthersShaped, OthersPlaced DEF DiskRefreshes, cloud

LEMMA SaveKeyBase ==
    ASSUME BaseInv, NEW p \in Procs, SaveKey(p), undisturbed' \subseteq Procs
    PROVE  BaseInv'
<1> DEFINE s == secret[p]
<1>1. /\ TypeOK /\ Shaped(p) /\ DiskRefreshes /\ s \in Secret /\ saves[p] \in Seq(Save)
      /\ UNCHANGED <<cloud, code, secret, connector>> /\ saves[p] # <<>>
      /\ s.refresh \in Nat /\ disk.refresh \in Nat /\ s.refresh <= Len(owner)
      /\ disk.refresh <= Len(owner) /\ Len(owner) \in Nat
  BY Lengths DEF BaseInv, TypeOK, SaveKey, Shaped, DiskRefreshes
<1>2. /\ InOrder(p) /\ disk' \in Secret /\ saves' \in [Procs -> Seq(Save)]
      /\ Len(saves'[p]) = Len(saves[p]) - 1 /\ (saves'[p] = <<>> <=> Len(saves[p]) = 1)
      /\ \A q \in Procs : q # p => saves'[q] = saves[q]
      /\ phase[p] \in {"activating", "running", "resetting"}
      /\ phase[p] = "activating" => OfActivation(secret[p], saves'[p])
      /\ phase[p] = "running" => OfRefresh(secret[p], saves'[p])
      /\ phase[p] = "resetting" => saves'[p] = <<>> \/ OfReset(saves'[p])
  BY Ordered
<1>3. phase[p] # "resetting" => Complete(s)
  BY <1>1, <1>2 DEF Shaped
<1>4. saves'[p] = Tail(saves[p])
  BY <1>1 DEF SaveKey, TypeOK
<1>5. disk'.refresh <= Len(owner) /\ (disk.refresh # None => disk'.refresh # None)
  BY <1>1, <1>2, <1>3 DEF InOrder, SetsToken, SetsRefresh, SetsExpire, SetsAccount, Complete
<1>6. disk'.account # NoAccount => disk'.refresh # None
  <2>1. disk'.account # disk.account => phase[p] = "resetting" \/ Len(saves[p]) = 1
    BY <1>2 DEF InOrder, SetsToken, SetsRefresh, SetsExpire, SetsAccount
  <2>2. CASE disk'.account = disk.account
    BY <1>1, <1>5, <2>2 DEF DiskRefreshes
  <2>3. CASE phase[p] = "activating" /\ Len(saves[p]) = 1
    BY <1>1, <1>5, <2>3 DEF Shaped
  <2>4. CASE phase[p] = "resetting"
    BY <1>1, <1>2, <1>5, <2>4 DEF InOrder, SetsToken, SetsAccount, DiskRefreshes
  <2>5. CASE phase[p] = "running"
    BY <1>1, <1>2, <1>5, <2>5
       DEF InOrder, SetsToken, SetsRefresh, SetsExpire, DiskRefreshes
  <2> QED
    BY <1>2, <2>1, <2>2, <2>3, <2>4, <2>5
<1>7. /\ phase' \in [Procs -> {"down", "activating", "running", "resetting"}]
      /\ \A q \in Procs : q # p => phase'[q] = phase[q]
      /\ phase'[p] = IF saves'[p] = <<>> /\ phase[p] = "activating" THEN "running"
                     ELSE IF saves'[p] = <<>> /\ phase[p] = "resetting" THEN "down"
                     ELSE phase[p]
  BY <1>1, <1>4 DEF SaveKey, TypeOK
<1>8. /\ calls \subseteq calls' /\ calls' \subseteq Call
      /\ \A r \in calls' \ calls :
            /\ r.kind = "refresh" /\ r.proc = p /\ r.grant = None
            /\ phase'[p] = "running"
  <2>1. CASE UNCHANGED calls
    BY <1>1, <2>1 DEF TypeOK
  <2>2. CASE CheckDeviceToken(p, s) /\ phase'[p] = "running" /\ phase[p] = "activating"
    BY <1>1, <1>3, <2>2, Checked, Refreshable
  <2> QED
    BY <1>1, <1>4, <1>7, <2>1, <2>2 DEF SaveKey
<1>9. phase[p] # "down" /\ \A r \in calls : r.proc = p => Placed(r)
  BY <1>2 DEF BaseInv
<1>10. TypeOK'
  <2>1. \A r \in calls' : phase'[r.proc] \in {"activating", "running"}
    BY <1>1, <1>7, <1>8, DownCalls DEF TypeOK, Call
  <2> QED
    BY <1>1, <1>2, <1>7, <1>8, <2>1 DEF TypeOK, cloud
<1>11. Shaped(p)'
  <2>1. secret' = secret /\ owner' = owner
    BY <1>1 DEF cloud
  <2>2. CASE phase[p] = "activating"
    <3>1. saves'[p] # <<>> => Len(saves'[p]) \in 1 .. 3
      BY <1>2, <2>2 DEF InOrder
    <3>2. Len(saves'[p]) \in 1 .. 2 => disk'.refresh # None
      BY <1>1, <1>2, <1>3, <1>5, <2>2 DEF InOrder, SetsRefresh, SetsExpire, Shaped, Complete
    <3> QED
      BY <1>1, <1>2, <1>3, <1>7, <2>1, <2>2, <3>2 DEF Shaped, OfRefresh
  <2>3. CASE phase[p] # "activating"
    BY <1>1, <1>2, <1>3, <1>7, <2>1, <2>3 DEF Shaped
  <2> QED
    BY <2>2, <2>3
<1>12. \A r \in calls' : r.proc = p => Placed(r)'
  <2>1. ASSUME NEW r \in calls, r.proc = p PROVE Placed(r)'
    <3>1. r.kind = "refresh" /\ phase[p] = "running"
      BY <1>1, <1>9, <2>1 DEF Placed, TypeOK, Call
    <3> QED
      BY <1>1, <1>7, <1>9, <2>1, <3>1 DEF Placed, cloud
  <2>2. ASSUME NEW r \in calls' \ calls PROVE Placed(r)'
    BY <1>1, <1>8, <2>2 DEF Placed, cloud, None
  <2> QED
    BY <2>1, <2>2
<1>13. DiskRefreshes'
  BY <1>1, <1>5, <1>6 DEF DiskRefreshes, cloud
<1> QED
  BY <1>1, <1>2, <1>5, <1>7, <1>8, <1>10, <1>11, <1>12, <1>13, OthersShaped, OthersPlaced
     DEF BaseInv, cloud

LEMMA CloudGrantsBase ==
    ASSUME BaseInv, NEW r \in calls, CloudGrants(r), undisturbed' \subseteq Procs
    PROVE  BaseInv'
<1> DEFINE q == [r EXCEPT !.grant = Len(owner) + 1]
<1>1. /\ TypeOK /\ r \in Call /\ r.account \in Accounts /\ owner \in Seq(Accounts)
      /\ Len(owner) \in Nat /\ Len(owner) < MaxGrants /\ MaxGrants \in Nat /\ Placed(r)
      /\ owner' = Append(owner, r.account) /\ calls' = (calls \ {r}) \cup {q}
      /\ UNCHANGED <<now, code, disk, phase, secret, connector, saves>>
  BY CredentialsAssumption DEF BaseInv, TypeOK, CloudGrants, Call
<1>2. owner' \in Seq(Accounts) /\ Len(owner') = Len(owner) + 1
  BY <1>1
<1>3. /\ q \in Call /\ q.proc = r.proc /\ q.kind = r.kind /\ q.grant = Len(owner) + 1
  BY <1>1 DEF Call, Grant
<1> HIDE DEF q
<1>4. TypeOK'
  <2>1. \A x \in calls' : phase'[x.proc] \in {"activating", "running"}
    BY <1>1, <1>3 DEF TypeOK
  <2>2. now' \in 0 .. Len(owner') /\ Len(owner') <= MaxGrants
    BY <1>1, <1>2 DEF TypeOK
  <2> QED
    BY <1>1, <1>2, <1>3, <2>1, <2>2 DEF TypeOK
<1>5. DiskRefreshes' /\ \A p \in Procs : Shaped(p)'
  <2>1. ASSUME NEW n \in Nat, n <= Len(owner) PROVE n <= Len(owner')
    BY <1>1, <1>2, <2>1
  <2>2. DiskRefreshes /\ \A p \in Procs : Shaped(p)
    BY DEF BaseInv
  <2> QED
    BY <1>1, <2>1, <2>2, Lengths DEF DiskRefreshes, Shaped
<1>6. ASSUME NEW x \in calls' PROVE Placed(x)'
  <2>1. CASE x = q
    BY <1>1, <1>2, <1>3, <2>1 DEF Placed
  <2>2. CASE x \in calls /\ x # r
    <3>1. Placed(x) /\ x.grant \in Nat
      BY <2>2, Lengths, <1>1 DEF BaseInv
    <3> QED
      BY <1>1, <1>2, <1>3, <2>2, <3>1 DEF Placed
  <2> QED
    BY <1>1, <2>1, <2>2
<1> QED
  BY <1>4, <1>5, <1>6 DEF BaseInv

LEMMA ActivatedBase ==
    ASSUME BaseInv, NEW r \in calls, Activated(r), undisturbed' \subseteq Procs
    PROVE  BaseInv'
<1> DEFINE p == r.proc
           s == [token |-> r.grant, refresh |-> r.grant, expire |-> r.grant,
                 account |-> r.account]
<1>1. /\ TypeOK /\ r \in Call /\ p \in Procs /\ r.kind = "activate" /\ r.grant # None
      /\ saves[p] = <<>> /\ phase[p] = "activating" /\ Placed(r) /\ r.grant <= Len(owner)
      /\ secret' = [secret EXCEPT ![p] = s]
      /\ saves' = [saves EXCEPT ![p] = ActivationSaves(s)]
      /\ calls' = calls \ {r}
      /\ UNCHANGED <<cloud, code, disk, phase, connector>>
  BY DEF BaseInv, TypeOK, Activated, Call, Placed
<1>2. s \in Secret /\ Complete(s) /\ s.refresh = r.grant
  BY <1>1, CredentialsAssumption DEF Call, Secret, Complete, IsActivated
<1> HIDE DEF s
<1>3. ActivationSaves(s) = <<T(s), R(s), E(s), A(s)>>
  BY DEF ActivationSaves, T, R, E, A
<1>4. /\ ActivationSaves(s) \in Seq(Save) /\ Len(ActivationSaves(s)) = 4
      /\ OfActivation(s, ActivationSaves(s))
  BY <1>2, <1>3, PutTyped, Queue DEF OfActivation
<1>5. secret'[p] = s /\ saves'[p] = ActivationSaves(s)
  BY <1>1 DEF TypeOK
<1>6. TypeOK'
  BY <1>1, <1>2, <1>4 DEF TypeOK, cloud
<1>7. Shaped(p)'
  <2>1. /\ phase'[p] = "activating" /\ owner' = owner /\ secret'[p].refresh <= Len(owner)
        /\ Len(saves'[p]) = 4 /\ OfActivation(secret'[p], saves'[p]) /\ Complete(secret'[p])
    BY <1>1, <1>2, <1>4, <1>5 DEF cloud
  <2> QED
    BY <2>1 DEF Shaped
<1>8. \A x \in calls' : x.proc = p => Placed(x)'
  BY <1>1 DEF Placed
<1>9. \A q \in Procs : q # p => /\ phase'[q] = phase[q] /\ secret'[q] = secret[q]
                                /\ saves'[q] = saves[q]
  BY <1>1 DEF TypeOK
<1> HIDE DEF p
<1> QED
  BY <1>1, <1>6, <1>7, <1>8, <1>9, OthersShaped, OthersPlaced DEF BaseInv, DiskRefreshes, cloud

LEMMA RefreshedBase ==
    ASSUME BaseInv, NEW r \in calls, Refreshed(r), undisturbed' \subseteq Procs
    PROVE  BaseInv'
<1> DEFINE p == r.proc
           s == [secret[p] EXCEPT !.token = r.grant, !.refresh = r.grant, !.expire = r.grant]
<1>1. /\ TypeOK /\ r \in Call /\ p \in Procs /\ r.kind = "refresh" /\ r.grant # None
      /\ saves[p] = <<>> /\ phase[p] = "running" /\ Shaped(p) /\ r.grant <= Len(owner)
      /\ secret' = [secret EXCEPT ![p] = s]
      /\ saves' = [saves EXCEPT ![p] = RefreshSaves(s)]
      /\ calls' = calls \ {r}
      /\ UNCHANGED <<cloud, code, disk, phase, connector>>
      /\ secret[p] \in Secret
      /\ \A x \in calls : Placed(x)
  BY DEF BaseInv, TypeOK, Refreshed, Call, Placed
<1>2. s \in Secret /\ s.refresh = r.grant /\ Complete(s)
  <2>1. s \in Secret /\ s.refresh = r.grant /\ s.token = r.grant
        /\ s.account = secret[p].account
    BY <1>1 DEF Call, Secret
  <2> QED
    BY <1>1, <2>1 DEF Complete, IsActivated, Shaped
<1> HIDE DEF s
<1>3. RefreshSaves(s) = <<T(s), R(s), E(s)>>
  BY DEF RefreshSaves, T, R, E
<1>4. RefreshSaves(s) \in Seq(Save) /\ OfRefresh(s, RefreshSaves(s))
  BY <1>2, <1>3, PutTyped DEF OfRefresh
<1>5. secret'[p] = s /\ saves'[p] = RefreshSaves(s)
  BY <1>1 DEF TypeOK
<1>6. TypeOK'
  BY <1>1, <1>2, <1>4 DEF TypeOK, cloud
<1>7. Shaped(p)'
  BY <1>1, <1>2, <1>4, <1>5 DEF Shaped, cloud
<1>8. \A x \in calls' : x.proc = p => Placed(x)'
  BY <1>1 DEF Placed, TypeOK, Call, cloud
<1>9. \A q \in Procs : q # p => /\ phase'[q] = phase[q] /\ secret'[q] = secret[q]
                                /\ saves'[q] = saves[q]
  BY <1>1 DEF TypeOK
<1> HIDE DEF p
<1> QED
  BY <1>1, <1>6, <1>7, <1>8, <1>9, OthersShaped, OthersPlaced DEF BaseInv, DiskRefreshes, cloud

(* Steps that leave the programs alone, and the disk but for its expiry. *)
LEMMA OutsideBase ==
    ASSUME BaseInv, UNCHANGED <<owner, phase, secret, connector, saves, calls>>,
           now' \in 0 .. Len(owner), code' \in Accounts \cup {NoAccount},
           disk' = disk \/ disk' = [disk EXCEPT !.expire = None],
           undisturbed' \subseteq Procs
    PROVE  BaseInv'
<1>1. TypeOK /\ disk \in Secret
  BY DEF BaseInv, TypeOK
<1>2. /\ disk' \in Secret /\ disk'.token = disk.token /\ disk'.refresh = disk.refresh
      /\ disk'.account = disk.account
  BY <1>1, CredentialsAssumption DEF Secret, Grant, None
<1>3. TypeOK'
  BY <1>1, <1>2 DEF TypeOK
<1> QED
  BY <1>2, <1>3 DEF BaseInv, DiskRefreshes, Placed, Shaped

LEMMA StepBase == ASSUME BaseInv, Step, undisturbed' \subseteq Procs PROVE BaseInv'
<1>0. /\ now \in 0 .. Len(owner) /\ code \in Accounts \cup {NoAccount} /\ Len(owner) \in Nat
      /\ \A r \in calls : r.proc \in Procs
  BY Lengths DEF BaseInv, TypeOK
<1>1. ASSUME NEW p \in Procs, StartUp(p) \/ ActivateCommand(p) PROVE BaseInv'
  BY <1>0, <1>1, StartActivatedBase, ActivateBase DEF StartUp, StartNotActivated, ActivateCommand
<1>2. ASSUME NEW p \in Procs, StartInitialize(p) \/ Stop(p) PROVE BaseInv'
  BY <1>2, InitializeBase, GoneBase DEF Stop
<1>3. ASSUME NEW p \in Procs, Request(p) \/ SaveKey(p) PROVE BaseInv'
  BY <1>3, RequestBase, SaveKeyBase
<1>4. ASSUME NEW r \in calls, CloudGrants(r) \/ CallFails(r) \/ Answered(r) PROVE BaseInv'
  BY <1>0, <1>4, CloudGrantsBase, GoneBase, ActivatedBase, RefreshedBase DEF CallFails, Answered
<1>5. CASE Expire
  <2>1. now' \in 0 .. Len(owner)
    BY <1>0, <1>5 DEF Expire
  <2> QED
    BY <1>0, <1>5, <2>1, OutsideBase DEF Expire
<1>6. ASSUME NEW c \in Accounts \cup {NoAccount}, SaveCode(c) PROVE BaseInv'
  BY <1>0, <1>6, OutsideBase DEF SaveCode, cloud
<1>7. CASE ForceRefresh
  BY <1>0, <1>7, OutsideBase DEF ForceRefresh, cloud
<1> QED
  BY <1>1, <1>2, <1>3, <1>4, <1>5, <1>6, <1>7 DEF Step

LEMMA NextBase == ASSUME BaseInv, [Next]_vars PROVE BaseInv'
<1>1. CASE Next
  <2>1. undisturbed' \subseteq Procs
    BY <1>1 DEF Next, Observed
  <2> QED
    BY <1>1, <2>1, StepBase DEF Next
<1>2. CASE UNCHANGED vars
  <2>1. undisturbed' \subseteq Procs /\ now' \in 0 .. Len(owner)
        /\ code' \in Accounts \cup {NoAccount}
    BY <1>2 DEF vars, system, cloud, BaseInv, TypeOK
  <2> QED
    BY <1>2, <2>1, OutsideBase DEF vars, system, cloud
<1> QED
  BY <1>1, <1>2

THEOREM CallbacksAreOrdered == Spec => []BaseInv
<1> QED
  BY InitBase, NextBase, PTL DEF Spec

(* Every state has the types of the model, whatever programs run beside    *)
(* each other: no request is made for an account that is not, and no       *)
(* callback outlives its program.                                          *)
THEOREM CredentialsTyped == Spec => []TypeOK
<1>1. BaseInv => TypeOK
  BY DEF BaseInv
<1> QED
  BY <1>1, CallbacksAreOrdered, PTL

-----------------------------------------------------------------------------
(* What nobody saves over is saved *)

TokenSaved(s) == disk.token = s.token
BothSaved(s) == TokenSaved(s) /\ disk.refresh = s.refresh
ExpirySaved(s) == disk.expire \in {s.expire, None}

(* How far the saves of p have come, as long as nobody saves over them. *)
Progress(p) ==
    LET s == secret[p]
        n == Len(saves[p])
    IN  /\ phase[p] = "activating" =>
              /\ n \in 1 .. 3 => TokenSaved(s)
              /\ n \in 1 .. 2 => BothSaved(s)
              /\ n = 1 => ExpirySaved(s)
        /\ phase[p] = "running" =>
              /\ disk.account = s.account
              /\ n <= 2 => TokenSaved(s)
              /\ n <= 1 => BothSaved(s)
              /\ n = 0 => ExpirySaved(s)

SavedInv == \A p \in undisturbed : p \in Procs /\ Progress(p)

(* A step of another program that leaves p undisturbed. *)
LEMMA ProgressStays ==
    ASSUME TypeOK, NEW p \in Procs, Progress(p), phase'[p] = phase[p], secret'[p] = secret[p],
           saves'[p] = saves[p], disk' \in {disk, [disk EXCEPT !.expire = None]}
    PROVE  Progress(p)'
<1>1. disk \in Secret
  BY DEF TypeOK
<1>2. /\ disk'.token = disk.token /\ disk'.refresh = disk.refresh
      /\ disk'.account = disk.account /\ disk'.expire \in {disk.expire, None}
  BY <1>1 DEF Secret
<1> QED
  BY <1>2 DEF Progress, TokenSaved, BothSaved, ExpirySaved

(* The steps of p itself. *)
LEMMA OwnProgress ==
    ASSUME BaseInv, NEW p \in Procs, phase[p] = "down" \/ Progress(p), phase'[p] # "down",
           \/ StartUp(p) \/ ActivateCommand(p) \/ StartInitialize(p) \/ Request(p)
           \/ SaveKey(p)
           \/ \E r \in calls : Answered(r) /\ r.proc = p
    PROVE  Progress(p)'
<1>1. /\ TypeOK /\ Shaped(p) /\ disk \in Secret /\ secret[p] \in Secret
      /\ saves[p] \in Seq(Save) /\ Len(saves[p]) \in Nat
  BY DEF BaseInv, TypeOK
<1>2. CASE StartActivated(p)
  <2>1. /\ phase'[p] = "running" /\ secret'[p] = disk /\ disk' = disk
        /\ saves'[p] = <<>>
    BY <1>1, <1>2 DEF StartActivated, Load, TypeOK, Shaped
  <2> QED
    BY <2>1, Queue DEF Progress, TokenSaved, BothSaved, ExpirySaved
<1>3. ASSUME NEW c, Activate(p, c) PROVE Progress(p)'
  <2>1. phase'[p] = "activating" /\ saves'[p] = <<>>
    BY <1>1, <1>3 DEF Activate, Load, TypeOK, Shaped
  <2> QED
    BY <2>1, Queue DEF Progress
<1>4. CASE StartInitialize(p)
  <2>1. phase'[p] = "resetting"
    BY <1>1, <1>4 DEF StartInitialize, TypeOK
  <2> QED
    BY <2>1 DEF Progress
<1>5. CASE Request(p)
  <2>1. Progress(p) /\ UNCHANGED <<phase, secret, saves, disk>>
    BY <1>5 DEF Request
  <2> QED
    BY <1>1, <2>1, ProgressStays
<1>6. CASE SaveKey(p)
  <2>1. /\ InOrder(p) /\ Len(saves'[p]) = Len(saves[p]) - 1 /\ secret' = secret
        /\ saves'[p] = <<>> <=> Len(saves[p]) = 1
        /\ saves'[p] = Tail(saves[p])
        /\ phase[p] \in {"activating", "running", "resetting"}
    BY <1>1, <1>6, Ordered DEF SaveKey, TypeOK
  <2>2. Progress(p)
    BY <2>1
  <2>3. phase'[p] = IF saves'[p] = <<>> /\ phase[p] = "activating" THEN "running"
                    ELSE IF saves'[p] = <<>> /\ phase[p] = "resetting" THEN "down"
                    ELSE phase[p]
    BY <1>1, <1>6, <2>1 DEF SaveKey, TypeOK
  <2>4. CASE phase[p] = "activating"
    <3>1. CASE Len(saves[p]) = 1
      BY <1>1, <2>1, <2>2, <2>3, <2>4, <3>1
         DEF Progress, InOrder, SetsAccount, TokenSaved, BothSaved, ExpirySaved
    <3>2. CASE Len(saves[p]) # 1
      BY <1>1, <2>1, <2>2, <2>3, <2>4, <3>2
         DEF Progress, InOrder, SetsToken, SetsRefresh, SetsExpire, TokenSaved, BothSaved,
             ExpirySaved
    <3> QED
      BY <3>1, <3>2
  <2>5. CASE phase[p] = "running"
    <3>1. phase'[p] = "running" /\ Len(saves[p]) \in 1 .. 3
      BY <2>1, <2>3, <2>5 DEF InOrder
    <3>2. CASE Len(saves[p]) = 3
      BY <2>1, <2>2, <2>5, <3>1, <3>2 DEF Progress, InOrder, SetsToken, TokenSaved
    <3>3. CASE Len(saves[p]) = 2
      BY <2>1, <2>2, <2>5, <3>1, <3>3
         DEF Progress, InOrder, SetsRefresh, TokenSaved, BothSaved
    <3>4. CASE Len(saves[p]) = 1
      BY <2>1, <2>2, <2>5, <3>1, <3>4
         DEF Progress, InOrder, SetsExpire, TokenSaved, BothSaved, ExpirySaved
    <3> QED
      BY <3>1, <3>2, <3>3, <3>4
  <2>6. CASE phase[p] = "resetting"
    BY <2>1, <2>3, <2>6 DEF Progress
  <2> QED
    BY <2>1, <2>4, <2>5, <2>6
<1>7. ASSUME NEW r \in calls, Activated(r), r.proc = p PROVE Progress(p)'
  <2>1. /\ phase[p] = "activating" /\ phase' = phase /\ Len(saves'[p]) = 4
    BY <1>1, <1>7, Queue DEF BaseInv, Placed, Activated, ActivationSaves, TypeOK
  <2> QED
    BY <2>1 DEF Progress
<1>8. ASSUME NEW r \in calls, Refreshed(r), r.proc = p PROVE Progress(p)'
  <2>1. /\ phase[p] = "running" /\ phase' = phase /\ Len(saves'[p]) = 3 /\ disk' = disk
        /\ secret'[p].account = secret[p].account
    BY <1>1, <1>8, Queue DEF BaseInv, Placed, Refreshed, RefreshSaves, TypeOK, Secret
  <2>2. Progress(p)
    BY <2>1
  <2> QED
    BY <2>1, <2>2 DEF Progress
<1> QED
  BY <1>2, <1>3, <1>4, <1>5, <1>6, <1>7, <1>8
     DEF StartUp, StartNotActivated, ActivateCommand, Answered

(* Every step is one of p's own, or leaves what p has come to. *)
LEMMA OwnOrNot ==
    ASSUME BaseInv, NEW p \in Procs, Step, phase'[p] # "down"
    PROVE  \/ StartUp(p) \/ ActivateCommand(p) \/ StartInitialize(p) \/ Request(p)
           \/ SaveKey(p)
           \/ \E r \in calls : Answered(r) /\ r.proc = p
           \/ phase'[p] = phase[p] /\ secret'[p] = secret[p] /\ saves'[p] = saves[p]
<1> DEFINE Same == phase'[p] = phase[p] /\ secret'[p] = secret[p] /\ saves'[p] = saves[p]
<1>1. TypeOK /\ \A r \in calls : r.proc \in Procs
  BY Lengths DEF BaseInv
<1>2. ASSUME NEW q \in Procs, q # p,
             \/ StartUp(q) \/ ActivateCommand(q) \/ StartInitialize(q) \/ Stop(q)
             \/ Request(q)
      PROVE  Same
  BY <1>1, <1>2 DEF StartUp, StartActivated, StartNotActivated, ActivateCommand, Activate, Load,
     StartInitialize, Stop, Gone, Request, TypeOK
<1>3. ASSUME NEW q \in Procs, q # p, SaveKey(q) PROVE Same
  BY <1>1, <1>3 DEF SaveKey, TypeOK
<1>4. ASSUME NEW q \in Procs, q = p, Stop(q) PROVE FALSE
  BY <1>1, <1>4 DEF Stop, Gone, TypeOK
<1>5. ASSUME NEW r \in calls, CloudGrants(r) PROVE Same
  BY <1>5 DEF CloudGrants
<1>6. ASSUME NEW r \in calls, CallFails(r) PROVE Same
  BY <1>1, <1>6 DEF CallFails, Gone, TypeOK
<1>7. ASSUME NEW r \in calls, Answered(r), r.proc # p PROVE Same
  BY <1>1, <1>7 DEF Answered, Activated, Refreshed, TypeOK
<1>8. CASE Expire \/ (\E c \in Accounts \cup {NoAccount} : SaveCode(c)) \/ ForceRefresh
  BY <1>8 DEF Expire, SaveCode, ForceRefresh
<1> QED
  BY <1>2, <1>3, <1>4, <1>5, <1>6, <1>7, <1>8 DEF Step

LEMMA NextSaved == ASSUME BaseInv, SavedInv, [Next]_vars PROVE SavedInv'
<1>1. CASE Next
  <2> SUFFICES ASSUME NEW p \in undisturbed' PROVE p \in Procs /\ Progress(p)'
    BY DEF SavedInv
  <2>1. /\ p \in Procs /\ phase'[p] # "down" /\ Step
        /\ p \in undisturbed \/ phase[p] = "down"
        /\ disk' \in {disk, [disk EXCEPT !.expire = None]} \/ saves'[p] # saves[p]
    BY <1>1 DEF Next, Observed
  <2>2. phase[p] = "down" \/ Progress(p)
    BY <2>1 DEF SavedInv
  <2>3. CASE phase'[p] = phase[p] /\ secret'[p] = secret[p] /\ saves'[p] = saves[p]
    <3>1. TypeOK /\ Progress(p) /\ disk' \in {disk, [disk EXCEPT !.expire = None]}
      BY <2>1, <2>2, <2>3 DEF BaseInv
    <3> QED
      BY <2>1, <2>3, <3>1, ProgressStays
  <2> QED
    BY <2>1, <2>2, <2>3, OwnOrNot, OwnProgress
<1>2. CASE UNCHANGED vars
  BY <1>2, ProgressStays DEF SavedInv, BaseInv, vars, system
<1> QED
  BY <1>1, <1>2

(* What a program that nobody saved over uses is on disk when it goes on   *)
(* to its requests, whatever other programs activate, refresh or reset.    *)
THEOREM CredentialsSaved == Spec => []UsedIsSaved
<1>1. Init => SavedInv
  BY DEF Init, SavedInv
<1>2. BaseInv /\ SavedInv => UsedIsSaved
  <2> SUFFICES ASSUME BaseInv, SavedInv, NEW p \in undisturbed, phase[p] = "running",
                      saves[p] = <<>>
               PROVE  /\ disk.token = secret[p].token
                      /\ disk.refresh = secret[p].refresh
                      /\ disk.account = secret[p].account
                      /\ disk.expire \in {secret[p].expire, None}
    BY DEF UsedIsSaved
  <2>1. Progress(p) /\ Len(saves[p]) = 0
    BY Queue DEF SavedInv
  <2> QED
    BY <2>1 DEF Progress, TokenSaved, BothSaved, ExpirySaved
<1>3. BaseInv /\ SavedInv /\ [Next]_vars => SavedInv'
  BY NextSaved
<1> QED
  BY <1>1, <1>2, <1>3, CallbacksAreOrdered, PTL DEF Spec

-----------------------------------------------------------------------------
(* Credentials belong together when activations and resets are alone *)

(* What the cloud granted is its own, and a refresh is asked for the       *)
(* account in memory. *)
AskedFor(r) ==
    /\ r.grant # None => Owns(r.account, r.grant)
    /\ r.kind = "refresh" => r.account = secret[r.proc].account

Own(p) ==
    /\ phase[p] = "running" => Whole(secret[p]) /\ disk.account = secret[p].account
    /\ phase[p] = "activating" =>
          /\ disk.account = NoAccount
          /\ p \in undisturbed
          /\ saves[p] # <<>> => Whole(secret[p])
    /\ phase[p] = "resetting" /\ Len(saves[p]) = 1 => disk.account = NoAccount

DiskIsWhole == Whole(disk) /\ (disk.account # NoAccount => disk.token # None)

AloneInv ==
    /\ Exclusive
    /\ DiskIsWhole
    /\ \A r \in calls : AskedFor(r)
    /\ \A p \in Procs : Own(p)

(* What the cloud issues later does not change whose an earlier grant is. *)
LEMMA IssuedStays ==
    ASSUME TypeOK, NEW a \in Accounts, owner' = Append(owner, a), NEW x, NEW g, Owns(x, g)
    PROVE  (Owns(x, g))'
BY DEF TypeOK, Owns

(* p is undisturbed next if it was, and only p saves. *)
LEMMA Undisturbed ==
    ASSUME Observed, NEW p \in Procs, phase'[p] # "down", p \in undisturbed \/ phase[p] = "down",
           disk' \in {disk, [disk EXCEPT !.expire = None]} \/ saves'[p] # saves[p]
    PROVE  p \in undisturbed'
BY DEF Observed

(* A step of p that leaves the account on disk. *)
LEMMA OthersOwn ==
    ASSUME BaseInv, AloneInv, NEW p \in Procs, Observed, Exclusive', owner' = owner,
           \A q \in Procs : q # p => /\ phase'[q] = phase[q] /\ secret'[q] = secret[q]
                                     /\ saves'[q] = saves[q],
           disk'.account = disk.account,
           phase[p] \in {"down", "activating", "resetting"} => disk' = disk,
           Own(p)'
    PROVE  \A q \in Procs : Own(q)'
<1>1. ASSUME NEW q \in Procs, q # p PROVE Own(q)'
  <2>1. Own(q) /\ Exclusive /\ Exclusive'
    BY DEF AloneInv
  <2>2. phase[q] = "activating" => disk' = disk
    BY <1>1, <2>1 DEF Exclusive
  <2>3. phase[q] = "activating" => q \in undisturbed'
    BY <1>1, <2>1, <2>2, Undisturbed DEF Own
  <2> QED
    BY <1>1, <2>1, <2>3 DEF Own, Whole, IsActivated, Owns
<1> QED
  BY <1>1

(* Others are down while p activates or resets. *)
LEMMA OthersAreDown ==
    ASSUME Exclusive', NEW p \in Procs, phase'[p] \in {"activating", "resetting"}
    PROVE  \A q \in Procs : q # p => Own(q)'
BY DEF Exclusive, Own

LEMMA OthersAsked ==
    ASSUME BaseInv, AloneInv, NEW p \in Procs, owner' = owner,
           \A q \in Procs : q # p => secret'[q] = secret[q],
           \A r \in calls' : r \in calls \/ r.proc = p,
           \A r \in calls' : r.proc = p => AskedFor(r)'
    PROVE  \A r \in calls' : AskedFor(r)'
<1>1. ASSUME NEW r \in calls', r.proc # p PROVE AskedFor(r)'
  <2>1. r \in calls /\ r.proc \in Procs /\ AskedFor(r)
    BY <1>1, Lengths DEF BaseInv, AloneInv
  <2> QED
    BY <1>1, <2>1 DEF AskedFor, Owns
<1> QED
  BY <1>1

(* What checkDeviceToken asks is for the account of a whole secret. *)
LEMMA CheckedFor ==
    ASSUME TypeOK, NEW p \in Procs, NEW s \in Secret, Complete(s), s.refresh <= Len(owner),
           Whole(s), CheckDeviceToken(p, s)
    PROVE  /\ calls \subseteq calls'
           /\ \A r \in calls' \ calls : /\ r.kind = "refresh" /\ r.proc = p
                                       /\ r.account = s.account /\ r.grant = None
<1>1. owner[s.refresh] = s.account
  BY DEF Whole, Complete, Owns
<1> QED
  BY <1>1, Checked, Refreshable

LEMMA StartActivatedAlone ==
    ASSUME BaseInv, AloneInv, NEW p \in Procs, StartActivated(p), Observed, Exclusive'
    PROVE  AloneInv'
<1>1. /\ TypeOK /\ disk \in Secret /\ phase[p] = "down" /\ DiskRefreshes /\ DiskIsWhole
      /\ UNCHANGED <<cloud, code, disk, saves>> /\ CheckDeviceToken(p, disk)
      /\ phase'[p] = "running" /\ secret'[p] = disk /\ IsActivated(disk)
      /\ \A q \in Procs : q # p => phase'[q] = phase[q] /\ secret'[q] = secret[q]
  BY DEF StartActivated, Load, BaseInv, AloneInv, TypeOK
<1>2. Complete(disk) /\ disk.refresh <= Len(owner) /\ Whole(disk)
  BY <1>1 DEF DiskRefreshes, DiskIsWhole, Complete, IsActivated
<1>3. /\ calls \subseteq calls'
      /\ \A r \in calls' \ calls : /\ r.kind = "refresh" /\ r.proc = p
                                  /\ r.account = disk.account /\ r.grant = None
  BY <1>1, <1>2, CheckedFor
<1>4. Own(p)'
  BY <1>1, <1>2 DEF Own, Whole, Owns, IsActivated, cloud
<1>5. \A r \in calls' : r.proc = p => AskedFor(r)'
  BY <1>1, <1>3, DownCalls DEF AskedFor
<1> QED
  BY <1>1, <1>3, <1>4, <1>5, OthersOwn, OthersAsked
     DEF AloneInv, DiskIsWhole, Whole, IsActivated, Owns, cloud

LEMMA ActivateAlone ==
    ASSUME BaseInv, AloneInv, NEW p \in Procs, NEW c, Activate(p, c), Observed, Exclusive'
    PROVE  AloneInv'
<1>1. /\ TypeOK /\ phase[p] = "down" /\ saves[p] = <<>> /\ DiskIsWhole
      /\ UNCHANGED <<cloud, code, disk, saves>>
      /\ phase'[p] = "activating" /\ disk.account = NoAccount
      /\ \A q \in Procs : q # p => secret'[q] = secret[q]
  BY DEF Activate, Load, BaseInv, AloneInv, TypeOK, IsActivated, Shaped, DiskIsWhole
<1>2. PICK i \in CallIds :
         calls' = calls \cup
            {[id |-> i, proc |-> p, kind |-> "activate", account |-> c, grant |-> None]}
  BY DEF Activate, Send
<1>3. p \in undisturbed'
  BY <1>1, Undisturbed
<1>4. Own(p)' /\ \A q \in Procs : q # p => Own(q)'
  BY <1>1, <1>3, OthersAreDown DEF Own
<1>5. \A r \in calls' : r.proc = p => AskedFor(r)'
  BY <1>1, <1>2, DownCalls DEF AskedFor
<1>6. \A r \in calls' : r \in calls \/ r.proc = p
  BY <1>2
<1> QED
  BY <1>1, <1>4, <1>5, <1>6, OthersAsked DEF AloneInv, DiskIsWhole, Whole, IsActivated, cloud

LEMMA InitializeAlone ==
    ASSUME BaseInv, AloneInv, NEW p \in Procs, StartInitialize(p), Observed, Exclusive'
    PROVE  AloneInv'
<1>1. /\ TypeOK /\ phase[p] = "down" /\ UNCHANGED <<cloud, code, disk, secret, calls>>
      /\ phase'[p] = "resetting" /\ DiskIsWhole /\ Len(saves'[p]) = 2
  BY Queue DEF StartInitialize, ResetSaves, BaseInv, AloneInv, TypeOK
<1>2. Own(p)' /\ \A q \in Procs : q # p => Own(q)'
  BY <1>1, OthersAreDown DEF Own
<1>3. \A r \in calls' : AskedFor(r)'
  BY <1>1 DEF AloneInv, AskedFor, Owns, cloud
<1> QED
  BY <1>1, <1>2, <1>3 DEF AloneInv, DiskIsWhole, Whole, IsActivated, Owns, cloud

LEMMA GoneAlone ==
    ASSUME BaseInv, AloneInv, NEW p \in Procs, Gone(p), UNCHANGED <<cloud, code, disk>>,
           Observed, Exclusive'
    PROVE  AloneInv'
<1>1. /\ TypeOK /\ calls' = {r \in calls : r.proc # p} /\ phase'[p] = "down" /\ DiskIsWhole
      /\ \A q \in Procs : q # p => /\ phase'[q] = phase[q] /\ secret'[q] = secret[q]
                                   /\ saves'[q] = saves[q]
  BY DEF Gone, BaseInv, AloneInv, TypeOK
<1>2. Own(p)'
  BY <1>1 DEF Own
<1>3. /\ \A r \in calls' : r \in calls \/ r.proc = p
      /\ \A r \in calls' : r.proc = p => AskedFor(r)'
  BY <1>1
<1> QED
  BY <1>1, <1>2, <1>3, OthersOwn, OthersAsked
     DEF AloneInv, DiskIsWhole, Whole, IsActivated, Owns, cloud

LEMMA RequestAlone ==
    ASSUME BaseInv, AloneInv, NEW p \in Procs, Request(p), Observed, Exclusive'
    PROVE  AloneInv'
<1>1. /\ TypeOK /\ Shaped(p) /\ Own(p) /\ phase[p] = "running" /\ secret[p] \in Secret
      /\ UNCHANGED <<cloud, code, disk, phase, secret, connector, saves>>
      /\ CheckDeviceToken(p, secret[p]) /\ DiskIsWhole
  BY DEF Request, BaseInv, AloneInv, TypeOK
<1>2. Complete(secret[p]) /\ secret[p].refresh <= Len(owner) /\ Whole(secret[p])
  BY <1>1 DEF Shaped, Own
<1>3. /\ calls \subseteq calls'
      /\ \A r \in calls' \ calls : /\ r.kind = "refresh" /\ r.proc = p
                                  /\ r.account = secret[p].account /\ r.grant = None
  BY <1>1, <1>2, CheckedFor
<1>4. Own(p)'
  BY <1>1 DEF Own, Whole, Owns, IsActivated, cloud
<1>5. \A r \in calls' : r.proc = p => AskedFor(r)'
  BY <1>1, <1>3 DEF AskedFor, AloneInv, Owns, cloud
<1> QED
  BY <1>1, <1>3, <1>4, <1>5, OthersOwn, OthersAsked
     DEF AloneInv, DiskIsWhole, Whole, IsActivated, Owns, cloud

(* A running program saves tokens of the account that is on disk. *)
LEMMA RunningSaveAlone ==
    ASSUME BaseInv, AloneInv, NEW p \in Procs, SaveKey(p), phase[p] = "running",
           Observed, Exclusive'
    PROVE  AloneInv'
<1> DEFINE s == secret[p]
<1>1. /\ TypeOK /\ Shaped(p) /\ Own(p) /\ DiskIsWhole /\ InOrder(p)
      /\ \A q \in Procs : q # p => saves'[q] = saves[q]
      /\ UNCHANGED <<cloud, secret, phase, calls>>
  BY Ordered DEF SaveKey, BaseInv, AloneInv
<1>2. Complete(s) /\ Whole(s) /\ disk.account = s.account
  BY <1>1 DEF Shaped, Own
<1>3. disk'.account = disk.account
  BY <1>1 DEF InOrder, SetsToken, SetsRefresh, SetsExpire
<1>4. DiskIsWhole'
  BY <1>1, <1>2 DEF InOrder, SetsToken, SetsRefresh, SetsExpire, DiskIsWhole, Whole, Complete,
     IsActivated, Owns, cloud
<1>5. Own(p)'
  BY <1>1, <1>2, <1>3 DEF Own, Whole, IsActivated, Owns, cloud
<1>6. \A r \in calls' : AskedFor(r)'
  BY <1>1 DEF AloneInv, AskedFor, Owns, cloud
<1> QED
  BY <1>1, <1>3, <1>4, <1>5, <1>6, OthersOwn DEF AloneInv, cloud

LEMMA ResettingSaveAlone ==
    ASSUME BaseInv, AloneInv, NEW p \in Procs, SaveKey(p), phase[p] = "resetting",
           Observed, Exclusive'
    PROVE  AloneInv'
<1>1. /\ TypeOK /\ Own(p) /\ DiskIsWhole /\ InOrder(p)
      /\ Len(saves'[p]) = Len(saves[p]) - 1
      /\ saves'[p] = Tail(saves[p])
      /\ UNCHANGED <<cloud, secret, calls>> /\ Exclusive
  BY Ordered DEF SaveKey, BaseInv, AloneInv, TypeOK
<1>2. /\ phase'[p] \in {"down", "resetting"}
      /\ \A q \in Procs : q # p => phase'[q] = "down"
  BY <1>1 DEF SaveKey, Exclusive, TypeOK
<1>3. disk'.account = NoAccount
  BY <1>1 DEF InOrder, SetsToken, SetsAccount, Own
<1>4. DiskIsWhole' /\ \A q \in Procs : Own(q)'
  BY <1>2, <1>3 DEF DiskIsWhole, Whole, IsActivated, Own
<1>5. \A r \in calls' : AskedFor(r)'
  BY <1>1 DEF AloneInv, AskedFor, Owns, cloud
<1> QED
  BY <1>4, <1>5 DEF AloneInv

(* The account comes last, when both tokens are on disk. *)
LEMMA ActivatingSaveAlone ==
    ASSUME BaseInv, SavedInv, AloneInv, NEW p \in Procs, SaveKey(p), phase[p] = "activating",
           Observed, Exclusive'
    PROVE  AloneInv'
<1> DEFINE s == secret[p]
<1>1. /\ TypeOK /\ Shaped(p) /\ Own(p) /\ DiskIsWhole /\ InOrder(p) /\ Progress(p)
      /\ Len(saves'[p]) = Len(saves[p]) - 1
      /\ saves'[p] = <<>> <=> Len(saves[p]) = 1
      /\ saves'[p] = Tail(saves[p]) /\ saves[p] # <<>>
      /\ UNCHANGED <<cloud, secret>> /\ Exclusive /\ s \in Secret
      /\ disk.account = NoAccount
  BY Ordered DEF SaveKey, BaseInv, SavedInv, AloneInv, Own, TypeOK
<1>2. Complete(s) /\ Whole(s) /\ s.refresh <= Len(owner)
  BY <1>1 DEF Shaped, Own
<1>3. \A q \in Procs : q # p => phase[q] = "down" /\ phase'[q] = "down"
  BY <1>1 DEF SaveKey, Exclusive, TypeOK
<1>4. CASE Len(saves[p]) # 1
  <2>1. /\ disk'.account = NoAccount /\ phase'[p] = "activating" /\ calls' = calls
        /\ saves'[p] # saves[p]
    <3>1. disk'.account = NoAccount
      BY <1>1, <1>4 DEF InOrder, SetsToken, SetsRefresh, SetsExpire
    <3>2. Tail(saves[p]) # <<>> /\ Len(saves[p]) \in Nat
      BY <1>1, <1>4 DEF InOrder
    <3>3. phase' = phase /\ calls' = calls
      BY <3>2 DEF SaveKey
    <3>4. saves'[p] # saves[p]
      <4>1. Len(saves'[p]) = Len(saves[p]) - 1
        BY <1>1
      <4> QED
        BY <3>2, <4>1
    <3> QED
      BY <3>1, <3>3, <3>4
  <2>2. p \in undisturbed'
    BY <1>1, <2>1, Undisturbed DEF Own
  <2>3. DiskIsWhole' /\ \A q \in Procs : Own(q)'
    BY <1>1, <1>2, <1>3, <2>1, <2>2 DEF DiskIsWhole, Own, Whole, IsActivated, Owns, cloud
  <2> QED
    BY <1>1, <2>1, <2>3 DEF AloneInv, AskedFor, Owns, cloud
<1>5. CASE Len(saves[p]) = 1
  <2>1. SetsAccount(s.account) /\ BothSaved(s)
    BY <1>1, <1>5 DEF InOrder, Progress
  <2>2. phase'[p] = "running" /\ CheckDeviceToken(p, s)
    BY <1>1, <1>5 DEF SaveKey, TypeOK
  <2>3. /\ calls \subseteq calls'
        /\ \A r \in calls' \ calls : /\ r.kind = "refresh" /\ r.proc = p
                                    /\ r.account = s.account /\ r.grant = None
    BY <1>1, <1>2, <2>2, CheckedFor
  <2>4. DiskIsWhole' /\ Own(p)'
    BY <1>1, <1>2, <2>1, <2>2 DEF SetsAccount, BothSaved, TokenSaved, Complete, DiskIsWhole, Own,
       Whole, IsActivated, Owns, cloud
  <2>5. \A q \in Procs : q # p => Own(q)'
    BY <1>3 DEF Own
  <2>6. \A r \in calls' : AskedFor(r)'
    BY <1>1, <2>3 DEF AloneInv, AskedFor, Owns, cloud
  <2> QED
    BY <2>4, <2>5, <2>6 DEF AloneInv
<1> QED
  BY <1>4, <1>5

LEMMA CloudGrantsAlone ==
    ASSUME BaseInv, AloneInv, NEW r \in calls, CloudGrants(r), Observed, Exclusive'
    PROVE  AloneInv'
<1> DEFINE q == [r EXCEPT !.grant = Len(owner) + 1]
<1>1. /\ TypeOK /\ r \in Call /\ r.account \in Accounts /\ owner \in Seq(Accounts)
      /\ Len(owner) \in Nat /\ AskedFor(r) /\ DiskIsWhole
      /\ owner' = Append(owner, r.account) /\ calls' = (calls \ {r}) \cup {q}
      /\ UNCHANGED <<disk, phase, secret, saves>>
  BY DEF BaseInv, AloneInv, TypeOK, CloudGrants, Call
<1>2. Len(owner) + 1 \in DOMAIN owner' /\ owner'[Len(owner) + 1] = r.account
  BY <1>1
<1>3. /\ q.proc = r.proc /\ q.kind = r.kind /\ q.account = r.account
      /\ q.grant = Len(owner) + 1
  BY <1>1 DEF Call
<1> HIDE DEF q
<1>4. ASSUME NEW s, Whole(s) PROVE Whole(s)'
  BY <1>1, <1>4, IssuedStays DEF Whole, IsActivated
<1>5. DiskIsWhole'
  BY <1>1, <1>4 DEF DiskIsWhole
<1>6. ASSUME NEW x \in calls' PROVE AskedFor(x)'
  <2>1. CASE x = q
    BY <1>1, <1>2, <1>3, <2>1 DEF AskedFor, Owns
  <2>2. CASE x \in calls /\ x # r
    <3>1. AskedFor(x)
      BY <2>2 DEF AloneInv
    <3> QED
      BY <1>1, <3>1, IssuedStays DEF AskedFor
  <2> QED
    BY <1>1, <2>1, <2>2
<1>7. ASSUME NEW p \in Procs PROVE Own(p)'
  <2>1. Own(p)
    BY DEF AloneInv
  <2>2. phase[p] = "activating" => p \in undisturbed'
    BY <1>1, <2>1, Undisturbed DEF Own
  <2> QED
    BY <1>1, <1>4, <2>1, <2>2 DEF Own
<1> QED
  BY <1>5, <1>6, <1>7 DEF AloneInv

LEMMA ActivatedAlone ==
    ASSUME BaseInv, AloneInv, NEW r \in calls, Activated(r), Observed, Exclusive'
    PROVE  AloneInv'
<1> DEFINE p == r.proc
           s == [token |-> r.grant, refresh |-> r.grant, expire |-> r.grant,
                 account |-> r.account]
<1>1. /\ TypeOK /\ p \in Procs /\ r.kind = "activate" /\ r.grant # None /\ AskedFor(r)
      /\ saves[p] = <<>> /\ phase[p] = "activating" /\ Placed(r) /\ Own(p) /\ DiskIsWhole
      /\ secret'[p] = s /\ saves'[p] = ActivationSaves(s)
      /\ calls' = calls \ {r} /\ Exclusive
      /\ UNCHANGED <<cloud, code, disk, phase>>
      /\ \A q \in Procs : q # p => secret'[q] = secret[q]
  BY DEF BaseInv, AloneInv, TypeOK, Activated, Call, Placed
<1>2. Whole(s)'
  BY <1>1 DEF Whole, Owns, AskedFor, cloud
<1> HIDE DEF s
<1>3. saves'[p] # saves[p]
  BY <1>1, Queue DEF ActivationSaves
<1>4. p \in undisturbed'
  BY <1>1, <1>3, Undisturbed DEF Own
<1>5. Own(p)' /\ \A q \in Procs : q # p => Own(q)'
  BY <1>1, <1>2, <1>4, OthersAreDown DEF Own
<1>6. /\ \A x \in calls' : x \in calls \/ x.proc = p
      /\ \A x \in calls' : x.proc = p => AskedFor(x)'
  BY <1>1 DEF Placed
<1> HIDE DEF p
<1> QED
  BY <1>1, <1>5, <1>6, OthersAsked DEF AloneInv, DiskIsWhole, Whole, IsActivated, Owns, cloud

LEMMA RefreshedAlone ==
    ASSUME BaseInv, AloneInv, NEW r \in calls, Refreshed(r), Observed, Exclusive'
    PROVE  AloneInv'
<1> DEFINE p == r.proc
           s == [secret[p] EXCEPT !.token = r.grant, !.refresh = r.grant, !.expire = r.grant]
<1>1. /\ TypeOK /\ p \in Procs /\ r.kind = "refresh" /\ r.grant # None /\ AskedFor(r)
      /\ phase[p] = "running" /\ Own(p) /\ DiskIsWhole /\ secret[p] \in Secret
      /\ secret'[p] = s /\ calls' = calls \ {r}
      /\ UNCHANGED <<cloud, code, disk, phase>>
      /\ \A q \in Procs : q # p => /\ phase'[q] = phase[q] /\ secret'[q] = secret[q]
                                   /\ saves'[q] = saves[q]
      /\ \A x \in calls : Placed(x) /\ AskedFor(x)
  BY DEF BaseInv, AloneInv, TypeOK, Refreshed, Call, Placed
<1>2. /\ secret'[p].account = secret[p].account
      /\ secret'[p].token = r.grant /\ secret'[p].refresh = r.grant
  BY <1>1 DEF Secret
<1> HIDE DEF s
<1>3. Whole(secret[p])'
  BY <1>1, <1>2 DEF Whole, Owns, AskedFor, cloud
<1>4. Own(p)'
  BY <1>1, <1>2, <1>3 DEF Own
<1>5. \A x \in calls' : x.proc = p => AskedFor(x)'
  BY <1>1, <1>2 DEF AskedFor, Owns, cloud
<1> HIDE DEF p
<1> QED
  BY <1>1, <1>4, <1>5, OthersOwn, OthersAsked
     DEF AloneInv, DiskIsWhole, Whole, IsActivated, Owns, cloud

LEMMA OutsideAlone ==
    ASSUME BaseInv, AloneInv, UNCHANGED <<owner, phase, secret, connector, saves, calls>>,
           disk' = disk \/ disk' = [disk EXCEPT !.expire = None],
           Observed \/ UNCHANGED undisturbed
    PROVE  AloneInv'
<1>1. /\ disk'.token = disk.token /\ disk'.refresh = disk.refresh
      /\ disk'.account = disk.account
  BY DEF BaseInv, TypeOK, Secret
<1>2. ASSUME NEW p \in Procs, phase[p] = "activating" PROVE p \in undisturbed'
  BY <1>2, Undisturbed DEF AloneInv, Own
<1> QED
  BY <1>1, <1>2 DEF AloneInv, Exclusive, DiskIsWhole, AskedFor, Own, Whole, IsActivated, Owns

LEMMA SaveKeyAlone ==
    ASSUME BaseInv, SavedInv, AloneInv, NEW p \in Procs, SaveKey(p), Observed, Exclusive'
    PROVE  AloneInv'
<1>1. phase[p] \in {"activating", "running", "resetting"}
  BY Ordered
<1> QED
  BY <1>1, RunningSaveAlone, ResettingSaveAlone, ActivatingSaveAlone

LEMMA NextAlone ==
    ASSUME BaseInv, SavedInv, AloneInv, [Next /\ Exclusive']_vars PROVE AloneInv'
<1>0. \A r \in calls : r.proc \in Procs
  BY Lengths DEF BaseInv
<1> DEFINE Holds == Observed /\ Exclusive'
<1>1. ASSUME NEW p \in Procs, StartUp(p) \/ ActivateCommand(p), Holds PROVE AloneInv'
  BY <1>1, StartActivatedAlone, ActivateAlone DEF StartUp, StartNotActivated, ActivateCommand
<1>2. ASSUME NEW p \in Procs, StartInitialize(p) \/ Stop(p), Holds PROVE AloneInv'
  BY <1>2, InitializeAlone, GoneAlone DEF Stop
<1>3. ASSUME NEW p \in Procs, Request(p) \/ SaveKey(p), Holds PROVE AloneInv'
  BY <1>3, RequestAlone, SaveKeyAlone
<1>4. ASSUME NEW r \in calls, CloudGrants(r) \/ CallFails(r) \/ Answered(r), Holds
      PROVE  AloneInv'
  BY <1>0, <1>4, CloudGrantsAlone, GoneAlone, ActivatedAlone, RefreshedAlone
     DEF CallFails, Answered
<1>5. ASSUME Expire \/ (\E c \in Accounts \cup {NoAccount} : SaveCode(c)) \/ ForceRefresh, Holds
      PROVE  AloneInv'
  BY <1>5, OutsideAlone DEF Expire, SaveCode, ForceRefresh, cloud
<1>6. CASE UNCHANGED vars
  BY <1>6, OutsideAlone DEF vars, system, cloud
<1> QED
  BY <1>1, <1>2, <1>3, <1>4, <1>5, <1>6 DEF Next, Step

(* The token and the refresh token are of the account they are stored with *)
(* whenever a restart would take the device for activated, and in every    *)
(* program that uses them, if programs activate and reset it alone         *)
(* (however many refresh beside each other, and whichever crashes).        *)
THEOREM CredentialsBelongTogether == CarefulSpec => []OneAccount
<1>1. Init => SavedInv /\ AloneInv
  BY DEF Init, SavedInv, AloneInv, Exclusive, DiskIsWhole, Own, Whole, IsActivated, Nothing, None
<1>2. BaseInv /\ SavedInv /\ AloneInv /\ [Next /\ Exclusive']_vars
        => BaseInv' /\ SavedInv' /\ AloneInv'
  BY NextBase, NextSaved, NextAlone
<1>3. AloneInv => OneAccount
  BY DEF AloneInv, OneAccount, DiskIsWhole, Own
<1> QED
  BY <1>1, <1>2, <1>3, InitBase, PTL DEF CarefulSpec
=============================================================================
