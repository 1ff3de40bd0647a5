----------------------------- MODULE SensorStore -----------------------------
(***************************************************************************)
(* The list of components that lib/sensors-store.js keeps in memory and    *)
(* writes to device.json.  A list is a sequence of components.  A lookup   *)
(* is modelled by the set of positions it matches: Array.find stops at the *)
(* least of them, and an empty set is the miss on which every lookup of    *)
(* the code reads the list again from the file.                            *)
(***************************************************************************)
EXTENDS SequencesExt

CONSTANTS Cids,     \* component ids
          Names,    \* component names, in every spelling that occurs
          Types,    \* catalog ids
          Lower     \* String.toLowerCase on names and types

ASSUME LowerAssumption == Names \cup Types \subseteq DOMAIN Lower

Component == [cid : Cids, name : Names, type : Types]

SameText(a, b) == Lower[a] = Lower[b]

-----------------------------------------------------------------------------
ByCid(list, cid) == {i \in DOMAIN list : list[i].cid = cid}

ByName(list, name) == {i \in DOMAIN list : SameText(list[i].name, name)}

Exist(list, sen) == {i \in DOMAIN list : /\ SameText(list[i].name, sen.name)
                                         /\ SameText(list[i].type, sen.type)}

(* The component a lookup returns, given the positions it matches. *)
Found(list, hits) == list[Min(hits)]

(* The list in memory after a lookup: on a miss it is the list on disk. *)
Refreshed(list, hits, disk) == IF hits = {} THEN disk ELSE list

Add(list, sen) == Append(list, sen)

Del(list, cid) ==
    IF ByCid(list, cid) = {} THEN list ELSE RemoveAt(list, Min(ByCid(list, cid)))

-----------------------------------------------------------------------------
(* One turn of the loop in updateComponents: the lookup by name may read   *)
(* the list from disk again, a hit deletes the entry with the cloud's cid, *)
(* and the cloud's component goes to the end.                              *)
SyncOneDropped(list, sen, disk) ==
    LET data == Refreshed(list, ByName(list, sen.name), disk)
    IN  IF ByName(data, sen.name) = {} THEN Add(data, sen) ELSE Del(data, sen.cid)
SyncOnePiled(list, sen, disk) ==
    Add(Refreshed(list, ByName(list, sen.name), disk), sen)
SyncOne(list, sen, disk) ==
    LET data == Refreshed(list, ByName(list, sen.name), disk)
    IN  Add(IF ByName(data, sen.name) = {} THEN data ELSE Del(data, sen.cid), sen)

(* The list updateComponents is left with after the cloud's components.    *)
SyncAll(list, data, disk) ==
    LET after[i \in 0 .. Len(data)] ==
            IF i = 0 THEN list ELSE SyncOne(after[i - 1], data[i], disk)
    IN  after[Len(data)]

-----------------------------------------------------------------------------
(* How often an id is listed. *)
AtMostOnce(list, c) == \A i, j \in ByCid(list, c) : i = j
AtMostTwice(list, c) == \A i, j, k \in ByCid(list, c) : i = j \/ j = k \/ i = k
=============================================================================
