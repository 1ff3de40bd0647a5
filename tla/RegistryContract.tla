--------------------------- MODULE RegistryContract ---------------------------
(***************************************************************************)
(* What the registration of components promises to whoever asks for it,    *)
(* without caches, files or messages: a device has components its cloud    *)
(* holds and components its list has; clients come and go and ask for      *)
(* components.  Once the cloud's consent has reached a client's process,   *)
(* the request ends well: the component is put on the list and success is  *)
(* reported, unless the client's process ends first.  Between the two the  *)
(* list may be rewritten, so that success says of the list what was true   *)
(* when the component was recorded, and no more.  A request without the    *)
(* consent may fail, even of a component the cloud holds.  The list may    *)
(* forget what it had, but it never has what the cloud does not hold.      *)
(***************************************************************************)
CONSTANTS Component,    \* a set of records with a field cid
          Client        \* who may ask

VARIABLES held,         \* the components the cloud holds
          known,        \* those the device's list has
          clients,      \* who is there
          pending,      \* [client, comp] asked for and not answered
          granted,      \* those of them the cloud's consent has reached
          recorded      \* those of them that were put on the list since

vars == <<held, known, clients, pending, granted, recorded>>

Ask == [client : Client, comp : Component]

CidsOf(S) == {c.cid : c \in S}

Init ==
    /\ held = {} /\ known = {}
    /\ clients = {} /\ pending = {} /\ granted = {} /\ recorded = {}

(* Clients come, and go with what they asked for. *)
Join(p) ==
    /\ clients' = clients \cup {p}
    /\ UNCHANGED <<held, known, pending, granted, recorded>>

Leave(p) ==
    /\ clients' = clients \ {p}
    /\ pending' = {a \in pending : a.client # p}
    /\ granted' = {a \in granted : a.client # p}
    /\ recorded' = {a \in recorded : a.client # p}
    /\ UNCHANGED <<held, known>>

(* A client asks for a new component, under an id of its own. *)
Request(a) ==
    /\ a.client \in clients
    /\ a.comp.cid \notin CidsOf(held) \cup {b.comp.cid : b \in pending}
    /\ pending' = pending \cup {a}
    /\ UNCHANGED <<held, known, clients, granted, recorded>>

(* The cloud takes a component, asked for here or elsewhere, and tells the *)
(* client or not.                                                          *)
Take(c) ==
    /\ c.cid \notin CidsOf(held)
    /\ held' = held \cup {c}
    /\ \/ UNCHANGED granted
       \/ \E a \in pending : a.comp = c /\ granted' = granted \cup {a}
    /\ UNCHANGED <<known, clients, pending, recorded>>

(* The component is put on the list; success is reported later ... *)
Record(a) ==
    /\ a \in granted
    /\ granted' = granted \ {a}
    /\ recorded' = recorded \cup {a}
    /\ known' \in SUBSET held /\ a.comp \in known'
    /\ UNCHANGED <<held, clients, pending>>

Succeed(a) ==
    /\ a \in recorded
    /\ recorded' = recorded \ {a}
    /\ pending' = pending \ {a}
    /\ UNCHANGED <<held, known, clients, granted>>

(* ... or at once. *)
RecordAndSucceed(a) ==
    /\ a \in granted
    /\ granted' = granted \ {a}
    /\ pending' = pending \ {a}
    /\ known' \in SUBSET held /\ a.comp \in known'
    /\ UNCHANGED <<held, clients, recorded>>

(* Failure is reported. *)
Fail(a) ==
    /\ a \in pending \ (granted \cup recorded)
    /\ pending' = pending \ {a}
    /\ UNCHANGED <<held, known, clients, granted, recorded>>

(* The list is rewritten. *)
Rewrite ==
    /\ known' \in SUBSET held
    /\ UNCHANGED <<held, clients, pending, granted, recorded>>

Next ==
    \/ \E p \in Client : Join(p) \/ Leave(p)
    \/ \E a \in Ask : \/ Request(a) \/ Fail(a)
                      \/ Record(a) \/ Succeed(a) \/ RecordAndSucceed(a)
    \/ \E c \in Component : Take(c)
    \/ Rewrite

Spec == Init /\ [][Next]_vars
=============================================================================
