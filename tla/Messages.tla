-------------------------------- MODULE Messages --------------------------------
(***************************************************************************)
(* What the running agent makes of the messages that local programs send   *)
(* to its UDP and its TCP port: the listeners, the message handler with    *)
(* its three schemas, registrations, readings and device updates.  Also    *)
(* the commands of oisp-admin that send a reading or name the device.      *)
(*                                                                         *)
(* A message is a record of the fields it has; a list of readings has the  *)
(* one field "items".  A name stands for a component of that name, in any  *)
(* spelling; ids, types and the merge of the cloud's components are in     *)
(* Registry, the update of the cloud's record in DeviceRecord, and what    *)
(* happens to a reading after it left the handler in Sparkplug and         *)
(* Credentials.                                                            *)
(***************************************************************************)
EXTENDS DeviceRecord, SequencesExt

CONSTANTS Names,     \* names of at least four characters
          Short,     \* a name or a type with less
          Undefined, \* the name of what has none
          MaxRegs,   \* bound on the registrations in flight
          Sendable   \* the messages that are sent

ASSUME MessagesAssumption ==
    /\ {Short, Undefined} \cap Names = {} /\ Short # Undefined
    /\ MaxRegs \in Nat
    /\ \A m \in Sendable :
          /\ "n" \in DOMAIN m => m.n \in Names \cup {Short}
          /\ "items" \in DOMAIN m => m.items \in Seq(Names)

VARIABLES agent,   \* whether the agent runs
          title,   \* the device's name, as the agent read it at its start
          cache,   \* the names in the message handler's sensor store
          listed,  \* those in sensor_list of device.json
          regs,    \* the names of the registrations in flight
          sent     \* the names of the readings submitted last

storeVars == <<cache, listed, regs, sent>>
vars == <<agent, title, storeVars, recordVars>>

(* device_name of device.json, which set-device-name and reset-device-name *)
(* save.                                                                   *)
SavedNames == Titles \cup {None}

(* The types, and that an agent that is down has no callbacks. *)
TypeOK ==
    /\ RecordTypeOK
    /\ agent \in {"up", "down"}
    /\ title \in SavedNames
    /\ cache \subseteq Names \cup {Undefined}
    /\ listed \subseteq Names \cup {Undefined}
    /\ regs \subseteq Names \cup {Undefined}
    /\ sent \in Seq(Names)
    /\ agent = "down" =>
          cache \cup regs = {} /\ \A u \in Updates : upd[u].phase \in {"free", "sent"}

Init ==
    /\ RecordInit
    /\ agent = "down"
    /\ title = None
    /\ cache = {}
    /\ listed = {}
    /\ regs = {}
    /\ sent = <<>>

-----------------------------------------------------------------------------
(* The schemas.  A list passes for an object, and its fields are not       *)
(* looked at.                                                              *)
Fields(m) == DOMAIN m
IsList(m) == "items" \in Fields(m)
Long(m, field) == field \in Fields(m) /\ m[field] # Short
GoodPlace(m) == "loc" \in Fields(m) => m.loc \in Places

IsREG(m) == IsList(m) \/ (Fields(m) = {"n", "t"} /\ Long(m, "n") /\ Long(m, "t"))
IsSUBMIT(m) == IsList(m) \/ (Long(m, "n") /\ "v" \in Fields(m) /\ GoodPlace(m))
IsUPDATE(m) == IsList(m) \/ (GoodPlace(m) /\ ("tags" \in Fields(m) => m.tags # {}))

-----------------------------------------------------------------------------
(* The sensor store *)

(* The names in memory after a lookup. *)
Looked(names, n) == IF n \in names THEN names ELSE listed

(* A list of readings, from the last to the first: those whose name is not *)
(* found are taken out, and each that is not found reads the file again.   *)
(* One reading is a list of one; no longer list gets here (see Handle).    *)
Kept(names, batch) ==
    LET after[i \in 0 .. Len(batch)] ==
            IF i = 0 THEN [names |-> names, kept |-> <<>>]
            ELSE LET n == batch[Len(batch) + 1 - i]
                     now == Looked(after[i - 1].names, n)
                 IN  [names |-> now,
                      kept |-> IF n \in now THEN <<n>> \o after[i - 1].kept
                               ELSE after[i - 1].kept]
    IN  after[Len(batch)]

-----------------------------------------------------------------------------
(* The handler *)

(* A name that is not known goes to the cloud; a list has none. *)
Registration(m) ==
    LET n == IF IsList(m) THEN Undefined ELSE m.n
    IN  /\ cache' = Looked(cache, n)
        /\ IF n \in cache' THEN UNCHANGED regs
           ELSE Cardinality(regs) < MaxRegs /\ regs' = regs \cup {n}
        /\ UNCHANGED <<agent, title, listed, sent, recordVars>>

(* Readings leave under the ids of their names, if one is left. *)
Submission(m) ==
    LET after == Kept(cache, IF IsList(m) THEN m.items ELSE <<m.n>>)
    IN  /\ cache' = after.names
        /\ sent' = IF after.kept = <<>> THEN sent ELSE after.kept
        /\ UNCHANGED <<agent, title, listed, regs, recordVars>>

(* What an update takes from a message, of a device of that name; all      *)
(* other fields are left where they are.                                   *)
Doc(m, name) ==
    [name |-> name,
     attributes |-> IF "attributes" \in Fields(m) THEN m.attributes ELSE Nothing.attributes,
     tags |-> IF "tags" \in Fields(m) THEN m.tags ELSE {},
     loc |-> IF "loc" \in Fields(m) THEN m.loc ELSE None]

ASSUME SendableAssumption ==
    \A m \in Sendable, name \in SavedNames :
        ~IsREG(m) /\ ~IsSUBMIT(m) /\ IsUPDATE(m) => Doc(m, name) \in Docs

DeviceUpdate(m) ==
    /\ \E u \in Updates : Ask(u, Doc(m, title))
    /\ UNCHANGED <<agent, title, storeVars>>

(* The first schema that a message passes; one that passes none is dropped. *)
HandleReadingsLast(m) ==
    \/ IsREG(m) /\ Registration(m)
    \/ ~IsREG(m) /\ IsUPDATE(m) /\ DeviceUpdate(m)
    \/ ~IsREG(m) /\ ~IsUPDATE(m) /\ IsSUBMIT(m) /\ Submission(m)
    \/ ~IsREG(m) /\ ~IsSUBMIT(m) /\ ~IsUPDATE(m) /\ UNCHANGED vars
Handle(m) ==
    \/ IsREG(m) /\ Registration(m)
    \/ ~IsREG(m) /\ IsSUBMIT(m) /\ Submission(m)
    \/ ~IsREG(m) /\ ~IsSUBMIT(m) /\ IsUPDATE(m) /\ DeviceUpdate(m)
    \/ ~IsREG(m) /\ ~IsSUBMIT(m) /\ ~IsUPDATE(m) /\ UNCHANGED vars

-----------------------------------------------------------------------------
(* The agent *)

(* Its handler and listeners are made after the first update round. *)
Start ==
    /\ agent = "down"
    /\ agent' = "up"
    /\ title' \in SavedNames
    /\ cache' = listed
    /\ UNCHANGED <<listed, regs, sent, recordVars>>

(* It ends: what it waited for is never handled. *)
ExitKeepsRegs ==
    /\ agent = "up"
    /\ agent' = "down"
    /\ title' = None
    /\ cache' = {}
    /\ upd' = [u \in Updates |-> IF upd[u].phase \in {"asked", "answered"} THEN Free ELSE upd[u]]
    /\ UNCHANGED <<listed, regs, sent, device>>
Exit ==
    /\ agent = "up"
    /\ agent' = "down"
    /\ title' = None
    /\ cache' = {}
    /\ regs' = {}
    /\ upd' = [u \in Updates |-> IF upd[u].phase \in {"asked", "answered"} THEN Free ELSE upd[u]]
    /\ UNCHANGED <<listed, sent, device>>

(* A datagram is a message, or it is dropped. *)
Udp(m) == agent = "up" /\ Handle(m)

(* A piece of a TCP stream is taken for one message. *)
Tcp(m) == agent = "up" /\ Handle(m)

(* A part of one, or several at once, does not parse, which the listener   *)
(* does not catch: the agent exits.                                        *)
TcpBreaks == Exit

-----------------------------------------------------------------------------
(* Commands *)

(* registerObservation: a handler of its own, with a store from the file.  *)
RegisterObservation(n) ==
    /\ sent' = IF n \in listed THEN <<n>> ELSE sent
    /\ UNCHANGED <<agent, title, cache, listed, regs, recordVars>>

(* oisp-admin observation.  A value that begins with "-" is kept from the  *)
(* parser, which would take it for an option, and with it the command: it  *)
(* never runs.                                                             *)
Observation(n, negative) == ~negative /\ RegisterObservation(n)

-----------------------------------------------------------------------------
(* Answers *)

(* The callback of regComponent: add and save. *)
Registered(n) ==
    /\ n \in regs
    /\ cache' = cache \cup {n}
    /\ listed' = cache'
    /\ regs' = regs \ {n}
    /\ UNCHANGED <<agent, title, sent, recordVars>>

NotRegistered(n) ==
    /\ n \in regs
    /\ regs' = regs \ {n}
    /\ UNCHANGED <<agent, title, cache, listed, sent, recordVars>>

(* What other programs save. *)
Others ==
    /\ listed' \in SUBSET (Names \cup {Undefined})
    /\ UNCHANGED <<agent, title, cache, regs, sent, recordVars>>

(* The steps of an update, and its end without an answer.  The callback    *)
(* that sends it also saves the list of the cloud proxy's store, merged    *)
(* with the components of the answer: Registry has what is on it.          *)
UpdateGoesOn(u) ==
    /\ \/ /\ CloudReads(u) \/ ReadFails(u) \/ CloudWrites(u) \/ Abandon({u})
          /\ UNCHANGED listed
       \/ Send(u) /\ listed' \in SUBSET (Names \cup {Undefined})
    /\ UNCHANGED <<agent, title, cache, regs, sent>>

-----------------------------------------------------------------------------
Next ==
    \/ Start \/ Exit \/ TcpBreaks \/ Others
    \/ \E m \in Sendable : Udp(m) \/ Tcp(m)
    \/ \E n \in Names, negative \in BOOLEAN : Observation(n, negative)
    \/ \E n \in Names \cup {Undefined} : Registered(n) \/ NotRegistered(n)
    \/ \E u \in Updates : UpdateGoesOn(u)

Spec == Init /\ [][Next]_vars

-----------------------------------------------------------------------------
(* Properties *)

(* One message, when it is handled: a list, a reading, a registration, an  *)
(* update, and what is too short to be a registration or a reading.        *)
ListTaken(m) == Undefined \in regs' \cup cache' /\ UNCHANGED <<sent, recordVars>>
ReadingTaken(m) ==
    {"n", "v"} \subseteq Fields(m) /\ m.n \in listed
        => sent' = <<m.n>> /\ UNCHANGED recordVars
RegistrationTaken(m) ==
    Fields(m) = {"n", "t"} /\ Long(m, "n") /\ Long(m, "t")
        => m.n \in regs' \cup cache' /\ UNCHANGED recordVars
UpdateTaken(m) == Fields(m) \subseteq {"attributes", "loc"} => upd' # upd
ShortTaken(m) ==
    \/ Fields(m) = {"n", "v"} /\ ~Long(m, "n")
    \/ Fields(m) = {"n", "t"} /\ ~(Long(m, "n") /\ Long(m, "t"))
    => upd' # upd /\ UNCHANGED <<sent, regs>>

Taken(m) ==
    Handle(m) =>
        /\ IsList(m) => ListTaken(m)
        /\ ~IsList(m) /\ GoodPlace(m) =>
              /\ ReadingTaken(m)
              /\ RegistrationTaken(m)
              /\ UpdateTaken(m)
              /\ ShortTaken(m)

(* What each message is taken for.  Every reading passes for a device      *)
(* update too, and the order in which the schemas are tried decides        *)
(* (lib/agent-message.js:40, 54, 68): a reading of a name in the file is   *)
(* submitted, whatever the store in memory holds, and leaves the cloud's   *)
(* record alone; a registration leads to a request or to a name that is    *)
(* known; an update is begun.  Two are not taken for what they are: a list *)
(* of readings asks for a component without a name and none of it is sent, *)
(* and what has a name or a type that is too short updates the device.     *)
TakenFor == [][\A m \in Sendable : Taken(m)]_vars

-----------------------------------------------------------------------------
(* What the documentation says, and the code does not do *)

(* README.md:15-17 and 95-97: a list of readings is a message, and its     *)
(* readings are sent.                                                      *)
ListsSubmitted ==
    [][\A m \in Sendable :
          Handle(m) /\ IsList(m) /\ Range(m.items) \subseteq listed
          => sent' = m.items]_vars
=============================================================================
