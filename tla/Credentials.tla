------------------------------ MODULE Credentials ------------------------------
(***************************************************************************)
(* How the device's credentials come to device.json and are kept there:    *)
(* activation and token refresh (lib/cloud.proxy.js), the admin commands   *)
(* activate and initialize, crashes and restarts.                          *)
(*                                                                         *)
(* A callback that has new credentials saves them key by key, each with a  *)
(* write of its own; the process may die between two of them, and the      *)
(* next one works from what it finds.  Each save is a step here.           *)
(*                                                                         *)
(* Any number of programs may be at work on the device at once, and none   *)
(* waits for another.  The observer `undisturbed' says which of them       *)
(* nobody else has saved credentials over since they read theirs, and      *)
(* CarefulSpec is the use in which programs refresh their tokens beside    *)
(* each other but activate or reset the device alone.                      *)
(*                                                                         *)
(* The cloud's answers are numbered in the order they are issued: grant g  *)
(* stands for the device token, the refresh token and the expiry time it   *)
(* came with.  Tokens live equally long, so grants expire in that order.   *)
(***************************************************************************)
EXTENDS Integers, Sequences

CONSTANTS Procs,      \* process names
          Agent,      \* the one a supervisor starts again
          Accounts,   \* accounts of the cloud, each with an activation code
          NoAccount,  \* `false' or "" in device.json
          MaxGrants,  \* bound on what the cloud issues
          CallIds     \* bound on the requests in flight

ASSUME CredentialsAssumption ==
    /\ Agent \in Procs
    /\ NoAccount \notin Accounts
    /\ MaxGrants \in Nat

VARIABLES owner,     \* the account of each grant the cloud has issued
          now,       \* the grants up to this one have expired
          code,      \* activation_code in device.json
          disk,      \* the credentials in device.json
          phase,     \* where each process is
          secret,    \* the credentials in its memory
          connector, \* what it submits data with
          saves,     \* the saves its running callback has still to do
          calls,     \* its requests that are not answered yet
          undisturbed \* observer: the programs nobody saved over

cloud == <<owner, now>>
system == <<cloud, code, disk, phase, secret, connector, saves, calls>>
vars == <<system, undisturbed>>

None == 0       \* no token, or a time that is past
Grant == 0 .. MaxGrants
Secret == [token : Grant, refresh : Grant, expire : Grant,
           account : Accounts \cup {NoAccount}]
Save == [key : {"token", "refresh", "expire"}, value : Grant]
        \cup [key : {"account"}, value : Accounts \cup {NoAccount}]
Call == [id : CallIds, proc : Procs, kind : {"activate", "refresh"},
         account : Accounts, grant : Grant]

(* The types, and that only a process that runs has requests. *)
TypeOK ==
    /\ owner \in Seq(Accounts) /\ Len(owner) <= MaxGrants
    /\ now \in 0 .. Len(owner)
    /\ code \in Accounts \cup {NoAccount}
    /\ disk \in Secret
    /\ phase \in [Procs -> {"down", "activating", "running", "resetting"}]
    /\ secret \in [Procs -> Secret]
    /\ connector \in [Procs -> {"rest", "mqtt"}]
    /\ saves \in [Procs -> Seq(Save)]
    /\ calls \in SUBSET Call
    /\ \A r \in calls : phase[r.proc] \in {"activating", "running"}
    /\ undisturbed \subseteq Procs

Nothing == [token |-> None, refresh |-> None, expire |-> None, account |-> NoAccount]

Init ==
    /\ owner = <<>>
    /\ now = 0
    /\ code = NoAccount
    /\ disk = Nothing
    /\ phase = [p \in Procs |-> "down"]
    /\ secret = [p \in Procs |-> Nothing]
    /\ connector = [p \in Procs |-> "rest"]
    /\ saves = [p \in Procs |-> <<>>]
    /\ calls = {}
    /\ undisturbed = {}

-----------------------------------------------------------------------------
(* Helpers *)

IsActivated(s) == s.token # None /\ s.account # NoAccount

Expired(s) == s.expire <= now

Owns(a, g) == g \in DOMAIN owner /\ owner[g] = a

(* Both tokens are of the account they are stored with. *)
Whole(s) == IsActivated(s) => Owns(s.account, s.token) /\ Owns(s.account, s.refresh)

(* p sends a request on behalf of the account. *)
Send(p, kind, account) ==
    \E i \in CallIds :
       /\ i \notin {r.id : r \in calls}
       /\ \A j \in CallIds \ {r.id : r \in calls} : i <= j
       /\ calls' = calls \cup {[id |-> i, proc |-> p, kind |-> kind,
                                account |-> account, grant |-> None]}

(* checkDeviceToken of an activated process: a stale token is refreshed    *)
(* with the refresh token, which says whose it is; a second caller does    *)
(* not wait for the refresh of the first.                                  *)
CheckDeviceToken(p, s) ==
    IF Expired(s) THEN Send(p, "refresh", owner[s.refresh]) ELSE UNCHANGED calls

Put(key, value) == [key |-> key, value |-> value]
RefreshSavesShort(s) == <<Put("token", s.token), Put("expire", s.expire)>>
RefreshSaves(s) ==
    <<Put("token", s.token), Put("refresh", s.refresh), Put("expire", s.expire)>>
ActivationSaves(s) ==
    <<Put("token", s.token), Put("refresh", s.refresh), Put("expire", s.expire),
      Put("account", s.account)>>

ResetSavesTokenFirst == <<Put("token", None), Put("account", NoAccount)>>
ResetSaves == <<Put("account", NoAccount), Put("token", None)>>

(* A process that ends: its memory and its callbacks are gone. *)
Gone(p) ==
    /\ phase' = [phase EXCEPT ![p] = "down"]
    /\ secret' = [secret EXCEPT ![p] = Nothing]
    /\ connector' = [connector EXCEPT ![p] = "rest"]
    /\ saves' = [saves EXCEPT ![p] = <<>>]
    /\ calls' = {r \in calls : r.proc # p}

-----------------------------------------------------------------------------
(* Processes *)

(* Cloud.init reads the credentials; MQTT is set up only if there is a     *)
(* token by then.                                                          *)
Load(p) ==
    /\ phase[p] = "down"
    /\ secret' = [secret EXCEPT ![p] = disk]
    /\ connector' = [connector EXCEPT ![p] = IF disk.token = None THEN "rest" ELSE "mqtt"]

(* activate, when activated: on to the update round, which checks the      *)
(* token.  The admin commands that only look at isActivated go the same    *)
(* way with their first request.                                           *)
StartActivated(p) ==
    /\ Load(p)
    /\ IsActivated(disk)
    /\ phase' = [phase EXCEPT ![p] = "running"]
    /\ CheckDeviceToken(p, disk)
    /\ UNCHANGED <<cloud, code, disk, saves>>

(* activate, when not: the cloud is asked, with an activation code. *)
Activate(p, c) ==
    /\ Load(p)
    /\ ~IsActivated(disk)
    /\ c # NoAccount
    /\ phase' = [phase EXCEPT ![p] = "activating"]
    /\ Send(p, "activate", c)
    /\ UNCHANGED <<cloud, code, disk, saves>>

(* The code is that of device.json, *)
StartNotActivatedByToken(p) == disk.token = None /\ Activate(p, code)
StartNotActivated(p) == Activate(p, code)

(* or the one oisp-admin activate is given. *)
ActivateCommand(p) == \E c \in Accounts : Activate(p, c)

(* oisp-admin initialize: resetToken, with its two saves. *)
StartInitialize(p) ==
    /\ phase[p] = "down"
    /\ phase' = [phase EXCEPT ![p] = "resetting"]
    /\ saves' = [saves EXCEPT ![p] = ResetSaves]
    /\ UNCHANGED <<cloud, code, disk, secret, connector, calls>>

(* Exit, crash or kill, between any two steps. *)
StopKeepsCalls(p) ==
    /\ phase[p] # "down"
    /\ phase' = [phase EXCEPT ![p] = "down"]
    /\ secret' = [secret EXCEPT ![p] = Nothing]
    /\ connector' = [connector EXCEPT ![p] = "rest"]
    /\ saves' = [saves EXCEPT ![p] = <<>>]
    /\ UNCHANGED <<cloud, code, disk, calls>>
Stop(p) == phase[p] # "down" /\ Gone(p) /\ UNCHANGED <<cloud, code, disk>>

(* A request to the cloud that finds the token stale. *)
Request(p) ==
    /\ phase[p] = "running" /\ saves[p] = <<>>
    /\ Expired(secret[p])
    /\ CheckDeviceToken(p, secret[p])
    /\ UNCHANGED <<cloud, code, disk, phase, secret, connector, saves>>

(* The next save of the callback.  After the last one activation goes on   *)
(* to the update round, refresh to the request that waited for it, and     *)
(* initialize exits.                                                       *)
SaveKey(p) ==
    /\ saves[p] # <<>>
    /\ disk' = [disk EXCEPT ![Head(saves[p]).key] = Head(saves[p]).value]
    /\ saves' = [saves EXCEPT ![p] = Tail(@)]
    /\ IF Tail(saves[p]) = <<>> /\ phase[p] = "activating"
       THEN /\ phase' = [phase EXCEPT ![p] = "running"]
            /\ CheckDeviceToken(p, secret[p])
       ELSE /\ phase' = IF Tail(saves[p]) = <<>> /\ phase[p] = "resetting"
                        THEN [phase EXCEPT ![p] = "down"] ELSE phase
            /\ UNCHANGED calls
    /\ UNCHANGED <<cloud, code, secret, connector>>

-----------------------------------------------------------------------------
(* Requests *)

(* The cloud issues tokens. *)
CloudGrants(r) ==
    /\ r \in calls /\ r.grant = None
    /\ Len(owner) < MaxGrants
    /\ owner' = Append(owner, r.account)
    /\ calls' = (calls \ {r}) \cup {[r EXCEPT !.grant = Len(owner) + 1]}
    /\ UNCHANGED <<now, code, disk, phase, secret, connector, saves>>

(* A refused request, or a lost answer: the process exits. *)
CallFails(r) ==
    /\ r \in calls
    /\ saves[r.proc] = <<>>
    /\ Gone(r.proc)
    /\ UNCHANGED <<cloud, code, disk>>

Activated(r) ==
    /\ r \in calls /\ r.kind = "activate" /\ r.grant # None
    /\ saves[r.proc] = <<>>
    /\ LET s == [token |-> r.grant, refresh |-> r.grant, expire |-> r.grant,
                 account |-> r.account]
       IN  /\ secret' = [secret EXCEPT ![r.proc] = s]
           /\ saves' = [saves EXCEPT ![r.proc] = ActivationSaves(s)]
    /\ calls' = calls \ {r}
    /\ UNCHANGED <<cloud, code, disk, phase, connector>>

Refreshed(r) ==
    /\ r \in calls /\ r.kind = "refresh" /\ r.grant # None
    /\ saves[r.proc] = <<>>
    /\ LET s == [secret[r.proc] EXCEPT !.token = r.grant, !.refresh = r.grant,
                                       !.expire = r.grant]
       IN  /\ secret' = [secret EXCEPT ![r.proc] = s]
           /\ saves' = [saves EXCEPT ![r.proc] = RefreshSaves(s)]
    /\ calls' = calls \ {r}
    /\ UNCHANGED <<cloud, code, disk, phase, connector>>

(* Time passes. *)
Expire ==
    /\ now < Len(owner)
    /\ now' = now + 1
    /\ UNCHANGED <<owner, code, disk, phase, secret, connector, saves, calls>>

-----------------------------------------------------------------------------
(* Admin commands of one save *)

SaveCode(c) ==
    /\ code' = c
    /\ UNCHANGED <<cloud, disk, phase, secret, connector, saves, calls>>

ForceRefresh ==
    /\ disk' = [disk EXCEPT !.expire = None]
    /\ UNCHANGED <<cloud, code, phase, secret, connector, saves, calls>>

-----------------------------------------------------------------------------
(* A save of p leaves p alone, and so does force-refresh. *)
Observed ==
    undisturbed' =
        {p \in Procs : /\ phase'[p] # "down"
                       /\ p \in undisturbed \/ phase[p] = "down"
                       /\ \/ disk' \in {disk, [disk EXCEPT !.expire = None]}
                          \/ saves'[p] # saves[p]}

StartUp(p) == StartActivated(p) \/ StartNotActivated(p)

Answered(r) == Activated(r) \/ Refreshed(r)

Step ==
    \/ \E p \in Procs : \/ StartUp(p) \/ ActivateCommand(p) \/ StartInitialize(p)
                        \/ Stop(p) \/ Request(p) \/ SaveKey(p)
    \/ \E r \in calls : CloudGrants(r) \/ CallFails(r) \/ Answered(r)
    \/ Expire
    \/ \E c \in Accounts \cup {NoAccount} : SaveCode(c)
    \/ ForceRefresh

Next == Step /\ Observed

Spec == Init /\ [][Next]_vars

(* A program that activates or resets the device is the only one up. *)
Exclusive ==
    \A p \in Procs : phase[p] \in {"activating", "resetting"} =>
        \A q \in Procs : q # p => phase[q] = "down"

Careful == Observed /\ Exclusive'

CarefulSpec == Init /\ [][Next /\ Exclusive']_vars

(* A supervisor starts the agent again (bin/agent.js:40), a callback that  *)
(* began ends, the cloud does not refuse for ever, and answers arrive.     *)
Fairness ==
    /\ WF_vars(StartUp(Agent) /\ Careful)
    /\ \A p \in Procs : WF_vars(SaveKey(p) /\ Careful)
    /\ SF_vars((\E r \in calls : CloudGrants(r)) /\ Careful)
    /\ SF_vars((\E r \in calls : Answered(r)) /\ Careful)

FairSpec == CarefulSpec /\ Fairness

-----------------------------------------------------------------------------
(* Properties *)

(* The credentials belong together: the token and the refresh token are    *)
(* of the account they are stored with, in device.json whenever a restart  *)
(* would take it for activated, and in every process that uses them,       *)
(* whichever save was the last before a crash (activationComplete saves    *)
(* the account last, resetToken resets it first), and however many         *)
(* programs refresh beside each other.  It is so under CarefulSpec: the    *)
(* code does not keep initialize from running beside an agent whose next   *)
(* refresh then saves its tokens over those of another account.            *)
OneAccount ==
    /\ Whole(disk)
    /\ \A p \in Procs : phase[p] = "running" => Whole(secret[p])

(* No token is used that a restart would not find: when a process that     *)
(* nobody has saved over goes on to its requests, what it uses is on disk, *)
(* whatever other programs do (checkDeviceToken calls back after the       *)
(* saves).                                                                 *)
UsedIsSaved ==
    \A p \in undisturbed : phase[p] = "running" /\ saves[p] = <<>> =>
        /\ disk.token = secret[p].token
        /\ disk.refresh = secret[p].refresh
        /\ disk.account = secret[p].account
        /\ disk.expire \in {secret[p].expire, None}

(* No crash leaves device.json in a state the agent cannot start from:     *)
(* once crashes and resets are over and a code is saved, a program is      *)
(* running again and again, as long as the cloud has grants to give.       *)
StartsInTheEnd ==
    /\ <>[][\A p \in Procs : ~Stop(p) /\ ~StartInitialize(p)]_vars
    /\ <>[](code # NoAccount)
    /\ <>[](Len(owner) < MaxGrants)
    => []<>(\E p \in Procs : phase[p] = "running")
=============================================================================
