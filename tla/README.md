# OISP agent: a TLA+ model

This directory holds a TLA+ model of the OISP IoT agent (`lib/`, `bin/`,
`admin/`, `listeners/`), the TLC configurations that check it on small
instances, and proofs of some of its properties for every instance.

1. [The system](#1-the-system)
2. [Modules](#2-modules)
3. [Registry](#3-registry)
4. [Credentials](#4-credentials)
5. [Sparkplug](#5-sparkplug)
6. [DeviceConfig and Identity](#6-deviceconfig-and-identity)
7. [Actuations](#7-actuations)
8. [DeviceRecord and Messages](#8-devicerecord-and-messages)
9. [Runs](#9-runs)
10. [What the models found](#10-what-the-models-found)
11. [Proofs](#11-proofs)
12. [Not modelled](#12-not-modelled)
13. [What is left](#13-what-is-left)

## 1. The system

The agent sits on a device. Sensors send it JSON over UDP or TCP; it registers
components (a name and a catalog type), resolves the name of each reading to
the component's id and sends the reading to the cloud, by REST, MQTT or
SparkplugB. Two programs do this and share two files:

- `oisp-agent` (`bin/agent.js`), a long-lived Node process;
- `oisp-admin` (`bin/admin.js`, `admin/*.js`), one short-lived Node process per
  command: `activate`, `register`, `observation`, `update`, `pull-actuations`,
  `reset-components`, `initialize`, `save-code`, `force-device-token-refresh`, ...
- `data/device.json` holds the credentials, the component list and the time of
  the last actuation pull; `data/catalog.json` the component types. Every write
  reads the whole file, replaces one key and writes the file
  (`lib/common.js`, `saveConfig`). Nothing locks it.

| Component | State | Operations | Talks to |
|---|---|---|---|
| Sensor store (`lib/sensors-store.js`) | a list in memory | find by id, by name, by name and type; add, delete, save; **any miss reads the list from disk again** | device.json |
| Message handler (`lib/agent-message.js`) | its own sensor store | dispatch by schema: registration, submission, update | store, cloud proxy |
| Registration (`lib/comp.registration.js`) | none | check, create an id, ask the cloud, add and save | store, cloud proxy |
| Submission (`lib/data.submission.js`) | none | resolve names, submit | store, cloud proxy |
| Cloud proxy (`lib/cloud.proxy.js`) | secret (tokens, account), a sensor store of its own, SparkplugB session | activate, refresh tokens, update round, merge the cloud's components, births, submit, pull actuations | REST, MQTT, device.json |
| Control (`lib/control.proxy.js`) | device info and store of its own | commands by MQTT to the receiver by UDP | MQTT, UDP |
| Listeners (`listeners/`, `lib/server/`) | sockets | parse, dispatch | message handler |
| Configuration (`lib/common.js`, `admin/configurator.js`) | the two files | read, create, save one key | files |
| Catalog (`lib/utils.js`) | catalog.json | find an item, replace all | file |

Each process runs one thread: a handler runs to its end, and everything a
handler decided may have changed when the callback of its request runs. What is
hard in this code is therefore

- what other handlers do between a request and its callback (two registrations
  of one name, two token refreshes, two births);
- the two in-memory copies of the component list in one process, the third in
  the control proxy, those of other processes, and the file, of which none
  invalidates another;
- a crash or an `exit(1)` between two saves of one handler, or between a request
  and the save of what it obtained;
- answers that are lost, late, or in another order;
- polling with timers (SparkplugB submissions before the birth is acknowledged).

What makes each component correct:

- *store, registration, sync*: the device lists only what the cloud holds, a
  success that is reported is of a component the cloud holds and the file listed
  when it was saved, no id is listed over and over, the merge with the cloud's
  list converges and loses nothing the file has;
- *submission*: a reading leaves under the id of the component that has its
  name, and under no other;
- *credentials*: what a restart finds is usable: tokens and account belong
  together whatever was interrupted, if no program activates or resets the device
  beside another;
- *SparkplugB*: no data before the birth that announces it is sent; every
  submission is answered (at least once: see section 10);
- *actuations*: no two pulls take up the same one, and what a pull has marked as
  done was sent, or is one of the cases in which the code marks it all the same;
- *files*: a save changes its key and no other, and a crash loses all settings
  or none, as long as saves do not meet;
- *identity*: a token is used under the id it was issued to, once
  `oisp-admin activate` has pinned the id and as long as nobody overrides it;
- *messages*: a reading, a registration and an update are each taken for what
  they are, if their names are long enough and they do not come in a list;
- *device record*: an update changes what it names and keeps the rest, of what
  nobody else changes while it is under way.

## 2. Modules

| Module | What it is |
|---|---|
| `SensorStore` | the list operations of `lib/sensors-store.js` and the merge loop of `updateComponents`, as operators on sequences |
| `Registry` | components of a device across the cloud, device.json and the processes: registration, submission, update round, restart, crash |
| `RegistryContract` | what registration promises, with no caches, files or processes; `Registry` implements it |
| `Credentials` | tokens and account: activation, refresh, `initialize`, crashes between saves |
| `Sparkplug` | births, registrations that cause them, polling submissions, the catalog |
| `DeviceConfig` | device.json as a file: read-modify-write, torn and truncated contents |
| `ConfigContract` | what programs rely on when they save a setting; `DeviceConfig` implements it when saves do not overlap |
| `Identity` | the programs over that file: under which id the device activates, runs and is pinned; repair of a damaged file. EXTENDS `DeviceConfig` |
| `Actuations` | commands to the receiver: pushed by MQTT or pulled by `oisp-admin`, over one UDP port |
| `DeviceRecord` | name, attributes, tags and location in the cloud, and the updates that read, merge and write them |
| `Messages` | the listeners and the message handler: schemas, registrations, lists of readings, device updates; `oisp-admin observation` beside them. EXTENDS `DeviceRecord`, whose actions its own are made of |
| `MCRegistry`, `MCIdentity`, `MCDeviceRecord`, `MCMessages` | names, types, documents and messages for TLC |
| `SensorStore_proofs`, `Registry_proofs`, `Credentials_proofs`, `Sparkplug_proofs`, `DeviceConfig_proofs`, `Identity_proofs`, `Actuations_proofs`, `Messages_proofs` | lemmas and theorems, checked by TLAPS |

The modules look at the same processes from several sides, and each takes from
the others no more than an over-approximation: `Registry` takes the device as
activated and its token as fresh; `Sparkplug` too, and lets other programs put
any list into device.json; `Credentials` leaves the lists out; `Identity` has one
token for all that `Credentials` saves with it, one value for any list, and
leaves open whether an activation code is at hand;
`Messages` lets other programs and every update round save any list of names;
`Actuations` lets the list of components come and go. So none relies on a
property of another. `Registry` takes a save as one step, which is
`DeviceConfig`'s contract when saves do not overlap.

## 3. Registry

State. `accepted` is what the cloud holds for the device; `disk` is
`sensor_list` in device.json; `msgStore[p]` and `cloudStore[p]` are the two
stores of process `p`: the message handler's and the cloud proxy's; `regs` are
registrations whose caller has not been called back, with what became of them;
`updates` are update rounds between their requests. `phase` says whether a
process is down, before the callback of `activate` (`booting`), serving
(`ready`), or an admin command that has done its one thing (`closing`).

| Action | Code |
|---|---|
| `StartAgent`, `AdminRegister`, `AdminUpdate` | `Cloud.init` loads the proxy's store, `activate` of an activated device begins an update round |
| `AdminObservation` | no activation round; both stores are loaded |
| `AttributesAnswered` | the callback of `activate`: the message handler and its store come to be |
| `RegisterKnown`, `RegisterNew` | `registration` up to its request, with the reload that `exist` makes on a miss |
| `Registered`, `NotRegistered` | the callback of `regComponent`: add and save, or delete without saving; the caller is called back at once, or a birth goes out first (`CallBack`) |
| `BirthAnswered` | the callback of `sendDevBirthMsg`: the caller is called back, a later turn, or never |
| `CloudAccepts`, `CloudRejects`, `CloudLists`, `CloudApiAdds` | the cloud, and answers that are lost or fail |
| `Submit`, `SubmitUnknown` | `submission` of one reading, with the reload that `byName` makes on a miss |
| `UpdateMessage`, `DeviceReceived`, `DeviceNotReceived` | `update`: get the device, send the attributes, merge and save |
| `ResetComponents` | `oisp-admin reset-components` |
| `Stop` | exit, crash or kill at any point between two handlers |

What is abstracted:

- A handler is one step, and its save is part of it: node runs it to the end,
  `fs.writeFileSync` included. A crash in the middle of a write, and another
  process between the read and the write of one save, are in `DeviceConfig`.
- Types and names are members of small sets with a lower-casing function
  (`Lower`), as every comparison of the code goes through `toLowerCase`.
- `uuid.v4()` is an id that nothing remembers (`CreateId`).
- The cloud lists its components in any order. It never deletes one, as
  nothing in the agent can ask it to.
- A list of readings is several submissions in a row; the loop over it is in
  `Messages`.
- The device is activated and its token fresh: `Credentials` is where it is not.
- Whether SparkplugB is in use is left open at every callback (`CallBack`);
  what the birth is, and does, is in `Sparkplug`.

## 4. Credentials

State. `disk` holds `device_token`, `refresh_token`, `device_token_expire` and
`account_id` of device.json, `code` its activation code, `secret[p]` the copy in
the memory of process `p`, taken in the constructor of the cloud proxy,
`connector[p]` what it submits with. `calls` are requests for tokens that are
not answered, `saves[p]` the saves a callback has still to do. `owner` says
which account each grant of the cloud is for: grant `g` stands for the device
token, the refresh token and the expiry time it came with, and `now` for the
grants that have expired, in the order of issue (tokens live equally long).
`undisturbed` is an observer, not in the code: the programs that read their
credentials and that nobody else has saved over since (`Observed`).

| Action | Code |
|---|---|
| `StartActivated` | `activate` of an activated device, on to the update round and its token check; admin commands that check `isActivated` |
| `StartNotActivated`, `ActivateCommand` | `activate` with the code of device.json, or that of `oisp-admin activate` |
| `Activated`, `Refreshed` | the callbacks: memory is set, the saves begin |
| `SaveKey` | one `saveToDeviceConfig`; after the last, what the callback goes on to |
| `StartInitialize` | `oisp-admin initialize`, two saves |
| `Request` | `checkDeviceToken` on a stale token; a second caller does not wait for the first |
| `CallFails`, `Stop` | `exit(1)` on a refusal, a crash or a kill, between any two steps |
| `CloudGrants`, `Expire` | the cloud, and time |
| `SaveCode`, `ForceRefresh` | admin commands of one save |

Unlike in `Registry`, each save of a callback is a step of its own: node runs
them without a pause, but the process can die between two of them, and that is
the interesting case here. One save stays atomic.

What is abstracted: the device id stays what it is (`Identity` is where it does
not); activation codes can be used again; an older refresh token still works, because
whether the server revokes it cannot be told from this repository. If it does, a
lost answer to a refresh, or two refreshes at once, leave the device without a
usable token.

Any number of programs may run at once, and `Spec` lets them do all they can.
`UsedIsSaved` is of the undisturbed ones and holds under `Spec`. `OneAccount`
does not: a running agent that refreshes its token saves it over an `initialize`,
or over an activation for another account (section 10), and nothing in the code
keeps the two apart. So it is stated of `CarefulSpec`, in which a program that
activates or resets is the only one up (`Exclusive`), while refreshes beside each
other, commands beside the agent and crashes anywhere are allowed. `FairSpec`, for
`StartsInTheEnd`, is `CarefulSpec` with fairness.

## 5. Sparkplug

State. `components` and `catalog` are what the two files hold; `proxy` and
`born` are `spBProxy` and `birthMsgStatus`; `metrics` is `spbMetricList`, of
which only the aliases count; `host` is what the last device birth announced to
the other side; `node` and `births` count births that are not answered; `subs`
are submissions: waiting for a fresh token, polling, or sent.

| Action | Code |
|---|---|
| `Start` | the constructor: profile and node birth |
| `Ready` | the callback of `activate`: listeners, and a fetch of the catalog |
| `NodeBorn`, `NodeNotBorn`, `NodeBornTooLate` | the callback of `nodeBirth`; the last when the connector is gone by then, and it throws |
| `DeviceBorn`, `DeviceNotBorn` | the callback of `deviceBirth` in `sendDevBirthMsg` |
| `Register`, `Registered`, `NotRegistered` | `regComponent` with its fetch of the catalog, which nothing waits for, and its callback, which sends a birth either way |
| `Submit`, `TokenRefreshed` | `dataSubmit`: the handler, at once or after a token refresh, with the first `checkFlag` |
| `StillWaits`, `TimesOut`, `StopsWaiting`, `StopsWaitingTooLate` | the later calls of `checkFlag`, every 250 ms; the last when the flag is set and the connector is gone, and it throws |
| `Answered` | the callback of `data` |
| `CatalogAnswered`, `CatalogCommand` | the callback of a fetch that the agent began, and `oisp-admin catalog`: the file is replaced as a whole (`UpdateCatalog`) |
| `OtherSaves`, `Stop` | other programs and update rounds, a crash |

What is abstracted: `timecount` counts to `Patience`, 40 in the code; births are
answered in any order or never; the profile is read by the connector when it is
handed over; values and timestamps of metrics. `OtherSaves` lets the list in
device.json become any other, which covers stale caches written back
(`Registry`), `reset-components` and `oisp-admin register`.

## 6. DeviceConfig and Identity

`DeviceConfig` is the file. `file` is absent, empty (truncated by the `open` of a
write), torn, or JSON with a value for each key; `stage[p]` says how far program
`p` is with a save (it has read, it has opened the file for writing), `copy[p]`
what it is about to write. `Create` is `getDeviceConfigName` with
`initializeDeviceConfig`, `Save` is `saveConfig` up to the write, `Open` and
`Write` are `fs.writeFileSync`, `Break` is a crash in between. What is particular
to the code is what becomes of a file that does not parse: `readFileToJson`
catches the exception and hands on the bytes it has read. A Buffer has none of
the keys, so every setting reads as undefined (`Missing`), and a key set on it
is lost when it is written (`Save`): the first save to a damaged file makes it
JSON again, without any setting.

`ConfigContract` is the promise: each step sets one key, or loses all. The
abstract settings (`Standing`) are those of the file or, while it is open for
writing, those about to be written.

`Identity` adds the programs. `machine` is what the machine calls itself
(`getDeviceId` without a `device_id`: the address of an interface, or the host
name); each program has an id, a token, the list its sensor store was made with
and the saves it has still to do. `name` is an observer, not in the code. It is
`pinned` once `oisp-admin activate` has ended well, until its id is cleared while
there is no token, or lost. It is `adrift` once something has happened that the
code does not provide for: the machine was renamed while there was a token or a
program, and no id pinned; or the id was overridden under a token, or beside a
program. Both may happen at any time in the model.

| Action | Code |
|---|---|
| `FirstRead` | `utils.init`, when there is no device.json yet |
| `Launch`, `Construct` | `getDeviceId`; `Cloud.init` and `activate`, with a token or with a code |
| `Answer` | `activationComplete`: a token for the id the program goes by |
| `UpdateRound`, `UpdateMessage` | the first update, and one for each update message to a running agent: the store's list is saved, or nothing when the cloud's answer has no components; without a list the program may end by an exception in the store (`Update`) |
| `Pin`, `Exit` | `setDeviceId` and the exit of `oisp-admin activate` |
| `SaveNext`, `WriteOut` | the saves of a program, one at a time, in the steps of `DeviceConfig` |
| `Reset`, `OverrideId` | `initialize`, `reset-components`; `set-device-id`, `clear-device-id` |
| `Stop`, `PowerCut`, `MachineRenamed` | an exit or kill between two saves; the end of all programs, in the middle of a save; another name |

What is abstracted: whether a device that is not activated has a code, on the
command line or saved, is left open (`Construct`; the saved one is in
`Credentials`). A kill falls between two saves, a power cut anywhere.

`Spec` puts no condition on programs, the machine's name or saves. Its properties
have premises, because the code gives none: `OneSaveSpec` is the behaviours in
which no save begins before another has ended (`Alone` of `DeviceConfig`: nothing
locks the file, and a save is a few system calls), `ApartSpec` those in which no
other step falls into a save either. `KeepsConfigContract` is of the first,
`TokenFitsId` and `RepairedInTheEnd` of the second. The premise restricts when
steps happen and not which: every action stays possible between saves.

## 7. Actuations

State. `issued` are the actuations of the cloud in order, and their number is
the clock: the actuation `i` was issued at time `i`. `since` is
`last_actuations_pull_time`, `Never` when it is false. `listed` is the component
list on disk, `cache` the one of the control proxy. `control` is what MQTT has
to deliver to the agent. `agent` is down, `binding`, `up`, or `deaf` (without the
port). `pull` is the one pull command with what it has read. `handed` counts how
often a pull sent an actuation from the port it got, `lost` are those it queued
and gave up, `forwarded` those the agent forwarded, and `missed` those issued
between a pull's answer and the time it saves.

| Action | Code |
|---|---|
| `AgentStart`, `ControlInit`, `AgentBinds` | the callback of `activate` (UDP server, `Control.init`, `bind`); the port is bound in a later turn, and a port that is taken is only logged |
| `Control` | `controlAction` and `send`, with the reload that `byCid` makes on a miss |
| `AgentDies` | any exception, as of `JSON.parse` in `listeners/tcp.js:52` |
| `PullStart`, `PullHasTime` | `oisp-admin pull-actuations`; `getLastActuationsPullTime`, which throws when there is no time |
| `PullHandles` | the callback of `pullActuations`: all of the answer is queued at the socket and the time saved, or the loop ends with an exception at a component that is not listed |
| `PullBinds` | the socket, a turn later: it gets the port and the queue is sent, or an agent has the port, the error is logged and the queue given up |
| `PullCloses`, `PullKilled` | the close; a kill or a refusal, with which a queue is gone |
| `Issue`, `CloudAnswers`, `List`, `EditTime` | the cloud, other programs, and an operator who puts a time into the file |

What is abstracted: a loop that ends at an unknown component has queued what came
before it at a socket that is not bound yet, and the process ends before it is:
nothing of it leaves. `close` is called right behind the sends; what node's
`dgram` then still sends of a queue whose port it got is the library's, and the
module takes it as sent. The clocks of the device and of the cloud agree; commands
are not told apart; a pull whose batch is empty ends. One pull command runs at a
time.

## 8. DeviceRecord and Messages

`DeviceRecord` is what `update` does to the cloud's record of the device, apart
from its components. `device` is the record (name, attributes, tags, location);
`upd[u]` is an update in flight: the message's fields with the name by which the
program knows the device, how far it is, and what it read.
`Ask` begins one, `CloudReads` or `ReadFails` answers `getDevice`, `Send` is the
callback, and `CloudWrites` puts `Merged(doc, read)` in the place of the record.
`Merged` is the callback's merge: it starts from the program's name for the
device and the agent's own attributes (`Metadata`, `AgentAttr`), which go over
the custom ones that were read, and the message's over both; for tags, `for (var tag in
...)` goes over the positions of the list (`Positions`). That the cloud replaces
attributes as a whole, and name, tags and location if there are any, is how the
code uses it (it sends all the attributes it wants to keep). Lists of tags are sets:
no property depends on their order. A `getDevice` that fails is modelled as an
answer without a device. `Titles` are the names a device is given, `None` the
name of one that has none, `Words` the tags that are no numbers.

`Messages` is the way in. A message is a record of the fields it has, with a
place for "too short" (`Short`) and one for a location that is none. `Handle`
tries the three schemas in the code's order; `Registration`, `Submission` and
`DeviceUpdate` are the handlers; `Kept` is the loop over a list of readings, from
the last to the first, with the reload that each miss causes (a recursive
function, turn by turn, so that it can be proved about). `title` is the name of
the device as the agent read it at its start, of those that `set-device-name` and
`reset-device-name` may have saved by then (`SavedNames`); an update carries it
(`Doc`). `Udp` drops what does not parse, the TCP listener does not catch it: the
agent ends (`TcpBreaks`), and with it everything in flight (`Exit`).
`Observation` is `oisp-admin observation`, a program with a store of its own
that submits one reading (`RegisterObservation`), unless its value begins with a
minus sign. `Registered` and `NotRegistered` are the answers, `Others`
what other programs save, `UpdateGoesOn` the steps of an update, whose callback
also saves a component list (any: `Registry` has which).

The validator is the package json-schema (0.4, external): `type: object` lets a
list pass, and its properties are not looked at. So a list passes for a
registration, of a component without a name (`Undefined`), and the loop of
`Submission` only ever sees the one reading of a message that is none. The listeners are
open after the first update round, which is in `Registry` and `Identity`.

## 9. Runs

| Run | Instance | Shows |
|---|---|---|
| `Registry` | one agent, 3 ids, 2 names, 1 registration and 1 update in flight; 436 thousand states | `TypeOK`, `KnownWasAccepted`, `ReadingIsRouted`, `SyncConverges` |
| `RegistryProcs` | the agent and an admin command, 2 ids, one kind in two spellings, 2 registrations in flight; 556 thousand states | `ListedTwiceAtMost`, and that `Registry` implements `RegistryContract` (`KeepsContract`) |
| `Credentials` | the agent and a command, 2 accounts, 3 grants, 2 requests in flight, activations and resets alone (`CarefulSpec`); 476 thousand states | `TypeOK`, `OneAccount`, `UsedIsSaved`, `StartsInTheEnd` |
| `Sparkplug` | 2 components, 2 births and 1 submission in flight, 2 polls; 75 thousand states | `TypeOK`, `AnnouncedBeforeData`, `SubmissionsAnswered` |
| `Identity` | 2 programs, 2 names of the machine, saves apart (`ApartSpec`); 547 thousand states | `TypeOK`, `TokenFitsId`, `KeepsConfigContract`, `RepairedInTheEnd` |
| `Actuations` | 2 components, 2 actuations; 345 thousand states | `TypeOK`, `PulledOnce`, `MarkedWasHanded`, `KnownIsForwarded`, `PulledInTheEnd` |
| `DeviceRecord` | 2 updates in flight, 2 custom attributes and a reported one, 2 names of the device; 68 thousand states | `RecordTypeOK`, `AttributesKept`, `RepeatedUpdateLands` |
| `Messages` | 2 names, 1 registration and 1 update in flight, 9 messages, with and without a name of the device; 102 thousand states | `TypeOK`, `TakenFor` |
| `RegisteredCanBeSent` | as `Sparkplug` | violated: section 10 |
| `FirstPull` | as `Actuations` | violated |
| `TagsKept` | 1 update in flight, 2 tags | violated |
| `ListsSubmitted` | as `Messages` | violated |

Registry:

- `KnownWasAccepted`: what any list or answer holds, the cloud holds. It takes
  the registration callback, the merge and all reloads together.
- `ListedTwiceAtMost`: an update round and the answer to a registration may list
  one id twice (section 10); no further round, of whatever process, lists it a
  third time.
- `ReadingIsRouted`: at any moment a reading of any process resolves to exactly
  one cloud component, one that has the reading's name.
- `SyncConverges`: a merge takes nothing listed from the file, and when the
  proxy's cache agrees with the file it adds at least one missing component.
  One merge need not add them all (section 10), so this is what repetition gives.
- `KeepsContract`: a success is reported only of a component the cloud holds, and
  that the file listed when it was saved; between the save and the report (a turn
  later at best with SparkplugB) it may be taken off again. A request whose
  consent has reached its process ends well unless the process ends; a client's
  requests end with it.

Credentials:

- `OneAccount`: the tokens are those of the account they are stored with, on
  disk whenever a restart would take the device for activated, and in a running
  process. It depends on the order of the saves in two places and on what every
  crash leaves for the next start, with two programs that may refresh at once.
- `UsedIsSaved`: a process that goes on to its requests, and that nobody has saved
  over, uses what is on disk.
- `StartsInTheEnd`: no crash leaves device.json in a state from which the agent
  cannot start, once crashes and resets are over and a code is saved.

Sparkplug:

- `AnnouncedBeforeData`: every alias that leaves was in the last device birth.
- `SubmissionsAnswered`: every submission is answered, if only with `timeout`,
  or its process ends, even when no birth is ever answered.

Identity:

- `TokenFitsId`: a program that uses a token goes by the id the token was issued
  to, unless the name went adrift. It takes the pinning at the end of
  `oisp-admin activate`, what a power cut takes away with it, and agents that
  activated themselves and pinned nothing.
- `KeepsConfigContract`: every program's save sets its key and no other, and a
  crash loses all settings or none.
- `RepairedInTheEnd`: running `initialize` again and again repairs a damaged
  file, although the first save to it is lost, once the programs that started from
  the damaged file have ended. Until then each of their update rounds may save
  the missing list over the new one, as often as an agent is sent updates.

Actuations:

- `PulledOnce`: no actuation is sent by two pulls, wherever they end, and none that
  one gave up is sent by another.
- `MarkedWasHanded`: what the saved time covers was sent, except for what was
  issued between the answer and the save, what a pull gave up because an agent
  had the port or it was killed, and what one has queued.
- `KnownIsForwarded`: what MQTT delivers for a component of the file is
  forwarded, also for one that was listed after the control proxy's start.
- `PulledInTheEnd`: given a first time, every actuation is taken up by a pull in
  the end, sent or given up, or falls into that gap; a component that is not
  listed holds up a batch no longer than that.

DeviceRecord and Messages:

- `AttributesKept`: an update that nothing overlaps keeps every attribute it
  does not name. With a write in between it does not.
- `RepeatedUpdateLands`: an update that is repeated while no other begins makes
  the record say what it says, its name for the device included, also if reads
  fail. While programs that know the device by different names go on updating,
  the name is that of the last.
- `TakenFor`: what each message is taken for. A reading passes for a device update
  as well, and is submitted because that schema is tried before; one of a name in
  the file leaves whatever the store in memory holds. A registration leads to a
  request or a known name, an update is begun. And the two cases in which a message
  is taken for something else: a list of readings asks for a component without a
  name and none of it is sent, a name or type that is too short updates the device.

Bounds. `UpdateIds` bounds the update rounds in flight, `MaxRegs` the
registrations. Three ids are enough for two components to be missing from the
list while a third is being registered, which is what the merge loop's reload
needs to lose something; one update in flight is enough to answer with a list
older than a registration. The second instance gives up an id to have two
processes and two registrations of one kind in flight at once, in two
spellings. Ids are symmetric: no definition orders them. `MaxGrants` bounds the
tokens that are issued, `CallIds` the requests for them: three grants are an
activation for one account, a refresh, and an activation for another, or one
activation and a refresh by each of the two programs; two requests in flight are
two refreshes with one token. A request has the least free number, as numbers
are not told apart. `MaxBirths` bounds the device
births in flight: two are what one acknowledgement and one failure need, and
with two components one can be announced and the other not. Submissions meet
only in variables no submission changes, so one at a time is enough. Two polls
are a first, one that still waits, and the one that gives up. Two programs and
two names are what `Identity` needs for a program that started under one name
while another pins the other. `MaxActuations` bounds the actuations: two are one
that a pull has sent and one that is issued while it does so, or two of one batch
of which one is unknown. `Updates` are the updates in flight: two overlap, and
`Messages` needs one, as its property about updates is that one is begun. One
registration message is enough: what the store and the file can hold is reached by
`Others` too, and two requests in flight are in `Registry`. The nine messages are
readings with and without a place, a time or a known place, names and types that
are too short, a registration, an update and a list.

Fairness. `Registry` and `Messages` state none: their liveness would say that a
callback eventually runs, which is the network's promise and not the code's.
`Credentials` assumes that a supervisor starts the agent again (bin/agent.js:40
of the repository counts on one), that a callback that began its saves ends, and
that the cloud does not refuse, and its answers are not lost, for ever (strong
fairness: crashes may interrupt requests any number of times), all of this in the
midst of other programs. `Sparkplug`
assumes that timers run and a token check ends, which is node's event loop, and
that the connectors call back for data; it assumes nothing about births.
`Identity` assumes that a program that has begun goes on, between the saves of
others, and is answered;
`RepairedInTheEnd` says of the operator what he does. `Actuations` assumes a
restart of the agent (`oisp-agent.service:7`, `Restart=always`) and pulls that go
on; that they are run again and again is part of the property. `DeviceRecord`
assumes that a begun update is answered, or is abandoned.

Every run checks for deadlock but `Actuations` and `FirstPull`, where the system
may stop: with all actuations issued and the agent up, nothing need happen.

## 10. What the models found

Four statements of the documentation that a run shows to fail:

- **Registered, but not announced** (`RegisteredCanBeSent`). A running agent does
  not make its metric list again when `oisp-admin register` adds a component;
  readings of it resolve to an id, are not found in the list, and are dropped
  (`lib/cloud.proxy.js:365`; README.md:86 to 93 describes just this use).
- **No first pull** (`FirstPull`). `pull-actuations` throws while there is no time
  of a last pull, and only a pull saves one (`lib/utils.js:173`;
  `admin/components.js:191` promises the last 24 hours).
- **Tags become numbers** (`TagsKept`). The loop that is to append the device's
  tags to those of an update appends their positions (`lib/cloud.proxy.js:278`;
  the comment above it says what was meant).
- **Lists of readings are registered** (`ListsSubmitted`). The schema of a
  registration is tried first, and lets a list pass (`lib/agent-message.js:40`;
  README.md:15 and 95 show lists).

One line of the documentation that the code has left behind: README.md:216-218 has
it as a known limitation that components registered through the cloud's API are
not known to the agent. Every update round merges what the cloud lists into
device.json (`lib/cloud.proxy.js:619-636`), components of that kind included
(`CloudApiAdds`); `SyncConverges` and `MergesConverge` say how far. A message
handler that runs hears of them at its next miss.

Others, met while the modules were written. They follow from the actions as they
stand; no run is kept for them:

- A merge can lose what it just added: `updateComponents` looks each component up
  by name before it adds it, the lookup reads the list from disk on a miss, and
  nothing was saved yet. Of two components the device lacks only the last
  survives a round (`lib/cloud.proxy.js:630`).
- One component can be listed twice: an update round brings it in before the
  answer to its registration is handled, which adds it again
  (`lib/comp.registration.js:65`). The id, called a unique alias in README.md:134,
  is then there twice.
- An update round saves the cloud proxy's list, loaded at the start, over a
  component that was registered since (`lib/cloud.proxy.js:635`).
- `initialize` does not last while an agent runs: its next refresh saves a token
  over the reset (`lib/cloud.proxy.js:149`).
- An agent that activates itself submits by REST until it is restarted
  (`lib/cloud.proxy.js:61` and 89).
- Pulls beside a running agent are lost. The command and the agent bind the same
  UDP port; with the agent on it the bind fails, which is only logged
  (`lib/server/udp.js`), the queued commands are given up, and their time is
  already saved (`lib/cloud.proxy.js:596`): no later pull asks for them, and
  nothing executes them "one by one" (`admin/components.js:191`). This is the
  exception `lost` of `MarkedWasHanded`. The same becomes of a batch whose command
  is killed before it has the port.
- With SparkplugB a registration that succeeded is reported when the birth is
  answered; the component may be off the file by then
  (`lib/comp.registration.js:71`).
- After `callback("timeout")` `checkFlag` goes on: it calls back again at every
  poll, and still sends the reading when a birth is acknowledged
  (`lib/cloud.proxy.js:399`).
- Data may leave while the birth that announces it is not yet acknowledged, and an
  agent of which one birth succeeds and another fails ends with an exception at
  its next poll (`StopsWaitingTooLate`).
- An agent that starts while a pull holds the UDP port hears no messages for the
  rest of its life (`deaf` in `Actuations`).
- `oisp-admin observation` with a negative value does nothing, without a word:
  the value is kept from the parser, which so never finds the command
  (`bin/admin.js:48`).
- The numbers that `update` puts among the tags stay there: an update with tags
  adds one for every tag that is there.
- `reset-device-name` leaves the name in the cloud: an update without a name
  sends none (`Replaced`).
- `oisp-admin gateway-id` reads config.json, and never shows what
  `set-gateway-id` saved in device.json (`lib/utils.js:144`).
- An agent that activated itself does not save its id: after a change of the
  machine's name its token belongs to another id (`lib/utils.js:114`). And
  `set-device-id` and `clear-device-id` give a device with a token another id
  without a word (`admin/configurator.js:94`). These are the exceptions of
  `TokenFitsId` (`adrift`).
- Two saves that meet lose a key, or with a torn read all of them
  (`lib/common.js:184`); this is the premise of `OneSaveSpec`.
- An agent that started from a damaged device.json takes the component list away
  again with every update message whose answer lists no components
  (`lib/cloud.proxy.js:635`), also after an `initialize`, until it ends.

## 11. Proofs

`Registry_proofs` proves, for any sets of processes, ids, names, types and any
bounds, under the module's assumptions (`LowerAssumption`,
`RegistryAssumption`):

| Theorem | States |
|---|---|
| `TypeCorrect` | `Spec => []TypeOK` |
| `NothingInvented` | `Spec => []KnownWasAccepted` |
| `Routing` | `Spec => []ReadingIsRouted` |
| `NoneThrice` | `Spec => []ListedTwiceAtMost` |
| `MergesConverge` | `Spec => SyncConverges` |

They rest on one inductive invariant, `IInv`: the first two conjuncts above, that
ids of the cloud's components and of requests are not shared (`CidsIdentify`, which
is as good as `uuid.v4`), that `accepted` is finite (the cloud's answer enumerates it), and that a request
whose process is gone is still on its way (`OrphansAreSent`). The last is why
`Registered` never runs in a process that is down: without it type correctness
is not inductive. `KnownWasAccepted` needs to know what the list operations can
return: `SensorStore_proofs` proves that a deletion returns a part of its list,
and, by induction on the cloud's list (a least counterexample), that a merge
returns nothing that was in none of the cache, the file and that list.
`ReadingIsRouted` follows from `KnownWasAccepted` and `CidsIdentify` in each
state, and is not inductive itself. `SyncConverges` rests on `SyncAllKeeps`, again
by induction on the list: a turn of the loop misses only on a component that is
not on disk, and what the reload throws away is made up for by that one
(`SyncOneKeeps`), as long as an id belongs to one component.

`NoneThrice` needs to know which answers may still add an entry: an id whose
answer is awaited is listed once at most, any other twice (`ListsInv`).
A turn of the merge takes out one entry of the id for the one it puts in, or finds
none of its name, and so none of the id, because an id belongs to one component.

The same module proves `ContractKept`, that `Registry` implements
`RegistryContract`: `Spec => KeepsContract`. Given `IInv` before and after a step,
each action is shown to be a step of the contract or none: a start is a `Join`,
the callback of a registration a `Record`, a `RecordAndSucceed` or a `Fail`, that
of a birth a `Succeed`, a merge a `Rewrite`, and so on. That a callback takes exactly one request out of `pending` needs
`CidsIdentify` (two requests never ask for the same), and that it still has a
client needs `OrphansAreSent`.

`Credentials_proofs`, for any programs, accounts and bounds, under
`CredentialsAssumption`:

| Theorem | States |
|---|---|
| `CredentialsTyped` | `Spec => []TypeOK` |
| `CredentialsSaved` | `Spec => []UsedIsSaved` |
| `CredentialsBelongTogether` | `CarefulSpec => []OneAccount` |

The first two are of any programs that do what they like at the same time. Their
invariant (`BaseInv`) says for each kind of callback how far its saves can have
come, `SavedInv` what an undisturbed program has on disk by then (`Progress`). The
third has the premise that activations and resets are done alone, as it fails
without; its invariant (`AloneInv`) adds that a program that runs has whole
credentials, of the account on disk (`Own`), that an account on disk has a token
(`DiskIsWhole`: why `resetToken` must reset the account first), and that requests
in flight are for the account in memory (`AskedFor`).

`Sparkplug_proofs`, for any components, catalog and bounds, under
`SparkplugAssumption`:

| Theorem | States |
|---|---|
| `SessionTyped` | `Spec => []TypeOK` |
| `DataWasAnnounced` | `Spec => AnnouncedBeforeData` |

The invariant behind the second is `ListIsAnnounced`: while a birth is
acknowledged or may still be, the metric list is what the last birth announced.

`DeviceConfig_proofs`, for any programs, keys and values, under
`DeviceConfigAssumption`, of `AloneSpec`, in which saves do not overlap:

| Theorem | States |
|---|---|
| `ConfigCorrect` | `AloneSpec => []ConfigInv` |
| `ContractKept` | `AloneSpec => KeepsConfigContract` |

`ConfigInv` says, besides the types, that a program that has read is about to
write what the file holds with at most one key changed; that is what an overlap
would break. A step of `Open` is then the contract's `SaveKey`, and a `Break` of
an opened file its `Lose`.

`Identity_proofs`, for any programs and ids, under `IdentityAssumption`:

| Theorem | States |
|---|---|
| `TypeCorrect` | `Spec => []TypeOK` |
| `ProgramsKeepContract` | `OneSaveSpec => KeepsConfigContract` |
| `TokensFit` | `ApartSpec => []TokenFitsId` |

The first is of any saves, whatever they meet. The second shows that each action
of a program moves the file as `AloneSpec` does, and then takes the step lemmas of
`DeviceConfig_proofs`. The third needs `IdInv`, which holds as long as the name is
not adrift and speaks of every version of the file at once, the one on disk and
the one being written (`Draft`), and of every save still to do: the programs that
are up go by the id each version gives (`IdIsName`), so does a token in any version
(`TokenIsName`), no save to come brings in another (`SavesFit`), and once an
activate has ended each version holds the id (`PinnedStays`, which needs `WillPin`:
the save of the token went before that of the id and left no damaged file for it
to meet).

`Actuations_proofs`, for any components and any number of actuations, under
`ActuationsAssumption`:

| Theorem | States |
|---|---|
| `TypeCorrect` | `Spec => []TypeOK` |
| `NoneTwice` | `Spec => []PulledOnce` |
| `MarkedOnlyHanded` | `Spec => []MarkedWasHanded` |
| `ListedIsForwarded` | `Spec => KnownIsForwarded` |
| `NothingPulled` | unless a time is written into device.json by hand, no pull ever sends or gives up an actuation |

The inductive invariant adds that a pull under way asks from the time that is in
the file (`PullAsksFromTime`), and that nothing later than that time was ever sent
or given up, nor anything in a queue that waits for the port (`HandedUpToTime`):
together they keep a batch apart from every earlier one.
`NothingPulled` says what the run `FirstPull` finds, for any number of actuations
and pulls: its invariant (`StillNothing`) is that without a time in the file no
pull gets further than having read that there is none.

`Messages_proofs`, for any messages, names, attributes and updates, under the
modules' assumptions:

| Theorem | States |
|---|---|
| `RecordTypes` | `RecordSpec => []RecordTypeOK` |
| `AttributesStay` | `RecordSpec => AttributesKept` |
| `LandedStays` | while one update alone is in flight and begun, what it says stays in the record once it is there |
| `AllKeptWell` | of a list of readings of any length, and whatever the store and the file hold, the loop loses none that the file knows, gains none that nothing knows and keeps the order. No list reaches the loop as the handler stands (`ListsSubmitted`); what `KindsStay` needs of it is the list of one |
| `AgentTypesHold` | `Spec => []TypeOK` |
| `AgentKeepsAttributes` | `Spec => AttributesKept` |
| `KindsStay` | `Spec => TakenFor` |

`RecordTypeOK` is inductive as it stands. It says more than types: once the record
was written, it has every attribute that the agent reports. `LandedStays` is the
safety half of `RepeatedUpdateLands`: a later write of the same update, whatever
it read, leaves what it says (`WriteLands`). That a write comes at all is for TLC.

The loop over a list of readings is where data must be reasoned about, and the
induction principles of the library take an operator as a parameter, which the
provers cannot instantiate. So the principle is proved here for sets: a set of
numbers that has 0, and with each number the next one up to a bound, has them all
(`UpTo`, by a least counterexample, `LeastOf`), and a set of lists that has the
empty one, and with each list those with one more reading in front, has them all
(`AllLists`). Both `Kept` and `Those` are functions of the turns taken (`Turns`
gives what such a function is at 0 and at the next turn), so what they make of a
list follows from what they make of it without its first reading (`ThoseInFront`,
`KeptInFront`). `AllKeptWell` is then the case of one more reading: a hit keeps
it, a miss reads the file, and from then on the names in memory are those of the
file.

`TypeOK` of `Messages` is inductive too, with its last conjunct: an agent that is
down has no registration in flight and no update that waits for its read. Without
it the callback of a registration could fill the store of an agent that is down.
`KindsStay` needs no more than the types: it is about the schemas and their order,
and about the reload that finds a name of the file.

`AgentKeepsAttributes` takes from `SendableAssumption` (what messages say of the
device is among `Docs`) that each action of `Messages` is a step of `RecordNext` or
leaves the record alone, an exit abandoning all updates whose callback has not run.

Model-checked only: the liveness properties `StartsInTheEnd`,
`SubmissionsAnswered`, `RepairedInTheEnd`, `PulledInTheEnd` and
`RepeatedUpdateLands`, because the prover has no fairness. Every invariant and
every action property of the passing runs, and every refinement, is a theorem.

## 12. Not modelled

- config.json, whose settings are constants of a process, and `data_directory` in
  it: a relative one is resolved against two different directories
  (`lib/common.js:102` and 131), which matters when a first start is made from
  elsewhere. `DeviceConfig` takes it as absolute.
- Dotted keys of `saveConfig`: nothing saves one.
- The gateway id, which is sent with requests and which nothing else depends on.
- `oisp-admin test` and `set-time`, `device-id`, `gateway-id`, `components`, which
  print or call the operating system and keep no state; of the command line no
  more than the way of `observation` to its command.
- Without callers: `updateOld`, `desRegComponent`, `deregister`, `byType`,
  `initializeFile`, `externalInfo`, `getExternalInfo`, `getIPs`, `getLocation`, the
  REST listener, the routing schema, and `lib/commander`, a copy of a package
  that is taken from elsewhere.
- Values, times and attributes of readings; tables and logging.
- Containers, onboarding scripts, the test sensor, examples: programs around the
  agent.
- The connectors of the SDK, json-schema and node's sockets are modelled by how
  the code uses them.

## 13. What is left

A module of the data directory and the working directory of a first start:
`reset-data-directory` saves `./data/` as a path relative to whoever reads it, and
a program that finds no `data_directory` at all throws at its first read. Theorems
for the findings other than `FirstPull` that state how far the code goes instead.
