# empbx: models, model checking and proofs

empbx is a small SIP PBX: one daemon, `empbxd`, that registers phones, keeps
registrations with outside gateways and connects calls between two phones or
between a phone and a gateway. This directory holds TLA+ models of its code,
the TLC configurations that check them and TLAPS proofs about them. File names
below are relative to `src/empbx/src` unless they say otherwise.

## 1. Inventory

### Actors

The daemon has two threads. **main** runs the event loop of libre: every SIP
message, timer and call event is a handler that main runs to its end. The
**sweep** (`sipd_registrar_maintenance_thread`) wakes every second, and every
few of those it deletes the registrations that have expired. They share the
maps of `sipd_runtime` and four mutexes: `regmap_users_mutex`,
`regmap_gateways_mutex`, `regmap_sessions_mutex`, `baresip_mutex`, and a mutex
in each object. Outside are the phones, the gateways, the operator who runs
`empbxd -a start` and `-a stop`, and libre/baresip, whose code is not part of
the repository except as archives under `src/libs`: it is modelled from how
empbx uses it.

### Components

| Component (files) | State | Operations | Interacts with | What makes it correct |
|---|---|---|---|---|
| Location service, users (`empbx-service-sip-pvt-users.c`) | `regmap_users`; per entry: refs, updating flag, UA, contact, expiry, mutex | lookup, release, take, new, update, destructor | service (REGISTER, INVITE), bridge, sweep, UA layer | counts are exact; nothing held is freed; 200 means reachable; only expired entries go; the two threads never block each other |
| SIP service (`empbx-service-sip.c`) | runtime maps, mutexes | request handler, call event handler, start, stop, maintenance thread | all of the SIP parts | every request is answered; every incoming call is bridged or hung up; stop waits for the thread before it frees what the thread uses |
| Sessions (`...-pvt-sessions.c`) and bridge (`empbx-app-bridge.c`) | `regmap_sessions`; per session two legs, refs, DTMF queue; handlers on each leg | inbound, intercom, outbound set-up, call and DTMF handlers, delete | service, users, gateways, UA layer | both legs start and end together; each leg is freed once; no event after deletion; the caller is answered only when the callee is |
| DTMF queue (`empbx-utils-queue.c`) | array, positions, mutex | create, push, pop, is_empty, is_full, destructor | sessions | FIFO; no digit lost in a reset of the positions; all freed at the end |
| Gateways (`...-pvt-gateways.c`) | `regmap_gateways`; refs, UA | add, two lookups, take, release, destructor | service start, sessions | start ends; each configured gateway has one UA |
| Authentication (`...-pvt-auth.c`) | none but the clock: the nonce carries its time | challenge, nonce check, response check | REGISTER handler | a stale or foreign nonce is refused, a fresh one is accepted |
| Dialplan (`...-pvt-dialplan.c`), substitution (`empbx-utils-regex.c`) | rules from the configuration | lookup, rewriting | call event handler | the first matching rule, in order, decides |
| Applications (`...-pvt-apps.c`) | `apps_map` | register, lookup, take, release | service, dialplan | filled before it is read |
| Linked list (`empbx-utils-list.c`), hash table (`empbx-utils-htable.c`) | nodes, cursors; buckets, count | add, delete, get, pop, find; insert, delete, find, iterate, expand | all maps; the sweep's list | a sequence; a map, also across an expansion |
| Process control (`empbx-main.c`, `empbx-utils-pid.c`, `empbx-utils-thread.c`) | pid file, flags, `active_threds` | start, stop, signals | operator, all services | one server; the file names it; the stop ends |
| Configuration (`empbx-config.c`) | `global`: users, gateways, rules, settings; a buffer and six variables used for one entry after another | load once; lookups of users and gateways | main, all services | what is configured is what the file says |
| XML reader (vendored `ezxml.c`, compiled in) | tags in four lists, entities, defaults of attributes | parse, find, add, insert, cut, remove, write | configuration | nothing read is lost or moved; each tag is found; bad text is reported |
| Reply helpers, logging, string, file, time, common utilities, management stub, G.729 | none that others read | | | |
| Vendored: `cJSON.c`, `cJSON_Utils.c`; `libs/baresip.patch`, build files | | | | |

### Which behaviours are hard

- Two threads, two lock orders: update takes the registration's mutex and then
  `baresip_mutex`, the sweep the other way round (by way of a destructor).
- Destructors that wait, holding a global mutex, until a counter falls.
- A release that decrements without the mutex when a flag, read without the
  mutex, says that the entry is being updated.
- Expiry read when the sweep collects and used when it deletes.
- Objects owned by a library: legs belong to their UA, then to a session, and
  a UA can be destroyed under a call by the other thread.
- Set-up in many steps, each with its own early return.
- Start and stop of processes that find each other only by a file.
- A challenge that the server forgets: all it knows of it comes back inside the
  nonce, late, twice or from another address, under a clock that is set.
- Loops that rewrite text while they read it, and pointers that are in several
  lists at once.

`PROJECT.json` lists each hazard with its line and the properties aimed at it.

## 2. The modules

| Module | Models | Proofs |
|---|---|---|
| `Registrar` | user registrations, REGISTER and INVITE handlers, bridge as a user of registrations, the sweep | `RegistrarProofs` |
| `Sessions` | call legs, sessions, set-up and its failures, call events, UAs destroyed under calls | `SessionsProofs` |
| `DtmfQueue`, abstract `BoundedFifo` | the digit queue, and what it promises | `ContainerProofs` |
| `Daemon` | start, stop, crash, the pid file | `DaemonProofs` |
| `Lifecycle` | start of the SIP service with its gateways, the maintenance thread, the stop | `LifecycleProofs` |
| `HashTable`, abstract `ValueMap` | the chained hash table, and what it promises | `HashTableProofs` |
| `LinkedList`, abstract `ListSeq` | the doubly linked list pointer by pointer, and what it promises | `ContainerProofs` |
| `Auth` | digest authentication of a phone over an unreliable network | `RegistrarProofs` |
| `Dialplan` | the rule, the application and the destination of a call | `DialplanProofs` |
| `Substitution` | `$n` and `${n}` in the data of a rule | `DialplanProofs` |
| `Config` | the load of the configuration | `LifecycleProofs` |
| `XmlTree`, abstract `XmlDoc` | the tags of a document as lists of pointers, and what they promise | `XmlTreeProofs` |
| `XmlParser` (extends `XmlTree`) | reading a document into tags, and writing it | |
| `XmlChars`; `XmlText`, `XmlDtd` (extend it) | references, UTF-8 and UTF-16; texts out and in; the internal DTD | |
| `MCRegistrar`, `MCRequests`, `MCAuth`, `MCSessions`, `MCDtmfQueue`, `MCDaemon`, `MCLifecycle`, `MCHashTable` | instances for TLC | |

**Parts.** Some instances check several modules in one run: `MCRequests`
extends `Registrar` and `Auth`, `MCSessions` extends `Sessions`, `Dialplan` and
`Substitution`, `MCDtmfQueue` extends `DtmfQueue` and `LinkedList`, `MCDaemon`
extends `Daemon` and `XmlTree` and has an instance of `XmlParser`, and
`MCLifecycle` extends `Lifecycle` and `Config` and has `XmlText` and `XmlDtd`. A variable
`part`, chosen in the initial state and never changed, says which of them a
behaviour belongs to; the variables of the others keep one initial value. The
state graph is the disjoint union of the graphs of the parts, and a property
says of each part what it would say in a run of its own: in the other parts
its variables do not move from their initial value, where it holds. Where two
modules are extended together their names are disjoint (`AuthNext`, `PlanNext`,
`LoopNext`, `ListNext`, `TreeNext`, `ConfigNext` beside `Next`), and the properties that a run checks are the very
definitions that the theorems speak of. The parts of a run work one after the
other in the code: the file is parsed before it is loaded, and loaded before
the service starts; a call is authenticated before the dialplan is asked, and
routed before it has a session. Where one uses the result of another, it takes
it as a choice over all results.

Each module has one action per operation or, where threads interleave, per
stretch of code between two synchronisation points. Operators marked *Faulty
variant* are not part of the next-state relation: each is a plausible bug in
the action next to it, and each property is checked to fail when the variant
takes the action's place.

### Registrar

Variables `phase`, `refs`, `updating`, `ua`, `contactStr`, `contactUri`,
`contact`, `lapsed` are the fields of `empbx_registration_user_t` per user id;
`regLock`, `mapLock` and `uaLock` its mutex, `regmap_users_mutex` and
`baresip_mutex`. `mpc` and `spc` are the control points of main and of the
sweep. `phase` follows the object: `private` while `new` builds it, `mapped`
in the map, `dying` when it is unlinked and its destructor waits. Main's
actions are named after the code (`LookupLock`, `NewInsert`, `UpdateBuild`,
`BridgeFail`, `ReleaseDec`), the sweep's start with `Sweep`.

The unlocked decrement in `release` is two steps (`SweepRelRead`,
`SweepRelWrite`), so that a decrement by main in between is lost, as it is in
the code; `leaked` is a history variable that counts references nobody will
give back. Time is the predicate the code evaluates, `expires <= now`
(`lapsed`), which may become true at any moment. Authentication and the
dialplan are choices. One main thread serves one request at a time; an INVITE
may hold the caller's registration while it looks up the callee's, as the code
does for a bridged call.

### Sessions

`call` is the state of a leg, `owner` whom its events go to (the UA's own
handler, or a session), `line` the UA whose list of calls it is in. `sess`,
`lega`, `legb` are the sessions; `up` the UAs that exist. Set-up by main is cut
where the sweep can come between: `Incoming` (the call is announced and
looked up), `Connect` (session made, second leg dialled), `SetHandlers`. A
failure is an action: `RouteFail`, `ConnectFail`, `InsertFail`. `UaExpire` is
the sweep, at any moment; `UaRebuild` a REGISTER with a new contact. Call
objects and sessions are not used twice, so that a pointer to a freed one is
still recognised, and `touched` records every use of one.

### DtmfQueue and BoundedFifo

The queue is an array of `Size + 1` slots with two positions that go back to
the start when a pop runs past the end. All operations hold the queue's mutex,
so each is one action. `BoundedFifo` is what a caller may rely on: first in,
first out, never more than `Size`; a push may be refused although there is
room, but never on an empty queue. `DtmfQueue!FifoSpec` states that the array
implements it, under the mapping from slots to a sequence.

### Daemon

`proc` says what runs under each process id, `file` what the pid file holds.
The check of the file, the fork, the opening and the writing of the file are
separate steps; an `unlinked` writer is one whose file was deleted between its
open and its write. `PidRead` returns any value when the file is empty, because
`empbx_pid_read` then returns a variable that was never set. `StopKill` depends
on where the server is: before the main loop runs no handler is installed and
SIGTERM ends the process on the spot.

### Lifecycle

`mpc` follows main through `empbx_service_sip_start`, the event loop and
`empbx_service_sip_stop` to the end of `main`; `tpc` follows the maintenance
thread. `gwMap` and `userMap` are the two maps, `refs` the counters of their
entries, `uas` the UAs and `tagged` those with user data, which holds one
reference. The handlers of the running service are one step each: what happens
inside them is in `Registrar`. Both `StopUa` and `ThreadDestroy` are calls of
`ua_destroy`, and only the second holds `baresip_mutex`; what two of them at
once do is undefined, so the step may go through or set `crash`. A use of a
freed map, mutex or of `global` sets `crash` as well, and the model ends there.
The insertion of a gateway frees an entry with the same user id first, and that
waits for the counter, on the only thread that could lower it.

### HashTable and ValueMap

`table` is the array of chains, each chain a sequence from head to tail. An
insertion first drops the entry of the same key, counts the new one, grows if
the count is over the limit (`phase = "full"`) and only then links it, or takes
the count back when there is no memory for the entry. A growth into a second
array (`Move`) and one in place (`RehashMove`) go entry by entry, in the order
of the code's loops, so that the two arrays and the position are state. The
whole of it runs under the mutex of its map: the steps are the algorithm's, and
no other operation comes between. The table owns its values (`freed`), as it
does in every call of the code. `ValueMap` is the map a caller sees: `MapSpec`
states that a growth adds, loses and frees nothing, and that an insertion drops
exactly what the key had, also when it fails afterwards.

### LinkedList and ListSeq

`head`, `tail`, `size` and the fields of each node are the pointers of the
code; addresses are used again once they are freed. Searching, clearing and
destroying walk along the pointers one node at a step (`phase`, `cur`).
`ListSeq` is the sequence that a user of a list sees, with the data that the
list owns and destroys; `SeqSpec` states that the pointers implement it. Every
list of the program has one thread, which is why no other operation comes into
a walk.

### Auth

One phone and the server, with a network that loses, delays and reorders, and a
phone that retransmits, gives up, changes its address and starts over. The
server keeps nothing of a challenge; `check_nonce` decides on what the nonce
says. A nonce is kept by its true age, the clock of the server when it was
issued and the address it was issued to, so that a property can speak of the
true age while the code only sees its clock. 401 and 200 are sent without a
transaction, so that the handler sees a retransmission anew; 403, 404 and 500
go through one, which repeats them (`Repeat`). `first` remembers the first
answer to a request, `Restart` forgets what the process knew.

### Dialplan and Substitution

`Dialplan` is the way of one call on main: number, search of the rules
(`Missed`, `Taken`, and the same without memory), application, and the
destination that the bridge reads out of the data of the rule. What an
expression matches is a part of the rule, with the number of its groups, which
must fit the vector that the code gives PCRE. The search of "user/" and
"gateway/" is modelled as in the code, anywhere in the destination, with a part
that ends in "user" as a value of its own. `Substitution` is the loop that
replaces references, with its index, its step back and its limit; `Expanded` is
what a reader of the rule expects, of a template that is `WellFormed`: a brace
that is opened after `$` and before a digit is closed after digits, and the
digits of each reference have room in `index`. (`empbx-utils-regex.c` cuts a
longer run of digits in two, and the second part is then text; that this has to
be excepted came out of the proof.) Of other templates `ResultRight` says that
the position and the lengths stay in bounds.

### Config

`empbx_load_config` goes through the sections in its own order, one entry at a
step. `tmp_mbuf` and `known` are the buffer and the variables that serve one
gateway after another and then the settings. `file` keeps what has been read,
and the properties compare the result with it, by the places of the entries in
it: the last place of a user or a gateway, the first of a name, and, for what
is a list in the program, all places in their order (`Listed`). Where the code
does not look at the result of `str_dup`, a value may be lost (`forgotten`).
`MemFail` stands for the allocations that are looked at; it may come between
any two entries. `ConfigAsWritten` is about a load that ends; where a value was
lost, only about the users and the settings of the SIP stack.

### XmlTree, XmlDoc, XmlParser

A tag hangs in up to three lists at once: `ordered` (by offset), `next` (same
name) and `sibling` (the first of each name), which are the fields of the code.
`Way` is the sequence of tags that a loop of the code meets along one of them,
and `Below` the tags that `ezxml_free` reaches: the least set that its two
recursive calls do not leave.
`XmlDoc` has a sequence of subtags instead; `DocSpec` states that the lists
implement it. Two cases break the sibling list, and `Careful` leaves them out:
a tag inserted in front of the first one, whose name it has, gets that one as
its sibling (`ezxml.c:878`), and when the first subtag is cut the next one of
its name is no longer found, if a tag of another name comes between
(`ezxml.c:976`). No function of the program cuts or moves tags, and the parser,
which needs no such care (`Careful <- FALSE` there), adds each at the end.
`XmlParser` reads a document token by token; `WellFormed` and `Canonical` are
the reference definitions of what is well formed and what is written.

### XmlChars, XmlText, XmlDtd

A text is a sequence of characters and references. `decode`, `ampencode`,
`utf8` and `str2utf8` are functions of the code; `XmlText` applies them to
every text within its bound, out and in. `XmlDtd` reads the declarations of an
internal subset: entities, whose circles `ent_ok` looks for, and lists of
attributes, which are given to a tag by way of a variable that an earlier
declaration has set. These modules use recursive operators and are for TLC
only.

## 3. The runs

| Run | Instance | What it shows |
|---|---|---|
| `registrar_safety` | 2 users, 2 good contacts, 1 that does not decode, at most 1 lost reference per registration; and a phone with a clock set by at most 1 or with 2 addresses; 2.9 million states | exact reference counts, no use after free, the three ways the threads can block each other and no other, at most one renewed registration lost per sweep, 200 means reachable, a UA in use is lost only to an expiry; a nonce decides by its age and address (`NonceDecides`), a refusal stands (`RefusedStaysRefused`) |
| `registrar_liveness` | 1 user, 2 good contacts, 1 that does not decode; 21 thousand states | with both threads fair: requests are answered while nothing expires; an expired registration is swept or renewed unless the server is wedged |
| `auth_liveness` | 2 addresses, lifetime 0, REGISTER; 60 thousand states | a phone that stays at its address is registered again and again (`RegistersAgain`) |
| `registrar_expiry` | 1 user | *violation*: an unexpired registration is deleted |
| `registrar_contact` | 1 user, 2 contacts | *violation*: `contact_uri` does not refer to `contact_str` |
| `sessions` | 4 calls, 2 sessions, 2 user UAs, 1 gateway; dialplans of up to 2 of 10 rules; templates of up to 5 characters; 135 thousand states | events reach live sessions, legs end in pairs, freed objects are left alone, no stray call, the caller is answered after the callee; one verdict per call (`OneVerdict`), the first rule decides and a configured gateway is reached (`Routed`), references are replaced (`ResultRight`) |
| `dtmf_queue` | 4 slots, 3 digits; 4 nodes, 4 data | freeing, refinement of the FIFO; refinement of the sequence (`SeqSpec`) |
| `hash_table` | sizes 2, 3 and 5, 5 keys, 6 values; 22 thousand states | every entry is found under its key, also after a growth; an iteration returns every entry; refinement of the map |
| `daemon` | 4 process ids; documents of up to 5 tokens; 3 tags | one server and a file that names it while starts do not overlap; a stale file only after a kill; tags are found by name (`TagsFound`), errors are reported and nothing is lost (`ParsedAsWritten`), refinement of `XmlDoc` (`DocSpec`) |
| `daemon_messages` | 3 process ids | *violation*: refused although nothing runs |
| `lifecycle` | 3 gateways, 2 of them with one user id, 2 users; files of 2 entries and 3 gateway parameters; 3 declarations; texts of 3 characters; 710 thousand states | no UA points to a freed registration; a stop that finds the thread asleep is safe but for its last unlock; `global` is freed last; the start ends unless a user id is shared, the stop ends unless a reference was lost; `ConfigAsWritten`, `Declared`, `TextKept` |
| `lifecycle_wait` | 1 gateway, 1 user | *violation*: main ends before the thread has |

### What the violations say

- `registrar_expiry`: the sweep reads `expires` at `empbx-service-sip.c:43`
  and deletes at line 57 without reading it again. A REGISTER that was past
  its lookup is answered 200 in between and its registration is deleted.
- `registrar_contact`: an update that fails leaves the new `contact_str`
  without its `contact_uri` (`empbx-service-sip-pvt-users.c:103-119`), so the
  same REGISTER, sent again, looks like no change and is answered 200.
- `daemon_messages`: the pid in a file left by a process that a signal ended
  (`empbx-main.c:177`) is believed. The same property has a second half, which
  longer behaviours violate as well: of two overlapping starts both become
  servers, the one that ends first deletes the other's file, and a stop command
  then prints "Server is not running" (`empbx-main.c:140`, `:192`).
- `lifecycle_wait`: the thread lowers `active_threds` before it unlocks the
  mutex of `global` (`empbx-utils-thread.c:26`); main, which polls the counter
  without that mutex, may free both in between.

Beside these, the passing properties carry known defects in their statements,
so that nothing else can go wrong unseen: `StuckOnlyIfWedged` names three ways
in which the two threads block each other for good (lock inversion; the
destructor waiting under `regmap_users_mutex` for a caller that wants that
mutex; a lost reference), `EndedLegsLeftAlone` excepts legs that a UA took with
it and those of a session that could not be set up; `CleanIfAsleep` speaks of
a thread that sleeps when the stop begins, because one in its sweep may use
UAs, maps and mutexes that the stop has freed; `StartEnds` and `StopEnds`
except a shared user id and a lost reference.

### Where the XML reader and the configuration differ from their comments

The models contain these, and the properties are stated so that they say what
the code does in spite of them:

- `ezxml.c:976` and `:878`, the sibling list (above). `include/ezxml.h:49` says
  "next tag with different name in same section and depth".
- `ezxml.c:598`: every parse error returns the root tag with the message inside,
  where `include/ezxml.h:59` says "Returns NULL on failure", and
  `empbx-config.c:121` relies on it: a configuration that breaks off is loaded
  as far as it goes, with success.
- `ezxml.c:363` compares the tags known so far with a name left over from the
  declaration before: a second list of attributes of a tag is not found.
  `Declared` is therefore about its first list.
- `ezxml.c:274` follows `&` only, also for parameter entities, whose values
  refer to others with `%`: one that refers to itself passes the check, and the
  next value that uses it is decoded without end (`hung`).
- `empbx-config.c:322` takes a setting for one of the program's own when "x_" is
  anywhere in its name. `call_max_calls` in the sample configuration
  (`misc/empbxd-conf.xml:49`) has it, where "max" meets "_calls", and never
  reaches the SIP stack. It is among the settings of the instance, in `HasX`:
  `ConfigAsWritten` asks for the settings without "x_".

### Bounds, and why they are enough

- Two users are needed for a call (caller and callee) and for a sweep that
  deletes two entries; a third would only be one more of the same, since main
  holds at most two registrations.
- Two good contacts tell "the same" from "a new one"; a third value adds no
  comparison. One bad contact reaches every failure of the decoding.
  `registrar_liveness` has one user, who renews, changes the contact, calls and
  lapses while the sweep runs: every way the two threads can block each other is
  about one registration. Two users there are out of TLC's reach.
- `MaxLeaks = 1` caps the references that one registration loses for good.
  The cap is in the guards of the actions that lose one; after the first loss
  the destructor of that entry never ends, so more would change no outcome.
- Four calls and two sessions allow two complete calls at once, or one call
  after a failed one; three UAs allow intercom, inbound and outbound.
- Four slots let the positions wrap with the queue empty, partly filled and
  full. Three digits make order visible.
- Three gateways: one that is replaced, the one that replaces it, and another
  that must not be. Two users give the thread a second entry to delete after
  the one it is at.
- Table sizes 2, 3 and 5 give two growths, after which none is left; five keys
  with hashes that share a chain before a growth, after it, or both. The limit
  is computed from the size as in the code. A value is used once, so that
  freeing it twice would be seen; six values fill the table and replace one.
- Four process ids: a start that forks while another does the same.
- Four nodes and four data: a list with a head, a tail and two in between, and
  one address to use again after a deletion.
- Authentication: a lifetime of one tick and a clock set by one tell a nonce
  that is fresh, old on one clock only, and old on all; two addresses tell the
  one it was issued to from another. Either the clock is set or the address
  changes in a behaviour, since a check of the address does not look at the
  clock; the proofs have both at once. `MaxNet` stops a phone from
  sending again while a message is on its way; a message outlives its
  transaction, but not the next. In `auth_liveness` the lifetime is 0: a nonce
  is stale after one tick.
- Two rules: one that takes the number and one before it that does not, or
  takes it too. Templates of five characters hold a reference in braces and a
  character after it; two more lead the position out of the front and overfill
  the index.
- Two entries of a file and three parameters of gateways: an option left in the
  buffer by a gateway that is not usable, and a usable one after it.
- Five tokens of a document: two levels, with text between, before and after.
  Where the functions are used in any order, three tags of two names on two
  levels: two offsets give each order of the three, also at the same offset.
  `MaxOff = 3` is the largest offset in a document of five tokens. The proofs
  about the tags have no bound.
- Three declarations: an entity, one it refers to and one that leads back.
  Three characters: a line end in two, and a neighbour. The characters for
  UTF-8 and UTF-16 are those at both ends of each range.

### Deadlock

Every run sets `CHECK_DEADLOCK FALSE`. In `Registrar` the two threads can in
fact block each other (`StuckOnlyIfWedged` says exactly when); in `Sessions`
call objects are used up, and main hangs after `InsertFail`; a `DtmfQueue` is
used no more once destroyed; `Daemon` may rest, and a document is read once; `Lifecycle` comes to an end; a
`HashTable` runs out of values.

### Fairness

`registrar_liveness` assumes strong fairness of each thread. Weak
fairness would let one thread be overtaken for ever at a mutex, which the code
excludes by its sleeps: the sweep sleeps at least a second, with all mutexes
free, between two sweeps, and main waits for the network between two requests.
Nothing is assumed of the environment: no request need arrive and nothing need
expire. `lifecycle` assumes weak fairness of each thread: both are scheduled by
the operating system, and in the stop main waits for the mutex of the map at
most until the thread ends its last sweep. The other parts of that run have no
fairness and no liveness property.

`auth_liveness` assumes that the phone goes on registering and that its
transactions end (`Send`, `GiveUp`, `TransactionEnd`), and that the network,
the server and the phone do not for ever miss what happens again and again: a
challenge that arrives in time, its answer that is sent and handled with memory
left. Each of these may fail any number of times; strong fairness only says
that it does not fail for ever. Registrations lapse and the server restarts at
any moment.

## 4. The proofs

TLAPS proves these for every value of the constants that meets the named
assumptions of the modules.

| Theorem | Statement |
|---|---|
| `RegistrarProofs!TypeCorrect` | `[]TypeOK` |
| `RegistrarProofs!ReferencesAreAccounted` | `[]RefsAccounted` |
| `RegistrarProofs!HeldRegistrationsLive` | `[]HeldNotFreed` |
| `RegistrarProofs!OneRenewalTooLate`, `UaInUseKept` | `[]AtMostOneFreshDoomed`, `UaInUseOnlyLostToExpiry` |
| `RegistrarProofs!OkIsReachable` | `[]OkMeansReachable` |
| `RegistrarProofs!OnlyThreeWedges`, `WedgesLast` | `[]WaitsAreWedges`, `WedgedForever` |
| `RegistrarProofs!NonceDecidesAll`, `RefusedForGood` | `NonceDecides`, `RefusedStaysRefused` |
| `RegistrarProofs!AnswersKept` | `[]AuthInv`, which has the types in it |
| `DialplanProofs!VerdictOnce`, `RoutedRight` | `[]OneVerdict`, `[](PlanTypeOK /\ Routed)` |
| `DialplanProofs!SubstitutionRight` | `LoopSpec => []ResultRight` |
| `SessionsProofs!EventsReachLiveSessions` | `[]HandlersMatch` |
| `SessionsProofs!SessionsKeepTheirLegs` | `[]PeersEndTogether` |
| `SessionsProofs!EndedLegsUntouched` | `[]EndedLegsLeftAlone` |
| `SessionsProofs!EveryCallHandled` | `[]NoStrayCall` |
| `SessionsProofs!CalleeAnswersFirst` | `AnswerFollowsCallee` |
| `ContainerProofs!SlotsExact`, `QueueFreed` | `[]SlotInv`, `[]NothingLeaked` |
| `ContainerProofs!QueueImplementsFifo` | `Spec => FifoSpec` |
| `ContainerProofs!ListImplementsSequence`, `ListTypeCorrect` | `ListSpec => SeqSpec`, `[]ListTypeOK` |
| `DaemonProofs!SingleServer`, `FileNames`, `StaleFile` | `[]OneServer`, `[]FileNamesServer`, `[]StaleOnlyIfKilled` |
| `LifecycleProofs!TypeCorrect`, `UaDataPointsToLive` | `[]TypeOK`, `[]UaDataLive` |
| `LifecycleProofs!SleepingThreadIsSafe`, `GlobalFreedLast` | `[]CleanIfAsleep`, `[]GlobalOutlivesThread` |
| `LifecycleProofs!ConfiguredAsWritten` | `ConfigSpec => []ConfigAsWritten` |
| `HashTableProofs!TypeCorrect`, `SearchFindsEntries` | `[]TypeOK`, `[]EntriesFound` |
| `HashTableProofs!ValuesAlive`, `EntryCount` | `[]LiveNotFreed`, `[]CountExact` |
| `HashTableProofs!IterationComplete` | `IterationExact` |
| `HashTableProofs!TableImplementsMap` | `Spec => MapSpec` |
| `XmlTreeProofs!TreeFound` | `TreeSpec => []TagsFound`, for careful callers |
| `XmlTreeProofs!TreeImplementsDocument` | `TreeSpec => DocSpec`, for careful callers |

**Registrar.** The count alone is not inductive: it needs to know who is
inside `ua_destroy`, that a UA in destruction still exists, that the value the
sweep has read is not below the present one (`seen >= refs`), which object is
in which phase and which control points own which global mutex. `LockInv`,
`CallerInv`, `PhaseInv` and `RefInv` say that. They say nothing of the owner of
`reg->mutex`, for a reason: the sweep may unlock main's. Exactness of the count
holds nevertheless, because main's own decrement is locked against main only
and the sweep's lost updates are accounted as leaked.

The other results rest on it and on an invariant each. A registration that the
sweep has marked and main has renewed since leaves main outside the part of a
request that could renew another (`FreshInv`): the next lookup waits for the
sweep, so one renewal comes too late and no second. The three copies of a
contact differ only where one of them is missing, and at the end of an update
that succeeded the new one can be reached (`ContactInv`). `reg->mutex`, when it
is locked, belongs to a thread that is still to unlock it (`MutexInv`); the
converse fails, for the reason above, and is not needed. From it each pair of
points where both threads wait is one of the three wedges. The theorem states
this of `MainWaits` and `SweepWaits`, the conditions of the code's waits; that
they are the states in which no step of a thread is enabled is the part of
`StuckOnlyIfWedged` that only TLC checks, since the prover has no `ENABLED`.

**Sessions.** The invariant adds that a leg given to a session is one of its
legs for good (`OwnerInv`), that sessions do not share legs and that a deleted
session has none left (`LegsInv`), what is known of the call being set up
(`SetupInv`) and that only that call may still belong to its UA (`StrayInv`).

**Auth.** What the server does not keep has to be in the messages: every
request of a transaction carries the nonce of its first, from wherever it is
sent again (`RequestInv`); a challenge answers a request without one, and any
other refusal is in a transaction, which goes on taking the request for as long
as the phone sends it (`AnswerInv`). Then the check of the nonce decides at the
first arrival and at every later one. No bound on the clock, the addresses or
the messages on their way is used.

**Dialplan.** No rule before the position takes the number, and once one does
it is the first and the destination is its own (`RouteInv`); a rule that leads
to a configured gateway lies ahead while rules are tried, and afterwards it is
the one that was taken (`ReachInv`).
Where memory is short the invariant says nothing of the rule, only of the
verdict (`OneVerdict`). The assumptions say that rules are of the shape the
configuration gives them, that "" and every number may be parts of a
destination, and that the word "gateway" does not itself end in "user".

**Substitution.** The result so far is what the pieces of the template up to
the position stand for, cut to the buffer, and no reference straddles the
position (`LoopInv`). A turn of the loop takes one character or one reference:
the digits that `Run` takes are `RefDigits`, which is where well-formed
templates are needed, and the pieces behind the first character of a reference
are empty. `FlattenSeq` is a recursive function of the community modules; what it
does with one more piece is proved from its definition, without induction: a
least place where the function of the definition is not the expected one would
have a lesser one before it.

**DtmfQueue.** The items lie in the slots `out .. in - 1`; the abstract queue
is that stretch of the array, and each operation maps to one of `BoundedFifo`.

**LinkedList.** The refinement mapping takes the sequence of nodes that the
pointers form, which `Order` only chooses. There is one such sequence
(`OneOrder`: two would differ at a least place, and the links lead from the one
before to the same node), and the linking in and the cutting out of a node make
the sequence with and without it (`LinkedIn`, `LinkedOut`), in both directions
and with nothing allocated beside it. These are lemmas about memories, not
about steps: `Inserted` and `Removed` bring them to the steps, of which there
is one lemma each. The invariant (`ListInv`) adds to the chain where a walk is
(`WalkInv`) and that the nodes a search has passed were not wanted (`Tried`).
In a clear the chain is what is left of it, and its first node has a pointer to
the one before that was freed, which nothing reads.

**Daemon.** While starts do not overlap, a start past its check knows that no
server runs and that nobody unlinks the file (`LoneStart`).

**Lifecycle.** The counters are exact (`RefsInv`), so that a destructor that
has waited leaves no user data behind; before the launch no thread exists and
nothing is freed (`StartInv`); the counter main polls tells whether the thread
has finished (`ThreadInv`); a thread that slept goes straight to its end
(`AsleepInv`).

**Config.** At any time the maps, the list and the names are what the entries
read so far say (`UsersInv`, `GatewaysInv`, `RulesInv`, `NameInv`): a step adds
one entry, behind the others, and changes what belongs to its section only
(`OnlyHere`). The buffer belongs to one reader at a time: to the gateway being
read, whose options it lists in their order and whose known parameters have the
first value given (`GateInv`), and in the last section to the settings
(`StackInv`), which is where the `mbuf_clean` of both are needed. That a list
follows the places of its entries is a statement about cardinalities, so that
one more entry is one more place (`ListedMore`) and no induction is needed. No
bound on entries, parameters or lost values is used. The assumptions say that
`NULL` is no value, name or record, that the name "0000" is not empty, and that
parameters and rules have the attributes the code reads.

**HashTable.** Outside a growth every entry is in the chain of its hash; inside
one, the position of the loop separates the entries that are where the new size
wants them from those still to be looked at (`PlaceInv`). An entry pushed onto a
chain the loop has yet to reach is looked at again, and stays. Keys are distinct
over both arrays (`KeyInv`), so that a cut and a push move an entry and do
nothing else: the pairs of the map are the same before and after. What an
iteration has returned is what lies before its position (`IterInv`).

**XmlTree.** The invariant (`TreeInv`) says of every tag that three links list
three sets: `ordered` all of its subtags, `next` those of each name, `sibling`
the first of each name; and all of them in one order `B` of the placed tags,
which agrees with the offsets. The order is in no variable: the theorem carries
along that there is one, and a step gives the next. A tag that is put in comes
after those at its offset (`Wider`), one that is cut or freed leaves the order
of the others as it is (`Narrower`, `Spared`). A link lists a set in the order
if it leads through a sequence of tags that has them so (`Chain`, `Sorted`); no
tag comes twice in such a sequence, therefore it has no more members than there
are tags, and `Way`, whose recursive function is then determined step by step,
returns it (`WayIs`). One lemma each says what becomes of a list when a tag is
linked in, taken out or replaced (`ListPut`, `ListCut`, `ListSwap`); the lemmas
about `ezxml_insert` and `ezxml_cut` apply them to the three lists. The proof
shows why there are two cases to avoid and no third: the first tag of a name is
replaced by the new one where the code unlinks it, which it does except at the
head of the subtags (`BeforeItsName`); and the next one of a name that becomes
the first goes to the place of the one that was cut, which is its own place
only if no tag of another name comes between (`LeavesLater`).

`TagsFound` counts tags of a name and follows as many pointers; the places of
a name in the document and those in its own list are as many because they are
the places of the same tags (`CountSame`). In `TreeImplementsDocument` the
subtags of the document are the sequence that `ordered` leads through. A tag
comes in after as many as have its offset or a lesser one, since the offsets
ascend (`PlaceAt`), and what `ezxml_free` reaches from a tag by its pointers is
what the document has below it (`DocBelow`): each is contained in every set that
the other's rule closes.

Both theorems assume `Careful`, that callers avoid the two cases. Without it the
properties fail, as the comments above say; nothing in the program calls the
functions otherwise.

Type correctness (of the registrar, the authentication, the dialplan, the list
and the table), `SlotInv`, `LiveNotFreed` and `CountExact` are proved for every
value of the constants and are in no run.

Only model-checked:

- liveness under fairness (`AnsweredUnlessLapsed`, `LapsedIsSwept`,
  `RegistersAgain`, `StartEnds`, `StopEnds`), and the half of
  `StuckOnlyIfWedged` that speaks of `ENABLED`: the prover has neither;
- what recursive definitions compute: `TextKept` and `Declared` (decoding,
  entities) and `ParsedAsWritten` (well-formed documents). They need an
  induction over the text, and the library states induction with an operator as
  parameter, which no prover here can instantiate; and their modules have
  `RECURSIVE` operators, from which no theorem may be reached.

## 5. Not modelled, and why

What PCRE matches is a part of a rule, and the translation of patterns that
begin with "_" into expressions is left out: both are string matching without
state. Media, codecs and device names have no state the properties are about.
Out of memory is a failure of the step where the code checks for it, and a lost
value where `Config` does not. Requests inside a dialog are not modelled yet:
the custom handler sees a re-INVITE before the session layer does and takes it
for a new call. The stop leaves out the maps of sessions and applications,
which no other thread uses. When `empbx_pid_read` returns an unset variable the
model takes any process id or zero; negative values, which name process groups,
are left out. Of `Auth` the 32 bits of the clock, and of `Registrar` those of
`expires`, are left out.

Of the XML reader: `ezxml_set_attr` and its relatives, which nothing calls; the
reading of the file; processing instructions beyond their place; and the
normalisation of attributes that are declared as other than CDATA
(`ezxml.c:212`), whose loop reads behind the end of the value. Of the
configuration: the checks of the root tag, and the section of the management
service, of which nothing is kept. Of the hash table: the maps of integers,
which differ in hash and comparison only.

cJSON is vendored and nothing in the program calls it. The G.729 module
registers a codec with the media library. The management service is a stub.
Logging, string, time and file helpers keep no state that another component
reads. The libraries are modelled from how empbx uses them.

## 6. Plan

Done: `Registrar`, `Auth`, `Sessions`, `Dialplan`, `Substitution`, `DtmfQueue`
with `BoundedFifo`, `LinkedList` with `ListSeq`, `Daemon`, `Lifecycle`, `Config`,
`HashTable` with `ValueMap` and `XmlTree` with `XmlDoc`, each with proofs;
`XmlParser`, `XmlText` and `XmlDtd`, model-checked. Next, in this order:

1. A second reader of `HashTable`, the maintenance thread that asks without the
   mutex whether the map is empty; the pointers an INVITE handler uses without
   a reference; the 32-bit arithmetic of `expires`; requests inside a dialog.
2. Proofs about the parser: `XmlParser` adds each tag at the end, for which the
   lemmas of `XmlTreeProofs` about `ezxml_insert` need no careful callers. The
   reference definitions of `XmlParser` would have to move to a module of their
   own, since they are `RECURSIVE`.
