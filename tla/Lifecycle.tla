----------------------------- MODULE Lifecycle -----------------------------
(***************************************************************************)
(* The life of the SIP service: the start adds the configured gateways and *)
(* launches the maintenance thread, the stop destroys the UAs, the maps    *)
(* and the mutexes, and only then does main wait for the thread.           *)
(*                                                                         *)
(* Registrations of users and of gateways are counted by the user data of  *)
(* their UA; their destructors wait for the counter.  A reference is lost  *)
(* when a call cannot be set up (see Registrar).  Handlers of the running  *)
(* service are one step each here.  A use of freed memory ends the model:  *)
(* what follows it is undefined.                                           *)
(***************************************************************************)
EXTENDS Naturals, FiniteSets

CONSTANTS
  Gateways,  \* the gateways of the configuration
  IdOf,      \* the user id of each, the key in regmap_gateways
  Users,     \* the users that may register
  None       \* no gateway, no user

ASSUME LifecycleAssumption ==
  /\ Gateways \cap Users = {}
  /\ None \notin Gateways \cup Users

VARIABLES
  mpc,      \* main: control point
  todo,     \* gateways of the configuration not looked at yet
  newGw,    \* the gateway being put into the map
  gwMap,    \* regmap_gateways
  userMap,  \* regmap_users
  refs,     \* reg->refs
  lost,     \* history: registrations one reference to which is lost
  uas,      \* the UAs that exist, each named by its registration
  tagged,   \* those with user data, which holds a reference
  lapsed,   \* the users whose registration has expired
  ready, shutdown, threads,   \* flags and counter of global
  mapLock,  \* who locked regmap_users_mutex
  tpc,      \* maintenance thread: control point
  doomed,   \* its list of registrations to delete
  victim,   \* the one it deletes
  freed,    \* what main has freed: users, mutexes, global
  asleep,   \* history: the thread slept when the stop began
  crash     \* the freed thing that was used, or "no"

Regs == Gateways \cup Users

gwVars     == <<todo, newGw, gwMap>>
regVars    == <<refs, lost, uas, tagged, lapsed>>
globalVars == <<ready, shutdown, threads, freed, asleep>>
threadVars == <<tpc, doomed, victim>>
vars == <<mpc, gwVars, userMap, regVars, globalVars, mapLock, threadVars, crash>>

StopPcs == {"stopUas", "lockUsers", "freeUsers", "freeGws", "freeMutexes",
            "wait", "ended"}

TypeOK ==
  /\ mpc \in {"add", "insert", "launch", "run"} \cup StopPcs
  /\ todo \subseteq Gateways /\ gwMap \subseteq Gateways
  /\ newGw \in Gateways \cup {None}
  /\ userMap \subseteq Users /\ lapsed \subseteq Users
  /\ refs \in [Regs -> Nat] /\ lost \subseteq Regs
  /\ uas \subseteq Regs /\ tagged \subseteq uas
  /\ ready \in BOOLEAN /\ shutdown \in BOOLEAN /\ asleep \in BOOLEAN
  /\ threads \in Nat
  /\ mapLock \in {"free", "main", "thread"}
  /\ tpc \in {"none", "top", "empty", "lock", "next", "destroy", "delete",
              "finish", "unlock", "ended"}
  /\ doomed \subseteq Users /\ victim \in Users \cup {None}
  /\ freed \subseteq {"users", "mutexes", "global"}
  /\ crash \in {"no", "ua", "users", "mutexes", "global"}

Init ==
  /\ mpc = "add" /\ todo = Gateways /\ newGw = None
  /\ gwMap = {} /\ userMap = {}
  /\ refs = [r \in Regs |-> 0] /\ lost = {}
  /\ uas = {} /\ tagged = {} /\ lapsed = {}
  /\ ready = FALSE /\ shutdown = FALSE /\ threads = 0
  /\ mapLock = "free"
  /\ tpc = "none" /\ doomed = {} /\ victim = None
  /\ freed = {} /\ asleep = FALSE /\ crash = "no"

-----------------------------------------------------------------------------
\* The start.

\* No memory, or no UA from its configuration: the gateway is left out.
GatewayFail(g) ==
  /\ mpc = "add" /\ g \in todo
  /\ todo' = todo \ {g}
  /\ UNCHANGED <<mpc, newGw, gwMap, userMap, regVars, globalVars, mapLock,
                 threadVars, crash>>

\* The UA and its user data, which may get no memory.
GatewayUa(g) ==
  /\ mpc = "add" /\ g \in todo
  /\ todo' = todo \ {g} /\ newGw' = g
  /\ uas' = uas \cup {g}
  /\ \/ tagged' = tagged \cup {g} /\ refs' = [refs EXCEPT ![g] = 1]
     \/ UNCHANGED <<tagged, refs>>
  /\ mpc' = "insert"
  /\ UNCHANGED <<gwMap, userMap, lost, lapsed, globalVars, mapLock, threadVars,
                 crash>>

\* Faulty variant: every entry is taken for the one with the same key.
SameIdAny(g) == gwMap \ {g}

SameId(g) == {h \in gwMap : IdOf[h] = IdOf[g]}

\* Faulty variant: the replaced entry is freed without waiting for its count.
GatewayInsertNoWait ==
  /\ mpc = "insert"
  /\ gwMap' = (gwMap \ SameId(newGw)) \cup {newGw}
  /\ mpc' = "add" /\ newGw' = None
  /\ UNCHANGED <<todo, userMap, regVars, globalVars, mapLock, threadVars, crash>>

\* The insertion first removes an entry with the same user id, whose
\* destructor waits until nobody refers to it.
GatewayInsert ==
  /\ mpc = "insert"
  /\ \A h \in SameId(newGw) : refs[h] = 0
  /\ gwMap' = (gwMap \ SameId(newGw)) \cup {newGw}
  /\ mpc' = "add" /\ newGw' = None
  /\ UNCHANGED <<todo, userMap, regVars, globalVars, mapLock, threadVars, crash>>

\* No memory for the entry, but the old one is gone: the UA is destroyed.
GatewayInsertFail ==
  /\ mpc = "insert"
  /\ \A h \in SameId(newGw) : refs[h] = 0
  /\ gwMap' = gwMap \ SameId(newGw)
  /\ uas' = uas \ {newGw} /\ tagged' = tagged \ {newGw}
  /\ refs' = [refs EXCEPT ![newGw] = 0]
  /\ mpc' = "add" /\ newGw' = None
  /\ UNCHANGED <<todo, userMap, lost, lapsed, globalVars, mapLock, threadVars,
                 crash>>

\* The SIP stack or the thread cannot be started: main gives up.
StartFail ==
  /\ mpc = "add" /\ todo \in {Gateways, {}}
  /\ mpc' = "ended" /\ freed' = freed \cup {"global"}
  /\ UNCHANGED <<gwVars, userMap, regVars, ready, shutdown, threads, asleep,
                 mapLock, threadVars, crash>>

Launch ==
  /\ mpc = "add" /\ todo = {}
  /\ tpc' = "top" /\ threads' = threads + 1
  /\ mpc' = "launch"
  /\ UNCHANGED <<gwVars, userMap, regVars, ready, shutdown, freed, asleep,
                 mapLock, doomed, victim, crash>>

Ready ==
  /\ mpc = "launch"
  /\ ready' = TRUE /\ mpc' = "run"
  /\ UNCHANGED <<gwVars, userMap, regVars, shutdown, threads, freed, asleep,
                 mapLock, threadVars, crash>>

-----------------------------------------------------------------------------
\* The running service.

Register(u) ==
  /\ mpc = "run" /\ mapLock = "free" /\ u \notin userMap
  /\ userMap' = userMap \cup {u}
  /\ uas' = uas \cup {u} /\ tagged' = tagged \cup {u}
  /\ refs' = [refs EXCEPT ![u] = 1]
  /\ lost' = lost \ {u} /\ lapsed' = lapsed \ {u}
  /\ UNCHANGED <<mpc, gwVars, globalVars, mapLock, threadVars, crash>>

Refresh(u) ==
  /\ mpc = "run" /\ mapLock = "free" /\ u \in userMap
  /\ lapsed' = lapsed \ {u}
  /\ UNCHANGED <<mpc, gwVars, userMap, refs, lost, uas, tagged, globalVars,
                 mapLock, threadVars, crash>>

\* expires <= now becomes true.
Lapse(u) ==
  /\ mpc = "run" /\ u \in userMap
  /\ lapsed' = lapsed \cup {u}
  /\ UNCHANGED <<mpc, gwVars, userMap, refs, lost, uas, tagged, globalVars,
                 mapLock, threadVars, crash>>

\* A call to the user or through the gateway cannot be set up: the bridge
\* leaves without giving its reference back.
BridgeFail(r) ==
  /\ mpc = "run" /\ r \in gwMap \cup userMap /\ r \notin lost
  /\ r \in Users => mapLock = "free"
  /\ refs' = [refs EXCEPT ![r] = @ + 1]
  /\ lost' = lost \cup {r}
  /\ UNCHANGED <<mpc, gwVars, userMap, uas, tagged, lapsed, globalVars,
                 mapLock, threadVars, crash>>

-----------------------------------------------------------------------------
\* The stop.

Shutdown ==
  /\ mpc = "run"
  /\ ready' = FALSE /\ shutdown' = TRUE
  /\ asleep' = (tpc = "top")
  /\ mpc' = "stopUas"
  /\ UNCHANGED <<gwVars, userMap, regVars, threads, freed, mapLock, threadVars,
                 crash>>

\* The thread is inside ua_destroy, so main must not touch any UA.
Racing == tpc = "destroy"

RaceOnUa ==
  /\ crash' = "ua"
  /\ UNCHANGED <<mpc, gwVars, userMap, regVars, globalVars, mapLock, threadVars>>

\* Faulty variant: the user data is not destroyed with its UA.
StopUaLeaksData(r) ==
  /\ mpc = "stopUas" /\ r \in uas /\ ~ (Racing /\ victim = r)
  /\ uas' = uas \ {r}
  /\ UNCHANGED <<mpc, gwVars, userMap, refs, lost, tagged, lapsed, globalVars,
                 mapLock, threadVars, crash>>

\* ua_destroy of one UA, without baresip_mutex.  The user data goes with it
\* and gives its reference back.
StopUa(r) ==
  /\ mpc = "stopUas" /\ r \in uas /\ ~ (Racing /\ victim = r)
  /\ uas' = uas \ {r} /\ tagged' = tagged \ {r}
  /\ refs' = [refs EXCEPT ![r] = IF r \in tagged THEN @ - 1 ELSE @]
  /\ UNCHANGED <<mpc, gwVars, userMap, lost, lapsed, globalVars, mapLock,
                 threadVars, crash>>

\* Neither thread waits for the other, and the list of UAs is torn.
StopUaRace == mpc = "stopUas" /\ uas # {} /\ Racing /\ RaceOnUa

UasStopped ==
  /\ mpc = "stopUas" /\ uas = {}
  /\ mpc' = "lockUsers"
  /\ UNCHANGED <<gwVars, userMap, regVars, globalVars, mapLock, threadVars,
                 crash>>

LockUsers ==
  /\ mpc = "lockUsers" /\ mapLock = "free"
  /\ mapLock' = "main" /\ mpc' = "freeUsers"
  /\ UNCHANGED <<gwVars, userMap, regVars, globalVars, threadVars, crash>>

\* The destructor of the map runs that of every entry, which waits.
FreeUser(u) ==
  /\ mpc = "freeUsers" /\ u \in userMap /\ refs[u] = 0
  /\ userMap' = userMap \ {u}
  /\ UNCHANGED <<mpc, gwVars, regVars, globalVars, mapLock, threadVars, crash>>

UsersFreed ==
  /\ mpc = "freeUsers" /\ userMap = {}
  /\ freed' = freed \cup {"users"}
  /\ mapLock' = "free" /\ mpc' = "freeGws"
  /\ UNCHANGED <<gwVars, userMap, regVars, ready, shutdown, threads, asleep,
                 threadVars, crash>>

FreeGw(g) ==
  /\ mpc = "freeGws" /\ g \in gwMap /\ refs[g] = 0
  /\ gwMap' = gwMap \ {g}
  /\ UNCHANGED <<mpc, todo, newGw, userMap, regVars, globalVars, mapLock,
                 threadVars, crash>>

GwsFreed ==
  /\ mpc = "freeGws" /\ gwMap = {}
  /\ mpc' = "freeMutexes"
  /\ UNCHANGED <<gwVars, userMap, regVars, globalVars, mapLock, threadVars,
                 crash>>

FreeMutexes ==
  /\ mpc = "freeMutexes"
  /\ freed' = freed \cup {"mutexes"} /\ mpc' = "wait"
  /\ UNCHANGED <<gwVars, userMap, regVars, ready, shutdown, threads, asleep,
                 mapLock, threadVars, crash>>

\* Faulty variant: main does not wait for the thread.
FreeGlobalAtOnce ==
  /\ mpc = "wait"
  /\ freed' = freed \cup {"global"} /\ mpc' = "ended"
  /\ UNCHANGED <<gwVars, userMap, regVars, ready, shutdown, threads, asleep,
                 mapLock, threadVars, crash>>

\* main polls the counter once a second.
FreeGlobal ==
  /\ mpc = "wait" /\ threads = 0
  /\ freed' = freed \cup {"global"} /\ mpc' = "ended"
  /\ UNCHANGED <<gwVars, userMap, regVars, ready, shutdown, threads, asleep,
                 mapLock, threadVars, crash>>

-----------------------------------------------------------------------------
\* The maintenance thread.

\* The thread at control point pc uses x, and goes on unless x is freed.
Uses(x, ok) == IF x \in freed THEN crash' = x /\ UNCHANGED <<tpc, doomed, mapLock>>
                              ELSE ok /\ UNCHANGED crash

\* Faulty variant: the thread goes on while the service is ready or stopping.
ThreadWakeLate ==
  /\ tpc = "top" /\ (ready \/ shutdown)
  /\ Uses("global", tpc' = "empty" /\ UNCHANGED <<doomed, mapLock>>)
  /\ UNCHANGED <<mpc, gwVars, userMap, regVars, globalVars, victim>>

\* A second has passed: the flags, and the timer, are looked at.
ThreadWake ==
  /\ tpc = "top" /\ (ready \/ shutdown)
  /\ Uses("global", /\ tpc' = IF shutdown THEN "finish" ELSE "empty"
                    /\ UNCHANGED <<doomed, mapLock>>)
  /\ UNCHANGED <<mpc, gwVars, userMap, regVars, globalVars, victim>>

\* The emptiness of the map is looked at without its mutex.
ThreadEmpty ==
  /\ tpc = "empty"
  /\ Uses("users", /\ tpc' = IF userMap = {} THEN "top" ELSE "lock"
                   /\ UNCHANGED <<doomed, mapLock>>)
  /\ UNCHANGED <<mpc, gwVars, userMap, regVars, globalVars, victim>>

ThreadLock ==
  /\ tpc = "lock" /\ (mapLock = "free" \/ "mutexes" \in freed)
  /\ IF "mutexes" \in freed
     THEN crash' = "mutexes" /\ UNCHANGED <<tpc, doomed, mapLock>>
     ELSE Uses("users", /\ mapLock' = "thread" /\ tpc' = "next"
                        /\ doomed' = userMap \cap lapsed)
  /\ UNCHANGED <<mpc, gwVars, userMap, regVars, globalVars, victim>>

\* ua_destroy of the next registration on the list.
ThreadDestroy(u) ==
  /\ tpc = "next" /\ u \in doomed /\ u \in uas
  /\ tpc' = "destroy" /\ doomed' = doomed \ {u} /\ victim' = u
  /\ UNCHANGED <<mpc, gwVars, userMap, regVars, globalVars, mapLock, crash>>

\* The stop destroys the UAs too, or has done so already.
ThreadDestroyRace == tpc = "next" /\ doomed # {} /\ mpc \in StopPcs /\ RaceOnUa

ThreadDestroyed ==
  /\ tpc = "destroy"
  /\ tpc' = "delete"
  /\ uas' = uas \ {victim} /\ tagged' = tagged \ {victim}
  /\ refs' = [refs EXCEPT ![victim] = @ - 1]
  /\ UNCHANGED <<mpc, gwVars, userMap, lost, lapsed, globalVars, mapLock,
                 doomed, victim, crash>>

\* The destructor waits for the counter, under the mutex of the map.
ThreadDelete ==
  /\ tpc = "delete" /\ refs[victim] = 0
  /\ userMap' = userMap \ {victim}
  /\ tpc' = "next" /\ victim' = None
  /\ UNCHANGED <<mpc, gwVars, regVars, globalVars, mapLock, doomed, crash>>

ThreadSwept ==
  /\ tpc = "next" /\ doomed = {}
  /\ tpc' = "top" /\ mapLock' = "free"
  /\ UNCHANGED <<mpc, gwVars, userMap, regVars, globalVars, doomed, victim,
                 crash>>

\* empbx_thread_finished: the counter falls under the mutex of global ...
ThreadFinish ==
  /\ tpc = "finish"
  /\ tpc' = "unlock" /\ threads' = threads - 1
  /\ UNCHANGED <<mpc, gwVars, userMap, regVars, ready, shutdown, freed, asleep,
                 mapLock, doomed, victim, crash>>

\* ... which is then unlocked.
ThreadEnd ==
  /\ tpc = "unlock"
  /\ Uses("global", tpc' = "ended" /\ UNCHANGED <<doomed, mapLock>>)
  /\ UNCHANGED <<mpc, gwVars, userMap, regVars, globalVars, victim>>

-----------------------------------------------------------------------------
MainStep ==
  \/ \E g \in Gateways : GatewayFail(g) \/ GatewayUa(g) \/ FreeGw(g)
  \/ GatewayInsert \/ GatewayInsertFail \/ StartFail \/ Launch \/ Ready
  \/ \E r \in Regs : StopUa(r)
  \/ StopUaRace
  \/ \E u \in Users : FreeUser(u)
  \/ UasStopped \/ LockUsers \/ UsersFreed \/ GwsFreed \/ FreeMutexes
  \/ FreeGlobal

ThreadStep ==
  \/ ThreadWake \/ ThreadEmpty \/ ThreadLock \/ ThreadDestroyed \/ ThreadDelete
  \/ ThreadSwept \/ ThreadFinish \/ ThreadEnd
  \/ ThreadDestroyRace
  \/ \E u \in Users : ThreadDestroy(u)

Environment ==
  \/ Shutdown
  \/ \E u \in Users : Register(u) \/ Refresh(u) \/ Lapse(u)
  \/ \E r \in Regs : BridgeFail(r)

Next == crash = "no" /\ (MainStep \/ ThreadStep \/ Environment)

Spec == Init /\ [][Next]_vars

\* Both threads are scheduled.  Weak fairness is enough: once the flag is up
\* the thread takes the mutex of the map at most once more.
FairSpec == Spec /\ WF_vars(crash = "no" /\ MainStep)
                 /\ WF_vars(crash = "no" /\ ThreadStep)

-----------------------------------------------------------------------------
\* Properties.

\* What the user data of a UA points to has not been freed: no gateway is
\* replaced, and no registration deleted, under a UA that still names it.
UaDataLive == tagged \subseteq gwMap \cup userMap \cup {newGw}

\* If the thread slept when the stop began, the order of the stop (UAs, maps,
\* mutexes, and only then the wait for the thread) does no harm but to the
\* unlock of the mutex of global, the last thing the thread does.
CleanIfAsleep == asleep => crash \in {"no", "global"}

\* global is freed only when the thread has nothing left to do but to unlock
\* the mutex of global.
GlobalOutlivesThread == "global" \in freed => tpc \in {"none", "unlock", "ended"}

\* main waits for the termination of the threads before it ends.
WaitsForThread == mpc = "ended" => tpc \in {"none", "ended"}

\* The start ends, unless two gateways share a user id: the second waits, in
\* the destructor of the first, for the reference of the first one's UA.
StartEnds ==
  (mpc \in {"add", "insert"}) ~>
    \/ mpc \in {"launch", "run", "ended"}
    \/ mpc = "insert" /\ \E h \in gwMap : IdOf[h] = IdOf[newGw] /\ h \in tagged

\* A stop ends when no reference was lost and nothing freed was used.
StopEnds ==
  (mpc \in StopPcs /\ lost = {}) ~> (mpc = "ended" \/ crash # "no")
=============================================================================
