--------------------------- MODULE LifecycleProofs ---------------------------
(***************************************************************************)
(* Proofs about the life of the service, and about the configuration it is *)
(* started with.                                                           *)
(*                                                                         *)
(* A counter is exact: one for the user data of the UA, one if a call lost *)
(* a reference.  So what is freed with a counter of 0 has no user data     *)
(* left.  The rest is about who runs: before the launch there is no thread *)
(* and nothing is lost or freed, the counter main polls tells whether the  *)
(* thread has finished, and a thread that slept when the stop began goes   *)
(* straight to its end.                                                    *)
(*                                                                         *)
(* While the configuration is read, its maps and lists are at any time     *)
(* what the entries read so far say, and the shared buffer holds what came *)
(* of the one gateway, or of the settings, that is being read.             *)
(***************************************************************************)
EXTENDS Lifecycle, Config, SequenceTheorems, FiniteSetTheorems, WellFoundedInduction, TLAPS

RefsInv ==
  \A r \in Regs : refs[r] = (IF r \in tagged THEN 1 ELSE 0)
                          + (IF r \in lost THEN 1 ELSE 0)

StartInv ==
  /\ mpc \in {"add", "insert"} =>
       /\ todo \cap uas = {} /\ lost = {} /\ freed = {}
       /\ tpc = "none" /\ ~ asleep
  /\ mpc = "add" => newGw = None
  /\ mpc = "insert" => newGw \in Gateways \ todo

ThreadInv ==
  /\ threads = IF tpc \in {"none", "unlock", "ended"} THEN 0 ELSE 1
  /\ tpc = "destroy" => victim \in uas
  /\ tpc \in {"destroy", "delete"} => victim \in Users
  /\ uas \cap Users \subseteq tagged

AsleepInv ==
  asleep => /\ mpc \in StopPcs /\ shutdown
            /\ tpc \in {"top", "finish", "unlock", "ended"}
            /\ crash \in {"no", "global"}

IInv == /\ TypeOK /\ RefsInv /\ UaDataLive /\ StartInv /\ ThreadInv
        /\ AsleepInv /\ GlobalOutlivesThread

-----------------------------------------------------------------------------
\* Initially nothing is registered and there is no thread.
LEMMA InitIInv == Init => IInv
<1> SUFFICES ASSUME Init PROVE IInv
  OBVIOUS
<1> USE DEF Init
<1>1. TypeOK
  BY DEF TypeOK
<1>2. RefsInv
  BY DEF RefsInv
<1>3. UaDataLive /\ StartInv /\ ThreadInv /\ AsleepInv /\ GlobalOutlivesThread
  BY DEF UaDataLive, StartInv, ThreadInv, AsleepInv, GlobalOutlivesThread
<1> QED
  BY <1>1, <1>2, <1>3 DEF IInv

\* What main does in the start and in the stop.
LEMMA MainIInv ==
  ASSUME IInv, crash = "no", MainStep
  PROVE  IInv'
<1> USE LifecycleAssumption
<1> USE DEF IInv, TypeOK, RefsInv, UaDataLive, StartInv, ThreadInv, AsleepInv,
            GlobalOutlivesThread, StopPcs, Regs, gwVars, regVars, globalVars,
            threadVars
<1>1. ASSUME NEW g \in Gateways, GatewayFail(g) PROVE IInv'
  BY <1>1 DEF GatewayFail
<1>2. ASSUME NEW g \in Gateways, GatewayUa(g) PROVE IInv'
  BY <1>2 DEF GatewayUa
<1>3. ASSUME NEW g \in Gateways, FreeGw(g) PROVE IInv'
  BY <1>3 DEF FreeGw
<1>4. CASE GatewayInsert
  BY <1>4 DEF GatewayInsert, SameId
<1>5. CASE GatewayInsertFail
  BY <1>5 DEF GatewayInsertFail, SameId
<1>6. CASE StartFail
  BY <1>6 DEF StartFail
<1>7. CASE Launch
  BY <1>7 DEF Launch
<1>8. CASE Ready
  BY <1>8 DEF Ready
<1>9. ASSUME NEW r \in Regs, StopUa(r) PROVE IInv'
  BY <1>9 DEF StopUa, Racing
<1>10. CASE StopUaRace
  BY <1>10 DEF StopUaRace, Racing, RaceOnUa
<1>11. ASSUME NEW u \in Users, FreeUser(u) PROVE IInv'
  BY <1>11 DEF FreeUser
<1>12. CASE UasStopped
  BY <1>12 DEF UasStopped
<1>13. CASE LockUsers
  BY <1>13 DEF LockUsers
<1>14. CASE UsersFreed
  BY <1>14 DEF UsersFreed
<1>15. CASE GwsFreed
  BY <1>15 DEF GwsFreed
<1>16. CASE FreeMutexes
  BY <1>16 DEF FreeMutexes
<1>17. CASE FreeGlobal
  BY <1>17 DEF FreeGlobal
<1> QED
  BY <1>1, <1>2, <1>3, <1>4, <1>5, <1>6, <1>7, <1>8, <1>9, <1>10, <1>11,
     <1>12, <1>13, <1>14, <1>15, <1>16, <1>17 DEF MainStep

\* What the maintenance thread does.
LEMMA ThreadIInv ==
  ASSUME IInv, crash = "no", ThreadStep
  PROVE  IInv'
<1> USE LifecycleAssumption
<1> USE DEF IInv, TypeOK, RefsInv, UaDataLive, StartInv, ThreadInv, AsleepInv,
            GlobalOutlivesThread, StopPcs, Regs, gwVars, regVars, globalVars,
            threadVars
<1>1. CASE ThreadWake
  BY <1>1 DEF ThreadWake, Uses
<1>2. CASE ThreadEmpty
  BY <1>2 DEF ThreadEmpty, Uses
<1>3. CASE ThreadLock
  BY <1>3 DEF ThreadLock, Uses
<1>4. CASE ThreadDestroyed
  BY <1>4 DEF ThreadDestroyed
<1>5. CASE ThreadDelete
  BY <1>5 DEF ThreadDelete
<1>6. CASE ThreadSwept
  BY <1>6 DEF ThreadSwept
<1>7. CASE ThreadFinish
  BY <1>7 DEF ThreadFinish
<1>8. CASE ThreadEnd
  BY <1>8 DEF ThreadEnd, Uses
<1>9. CASE ThreadDestroyRace
  BY <1>9 DEF ThreadDestroyRace, RaceOnUa
<1>10. ASSUME NEW u \in Users, ThreadDestroy(u) PROVE IInv'
  BY <1>10 DEF ThreadDestroy
<1> QED
  BY <1>1, <1>2, <1>3, <1>4, <1>5, <1>6, <1>7, <1>8, <1>9, <1>10 DEF ThreadStep

\* Requests, time and the signal to stop.
LEMMA EnvIInv ==
  ASSUME IInv, crash = "no", Environment
  PROVE  IInv'
<1> USE LifecycleAssumption
<1> USE DEF IInv, TypeOK, RefsInv, UaDataLive, StartInv, ThreadInv, AsleepInv,
            GlobalOutlivesThread, StopPcs, Regs, gwVars, regVars, globalVars,
            threadVars
<1>1. CASE Shutdown
  BY <1>1 DEF Shutdown
<1>2. ASSUME NEW u \in Users, Register(u) PROVE IInv'
  BY <1>2 DEF Register
<1>3. ASSUME NEW u \in Users, Refresh(u) PROVE IInv'
  BY <1>3 DEF Refresh
<1>4. ASSUME NEW u \in Users, Lapse(u) PROVE IInv'
  BY <1>4 DEF Lapse
<1>5. ASSUME NEW r \in Regs, BridgeFail(r) PROVE IInv'
  BY <1>5 DEF BridgeFail
<1> QED
  BY <1>1, <1>2, <1>3, <1>4, <1>5 DEF Environment

LEMMA StutterIInv == IInv /\ UNCHANGED vars => IInv'
BY DEF IInv, TypeOK, RefsInv, UaDataLive, StartInv, ThreadInv, AsleepInv,
       GlobalOutlivesThread, StopPcs, Regs, gwVars, regVars, globalVars,
       threadVars, vars

LEMMA SpecIInv == Spec => []IInv
<1>1. IInv /\ [Next]_vars => IInv'
  BY MainIInv, ThreadIInv, EnvIInv, StutterIInv DEF Next
<1> QED
  BY InitIInv, <1>1, PTL DEF Spec

-----------------------------------------------------------------------------
\* The variables of the service always have their types.
THEOREM TypeCorrect == Spec => []TypeOK
<1>1. IInv => TypeOK
  BY DEF IInv
<1> QED
  BY SpecIInv, <1>1, PTL

\* The user data of a UA never points to a freed gateway or registration: a
\* destructor that has waited for the counter leaves no UA behind.
THEOREM UaDataPointsToLive == Spec => []UaDataLive
<1>1. IInv => UaDataLive
  BY DEF IInv
<1> QED
  BY SpecIInv, <1>1, PTL

\* A stop that begins while the thread sleeps frees nothing the thread still
\* uses, but for the mutex that the thread unlocks last.
THEOREM SleepingThreadIsSafe == Spec => []CleanIfAsleep
<1>1. IInv => CleanIfAsleep
  BY DEF IInv, AsleepInv, CleanIfAsleep
<1> QED
  BY SpecIInv, <1>1, PTL

\* main frees global only after the thread has counted itself out.
THEOREM GlobalFreedLast == Spec => []GlobalOutlivesThread
<1>1. IInv => GlobalOutlivesThread
  BY DEF IInv
<1> QED
  BY SpecIInv, <1>1, PTL

-----------------------------------------------------------------------------
\* Nothing is listed in the empty sequence.
LEMMA ListedNone ==
  ASSUME NEW f, DOMAIN f = {}
  PROVE  Listed(<<>>, f)
  BY FS_EmptySet DEF Listed

UpTo(places, i) == {j \in places : j <= i}

\* A value added at the end is listed at a place behind the others.
LEMMA ListedMore ==
  ASSUME NEW T, NEW seq \in Seq(T), NEW x \in T, NEW f, NEW h, NEW n \in Nat,
         DOMAIN f \subseteq 1 .. n, Listed(seq, f),
         DOMAIN h = DOMAIN f \cup {n + 1}, h[n + 1] = x,
         \A i \in DOMAIN f : h[i] = f[i]
  PROVE  Listed(Append(seq, x), h)
<1>1. /\ Append(seq, x) \in Seq(T) /\ Len(Append(seq, x)) = Len(seq) + 1
      /\ \A i \in 1 .. Len(seq) : Append(seq, x)[i] = seq[i]
      /\ Append(seq, x)[Len(seq) + 1] = x
  BY AppendProperties
<1>2. IsFiniteSet(DOMAIN f) /\ n + 1 \notin DOMAIN f
  <2>1. IsFiniteSet(1 .. n)
    BY FS_Interval
  <2>2. IsFiniteSet(DOMAIN f)
    BY <2>1, FS_Subset
  <2> QED
    BY <2>2
<1>3. Len(seq) = Cardinality(DOMAIN f) /\ Cardinality(DOMAIN h) = Len(seq) + 1
  <2>1. Cardinality(DOMAIN f \cup {n + 1}) = Cardinality(DOMAIN f) + 1
    BY <1>2, FS_AddElement
  <2>2. Len(seq) = Cardinality(DOMAIN f)
    BY DEF Listed
  <2> QED
    BY <2>1, <2>2
<1>4. ASSUME NEW i \in DOMAIN h
      PROVE  Append(seq, x)[Cardinality(UpTo(DOMAIN h, i))] = h[i]
  <2>1. CASE i = n + 1
    <3>1. \A j \in DOMAIN h : j <= i
      BY <2>1
    <3>2. UpTo(DOMAIN h, i) = DOMAIN h
      BY <3>1 DEF UpTo
    <3> QED
      BY <1>1, <1>3, <2>1, <3>2
  <2>2. CASE i \in DOMAIN f
    <3>1. UpTo(DOMAIN h, i) = UpTo(DOMAIN f, i)
      BY <2>2 DEF UpTo
    <3>2. UpTo(DOMAIN f, i) \subseteq DOMAIN f /\ i \in UpTo(DOMAIN f, i)
      BY <2>2 DEF UpTo
    <3>3. /\ IsFiniteSet(UpTo(DOMAIN f, i))
          /\ Cardinality(UpTo(DOMAIN f, i)) <= Len(seq)
      BY <1>2, <1>3, <3>2, FS_Subset
    <3>4. Cardinality(UpTo(DOMAIN f, i)) \in 1 .. Len(seq)
      BY <3>2, <3>3, FS_EmptySet, FS_CardinalityType
    <3>5. seq[Cardinality(UpTo(DOMAIN f, i))] = f[i]
      BY <2>2 DEF Listed, UpTo
    <3> QED
      BY <1>1, <2>2, <3>1, <3>4, <3>5
  <2> QED
    BY <2>1, <2>2
<1> QED
  BY <1>1, <1>3, <1>4 DEF Listed, UpTo

\* What is listed depends on the places and their values only.
LEMMA ListedSame ==
  ASSUME NEW seq, NEW f, NEW h, Listed(seq, f), DOMAIN h = DOMAIN f,
         \A i \in DOMAIN f : h[i] = f[i]
  PROVE  Listed(seq, h)
  BY DEF Listed

\* A set of natural numbers that is not empty has a least element.
LEMMA LeastPlace ==
  ASSUME NEW S \in SUBSET Nat, S # {}
  PROVE  Min(S) \in S /\ \A i \in S : Min(S) <= i
<1>1. \E x \in S : \A y \in S : ~(<<y, x>> \in OpToRel(<, Nat))
  BY WFMin, Zenon, NatLessThanWellFounded
<1>2. PICK x \in S : \A y \in S : x \in Nat /\ y \in Nat /\ ~(y < x)
  BY <1>1, Zenon DEF OpToRel
<1>3. \A y \in S : x <= y
  BY <1>2
<1> QED
  BY <1>2, <1>3 DEF Min

\* It stays the least when a greater one comes in.
LEMMA LeastStays ==
  ASSUME NEW S \in SUBSET Nat, NEW n \in Nat, \A i \in S : i < n
  PROVE  Min(S \cup {n}) = IF S = {} THEN n ELSE Min(S)
<1>1. Min(S \cup {n}) \in S \cup {n} /\ \A i \in S \cup {n} : Min(S \cup {n}) <= i
  BY LeastPlace
<1>2. CASE S = {}
  BY <1>1, <1>2
<1>3. CASE S # {}
  <2>1. Min(S) \in S /\ \A i \in S : Min(S) <= i
    BY <1>3, LeastPlace
  <2>2. Min(S \cup {n}) \in Nat /\ Min(S) \in Nat
    BY <1>1, <2>1
  <2> QED
    BY <1>1, <1>3, <2>1, <2>2
<1> QED
  BY <1>2, <1>3

-----------------------------------------------------------------------------
\* A gateway is begun only when there is room for its entry.
RoomInv == gateway # Nil => Len(file) < MaxEntries

\* One more entry in the file.
LEMMA Grown ==
  ASSUME NEW T, NEW old \in Seq(T), NEW x \in T, NEW new, new = Append(old, x)
  PROVE  /\ new \in Seq(T) /\ Len(old) \in Nat /\ Len(new) = Len(old) + 1
         /\ DOMAIN old = 1 .. Len(old) /\ DOMAIN new = DOMAIN old \cup {Len(old) + 1}
         /\ Len(old) + 1 \notin DOMAIN old
         /\ new[Len(old) + 1] = x /\ \A i \in DOMAIN old : new[i] = old[i]
<1>1. /\ new \in Seq(T) /\ Len(new) = Len(old) + 1
      /\ \A i \in 1 .. Len(old) : new[i] = old[i]
      /\ new[Len(old) + 1] = x
  BY AppendProperties
<1>2. Len(old) \in Nat /\ DOMAIN old = 1 .. Len(old) /\ DOMAIN new = 1 .. Len(new)
  BY <1>1
<1> QED
  BY <1>1, <1>2

\* The entries are of their kinds.
LEMMA EntryTypes ==
  /\ \A v \in OrNil : [in |-> "core-settings", entry |-> v] \in FileEntry
  /\ \A id \in UserIds \cup {Nil}, v \in OrNil :
        [in |-> "users", entry |-> [id |-> id, password |-> v]] \in FileEntry
  /\ \A e \in GatewayEntry : [in |-> "gateways", entry |-> e] \in FileEntry
  /\ \A r \in Rules : [in |-> "dialplan", entry |-> r] \in FileEntry
  /\ \A n \in Settings, v \in OrNil :
        [in |-> "settings", entry |-> [name |-> n, val |-> v]] \in FileEntry
  BY DEF FileEntry

\* The account is made of options.
LEMMA AccountType ==
  ASSUME NEW k \in [Known -> OrNil]
  PROVE  account(k) \in Seq(Option)
<1>1. \A n \in {"user", "host", "transport", "auth_user", "auth_pass"}, v \in OrNil :
        piece(n, v) \in Seq(Option)
  <2> SUFFICES ASSUME NEW n \in {"user", "host", "transport", "auth_user", "auth_pass"},
                      NEW v \in OrNil, ~zstr(v)
               PROVE  piece(n, v) \in Seq(Option)
    BY DEF piece
  <2>1. n \in OptNames /\ v \in Vals \cup {Empty}
    BY DEF OptNames, OrNil, zstr
  <2>2. [name |-> n, val |-> v] \in Option
    BY <2>1 DEF Option
  <2> QED
    BY <2>2 DEF piece
<1>2. \A n \in Known : k[n] \in OrNil
  OBVIOUS
<1>3. /\ "username" \in Known /\ "password" \in Known
      /\ "domain" \in Known /\ "transport" \in Known
  BY DEF Known
<1> DEFINE a == piece("user", k["username"])
           b == piece("host", k["domain"])
           c == piece("transport", k["transport"])
           d == piece("auth_user", k["username"])
           e == piece("auth_pass", k["password"])
<1>4. /\ a \in Seq(Option) /\ b \in Seq(Option) /\ c \in Seq(Option)
      /\ d \in Seq(Option) /\ e \in Seq(Option)
  BY <1>1, <1>2, <1>3
<1>5. account(k) = a \o b \o c \o d \o e
  BY DEF account
<1> HIDE DEF a, b, c, d, e
<1> QED
  BY <1>4, <1>5, ConcatProperties

LEMMA ConfigInitTypes == ConfigInit => ConfigTypeOK /\ RoomInv
<1> SUFFICES ASSUME ConfigInit PROVE ConfigTypeOK /\ RoomInv
  OBVIOUS
<1>1. Nothing \in [Known -> OrNil]
  BY DEF Nothing, OrNil
<1>2. /\ users_map \in [UserIds -> {Nil} \cup UserConf]
      /\ gateways_map \in [GatewayNames -> {Nil} \cup GatewayConf]
      /\ sip_debug \in BOOLEAN
  BY DEF ConfigInit
<1>3. /\ dialplan_rules = <<>> /\ tmp_mbuf = <<>> /\ file = <<>> /\ gateway = Nil
      /\ forgotten = 0 /\ section = "core-settings" /\ known = Nothing
      /\ instance_id = Nil /\ sip_server_ident = Nil /\ bsip_config = Nil
  BY DEF ConfigInit
<1>4. Len(file) = 0 /\ MaxEntries \in Nat /\ MaxLost \in Nat
  BY <1>3, ConfigAssumption
<1> QED
  BY <1>1, <1>2, <1>3, <1>4 DEF ConfigTypeOK, RoomInv, OrNil

\* What a copy may be, and that a lost one is counted.
LEMMA CopiedFacts ==
  ASSUME ConfigTypeOK, NEW v \in OrNil, NEW w \in OrNil, Copied(v, w)
  PROVE  /\ forgotten' \in 0 .. MaxLost /\ forgotten <= forgotten'
         /\ forgotten' = 0 => forgotten = 0 /\ w = v
         /\ w = v \/ (w = Nil /\ forgotten' > 0)
  BY ConfigAssumption DEF Copied, ConfigTypeOK

\* Every entry adds one to the file, and there was room for it.
LEMMA EntryFacts ==
  ASSUME ConfigTypeOK, NEW s, NEW e, Entry(s, e), [in |-> s, entry |-> e] \in FileEntry
  PROVE  /\ section = s /\ gateway = Nil
         /\ file' \in Seq(FileEntry) /\ Len(file') = Len(file) + 1 /\ Len(file') <= MaxEntries
         /\ Len(file) \in Nat /\ DOMAIN file = 1 .. Len(file)
         /\ DOMAIN file' = DOMAIN file \cup {Len(file) + 1} /\ Len(file) + 1 \notin DOMAIN file
         /\ file'[Len(file) + 1] = [in |-> s, entry |-> e]
         /\ \A i \in DOMAIN file : file'[i] = file[i]
<1> DEFINE x == [in |-> s, entry |-> e]
<1>1. file \in Seq(FileEntry) /\ file' = Append(file, x) /\ x \in FileEntry
      /\ section = s /\ gateway = Nil /\ Len(file) < MaxEntries
  BY DEF ConfigTypeOK, Entry
<1>2. MaxEntries \in Nat
  BY ConfigAssumption
<1> HIDE DEF x
<1>3. /\ file' \in Seq(FileEntry) /\ Len(file) \in Nat /\ Len(file') = Len(file) + 1
      /\ DOMAIN file = 1 .. Len(file) /\ DOMAIN file' = DOMAIN file \cup {Len(file) + 1}
      /\ Len(file) + 1 \notin DOMAIN file
      /\ file'[Len(file) + 1] = x /\ \A i \in DOMAIN file : file'[i] = file[i]
  BY <1>1, Grown
<1> QED
  BY <1>1, <1>2, <1>3 DEF x

\* The parts of ConfigTypeOK that most steps leave alone.
MapsOK ==
  /\ users_map \in [UserIds -> {Nil} \cup UserConf]
  /\ gateways_map \in [GatewayNames -> {Nil} \cup GatewayConf]
  /\ dialplan_rules \in Seq(RuleConf)
NamesOK ==
  /\ instance_id \in OrNil \cup {"0000"} /\ sip_server_ident \in OrNil
  /\ bsip_config \in {Nil} \cup Seq(Option) /\ sip_debug \in BOOLEAN
BuffersOK ==
  /\ gateway \in GatewayEntry \cup {Nil} /\ (gateway # Nil => section \in {"gateways", "failed"})
  /\ known \in [Known -> OrNil] /\ tmp_mbuf \in Seq(Option)
ReadOK ==
  /\ section \in {"core-settings", "users", "gateways", "dialplan", "settings", "loaded", "failed"}
  /\ forgotten \in 0 .. MaxLost
  /\ file \in Seq(FileEntry) /\ Len(file) <= MaxEntries
  /\ (section \notin {"core-settings", "failed"} => ~zstr(instance_id))
  /\ RoomInv

LEMMA TypeParts == ConfigTypeOK /\ RoomInv <=> MapsOK /\ NamesOK /\ BuffersOK /\ ReadOK
  BY DEF ConfigTypeOK, MapsOK, NamesOK, BuffersOK, ReadOK

LEMMA InstanceIdTypes ==
  ASSUME ConfigTypeOK, RoomInv, NEW v \in OrNil, InstanceId(v)
  PROVE  (ConfigTypeOK /\ RoomInv)'
<1>1. /\ section = "core-settings" /\ gateway = Nil
      /\ file' \in Seq(FileEntry) /\ Len(file') <= MaxEntries
  BY EntryFacts, EntryTypes DEF InstanceId
<1>2. forgotten' \in 0 .. MaxLost /\ instance_id' \in OrNil \cup {"0000"}
  <2>1. CASE zstr(instance_id)
    <3>1. PICK w \in OrNil :
             Copied(v, w) /\ instance_id' = (IF w = Nil THEN instance_id ELSE w)
      BY <2>1 DEF InstanceId
    <3> QED
      BY <3>1, CopiedFacts DEF ConfigTypeOK
  <2>2. CASE ~zstr(instance_id)
    BY <2>2 DEF InstanceId, ConfigTypeOK
  <2> QED
    BY <2>1, <2>2
<1>3. UNCHANGED <<section, users_map, gateways_map, dialplan_rules, sip_server_ident,
                  sip_debug, bsip_config, gateway, known, tmp_mbuf>>
  BY DEF InstanceId, buffers
<1>4. MapsOK' /\ NamesOK' /\ BuffersOK'
  BY <1>1, <1>2, <1>3 DEF ConfigTypeOK, MapsOK, NamesOK, BuffersOK
<1>5. ReadOK'
  BY <1>1, <1>2, <1>3 DEF ReadOK, RoomInv
<1> QED
  BY <1>4, <1>5, TypeParts, PTL

LEMMA UserTypes ==
  ASSUME ConfigTypeOK, RoomInv, NEW v \in OrNil, NEW id \in UserIds \cup {Nil}, User(id, v)
  PROVE  (ConfigTypeOK /\ RoomInv)'
<1>1. Entry("users", [id |-> id, password |-> v])
  BY DEF User
<1>2. /\ section = "users" /\ gateway = Nil
      /\ file' \in Seq(FileEntry) /\ Len(file') <= MaxEntries
  BY <1>1, EntryFacts, EntryTypes
<1>3. /\ forgotten' \in 0 .. MaxLost
      /\ users_map' \in [UserIds -> {Nil} \cup UserConf]
  <2>1. CASE id = Nil
    BY <2>1 DEF User, ConfigTypeOK
  <2>2. CASE id # Nil
    <3>1. PICK w \in OrNil :
             Copied(v, w) /\ users_map' = [users_map EXCEPT ![id] = [sip_password |-> w]]
      BY <2>2 DEF User
    <3>2. [sip_password |-> w] \in UserConf
      BY DEF UserConf
    <3>3. forgotten' \in 0 .. MaxLost
      BY <3>1, CopiedFacts
    <3>4. users_map \in [UserIds -> {Nil} \cup UserConf] /\ id \in UserIds
      BY <2>2 DEF ConfigTypeOK
    <3> HIDE DEF UserConf
    <3> QED
      BY <3>1, <3>2, <3>3, <3>4
  <2> QED
    BY <2>1, <2>2
<1>4. UNCHANGED <<section, gateways_map, dialplan_rules, instance_id, sip_server_ident,
                  sip_debug, bsip_config, gateway, known, tmp_mbuf>>
  BY DEF User, buffers
<1>5. MapsOK' /\ NamesOK' /\ BuffersOK'
  BY <1>2, <1>3, <1>4 DEF ConfigTypeOK, MapsOK, NamesOK, BuffersOK
<1>6. ReadOK'
  BY <1>2, <1>3, <1>4 DEF ConfigTypeOK, ReadOK, RoomInv, zstr
<1> QED
  BY <1>5, <1>6, TypeParts, PTL

LEMMA RuleTypes ==
  ASSUME ConfigTypeOK, RoomInv, NEW r \in Rules, Rule(r)
  PROVE  (ConfigTypeOK /\ RoomInv)'
<1>1. Entry("dialplan", r) /\ r.data \in OrNil
  BY ConfigAssumption DEF Rule
<1>2. /\ section = "dialplan" /\ gateway = Nil
      /\ file' \in Seq(FileEntry) /\ Len(file') <= MaxEntries
  BY <1>1, EntryFacts, EntryTypes
<1>3. forgotten' \in 0 .. MaxLost /\ dialplan_rules' \in Seq(RuleConf)
  <2>1. CASE zstr(r.name) \/ zstr(r.field) \/ zstr(r.app)
    BY <2>1 DEF Rule, ConfigTypeOK
  <2>2. CASE ~(zstr(r.name) \/ zstr(r.field) \/ zstr(r.app))
    <3>1. PICK w \in OrNil :
             Copied(r.data, w) /\ dialplan_rules' = Append(dialplan_rules, Holding(r, w))
      BY <2>2 DEF Rule
    <3>2. Holding(r, w) \in RuleConf
      BY DEF RuleConf
    <3>4. dialplan_rules \in Seq(RuleConf)
      BY DEF ConfigTypeOK
    <3>3. forgotten' \in 0 .. MaxLost
      BY <1>1, <3>1, CopiedFacts
    <3> QED
      BY <3>1, <3>2, <3>3, <3>4, AppendProperties
  <2> QED
    BY <2>1, <2>2
<1>4. UNCHANGED <<section, users_map, gateways_map, instance_id, sip_server_ident,
                  sip_debug, bsip_config, gateway, known, tmp_mbuf>>
  BY DEF Rule, buffers
<1>5. MapsOK' /\ NamesOK' /\ BuffersOK'
  BY <1>2, <1>3, <1>4 DEF ConfigTypeOK, MapsOK, NamesOK, BuffersOK
<1>6. ReadOK'
  BY <1>2, <1>3, <1>4 DEF ConfigTypeOK, ReadOK, RoomInv, zstr
<1> QED
  BY <1>5, <1>6, TypeParts, PTL

\* What goes into the buffer is an option.
LEMMA OptionType ==
  ASSUME NEW n \in OptNames, NEW v \in OrNil
  PROVE  [name |-> n, val |-> IF v = Nil THEN Empty ELSE v] \in Option
  BY DEF Option, OrNil

LEMMA OwnSettingTypes ==
  ASSUME ConfigTypeOK, RoomInv, NEW n \in Settings, NEW v \in OrNil, OwnSetting(n, v)
  PROVE  (ConfigTypeOK /\ RoomInv)'
<1>1. Entry("settings", [name |-> n, val |-> v])
  BY DEF OwnSetting
<1>2. /\ section = "settings" /\ gateway = Nil
      /\ file' \in Seq(FileEntry) /\ Len(file') <= MaxEntries
  BY <1>1, EntryFacts, EntryTypes
<1>3. forgotten' \in 0 .. MaxLost /\ sip_server_ident' \in OrNil
  <2>1. CASE n = "x_server_ident" /\ zstr(sip_server_ident)
    <3>1. PICK w \in OrNil :
             Copied(v, w) /\ sip_server_ident' = (IF w = Nil THEN sip_server_ident ELSE w)
      BY <2>1 DEF OwnSetting
    <3> QED
      BY <3>1, CopiedFacts DEF ConfigTypeOK
  <2>2. CASE ~(n = "x_server_ident" /\ zstr(sip_server_ident))
    BY <2>2 DEF OwnSetting, ConfigTypeOK
  <2> QED
    BY <2>1, <2>2
<1>4. sip_debug' \in BOOLEAN
  <2>1. sip_debug' = (IF n = "x_sip_debug" THEN v = "true" ELSE sip_debug)
    BY Zenon DEF OwnSetting
  <2>2. sip_debug \in BOOLEAN
    BY DEF ConfigTypeOK
  <2> QED
    BY <2>1, <2>2
<1>5. UNCHANGED <<section, users_map, gateways_map, dialplan_rules, instance_id,
                  bsip_config, gateway, known, tmp_mbuf>>
  BY DEF OwnSetting, buffers
<1>6. MapsOK' /\ NamesOK' /\ BuffersOK'
  BY <1>2, <1>3, <1>4, <1>5 DEF ConfigTypeOK, MapsOK, NamesOK, BuffersOK
<1>7. ReadOK'
  BY <1>2, <1>3, <1>5 DEF ConfigTypeOK, ReadOK, RoomInv, zstr
<1> QED
  BY <1>6, <1>7, TypeParts, PTL

LEMMA StackSettingTypes ==
  ASSUME ConfigTypeOK, RoomInv, NEW n \in Settings, NEW v \in OrNil, StackSetting(n, v)
  PROVE  (ConfigTypeOK /\ RoomInv)'
<1> DEFINE o == [name |-> n, val |-> IF v = Nil THEN Empty ELSE v]
<1>1. Entry("settings", [name |-> n, val |-> v])
  BY DEF StackSetting
<1>2. /\ section = "settings" /\ gateway = Nil
      /\ file' \in Seq(FileEntry) /\ Len(file') <= MaxEntries
  BY <1>1, EntryFacts, EntryTypes
<1>3. o \in Option
  BY OptionType DEF OptNames
<1>4. tmp_mbuf' = Append(tmp_mbuf, o) /\ tmp_mbuf \in Seq(Option)
  BY DEF StackSetting, ConfigTypeOK
<1>5. UNCHANGED <<section, globals, gateway, known, forgotten>>
  BY DEF StackSetting
<1> HIDE DEF o
<1>6. tmp_mbuf' \in Seq(Option)
  BY <1>3, <1>4, AppendProperties
<1>7. MapsOK' /\ NamesOK' /\ BuffersOK'
  BY <1>2, <1>5, <1>6 DEF ConfigTypeOK, MapsOK, NamesOK, BuffersOK, globals
<1>8. ReadOK'
  BY <1>2, <1>5 DEF ConfigTypeOK, ReadOK, RoomInv, zstr, globals
<1> QED
  BY <1>7, <1>8, TypeParts, PTL

-----------------------------------------------------------------------------
\* What follows a sequence, taken out and put in front of it.
LEMMA TakenOut ==
  ASSUME NEW T, NEW s \in Seq(T), NEW t \in Seq(T)
  PROVE  /\ s \o t \in Seq(T) /\ SubSeq(s \o t, Len(s) + 1, Len(s \o t)) = t
         /\ SubSeq(s \o t, 1, Len(s)) = s
<1> DEFINE b == s \o t
<1>1. /\ b \in Seq(T) /\ Len(b) = Len(s) + Len(t)
      /\ \A i \in 1 .. Len(s) : b[i] = s[i]
      /\ \A i \in 1 .. Len(t) : b[Len(s) + i] = t[i]
  BY ConcatProperties
<1>2. Len(s) \in Nat /\ Len(t) \in Nat
  OBVIOUS
<1>3. SubSeq(b, 1, Len(s)) = s
  BY SubSeqOfConcat1, SubSeqFull, <1>2
<1>4. SubSeq(b, Len(s) + 1, Len(b)) = SubSeq(t, 1, Len(t))
  <2>1. SubSeq(b, Len(s) + 1, Len(s) + Len(t)) = SubSeq(t, Len(s) + 1 - Len(s), Len(s) + Len(t) - Len(s))
    BY SubSeqOfConcat2, <1>2
  <2>2. Len(s) + 1 - Len(s) = 1 /\ Len(s) + Len(t) - Len(s) = Len(t)
    BY <1>2
  <2> QED
    BY <1>1, <2>1, <2>2
<1>5. SubSeq(t, 1, Len(t)) = t
  BY SubSeqFull
<1> QED
  BY <1>1, <1>3, <1>4, <1>5

LEMMA GatewayOpenTypes ==
  ASSUME ConfigTypeOK, RoomInv, NEW g \in GatewayNames \cup {Nil}, GatewayOpen(g)
  PROVE  (ConfigTypeOK /\ RoomInv)'
<1>1. gateway' \in GatewayEntry
  BY DEF GatewayOpen, GatewayEntry
<1>2. known' \in [Known -> OrNil] /\ tmp_mbuf' \in Seq(Option)
  BY DEF GatewayOpen, Nothing, OrNil
<1>3. /\ section = "gateways" /\ Len(file) < MaxEntries
      /\ UNCHANGED <<section, globals, forgotten, file>>
  BY DEF GatewayOpen
<1>4. MapsOK' /\ NamesOK'
  BY <1>3 DEF ConfigTypeOK, MapsOK, NamesOK, globals
<1>5. BuffersOK'
  BY <1>1, <1>2, <1>3 DEF BuffersOK
<1>6. ReadOK'
  BY <1>3 DEF ConfigTypeOK, ReadOK, RoomInv, zstr, globals
<1> QED
  BY <1>4, <1>5, <1>6, TypeParts, PTL

LEMMA GatewayParamTypes ==
  ASSUME ConfigTypeOK, RoomInv, NEW p \in Params, GatewayParam(p.name, p.val)
  PROVE  (ConfigTypeOK /\ RoomInv)'
<1> DEFINE n == p.name
           v == p.val
<1>1. p = [name |-> n, val |-> v] /\ v \in OrNil /\ n \in OptNames
  BY ConfigAssumption DEF OptNames
<1>2. /\ section = "gateways" /\ gateway # Nil /\ gateway \in GatewayEntry
      /\ gateway' = [gateway EXCEPT !.params = Append(@, p)]
      /\ UNCHANGED <<section, globals, file>>
  BY <1>1 DEF GatewayParam, ConfigTypeOK
<1>3. gateway' \in GatewayEntry
  <2>1. gateway.params \in Seq(Params)
    BY <1>2 DEF GatewayEntry
  <2>2. Append(gateway.params, p) \in Seq(Params)
    BY <2>1, AppendProperties
  <2> QED
    BY <1>2, <2>2 DEF GatewayEntry
<1>4. /\ known' \in [Known -> OrNil] /\ tmp_mbuf' \in Seq(Option)
      /\ forgotten' \in 0 .. MaxLost
  <2>1. CASE n \in Known
    <3>1. tmp_mbuf' \in Seq(Option)
      BY <2>1 DEF GatewayParam, ConfigTypeOK
    <3>2. CASE known[n] = Nil
      <4>1. PICK w \in OrNil : Copied(v, w) /\ known' = [known EXCEPT ![n] = w]
        BY <2>1, <3>2 DEF GatewayParam
      <4>2. forgotten' \in 0 .. MaxLost
        BY <1>1, <4>1, CopiedFacts
      <4>3. known' \in [Known -> OrNil]
        BY <4>1 DEF ConfigTypeOK
      <4> QED
        BY <3>1, <4>2, <4>3
    <3>3. CASE known[n] # Nil
      BY <2>1, <3>1, <3>3 DEF GatewayParam, ConfigTypeOK
    <3> QED
      BY <3>2, <3>3
  <2>2. CASE n \notin Known
    <3> DEFINE o == [name |-> n, val |-> IF v = Nil THEN Empty ELSE v]
    <3>1. o \in Option
      BY <1>1, OptionType
    <3>2. tmp_mbuf' = Append(tmp_mbuf, o) /\ UNCHANGED <<known, forgotten>>
      BY <2>2 DEF GatewayParam
    <3>3. tmp_mbuf \in Seq(Option) /\ known \in [Known -> OrNil] /\ forgotten \in 0 .. MaxLost
      BY DEF ConfigTypeOK
    <3> HIDE DEF o
    <3>4. tmp_mbuf' \in Seq(Option)
      BY <3>1, <3>2, <3>3, AppendProperties
    <3> QED
      BY <3>2, <3>3, <3>4
  <2> QED
    BY <2>1, <2>2
<1>5. MapsOK' /\ NamesOK'
  BY <1>2 DEF ConfigTypeOK, MapsOK, NamesOK, globals
<1>6. BuffersOK'
  BY <1>2, <1>3, <1>4 DEF BuffersOK
<1>7. ReadOK'
  BY <1>2, <1>4 DEF ConfigTypeOK, ReadOK, RoomInv, zstr, globals
<1> QED
  BY <1>5, <1>6, <1>7, TypeParts, PTL

\* The account goes in front of the options of the gateway.
LEMMA ClosedConfig ==
  ASSUME ConfigTypeOK, GatewayClose
  PROVE  /\ account(known) \in Seq(Option) /\ tmp_mbuf \in Seq(Option)
         /\ IF ~zstr(gateway.name) /\ ~zstr(known["username"]) /\ ~zstr(known["domain"])
            THEN /\ tmp_mbuf' \in Seq(Option)
                 /\ gateways_map' = [gateways_map EXCEPT ![gateway.name] =
                       [user_id |-> known["username"], realm |-> known["domain"],
                        config |-> account(known) \o tmp_mbuf]]
            ELSE UNCHANGED <<tmp_mbuf, gateways_map>>
<1>1. account(known) \in Seq(Option) /\ tmp_mbuf \in Seq(Option)
  BY AccountType DEF ConfigTypeOK
<1> DEFINE a == account(known)
           b == tmp_mbuf \o a
<1>2. /\ SubSeq(b, Len(tmp_mbuf) + 1, Len(b)) \o SubSeq(b, 1, Len(tmp_mbuf)) = a \o tmp_mbuf
      /\ b \in Seq(Option)
  <2> HIDE DEF a
  <2>1. a \in Seq(Option)
    BY <1>1 DEF a
  <2>2. /\ b \in Seq(Option) /\ SubSeq(b, Len(tmp_mbuf) + 1, Len(b)) = a
        /\ SubSeq(b, 1, Len(tmp_mbuf)) = tmp_mbuf
    BY <1>1, <2>1, TakenOut
  <2> QED
    BY <2>2, Zenon
<1>3. CASE ~zstr(gateway.name) /\ ~zstr(known["username"]) /\ ~zstr(known["domain"])
  BY <1>1, <1>2, <1>3 DEF GatewayClose
<1>4. CASE ~(~zstr(gateway.name) /\ ~zstr(known["username"]) /\ ~zstr(known["domain"]))
  BY <1>1, <1>4 DEF GatewayClose
<1> QED
  BY <1>3, <1>4

LEMMA GatewayCloseTypes ==
  ASSUME ConfigTypeOK, RoomInv, GatewayClose
  PROVE  (ConfigTypeOK /\ RoomInv)'
<1>1. /\ section = "gateways" /\ gateway # Nil /\ gateway \in GatewayEntry
      /\ gateway' = Nil /\ file' = Append(file, [in |-> "gateways", entry |-> gateway])
      /\ UNCHANGED <<section, users_map, dialplan_rules, instance_id, sip_server_ident,
                     sip_debug, bsip_config, known, forgotten>>
  BY DEF GatewayClose, ConfigTypeOK
<1>2. file' \in Seq(FileEntry) /\ Len(file') <= MaxEntries
  <2>1. [in |-> "gateways", entry |-> gateway] \in FileEntry /\ file \in Seq(FileEntry)
    BY <1>1, EntryTypes DEF ConfigTypeOK
  <2>2. Len(file) < MaxEntries /\ MaxEntries \in Nat
    BY <1>1, ConfigAssumption DEF RoomInv
  <2> QED
    BY <1>1, <2>1, <2>2, Grown
<1>3. tmp_mbuf' \in Seq(Option) /\ gateways_map' \in [GatewayNames -> {Nil} \cup GatewayConf]
  <2>1. CASE ~zstr(gateway.name) /\ ~zstr(known["username"]) /\ ~zstr(known["domain"])
    <3> DEFINE gw == [user_id |-> known["username"], realm |-> known["domain"],
                      config |-> account(known) \o tmp_mbuf]
    <3>1. gateway.name \in GatewayNames /\ gateways_map \in [GatewayNames -> {Nil} \cup GatewayConf]
      BY <1>1, <2>1 DEF GatewayEntry, zstr, ConfigTypeOK
    <3>2. account(known) \o tmp_mbuf \in Seq(Option)
      BY ClosedConfig, ConcatProperties
    <3>3. known["username"] \in OrNil /\ known["domain"] \in OrNil
      BY DEF ConfigTypeOK, Known
    <3>4. gw \in GatewayConf
      BY <3>2, <3>3 DEF GatewayConf
    <3>5. tmp_mbuf' \in Seq(Option) /\ gateways_map' = [gateways_map EXCEPT ![gateway.name] = gw]
      BY <2>1, ClosedConfig
    <3> HIDE DEF gw
    <3> QED
      BY <3>1, <3>4, <3>5
  <2>2. CASE ~(~zstr(gateway.name) /\ ~zstr(known["username"]) /\ ~zstr(known["domain"]))
    BY <2>2, ClosedConfig DEF ConfigTypeOK
  <2> QED
    BY <2>1, <2>2
<1>4. MapsOK' /\ NamesOK'
  BY <1>1, <1>3 DEF ConfigTypeOK, MapsOK, NamesOK
<1>5. BuffersOK'
  BY <1>1, <1>3 DEF BuffersOK, ConfigTypeOK
<1>6. ReadOK'
  BY <1>1, <1>2 DEF ConfigTypeOK, ReadOK, RoomInv, zstr
<1> QED
  BY <1>4, <1>5, <1>6, TypeParts, PTL

\* The steps from one section to the next, and the failure.
LEMMA SectionTypes ==
  ASSUME ConfigTypeOK, RoomInv,
         CoreEnd \/ UsersEnd \/ GatewaysEnd \/ DialplanEnd \/ SettingsEnd \/ MemFail
  PROVE  (ConfigTypeOK /\ RoomInv)'
<1> USE DEF ConfigTypeOK, RoomInv
<1>1. CASE CoreEnd
  <2>1. ~zstr(instance_id')
    BY <1>1, ConfigAssumption DEF CoreEnd, zstr
  <2> QED
    BY <1>1, <2>1 DEF CoreEnd, buffers, zstr
<1>2. CASE UsersEnd
  BY <1>2 DEF UsersEnd, Goto, globals, zstr
<1>3. CASE GatewaysEnd
  BY <1>3 DEF GatewaysEnd, Goto, globals, zstr
<1>4. CASE DialplanEnd
  BY <1>4 DEF DialplanEnd, Goto, globals, zstr
<1>5. CASE SettingsEnd
  <2>1. bsip_config' \in {Nil} \cup Seq(Option)
    BY <1>5 DEF SettingsEnd
  <2> QED
    BY <1>5, <2>1 DEF SettingsEnd, buffers, zstr
<1>6. CASE MemFail
  BY <1>6 DEF MemFail, globals, buffers, zstr
<1> QED
  BY <1>1, <1>2, <1>3, <1>4, <1>5, <1>6

\* Every step keeps the types.
LEMMA ConfigStepTypes ==
  ConfigTypeOK /\ RoomInv /\ [ConfigNext]_configVars => (ConfigTypeOK /\ RoomInv)'
<1> SUFFICES ASSUME ConfigTypeOK, RoomInv, [ConfigNext]_configVars
             PROVE  (ConfigTypeOK /\ RoomInv)'
  OBVIOUS
<1>1. CASE \E v \in OrNil : InstanceId(v)
  BY <1>1, InstanceIdTypes
<1>2. CASE \E v \in OrNil, id \in UserIds \cup {Nil} : User(id, v)
  BY <1>2, UserTypes
<1>3. CASE \E v \in OrNil, n \in Settings : OwnSetting(n, v)
  BY <1>3, OwnSettingTypes
<1>4. CASE \E v \in OrNil, n \in Settings : StackSetting(n, v)
  BY <1>4, StackSettingTypes
<1>5. CASE \E g \in GatewayNames \cup {Nil} : GatewayOpen(g)
  BY <1>5, GatewayOpenTypes
<1>6. CASE \E p \in Params : GatewayParam(p.name, p.val)
  BY <1>6, GatewayParamTypes
<1>7. CASE \E r \in Rules : Rule(r)
  BY <1>7, RuleTypes
<1>8. CASE GatewayClose
  BY <1>8, GatewayCloseTypes
<1>9. CASE CoreEnd \/ UsersEnd \/ GatewaysEnd \/ DialplanEnd \/ SettingsEnd \/ MemFail
  BY <1>9, SectionTypes
<1>10. CASE UNCHANGED configVars
  BY <1>10 DEF configVars, globals, buffers, ConfigTypeOK, RoomInv, zstr
<1> QED
  BY <1>1, <1>2, <1>3, <1>4, <1>5, <1>6, <1>7, <1>8, <1>9, <1>10 DEF ConfigNext

-----------------------------------------------------------------------------
\* The places of the entries of a section.
Places(s) == {i \in DOMAIN file : file[i].in = s}

\* What a step changes belongs to the section being read.
OnlyHere ==
  /\ forgotten \in Nat /\ forgotten' \in Nat /\ forgotten <= forgotten'
  /\ section # "core-settings" => UNCHANGED instance_id
  /\ section # "users" => UNCHANGED users_map
  /\ section # "gateways" => UNCHANGED <<gateways_map, gateway, known>>
  /\ section # "dialplan" => UNCHANGED dialplan_rules
  /\ section # "settings" => UNCHANGED bsip_config
  /\ section \notin {"gateways", "dialplan", "settings"} => UNCHANGED tmp_mbuf
  /\ \/ UNCHANGED file
     \/ UNCHANGED section /\ \E x \in FileEntry : x.in = section /\ file' = Append(file, x)

LEMMA StepsStayHere ==
  ASSUME ConfigTypeOK, RoomInv, [ConfigNext]_configVars
  PROVE  OnlyHere
<1>1. forgotten \in Nat /\ ConfigTypeOK'
  BY ConfigStepTypes DEF ConfigTypeOK
<1>2. forgotten' \in Nat
  BY <1>1 DEF ConfigTypeOK
<1>3. \A v, w : Copied(v, w) => forgotten <= forgotten'
  BY <1>1 DEF Copied
<1>4. ASSUME NEW v \in OrNil, InstanceId(v) PROVE OnlyHere
  <2>1. forgotten <= forgotten'
    BY <1>1, <1>3, <1>4 DEF InstanceId
  <2>2. /\ section = "core-settings" /\ UNCHANGED <<section, users_map, gateways_map,
              dialplan_rules, bsip_config, gateway, known, tmp_mbuf>>
        /\ file' = Append(file, [in |-> "core-settings", entry |-> v])
    BY <1>4 DEF InstanceId, Entry, buffers
  <2>3. \E x \in FileEntry : x.in = section /\ file' = Append(file, x)
    BY <2>2, EntryTypes
  <2> QED
    BY <1>1, <1>2, <2>1, <2>2, <2>3 DEF OnlyHere
<1>5. ASSUME NEW v \in OrNil, NEW id \in UserIds \cup {Nil}, User(id, v) PROVE OnlyHere
  <2>1. forgotten <= forgotten'
    BY <1>1, <1>3, <1>5 DEF User
  <2>2. /\ section = "users" /\ UNCHANGED <<section, gateways_map, dialplan_rules,
              instance_id, bsip_config, gateway, known, tmp_mbuf>>
        /\ file' = Append(file, [in |-> "users", entry |-> [id |-> id, password |-> v]])
    BY <1>5 DEF User, Entry, buffers
  <2>3. \E x \in FileEntry : x.in = section /\ file' = Append(file, x)
    BY <2>2, EntryTypes
  <2> QED
    BY <1>1, <1>2, <2>1, <2>2, <2>3 DEF OnlyHere
<1>6. ASSUME NEW v \in OrNil, NEW n \in Settings, OwnSetting(n, v) \/ StackSetting(n, v)
      PROVE  OnlyHere
  <2>1. forgotten <= forgotten'
    BY <1>1, <1>3, <1>6 DEF OwnSetting, StackSetting
  <2>2. /\ section = "settings" /\ UNCHANGED <<section, users_map, gateways_map,
              dialplan_rules, instance_id, bsip_config, gateway, known>>
        /\ file' = Append(file, [in |-> "settings", entry |-> [name |-> n, val |-> v]])
    BY <1>6 DEF OwnSetting, StackSetting, Entry, buffers, globals
  <2>3. \E x \in FileEntry : x.in = section /\ file' = Append(file, x)
    BY <2>2, EntryTypes
  <2> QED
    BY <1>1, <1>2, <2>1, <2>2, <2>3 DEF OnlyHere
<1>7. ASSUME NEW r \in Rules, Rule(r) PROVE OnlyHere
  <2>1. forgotten <= forgotten'
    BY <1>1, <1>3, <1>7 DEF Rule
  <2>2. /\ section = "dialplan" /\ UNCHANGED <<section, users_map, gateways_map,
              instance_id, bsip_config, gateway, known, tmp_mbuf>>
        /\ file' = Append(file, [in |-> "dialplan", entry |-> r])
    BY <1>7 DEF Rule, Entry, buffers
  <2>3. \E x \in FileEntry : x.in = section /\ file' = Append(file, x)
    BY <2>2, EntryTypes
  <2> QED
    BY <1>1, <1>2, <2>1, <2>2, <2>3 DEF OnlyHere
<1>8. CASE GatewayClose
  <2>1. /\ section = "gateways" /\ gateway \in GatewayEntry
        /\ UNCHANGED <<section, users_map, dialplan_rules, instance_id, bsip_config, forgotten>>
        /\ file' = Append(file, [in |-> "gateways", entry |-> gateway])
    BY <1>8 DEF GatewayClose, ConfigTypeOK
  <2>2. \E x \in FileEntry : x.in = section /\ file' = Append(file, x)
    BY <2>1, EntryTypes
  <2> QED
    BY <1>1, <1>2, <2>1, <2>2 DEF OnlyHere
<1>9. ASSUME NEW g, GatewayOpen(g) PROVE OnlyHere
  BY <1>1, <1>2, <1>9 DEF GatewayOpen, globals, OnlyHere
<1>10. ASSUME NEW p \in Params, GatewayParam(p.name, p.val) PROVE OnlyHere
  <2>1. forgotten <= forgotten'
    BY <1>1, <1>3, <1>10 DEF GatewayParam
  <2> QED
    BY <1>1, <1>2, <1>10, <2>1 DEF GatewayParam, globals, OnlyHere
<1>11. CASE CoreEnd
  BY <1>1, <1>2, <1>11 DEF CoreEnd, buffers, OnlyHere
<1>12. CASE UsersEnd \/ GatewaysEnd \/ DialplanEnd
  BY <1>1, <1>2, <1>12 DEF UsersEnd, GatewaysEnd, DialplanEnd, Goto, globals, OnlyHere
<1>13. CASE SettingsEnd \/ MemFail \/ UNCHANGED configVars
  BY <1>1, <1>2, <1>13 DEF SettingsEnd, MemFail, configVars, globals, buffers, OnlyHere
<1> QED
  BY <1>4, <1>5, <1>6, <1>7, <1>8, <1>9, <1>10, <1>11, <1>12, <1>13 DEF ConfigNext

\* The entries of the other sections stay as they are.
LEMMA OtherPlaces ==
  ASSUME ConfigTypeOK, RoomInv, OnlyHere, NEW s, s # section \/ UNCHANGED file
  PROVE  Places(s)' = Places(s) /\ \A i \in Places(s) : file'[i] = file[i]
<1>1. CASE UNCHANGED file
  BY <1>1 DEF Places
<1>2. CASE s # section /\ \E x \in FileEntry : x.in = section /\ file' = Append(file, x)
  <2>1. PICK x \in FileEntry : x.in = section /\ file' = Append(file, x)
    BY <1>2
  <2>2. /\ DOMAIN file' = DOMAIN file \cup {Len(file) + 1}
        /\ file'[Len(file) + 1] = x /\ \A i \in DOMAIN file : file'[i] = file[i]
    BY <2>1, Grown DEF ConfigTypeOK
  <2> QED
    BY <1>2, <2>1, <2>2 DEF Places
<1> QED
  BY <1>1, <1>2 DEF OnlyHere

-----------------------------------------------------------------------------
\* What is configured at any time is what has been read of the file: of users,
UsersInv ==
  \A u \in UserIds :
    /\ UserEntries(u) = {} => users_map[u] = Nil
    /\ \A i \in UserEntries(u) :
          LastOf(i, UserEntries(u)) => KnownAs(users_map[u], file[i].entry, forgotten)

LEMMA UserEntriesArePlaces ==
  \A u : UserEntries(u) = {i \in Places("users") : file[i].entry.id = u}
  BY DEF UserEntries, Places

LEMMA UsersStep ==
  ASSUME ConfigTypeOK, RoomInv, UsersInv, [ConfigNext]_configVars
  PROVE  UsersInv'
<1>1. OnlyHere
  BY StepsStayHere
<1>2. forgotten \in Nat /\ forgotten' \in Nat /\ forgotten <= forgotten'
  BY <1>1 DEF OnlyHere
<1>3. \A user, e : KnownAs(user, e, forgotten) => KnownAs(user, e, forgotten')
  BY <1>2 DEF KnownAs
<1>4. CASE UNCHANGED users_map /\ (section # "users" \/ UNCHANGED file)
  <2>1. Places("users")' = Places("users") /\ \A i \in Places("users") : file'[i] = file[i]
    BY <1>1, <1>4, OtherPlaces
  <2> SUFFICES ASSUME NEW u \in UserIds
               PROVE  /\ UserEntries(u)' = {} => users_map'[u] = Nil
                      /\ \A i \in UserEntries(u)' : LastOf(i, UserEntries(u)')
                            => KnownAs(users_map'[u], file'[i].entry, forgotten')
    BY DEF UsersInv
  <2>2. /\ UserEntries(u)' = UserEntries(u)
        /\ \A i \in UserEntries(u) : file'[i] = file[i]
    BY <2>1 DEF UserEntries, Places
  <2> QED
    BY <1>3, <1>4, <2>2 DEF UsersInv
<1>5. ASSUME NEW v \in OrNil, NEW id \in UserIds \cup {Nil}, User(id, v) PROVE UsersInv'
  <2> DEFINE e == [id |-> id, password |-> v]
             new == Len(file) + 1
  <2>1. /\ Len(file) \in Nat /\ DOMAIN file = 1 .. Len(file)
        /\ DOMAIN file' = DOMAIN file \cup {new} /\ new \notin DOMAIN file
        /\ file'[new] = [in |-> "users", entry |-> e]
        /\ \A i \in DOMAIN file : file'[i] = file[i]
    BY <1>5, EntryFacts, EntryTypes DEF User
  <2>2. \A u \in UserIds :
          UserEntries(u)' = UserEntries(u) \cup (IF u = id THEN {new} ELSE {})
    BY <2>1 DEF UserEntries
  <2>3. \A u \in UserIds : UserEntries(u) \subseteq 1 .. Len(file)
    BY <2>1 DEF UserEntries
  <2> SUFFICES ASSUME NEW u \in UserIds
               PROVE  /\ UserEntries(u)' = {} => users_map'[u] = Nil
                      /\ \A i \in UserEntries(u)' : LastOf(i, UserEntries(u)')
                            => KnownAs(users_map'[u], file'[i].entry, forgotten')
    BY DEF UsersInv
  <2>4. CASE u = id
    <3>1. u # Nil
      BY ConfigAssumption
    <3>2. PICK w \in OrNil :
             Copied(v, w) /\ users_map' = [users_map EXCEPT ![id] = [sip_password |-> w]]
      BY <1>5, <2>4, <3>1 DEF User
    <3>3. users_map'[u] = [sip_password |-> w]
      BY <2>4, <3>2 DEF ConfigTypeOK
    <3>4. w = v \/ (w = Nil /\ forgotten' > 0)
      BY <3>2, CopiedFacts
    <3>5. users_map'[u] # Nil
      <4>1. [sip_password |-> w] \in UserConf
        BY DEF UserConf
      <4> QED
        BY <3>3, <4>1, ConfigAssumption
    <3>6. KnownAs(users_map'[u], file'[new].entry, forgotten')
      BY <2>1, <3>3, <3>4, <3>5 DEF KnownAs
    <3>7. \A i \in UserEntries(u)' : LastOf(i, UserEntries(u)') => i = new
      BY <2>1, <2>2, <2>3, <2>4 DEF LastOf
    <3> QED
      BY <2>2, <2>4, <3>6, <3>7
  <2>5. CASE u # id
    <3>1. /\ UserEntries(u)' = UserEntries(u)
          /\ \A i \in UserEntries(u) : file'[i] = file[i]
      BY <2>1, <2>2, <2>3, <2>5
    <3>2. users_map'[u] = users_map[u]
      BY <1>5, <2>5 DEF User, ConfigTypeOK
    <3> QED
      BY <1>3, <3>1, <3>2 DEF UsersInv
  <2> QED
    BY <2>4, <2>5
<1>6. CASE section = "users" /\ ~ \E v \in OrNil, id \in UserIds \cup {Nil} : User(id, v)
  <2>1. UNCHANGED <<users_map, file>>
    BY <1>6 DEF ConfigNext, InstanceId, OwnSetting, StackSetting, GatewayOpen, GatewayParam,
                Rule, Entry, CoreEnd, UsersEnd, GatewayClose, GatewaysEnd, DialplanEnd,
                SettingsEnd, MemFail, Goto, globals, configVars
  <2> QED
    BY <1>4, <2>1
<1>7. section # "users" => UNCHANGED users_map
  BY <1>1 DEF OnlyHere
<1> QED
  BY <1>4, <1>5, <1>6, <1>7

\* of the names of the instance,
NameInv ==
  forgotten = 0 =>
    IF NameEntries = {}
    THEN IF section = "core-settings" THEN zstr(instance_id) ELSE instance_id = "0000"
    ELSE ~zstr(instance_id) /\ instance_id = file[Min(NameEntries)].entry

LEMMA NameStep ==
  ASSUME ConfigTypeOK, RoomInv, NameInv, [ConfigNext]_configVars
  PROVE  NameInv'
<1>1. OnlyHere
  BY StepsStayHere
<1>2. forgotten \in Nat /\ forgotten' \in Nat /\ forgotten <= forgotten'
  BY <1>1 DEF OnlyHere
<1>3. NameEntries \subseteq Nat /\ NameEntries = {i \in Places("core-settings") : ~zstr(file[i].entry)}
  BY DEF NameEntries, ConfigTypeOK, Places
<1> SUFFICES ASSUME forgotten' = 0
             PROVE  IF NameEntries' = {}
                    THEN IF section' = "core-settings" THEN zstr(instance_id')
                         ELSE instance_id' = "0000"
                    ELSE ~zstr(instance_id') /\ instance_id' = file'[Min(NameEntries')].entry
  BY DEF NameInv, zstr
<1>4. forgotten = 0
  BY <1>2
<1>5. CASE section # "core-settings" \/ UNCHANGED file
  <2>1. /\ Places("core-settings")' = Places("core-settings")
        /\ \A i \in Places("core-settings") : file'[i] = file[i]
    BY <1>1, <1>5, OtherPlaces
  <2>2. NameEntries' = NameEntries /\ \A i \in NameEntries : file'[i] = file[i]
    BY <2>1 DEF NameEntries, Places, zstr
  <2>3. NameEntries # {} => file'[Min(NameEntries)] = file[Min(NameEntries)]
    BY <1>3, <2>2, LeastPlace
  <2>4. CASE CoreEnd
    BY <1>4, <2>2, <2>3, <2>4 DEF CoreEnd, NameInv
  <2>5. CASE ~CoreEnd
    <3>0. ASSUME NEW v \in OrNil, InstanceId(v) PROVE FALSE
      <4>1. section = "core-settings" /\ Len(file) \in Nat /\ Len(file') = Len(file) + 1
        BY <3>0, EntryFacts, EntryTypes DEF InstanceId
      <4> QED
        BY <1>5, <4>1
    <3>1. /\ (section' = "core-settings" <=> section = "core-settings")
          /\ (section = "core-settings" => UNCHANGED instance_id)
      BY <2>5, <3>0 DEF ConfigNext, User, OwnSetting, StackSetting, GatewayOpen,
                GatewayParam, Rule, Entry, UsersEnd, GatewayClose, GatewaysEnd, DialplanEnd,
                SettingsEnd, MemFail, Goto, globals, configVars
    <3>2. UNCHANGED instance_id
      BY <1>1, <3>1 DEF OnlyHere
    <3> QED
      BY <1>4, <2>2, <2>3, <3>1, <3>2 DEF NameInv
  <2> QED
    BY <2>4, <2>5
<1>6. ASSUME NEW v \in OrNil, InstanceId(v) PROVE NameInv'
  <2> DEFINE new == Len(file) + 1
  <2>1. /\ section = "core-settings" /\ section' = section
        /\ Len(file) \in Nat /\ DOMAIN file = 1 .. Len(file)
        /\ DOMAIN file' = DOMAIN file \cup {new} /\ new \notin DOMAIN file
        /\ file'[new] = [in |-> "core-settings", entry |-> v]
        /\ \A i \in DOMAIN file : file'[i] = file[i]
    BY <1>6, EntryFacts, EntryTypes DEF InstanceId
  <2>2. NameEntries' = NameEntries \cup (IF zstr(v) THEN {} ELSE {new})
    BY <2>1 DEF NameEntries, zstr
  <2>3. NameEntries \subseteq 1 .. Len(file)
    BY <2>1 DEF NameEntries
  <2>4. CASE NameEntries = {}
    <3>1. zstr(instance_id)
      BY <1>4, <2>1, <2>4 DEF NameInv
    <3>2. PICK w \in OrNil :
             Copied(v, w) /\ instance_id' = (IF w = Nil THEN instance_id ELSE w)
      BY <1>6, <3>1 DEF InstanceId
    <3>3. w = v
      BY <3>2, CopiedFacts
    <3>4. CASE zstr(v)
      BY <2>1, <2>2, <2>4, <3>1, <3>2, <3>3, <3>4 DEF NameInv, zstr
    <3>5. CASE ~zstr(v)
      <4>1. NameEntries' = {new}
        BY <2>2, <2>4, <3>5
      <4>2. Min(NameEntries') = new
        BY <2>1, <4>1, LeastPlace
      <4> QED
        BY <2>1, <3>2, <3>3, <3>5, <4>1, <4>2 DEF NameInv, zstr
    <3> QED
      BY <3>4, <3>5
  <2>5. CASE NameEntries # {}
    <3>1. ~zstr(instance_id) /\ instance_id = file[Min(NameEntries)].entry
      BY <1>4, <2>5 DEF NameInv
    <3>2. instance_id' = instance_id
      BY <1>6, <3>1 DEF InstanceId
    <3>3. Min(NameEntries) \in NameEntries
      BY <1>3, <2>5, LeastPlace
    <3>4. Min(NameEntries') = Min(NameEntries)
      <4>1. CASE zstr(v)
        BY <2>2, <4>1
      <4>2. CASE ~zstr(v)
        <5>1. new \in Nat /\ \A i \in NameEntries : i < new
          BY <2>1, <2>3
        <5>2. Min(NameEntries \cup {new}) = Min(NameEntries)
          BY <1>3, <2>5, <5>1, LeastStays
        <5> QED
          BY <2>2, <4>2, <5>2
      <4> QED
        BY <4>1, <4>2
    <3>5. file'[Min(NameEntries)] = file[Min(NameEntries)]
      BY <2>1, <2>3, <3>3
    <3> QED
      BY <2>2, <2>5, <3>1, <3>2, <3>4, <3>5 DEF NameInv, zstr
  <2> QED
    BY <2>4, <2>5
<1>7. section = "core-settings" => UNCHANGED file \/ \E v \in OrNil : InstanceId(v)
  BY DEF ConfigNext, User, OwnSetting, StackSetting, GatewayOpen, GatewayParam, Rule, Entry,
         CoreEnd, UsersEnd, GatewayClose, GatewaysEnd, DialplanEnd, SettingsEnd, MemFail,
         Goto, configVars
<1> QED
  BY <1>5, <1>6, <1>7 DEF NameInv

\* of rules,
RulesInv == forgotten = 0 => Listed(dialplan_rules, [i \in RuleEntries |-> file[i].entry])

LEMMA RulesStep ==
  ASSUME ConfigTypeOK, RoomInv, RulesInv, [ConfigNext]_configVars
  PROVE  RulesInv'
<1>1. OnlyHere
  BY StepsStayHere
<1>2. forgotten \in Nat /\ forgotten' \in Nat /\ forgotten <= forgotten'
  BY <1>1 DEF OnlyHere
<1> DEFINE f == [i \in RuleEntries |-> file[i].entry]
           h == [i \in RuleEntries' |-> file'[i].entry]
<1> SUFFICES ASSUME forgotten' = 0 PROVE Listed(dialplan_rules', h)
  BY DEF RulesInv, Listed
<1>3. Listed(dialplan_rules, f) /\ DOMAIN f = RuleEntries /\ DOMAIN h = RuleEntries'
  BY <1>2 DEF RulesInv
<1>4. CASE UNCHANGED dialplan_rules /\ (section # "dialplan" \/ UNCHANGED file)
  <2>1. Places("dialplan")' = Places("dialplan") /\ \A i \in Places("dialplan") : file'[i] = file[i]
    BY <1>1, <1>4, OtherPlaces
  <2>2. RuleEntries' = RuleEntries /\ \A i \in RuleEntries : file'[i] = file[i]
    BY <2>1 DEF RuleEntries, Places, zstr
  <2>3. \A i \in DOMAIN f : h[i] = f[i]
    BY <2>2
  <2> HIDE DEF f, h
  <2> QED
    BY <1>3, <1>4, <2>2, <2>3, ListedSame
<1>5. ASSUME NEW r \in Rules, Rule(r) PROVE Listed(dialplan_rules', h)
  <2> DEFINE new == Len(file) + 1
             bad == zstr(r.name) \/ zstr(r.field) \/ zstr(r.app)
  <2>1. /\ Len(file) \in Nat /\ DOMAIN file = 1 .. Len(file)
        /\ DOMAIN file' = DOMAIN file \cup {new} /\ new \notin DOMAIN file
        /\ file'[new] = [in |-> "dialplan", entry |-> r]
        /\ \A i \in DOMAIN file : file'[i] = file[i]
    BY <1>5, EntryFacts, EntryTypes DEF Rule
  <2>2. /\ RuleEntries' = RuleEntries \cup (IF bad THEN {} ELSE {new})
        /\ RuleEntries \subseteq 1 .. Len(file)
        /\ \A i \in RuleEntries : file'[i] = file[i]
    BY <2>1 DEF RuleEntries, zstr
  <2>3. CASE bad
    <3>1. dialplan_rules' = dialplan_rules
      BY <1>5, <2>3 DEF Rule
    <3>2. DOMAIN h = DOMAIN f /\ \A i \in DOMAIN f : h[i] = f[i]
      BY <2>2, <2>3
    <3> HIDE DEF f, h
    <3> QED
      BY <1>3, <3>1, <3>2, ListedSame
  <2>4. CASE ~bad
    <3>1. PICK w \in OrNil :
             Copied(r.data, w) /\ dialplan_rules' = Append(dialplan_rules, Holding(r, w))
      BY <1>5, <2>4 DEF Rule
    <3>2. r.data \in OrNil
      BY ConfigAssumption
    <3>3. w = r.data
      BY <3>1, <3>2, CopiedFacts
    <3>4. Holding(r, w) = r
      <4>1. r = [name |-> r.name, field |-> r.field, app |-> r.app, data |-> r.data]
        BY ConfigAssumption
      <4> QED
        BY <3>3, <4>1 DEF Holding
    <3>5. r \in RuleConf
      BY <3>2, <3>3, <3>4 DEF RuleConf
    <3>6. dialplan_rules \in Seq(RuleConf)
      BY DEF ConfigTypeOK
    <3>7. DOMAIN f \subseteq 1 .. Len(file) /\ DOMAIN h = DOMAIN f \cup {new}
      BY <2>2, <2>4
    <3>8. h[new] = r /\ \A i \in DOMAIN f : h[i] = f[i]
      <4>1. new \in RuleEntries' /\ file'[new].entry = r
        BY <2>1, <2>2, <2>4
      <4>2. \A i \in RuleEntries : i \in RuleEntries' /\ h[i] = f[i]
        BY <2>2
      <4> QED
        BY <4>1, <4>2
    <3> HIDE DEF f, h
    <3>9. Listed(Append(dialplan_rules, r), h)
      <4>1. Listed(dialplan_rules, f) /\ Len(file) \in Nat
        BY <1>3, <2>1
      <4> QED
        BY <3>5, <3>6, <3>7, <3>8, <4>1, ListedMore
    <3> QED
      BY <3>1, <3>4, <3>9
  <2> QED
    BY <2>3, <2>4
<1>6. CASE section = "dialplan" /\ ~ \E r \in Rules : Rule(r)
  <2>1. UNCHANGED <<dialplan_rules, file>>
    BY <1>6 DEF ConfigNext, InstanceId, OwnSetting, StackSetting, GatewayOpen, GatewayParam,
                User, Entry, CoreEnd, UsersEnd, GatewayClose, GatewaysEnd, DialplanEnd,
                SettingsEnd, MemFail, Goto, globals, configVars
  <2> QED
    BY <1>4, <2>1
<1>7. section # "dialplan" => UNCHANGED dialplan_rules
  BY <1>1 DEF OnlyHere
<1> QED
  BY <1>4, <1>5, <1>6, <1>7

\* and of settings.  They are the last in the file, and the buffer is theirs alone.
StackInv ==
  /\ section \notin {"settings", "loaded", "failed"} => Places("settings") = {}
  /\ section = "settings" => Listed(tmp_mbuf, StackSettings)
  /\ SettingsReachStack

LEMMA StackStep ==
  ASSUME ConfigTypeOK, RoomInv, StackInv, [ConfigNext]_configVars
  PROVE  StackInv'
<1>1. OnlyHere
  BY StepsStayHere
<1> DEFINE f == StackSettings
           h == StackSettings'
<1>2. /\ DOMAIN f = {i \in Places("settings") : file[i].entry.name \notin HasX}
      /\ DOMAIN h = {i \in Places("settings")' : file'[i].entry.name \notin HasX}
      /\ \A i \in DOMAIN f : f[i] = OrEmpty(file[i].entry)
      /\ \A i \in DOMAIN h : h[i] = OrEmpty(file'[i].entry)
  BY DEF StackSettings, Places, OrEmpty
<1>3. ASSUME section # "settings" \/ UNCHANGED file
      PROVE  /\ Places("settings")' = Places("settings")
             /\ DOMAIN h = DOMAIN f /\ \A i \in DOMAIN f : h[i] = f[i]
  <2>1. Places("settings")' = Places("settings") /\ \A i \in Places("settings") : file'[i] = file[i]
    BY <1>1, <1>3, OtherPlaces
  <2> QED
    BY <1>2, <2>1
<1> HIDE DEF f, h
<1>4. CASE section \notin {"settings", "dialplan"} \/ (section = "dialplan" /\ ~DialplanEnd)
  <2>0. ~DialplanEnd
    BY <1>4 DEF DialplanEnd
  <2>1. /\ section' # "settings"
        /\ section \notin {"loaded", "failed"} => section' # "loaded"
        /\ section \in {"loaded", "failed"} => UNCHANGED section
        /\ UNCHANGED bsip_config
    BY <1>4, <2>0 DEF ConfigNext, InstanceId, User, OwnSetting, StackSetting, GatewayOpen,
                GatewayParam, Rule, Entry, CoreEnd, UsersEnd, GatewayClose, GatewaysEnd,
                SettingsEnd, MemFail, Goto, globals, configVars
  <2>2. section' \notin {"settings", "loaded", "failed"} => Places("settings")' = {}
    BY <1>3, <1>4, <2>1 DEF StackInv
  <2>3. SettingsReachStack'
    <3> SUFFICES ASSUME Loaded' PROVE SettingsReachStack'
      BY DEF SettingsReachStack
    <3>1. Loaded
      BY <2>1 DEF Loaded, ConfigTypeOK
    <3>2. IF DOMAIN f = {} THEN bsip_config = Nil ELSE bsip_config # Nil /\ Listed(bsip_config, f)
      BY <3>1 DEF StackInv, SettingsReachStack, f
    <3>3. DOMAIN f # {} => Listed(bsip_config', h)
      BY <1>3, <1>4, <2>1, <3>2, ListedSame
    <3> QED
      BY <1>3, <1>4, <2>1, <3>2, <3>3 DEF SettingsReachStack, h
  <2> QED
    BY <2>1, <2>2, <2>3 DEF StackInv
<1>5. CASE section = "dialplan" /\ DialplanEnd
  <2>1. section' = "settings" /\ tmp_mbuf' = <<>>
    BY <1>5 DEF DialplanEnd, Goto
  <2>2. DOMAIN h = {}
    BY <1>2, <1>3, <1>5 DEF StackInv
  <2>3. Listed(tmp_mbuf', h)
    BY <2>1, <2>2, ListedNone
  <2> QED
    BY <2>1, <2>3 DEF StackInv, SettingsReachStack, Loaded, h
<1>6. ASSUME NEW v \in OrNil, NEW n \in Settings, section = "settings", StackSetting(n, v)
      PROVE  StackInv'
  <2> DEFINE new == Len(file) + 1
             e == [name |-> n, val |-> v]
  <2>1. /\ Len(file) \in Nat /\ DOMAIN file = 1 .. Len(file)
        /\ DOMAIN file' = DOMAIN file \cup {new} /\ new \notin DOMAIN file
        /\ file'[new] = [in |-> "settings", entry |-> e]
        /\ \A i \in DOMAIN file : file'[i] = file[i]
    BY <1>6, EntryFacts, EntryTypes DEF StackSetting
  <2>2. /\ section' = "settings" /\ n \notin HasX
        /\ tmp_mbuf' = Append(tmp_mbuf, OrEmpty(e)) /\ tmp_mbuf \in Seq(Option)
    BY <1>6 DEF StackSetting, ConfigTypeOK, OrEmpty
  <2>3. OrEmpty(e) \in Option
    BY OptionType DEF OrEmpty, OptNames
  <2>4. /\ DOMAIN h = DOMAIN f \cup {new} /\ h[new] = OrEmpty(e)
        /\ DOMAIN f \subseteq 1 .. Len(file)
    BY <1>2, <2>1, <2>2 DEF Places
  <2>5. \A i \in DOMAIN f : h[i] = f[i]
    BY <1>2, <2>1, <2>4 DEF Places
  <2>6. Listed(tmp_mbuf, f)
    BY <1>6 DEF StackInv, f
  <2> HIDE DEF e
  <2>7. Listed(tmp_mbuf', h)
    BY <2>1, <2>2, <2>3, <2>4, <2>5, <2>6, ListedMore
  <2> QED
    BY <2>2, <2>7 DEF StackInv, SettingsReachStack, Loaded, h
<1>7. ASSUME NEW v \in OrNil, NEW n \in Settings, section = "settings", OwnSetting(n, v)
      PROVE  StackInv'
  <2> DEFINE new == Len(file) + 1
  <2>1. /\ Len(file) \in Nat /\ DOMAIN file = 1 .. Len(file)
        /\ DOMAIN file' = DOMAIN file \cup {new} /\ new \notin DOMAIN file
        /\ file'[new] = [in |-> "settings", entry |-> [name |-> n, val |-> v]]
        /\ \A i \in DOMAIN file : file'[i] = file[i]
    BY <1>7, EntryFacts, EntryTypes DEF OwnSetting
  <2>2. section' = "settings" /\ n \in HasX /\ tmp_mbuf' = tmp_mbuf
    BY <1>7 DEF OwnSetting, buffers
  <2>3. DOMAIN h = DOMAIN f /\ \A i \in DOMAIN f : h[i] = f[i]
    BY <1>2, <2>1, <2>2 DEF Places
  <2>4. Listed(tmp_mbuf, f)
    BY <1>7 DEF StackInv, f
  <2>5. Listed(tmp_mbuf', h)
    BY <2>2, <2>3, <2>4, ListedSame
  <2> QED
    BY <2>2, <2>5 DEF StackInv, SettingsReachStack, Loaded, h
<1>8. CASE section = "settings" /\ SettingsEnd
  <2>1. /\ section' = "loaded" /\ UNCHANGED file
        /\ bsip_config' = IF tmp_mbuf = <<>> THEN Nil ELSE tmp_mbuf
    BY <1>8 DEF SettingsEnd
  <2>2. Listed(tmp_mbuf, f) /\ tmp_mbuf \in Seq(Option)
    BY <1>8 DEF StackInv, f, ConfigTypeOK
  <2>3. Listed(tmp_mbuf, h)
    BY <1>3, <2>1, <2>2, ListedSame
  <2>4. tmp_mbuf = <<>> <=> DOMAIN h = {}
    <3>1. DOMAIN h \subseteq 1 .. Len(file)
      BY <1>2, <2>1 DEF Places, ConfigTypeOK
    <3>2. IsFiniteSet(DOMAIN h)
      <4>1. IsFiniteSet(1 .. Len(file))
        BY FS_Interval DEF ConfigTypeOK
      <4> QED
        BY <3>1, <4>1, FS_Subset
    <3>3. Len(tmp_mbuf) = 0 <=> DOMAIN h = {}
      BY <2>3, <3>2, FS_EmptySet DEF Listed
    <3> QED
      BY <2>2, <3>3
  <2>5. tmp_mbuf # Nil
    BY <2>2, ConfigAssumption
  <2> QED
    BY <2>1, <2>3, <2>4, <2>5 DEF StackInv, SettingsReachStack, h
<1>9. CASE section = "settings" /\ (MemFail \/ UNCHANGED configVars)
  <2>1. UNCHANGED <<tmp_mbuf, file>> /\ section' \in {"settings", "failed"}
    BY <1>9 DEF MemFail, configVars, buffers
  <2>2. Listed(tmp_mbuf, f)
    BY <1>9 DEF StackInv, f
  <2>3. Listed(tmp_mbuf', h)
    BY <1>3, <2>1, <2>2, ListedSame
  <2> QED
    BY <2>1, <2>3 DEF StackInv, SettingsReachStack, Loaded, h
<1>10. section = "settings" =>
         \/ \E v \in OrNil, n \in Settings : StackSetting(n, v) \/ OwnSetting(n, v)
         \/ SettingsEnd \/ MemFail \/ UNCHANGED configVars
  BY DEF ConfigNext, InstanceId, User, GatewayOpen, GatewayParam, Rule, Entry, CoreEnd,
         UsersEnd, GatewayClose, GatewaysEnd, DialplanEnd
<1> QED
  BY <1>4, <1>5, <1>6, <1>7, <1>8, <1>9, <1>10

-----------------------------------------------------------------------------
\* A parameter more: it counts if there was none of its name with a value.
LEMMA GivenMore ==
  ASSUME NEW params \in Seq(Params), NEW p \in Params, NEW n
  PROVE  Given(Append(params, p), n) =
           IF Given(params, n) = Nil /\ p.name = n THEN p.val ELSE Given(params, n)
<1> DEFINE new == Len(params) + 1
           more == Append(params, p)
           S == {i \in DOMAIN params : params[i].name = n /\ params[i].val # Nil}
           M == {i \in DOMAIN more : more[i].name = n /\ more[i].val # Nil}
<1>1. /\ Len(params) \in Nat /\ DOMAIN params = 1 .. Len(params)
      /\ DOMAIN more = DOMAIN params \cup {new} /\ new \notin DOMAIN params
      /\ more[new] = p /\ \A i \in DOMAIN params : more[i] = params[i]
  BY Grown
<1> HIDE DEF more
<1>2. M = S \cup (IF p.name = n /\ p.val # Nil THEN {new} ELSE {})
  BY <1>1
<1>3. S \subseteq 1 .. Len(params) /\ S \in SUBSET Nat /\ new \in Nat /\ \A i \in S : i < new
  BY <1>1
<1>4. /\ Given(params, n) = IF S = {} THEN Nil ELSE params[Min(S)].val
      /\ Given(more, n) = IF M = {} THEN Nil ELSE more[Min(M)].val
  BY DEF Given
<1>5. S # {} => Min(S) \in S /\ more[Min(S)] = params[Min(S)] /\ params[Min(S)].val # Nil
  <2>1. S # {} => Min(S) \in S
    BY <1>3, LeastPlace
  <2> QED
    BY <1>1, <2>1
<1> HIDE DEF S, M
<1>6. CASE p.name = n /\ p.val # Nil
  <2>1. M = S \cup {new} /\ M # {}
    BY <1>2, <1>6
  <2>2. Min(M) = IF S = {} THEN new ELSE Min(S)
    BY <1>3, <2>1, LeastStays
  <2> QED
    BY <1>1, <1>4, <1>5, <1>6, <2>1, <2>2 DEF more
<1>7. CASE ~(p.name = n /\ p.val # Nil)
  <2>1. M = S
    BY <1>2, <1>7
  <2>2. Given(more, n) = Given(params, n)
    BY <1>4, <1>5, <2>1
  <2> QED
    BY <1>7, <2>2 DEF more
<1> QED
  BY <1>6, <1>7

\* Of the gateway being read, the buffers hold what its parameters say so far.
GateInv ==
  gateway # Nil =>
    /\ Listed(tmp_mbuf, OptionsOf(gateway.params))
    /\ forgotten = 0 => \A n \in Known : known[n] = Given(gateway.params, n)

LEMMA GateStep ==
  ASSUME ConfigTypeOK, RoomInv, GateInv, [ConfigNext]_configVars
  PROVE  GateInv'
<1>1. OnlyHere
  BY StepsStayHere
<1>2. forgotten \in Nat /\ forgotten' \in Nat /\ forgotten <= forgotten'
  BY <1>1 DEF OnlyHere
<1>3. ASSUME NEW g \in GatewayNames \cup {Nil}, GatewayOpen(g) PROVE GateInv'
  <2>1. gateway' = [name |-> g, params |-> <<>>] /\ known' = Nothing /\ tmp_mbuf' = <<>>
    BY <1>3 DEF GatewayOpen
  <2>2. gateway'.params = <<>> /\ DOMAIN OptionsOf(<<>>) = {}
    BY <2>1 DEF OptionsOf
  <2>3. Listed(tmp_mbuf', OptionsOf(gateway'.params))
    BY <2>1, <2>2, ListedNone
  <2>4. \A n \in Known : known'[n] = Given(gateway'.params, n)
    BY <2>1, <2>2 DEF Nothing, Given
  <2> QED
    BY <2>3, <2>4 DEF GateInv
<1>4. ASSUME NEW p \in Params, GatewayParam(p.name, p.val) PROVE GateInv'
  <2>1. /\ gateway # Nil /\ gateway \in GatewayEntry
        /\ gateway' = [gateway EXCEPT !.params = Append(@, p)]
    <3>1. p = [name |-> p.name, val |-> p.val]
      BY ConfigAssumption
    <3> QED
      BY <1>4, <3>1 DEF GatewayParam, ConfigTypeOK
  <2>2. gateway.params \in Seq(Params) /\ gateway'.params = Append(gateway.params, p)
    BY <2>1 DEF GatewayEntry
  <2> DEFINE old == gateway.params
             f == OptionsOf(old)
             h == OptionsOf(gateway'.params)
             new == Len(old) + 1
  <2>3. /\ Len(old) \in Nat /\ DOMAIN old = 1 .. Len(old)
        /\ DOMAIN gateway'.params = DOMAIN old \cup {new} /\ new \notin DOMAIN old
        /\ gateway'.params[new] = p /\ \A i \in DOMAIN old : gateway'.params[i] = old[i]
    BY <2>2, Grown
  <2>4. /\ DOMAIN f = {i \in DOMAIN old : old[i].name \notin Known}
        /\ DOMAIN h = DOMAIN f \cup (IF p.name \in Known THEN {} ELSE {new})
        /\ \A i \in DOMAIN f : h[i] = f[i]
        /\ p.name \notin Known => h[new] = OrEmpty(p)
    BY <2>3 DEF OptionsOf, OrEmpty, Known
  <2>5. Listed(tmp_mbuf, f) /\ tmp_mbuf \in Seq(Option)
    BY <2>1 DEF GateInv, ConfigTypeOK
  <2>6. Listed(tmp_mbuf', h)
    <3>1. CASE p.name \in Known
      <4>1. tmp_mbuf' = tmp_mbuf /\ DOMAIN h = DOMAIN f
        BY <1>4, <2>4, <3>1 DEF GatewayParam
      <4> HIDE DEF f, h
      <4> QED
        BY <2>4, <2>5, <4>1, ListedSame
    <3>2. CASE p.name \notin Known
      <4>1. tmp_mbuf' = Append(tmp_mbuf, OrEmpty(p))
        BY <1>4, <3>2 DEF GatewayParam, OrEmpty
      <4>2. OrEmpty(p) \in Option
        BY ConfigAssumption, OptionType DEF OrEmpty, OptNames
      <4>3. DOMAIN f \subseteq 1 .. Len(old) /\ DOMAIN h = DOMAIN f \cup {new}
        BY <2>3, <2>4, <3>2
      <4>4. h[new] = OrEmpty(p) /\ \A i \in DOMAIN f : h[i] = f[i]
        BY <2>4, <3>2
      <4>5. Len(old) \in Nat
        BY <2>3
      <4> HIDE DEF f, h, old
      <4> QED
        BY <2>5, <4>1, <4>2, <4>3, <4>4, <4>5, ListedMore
    <3> QED
      BY <3>1, <3>2
  <2>7. ASSUME forgotten' = 0, NEW n \in Known PROVE known'[n] = Given(gateway'.params, n)
    <3>1. Given(gateway'.params, n) =
            IF Given(old, n) = Nil /\ p.name = n THEN p.val ELSE Given(old, n)
      BY <2>2, GivenMore
    <3>2. known[n] = Given(old, n)
      BY <1>2, <2>1, <2>7 DEF GateInv
    <3>3. known \in [Known -> OrNil] /\ p.val \in OrNil
      BY ConfigAssumption DEF ConfigTypeOK
    <3>4. CASE p.name = n /\ known[n] = Nil
      <4>1. PICK w \in OrNil : Copied(p.val, w) /\ known' = [known EXCEPT ![n] = w]
        BY <1>4, <3>4 DEF GatewayParam
      <4>2. w = p.val
        BY <2>7, <3>3, <4>1, CopiedFacts
      <4> QED
        BY <3>1, <3>2, <3>3, <3>4, <4>1, <4>2
    <3>5. CASE p.name # n \/ known[n] # Nil
      <4>1. known'[n] = known[n]
        BY <1>4, <3>3, <3>5 DEF GatewayParam
      <4> QED
        BY <3>1, <3>2, <3>5, <4>1
    <3> QED
      BY <3>4, <3>5
  <2> QED
    BY <2>6, <2>7 DEF GateInv
<1>5. CASE UNCHANGED <<gateway, known, tmp_mbuf>>
  BY <1>2, <1>5 DEF GateInv
<1>6. CASE gateway' = Nil
  BY <1>6 DEF GateInv
<1>7. \/ \E g \in GatewayNames \cup {Nil} : GatewayOpen(g)
      \/ \E p \in Params : GatewayParam(p.name, p.val)
      \/ UNCHANGED <<gateway, known, tmp_mbuf>> \/ gateway' = Nil
  BY DEF ConfigNext, InstanceId, User, OwnSetting, StackSetting, Rule, Entry, CoreEnd, UsersEnd,
         GatewayClose, GatewaysEnd, DialplanEnd, SettingsEnd, MemFail, Goto, globals,
         buffers, configVars, ConfigTypeOK
<1> QED
  BY <1>3, <1>4, <1>5, <1>6, <1>7

\* And of the gateways that are complete.
GatewaysInv ==
  forgotten = 0 => \A g \in GatewayNames :
    /\ GatewayEntries(g) = {} => gateways_map[g] = Nil
    /\ \A i \in GatewayEntries(g) :
          LastOf(i, GatewayEntries(g)) => ConfiguredAs(gateways_map[g], file[i].entry)

\* What is entered for a gateway is what its own parameters say.
LEMMA EnteredAsWritten ==
  ASSUME NEW k \in [Known -> OrNil], NEW buf \in Seq(Option), NEW e, NEW gw,
         \A n \in Known : k[n] = Given(e.params, n), Listed(buf, OptionsOf(e.params)),
         gw = [user_id |-> k["username"], realm |-> k["domain"], config |-> account(k) \o buf]
  PROVE  ConfiguredAs(gw, e)
<1>1. [n \in Known |-> Given(e.params, n)] = k
  OBVIOUS
<1>2. account(k) \in Seq(Option)
  BY AccountType
<1>3. /\ account(k) \o buf \in Seq(Option)
      /\ SubSeq(account(k) \o buf, Len(account(k)) + 1, Len(account(k) \o buf)) = buf
  BY <1>2, TakenOut
<1>4. gw # Nil
  <2>1. k["username"] \in OrNil /\ k["domain"] \in OrNil
    BY DEF Known
  <2>2. gw \in GatewayConf
    BY <1>3, <2>1 DEF GatewayConf
  <2> QED
    BY <2>2, ConfigAssumption
<1>5. /\ gw.user_id = k["username"] /\ gw.realm = k["domain"]
      /\ gw.config = account(k) \o buf
  OBVIOUS
<1> QED
  BY <1>1, <1>3, <1>4, <1>5, Zenon DEF ConfiguredAs

LEMMA GatewaysStep ==
  ASSUME ConfigTypeOK, RoomInv, GateInv, GatewaysInv, [ConfigNext]_configVars
  PROVE  GatewaysInv'
<1>1. OnlyHere
  BY StepsStayHere
<1>2. forgotten \in Nat /\ forgotten' \in Nat /\ forgotten <= forgotten'
  BY <1>1 DEF OnlyHere
<1>3. CASE UNCHANGED gateways_map /\ (section # "gateways" \/ UNCHANGED file)
  <2>1. Places("gateways")' = Places("gateways") /\ \A i \in Places("gateways") : file'[i] = file[i]
    BY <1>1, <1>3, OtherPlaces
  <2> SUFFICES ASSUME forgotten' = 0, NEW g \in GatewayNames
               PROVE  /\ GatewayEntries(g)' = {} => gateways_map'[g] = Nil
                      /\ \A i \in GatewayEntries(g)' : LastOf(i, GatewayEntries(g)')
                            => ConfiguredAs(gateways_map'[g], file'[i].entry)
    BY DEF GatewaysInv
  <2>2. /\ GatewayEntries(g)' = GatewayEntries(g)
        /\ \A i \in GatewayEntries(g) : file'[i] = file[i]
    BY <2>1 DEF GatewayEntries, Places
  <2> QED
    BY <1>2, <1>3, <2>2 DEF GatewaysInv
<1>4. ASSUME GatewayClose, forgotten' = 0, NEW g \in GatewayNames
      PROVE  /\ GatewayEntries(g)' = {} => gateways_map'[g] = Nil
             /\ \A i \in GatewayEntries(g)' : LastOf(i, GatewayEntries(g)')
                   => ConfiguredAs(gateways_map'[g], file'[i].entry)
  <2> DEFINE new == Len(file) + 1
             complete == /\ ~zstr(gateway.name) /\ ~zstr(known["username"])
                         /\ ~zstr(known["domain"])
             gw == [user_id |-> known["username"], realm |-> known["domain"],
                    config |-> account(known) \o tmp_mbuf]
  <2>1. /\ gateway # Nil /\ gateway \in GatewayEntry
        /\ file' = Append(file, [in |-> "gateways", entry |-> gateway])
    BY <1>4 DEF GatewayClose, ConfigTypeOK
  <2>2. /\ Len(file) \in Nat /\ DOMAIN file = 1 .. Len(file)
        /\ DOMAIN file' = DOMAIN file \cup {new} /\ new \notin DOMAIN file
        /\ file'[new] = [in |-> "gateways", entry |-> gateway]
        /\ \A i \in DOMAIN file : file'[i] = file[i]
    <3>1. [in |-> "gateways", entry |-> gateway] \in FileEntry /\ file \in Seq(FileEntry)
      BY <2>1, EntryTypes DEF ConfigTypeOK
    <3> QED
      BY <2>1, <3>1, Grown
  <2>3. /\ \A n \in Known : known[n] = Given(gateway.params, n)
        /\ Listed(tmp_mbuf, OptionsOf(gateway.params))
    BY <1>2, <1>4, <2>1 DEF GateInv
  <2>4. complete <=> Usable(gateway)
    BY <2>3 DEF Usable, Known
  <2>5. /\ GatewayEntries(g)' = GatewayEntries(g)
                                  \cup (IF gateway.name = g /\ complete THEN {new} ELSE {})
        /\ GatewayEntries(g) \subseteq 1 .. Len(file)
        /\ \A i \in GatewayEntries(g) : file'[i] = file[i]
    <3> HIDE DEF complete
    <3> QED
      BY <2>2, <2>4 DEF GatewayEntries
  <2>6. CASE gateway.name = g /\ complete
    <3>1. gateways_map' = [gateways_map EXCEPT ![gateway.name] = gw]
      BY <2>6, <1>4, ClosedConfig
    <3>2. gateways_map'[g] = gw
      BY <2>6, <3>1 DEF ConfigTypeOK
    <3>3. ConfiguredAs(gw, gateway)
      BY <2>3, EnteredAsWritten DEF ConfigTypeOK
    <3> HIDE DEF gw, complete
    <3>4. \A i \in GatewayEntries(g)' : LastOf(i, GatewayEntries(g)') => i = new
      BY <2>2, <2>5, <2>6 DEF LastOf
    <3>5. file'[new].entry = gateway /\ new \in GatewayEntries(g)'
      BY <2>2, <2>5, <2>6
    <3> QED
      BY <3>2, <3>3, <3>4, <3>5
  <2>7. CASE ~(gateway.name = g /\ complete)
    <3>1. GatewayEntries(g)' = GatewayEntries(g)
      BY <2>5, <2>7
    <3>2. gateways_map'[g] = gateways_map[g]
      <4>1. CASE complete
        <5>1. gateways_map' = [gateways_map EXCEPT ![gateway.name] = gw]
          BY <4>1, <1>4, ClosedConfig
        <5> HIDE DEF gw
        <5> QED
          BY <2>7, <4>1, <5>1 DEF ConfigTypeOK
      <4>2. CASE ~complete
        BY <4>2, <1>4, ClosedConfig
      <4> QED
        BY <4>1, <4>2
    <3>3. forgotten = 0
      BY <1>2, <1>4
    <3> QED
      BY <2>5, <3>1, <3>2, <3>3 DEF GatewaysInv
  <2> QED
    BY <2>6, <2>7
<1>5. GatewayClose => GatewaysInv'
  BY <1>4 DEF GatewaysInv
<1>6. CASE section = "gateways" /\ ~GatewayClose
  <2>1. UNCHANGED <<gateways_map, file>>
    BY <1>6 DEF ConfigNext, InstanceId, OwnSetting, StackSetting, GatewayOpen, GatewayParam,
                User, Rule, Entry, CoreEnd, UsersEnd, GatewaysEnd, DialplanEnd,
                SettingsEnd, MemFail, Goto, globals, configVars
  <2> QED
    BY <1>3, <2>1
<1>7. section # "gateways" => UNCHANGED gateways_map
  BY <1>1 DEF OnlyHere
<1> QED
  BY <1>3, <1>5, <1>6, <1>7

-----------------------------------------------------------------------------
ConfigInv ==
  /\ ConfigTypeOK /\ RoomInv
  /\ UsersInv /\ NameInv /\ RulesInv /\ StackInv /\ GateInv /\ GatewaysInv

\* Nothing is read yet, and nothing is configured.
LEMMA ConfigStart == ConfigInit => ConfigInv
<1> SUFFICES ASSUME ConfigInit PROVE ConfigInv
  OBVIOUS
<1>1. ConfigTypeOK /\ RoomInv
  BY ConfigInitTypes
<1>2. /\ DOMAIN file = {} /\ section = "core-settings" /\ gateway = Nil
      /\ dialplan_rules = <<>> /\ instance_id = Nil
      /\ users_map = [u \in UserIds |-> Nil] /\ gateways_map = [g \in GatewayNames |-> Nil]
  BY DEF ConfigInit
<1>3. UsersInv
  BY <1>2 DEF UsersInv, UserEntries
<1>4. NameInv
  BY <1>2 DEF NameInv, NameEntries, zstr
<1>5. RulesInv
  <2>1. RuleEntries = {}
    BY <1>2 DEF RuleEntries
  <2>2. DOMAIN [i \in RuleEntries |-> file[i].entry] = {}
    BY <2>1
  <2> QED
    BY <1>2, <2>2, ListedNone DEF RulesInv
<1>6. StackInv
  BY <1>2 DEF StackInv, Places, SettingsReachStack, Loaded
<1>7. GateInv
  BY <1>2 DEF GateInv
<1>8. GatewaysInv
  BY <1>2 DEF GatewaysInv, GatewayEntries
<1> QED
  BY <1>1, <1>3, <1>4, <1>5, <1>6, <1>7, <1>8 DEF ConfigInv

LEMMA ConfigStep == ConfigInv /\ [ConfigNext]_configVars => ConfigInv'
<1> SUFFICES ASSUME ConfigInv, [ConfigNext]_configVars PROVE ConfigInv'
  OBVIOUS
<1> USE DEF ConfigInv
<1>1. ConfigTypeOK' /\ RoomInv'
  BY ConfigStepTypes
<1>2. UsersInv' /\ NameInv'
  BY UsersStep, NameStep
<1>3. RulesInv' /\ StackInv'
  BY RulesStep, StackStep
<1>4. GateInv' /\ GatewaysInv'
  BY GateStep, GatewaysStep
<1> QED
  BY <1>1, <1>2, <1>3, <1>4

\* What is configured at the end of the load is what the file says.
LEMMA LoadedAsRead == ConfigInv => ConfigAsWritten
<1> SUFFICES ASSUME ConfigInv PROVE ConfigAsWritten
  OBVIOUS
<1> USE DEF ConfigInv
<1>1. ASSUME NEW u \in UserIds PROVE zstr(u) <=> u = Empty
  BY <1>1, ConfigAssumption DEF zstr
<1>2. UsersAsWritten
  BY <1>1 DEF UsersAsWritten, UsersInv, user_lookup
<1>3. ASSUME NEW g \in GatewayNames PROVE zstr(g) <=> g = Empty
  BY <1>3, ConfigAssumption DEF zstr
<1>4. GatewaysAsWritten
  BY <1>3 DEF GatewaysAsWritten, GatewaysInv, gateway_lookup
<1>5. RulesInOrder
  BY DEF RulesInOrder, RulesInv
<1>6. FirstNameKept
  BY DEF FirstNameKept, NameInv, Loaded
<1>7. SettingsReachStack
  BY DEF StackInv
<1> QED
  BY <1>2, <1>4, <1>5, <1>6, <1>7 DEF ConfigAsWritten

\* The program is configured as the file says, whatever its users, gateways,
\* parameters, rules and settings: an entry that comes twice, one that is not
\* complete, and a buffer that served another leave no trace in what is loaded.
THEOREM ConfiguredAsWritten == ConfigSpec => []ConfigAsWritten
<1>1. ConfigInit => ConfigInv
  BY ConfigStart
<1>2. ConfigInv /\ [ConfigNext]_configVars => ConfigInv'
  BY ConfigStep
<1>3. ConfigInv => ConfigAsWritten
  BY LoadedAsRead
<1> QED
  BY <1>1, <1>2, <1>3, PTL DEF ConfigSpec
=============================================================================
