------------------------------ MODULE Registrar ------------------------------
(***************************************************************************)
(* The location service of empbx: the registrations of the local users     *)
(* (empbx_registration_user_t) shared by two threads.                      *)
(*                                                                         *)
(*   main   the libre loop: it answers REGISTER (ua_sip_request_handler,   *)
(*          empbx_registration_user_new and _update) and uses a            *)
(*          registration it has looked up to set up a call                 *)
(*          (the bridge application);                                      *)
(*   sweep  sipd_registrar_maintenance_thread, which deletes the           *)
(*          registrations that have expired.                               *)
(*                                                                         *)
(* A step is what a thread does between two synchronisation points, so     *)
(* every lock, every unlocked read of shared data and every unlocked       *)
(* read-modify-write is a step of its own.  Time is abstracted to the      *)
(* predicate the sweep evaluates, "expires <= now" (variable lapsed); the  *)
(* arithmetic that yields expires is the subject of module Lifetime.       *)
(***************************************************************************)
EXTENDS Naturals, FiniteSets

CONSTANTS
  Users,        \* the configured users, the keys of regmap_users
  Contacts,     \* the Contact header values a phone may send
  BadContacts,  \* those uri_decode rejects
  NoContact,    \* a NULL string, an all-zero uri_t
  NoUser,       \* a thread works on no registration
  MaxLeaks      \* bound: references one registration may lose for good

ASSUME RegistrarAssumption ==
  /\ BadContacts \subseteq Contacts
  /\ NoContact \notin Contacts
  /\ NoUser \notin Users
  /\ MaxLeaks \in Nat

VARIABLES
  phase,       \* life of the object: none, private, mapped, dying
  refs,        \* reg->refs
  updating,    \* reg->fl_entity_updating
  ua,          \* reg->ua # NULL
  contactStr,  \* reg->contact_str
  contactUri,  \* the string reg->contact_uri was decoded from
  contact,     \* the string reg->contact, the address calls go to, stands for
  lapsed,      \* reg->expires <= empbx_time_epoch_now()
  regLock,     \* who locked reg->mutex
  mapLock,     \* who locked regmap_users_mutex
  uaLock,      \* who locked baresip_mutex
  mpc, mop, muser, mcaller, mcontact, reply,  \* main: control point, locals
  spc, suser, todo, seen,             \* sweep: control point and locals
  leaked       \* history: references nobody is left to give back

objVars  == <<phase, refs, updating, ua, contactStr, contactUri, contact,
              lapsed, leaked>>
lockVars == <<regLock, mapLock, uaLock>>
mainVars == <<mpc, mop, muser, mcaller, mcontact, reply>>
sweepVars == <<spc, suser, todo, seen>>
vars == <<objVars, lockVars, mainVars, sweepVars>>

-----------------------------------------------------------------------------
Free    == "free"
Owners  == {Free, "main", "sweep"}
Phases  == {"none", "private", "mapped", "dying"}
Replies == {"none", "ok", "error"}

\* Main has a pointer it got from empbx_registation_user_lookup.
HoldPcs == {"updLock", "updBuild", "updUa", "updAlloc", "updOut", "held",
            "using", "relLock", "relDec"}

MainPcs == HoldPcs \cup {"idle", "lookup", "find", "new", "newUa", "newInsert"}

\* The sweep is inside ua_destroy, holding baresip_mutex.
UaPcs == {"relFlag", "relLock", "relRead", "relWrite", "relUnlock"}

SweepPcs == UaPcs \cup {"sleep", "scan", "next", "uaLock", "delete", "wait"}

TypeOK ==
  /\ phase \in [Users -> Phases]
  /\ refs \in [Users -> Nat]
  /\ leaked \in [Users -> Nat]
  /\ updating \in [Users -> BOOLEAN]
  /\ ua \in [Users -> BOOLEAN]
  /\ lapsed \in [Users -> BOOLEAN]
  /\ contactStr \in [Users -> Contacts \cup {NoContact}]
  /\ contactUri \in [Users -> Contacts \cup {NoContact}]
  /\ contact \in [Users -> Contacts \cup {NoContact}]
  /\ regLock \in [Users -> Owners]
  /\ mapLock \in Owners
  /\ uaLock \in Owners
  /\ mpc \in MainPcs
  /\ mop \in {"register", "invite", "call"}
  /\ muser \in Users \cup {NoUser}
  /\ mpc # "idle" => muser \in Users
  /\ mcaller \in Users \cup {NoUser}
  /\ mcontact \in Contacts \cup {NoContact}
  /\ reply \in Replies
  /\ spc \in SweepPcs
  /\ suser \in Users \cup {NoUser}
  /\ spc \notin {"sleep", "scan", "next"} => suser \in Users
  /\ todo \subseteq Users
  /\ seen \in Nat

Init ==
  /\ phase = [u \in Users |-> "none"]
  /\ refs = [u \in Users |-> 0]
  /\ leaked = [u \in Users |-> 0]
  /\ updating = [u \in Users |-> FALSE]
  /\ ua = [u \in Users |-> FALSE]
  /\ lapsed = [u \in Users |-> FALSE]
  /\ contactStr = [u \in Users |-> NoContact]
  /\ contactUri = [u \in Users |-> NoContact]
  /\ contact = [u \in Users |-> NoContact]
  /\ regLock = [u \in Users |-> Free]
  /\ mapLock = Free
  /\ uaLock = Free
  /\ mpc = "idle" /\ mop = "register" /\ muser = NoUser /\ mcaller = NoUser
  /\ mcontact = NoContact /\ reply = "none"
  /\ spc = "sleep" /\ suser = NoUser /\ todo = {} /\ seen = 0

-----------------------------------------------------------------------------
(***************************************************************************)
(* Objects.                                                                *)
(***************************************************************************)

\* mem_deref of the last pointer: the fields, the mutex and the memory go.
FreeReg(u) ==
  /\ phase' = [phase EXCEPT ![u] = "none"]
  /\ refs' = [refs EXCEPT ![u] = 0]
  /\ leaked' = [leaked EXCEPT ![u] = 0]
  /\ updating' = [updating EXCEPT ![u] = FALSE]
  /\ ua' = [ua EXCEPT ![u] = FALSE]
  /\ lapsed' = [lapsed EXCEPT ![u] = FALSE]
  /\ contactStr' = [contactStr EXCEPT ![u] = NoContact]
  /\ contactUri' = [contactUri EXCEPT ![u] = NoContact]
  /\ contact' = [contact EXCEPT ![u] = NoContact]
  /\ regLock' = [regLock EXCEPT ![u] = Free]

\* What update has stored of the new Contact header when it goes on or fails.
StoreContact(u, str, uri, plain) ==
  /\ contactStr' = [contactStr EXCEPT ![u] = str]
  /\ contactUri' = [contactUri EXCEPT ![u] = uri]
  /\ contact' = [contact EXCEPT ![u] = plain]

\* The clock reaches reg->expires.
Lapse(u) ==
  /\ phase[u] \in {"mapped", "dying"}
  /\ ~lapsed[u]
  /\ lapsed' = [lapsed EXCEPT ![u] = TRUE]
  /\ UNCHANGED <<phase, refs, leaked, updating, ua, contactStr, contactUri,
                 contact, lockVars, mainVars, sweepVars>>

-----------------------------------------------------------------------------
(***************************************************************************)
(* Main thread: requests and lookup.                                       *)
(***************************************************************************)

Begin(op, u, c) ==
  /\ mpc = "idle"
  /\ mpc' = "lookup" /\ mop' = op /\ muser' = u /\ mcontact' = c
  /\ UNCHANGED <<mcaller, reply, objVars, lockVars, sweepVars>>

\* An accepted REGISTER; an INVITE no UA claims, so that the caller is looked
\* up; a call from a UA that already knows its caller, straight to the bridge.
Register(u, c) == Begin("register", u, c)
Invite(u)      == Begin("invite", u, NoContact)
Call(u)        == leaked[u] < MaxLeaks /\ Begin("call", u, NoContact)

\* Back to the loop, or back to the INVITE handler, which gives its caller back.
Finish ==
  /\ IF mcaller = NoUser
     THEN mpc' = "idle" /\ muser' = NoUser
     ELSE mpc' = "relLock" /\ muser' = mcaller
  /\ mcaller' = NoUser /\ mop' = "register" /\ mcontact' = NoContact
  /\ reply' = "none"

LookupLock ==
  /\ mpc = "lookup" /\ mapLock = Free
  /\ mapLock' = "main" /\ mpc' = "find"
  /\ UNCHANGED <<mop, muser, mcaller, mcontact, reply, objVars, regLock,
                 uaLock, sweepVars>>

LookupHit ==
  /\ mpc = "find" /\ phase[muser] = "mapped" /\ regLock[muser] = Free
  /\ refs' = [refs EXCEPT ![muser] = @ + 1]
  /\ mapLock' = Free
  /\ mpc' = IF mop = "register" THEN "updLock" ELSE "held"
  /\ UNCHANGED <<mop, muser, mcaller, mcontact, reply, phase, leaked, updating,
                 ua, lapsed, contactStr, contactUri, contact, regLock, uaLock,
                 sweepVars>>

\* Faulty variant: a miss returns with regmap_users_mutex locked.
LookupMissKeepsLock ==
  /\ mpc = "find" /\ phase[muser] # "mapped"
  /\ IF mop = "register"
     THEN mpc' = "new" /\ UNCHANGED <<mop, muser, mcaller, mcontact, reply>>
     ELSE Finish
  /\ UNCHANGED <<objVars, lockVars, sweepVars>>

LookupMiss ==
  /\ mpc = "find" /\ phase[muser] # "mapped"
  /\ mapLock' = Free
  /\ IF mop = "register"
     THEN mpc' = "new" /\ UNCHANGED <<mop, muser, mcaller, mcontact, reply>>
     ELSE Finish
  /\ UNCHANGED <<objVars, regLock, uaLock, sweepVars>>

-----------------------------------------------------------------------------
(***************************************************************************)
(* Main thread: empbx_registration_user_new.                               *)
(***************************************************************************)

NewBuild ==
  /\ mpc = "new" /\ mcontact \notin BadContacts
  /\ phase' = [phase EXCEPT ![muser] = "private"]
  /\ StoreContact(muser, mcontact, mcontact, mcontact)
  /\ mpc' = "newUa"
  /\ UNCHANGED <<mop, muser, mcaller, mcontact, reply, refs, leaked, updating,
                 ua, lapsed, lockVars, sweepVars>>

\* The contact does not decode, or memory is out: the object is dropped.
NewFail ==
  /\ mpc = "new"
  /\ Finish
  /\ UNCHANGED <<objVars, lockVars, sweepVars>>

\* ua_alloc under baresip_mutex; the xuser data of the UA takes a reference.
NewUa ==
  /\ mpc = "newUa" /\ uaLock = Free
  /\ ua' = [ua EXCEPT ![muser] = TRUE]
  /\ refs' = [refs EXCEPT ![muser] = @ + 1]
  /\ mpc' = "newInsert"
  /\ UNCHANGED <<mop, muser, mcaller, mcontact, reply, phase, leaked, updating,
                 lapsed, contactStr, contactUri, contact, lockVars, sweepVars>>

NewUaFail ==
  /\ mpc = "newUa" /\ uaLock = Free
  /\ FreeReg(muser)
  /\ Finish
  /\ UNCHANGED <<mapLock, uaLock, sweepVars>>

NewInsert ==
  /\ mpc = "newInsert" /\ mapLock = Free
  /\ phase' = [phase EXCEPT ![muser] = "mapped"]
  /\ Finish
  /\ UNCHANGED <<refs, leaked, updating, ua, lapsed, contactStr, contactUri,
                 contact, lockVars, sweepVars>>

\* The insertion fails: the UA, and with it its reference, is destroyed first.
NewInsertFail ==
  /\ mpc = "newInsert" /\ mapLock = Free
  /\ FreeReg(muser)
  /\ Finish
  /\ UNCHANGED <<mapLock, uaLock, sweepVars>>

-----------------------------------------------------------------------------
(***************************************************************************)
(* Main thread: empbx_registration_user_update.                            *)
(***************************************************************************)

UpdateLock ==
  /\ mpc = "updLock" /\ regLock[muser] = Free
  /\ regLock' = [regLock EXCEPT ![muser] = "main"]
  /\ updating' = [updating EXCEPT ![muser] = TRUE]
  /\ mpc' = "updBuild"
  /\ UNCHANGED <<mop, muser, mcaller, mcontact, reply, phase, refs, leaked, ua,
                 lapsed, contactStr, contactUri, contact, mapLock, uaLock,
                 sweepVars>>

\* The contact is the one stored: only the lifetime is renewed.
UpdateSame ==
  /\ mpc = "updBuild" /\ contactStr[muser] = mcontact
  /\ mpc' = "updOut" /\ reply' = "ok"
  /\ UNCHANGED <<mop, muser, mcaller, mcontact, objVars, lockVars, sweepVars>>

\* The contact is new.  The fields are replaced one after the other, and a
\* failure leaves those already replaced: str_dup (1), uri_decode (2), the
\* plain contact (3), the display name, absent from the From header, or the
\* buffer of the UA's configuration (4).
UpdateFail ==
  /\ mpc = "updBuild" /\ contactStr[muser] # mcontact
  /\ \/ StoreContact(muser, NoContact, contactUri[muser], contact[muser])
     \/ /\ mcontact \in BadContacts
        /\ StoreContact(muser, mcontact, NoContact, contact[muser])
     \/ /\ mcontact \notin BadContacts
        /\ \E plain \in {NoContact, mcontact} :
             StoreContact(muser, mcontact, mcontact, plain)
  /\ mpc' = "updOut" /\ reply' = "error"
  /\ UNCHANGED <<mop, muser, mcaller, mcontact, phase, refs, leaked, updating,
                 ua, lapsed, lockVars, sweepVars>>

\* Faulty variant: the plain contact keeps its old value.
UpdateBuildKeepsContact ==
  /\ mpc = "updBuild" /\ contactStr[muser] # mcontact
  /\ mcontact \notin BadContacts
  /\ StoreContact(muser, mcontact, mcontact, contact[muser])
  /\ mpc' = "updUa"
  /\ UNCHANGED <<mop, muser, mcaller, mcontact, reply, phase, refs, leaked,
                 updating, ua, lapsed, lockVars, sweepVars>>

UpdateBuild ==
  /\ mpc = "updBuild" /\ contactStr[muser] # mcontact
  /\ mcontact \notin BadContacts
  /\ StoreContact(muser, mcontact, mcontact, mcontact)
  /\ mpc' = "updUa"
  /\ UNCHANGED <<mop, muser, mcaller, mcontact, reply, phase, refs, leaked,
                 updating, ua, lapsed, lockVars, sweepVars>>

\* empbx_ua_destroy under baresip_mutex.  The UA's xuser data gives its
\* reference back; it sees fl_entity_updating and does not lock reg->mutex.
UpdateUaDestroy ==
  /\ mpc = "updUa" /\ uaLock = Free
  /\ uaLock' = "main"
  /\ refs' = [refs EXCEPT ![muser] = IF ua[muser] /\ @ > 0 THEN @ - 1 ELSE @]
  /\ ua' = [ua EXCEPT ![muser] = FALSE]
  /\ mpc' = "updAlloc"
  /\ UNCHANGED <<mop, muser, mcaller, mcontact, reply, phase, leaked, updating,
                 lapsed, contactStr, contactUri, contact, regLock, mapLock,
                 sweepVars>>

\* Faulty variant: the xuser data of the new UA takes no reference.
UpdateUaAllocNoTake ==
  /\ mpc = "updAlloc"
  /\ ua' = [ua EXCEPT ![muser] = TRUE]
  /\ uaLock' = Free
  /\ mpc' = "updOut" /\ reply' = "ok"
  /\ UNCHANGED <<mop, muser, mcaller, mcontact, phase, refs, leaked, updating,
                 lapsed, contactStr, contactUri, contact, regLock, mapLock,
                 sweepVars>>

UpdateUaAlloc ==
  /\ mpc = "updAlloc"
  /\ ua' = [ua EXCEPT ![muser] = TRUE]
  /\ refs' = [refs EXCEPT ![muser] = @ + 1]
  /\ uaLock' = Free
  /\ mpc' = "updOut" /\ reply' = "ok"
  /\ UNCHANGED <<mop, muser, mcaller, mcontact, phase, leaked, updating, lapsed,
                 contactStr, contactUri, contact, regLock, mapLock, sweepVars>>

\* Faulty variant: the error path leaves baresip_mutex locked.
UpdateUaFailKeepsLock ==
  /\ mpc = "updAlloc"
  /\ mpc' = "updOut" /\ reply' = "error"
  /\ UNCHANGED <<mop, muser, mcaller, mcontact, objVars, lockVars, sweepVars>>

UpdateUaFail ==
  /\ mpc = "updAlloc"
  /\ uaLock' = Free
  /\ mpc' = "updOut" /\ reply' = "error"
  /\ UNCHANGED <<mop, muser, mcaller, mcontact, objVars, regLock, mapLock,
                 sweepVars>>

\* A success sets reg->expires; either way the flag falls, the mutex is
\* unlocked and the handler replies.
UpdateOut ==
  /\ mpc = "updOut"
  /\ lapsed' = [lapsed EXCEPT ![muser] = @ /\ reply = "error"]
  /\ updating' = [updating EXCEPT ![muser] = FALSE]
  /\ regLock' = [regLock EXCEPT ![muser] = Free]
  /\ mpc' = "relLock"
  /\ UNCHANGED <<mop, muser, mcaller, mcontact, reply, phase, refs, leaked, ua,
                 contactStr, contactUri, contact, mapLock, uaLock, sweepVars>>

-----------------------------------------------------------------------------
(***************************************************************************)
(* Main thread: calls, and empbx_registration_user_release.                *)
(***************************************************************************)

\* The INVITE is challenged, or refused: the caller is released.
InviteRefuse ==
  /\ mpc = "held" /\ mop = "invite"
  /\ mpc' = "relLock"
  /\ UNCHANGED <<mop, muser, mcaller, mcontact, reply, objVars, lockVars,
                 sweepVars>>

\* ua_accept raises CALL_INCOMING inside the handler, which keeps its caller
\* while the bridge application looks up the callee.
InviteAccept(u) ==
  /\ mpc = "held" /\ mop = "invite"
  /\ leaked[u] < MaxLeaks
  /\ mcaller' = muser /\ muser' = u
  /\ mop' = "call" /\ mpc' = "lookup"
  /\ UNCHANGED <<mcontact, reply, objVars, lockVars, sweepVars>>

\* The session constructor reads to_user->ua for ua_connect.
BridgeConnect ==
  /\ mpc = "held" /\ mop = "call" /\ ua[muser]
  /\ mpc' = "using"
  /\ UNCHANGED <<mop, muser, mcaller, mcontact, reply, objVars, lockVars,
                 sweepVars>>

BridgeDone ==
  /\ mpc = "using"
  /\ mpc' = "relLock"
  /\ UNCHANGED <<mop, muser, mcaller, mcontact, reply, objVars, lockVars,
                 sweepVars>>

\* The session cannot be created: perform_handler leaves without releasing
\* the callee.
BridgeFail ==
  /\ \/ mpc = "using"
     \/ mpc = "held" /\ mop = "call"
  /\ leaked' = [leaked EXCEPT ![muser] = @ + 1]
  /\ Finish
  /\ UNCHANGED <<phase, refs, updating, ua, lapsed, contactStr, contactUri,
                 contact, lockVars, sweepVars>>

ReleaseLock ==
  /\ mpc = "relLock" /\ regLock[muser] = Free
  /\ regLock' = [regLock EXCEPT ![muser] = "main"]
  /\ mpc' = "relDec"
  /\ UNCHANGED <<mop, muser, mcaller, mcontact, reply, objVars, mapLock, uaLock,
                 sweepVars>>

ReleaseDec ==
  /\ mpc = "relDec"
  /\ refs' = [refs EXCEPT ![muser] = IF @ > 0 THEN @ - 1 ELSE @]
  /\ regLock' = [regLock EXCEPT ![muser] = Free]
  /\ Finish
  /\ UNCHANGED <<phase, leaked, updating, ua, lapsed, contactStr, contactUri,
                 contact, mapLock, uaLock, sweepVars>>

-----------------------------------------------------------------------------
(***************************************************************************)
(* The maintenance thread.                                                 *)
(***************************************************************************)

\* The timer is due and the map, read without its mutex, is not empty.
SweepStart ==
  /\ spc = "sleep" /\ \E u \in Users : phase[u] = "mapped"
  /\ spc' = "scan"
  /\ UNCHANGED <<suser, todo, seen, objVars, lockVars, mainVars>>

\* Faulty variants: the expiry test is dropped, is inverted, or the map is
\* walked without its mutex.
SweepCollectAll ==
  /\ spc = "scan" /\ mapLock = Free
  /\ mapLock' = "sweep" /\ spc' = "next"
  /\ todo' = {u \in Users : phase[u] = "mapped"}
  /\ UNCHANGED <<suser, seen, objVars, regLock, uaLock, mainVars>>

SweepCollectInverted ==
  /\ spc = "scan" /\ mapLock = Free
  /\ mapLock' = "sweep" /\ spc' = "next"
  /\ todo' = {u \in Users : phase[u] = "mapped" /\ ~lapsed[u]}
  /\ UNCHANGED <<suser, seen, objVars, regLock, uaLock, mainVars>>

SweepCollectUnlocked ==
  /\ spc = "scan"
  /\ spc' = "next"
  /\ todo' = {u \in Users : phase[u] = "mapped" /\ lapsed[u]}
  /\ UNCHANGED <<suser, seen, objVars, lockVars, mainVars>>

SweepCollect ==
  /\ spc = "scan" /\ mapLock = Free
  /\ mapLock' = "sweep" /\ spc' = "next"
  /\ todo' = {u \in Users : phase[u] = "mapped" /\ lapsed[u]}
  /\ UNCHANGED <<suser, seen, objVars, regLock, uaLock, mainVars>>

\* entry->ua is read before baresip_mutex is locked.
SweepPop(u) ==
  /\ spc = "next" /\ u \in todo
  /\ todo' = todo \ {u} /\ suser' = u
  /\ spc' = IF ua[u] THEN "uaLock" ELSE "delete"
  /\ UNCHANGED <<seen, objVars, lockVars, mainVars>>

SweepDone ==
  /\ spc = "next" /\ todo = {}
  /\ mapLock' = Free
  /\ spc' = "sleep" /\ suser' = NoUser
  /\ UNCHANGED <<todo, seen, objVars, regLock, uaLock, mainVars>>

SweepUaLock ==
  /\ spc = "uaLock" /\ uaLock = Free
  /\ IF ua[suser]
     THEN uaLock' = "sweep" /\ spc' = "relFlag"
     ELSE uaLock' = uaLock /\ spc' = "delete"
  /\ UNCHANGED <<suser, todo, seen, objVars, regLock, mapLock, mainVars>>

\* empbx_registration_user_release, called by the destructor of the xuser
\* data: the flag is read, without the mutex, to decide about the mutex ...
SweepRelFlag ==
  /\ spc = "relFlag"
  /\ spc' = IF updating[suser] THEN "relRead" ELSE "relLock"
  /\ UNCHANGED <<suser, todo, seen, objVars, lockVars, mainVars>>

SweepRelLock ==
  /\ spc = "relLock" /\ regLock[suser] = Free
  /\ regLock' = [regLock EXCEPT ![suser] = "sweep"]
  /\ spc' = "relRead"
  /\ UNCHANGED <<suser, todo, seen, objVars, mapLock, uaLock, mainVars>>

SweepRelRead ==
  /\ spc = "relRead"
  /\ seen' = refs[suser] /\ spc' = "relWrite"
  /\ UNCHANGED <<suser, todo, objVars, lockVars, mainVars>>

\* A decrement main made since the read is overwritten.
SweepRelWrite ==
  /\ spc = "relWrite"
  /\ IF seen > 0
     THEN /\ refs' = [refs EXCEPT ![suser] = seen - 1]
          /\ leaked' = [leaked EXCEPT ![suser] = @ + (seen - refs[suser])]
     ELSE UNCHANGED <<refs, leaked>>
  /\ seen' = 0 /\ spc' = "relUnlock"
  /\ UNCHANGED <<suser, todo, phase, updating, ua, lapsed, contactStr,
                 contactUri, contact, lockVars, mainVars>>

\* ... and read again to decide about the unlock, which no thread but the
\* owner should do.  ua_destroy returns, baresip_mutex is unlocked.
SweepRelUnlock ==
  /\ spc = "relUnlock"
  /\ regLock' = IF updating[suser] THEN regLock
                                   ELSE [regLock EXCEPT ![suser] = Free]
  /\ ua' = [ua EXCEPT ![suser] = FALSE]
  /\ uaLock' = Free
  /\ spc' = "delete"
  /\ UNCHANGED <<suser, todo, seen, phase, refs, leaked, updating, lapsed,
                 contactStr, contactUri, contact, mapLock, mainVars>>

\* Faulty variant: the destructor does not look at the counter.
SweepDeleteNoWait ==
  /\ spc = "delete"
  /\ FreeReg(suser) /\ spc' = "next" /\ suser' = NoUser
  /\ UNCHANGED <<todo, seen, mapLock, uaLock, mainVars>>

\* empbx_hash_delete unlinks the entry and runs the destructor, which frees
\* the object at once when it is not referenced ...
SweepDelete ==
  /\ spc = "delete"
  /\ IF refs[suser] = 0
     THEN FreeReg(suser) /\ spc' = "next" /\ suser' = NoUser
     ELSE /\ phase' = [phase EXCEPT ![suser] = "dying"]
          /\ spc' = "wait"
          /\ UNCHANGED <<suser, refs, leaked, updating, ua, lapsed, contactStr,
                         contactUri, contact, regLock>>
  /\ UNCHANGED <<todo, seen, mapLock, uaLock, mainVars>>

\* Faulty variant: the destructor polls once and frees.
SweepWaitGivesUp ==
  /\ spc = "wait" /\ regLock[suser] = Free
  /\ FreeReg(suser)
  /\ spc' = "next" /\ suser' = NoUser
  /\ UNCHANGED <<todo, seen, mapLock, uaLock, mainVars>>

\* ... and otherwise polls the counter, regmap_users_mutex held all the while.
SweepWait ==
  /\ spc = "wait" /\ regLock[suser] = Free /\ refs[suser] = 0
  /\ FreeReg(suser)
  /\ spc' = "next" /\ suser' = NoUser
  /\ UNCHANGED <<todo, seen, mapLock, uaLock, mainVars>>

-----------------------------------------------------------------------------
Environment ==
  \/ \E u \in Users : Lapse(u) \/ Invite(u) \/ Call(u)
  \/ \E u \in Users, c \in Contacts : Register(u, c)

MainStep ==
  \/ LookupLock \/ LookupHit \/ LookupMiss
  \/ NewBuild \/ NewFail \/ NewUa \/ NewUaFail \/ NewInsert \/ NewInsertFail
  \/ UpdateLock \/ UpdateSame \/ UpdateFail \/ UpdateBuild
  \/ UpdateUaDestroy \/ UpdateUaAlloc \/ UpdateUaFail \/ UpdateOut
  \/ InviteRefuse \/ \E u \in Users : InviteAccept(u)
  \/ BridgeConnect \/ BridgeDone \/ BridgeFail
  \/ ReleaseLock \/ ReleaseDec

SweepStep ==
  \/ SweepStart \/ SweepCollect \/ SweepDone \/ \E u \in Users : SweepPop(u)
  \/ SweepUaLock \/ SweepRelFlag \/ SweepRelLock \/ SweepRelRead
  \/ SweepRelWrite \/ SweepRelUnlock \/ SweepDelete \/ SweepWait

Next == Environment \/ MainStep \/ SweepStep

Spec == Init /\ [][Next]_vars

(***************************************************************************)
(* Both threads run on.  Strong fairness, because a mutex the other thread *)
(* keeps taking must be had in the end: the sweep sleeps a second and more *)
(* with all mutexes free between two sweeps, and main waits for the        *)
(* network between two requests.                                           *)
(***************************************************************************)
Fairness == SF_vars(MainStep) /\ SF_vars(SweepStep)

FairSpec == Spec /\ Fairness

-----------------------------------------------------------------------------
(***************************************************************************)
(* Reference counting.                                                     *)
(***************************************************************************)

\* The references to u's registration main has to give back.
MainHolds(u) == (IF mpc \in HoldPcs /\ muser = u THEN 1 ELSE 0)
                + (IF mcaller = u THEN 1 ELSE 0)

\* The reference the xuser data of the UA stands for.
UaHolds(u) == IF ua[u] /\ ~(spc = "relUnlock" /\ suser = u) THEN 1 ELSE 0

\* reg->refs counts the UA, the pointers main holds and the references that
\* were lost for good (a failed bridge, an overwritten decrement), whatever
\* the unlocked paths of release do.
RefsAccounted ==
  \A u \in Users : refs[u] = UaHolds(u) + MainHolds(u) + leaked[u]

\* The registration main got from a lookup is never freed under it, although
\* the sweep may unlink it from regmap_users at any time.
HeldNotFreed ==
  /\ mpc \in HoldPcs => phase[muser] \in {"mapped", "dying"}
  /\ mcaller # NoUser => phase[mcaller] \in {"mapped", "dying"}

-----------------------------------------------------------------------------
(***************************************************************************)
(* Stalls.  The two threads can block each other for good in three ways.   *)
(***************************************************************************)

\* update holds reg->mutex and wants baresip_mutex; the sweep, destroying the
\* same UA under baresip_mutex, wants reg->mutex to give the reference back.
LockInversion ==
  /\ mpc = "updUa" /\ spc = "relLock"
  /\ muser = suser /\ regLock[suser] = "main"

\* The destructor waits, under regmap_users_mutex, for a reference that is
\* the INVITE handler's, which waits for regmap_users_mutex.
CallerHeld == spc = "wait" /\ mpc = "lookup" /\ mcaller = suser

\* The destructor waits for references nobody is left to give back.
Orphaned == spc = "wait" /\ MainHolds(suser) = 0 /\ refs[suser] > 0

Wedged == LockInversion \/ CallerHeld \/ Orphaned

\* The mutex a request waits for, when it cannot go on ...
MainWaits ==
  \/ mpc \in {"lookup", "newInsert"} /\ mapLock # Free
  \/ mpc \in {"newUa", "updUa"} /\ uaLock # Free
  \/ mpc \in {"updLock", "relLock"} /\ regLock[muser] # Free
  \/ mpc = "find" /\ phase[muser] = "mapped" /\ regLock[muser] # Free

\* ... and the sweep: a mutex, an entry to look at, or a counter to fall.
SweepWaits ==
  \/ spc = "sleep" /\ \A u \in Users : phase[u] # "mapped"
  \/ spc = "scan" /\ mapLock # Free
  \/ spc = "uaLock" /\ uaLock # Free
  \/ spc = "relLock" /\ regLock[suser] # Free
  \/ spc = "wait" /\ (regLock[suser] # Free \/ refs[suser] > 0)

\* No other order of lock operations blocks the server: both wait in a wedge only.
WaitsAreWedges == MainWaits /\ SweepWaits => Wedged

\* A request that cannot go on while the sweep cannot either is stuck for one
\* of these reasons.
StuckOnlyIfWedged ==
  /\ mpc # "idle" => (~ENABLED MainStep <=> MainWaits)
  /\ ~ENABLED SweepStep <=> SweepWaits
  /\ WaitsAreWedges

\* There is no way out of a wedge: the poll of the destructor, which retries
\* every 250 ms, never succeeds later.
WedgedForever == [][Wedged => Wedged']_vars

\* While no registration expires, every request is answered, whatever the
\* sweep, failures and leaked references do.
AnsweredUnlessLapsed ==
  [](\A u \in Users : ~lapsed[u]) => (mpc # "idle" ~> mpc = "idle")

\* An expired registration is deleted or renewed, unless the server wedges.
LapsedIsSwept ==
  []~Wedged =>
    \A u \in Users : (phase[u] = "mapped" /\ lapsed[u])
                       ~> (phase[u] # "mapped" \/ ~lapsed[u])

-----------------------------------------------------------------------------
(***************************************************************************)
(* What the sweep deletes.                                                 *)
(***************************************************************************)

\* The registrations the sweep has collected and not freed yet.
Doomed == todo \cup ({suser} \ {NoUser})

\* The sweep checks expiry once, when it collects: a refresh that is already
\* past its lookup then comes too late.  At most one registration per sweep
\* is lost that way.
AtMostOneFreshDoomed ==
  \A u, v \in Doomed : ~lapsed[u] /\ ~lapsed[v] => u = v

\* While main sets up a call on a registration's UA, the UA is destroyed under
\* it only if the registration has expired.
UaInUseOnlyLostToExpiry ==
  [][mpc = "using" /\ ua[muser] /\ ~ua'[muser] => lapsed[muser]]_vars

\* "check expired regs": the maintenance thread deletes expired registrations.
OnlyExpiredDeleted ==
  [][\A u \in Users : phase[u] = "mapped" /\ phase'[u] # "mapped"
                        => lapsed[u]]_vars

-----------------------------------------------------------------------------
(***************************************************************************)
(* What a registration says.                                               *)
(***************************************************************************)

\* A REGISTER answered with 200 leaves calls going to the contact it gave,
\* unless an earlier, failed update has left the contact half replaced.
OkMeansReachable ==
  mpc = "relLock" /\ mop = "register" /\ reply = "ok" =>
    \/ contact[muser] = mcontact
    \/ contactUri[muser] = NoContact
    \/ contact[muser] = NoContact

\* "contact_uri: ref to contact_str" between two requests.
ContactUriRefersToContactStr ==
  mpc = "idle" => \A u \in Users : contactUri[u] = contactStr[u]
=============================================================================
