------------------------------ MODULE Sessions ------------------------------
(***************************************************************************)
(* Call legs and sessions.  A call arrives at a UA; the bridge application *)
(* connects a second leg through the UA of the callee or of a gateway and  *)
(* a session takes over the events of both legs.  A leg has one reference, *)
(* whose owner is first the UA and then the session: whoever ends the call *)
(* gives it back, and nothing tells the session when a UA is destroyed.    *)
(*                                                                         *)
(* The main thread runs every handler to its end; the only other actor is  *)
(* the registrar's maintenance thread, which destroys UAs of expired       *)
(* registrations at any moment, so the set-up of a session is cut into     *)
(* steps.  Legs and sessions are not used twice: a pointer to a freed one  *)
(* stays recognisable.                                                     *)
(***************************************************************************)
EXTENDS Naturals, FiniteSets

CONSTANTS
  Calls,     \* the call objects
  Sids,      \* the session objects
  Uas,       \* the user agents
  Gateways,  \* those that belong to gateways
  None       \* no call, no session, no UA

ASSUME SessionsAssumption ==
  /\ Gateways \subseteq Uas
  /\ None \notin Calls \cup Sids \cup Uas \cup {"ua"}
  /\ Calls \cap Sids = {}
  /\ "ua" \notin Sids

VARIABLES
  call,     \* state of each leg
  line,     \* the UA whose list of calls a leg is in
  owner,    \* whom the events of a leg go to: "ua" or a session
  sess,     \* state of each session
  lega, legb,
  up,       \* the UAs that exist
  mpc, mcall, msess,  \* main: control point, call and session being set up
  touched,  \* history: freed objects the program used
  flushed,  \* history: legs freed by the destruction of their UA
  dropped   \* history: legs freed because their session could not be set up

legVars  == <<call, line, owner>>
sessVars == <<sess, lega, legb>>
mainVars == <<mpc, mcall, msess>>
vars == <<legVars, sessVars, up, mainVars, touched, flushed, dropped>>

\* The other side, or the network, can still end a leg in these states.
LiveStates == {"incoming", "answered", "outgoing", "established"}

TypeOK ==
  /\ call \in [Calls -> LiveStates \cup {"none", "rejected", "freed"}]
  /\ line \in [Calls -> Uas \cup {None}]
  /\ owner \in [Calls -> Sids \cup {"ua", None}]
  /\ sess \in [Sids -> {"none", "up", "over"}]
  /\ lega \in [Sids -> Calls \cup {None}]
  /\ legb \in [Sids -> Calls \cup {None}]
  /\ up \subseteq Uas
  /\ mpc \in {"idle", "route", "connected", "hung"}
  /\ mpc \in {"route", "connected"} => mcall \in Calls
  /\ mpc = "connected" => msess \in Sids
  /\ touched \subseteq Calls \cup Sids
  /\ flushed \subseteq Calls
  /\ dropped \subseteq Calls

Init ==
  /\ call = [c \in Calls |-> "none"]
  /\ line = [c \in Calls |-> None]
  /\ owner = [c \in Calls |-> None]
  /\ sess = [s \in Sids |-> "none"]
  /\ lega = [s \in Sids |-> None]
  /\ legb = [s \in Sids |-> None]
  /\ up = Gateways
  /\ mpc = "idle" /\ mcall = None /\ msess = None
  /\ touched = {} /\ flushed = {} /\ dropped = {}

-----------------------------------------------------------------------------
Freed(cs) == {c \in cs : call[c] = "freed"}

\* mem_deref of the last reference of each leg of cs.
Free(cs) == call' = [c \in Calls |-> IF c \in cs THEN "freed" ELSE call[c]]

Legs(s) == {lega[s], legb[s]} \ {None}

Peer(s, c) == IF lega[s] = c THEN legb[s] ELSE lega[s]

\* ua_accept: the call is created and announced; the handler looks the
\* number up in the dialplan and starts the application.
Incoming(c, u) ==
  /\ mpc = "idle" /\ call[c] = "none" /\ u \in up
  /\ call' = [call EXCEPT ![c] = "incoming"]
  /\ line' = [line EXCEPT ![c] = u]
  /\ owner' = [owner EXCEPT ![c] = "ua"]
  /\ mpc' = "route" /\ mcall' = c
  /\ UNCHANGED <<sessVars, up, msess, touched, flushed, dropped>>

\* Faulty variant: the handler leaves without hanging up.
RouteFailSilent ==
  /\ mpc = "route"
  /\ mpc' = "idle" /\ mcall' = None
  /\ UNCHANGED <<legVars, sessVars, up, msess, touched, flushed, dropped>>

\* call_hangup: no rule, no application, no such user or gateway, two
\* gateways, or no memory for the session.
RouteFail ==
  /\ mpc = "route"
  /\ touched' = touched \cup Freed({mcall})
  /\ call' = [call EXCEPT ![mcall] = IF @ = "freed" THEN @ ELSE "rejected"]
  /\ mpc' = "idle" /\ mcall' = None
  /\ UNCHANGED <<line, owner, sessVars, up, msess, flushed, dropped>>

\* The session constructor: leg a is the call, ua_connect makes leg b.
Connect(s, d, v) ==
  /\ mpc = "route" /\ sess[s] = "none" /\ call[d] = "none" /\ v \in up
  /\ line[mcall] \notin Gateways \/ v \notin Gateways
  /\ touched' = touched \cup Freed({mcall})
  /\ call' = [call EXCEPT ![d] = "outgoing"]
  /\ line' = [line EXCEPT ![d] = v]
  /\ owner' = [owner EXCEPT ![d] = "ua"]
  /\ sess' = [sess EXCEPT ![s] = "up"]
  /\ lega' = [lega EXCEPT ![s] = mcall]
  /\ legb' = [legb EXCEPT ![s] = d]
  /\ mpc' = "connected" /\ msess' = s
  /\ UNCHANGED <<up, mcall, flushed, dropped>>

\* ua_connect fails.  The destructor of the half-made session frees leg a,
\* and the handler then hangs that call up.
ConnectFail ==
  /\ mpc = "route"
  /\ Free({mcall})
  /\ dropped' = dropped \cup {mcall}
  /\ touched' = touched \cup {mcall}
  /\ mpc' = "idle" /\ mcall' = None
  /\ UNCHANGED <<line, owner, sessVars, up, msess, flushed>>

\* regmap_sessions has no memory for the entry.  The constructor counts the
\* caller's reference all the same and drops the session: the destructor
\* waits for a reference that its own thread holds.
InsertFail(d, v) ==
  /\ mpc = "route" /\ call[d] = "none" /\ v \in up
  /\ line[mcall] \notin Gateways \/ v \notin Gateways
  /\ touched' = touched \cup Freed({mcall})
  /\ call' = [call EXCEPT ![d] = "outgoing"]
  /\ line' = [line EXCEPT ![d] = v]
  /\ owner' = [owner EXCEPT ![d] = "ua"]
  /\ mpc' = "hung"
  /\ UNCHANGED <<sessVars, up, mcall, msess, flushed, dropped>>

\* Faulty variant: only leg a gets the handlers of the session.
SetHandlersLegA ==
  /\ mpc = "connected"
  /\ touched' = touched \cup Freed(Legs(msess))
  /\ owner' = [owner EXCEPT ![mcall] = msess]
  /\ mpc' = "idle" /\ mcall' = None /\ msess' = None
  /\ UNCHANGED <<call, line, sessVars, up, flushed, dropped>>

\* The devices and the handlers of both legs; the session and the callee's
\* registration are released.
SetHandlers ==
  /\ mpc = "connected"
  /\ touched' = touched \cup Freed(Legs(msess))
  /\ owner' = [c \in Calls |-> IF c \in Legs(msess) THEN msess ELSE owner[c]]
  /\ mpc' = "idle" /\ mcall' = None /\ msess' = None
  /\ UNCHANGED <<call, line, sessVars, up, flushed, dropped>>

-----------------------------------------------------------------------------
\* Faulty variant: the caller is answered when the callee rings.
EstablishedEarly(c) ==
  /\ mpc = "idle" /\ call[c] \in {"outgoing", "answered"}
  /\ LET s == owner[c] IN
       IF s = "ua"
       THEN call' = [call EXCEPT ![c] = "established"] /\ UNCHANGED touched
       ELSE LET p == Peer(s, c) IN
            /\ touched' = touched \cup Freed({p})
            /\ call' = IF call[p] = "incoming"
                       THEN [call EXCEPT ![p] = "answered"]
                       ELSE [call EXCEPT ![c] = "established"]
  /\ UNCHANGED <<line, owner, sessVars, up, mainVars, flushed, dropped>>

\* CALL_EVENT_ESTABLISHED: the other leg is answered, if it is one that waits
\* for an answer; whether call_answer succeeds is not looked at.
Established(c) ==
  /\ mpc = "idle" /\ call[c] \in {"outgoing", "answered"}
  /\ LET s == owner[c] IN
       IF s = "ua"
       THEN call' = [call EXCEPT ![c] = "established"] /\ UNCHANGED touched
       ELSE LET p == Peer(s, c)
                now == [call EXCEPT ![c] = "established"] IN
            /\ touched' = touched \cup Freed({p})
            /\ \/ call' = now
               \/ call[p] = "incoming" /\ call' = [now EXCEPT ![p] = "answered"]
  /\ UNCHANGED <<line, owner, sessVars, up, mainVars, flushed, dropped>>

\* Faulty variant: the session is deleted and the peer is left as it is.
ClosedKeepsPeer(c) ==
  /\ mpc = "idle" /\ call[c] \in LiveStates
  /\ Free({c})
  /\ sess' = [s \in Sids |-> IF s = owner[c] THEN "over" ELSE sess[s]]
  /\ UNCHANGED <<line, owner, lega, legb, up, mainVars, touched, flushed,
                 dropped>>

\* Faulty variant: the session is deleted first, then the peer is hung up.
ClosedDeletesFirst(c) ==
  /\ mpc = "idle" /\ call[c] \in LiveStates
  /\ LET s == owner[c] IN
       IF s = "ua"
       THEN Free({c}) /\ UNCHANGED <<sess, touched>>
       ELSE /\ Free(Legs(s))
            /\ touched' = touched \cup {Peer(s, c)}
            /\ sess' = [sess EXCEPT ![s] = "over"]
  /\ UNCHANGED <<line, owner, lega, legb, up, mainVars, flushed, dropped>>

\* CALL_EVENT_CLOSED: the UA gives back a leg of its own; the handler of a
\* session hangs the other leg up and deletes the session, whose destructor
\* gives both legs back.
Closed(c) ==
  /\ mpc = "idle" /\ call[c] \in LiveStates
  /\ LET s == owner[c] IN
       IF s = "ua"
       THEN Free({c}) /\ UNCHANGED <<sess, touched>>
       ELSE /\ Free(Legs(s))
            /\ touched' = touched \cup Freed(Legs(s))
                            \cup (IF sess[s] = "over" THEN {s} ELSE {})
            /\ sess' = [sess EXCEPT ![s] = "over"]
  /\ UNCHANGED <<line, owner, lega, legb, up, mainVars, flushed, dropped>>

-----------------------------------------------------------------------------
CallsOf(u) == {c \in Calls : line[c] = u /\ call[c] \notin {"none", "freed"}}

\* A user registers.
UaCreate(u) ==
  /\ mpc = "idle" /\ u \in Uas \ up
  /\ up' = up \cup {u}
  /\ UNCHANGED <<legVars, sessVars, mainVars, touched, flushed, dropped>>

\* ua_destroy flushes the calls of the UA.
Flush(u) ==
  /\ Free(CallsOf(u))
  /\ flushed' = flushed \cup CallsOf(u)
  /\ UNCHANGED <<line, owner, sessVars, mainVars, touched, dropped>>

\* The registration has expired: the maintenance thread, whatever main does.
UaExpire(u) == u \in up \ Gateways /\ up' = up \ {u} /\ Flush(u)

\* The phone registers with a new contact: its UA is destroyed and made anew,
\* and the second step may fail.
UaRebuild(u) ==
  /\ mpc = "idle" /\ u \in up \ Gateways
  /\ up' \in {up, up \ {u}}
  /\ Flush(u)

-----------------------------------------------------------------------------
Next ==
  \/ \E c \in Calls, u \in Uas : Incoming(c, u)
  \/ RouteFail \/ ConnectFail \/ SetHandlers
  \/ \E s \in Sids, d \in Calls, v \in Uas : Connect(s, d, v)
  \/ \E d \in Calls, v \in Uas : InsertFail(d, v)
  \/ \E c \in Calls : Established(c) \/ Closed(c)
  \/ \E u \in Uas : UaCreate(u) \/ UaExpire(u) \/ UaRebuild(u)

Spec == Init /\ [][Next]_vars

-----------------------------------------------------------------------------
\* The events of a leg go to the session it is a leg of, and never to one
\* that has been deleted.
HandlersMatch ==
  \A c \in Calls :
    call[c] \in LiveStates /\ owner[c] # "ua" =>
      sess[owner[c]] = "up" /\ c \in Legs(owner[c])

\* A session in regmap_sessions still has both of its legs, unless the UA of
\* the missing one was destroyed: ending a leg ends the session and its peer.
PeersEndTogether ==
  \A s \in Sids : sess[s] = "up" => Freed(Legs(s)) \subseteq flushed

\* What the end of a call has freed is never used, nor freed, again.  The
\* legs this does not cover are those a UA took with it, which sessions are
\* not told about, and those of a session that could not be set up.
EndedLegsLeftAlone == touched \subseteq flushed \cup dropped

\* Between two events no call is left without an owner that will end it: it
\* was rejected, or a session handles it.
NoStrayCall ==
  mpc = "idle" =>
    \A c \in Calls : owner[c] = "ua" => call[c] \in {"rejected", "freed"}

\* The caller is answered only after the callee has answered.
AnswerFollowsCallee ==
  [][\A c \in Calls :
       call[c] = "incoming" /\ call'[c] = "answered" =>
         owner[c] \in Sids /\ call'[Peer(owner[c], c)] = "established"]_vars
=============================================================================
