--------------------------- MODULE SessionsProofs ---------------------------
(***************************************************************************)
(* Proofs about call legs and sessions, for any sets of calls, sessions    *)
(* and user agents.                                                        *)
(***************************************************************************)
EXTENDS Sessions, TLAPS

\* A leg whose events go to a session is one of its two legs, for good.
OwnerInv ==
  \A c \in Calls :
    /\ call[c] = "none" <=> owner[c] = None
    /\ owner[c] \in Sids => sess[owner[c]] # "none" /\ c \in Legs(owner[c])

\* A session has two legs and shares them with no other; both are gone when
\* it is deleted.
LegsInv ==
  \A s \in Sids :
    /\ sess[s] = "none" => lega[s] = None /\ legb[s] = None
    /\ sess[s] # "none" => lega[s] \in Calls /\ legb[s] \in Calls
                           /\ lega[s] # legb[s]
    /\ \A c \in Legs(s) :
         /\ call[c] # "none"
         /\ sess[s] = "over" => call[c] = "freed"
         /\ \A t \in Sids : c \in Legs(t) => t = s

\* The call being set up belongs to the UA and to no session yet.
SetupInv ==
  /\ mpc = "route" =>
       /\ owner[mcall] = "ua"
       /\ \A s \in Sids : mcall \notin Legs(s)
       /\ call[mcall] = "freed" => mcall \in flushed
  /\ mpc = "connected" => sess[msess] = "up" /\ lega[msess] = mcall

\* NoStrayCall, within a handler too: only the legs being set up may still
\* belong to a UA.
StrayInv ==
  \A c \in Calls :
    owner[c] = "ua" =>
      \/ call[c] \in {"rejected", "freed"}
      \/ mpc = "route" /\ c = mcall
      \/ mpc = "connected" /\ c \in Legs(msess)
      \/ mpc = "hung"

IInv == /\ TypeOK /\ OwnerInv /\ LegsInv /\ SetupInv /\ StrayInv
        /\ PeersEndTogether /\ EndedLegsLeftAlone

-----------------------------------------------------------------------------
\* Only the UAs of gateways exist and there are no calls.
LEMMA InitInv == Init => IInv
  BY SessionsAssumption
     DEF Init, IInv, TypeOK, OwnerInv, LegsInv, SetupInv, StrayInv,
         PeersEndTogether, EndedLegsLeftAlone, Legs, Freed, LiveStates

\* The events of a live leg go to the UA or to a session that is up.
LEMMA Handlers == IInv => HandlersMatch
  BY SessionsAssumption
     DEF IInv, TypeOK, OwnerInv, LegsInv, HandlersMatch, LiveStates

\* Between two events only rejected and freed legs belong to a UA.
LEMMA Strays == IInv => NoStrayCall
  BY DEF IInv, StrayInv, NoStrayCall

\* When the leg of a session closes, the session goes with both of its legs.
LEMMA ClosedEnds ==
  ASSUME IInv, NEW c \in Calls, Closed(c)
  PROVE  /\ owner[c] \in Sids /\ sess[owner[c]] = "up"
         /\ c \in Legs(owner[c]) /\ Legs(owner[c]) \subseteq Calls
         /\ Free(Legs(owner[c]))
         /\ touched' = touched \cup Freed(Legs(owner[c]))
         /\ sess' = [sess EXCEPT ![owner[c]] = "over"]
         /\ mpc = "idle"
         /\ UNCHANGED <<line, owner, lega, legb, up, mainVars, flushed, dropped>>
<1>1. mpc = "idle" /\ call[c] \in LiveStates
  BY DEF Closed
<1>2. owner[c] # "ua"
  BY <1>1, Strays DEF NoStrayCall, LiveStates
<1>3. owner[c] \in Sids
  BY <1>1, <1>2 DEF IInv, TypeOK, OwnerInv, LiveStates
<1>4. sess[owner[c]] = "up" /\ c \in Legs(owner[c])
  BY <1>1, <1>2, Handlers DEF HandlersMatch
<1>5. Legs(owner[c]) \subseteq Calls
  BY <1>3 DEF IInv, TypeOK, Legs
<1> QED
  BY <1>1, <1>2, <1>3, <1>4, <1>5 DEF Closed

\* When a leg is established, its session is up and its peer exists.
LEMMA EstablishedPeer ==
  ASSUME IInv, NEW c \in Calls, Established(c)
  PROVE  LET s == owner[c]
             p == Peer(s, c)
             now == [call EXCEPT ![c] = "established"] IN
         /\ s \in Sids /\ sess[s] = "up"
         /\ p \in Calls /\ p \in Legs(s) /\ p # c /\ Peer(s, p) = c
         /\ touched' = touched \cup Freed({p})
         /\ \/ call' = now
            \/ call[p] = "incoming" /\ call' = [now EXCEPT ![p] = "answered"]
         /\ mpc = "idle" /\ call[c] \in {"outgoing", "answered"}
         /\ UNCHANGED <<line, owner, sessVars, up, mainVars, flushed, dropped>>
<1> USE SessionsAssumption
<1>1. mpc = "idle" /\ call[c] \in {"outgoing", "answered"}
  BY DEF Established
<1>2. owner[c] # "ua"
  BY <1>1, Strays DEF NoStrayCall
<1>3. owner[c] \in Sids
  BY <1>1, <1>2 DEF IInv, TypeOK, OwnerInv
<1>4. sess[owner[c]] = "up" /\ c \in Legs(owner[c])
  BY <1>1, <1>2, Handlers DEF HandlersMatch, LiveStates
<1>5. /\ Peer(owner[c], c) \in Calls /\ Peer(owner[c], c) \in Legs(owner[c])
      /\ Peer(owner[c], c) # c /\ Peer(owner[c], Peer(owner[c], c)) = c
  BY <1>3, <1>4 DEF IInv, LegsInv, Legs, Peer
<1> QED
  BY <1>1, <1>2, <1>3, <1>4, <1>5 DEF Established

\* Every other leg stays as it was, but for a peer that is answered.
LEMMA EstablishedKeeps ==
  ASSUME IInv, NEW c \in Calls, Established(c)
  PROVE  \A x \in Calls : \/ call'[x] = call[x]
                          \/ {call[x], call'[x]} \subseteq LiveStates
<1> DEFINE p == Peer(owner[c], c)
           now == [call EXCEPT ![c] = "established"]
<1>1. /\ \/ call' = now
         \/ call[p] = "incoming" /\ call' = [now EXCEPT ![p] = "answered"]
      /\ p \in Calls /\ call[c] \in {"outgoing", "answered"}
  BY EstablishedPeer
<1>2. call \in [Calls -> LiveStates \cup {"none", "rejected", "freed"}]
  BY DEF IInv, TypeOK
<1> HIDE DEF p
<1>3. CASE call' = now
  BY <1>1, <1>2, <1>3 DEF LiveStates
<1>4. CASE call[p] = "incoming" /\ call' = [now EXCEPT ![p] = "answered"]
  BY <1>1, <1>2, <1>4 DEF LiveStates
<1> QED
  BY <1>1, <1>3, <1>4

\* The legs of the session that ends are freed and no others.
LEMMA ClosedFrees ==
  ASSUME IInv, NEW c \in Calls, Closed(c)
  PROVE  \A x \in Calls : call'[x] = IF x \in Legs(owner[c]) THEN "freed"
                                                            ELSE call[x]
<1> DEFINE ls == Legs(owner[c])
<1>1. call' = [x \in Calls |-> IF x \in ls THEN "freed" ELSE call[x]]
  BY ClosedEnds DEF Free
<1> HIDE DEF ls
<1>2. \A x \in Calls : call'[x] = IF x \in ls THEN "freed" ELSE call[x]
  BY <1>1
<1> QED
  BY <1>2 DEF ls

-----------------------------------------------------------------------------
\* Every action keeps the types.
LEMMA TypeStep == IInv /\ [Next]_vars => TypeOK'
<1> SUFFICES ASSUME IInv, [Next]_vars PROVE TypeOK'
  OBVIOUS
<1> USE SessionsAssumption DEF TypeOK, LiveStates, legVars, sessVars, mainVars
<1>0. TypeOK
  BY DEF IInv
<1>1. ASSUME NEW c \in Calls, NEW u \in Uas, Incoming(c, u) PROVE TypeOK'
  BY <1>0, <1>1 DEF Incoming
<1>2. CASE RouteFail
  BY <1>0, <1>2 DEF RouteFail, Freed
<1>3. CASE ConnectFail
  BY <1>0, <1>3 DEF ConnectFail, Free
<1>4. CASE SetHandlers
  BY <1>0, <1>4 DEF SetHandlers, Freed, Legs
<1>5. ASSUME NEW s \in Sids, NEW d \in Calls, NEW v \in Uas, Connect(s, d, v)
      PROVE  TypeOK'
  BY <1>0, <1>5 DEF Connect, Freed
<1>6. ASSUME NEW d \in Calls, NEW v \in Uas, InsertFail(d, v) PROVE TypeOK'
  BY <1>0, <1>6 DEF InsertFail, Freed
<1>7. ASSUME NEW c \in Calls, Established(c) PROVE TypeOK'
  BY <1>0, <1>7, EstablishedPeer DEF Freed
<1>8. ASSUME NEW c \in Calls, Closed(c) PROVE TypeOK'
  BY <1>0, <1>8, ClosedEnds DEF Free, Freed
<1>9. ASSUME NEW u \in Uas, UaCreate(u) PROVE TypeOK'
  BY <1>0, <1>9 DEF UaCreate
<1>10. ASSUME NEW u \in Uas, UaExpire(u) \/ UaRebuild(u) PROVE TypeOK'
  BY <1>0, <1>10 DEF UaExpire, UaRebuild, Flush, Free, CallsOf
<1>11. CASE UNCHANGED vars
  BY <1>0, <1>11 DEF vars
<1> QED
  BY <1>1, <1>2, <1>3, <1>4, <1>5, <1>6, <1>7, <1>8, <1>9, <1>10, <1>11
     DEF Next

\* Who handles a leg, and which legs a session has, stay consistent.
LEMMA LegsStep == IInv /\ [Next]_vars => OwnerInv' /\ LegsInv'
<1> SUFFICES ASSUME IInv, [Next]_vars PROVE OwnerInv' /\ LegsInv'
  OBVIOUS
<1> USE SessionsAssumption
    DEF IInv, TypeOK, OwnerInv, LegsInv, Legs, LiveStates, legVars, sessVars,
        mainVars
<1>1. ASSUME NEW c \in Calls, NEW u \in Uas, Incoming(c, u)
      PROVE  OwnerInv' /\ LegsInv'
  BY <1>1 DEF Incoming
<1>2. CASE RouteFail
  BY <1>2 DEF RouteFail, SetupInv
<1>3. CASE ConnectFail
  BY <1>3 DEF ConnectFail, Free, SetupInv
<1>4. CASE SetHandlers
  BY <1>4 DEF SetHandlers, SetupInv
<1>5. ASSUME NEW s \in Sids, NEW d \in Calls, NEW v \in Uas, Connect(s, d, v)
      PROVE  OwnerInv' /\ LegsInv'
  BY <1>5 DEF Connect, SetupInv
<1>6. ASSUME NEW d \in Calls, NEW v \in Uas, InsertFail(d, v)
      PROVE  OwnerInv' /\ LegsInv'
  BY <1>6 DEF InsertFail
<1>7. ASSUME NEW c \in Calls, Established(c) PROVE OwnerInv' /\ LegsInv'
  <2>1. UNCHANGED <<owner, sessVars, mainVars, flushed>>
    BY <1>7, EstablishedPeer
  <2>2. \A x \in Calls : \/ call'[x] = call[x]
                         \/ {call[x], call'[x]} \subseteq LiveStates
    BY <1>7, EstablishedKeeps
  <2> QED
    BY <2>1, <2>2
<1>8. ASSUME NEW c \in Calls, Closed(c) PROVE OwnerInv' /\ LegsInv'
  <2>1. UNCHANGED <<owner, lega, legb, mainVars, flushed>> /\ mpc = "idle"
    BY <1>8, ClosedEnds
  <2>2. owner[c] \in Sids /\ sess' = [sess EXCEPT ![owner[c]] = "over"]
        /\ sess[owner[c]] = "up"
    BY <1>8, ClosedEnds
  <2>3. \A x \in Calls : call'[x] = IF x \in Legs(owner[c]) THEN "freed"
                                                           ELSE call[x]
    BY <1>8, ClosedFrees
  <2> QED
    BY <2>1, <2>2, <2>3
<1>9. ASSUME NEW u \in Uas, UaCreate(u) PROVE OwnerInv' /\ LegsInv'
  BY <1>9 DEF UaCreate
<1>10. ASSUME NEW u \in Uas, UaExpire(u) \/ UaRebuild(u)
       PROVE  OwnerInv' /\ LegsInv'
  BY <1>10 DEF UaExpire, UaRebuild, Flush, Free, CallsOf
<1>11. CASE UNCHANGED vars
  BY <1>11 DEF vars
<1> QED
  BY <1>1, <1>2, <1>3, <1>4, <1>5, <1>6, <1>7, <1>8, <1>9, <1>10, <1>11
     DEF Next

\* What the set-up of a session relies on, and who may own a leg meanwhile.
LEMMA SetupStep == IInv /\ [Next]_vars => SetupInv' /\ StrayInv'
<1> SUFFICES ASSUME IInv, [Next]_vars PROVE SetupInv' /\ StrayInv'
  OBVIOUS
<1> USE SessionsAssumption
    DEF IInv, TypeOK, SetupInv, StrayInv, Legs, LiveStates, legVars, sessVars,
        mainVars
<1>1. ASSUME NEW c \in Calls, NEW u \in Uas, Incoming(c, u)
      PROVE  SetupInv' /\ StrayInv'
  BY <1>1 DEF Incoming, LegsInv
<1>2. CASE RouteFail
  BY <1>2 DEF RouteFail
<1>3. CASE ConnectFail
  BY <1>3 DEF ConnectFail, Free
<1>4. CASE SetHandlers
  BY <1>4 DEF SetHandlers
<1>5. ASSUME NEW s \in Sids, NEW d \in Calls, NEW v \in Uas, Connect(s, d, v)
      PROVE  SetupInv' /\ StrayInv'
  BY <1>5 DEF Connect
<1>6. ASSUME NEW d \in Calls, NEW v \in Uas, InsertFail(d, v)
      PROVE  SetupInv' /\ StrayInv'
  BY <1>6 DEF InsertFail
<1>7. ASSUME NEW c \in Calls, Established(c) PROVE SetupInv' /\ StrayInv'
  <2>1. UNCHANGED <<owner, sessVars, mainVars, flushed>>
    BY <1>7, EstablishedPeer
  <2>2. \A x \in Calls : \/ call'[x] = call[x]
                         \/ {call[x], call'[x]} \subseteq LiveStates
    BY <1>7, EstablishedKeeps
  <2> QED
    BY <2>1, <2>2
<1>8. ASSUME NEW c \in Calls, Closed(c) PROVE SetupInv' /\ StrayInv'
  <2>1. UNCHANGED <<owner, lega, legb, mainVars, flushed>> /\ mpc = "idle"
    BY <1>8, ClosedEnds
  <2>2. owner[c] \in Sids /\ sess' = [sess EXCEPT ![owner[c]] = "over"]
        /\ sess[owner[c]] = "up"
    BY <1>8, ClosedEnds
  <2>3. \A x \in Calls : call'[x] = IF x \in Legs(owner[c]) THEN "freed"
                                                           ELSE call[x]
    BY <1>8, ClosedFrees
  <2> QED
    BY <2>1, <2>2, <2>3
<1>9. ASSUME NEW u \in Uas, UaCreate(u) PROVE SetupInv' /\ StrayInv'
  BY <1>9 DEF UaCreate
<1>10. ASSUME NEW u \in Uas, UaExpire(u) \/ UaRebuild(u)
       PROVE  SetupInv' /\ StrayInv'
  BY <1>10 DEF UaExpire, UaRebuild, Flush, Free, CallsOf, OwnerInv
<1>11. CASE UNCHANGED vars
  BY <1>11 DEF vars
<1> QED
  BY <1>1, <1>2, <1>3, <1>4, <1>5, <1>6, <1>7, <1>8, <1>9, <1>10, <1>11
     DEF Next

\* Legs of a session that is up disappear only with their UA, and nothing
\* else that is freed is used.
LEMMA EndStep == IInv /\ [Next]_vars => PeersEndTogether' /\ EndedLegsLeftAlone'
<1> SUFFICES ASSUME IInv, [Next]_vars
             PROVE  PeersEndTogether' /\ EndedLegsLeftAlone'
  OBVIOUS
<1> USE SessionsAssumption
    DEF IInv, TypeOK, PeersEndTogether, EndedLegsLeftAlone, Legs, Freed,
        legVars, sessVars, mainVars
<1>1. ASSUME NEW c \in Calls, NEW u \in Uas, Incoming(c, u)
      PROVE  PeersEndTogether' /\ EndedLegsLeftAlone'
  BY <1>1 DEF Incoming
<1>2. CASE RouteFail
  BY <1>2 DEF RouteFail, SetupInv
<1>3. CASE ConnectFail
  BY <1>3 DEF ConnectFail, Free, SetupInv
<1>4. CASE SetHandlers
  BY <1>4 DEF SetHandlers, SetupInv
<1>5. ASSUME NEW s \in Sids, NEW d \in Calls, NEW v \in Uas, Connect(s, d, v)
      PROVE  PeersEndTogether' /\ EndedLegsLeftAlone'
  BY <1>5 DEF Connect, SetupInv
<1>6. ASSUME NEW d \in Calls, NEW v \in Uas, InsertFail(d, v)
      PROVE  PeersEndTogether' /\ EndedLegsLeftAlone'
  BY <1>6 DEF InsertFail, SetupInv
<1>7. ASSUME NEW c \in Calls, Established(c)
      PROVE  PeersEndTogether' /\ EndedLegsLeftAlone'
  BY <1>7, EstablishedPeer
<1>8. ASSUME NEW c \in Calls, Closed(c)
      PROVE  PeersEndTogether' /\ EndedLegsLeftAlone'
  BY <1>8, ClosedEnds DEF Free, LegsInv
<1>9. ASSUME NEW u \in Uas, UaCreate(u)
      PROVE  PeersEndTogether' /\ EndedLegsLeftAlone'
  BY <1>9 DEF UaCreate
<1>10. ASSUME NEW u \in Uas, UaExpire(u) \/ UaRebuild(u)
       PROVE  PeersEndTogether' /\ EndedLegsLeftAlone'
  BY <1>10 DEF UaExpire, UaRebuild, Flush, Free, CallsOf
<1>11. CASE UNCHANGED vars
  BY <1>11 DEF vars
<1> QED
  BY <1>1, <1>2, <1>3, <1>4, <1>5, <1>6, <1>7, <1>8, <1>9, <1>10, <1>11
     DEF Next

\* A waiting leg is answered by the event of its peer alone.
LEMMA AnswerStep ==
  ASSUME IInv, [Next]_vars, NEW c \in Calls,
         call[c] = "incoming", call'[c] = "answered"
  PROVE  owner[c] \in Sids /\ call'[Peer(owner[c], c)] = "established"
<1> USE SessionsAssumption DEF legVars, sessVars, mainVars
<1>0. TypeOK
  BY DEF IInv
<1>1. PICK d \in Calls : Established(d)
  <2>1. ASSUME NEW d \in Calls, NEW u \in Uas, Incoming(d, u) PROVE FALSE
    BY <1>0, <2>1 DEF Incoming, TypeOK
  <2>2. ASSUME RouteFail \/ ConnectFail \/ SetHandlers PROVE FALSE
    BY <1>0, <2>2 DEF RouteFail, ConnectFail, SetHandlers, Free, TypeOK
  <2>3. ASSUME NEW s \in Sids, NEW d \in Calls, NEW v \in Uas,
               Connect(s, d, v) \/ InsertFail(d, v)
        PROVE  FALSE
    BY <1>0, <2>3 DEF Connect, InsertFail, TypeOK
  <2>4. ASSUME NEW d \in Calls, NEW v \in Uas, InsertFail(d, v) PROVE FALSE
    BY <1>0, <2>4 DEF InsertFail, TypeOK
  <2>5. ASSUME NEW d \in Calls, Closed(d) PROVE FALSE
    BY <1>0, <2>5, ClosedEnds DEF Free
  <2>6. ASSUME NEW u \in Uas, UaCreate(u) \/ UaExpire(u) \/ UaRebuild(u)
        PROVE  FALSE
    BY <1>0, <2>6 DEF UaCreate, UaExpire, UaRebuild, Flush, Free
  <2>7. ~UNCHANGED vars
    BY DEF vars
  <2> QED
    BY <2>1, <2>2, <2>3, <2>4, <2>5, <2>6, <2>7 DEF Next
<1>2. /\ d # c /\ c = Peer(owner[d], d) /\ call'[d] = "established"
      /\ mpc = "idle" /\ owner[d] \in Sids /\ c \in Legs(owner[d])
      /\ Peer(owner[d], c) = d
  <2> DEFINE p == Peer(owner[d], d)
             now == [call EXCEPT ![d] = "established"]
  <2>1. /\ owner[d] \in Sids /\ p \in Calls /\ p \in Legs(owner[d]) /\ p # d
        /\ Peer(owner[d], p) = d /\ mpc = "idle"
        /\ call' = now \/ call' = [now EXCEPT ![p] = "answered"]
        /\ call[d] \in {"outgoing", "answered"}
    BY <1>1, EstablishedPeer
  <2>2. c # d
    BY <2>1
  <2>3. c = p /\ call'[d] = "established"
    <3> HIDE DEF p
    <3> QED
      BY <1>0, <2>1, <2>2 DEF TypeOK
  <2> QED
    BY <2>1, <2>2, <2>3
<1>3. owner[c] \in Sids
  BY <1>0, <1>2, Strays DEF NoStrayCall, IInv, OwnerInv, TypeOK
<1>4. owner[c] = owner[d]
  BY <1>2, <1>3 DEF IInv, OwnerInv, LegsInv
<1> QED
  BY <1>2, <1>3, <1>4

\* The invariant the theorems below follow from.
LEMMA Invariance == Spec => []IInv
<1>1. IInv /\ [Next]_vars => IInv'
  BY TypeStep, LegsStep, SetupStep, EndStep DEF IInv
<1> QED
  BY InitInv, <1>1, PTL DEF Spec

-----------------------------------------------------------------------------
\* No event reaches a session that has been deleted, or one the leg is not a
\* leg of.
THEOREM EventsReachLiveSessions == Spec => []HandlersMatch
  BY Handlers, Invariance, PTL

\* A session in the map has both legs, but for those that went with a UA.
THEOREM SessionsKeepTheirLegs == Spec => []PeersEndTogether
<1>1. IInv => PeersEndTogether
  BY DEF IInv
<1> QED
  BY <1>1, Invariance, PTL

\* Freed legs and sessions are not used again, with the two exceptions.
THEOREM EndedLegsUntouched == Spec => []EndedLegsLeftAlone
<1>1. IInv => EndedLegsLeftAlone
  BY DEF IInv
<1> QED
  BY <1>1, Invariance, PTL

\* Every early return of the event handler hangs up.
THEOREM EveryCallHandled == Spec => []NoStrayCall
  BY Strays, Invariance, PTL

\* The caller is answered in the step in which the callee is established.
THEOREM CalleeAnswersFirst == Spec => AnswerFollowsCallee
<1>1. IInv /\ [Next]_vars =>
        [\A c \in Calls :
           call[c] = "incoming" /\ call'[c] = "answered" =>
             owner[c] \in Sids
             /\ call'[Peer(owner[c], c)] = "established"]_vars
  BY AnswerStep
<1> QED
  BY <1>1, Invariance, PTL DEF Spec, AnswerFollowsCallee
=============================================================================
