--------------------------- MODULE RegistrarProofs ---------------------------
(***************************************************************************)
(* Proofs about the registrar, for any sets of users and contacts:         *)
(* reference counting is exact, a registration main holds is not freed,    *)
(* 200 means reachable, a sweep takes one renewed registration at most,    *)
(* and the two threads block each other in three ways only, for good.      *)
(* The second part is about the authentication of the requests.            *)
(***************************************************************************)
EXTENDS Registrar, Auth, TLAPS

\* Each of the two global mutexes is locked exactly at these control points.
\* (The owner of reg->mutex is not known that well: see SweepRelUnlock.)
LockInv ==
  /\ mapLock = "sweep" <=> spc \notin {"sleep", "scan"}
  /\ mapLock = "main" <=> mpc = "find"
  /\ uaLock = "sweep" <=> spc \in UaPcs
  /\ uaLock = "main" <=> mpc = "updAlloc"

\* Only the bridge runs with a caller held below it.
CallerInv ==
  /\ mcaller # NoUser => mop = "call"
  /\ mpc = "idle" => mop = "register"
  /\ mop = "call" => mpc \in {"lookup", "find", "held", "using", "relLock",
                              "relDec"}

\* Where an object in each phase can be met.
PhaseInv ==
  /\ mpc = "new" => phase[muser] = "none"
  /\ mpc \in {"newUa", "newInsert"} => phase[muser] = "private"
  /\ \A u \in Users : phase[u] = "private"
                        => mpc \in {"newUa", "newInsert"} /\ muser = u
  /\ \A u \in Users : phase[u] = "dying" => spc = "wait" /\ suser = u
  /\ spc = "wait" => phase[suser] = "dying"
  /\ spc \in UaPcs \cup {"uaLock", "delete"} => phase[suser] = "mapped"
  /\ \A u \in todo : phase[u] = "mapped" /\ u # suser
  /\ spc \in {"sleep", "scan", "next"} => suser = NoUser
  /\ spc \in {"sleep", "scan"} => todo = {}

\* What the counter is made of at the points where it changes.
RefInv ==
  /\ \A u \in Users : phase[u] = "none"
                        => ~ua[u] /\ refs[u] = 0 /\ leaked[u] = 0
  /\ mpc = "newUa" => ~ua[muser]
  /\ mpc = "updAlloc" => ~ua[muser]
  /\ spc \in UaPcs => ua[suser]
  /\ spc = "relWrite" => seen >= refs[suser]

IInv == /\ TypeOK /\ LockInv /\ CallerInv /\ PhaseInv
        /\ RefInv /\ RefsAccounted /\ HeldNotFreed

-----------------------------------------------------------------------------
\* The empty location service satisfies the invariant.
LEMMA InitInv == Init => IInv
  BY RegistrarAssumption
     DEF Init, IInv, TypeOK, LockInv, CallerInv, PhaseInv, RefInv,
         RefsAccounted, MainHolds, UaHolds, HeldNotFreed, Free, Owners, Phases,
         Replies, HoldPcs, MainPcs, UaPcs, SweepPcs

\* What main still holds after a handler returns: its caller, if any.
LEMMA FinishHolds ==
  ASSUME TypeOK, Finish
  PROVE  \A u \in Users : MainHolds(u)' = IF mcaller = u THEN 1 ELSE 0
  BY RegistrarAssumption DEF TypeOK, Finish, MainHolds, HoldPcs

\* A handler that returns without having touched a counter.
LEMMA QuietFinish ==
  ASSUME IInv, Finish, mpc \notin HoldPcs,
         UNCHANGED <<refs, leaked, ua, spc, suser>>
  PROVE  RefsAccounted'
<1>1. \A u \in Users : MainHolds(u) = IF mcaller = u THEN 1 ELSE 0
  BY DEF MainHolds
<1>2. \A u \in Users : MainHolds(u)' = IF mcaller = u THEN 1 ELSE 0
  BY FinishHolds DEF IInv
<1>3. \A u \in Users : UaHolds(u)' = UaHolds(u)
  BY DEF UaHolds
<1> QED
  BY <1>1, <1>2, <1>3 DEF IInv, RefsAccounted

\* The types are preserved.
LEMMA TypeStep == IInv /\ [Next]_vars => TypeOK'
<1> SUFFICES ASSUME IInv, [Next]_vars PROVE TypeOK'
  OBVIOUS
<1> USE RegistrarAssumption DEF IInv, TypeOK, vars, objVars, lockVars,
      mainVars, sweepVars, Free, Owners, Phases, Replies, HoldPcs, MainPcs,
      UaPcs, SweepPcs
<1>1. CASE \E u \in Users : Lapse(u)
  BY <1>1 DEF Lapse
<1>2. CASE \E u \in Users, c \in Contacts : Register(u, c)
  BY <1>2 DEF Register, Begin
<1>3. CASE \E u \in Users : Invite(u) \/ Call(u)
  BY <1>3 DEF Invite, Call, Begin
<1>4. CASE LookupLock
  BY <1>4 DEF LookupLock
<1>5. CASE LookupHit
  BY <1>5 DEF LookupHit
<1>6. CASE LookupMiss
  BY <1>6 DEF LookupMiss, Finish
<1>7. CASE NewBuild
  BY <1>7 DEF NewBuild, StoreContact
<1>8. CASE NewFail
  BY <1>8 DEF NewFail, Finish
<1>9. CASE NewUa
  BY <1>9 DEF NewUa
<1>10. CASE NewUaFail
  BY <1>10 DEF NewUaFail, FreeReg, Finish
<1>11. CASE NewInsert
  BY <1>11 DEF NewInsert, Finish
<1>12. CASE NewInsertFail
  BY <1>12 DEF NewInsertFail, FreeReg, Finish
<1>13. CASE UpdateLock
  BY <1>13 DEF UpdateLock
<1>14. CASE UpdateSame
  BY <1>14 DEF UpdateSame
<1>15. CASE UpdateFail
  BY <1>15 DEF UpdateFail, StoreContact
<1>16. CASE UpdateBuild
  BY <1>16 DEF UpdateBuild, StoreContact
<1>17. CASE UpdateUaDestroy
  BY <1>17 DEF UpdateUaDestroy
<1>18. CASE UpdateUaAlloc
  BY <1>18 DEF UpdateUaAlloc
<1>19. CASE UpdateUaFail
  BY <1>19 DEF UpdateUaFail
<1>20. CASE UpdateOut
  BY <1>20 DEF UpdateOut
<1>21. CASE InviteRefuse
  BY <1>21 DEF InviteRefuse
<1>22. CASE \E u \in Users : InviteAccept(u)
  BY <1>22 DEF InviteAccept
<1>23. CASE BridgeConnect
  BY <1>23 DEF BridgeConnect
<1>24. CASE BridgeDone
  BY <1>24 DEF BridgeDone
<1>25. CASE BridgeFail
  BY <1>25 DEF BridgeFail, Finish
<1>26. CASE ReleaseLock
  BY <1>26 DEF ReleaseLock
<1>27. CASE ReleaseDec
  BY <1>27 DEF ReleaseDec, Finish
<1>28. CASE SweepStart
  BY <1>28 DEF SweepStart
<1>29. CASE SweepCollect
  BY <1>29 DEF SweepCollect
<1>30. CASE SweepDone
  BY <1>30 DEF SweepDone
<1>31. CASE \E u \in Users : SweepPop(u)
  BY <1>31 DEF SweepPop
<1>32. CASE SweepUaLock
  BY <1>32 DEF SweepUaLock
<1>33. CASE SweepRelFlag
  BY <1>33 DEF SweepRelFlag
<1>34. CASE SweepRelLock
  BY <1>34 DEF SweepRelLock
<1>35. CASE SweepRelRead
  BY <1>35 DEF SweepRelRead
<1>36. CASE SweepRelWrite
  BY <1>36 DEF SweepRelWrite, RefInv
<1>37. CASE SweepRelUnlock
  BY <1>37 DEF SweepRelUnlock
<1>38. CASE SweepDelete
  <2>1. CASE refs[suser] = 0
    <3>1. /\ suser \in Users /\ FreeReg(suser) /\ spc' = "next" /\ suser' = NoUser
          /\ UNCHANGED <<todo, seen, mapLock, uaLock, mainVars>>
      BY <1>38, <2>1 DEF SweepDelete
    <3> QED
      BY <3>1, SMTT(60) DEF FreeReg
  <2>2. CASE refs[suser] # 0
    BY <1>38, <2>2 DEF SweepDelete
  <2> QED
    BY <2>1, <2>2
<1>39. CASE SweepWait
  BY <1>39 DEF SweepWait, FreeReg
<1>40. CASE UNCHANGED vars
  BY <1>40
<1> QED
  BY <1>1, <1>2, <1>3, <1>4, <1>5, <1>6, <1>7, <1>8, <1>9, <1>10, <1>11,
     <1>12, <1>13, <1>14, <1>15, <1>16, <1>17, <1>18, <1>19, <1>20, <1>21,
     <1>22, <1>23, <1>24, <1>25, <1>26, <1>27, <1>28, <1>29, <1>30, <1>31,
     <1>32, <1>33, <1>34, <1>35, <1>36, <1>37, <1>38, <1>39, <1>40
     DEF Next, Environment, MainStep, SweepStep

\* The global mutexes are locked and unlocked in pairs.
LEMMA LockStep == IInv /\ [Next]_vars => LockInv'
<1> SUFFICES ASSUME IInv, [Next]_vars PROVE LockInv'
  OBVIOUS
<1> USE RegistrarAssumption DEF IInv, TypeOK, LockInv, CallerInv, vars,
      objVars, lockVars, mainVars, sweepVars, Free, Owners, Phases, Replies,
      HoldPcs, MainPcs, UaPcs, SweepPcs
<1>1. CASE \E u \in Users : Lapse(u)
  BY <1>1 DEF Lapse
<1>2. CASE \E u \in Users, c \in Contacts : Register(u, c)
  BY <1>2 DEF Register, Begin
<1>3. CASE \E u \in Users : Invite(u) \/ Call(u)
  BY <1>3 DEF Invite, Call, Begin
<1>4. CASE LookupLock
  BY <1>4 DEF LookupLock
<1>5. CASE LookupHit
  BY <1>5 DEF LookupHit
<1>6. CASE LookupMiss
  BY <1>6 DEF LookupMiss, Finish
<1>7. CASE NewBuild
  BY <1>7 DEF NewBuild, StoreContact
<1>8. CASE NewFail
  BY <1>8 DEF NewFail, Finish
<1>9. CASE NewUa
  BY <1>9 DEF NewUa
<1>10. CASE NewUaFail
  BY <1>10 DEF NewUaFail, FreeReg, Finish
<1>11. CASE NewInsert
  BY <1>11 DEF NewInsert, Finish
<1>12. CASE NewInsertFail
  BY <1>12 DEF NewInsertFail, FreeReg, Finish
<1>13. CASE UpdateLock
  BY <1>13 DEF UpdateLock
<1>14. CASE UpdateSame
  BY <1>14 DEF UpdateSame
<1>15. CASE UpdateFail
  BY <1>15 DEF UpdateFail, StoreContact
<1>16. CASE UpdateBuild
  BY <1>16 DEF UpdateBuild, StoreContact
<1>17. CASE UpdateUaDestroy
  BY <1>17 DEF UpdateUaDestroy
<1>18. CASE UpdateUaAlloc
  BY <1>18 DEF UpdateUaAlloc
<1>19. CASE UpdateUaFail
  BY <1>19 DEF UpdateUaFail
<1>20. CASE UpdateOut
  BY <1>20 DEF UpdateOut
<1>21. CASE InviteRefuse
  BY <1>21 DEF InviteRefuse
<1>22. CASE \E u \in Users : InviteAccept(u)
  BY <1>22 DEF InviteAccept
<1>23. CASE BridgeConnect
  BY <1>23 DEF BridgeConnect
<1>24. CASE BridgeDone
  BY <1>24 DEF BridgeDone
<1>25. CASE BridgeFail
  BY <1>25 DEF BridgeFail, Finish
<1>26. CASE ReleaseLock
  BY <1>26 DEF ReleaseLock
<1>27. CASE ReleaseDec
  BY <1>27 DEF ReleaseDec, Finish
<1>28. CASE SweepStart
  BY <1>28 DEF SweepStart
<1>29. CASE SweepCollect
  BY <1>29 DEF SweepCollect
<1>30. CASE SweepDone
  BY <1>30 DEF SweepDone
<1>31. CASE \E u \in Users : SweepPop(u)
  BY <1>31 DEF SweepPop
<1>32. CASE SweepUaLock
  BY <1>32 DEF SweepUaLock
<1>33. CASE SweepRelFlag
  BY <1>33 DEF SweepRelFlag
<1>34. CASE SweepRelLock
  BY <1>34 DEF SweepRelLock
<1>35. CASE SweepRelRead
  BY <1>35 DEF SweepRelRead
<1>36. CASE SweepRelWrite
  BY <1>36 DEF SweepRelWrite
<1>37. CASE SweepRelUnlock
  BY <1>37 DEF SweepRelUnlock
<1>38. CASE SweepDelete
  BY <1>38 DEF SweepDelete, FreeReg
<1>39. CASE SweepWait
  BY <1>39 DEF SweepWait, FreeReg
<1>40. CASE UNCHANGED vars
  BY <1>40
<1> QED
  BY <1>1, <1>2, <1>3, <1>4, <1>5, <1>6, <1>7, <1>8, <1>9, <1>10, <1>11,
     <1>12, <1>13, <1>14, <1>15, <1>16, <1>17, <1>18, <1>19, <1>20, <1>21,
     <1>22, <1>23, <1>24, <1>25, <1>26, <1>27, <1>28, <1>29, <1>30, <1>31,
     <1>32, <1>33, <1>34, <1>35, <1>36, <1>37, <1>38, <1>39, <1>40
     DEF Next, Environment, MainStep, SweepStep

\* A caller is held only below the bridge.
LEMMA CallerStep == IInv /\ [Next]_vars => CallerInv'
<1> SUFFICES ASSUME IInv, [Next]_vars PROVE CallerInv'
  OBVIOUS
<1> USE RegistrarAssumption DEF IInv, TypeOK, CallerInv, vars, objVars,
      lockVars, mainVars, sweepVars, Free, Owners, Phases, Replies, HoldPcs,
      MainPcs, UaPcs, SweepPcs
<1>1. CASE \E u \in Users : Lapse(u)
  BY <1>1 DEF Lapse
<1>2. CASE \E u \in Users, c \in Contacts : Register(u, c)
  BY <1>2 DEF Register, Begin
<1>3. CASE \E u \in Users : Invite(u) \/ Call(u)
  BY <1>3 DEF Invite, Call, Begin
<1>4. CASE LookupLock
  BY <1>4 DEF LookupLock
<1>5. CASE LookupHit
  BY <1>5 DEF LookupHit
<1>6. CASE LookupMiss
  BY <1>6 DEF LookupMiss, Finish
<1>7. CASE NewBuild
  BY <1>7 DEF NewBuild, StoreContact
<1>8. CASE NewFail
  BY <1>8 DEF NewFail, Finish
<1>9. CASE NewUa
  BY <1>9 DEF NewUa
<1>10. CASE NewUaFail
  BY <1>10 DEF NewUaFail, FreeReg, Finish
<1>11. CASE NewInsert
  BY <1>11 DEF NewInsert, Finish
<1>12. CASE NewInsertFail
  BY <1>12 DEF NewInsertFail, FreeReg, Finish
<1>13. CASE UpdateLock
  BY <1>13 DEF UpdateLock
<1>14. CASE UpdateSame
  BY <1>14 DEF UpdateSame
<1>15. CASE UpdateFail
  BY <1>15 DEF UpdateFail, StoreContact
<1>16. CASE UpdateBuild
  BY <1>16 DEF UpdateBuild, StoreContact
<1>17. CASE UpdateUaDestroy
  BY <1>17 DEF UpdateUaDestroy
<1>18. CASE UpdateUaAlloc
  BY <1>18 DEF UpdateUaAlloc
<1>19. CASE UpdateUaFail
  BY <1>19 DEF UpdateUaFail
<1>20. CASE UpdateOut
  BY <1>20 DEF UpdateOut
<1>21. CASE InviteRefuse
  BY <1>21 DEF InviteRefuse
<1>22. CASE \E u \in Users : InviteAccept(u)
  BY <1>22 DEF InviteAccept
<1>23. CASE BridgeConnect
  BY <1>23 DEF BridgeConnect
<1>24. CASE BridgeDone
  BY <1>24 DEF BridgeDone
<1>25. CASE BridgeFail
  BY <1>25 DEF BridgeFail, Finish
<1>26. CASE ReleaseLock
  BY <1>26 DEF ReleaseLock
<1>27. CASE ReleaseDec
  BY <1>27 DEF ReleaseDec, Finish
<1>28. CASE SweepStart
  BY <1>28 DEF SweepStart
<1>29. CASE SweepCollect
  BY <1>29 DEF SweepCollect
<1>30. CASE SweepDone
  BY <1>30 DEF SweepDone
<1>31. CASE \E u \in Users : SweepPop(u)
  BY <1>31 DEF SweepPop
<1>32. CASE SweepUaLock
  BY <1>32 DEF SweepUaLock
<1>33. CASE SweepRelFlag
  BY <1>33 DEF SweepRelFlag
<1>34. CASE SweepRelLock
  BY <1>34 DEF SweepRelLock
<1>35. CASE SweepRelRead
  BY <1>35 DEF SweepRelRead
<1>36. CASE SweepRelWrite
  BY <1>36 DEF SweepRelWrite
<1>37. CASE SweepRelUnlock
  BY <1>37 DEF SweepRelUnlock
<1>38. CASE SweepDelete
  BY <1>38 DEF SweepDelete, FreeReg
<1>39. CASE SweepWait
  BY <1>39 DEF SweepWait, FreeReg
<1>40. CASE UNCHANGED vars
  BY <1>40
<1> QED
  BY <1>1, <1>2, <1>3, <1>4, <1>5, <1>6, <1>7, <1>8, <1>9, <1>10, <1>11,
     <1>12, <1>13, <1>14, <1>15, <1>16, <1>17, <1>18, <1>19, <1>20, <1>21,
     <1>22, <1>23, <1>24, <1>25, <1>26, <1>27, <1>28, <1>29, <1>30, <1>31,
     <1>32, <1>33, <1>34, <1>35, <1>36, <1>37, <1>38, <1>39, <1>40
     DEF Next, Environment, MainStep, SweepStep

\* Objects change phase only under the mutex that protects the phase.
LEMMA PhaseStep == IInv /\ [Next]_vars => PhaseInv'
<1> SUFFICES ASSUME IInv, [Next]_vars PROVE PhaseInv'
  OBVIOUS
<1> USE RegistrarAssumption DEF IInv, TypeOK, LockInv, CallerInv, PhaseInv,
      HeldNotFreed, vars, objVars, lockVars, mainVars, sweepVars, Free,
      Owners, Phases, Replies, HoldPcs, MainPcs, UaPcs, SweepPcs
<1>1. CASE \E u \in Users : Lapse(u)
  BY <1>1 DEF Lapse
<1>2. CASE \E u \in Users, c \in Contacts : Register(u, c)
  BY <1>2 DEF Register, Begin
<1>3. CASE \E u \in Users : Invite(u) \/ Call(u)
  BY <1>3 DEF Invite, Call, Begin
<1>4. CASE LookupLock
  BY <1>4 DEF LookupLock
<1>5. CASE LookupHit
  BY <1>5 DEF LookupHit
<1>6. CASE LookupMiss
  BY <1>6 DEF LookupMiss, Finish
<1>7. CASE NewBuild
  BY <1>7 DEF NewBuild, StoreContact
<1>8. CASE NewFail
  BY <1>8 DEF NewFail, Finish
<1>9. CASE NewUa
  BY <1>9 DEF NewUa
<1>10. CASE NewUaFail
  BY <1>10 DEF NewUaFail, FreeReg, Finish
<1>11. CASE NewInsert
  BY <1>11 DEF NewInsert, Finish
<1>12. CASE NewInsertFail
  BY <1>12 DEF NewInsertFail, FreeReg, Finish
<1>13. CASE UpdateLock
  BY <1>13 DEF UpdateLock
<1>14. CASE UpdateSame
  BY <1>14 DEF UpdateSame
<1>15. CASE UpdateFail
  BY <1>15 DEF UpdateFail, StoreContact
<1>16. CASE UpdateBuild
  BY <1>16 DEF UpdateBuild, StoreContact
<1>17. CASE UpdateUaDestroy
  BY <1>17 DEF UpdateUaDestroy
<1>18. CASE UpdateUaAlloc
  BY <1>18 DEF UpdateUaAlloc
<1>19. CASE UpdateUaFail
  BY <1>19 DEF UpdateUaFail
<1>20. CASE UpdateOut
  BY <1>20 DEF UpdateOut
<1>21. CASE InviteRefuse
  BY <1>21 DEF InviteRefuse
<1>22. CASE \E u \in Users : InviteAccept(u)
  BY <1>22 DEF InviteAccept
<1>23. CASE BridgeConnect
  BY <1>23 DEF BridgeConnect
<1>24. CASE BridgeDone
  BY <1>24 DEF BridgeDone
<1>25. CASE BridgeFail
  BY <1>25 DEF BridgeFail, Finish
<1>26. CASE ReleaseLock
  BY <1>26 DEF ReleaseLock
<1>27. CASE ReleaseDec
  BY <1>27 DEF ReleaseDec, Finish
<1>28. CASE SweepStart
  BY <1>28 DEF SweepStart
<1>29. CASE SweepCollect
  BY <1>29 DEF SweepCollect
<1>30. CASE SweepDone
  BY <1>30 DEF SweepDone
<1>31. CASE \E u \in Users : SweepPop(u)
  BY <1>31 DEF SweepPop
<1>32. CASE SweepUaLock
  BY <1>32 DEF SweepUaLock
<1>33. CASE SweepRelFlag
  BY <1>33 DEF SweepRelFlag
<1>34. CASE SweepRelLock
  BY <1>34 DEF SweepRelLock
<1>35. CASE SweepRelRead
  BY <1>35 DEF SweepRelRead
<1>36. CASE SweepRelWrite
  BY <1>36 DEF SweepRelWrite
<1>37. CASE SweepRelUnlock
  BY <1>37 DEF SweepRelUnlock
<1>38. CASE SweepDelete
  BY <1>38 DEF SweepDelete, FreeReg
<1>39. CASE SweepWait
  BY <1>39 DEF SweepWait, FreeReg
<1>40. CASE UNCHANGED vars
  BY <1>40
<1> QED
  BY <1>1, <1>2, <1>3, <1>4, <1>5, <1>6, <1>7, <1>8, <1>9, <1>10, <1>11,
     <1>12, <1>13, <1>14, <1>15, <1>16, <1>17, <1>18, <1>19, <1>20, <1>21,
     <1>22, <1>23, <1>24, <1>25, <1>26, <1>27, <1>28, <1>29, <1>30, <1>31,
     <1>32, <1>33, <1>34, <1>35, <1>36, <1>37, <1>38, <1>39, <1>40
     DEF Next, Environment, MainStep, SweepStep

\* The points where a counter is about to change keep their shape.
LEMMA RefStep == IInv /\ [Next]_vars => RefInv'
<1> SUFFICES ASSUME IInv, [Next]_vars PROVE RefInv'
  OBVIOUS
<1> USE RegistrarAssumption DEF IInv, TypeOK, LockInv, CallerInv, PhaseInv,
      RefInv, RefsAccounted, UaHolds, MainHolds, HeldNotFreed, vars,
      objVars, lockVars, mainVars, sweepVars, Free, Owners, Phases, Replies,
      HoldPcs, MainPcs, UaPcs, SweepPcs
<1>1. CASE \E u \in Users : Lapse(u)
  BY <1>1 DEF Lapse
<1>2. CASE \E u \in Users, c \in Contacts : Register(u, c)
  BY <1>2 DEF Register, Begin
<1>3. CASE \E u \in Users : Invite(u) \/ Call(u)
  BY <1>3, SMTT(60) DEF Invite, Call, Begin
<1>4. CASE LookupLock
  BY <1>4 DEF LookupLock
<1>5. CASE LookupHit
  BY <1>5 DEF LookupHit
<1>6. CASE LookupMiss
  BY <1>6 DEF LookupMiss, Finish
<1>7. CASE NewBuild
  BY <1>7 DEF NewBuild, StoreContact
<1>8. CASE NewFail
  BY <1>8 DEF NewFail, Finish
<1>9. CASE NewUa
  BY <1>9 DEF NewUa
<1>10. CASE NewUaFail
  BY <1>10 DEF NewUaFail, FreeReg, Finish
<1>11. CASE NewInsert
  BY <1>11 DEF NewInsert, Finish
<1>12. CASE NewInsertFail
  BY <1>12 DEF NewInsertFail, FreeReg, Finish
<1>13. CASE UpdateLock
  BY <1>13 DEF UpdateLock
<1>14. CASE UpdateSame
  BY <1>14 DEF UpdateSame
<1>15. CASE UpdateFail
  BY <1>15 DEF UpdateFail, StoreContact
<1>16. CASE UpdateBuild
  BY <1>16 DEF UpdateBuild, StoreContact
<1>17. CASE UpdateUaDestroy
  BY <1>17 DEF UpdateUaDestroy
<1>18. CASE UpdateUaAlloc
  BY <1>18 DEF UpdateUaAlloc
<1>19. CASE UpdateUaFail
  BY <1>19 DEF UpdateUaFail
<1>20. CASE UpdateOut
  BY <1>20 DEF UpdateOut
<1>21. CASE InviteRefuse
  BY <1>21 DEF InviteRefuse
<1>22. CASE \E u \in Users : InviteAccept(u)
  BY <1>22 DEF InviteAccept
<1>23. CASE BridgeConnect
  BY <1>23 DEF BridgeConnect
<1>24. CASE BridgeDone
  BY <1>24 DEF BridgeDone
<1>25. CASE BridgeFail
  BY <1>25 DEF BridgeFail, Finish
<1>26. CASE ReleaseLock
  BY <1>26 DEF ReleaseLock
<1>27. CASE ReleaseDec
  BY <1>27 DEF ReleaseDec, Finish
<1>28. CASE SweepStart
  BY <1>28 DEF SweepStart
<1>29. CASE SweepCollect
  BY <1>29 DEF SweepCollect
<1>30. CASE SweepDone
  BY <1>30 DEF SweepDone
<1>31. CASE \E u \in Users : SweepPop(u)
  BY <1>31 DEF SweepPop
<1>32. CASE SweepUaLock
  BY <1>32 DEF SweepUaLock
<1>33. CASE SweepRelFlag
  BY <1>33 DEF SweepRelFlag
<1>34. CASE SweepRelLock
  BY <1>34 DEF SweepRelLock
<1>35. CASE SweepRelRead
  BY <1>35 DEF SweepRelRead
<1>36. CASE SweepRelWrite
  <2>1. /\ phase[suser] = "mapped" /\ suser \in Users /\ ua[suser]
        /\ \A u \in Users \ {suser} : refs'[u] = refs[u] /\ leaked'[u] = leaked[u]
    BY <1>36 DEF SweepRelWrite
  <2>2. spc' = "relUnlock" /\ UNCHANGED <<phase, ua, mpc, muser, suser>>
    BY <1>36 DEF SweepRelWrite
  <2>3. /\ mpc = "newUa" => ~ua[muser]
        /\ mpc = "updAlloc" => ~ua[muser]
    OBVIOUS
  <2>4. \A u \in Users : phase[u] = "none"
                           => ~ua[u] /\ refs[u] = 0 /\ leaked[u] = 0
    OBVIOUS
  <2>5. \A u \in Users : phase'[u] = "none"
                           => ~ua'[u] /\ refs'[u] = 0 /\ leaked'[u] = 0
    <3> SUFFICES ASSUME NEW u \in Users, phase'[u] = "none"
                 PROVE  ~ua'[u] /\ refs'[u] = 0 /\ leaked'[u] = 0
      OBVIOUS
    <3>1. u # suser /\ phase[u] = "none"
      BY <2>1, <2>2
    <3> QED
      BY <2>1, <2>2, <2>4, <3>1
  <2> QED
    BY <2>1, <2>2, <2>3, <2>5
<1>37. CASE SweepRelUnlock
  BY <1>37 DEF SweepRelUnlock
<1>38. CASE SweepDelete
  <2>1. CASE refs[suser] = 0
    <3>1. /\ suser \in Users /\ FreeReg(suser) /\ spc' = "next" /\ suser' = NoUser
          /\ UNCHANGED <<todo, seen, mapLock, uaLock, mainVars>>
      BY <1>38, <2>1 DEF SweepDelete
    <3> QED
      BY <3>1 DEF FreeReg
  <2>2. CASE refs[suser] # 0
    BY <1>38, <2>2 DEF SweepDelete
  <2> QED
    BY <2>1, <2>2, Zenon
<1>39. CASE SweepWait
  BY <1>39 DEF SweepWait, FreeReg
<1>40. CASE UNCHANGED vars
  BY <1>40
<1> QED
  BY <1>1, <1>2, <1>3, <1>4, <1>5, <1>6, <1>7, <1>8, <1>9, <1>10, <1>11,
     <1>12, <1>13, <1>14, <1>15, <1>16, <1>17, <1>18, <1>19, <1>20, <1>21,
     <1>22, <1>23, <1>24, <1>25, <1>26, <1>27, <1>28, <1>29, <1>30, <1>31,
     <1>32, <1>33, <1>34, <1>35, <1>36, <1>37, <1>38, <1>39, <1>40
     DEF Next, Environment, MainStep, SweepStep

\* Every change of a counter is matched by a change of its holders.
LEMMA CountStep == IInv /\ [Next]_vars => RefsAccounted'
<1> SUFFICES ASSUME IInv, [Next]_vars PROVE RefsAccounted'
  OBVIOUS
<1>1. CASE LookupMiss
  <2>1. CASE mop = "register"
    BY <1>1, <2>1 DEF LookupMiss, objVars, sweepVars, HoldPcs, IInv,
       RefsAccounted,
       MainHolds, UaHolds
  <2>2. CASE mop # "register"
    BY <1>1, <2>2, QuietFinish DEF LookupMiss, objVars, sweepVars, HoldPcs
  <2> QED
    BY <2>1, <2>2
<1>2. CASE NewFail
  BY <1>2, QuietFinish DEF NewFail, objVars, sweepVars, HoldPcs
<1> USE RegistrarAssumption DEF IInv, TypeOK, LockInv, CallerInv, PhaseInv,
      RefInv, RefsAccounted, UaHolds, MainHolds, HeldNotFreed, vars,
      objVars, lockVars, mainVars, sweepVars, Free, Owners, Phases, Replies,
      HoldPcs, MainPcs, UaPcs, SweepPcs
<1>3. CASE \E u \in Users : Lapse(u)
  BY <1>3 DEF Lapse
<1>4. CASE \E u \in Users, c \in Contacts : Register(u, c)
  BY <1>4 DEF Register, Begin
<1>5. CASE \E u \in Users : Invite(u) \/ Call(u)
  <2>1. \A u \in Users : MainHolds(u)' = MainHolds(u)
    BY <1>5 DEF Invite, Call, Begin
  <2>2. UNCHANGED <<refs, leaked, ua, spc, suser>>
    BY <1>5 DEF Invite, Call, Begin
  <2> QED
    BY <2>1, <2>2
<1>6. CASE LookupLock
  BY <1>6 DEF LookupLock
<1>7. CASE LookupHit
  <2>1. \A u \in Users : MainHolds(u)' = MainHolds(u) + IF u = muser THEN 1 ELSE 0
    BY <1>7 DEF LookupHit
  <2>2. \A u \in Users : refs'[u] = refs[u] + IF u = muser THEN 1 ELSE 0
    BY <1>7 DEF LookupHit
  <2>3. UNCHANGED <<leaked, ua, spc, suser>>
    BY <1>7 DEF LookupHit
  <2> QED
    BY <2>1, <2>2, <2>3
<1>8. CASE NewBuild
  BY <1>8 DEF NewBuild, StoreContact
<1>9. CASE NewUa
  BY <1>9 DEF NewUa
<1>10. CASE NewUaFail
  BY <1>10 DEF NewUaFail, FreeReg, Finish
<1>11. CASE NewInsert
  BY <1>11 DEF NewInsert, Finish
<1>12. CASE NewInsertFail
  BY <1>12 DEF NewInsertFail, FreeReg, Finish
<1>13. CASE UpdateLock
  BY <1>13 DEF UpdateLock
<1>14. CASE UpdateSame
  BY <1>14 DEF UpdateSame
<1>15. CASE UpdateFail
  BY <1>15 DEF UpdateFail, StoreContact
<1>16. CASE UpdateBuild
  BY <1>16 DEF UpdateBuild, StoreContact
<1>17. CASE UpdateUaDestroy
  BY <1>17 DEF UpdateUaDestroy
<1>18. CASE UpdateUaAlloc
  BY <1>18 DEF UpdateUaAlloc
<1>19. CASE UpdateUaFail
  BY <1>19 DEF UpdateUaFail
<1>20. CASE UpdateOut
  BY <1>20 DEF UpdateOut
<1>21. CASE InviteRefuse
  BY <1>21 DEF InviteRefuse
<1>22. CASE \E u \in Users : InviteAccept(u)
  BY <1>22 DEF InviteAccept
<1>23. CASE BridgeConnect
  BY <1>23 DEF BridgeConnect
<1>24. CASE BridgeDone
  BY <1>24 DEF BridgeDone
<1>25. CASE BridgeFail
  BY <1>25 DEF BridgeFail, Finish
<1>26. CASE ReleaseLock
  BY <1>26 DEF ReleaseLock
<1>27. CASE ReleaseDec
  BY <1>27 DEF ReleaseDec, Finish
<1>28. CASE SweepStart
  BY <1>28 DEF SweepStart
<1>29. CASE SweepCollect
  BY <1>29 DEF SweepCollect
<1>30. CASE SweepDone
  BY <1>30 DEF SweepDone
<1>31. CASE \E u \in Users : SweepPop(u)
  BY <1>31 DEF SweepPop
<1>32. CASE SweepUaLock
  BY <1>32 DEF SweepUaLock
<1>33. CASE SweepRelFlag
  BY <1>33 DEF SweepRelFlag
<1>34. CASE SweepRelLock
  BY <1>34 DEF SweepRelLock
<1>35. CASE SweepRelRead
  BY <1>35 DEF SweepRelRead
<1>36. CASE SweepRelWrite
  BY <1>36 DEF SweepRelWrite
<1>37. CASE SweepRelUnlock
  BY <1>37 DEF SweepRelUnlock
<1>38. CASE SweepDelete
  BY <1>38 DEF SweepDelete, FreeReg
<1>39. CASE SweepWait
  BY <1>39 DEF SweepWait, FreeReg
<1>40. CASE UNCHANGED vars
  BY <1>40
<1> QED
  BY <1>1, <1>2, <1>3, <1>4, <1>5, <1>6, <1>7, <1>8, <1>9, <1>10, <1>11,
     <1>12, <1>13, <1>14, <1>15, <1>16, <1>17, <1>18, <1>19, <1>20, <1>21,
     <1>22, <1>23, <1>24, <1>25, <1>26, <1>27, <1>28, <1>29, <1>30, <1>31,
     <1>32, <1>33, <1>34, <1>35, <1>36, <1>37, <1>38, <1>39, <1>40
     DEF Next, Environment, MainStep, SweepStep

\* What is freed has no holder.
LEMMA HeldStep == IInv /\ [Next]_vars => HeldNotFreed'
<1> SUFFICES ASSUME IInv, [Next]_vars PROVE HeldNotFreed'
  OBVIOUS
<1> USE RegistrarAssumption DEF IInv, TypeOK, LockInv, CallerInv, PhaseInv,
      RefInv, RefsAccounted, UaHolds, MainHolds, HeldNotFreed, vars,
      objVars, lockVars, mainVars, sweepVars, Free, Owners, Phases, Replies,
      HoldPcs, MainPcs, UaPcs, SweepPcs
<1>1. CASE \E u \in Users : Lapse(u)
  BY <1>1 DEF Lapse
<1>2. CASE \E u \in Users, c \in Contacts : Register(u, c)
  BY <1>2 DEF Register, Begin
<1>3. CASE \E u \in Users : Invite(u) \/ Call(u)
  BY <1>3 DEF Invite, Call, Begin
<1>4. CASE LookupLock
  BY <1>4 DEF LookupLock
<1>5. CASE LookupHit
  BY <1>5 DEF LookupHit
<1>6. CASE LookupMiss
  BY <1>6 DEF LookupMiss, Finish
<1>7. CASE NewBuild
  BY <1>7 DEF NewBuild, StoreContact
<1>8. CASE NewFail
  BY <1>8 DEF NewFail, Finish
<1>9. CASE NewUa
  BY <1>9 DEF NewUa
<1>10. CASE NewUaFail
  BY <1>10 DEF NewUaFail, FreeReg, Finish
<1>11. CASE NewInsert
  BY <1>11 DEF NewInsert, Finish
<1>12. CASE NewInsertFail
  BY <1>12 DEF NewInsertFail, FreeReg, Finish
<1>13. CASE UpdateLock
  BY <1>13 DEF UpdateLock
<1>14. CASE UpdateSame
  BY <1>14 DEF UpdateSame
<1>15. CASE UpdateFail
  BY <1>15 DEF UpdateFail, StoreContact
<1>16. CASE UpdateBuild
  BY <1>16 DEF UpdateBuild, StoreContact
<1>17. CASE UpdateUaDestroy
  BY <1>17 DEF UpdateUaDestroy
<1>18. CASE UpdateUaAlloc
  BY <1>18 DEF UpdateUaAlloc
<1>19. CASE UpdateUaFail
  BY <1>19 DEF UpdateUaFail
<1>20. CASE UpdateOut
  BY <1>20 DEF UpdateOut
<1>21. CASE InviteRefuse
  BY <1>21 DEF InviteRefuse
<1>22. CASE \E u \in Users : InviteAccept(u)
  BY <1>22 DEF InviteAccept
<1>23. CASE BridgeConnect
  BY <1>23 DEF BridgeConnect
<1>24. CASE BridgeDone
  BY <1>24 DEF BridgeDone
<1>25. CASE BridgeFail
  BY <1>25 DEF BridgeFail, Finish
<1>26. CASE ReleaseLock
  BY <1>26 DEF ReleaseLock
<1>27. CASE ReleaseDec
  BY <1>27 DEF ReleaseDec, Finish
<1>28. CASE SweepStart
  BY <1>28 DEF SweepStart
<1>29. CASE SweepCollect
  BY <1>29 DEF SweepCollect
<1>30. CASE SweepDone
  BY <1>30 DEF SweepDone
<1>31. CASE \E u \in Users : SweepPop(u)
  BY <1>31 DEF SweepPop
<1>32. CASE SweepUaLock
  BY <1>32 DEF SweepUaLock
<1>33. CASE SweepRelFlag
  BY <1>33 DEF SweepRelFlag
<1>34. CASE SweepRelLock
  BY <1>34 DEF SweepRelLock
<1>35. CASE SweepRelRead
  BY <1>35 DEF SweepRelRead
<1>36. CASE SweepRelWrite
  BY <1>36 DEF SweepRelWrite
<1>37. CASE SweepRelUnlock
  BY <1>37 DEF SweepRelUnlock
<1>38. CASE SweepDelete
  BY <1>38 DEF SweepDelete, FreeReg
<1>39. CASE SweepWait
  BY <1>39 DEF SweepWait, FreeReg
<1>40. CASE UNCHANGED vars
  BY <1>40
<1> QED
  BY <1>1, <1>2, <1>3, <1>4, <1>5, <1>6, <1>7, <1>8, <1>9, <1>10, <1>11,
     <1>12, <1>13, <1>14, <1>15, <1>16, <1>17, <1>18, <1>19, <1>20, <1>21,
     <1>22, <1>23, <1>24, <1>25, <1>26, <1>27, <1>28, <1>29, <1>30, <1>31,
     <1>32, <1>33, <1>34, <1>35, <1>36, <1>37, <1>38, <1>39, <1>40
     DEF Next, Environment, MainStep, SweepStep

-----------------------------------------------------------------------------
\* The strengthened invariant holds in every reachable state.
THEOREM InductiveInvariant == Spec => []IInv
<1>1. Init => IInv
  BY InitInv
<1>2. IInv /\ [Next]_vars => IInv'
  BY TypeStep, LockStep, CallerStep, PhaseStep, RefStep, CountStep, HeldStep
     DEF IInv
<1> QED
  BY <1>1, <1>2, PTL DEF Spec

\* The variables keep their types: no counter goes below zero, no thread
\* works on a registration that is none of the users'.
THEOREM TypeCorrect == Spec => []TypeOK
<1>1. IInv => TypeOK
  BY DEF IInv
<1> QED
  BY <1>1, InductiveInvariant, PTL

\* reg->refs is the number of its holders plus the references lost for good,
\* in spite of the unlocked decrement of the sweep.
THEOREM ReferencesAreAccounted == Spec => []RefsAccounted
<1>1. IInv => RefsAccounted
  BY DEF IInv
<1> QED
  BY <1>1, InductiveInvariant, PTL

\* A registration main got from a lookup is never freed before main releases
\* it, whatever the sweep does and in whatever order the threads run.
THEOREM HeldRegistrationsLive == Spec => []HeldNotFreed
<1>1. IInv => HeldNotFreed
  BY DEF IInv
<1> QED
  BY <1>1, InductiveInvariant, PTL
-----------------------------------------------------------------------------
(***************************************************************************)
(* What the sweep deletes, and under whom.                                 *)
(***************************************************************************)

\* Main is past its lookup and may yet renew or call the registration.
WorkPcs == {"updLock", "updBuild", "updUa", "updAlloc", "updOut", "held", "using"}

\* One renewal comes too late for the sweep: the lookup before the next one
\* waits for the sweep to end.
FreshInv ==
  /\ \A u \in Doomed : ~lapsed[u] => mpc \notin WorkPcs
  /\ AtMostOneFreshDoomed

LEMMA FreshStep == IInv /\ FreshInv /\ [Next]_vars => FreshInv'
<1> SUFFICES ASSUME IInv, FreshInv, [Next]_vars PROVE FreshInv'
  OBVIOUS
<1> USE RegistrarAssumption DEF IInv, TypeOK, LockInv, CallerInv, PhaseInv,
      FreshInv,
      AtMostOneFreshDoomed, Doomed, WorkPcs, HeldNotFreed, vars, objVars, lockVars, mainVars, sweepVars, Free,
      Owners, Phases, Replies, HoldPcs, MainPcs, UaPcs, SweepPcs
<1>1. CASE \E u \in Users : Lapse(u)
  BY <1>1 DEF Lapse
<1>2. CASE \E u \in Users, c \in Contacts : Register(u, c)
  BY <1>2 DEF Register, Begin
<1>3. CASE \E u \in Users : Invite(u) \/ Call(u)
  BY <1>3 DEF Invite, Call, Begin
<1>4. CASE LookupLock
  BY <1>4 DEF LookupLock
<1>5. CASE LookupHit
  BY <1>5 DEF LookupHit
<1>6. CASE LookupMiss
  BY <1>6 DEF LookupMiss, Finish
<1>7. CASE NewBuild
  BY <1>7 DEF NewBuild, StoreContact
<1>8. CASE NewFail
  BY <1>8 DEF NewFail, Finish
<1>9. CASE NewUa
  BY <1>9 DEF NewUa
<1>10. CASE NewUaFail
  BY <1>10 DEF NewUaFail, FreeReg, Finish
<1>11. CASE NewInsert
  BY <1>11 DEF NewInsert, Finish
<1>12. CASE NewInsertFail
  BY <1>12 DEF NewInsertFail, FreeReg, Finish
<1>13. CASE UpdateLock
  BY <1>13 DEF UpdateLock
<1>14. CASE UpdateSame
  BY <1>14 DEF UpdateSame
<1>15. CASE UpdateFail
  BY <1>15 DEF UpdateFail, StoreContact
<1>16. CASE UpdateBuild
  BY <1>16 DEF UpdateBuild, StoreContact
<1>17. CASE UpdateUaDestroy
  BY <1>17 DEF UpdateUaDestroy
<1>18. CASE UpdateUaAlloc
  BY <1>18 DEF UpdateUaAlloc
<1>19. CASE UpdateUaFail
  BY <1>19 DEF UpdateUaFail
<1>20. CASE UpdateOut
  BY <1>20 DEF UpdateOut
<1>21. CASE InviteRefuse
  BY <1>21 DEF InviteRefuse
<1>22. CASE \E u \in Users : InviteAccept(u)
  BY <1>22 DEF InviteAccept
<1>23. CASE BridgeConnect
  BY <1>23 DEF BridgeConnect
<1>24. CASE BridgeDone
  BY <1>24 DEF BridgeDone
<1>25. CASE BridgeFail
  BY <1>25 DEF BridgeFail, Finish
<1>26. CASE ReleaseLock
  BY <1>26 DEF ReleaseLock
<1>27. CASE ReleaseDec
  BY <1>27 DEF ReleaseDec, Finish
<1>28. CASE SweepStart
  BY <1>28 DEF SweepStart
<1>29. CASE SweepCollect
  BY <1>29 DEF SweepCollect
<1>30. CASE SweepDone
  BY <1>30 DEF SweepDone
<1>31. CASE \E u \in Users : SweepPop(u)
  BY <1>31 DEF SweepPop
<1>32. CASE SweepUaLock
  BY <1>32 DEF SweepUaLock
<1>33. CASE SweepRelFlag
  BY <1>33 DEF SweepRelFlag
<1>34. CASE SweepRelLock
  BY <1>34 DEF SweepRelLock
<1>35. CASE SweepRelRead
  BY <1>35 DEF SweepRelRead
<1>36. CASE SweepRelWrite
  BY <1>36 DEF SweepRelWrite
<1>37. CASE SweepRelUnlock
  BY <1>37 DEF SweepRelUnlock
<1>38. CASE SweepDelete
  BY <1>38 DEF SweepDelete, FreeReg
<1>39. CASE SweepWait
  BY <1>39 DEF SweepWait, FreeReg
<1>40. CASE UNCHANGED vars
  BY <1>40
<1> QED
  BY <1>1, <1>2, <1>3, <1>4, <1>5, <1>6, <1>7, <1>8, <1>9, <1>10, <1>11,
     <1>12, <1>13, <1>14, <1>15, <1>16, <1>17, <1>18, <1>19, <1>20, <1>21,
     <1>22, <1>23, <1>24, <1>25, <1>26, <1>27, <1>28, <1>29, <1>30, <1>31,
     <1>32, <1>33, <1>34, <1>35, <1>36, <1>37, <1>38, <1>39, <1>40
     DEF Next, Environment, MainStep, SweepStep

\* Of the registrations the sweep is about to delete at most one has been
\* renewed since it looked.
THEOREM OneRenewalTooLate == Spec => []AtMostOneFreshDoomed
<1>1. Init => FreshInv
  BY RegistrarAssumption DEF Init, FreshInv, AtMostOneFreshDoomed, Doomed
<1>2. IInv /\ FreshInv /\ [Next]_vars => FreshInv'
  BY FreshStep
<1>3. FreshInv => AtMostOneFreshDoomed
  BY DEF FreshInv
<1> QED
  BY <1>1, <1>2, <1>3, InductiveInvariant, PTL DEF Spec

\* While main sets up a call on a UA, only the sweep destroys it, and only when
\* the registration has expired.
LEMMA UaStep ==
  ASSUME IInv, FreshInv, [Next]_vars, mpc = "using", ua[muser], ~ua'[muser]
  PROVE  lapsed[muser]
<1> USE RegistrarAssumption DEF IInv, TypeOK, LockInv, CallerInv, PhaseInv,
      RefInv,
      RefsAccounted, UaHolds, MainHolds, FreshInv, Doomed, WorkPcs, HeldNotFreed, vars, objVars, lockVars, mainVars, sweepVars, Free,
      Owners, Phases, Replies, HoldPcs, MainPcs, UaPcs, SweepPcs
<1>1. CASE \E u \in Users : Lapse(u)
  BY <1>1 DEF Lapse
<1>2. CASE \E u \in Users, c \in Contacts : Register(u, c)
  BY <1>2 DEF Register, Begin
<1>3. CASE \E u \in Users : Invite(u) \/ Call(u)
  BY <1>3 DEF Invite, Call, Begin
<1>4. CASE LookupLock
  BY <1>4 DEF LookupLock
<1>5. CASE LookupHit
  BY <1>5 DEF LookupHit
<1>6. CASE LookupMiss
  BY <1>6 DEF LookupMiss, Finish
<1>7. CASE NewBuild
  BY <1>7 DEF NewBuild, StoreContact
<1>8. CASE NewFail
  BY <1>8 DEF NewFail, Finish
<1>9. CASE NewUa
  BY <1>9 DEF NewUa
<1>10. CASE NewUaFail
  BY <1>10 DEF NewUaFail, FreeReg, Finish
<1>11. CASE NewInsert
  BY <1>11 DEF NewInsert, Finish
<1>12. CASE NewInsertFail
  BY <1>12 DEF NewInsertFail, FreeReg, Finish
<1>13. CASE UpdateLock
  BY <1>13 DEF UpdateLock
<1>14. CASE UpdateSame
  BY <1>14 DEF UpdateSame
<1>15. CASE UpdateFail
  BY <1>15 DEF UpdateFail, StoreContact
<1>16. CASE UpdateBuild
  BY <1>16 DEF UpdateBuild, StoreContact
<1>17. CASE UpdateUaDestroy
  BY <1>17 DEF UpdateUaDestroy
<1>18. CASE UpdateUaAlloc
  BY <1>18 DEF UpdateUaAlloc
<1>19. CASE UpdateUaFail
  BY <1>19 DEF UpdateUaFail
<1>20. CASE UpdateOut
  BY <1>20 DEF UpdateOut
<1>21. CASE InviteRefuse
  BY <1>21 DEF InviteRefuse
<1>22. CASE \E u \in Users : InviteAccept(u)
  BY <1>22 DEF InviteAccept
<1>23. CASE BridgeConnect
  BY <1>23 DEF BridgeConnect
<1>24. CASE BridgeDone
  BY <1>24 DEF BridgeDone
<1>25. CASE BridgeFail
  BY <1>25 DEF BridgeFail, Finish
<1>26. CASE ReleaseLock
  BY <1>26 DEF ReleaseLock
<1>27. CASE ReleaseDec
  BY <1>27 DEF ReleaseDec, Finish
<1>28. CASE SweepStart
  BY <1>28 DEF SweepStart
<1>29. CASE SweepCollect
  BY <1>29 DEF SweepCollect
<1>30. CASE SweepDone
  BY <1>30 DEF SweepDone
<1>31. CASE \E u \in Users : SweepPop(u)
  BY <1>31 DEF SweepPop
<1>32. CASE SweepUaLock
  BY <1>32 DEF SweepUaLock
<1>33. CASE SweepRelFlag
  BY <1>33 DEF SweepRelFlag
<1>34. CASE SweepRelLock
  BY <1>34 DEF SweepRelLock
<1>35. CASE SweepRelRead
  BY <1>35 DEF SweepRelRead
<1>36. CASE SweepRelWrite
  BY <1>36 DEF SweepRelWrite
<1>37. CASE SweepRelUnlock
  BY <1>37 DEF SweepRelUnlock
<1>38. CASE SweepDelete
  BY <1>38 DEF SweepDelete, FreeReg
<1>39. CASE SweepWait
  BY <1>39 DEF SweepWait, FreeReg
<1>40. CASE UNCHANGED vars
  BY <1>40
<1> QED
  BY <1>1, <1>2, <1>3, <1>4, <1>5, <1>6, <1>7, <1>8, <1>9, <1>10, <1>11,
     <1>12, <1>13, <1>14, <1>15, <1>16, <1>17, <1>18, <1>19, <1>20, <1>21,
     <1>22, <1>23, <1>24, <1>25, <1>26, <1>27, <1>28, <1>29, <1>30, <1>31,
     <1>32, <1>33, <1>34, <1>35, <1>36, <1>37, <1>38, <1>39, <1>40
     DEF Next, Environment, MainStep, SweepStep

\* A registration that is renewed in time keeps its UA while a call is set up.
THEOREM UaInUseKept == Spec => UaInUseOnlyLostToExpiry
<1>1. Init => FreshInv
  BY RegistrarAssumption DEF Init, FreshInv, AtMostOneFreshDoomed, Doomed
<1>2. IInv /\ FreshInv /\ [Next]_vars => FreshInv'
  BY FreshStep
<1>3. IInv /\ FreshInv /\ [Next]_vars
        => (mpc = "using" /\ ua[muser] /\ ~ua'[muser] => lapsed[muser])
  BY UaStep
<1> QED
  BY <1>1, <1>2, <1>3, InductiveInvariant, PTL DEF Spec, UaInUseOnlyLostToExpiry

-----------------------------------------------------------------------------
(***************************************************************************)
(* What a registration says.                                               *)
(***************************************************************************)

UpdatePcs == {"updLock", "updBuild", "updUa", "updAlloc", "updOut"}

\* Calls go to the contact of the request, or a failure has left a NULL.
Reachable ==
  \/ contact[muser] = mcontact
  \/ contactUri[muser] = NoContact
  \/ contact[muser] = NoContact

\* The three copies of the contact differ only where one of them is missing.
ContactInv ==
  /\ mpc \in UpdatePcs \cup {"lookup", "find"} /\ mop = "register"
       => mcontact \in Contacts
  /\ mpc \in UpdatePcs => mop = "register"
  /\ mpc = "using" => mop = "call"
  /\ \A u \in Users : contactUri[u] # NoContact /\ contact[u] # NoContact
                        => contactStr[u] \in {contact[u], NoContact}
  /\ mpc \in {"updUa", "updAlloc"} => contact[muser] = mcontact
  /\ mpc = "updOut" /\ reply = "ok" => Reachable
  /\ OkMeansReachable

LEMMA ContactStep == IInv /\ ContactInv /\ [Next]_vars => ContactInv'
<1> SUFFICES ASSUME IInv, ContactInv, [Next]_vars PROVE ContactInv'
  OBVIOUS
<1> USE RegistrarAssumption DEF IInv, TypeOK, LockInv, CallerInv, PhaseInv,
      RefInv,
      RefsAccounted, UaHolds, MainHolds, HeldNotFreed, ContactInv, UpdatePcs,
      Reachable, OkMeansReachable, vars, objVars, lockVars, mainVars, sweepVars, Free,
      Owners, Phases, Replies, HoldPcs, MainPcs, UaPcs, SweepPcs
<1>1. CASE \E u \in Users : Lapse(u)
  BY <1>1 DEF Lapse
<1>2. CASE \E u \in Users, c \in Contacts : Register(u, c)
  BY <1>2 DEF Register, Begin
<1>3. CASE \E u \in Users : Invite(u) \/ Call(u)
  BY <1>3 DEF Invite, Call, Begin
<1>4. CASE LookupLock
  BY <1>4 DEF LookupLock
<1>5. CASE LookupHit
  BY <1>5 DEF LookupHit
<1>6. CASE LookupMiss
  BY <1>6 DEF LookupMiss, Finish
<1>7. CASE NewBuild
  BY <1>7 DEF NewBuild, StoreContact
<1>8. CASE NewFail
  BY <1>8 DEF NewFail, Finish
<1>9. CASE NewUa
  BY <1>9 DEF NewUa
<1>10. CASE NewUaFail
  BY <1>10 DEF NewUaFail, FreeReg, Finish
<1>11. CASE NewInsert
  BY <1>11 DEF NewInsert, Finish
<1>12. CASE NewInsertFail
  BY <1>12 DEF NewInsertFail, FreeReg, Finish
<1>13. CASE UpdateLock
  BY <1>13 DEF UpdateLock
<1>14. CASE UpdateSame
  BY <1>14 DEF UpdateSame
<1>15. CASE UpdateFail
  BY <1>15 DEF UpdateFail, StoreContact
<1>16. CASE UpdateBuild
  BY <1>16 DEF UpdateBuild, StoreContact
<1>17. CASE UpdateUaDestroy
  BY <1>17 DEF UpdateUaDestroy
<1>18. CASE UpdateUaAlloc
  BY <1>18 DEF UpdateUaAlloc
<1>19. CASE UpdateUaFail
  BY <1>19 DEF UpdateUaFail
<1>20. CASE UpdateOut
  BY <1>20 DEF UpdateOut
<1>21. CASE InviteRefuse
  BY <1>21 DEF InviteRefuse
<1>22. CASE \E u \in Users : InviteAccept(u)
  BY <1>22 DEF InviteAccept
<1>23. CASE BridgeConnect
  BY <1>23 DEF BridgeConnect
<1>24. CASE BridgeDone
  BY <1>24 DEF BridgeDone
<1>25. CASE BridgeFail
  BY <1>25 DEF BridgeFail, Finish
<1>26. CASE ReleaseLock
  BY <1>26 DEF ReleaseLock
<1>27. CASE ReleaseDec
  BY <1>27 DEF ReleaseDec, Finish
<1>28. CASE SweepStart
  BY <1>28 DEF SweepStart
<1>29. CASE SweepCollect
  BY <1>29 DEF SweepCollect
<1>30. CASE SweepDone
  BY <1>30 DEF SweepDone
<1>31. CASE \E u \in Users : SweepPop(u)
  BY <1>31 DEF SweepPop
<1>32. CASE SweepUaLock
  BY <1>32 DEF SweepUaLock
<1>33. CASE SweepRelFlag
  BY <1>33 DEF SweepRelFlag
<1>34. CASE SweepRelLock
  BY <1>34 DEF SweepRelLock
<1>35. CASE SweepRelRead
  BY <1>35 DEF SweepRelRead
<1>36. CASE SweepRelWrite
  BY <1>36 DEF SweepRelWrite
<1>37. CASE SweepRelUnlock
  BY <1>37 DEF SweepRelUnlock
<1>38. CASE SweepDelete
  <2>1. CASE refs[suser] = 0
    <3>1. /\ suser \in Users /\ FreeReg(suser) /\ spc' = "next" /\ suser' = NoUser
          /\ UNCHANGED <<todo, seen, mapLock, uaLock, mainVars>>
      BY <1>38, <2>1 DEF SweepDelete
    <3>2. mpc \in HoldPcs => muser # suser
      BY <2>1, <3>1
    <3> QED
      BY <3>1, <3>2 DEF FreeReg
  <2>2. CASE refs[suser] # 0
    BY <1>38, <2>2 DEF SweepDelete
  <2> QED
    BY <2>1, <2>2
<1>39. CASE SweepWait
  BY <1>39 DEF SweepWait, FreeReg
<1>40. CASE UNCHANGED vars
  BY <1>40
<1> QED
  BY <1>1, <1>2, <1>3, <1>4, <1>5, <1>6, <1>7, <1>8, <1>9, <1>10, <1>11,
     <1>12, <1>13, <1>14, <1>15, <1>16, <1>17, <1>18, <1>19, <1>20, <1>21,
     <1>22, <1>23, <1>24, <1>25, <1>26, <1>27, <1>28, <1>29, <1>30, <1>31,
     <1>32, <1>33, <1>34, <1>35, <1>36, <1>37, <1>38, <1>39, <1>40
     DEF Next, Environment, MainStep, SweepStep

\* A REGISTER that is answered with 200 has its contact stored where calls look
\* for it, unless an earlier failure has left the registration without one.
THEOREM OkIsReachable == Spec => []OkMeansReachable
<1>1. Init => ContactInv
  BY RegistrarAssumption
     DEF Init, ContactInv, UpdatePcs, Reachable, OkMeansReachable
<1>2. IInv /\ ContactInv /\ [Next]_vars => ContactInv'
  BY ContactStep
<1>3. ContactInv => OkMeansReachable
  BY DEF ContactInv
<1> QED
  BY <1>1, <1>2, <1>3, InductiveInvariant, PTL DEF Spec

-----------------------------------------------------------------------------
(***************************************************************************)
(* Stalls.                                                                 *)
(***************************************************************************)

BusyPcs == {"updBuild", "updUa", "updAlloc", "updOut"}

\* reg->mutex, when it is locked, belongs to a thread that is still to unlock it.
\* The converse fails: the sweep unlocks a mutex that main has locked in release.
MutexInv ==
  \A u \in Users :
    /\ updating[u] <=> mpc \in BusyPcs /\ muser = u
    /\ updating[u] => regLock[u] = "main"
    /\ regLock[u] = "main" => mpc \in BusyPcs \cup {"relDec"} /\ muser = u
    /\ regLock[u] = "sweep"
         => spc \in {"relRead", "relWrite", "relUnlock"} /\ suser = u

LEMMA MutexStep == IInv /\ MutexInv /\ [Next]_vars => MutexInv'
<1> SUFFICES ASSUME IInv, MutexInv, [Next]_vars PROVE MutexInv'
  OBVIOUS
<1> USE RegistrarAssumption DEF IInv, TypeOK, LockInv, CallerInv, PhaseInv,
      RefInv,
      RefsAccounted, UaHolds, MainHolds, HeldNotFreed, MutexInv, BusyPcs, vars, objVars, lockVars, mainVars, sweepVars, Free,
      Owners, Phases, Replies, HoldPcs, MainPcs, UaPcs, SweepPcs
<1>1. CASE \E u \in Users : Lapse(u)
  BY <1>1 DEF Lapse
<1>2. CASE \E u \in Users, c \in Contacts : Register(u, c)
  BY <1>2 DEF Register, Begin
<1>3. CASE \E u \in Users : Invite(u) \/ Call(u)
  BY <1>3 DEF Invite, Call, Begin
<1>4. CASE LookupLock
  BY <1>4 DEF LookupLock
<1>5. CASE LookupHit
  BY <1>5 DEF LookupHit
<1>6. CASE LookupMiss
  BY <1>6 DEF LookupMiss, Finish
<1>7. CASE NewBuild
  BY <1>7 DEF NewBuild, StoreContact
<1>8. CASE NewFail
  BY <1>8 DEF NewFail, Finish
<1>9. CASE NewUa
  BY <1>9 DEF NewUa
<1>10. CASE NewUaFail
  BY <1>10 DEF NewUaFail, FreeReg, Finish
<1>11. CASE NewInsert
  BY <1>11 DEF NewInsert, Finish
<1>12. CASE NewInsertFail
  BY <1>12 DEF NewInsertFail, FreeReg, Finish
<1>13. CASE UpdateLock
  BY <1>13 DEF UpdateLock
<1>14. CASE UpdateSame
  BY <1>14 DEF UpdateSame
<1>15. CASE UpdateFail
  BY <1>15 DEF UpdateFail, StoreContact
<1>16. CASE UpdateBuild
  BY <1>16 DEF UpdateBuild, StoreContact
<1>17. CASE UpdateUaDestroy
  BY <1>17 DEF UpdateUaDestroy
<1>18. CASE UpdateUaAlloc
  BY <1>18 DEF UpdateUaAlloc
<1>19. CASE UpdateUaFail
  BY <1>19 DEF UpdateUaFail
<1>20. CASE UpdateOut
  BY <1>20 DEF UpdateOut
<1>21. CASE InviteRefuse
  BY <1>21 DEF InviteRefuse
<1>22. CASE \E u \in Users : InviteAccept(u)
  BY <1>22 DEF InviteAccept
<1>23. CASE BridgeConnect
  BY <1>23 DEF BridgeConnect
<1>24. CASE BridgeDone
  BY <1>24 DEF BridgeDone
<1>25. CASE BridgeFail
  BY <1>25 DEF BridgeFail, Finish
<1>26. CASE ReleaseLock
  BY <1>26 DEF ReleaseLock
<1>27. CASE ReleaseDec
  BY <1>27 DEF ReleaseDec, Finish
<1>28. CASE SweepStart
  BY <1>28 DEF SweepStart
<1>29. CASE SweepCollect
  BY <1>29 DEF SweepCollect
<1>30. CASE SweepDone
  BY <1>30 DEF SweepDone
<1>31. CASE \E u \in Users : SweepPop(u)
  BY <1>31 DEF SweepPop
<1>32. CASE SweepUaLock
  BY <1>32 DEF SweepUaLock
<1>33. CASE SweepRelFlag
  BY <1>33 DEF SweepRelFlag
<1>34. CASE SweepRelLock
  BY <1>34 DEF SweepRelLock
<1>35. CASE SweepRelRead
  BY <1>35 DEF SweepRelRead
<1>36. CASE SweepRelWrite
  BY <1>36 DEF SweepRelWrite
<1>37. CASE SweepRelUnlock
  BY <1>37 DEF SweepRelUnlock
<1>38. CASE SweepDelete
  BY <1>38 DEF SweepDelete, FreeReg
<1>39. CASE SweepWait
  BY <1>39 DEF SweepWait, FreeReg
<1>40. CASE UNCHANGED vars
  BY <1>40
<1> QED
  BY <1>1, <1>2, <1>3, <1>4, <1>5, <1>6, <1>7, <1>8, <1>9, <1>10, <1>11,
     <1>12, <1>13, <1>14, <1>15, <1>16, <1>17, <1>18, <1>19, <1>20, <1>21,
     <1>22, <1>23, <1>24, <1>25, <1>26, <1>27, <1>28, <1>29, <1>30, <1>31,
     <1>32, <1>33, <1>34, <1>35, <1>36, <1>37, <1>38, <1>39, <1>40
     DEF Next, Environment, MainStep, SweepStep

\* Both threads wait in one of the three wedges only.
LEMMA WaitsLemma == IInv /\ MutexInv => WaitsAreWedges
<1> SUFFICES ASSUME IInv, MutexInv, MainWaits, SweepWaits PROVE Wedged
  BY DEF WaitsAreWedges
<1> USE RegistrarAssumption DEF IInv, TypeOK, LockInv, CallerInv, PhaseInv,
      RefsAccounted, UaHolds, MainHolds, HeldNotFreed, MutexInv, BusyPcs, Free,
      Owners, Phases, HoldPcs, MainPcs, UaPcs, SweepPcs, MainWaits, Wedged
<1>1. CASE spc = "sleep" /\ \A u \in Users : phase[u] # "mapped"
  BY <1>1
<1>2. CASE spc = "scan" /\ mapLock # Free
  BY <1>2
<1>3. CASE spc = "uaLock" /\ uaLock # Free
  BY <1>3
<1>4. CASE spc = "relLock" /\ regLock[suser] # Free
  BY <1>4 DEF LockInversion
<1>5. CASE spc = "wait" /\ (regLock[suser] # Free \/ refs[suser] > 0)
  <2>1. suser \in Users /\ refs[suser] > 0
    BY <1>5
  <2>2. CASE MainHolds(suser) = 0
    BY <1>5, <2>1, <2>2 DEF Orphaned
  <2>3. CASE mcaller = suser
    BY <1>5, <2>1, <2>3 DEF CallerHeld
  <2>4. CASE mpc \in HoldPcs /\ muser = suser
    BY <1>5, <2>1, <2>4
  <2> QED
    BY <2>2, <2>3, <2>4
<1> QED
  BY <1>1, <1>2, <1>3, <1>4, <1>5 DEF SweepWaits

\* No order in which the two threads take their mutexes blocks the server,
\* except for the three that Wedged names.
THEOREM OnlyThreeWedges == Spec => []WaitsAreWedges
<1>1. Init => MutexInv
  BY RegistrarAssumption DEF Init, MutexInv, BusyPcs, Free
<1>2. IInv /\ MutexInv /\ [Next]_vars => MutexInv'
  BY MutexStep
<1>3. IInv /\ MutexInv => WaitsAreWedges
  BY WaitsLemma
<1> QED
  BY <1>1, <1>2, <1>3, InductiveInvariant, PTL DEF Spec

\* No thread gets out of a wedge: the two locks of the inversion are never
\* unlocked, and a counter nobody is left to lower never falls.
LEMMA InversionLasts ==
  ASSUME IInv, [Next]_vars, LockInversion
  PROVE  LockInversion'
<1> USE RegistrarAssumption DEF IInv, TypeOK, LockInv, LockInversion, vars,
      objVars, lockVars, mainVars, sweepVars, Free, HoldPcs, UaPcs
<1>1. ~MainStep
  BY DEF MainStep, LookupLock, LookupHit, LookupMiss, NewBuild, NewFail, NewUa,
     NewUaFail, NewInsert, NewInsertFail, UpdateLock, UpdateSame, UpdateFail,
     UpdateBuild, UpdateUaDestroy, UpdateUaAlloc, UpdateUaFail, UpdateOut,
     InviteRefuse, InviteAccept, BridgeConnect, BridgeDone, BridgeFail,
     ReleaseLock, ReleaseDec
<1>2. ~SweepStep
  BY DEF SweepStep, SweepStart, SweepCollect, SweepDone, SweepPop, SweepUaLock,
     SweepRelFlag, SweepRelLock, SweepRelRead, SweepRelWrite, SweepRelUnlock,
     SweepDelete, SweepWait
<1>3. CASE Environment
  BY <1>3 DEF Environment, Lapse, Register, Invite, Call, Begin
<1>4. CASE UNCHANGED vars
  BY <1>4
<1> QED
  BY <1>1, <1>2, <1>3, <1>4 DEF Next

LEMMA CallerHeldLasts ==
  ASSUME IInv, [Next]_vars, CallerHeld
  PROVE  CallerHeld'
<1> USE RegistrarAssumption DEF IInv, TypeOK, LockInv, CallerHeld, vars,
      objVars, lockVars, mainVars, sweepVars, Free, HoldPcs, UaPcs
<1>1. ~MainStep
  BY DEF MainStep, LookupLock, LookupHit, LookupMiss, NewBuild, NewFail, NewUa,
     NewUaFail, NewInsert, NewInsertFail, UpdateLock, UpdateSame, UpdateFail,
     UpdateBuild, UpdateUaDestroy, UpdateUaAlloc, UpdateUaFail, UpdateOut,
     InviteRefuse, InviteAccept, BridgeConnect, BridgeDone, BridgeFail,
     ReleaseLock, ReleaseDec
<1>2. refs[suser] > 0
  BY DEF RefsAccounted, UaHolds, MainHolds
<1>3. ~SweepStep
  BY <1>2 DEF SweepStep, SweepStart, SweepCollect, SweepDone, SweepPop,
     SweepUaLock, SweepRelFlag, SweepRelLock, SweepRelRead, SweepRelWrite,
     SweepRelUnlock, SweepDelete, SweepWait
<1>4. CASE Environment
  BY <1>4 DEF Environment, Lapse, Register, Invite, Call, Begin
<1>5. CASE UNCHANGED vars
  BY <1>5
<1> QED
  BY <1>1, <1>3, <1>4, <1>5 DEF Next

LEMMA OrphanedLasts ==
  ASSUME IInv, [Next]_vars, Orphaned
  PROVE  Orphaned'
<1> USE RegistrarAssumption DEF IInv, TypeOK, LockInv, CallerInv, PhaseInv,
      HeldNotFreed, MainHolds, Orphaned, vars, objVars, lockVars, mainVars,
      sweepVars, Free, Owners, Phases, Replies, HoldPcs, MainPcs, UaPcs, SweepPcs
<1>1. CASE \E u \in Users : Lapse(u)
  BY <1>1 DEF Lapse
<1>2. CASE \E u \in Users, c \in Contacts : Register(u, c)
  BY <1>2 DEF Register, Begin
<1>3. CASE \E u \in Users : Invite(u) \/ Call(u)
  BY <1>3 DEF Invite, Call, Begin
<1>4. CASE LookupLock
  BY <1>4 DEF LookupLock
<1>5. CASE LookupHit
  BY <1>5 DEF LookupHit
<1>6. CASE LookupMiss
  BY <1>6 DEF LookupMiss, Finish
<1>7. CASE NewBuild
  BY <1>7 DEF NewBuild, StoreContact
<1>8. CASE NewFail
  BY <1>8 DEF NewFail, Finish
<1>9. CASE NewUa
  BY <1>9 DEF NewUa
<1>10. CASE NewUaFail
  BY <1>10 DEF NewUaFail, FreeReg, Finish
<1>11. CASE NewInsert
  BY <1>11 DEF NewInsert, Finish
<1>12. CASE NewInsertFail
  BY <1>12 DEF NewInsertFail, FreeReg, Finish
<1>13. CASE UpdateLock
  BY <1>13 DEF UpdateLock
<1>14. CASE UpdateSame
  BY <1>14 DEF UpdateSame
<1>15. CASE UpdateFail
  BY <1>15 DEF UpdateFail, StoreContact
<1>16. CASE UpdateBuild
  BY <1>16 DEF UpdateBuild, StoreContact
<1>17. CASE UpdateUaDestroy
  BY <1>17 DEF UpdateUaDestroy
<1>18. CASE UpdateUaAlloc
  BY <1>18 DEF UpdateUaAlloc
<1>19. CASE UpdateUaFail
  BY <1>19 DEF UpdateUaFail
<1>20. CASE UpdateOut
  BY <1>20 DEF UpdateOut
<1>21. CASE InviteRefuse
  BY <1>21 DEF InviteRefuse
<1>22. CASE \E u \in Users : InviteAccept(u)
  BY <1>22 DEF InviteAccept
<1>23. CASE BridgeConnect
  BY <1>23 DEF BridgeConnect
<1>24. CASE BridgeDone
  BY <1>24 DEF BridgeDone
<1>25. CASE BridgeFail
  BY <1>25 DEF BridgeFail, Finish
<1>26. CASE ReleaseLock
  BY <1>26 DEF ReleaseLock
<1>27. CASE ReleaseDec
  BY <1>27 DEF ReleaseDec, Finish
<1>28. CASE SweepStart
  BY <1>28 DEF SweepStart
<1>29. CASE SweepCollect
  BY <1>29 DEF SweepCollect
<1>30. CASE SweepDone
  BY <1>30 DEF SweepDone
<1>31. CASE \E u \in Users : SweepPop(u)
  BY <1>31 DEF SweepPop
<1>32. CASE SweepUaLock
  BY <1>32 DEF SweepUaLock
<1>33. CASE SweepRelFlag
  BY <1>33 DEF SweepRelFlag
<1>34. CASE SweepRelLock
  BY <1>34 DEF SweepRelLock
<1>35. CASE SweepRelRead
  BY <1>35 DEF SweepRelRead
<1>36. CASE SweepRelWrite
  BY <1>36 DEF SweepRelWrite
<1>37. CASE SweepRelUnlock
  BY <1>37 DEF SweepRelUnlock
<1>38. CASE SweepDelete
  BY <1>38 DEF SweepDelete, FreeReg
<1>39. CASE SweepWait
  BY <1>39 DEF SweepWait, FreeReg
<1>40. CASE UNCHANGED vars
  BY <1>40
<1> QED
  BY <1>1, <1>2, <1>3, <1>4, <1>5, <1>6, <1>7, <1>8, <1>9, <1>10, <1>11,
     <1>12, <1>13, <1>14, <1>15, <1>16, <1>17, <1>18, <1>19, <1>20, <1>21,
     <1>22, <1>23, <1>24, <1>25, <1>26, <1>27, <1>28, <1>29, <1>30, <1>31,
     <1>32, <1>33, <1>34, <1>35, <1>36, <1>37, <1>38, <1>39, <1>40
     DEF Next, Environment, MainStep, SweepStep

\* Once the threads block each other, or the sweep a reference that is lost, it
\* stays so: the poll of the destructor never succeeds later.
THEOREM WedgesLast == Spec => WedgedForever
<1>1. IInv /\ [Next]_vars => (Wedged => Wedged')
  BY InversionLasts, CallerHeldLasts, OrphanedLasts DEF Wedged
<1> QED
  BY <1>1, InductiveInvariant, PTL DEF Spec, WedgedForever

-----------------------------------------------------------------------------
(***************************************************************************)
(* Authentication, which a request passes before it comes to the registrar, *)
(* for any lifetime of a nonce, any skew of the clock and any number of     *)
(* addresses and messages.                                                  *)
(***************************************************************************)

\* Every request of the present transaction carries the nonce it was first sent
\* with, however often it is sent again and from wherever.
RequestInv ==
  sent # Null =>
    /\ sent.n = n
    /\ \A m \in net : IsRequest(m) /\ m.n = n => m.nonce = sent.nonce

\* A challenge was the answer to a request without a nonce; any other refusal is
\* kept by a transaction, which goes on taking the request for as long as the
\* phone sends it.
AnswerInv ==
  /\ \A x \in trans : x.code # 401
  /\ sent # Null /\ first = 401 => sent.nonce = Null /\ account # "open"
  /\ sent # Null /\ first \in {403, 404, 500} => \E x \in trans : x.n = n

AuthInv == AuthTypeOK /\ RequestInv /\ AnswerInv

-----------------------------------------------------------------------------
\* Getting older, a nonce remains one, and what is none remains none.
LEMMA OlderType ==
  ASSUME NEW x \in NonceT \cup {Null}
  PROVE  /\ Older(x) \in NonceT \cup {Null}
         /\ x = Null => Older(x) = Null
         /\ x # Null => Older(x) # Null
<1>1. CASE x = Null
  BY <1>1 DEF Older
<1>2. CASE x # Null /\ x.age = Old
  BY <1>2 DEF Older
<1>3. CASE x # Null /\ x.age # Old
  <2>1. x \in NonceT /\ Old \in Nat
    BY <1>3, AuthAssumption DEF Old
  <2>2. x.age \in 0 .. Old /\ x.age + 1 \in 0 .. Old
    BY <1>3, <2>1 DEF NonceT
  <2>3. Older(x) = [x EXCEPT !.age = x.age + 1]
    BY <1>3 DEF Older
  <2>4. Older(x) \in NonceT
    BY <2>1, <2>2, <2>3 DEF NonceT
  <2> QED
    BY <1>3, <2>4, NullAssumption
<1> QED
  BY <1>1, <1>2, <1>3

\* A message is a request or a response, and is told apart by its fields.
LEMMA MessageKinds ==
  /\ \A m \in Request : IsRequest(m)
  /\ \A m \in Response : ~IsRequest(m)
BY DEF Request, Response, IsRequest

\* A message that gets older stays what it is but for its nonce.
LEMMA AgedMessage ==
  ASSUME NEW m \in Request \cup Response
  PROVE  LET a == [m EXCEPT !.nonce = Older(@)]
         IN  /\ m \in Request => a \in Request
             /\ m \in Response => a \in Response
             /\ a.n = m.n /\ a.nonce = Older(m.nonce)
             /\ IsRequest(a) <=> IsRequest(m)
<1> DEFINE a == [m EXCEPT !.nonce = Older(@)]
<1>1. m.nonce \in NonceT \cup {Null}
  BY DEF Request, Response
<1>2. Older(m.nonce) \in NonceT \cup {Null}
  BY <1>1, OlderType
<1>3. CASE m \in Request
  <2>1. a \in Request /\ a.n = m.n /\ a.nonce = Older(m.nonce)
    BY <1>2, <1>3 DEF Request
  <2> QED
    BY <1>3, <2>1, MessageKinds
<1>4. CASE m \in Response
  <2>1. a \in Response /\ a.n = m.n /\ a.nonce = Older(m.nonce)
    BY <1>2, <1>4 DEF Response
  <2> QED
    BY <1>4, <2>1, MessageKinds
<1> QED
  BY <1>3, <1>4

\* An answer is on its way, and it is no request.
LEMMA AnswerType ==
  ASSUME AuthInv, NEW m \in net, IsRequest(m),
         NEW code \in Codes, NEW nonce \in NonceT \cup {Null},
         Answer(m, code, nonce)
  PROVE  /\ net' \subseteq Request \cup Response
         /\ first' \in Codes \cup {0}
         /\ \A r \in net' : IsRequest(r) => r \in net
<1>1. m \in Request
  BY MessageKinds DEF AuthInv, AuthTypeOK
<1> DEFINE r == [n |-> m.n, code |-> code, dst |-> m.src, nonce |-> nonce]
<1>2. r \in Response
  BY <1>1 DEF Response, Request
<1>3. net' = (net \ {m}) \cup {r}
  BY DEF Answer
<1> QED
  BY <1>2, <1>3, MessageKinds DEF Answer, AuthInv, AuthTypeOK

-----------------------------------------------------------------------------
\* At the start nothing has been asked and nothing answered.
LEMMA InitAuth == AuthInit => AuthInv
<1> SUFFICES ASSUME AuthInit PROVE AuthInv
  OBVIOUS
<1>1. 0 \in 0 .. Skew
  BY AuthAssumption
<1>2. AuthTypeOK
  BY <1>1 DEF AuthInit, AuthTypeOK
<1>3. RequestInv /\ AnswerInv
  BY DEF AuthInit, RequestInv, AnswerInv
<1> QED
  BY <1>2, <1>3 DEF AuthInv

\* Time passes for all messages and for the request the phone repeats alike.
LEMMA TickStep == AuthInv /\ Tick => AuthInv'
<1> SUFFICES ASSUME AuthInv, Tick PROVE AuthInv'
  OBVIOUS
<1> USE DEF AuthInv
<1>1. /\ cache' \in NonceT \cup {Null}
      /\ UNCHANGED <<account, registered, trans, off, addr, n, first>>
  BY OlderType DEF Tick, AuthTypeOK
<1>2. sent = Null => sent' = Null
  BY DEF Tick
<1>3. sent # Null => /\ sent' \in Request /\ sent' # Null
                     /\ sent'.n = sent.n /\ sent'.nonce = Older(sent.nonce)
                     /\ sent.nonce \in NonceT \cup {Null}
  <2> SUFFICES ASSUME sent # Null
               PROVE  /\ sent' \in Request /\ sent' # Null
                      /\ sent'.n = sent.n /\ sent'.nonce = Older(sent.nonce)
                      /\ sent.nonce \in NonceT \cup {Null}
    OBVIOUS
  <2>1. sent \in Request
    BY DEF AuthTypeOK
  <2>2. sent' = [sent EXCEPT !.nonce = Older(@)]
    BY DEF Tick
  <2>3. sent.nonce \in NonceT \cup {Null}
    BY <2>1 DEF Request
  <2> QED
    BY <2>1, <2>2, <2>3, AgedMessage, NullAssumption
<1>4. \A r \in net' : \E m \in net :
        /\ r \in Request \cup Response
        /\ r.n = m.n /\ r.nonce = Older(m.nonce) /\ (IsRequest(r) <=> IsRequest(m))
  <2> TAKE r \in net'
  <2>1. PICK m \in net : r = [m EXCEPT !.nonce = Older(@)]
    BY DEF Tick
  <2>2. m \in Request \cup Response
    BY DEF AuthTypeOK
  <2> QED
    BY <2>1, <2>2, AgedMessage
<1>5. AuthTypeOK'
  <2>1. net' \subseteq Request \cup Response
    BY <1>4
  <2> QED
    BY <1>1, <1>2, <1>3, <2>1 DEF AuthTypeOK
<1>6. RequestInv'
  <2> SUFFICES ASSUME sent' # Null
               PROVE  /\ sent'.n = n'
                      /\ \A r \in net' : IsRequest(r) /\ r.n = n'
                                            => r.nonce = sent'.nonce
    BY DEF RequestInv
  <2> QED
    BY <1>1, <1>2, <1>3, <1>4 DEF RequestInv
<1>7. AnswerInv'
  BY <1>1, <1>2, <1>3, OlderType DEF AnswerInv
<1> QED
  BY <1>5, <1>6, <1>7

\* The phone: a request is sent again with the nonce it had.
LEMMA PhoneStep == AuthInv /\ Phone => AuthInv'
<1> SUFFICES ASSUME AuthInv, Phone PROVE AuthInv'
  OBVIOUS
<1> USE DEF AuthInv
<1>1. ASSUME NEW met \in Methods, Send(met) PROVE AuthInv'
  <2> DEFINE q == [n |-> 1 - n, met |-> met, src |-> addr, nonce |-> cache]
  <2>1. q \in Request /\ 1 - n \in {0, 1} /\ 1 - n # n
    BY AuthAssumption DEF AuthTypeOK, Request
  <2>2. /\ n' = 1 - n /\ first' = 0 /\ sent' = q
        /\ net' = {m \in net : m.n # 1 - n} \cup {q}
        /\ trans' = {x \in trans : x.n # 1 - n}
        /\ UNCHANGED <<account, registered, off, addr, cache>>
    BY <1>1 DEF Send
  <2>3. AuthTypeOK'
    BY <2>1, <2>2 DEF AuthTypeOK
  <2>4. RequestInv'
    BY <2>2 DEF RequestInv
  <2>5. AnswerInv'
    BY <2>2 DEF AnswerInv
  <2> QED
    BY <2>3, <2>4, <2>5
<1>2. CASE Retransmit
  <2>1. /\ sent' = [sent EXCEPT !.src = addr] /\ net' = net \cup {sent'}
        /\ sent # Null
        /\ UNCHANGED <<account, registered, trans, off, addr, cache, n, first>>
    BY <1>2 DEF Retransmit
  <2>2. sent \in Request /\ addr \in Addrs
    BY <2>1 DEF AuthTypeOK
  <2>3. sent' \in Request /\ sent'.n = sent.n /\ sent'.nonce = sent.nonce
    BY <2>1, <2>2 DEF Request
  <2>4. AuthTypeOK'
    BY <2>1, <2>3 DEF AuthTypeOK
  <2>5. RequestInv'
    BY <2>1, <2>3 DEF RequestInv
  <2>6. AnswerInv'
    BY <2>1, <2>3 DEF AnswerInv
  <2> QED
    BY <2>4, <2>5, <2>6
<1>3. CASE GiveUp
  BY <1>3 DEF GiveUp, AuthTypeOK, RequestInv, AnswerInv
<1>4. ASSUME NEW r \in net, Receive(r) PROVE AuthInv'
  <2>1. r \in Response
    BY <1>4, MessageKinds DEF Receive, AuthTypeOK
  <2>2. r.nonce \in NonceT \cup {Null}
    BY <2>1 DEF Response
  <2>3. CASE sent # Null /\ r.n = n
    <3>1. /\ sent' = Null /\ net' = net \ {r} /\ cache' \in {r.nonce, Null, cache}
          /\ UNCHANGED <<account, registered, trans, off, addr, n, first>>
      BY <1>4, <2>3 DEF Receive
    <3> QED
      BY <2>2, <3>1 DEF AuthTypeOK, RequestInv, AnswerInv
  <2>4. CASE ~(sent # Null /\ r.n = n)
    <3>1. /\ net' = net \ {r}
          /\ UNCHANGED <<account, registered, trans, off, addr, cache, sent, n, first>>
      BY <1>4, <2>4 DEF Receive
    <3> QED
      BY <3>1 DEF AuthTypeOK, RequestInv, AnswerInv
  <2> QED
    BY <2>3, <2>4
<1>5. ASSUME NEW a \in Addrs, Move(a) PROVE AuthInv'
  BY <1>5 DEF Move, AuthTypeOK, RequestInv, AnswerInv
<1> QED
  BY <1>1, <1>2, <1>3, <1>4, <1>5 DEF Phone

\* An answer without a transaction: a challenge, or the 200 of a registration.
LEMMA StatelessStep ==
  ASSUME AuthInv, NEW m \in net, IsRequest(m),
         NEW code \in {200, 401}, NEW nonce \in NonceT \cup {Null},
         Stateless(m, code, nonce), Same, registered' \in BOOLEAN,
         code = 401 => m.nonce = Null /\ account # "open"
  PROVE  AuthInv'
<1> USE DEF AuthInv
<1>1. /\ UNCHANGED <<account, off, addr, cache, sent, n, trans>>
      /\ Answer(m, code, nonce)
  BY DEF Same, Stateless, phone
<1>2. /\ net' \subseteq Request \cup Response /\ first' \in Codes \cup {0}
      /\ \A r \in net' : IsRequest(r) => r \in net
  BY <1>1, AnswerType DEF Codes
<1>3. first' = first \/ (first' = code /\ m.n = n)
  BY <1>1 DEF Answer
<1>4. AuthTypeOK'
  BY <1>1, <1>2 DEF AuthTypeOK
<1>5. RequestInv'
  BY <1>1, <1>2 DEF RequestInv
<1>6. AnswerInv'
  BY <1>1, <1>3 DEF AnswerInv, RequestInv
<1> QED
  BY <1>4, <1>5, <1>6

\* An answer kept by a transaction.
LEMMA TransactionStep ==
  ASSUME AuthInv, NEW m \in net, IsRequest(m), NEW code \in Codes \ {401},
         InTransaction(m, code), Same, UNCHANGED registered
  PROVE  AuthInv'
<1> USE DEF AuthInv
<1>1. /\ UNCHANGED <<account, off, addr, cache, sent, n, registered>>
      /\ Answer(m, code, Null)
      /\ trans' = trans \cup {[n |-> m.n, code |-> code]}
  BY DEF Same, InTransaction, phone
<1>2. /\ net' \subseteq Request \cup Response /\ first' \in Codes \cup {0}
      /\ \A r \in net' : IsRequest(r) => r \in net
  BY <1>1, AnswerType
<1>3. first' = first \/ (first' = code /\ m.n = n)
  BY <1>1 DEF Answer
<1>4. m.n \in {0, 1}
  BY MessageKinds DEF AuthTypeOK, Request
<1>5. AuthTypeOK'
  BY <1>1, <1>2, <1>4 DEF AuthTypeOK
<1>6. RequestInv'
  BY <1>1, <1>2 DEF RequestInv
<1>7. AnswerInv'
  <2>1. \A x \in trans' : x.code # 401
    BY <1>1 DEF AnswerInv
  <2>2. sent' # Null /\ first' = 401 => sent'.nonce = Null /\ account' # "open"
    BY <1>1, <1>3 DEF AnswerInv
  <2>3. sent' # Null /\ first' \in {403, 404, 500} => \E x \in trans' : x.n = n'
    <3>1. CASE first' = first
      BY <1>1, <3>1 DEF AnswerInv
    <3>2. CASE m.n = n
      <4>1. [n |-> m.n, code |-> code] \in trans'
        BY <1>1
      <4>2. [n |-> m.n, code |-> code].n = n'
        BY <1>1, <3>2
      <4> QED
        BY ONLY <4>1, <4>2
    <3> QED
      BY <1>3, <3>1, <3>2
  <2> QED
    BY <2>1, <2>2, <2>3 DEF AnswerInv
<1> QED
  BY <1>5, <1>6, <1>7

\* The handler of a request, and the transaction that repeats its answer.
LEMMA ServeStep ==
  ASSUME AuthInv, NEW m \in net, Serve(m)
  PROVE  AuthInv'
<1>1. CASE challenge_start(m)
  <2>1. m \in Request /\ IsRequest(m)
    BY <1>1, MessageKinds DEF challenge_start, Challenged, Arrives, AuthInv, AuthTypeOK
  <2>2. [age |-> 0, off |-> off, src |-> m.src] \in NonceT
    BY <2>1, AuthAssumption DEF AuthInv, AuthTypeOK, NonceT, Request, Old
  <2> QED
    BY <1>1, <2>1, <2>2, StatelessStep
    DEF challenge_start, Challenged, AuthInv, AuthTypeOK
<1>2. CASE ChallengeFail(m)
  BY <1>2, TransactionStep DEF ChallengeFail, Challenged, Arrives, Codes
<1>3. CASE Refuse(m)
  BY <1>3, TransactionStep DEF Refuse, Arrives, Codes
<1>4. CASE Accept(m)
  BY <1>4, StatelessStep DEF Accept, Passed, Arrives
<1>5. CASE AcceptFail(m)
  BY <1>5, TransactionStep DEF AcceptFail, Passed, Arrives, Codes
<1>6. CASE AcceptCall(m)
  BY <1>6, TransactionStep DEF AcceptCall, Passed, Arrives, Codes
<1>7. CASE WrongOrigin(m)
  BY <1>7, TransactionStep DEF WrongOrigin, Passed, Arrives, Codes
<1>8. CASE NotFound(m)
  BY <1>8, TransactionStep DEF NotFound, Arrives, Codes
<1>9. ASSUME NEW x \in trans, Repeat(m, x) PROVE AuthInv'
  <2> USE DEF AuthInv
  <2>1. /\ UNCHANGED <<account, off, addr, cache, sent, n, registered, trans>>
        /\ Answer(m, x.code, Null) /\ IsRequest(m) /\ x.n = m.n
    BY <1>9 DEF Repeat, Same, phone
  <2>2. x.code \in Codes /\ x.code # 401
    BY DEF AuthTypeOK, AnswerInv
  <2>3. /\ net' \subseteq Request \cup Response /\ first' \in Codes \cup {0}
        /\ \A r \in net' : IsRequest(r) => r \in net
    BY <2>1, <2>2, AnswerType
  <2>4. first' = first \/ (first' = x.code /\ m.n = n)
    BY <2>1 DEF Answer
  <2>5. AuthTypeOK'
    BY <2>1, <2>3 DEF AuthTypeOK
  <2>6. RequestInv'
    BY <2>1, <2>3 DEF RequestInv
  <2>7. AnswerInv'
    BY <2>1, <2>2, <2>4 DEF AnswerInv
  <2> QED
    BY <2>5, <2>6, <2>7
<1> QED
  BY <1>1, <1>2, <1>3, <1>4, <1>5, <1>6, <1>7, <1>8, <1>9 DEF Serve

\* Every step keeps the invariant.
LEMMA NextAuth == AuthInv /\ [AuthNext]_authVars => AuthInv'
<1> SUFFICES ASSUME AuthInv, [AuthNext]_authVars PROVE AuthInv'
  OBVIOUS
<1> USE DEF AuthInv
<1>1. CASE Tick
  BY <1>1, TickStep
<1>2. ASSUME NEW m \in net, Lose(m) PROVE AuthInv'
  BY <1>2 DEF Lose, AuthTypeOK, RequestInv, AnswerInv, phone
<1>3. ASSUME NEW m \in net, Serve(m) PROVE AuthInv'
  BY <1>3, ServeStep
<1>4. ASSUME NEW x \in trans, TransactionEnd(x) PROVE AuthInv'
  BY <1>4 DEF TransactionEnd, AuthTypeOK, RequestInv, AnswerInv, phone
<1>5. CASE RegistrationLost
  <2>1. /\ registered' \in BOOLEAN
        /\ UNCHANGED <<account, trans, off, addr, cache, sent, n, net, first>>
    BY <1>5, Zenon DEF RegistrationLost, phone
  <2> QED
    BY <2>1 DEF AuthTypeOK, RequestInv, AnswerInv
<1>6. ASSUME NEW a \in Accounts, Restart(a) PROVE AuthInv'
  <2>1. /\ registered' \in BOOLEAN /\ account' = a
        /\ trans' = {} /\ first' = 0
        /\ UNCHANGED <<off, addr, cache, sent, n, net>>
    BY <1>6, Zenon DEF Restart, phone
  <2> QED
    BY <2>1 DEF AuthTypeOK, RequestInv, AnswerInv
<1>7. ASSUME NEW o \in 0 .. Skew, ClockSet(o) PROVE AuthInv'
  BY <1>7 DEF ClockSet, AuthTypeOK, RequestInv, AnswerInv, phone
<1>8. CASE Phone
  BY <1>8, PhoneStep
<1>9. CASE UNCHANGED authVars
  BY <1>9 DEF authVars, phone, AuthTypeOK, RequestInv, AnswerInv
<1> QED
  BY <1>1, <1>2, <1>3, <1>4, <1>5, <1>6, <1>7, <1>8, <1>9 DEF AuthNext, Server

-----------------------------------------------------------------------------
\* What is known of requests and answers holds for ever: a retransmission keeps
\* its nonce, and a refusal that is not a challenge is kept by a transaction.
THEOREM AnswersKept == AuthSpec => []AuthInv
<1>1. AuthInit => AuthInv
  BY InitAuth
<1>2. AuthInv /\ [AuthNext]_authVars => AuthInv'
  BY NextAuth
<1> QED
  BY <1>1, <1>2, PTL DEF AuthSpec

\* Whatever the network delays and however the clock is set: check_nonce lets a
\* request through only with a nonce issued to its address and recent up to the
\* skew, and a phone that knows its password is refused only for an old nonce
\* or one of another address.
THEOREM NonceDecidesAll == AuthSpec => NonceDecides
<1>1. AuthInv => NonceStep
  <2> SUFFICES ASSUME AuthInv, NEW m \in net
               PROVE  AcceptedIsRecent(m) /\ RefusedIsOld(m)
    BY DEF NonceStep
  <2>1. IsRequest(m) /\ m.nonce # Null =>
          m.nonce.age \in Nat /\ m.nonce.off \in 0 .. Skew
    <3>1. IsRequest(m) => m \in Request
      BY MessageKinds DEF AuthInv, AuthTypeOK
    <3> QED
      BY <3>1 DEF Request, NonceT
  <2>2. off \in 0 .. Skew /\ Lifetime \in Nat /\ Skew \in Nat
    BY AuthAssumption DEF AuthInv, AuthTypeOK
  <2>3. AcceptedIsRecent(m)
    BY <2>1, <2>2
    DEF AcceptedIsRecent, Accept, AcceptCall, Passed, Arrives, challenge_check,
        check_nonce
  <2>4. RefusedIsOld(m)
    BY <2>1, <2>2
    DEF RefusedIsOld, Refuse, Passed, Arrives, challenge_check, check_nonce
  <2> QED
    BY <2>3, <2>4
<1> QED
  BY <1>1, AnswersKept, PTL DEF NonceDecides

\* A request that was refused is not accepted when a retransmission of it is
\* handled: the transaction of the refusal takes it, and after a challenge it
\* still comes without a nonce.
THEOREM RefusedForGood == AuthSpec => RefusedStaysRefused
<1>1. AuthInv => RefusedStep
  <2> SUFFICES ASSUME AuthInv, sent # Null, first \notin {0, 200},
                      NEW m \in net, m.n = n, Passed(m)
               PROVE  FALSE
    BY DEF RefusedStep, Accept, AcceptCall
  <2>1. first = 401 \/ first \in {403, 404, 500}
    BY DEF AuthInv, AuthTypeOK, Codes
  <2>2. CASE first = 401
    BY <2>2 DEF AuthInv, RequestInv, AnswerInv, Passed, Arrives
  <2>3. CASE first \in {403, 404, 500}
    BY <2>3 DEF AuthInv, AnswerInv, Passed, Arrives
  <2> QED
    BY <2>1, <2>2, <2>3
<1> QED
  BY <1>1, AnswersKept, PTL DEF RefusedStaysRefused
=============================================================================
