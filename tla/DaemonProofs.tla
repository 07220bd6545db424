---------------------------- MODULE DaemonProofs ----------------------------
(***************************************************************************)
(* Proofs about the pid file, for any set of process ids.                  *)
(***************************************************************************)
EXTENDS Daemon, FiniteSetTheorems, TLAPS

\* Past the check of the pid file.
Past == Starting \ {"start"}

\* Why overlapping starts are needed to break the rest: a lone start that is
\* past the check knows that there is no server, and nothing can unlink the
\* file it has open.
LoneStart ==
  ~raced =>
    /\ \A p, q \in Pids : proc[p] \in Starting /\ proc[q] \in Starting => p = q
    /\ \A p, q \in Pids : proc[p] \in Past => proc[q] \notin Serving
    /\ \A p \in Pids : proc[p] # "unlinked"

IInv == TypeOK /\ LoneStart /\ FileNamesServer /\ StaleOnlyIfKilled

-----------------------------------------------------------------------------
\* No process runs and there is no file.
LEMMA InitInv == Init => IInv
  BY DaemonAssumption
     DEF Init, IInv, TypeOK, LoneStart, FileNamesServer, StaleOnlyIfKilled,
         Servers, Starting, Serving, Past

\* One step of one process, or of the stop command, keeps the types.
LEMMA TypeStep == TypeOK /\ [Next]_vars => TypeOK'
<1> SUFFICES ASSUME TypeOK, [Next]_vars PROVE TypeOK'
  OBVIOUS
<1> USE DaemonAssumption DEF TypeOK, Starting, Serving
<1>1. ASSUME NEW p \in Pids, Launch(p) \/ Unrelated(p) \/ StayInForeground(p)
                             \/ GiveUp(p) \/ Interrupted(p) \/ Crash(p)
             \/ InitDone(p)
      PROVE  TypeOK'
  BY <1>1 DEF Launch, Unrelated, StayInForeground, GiveUp, Interrupted, Crash,
              InitDone, Goes
<1>2. ASSUME NEW p \in Pids, Check(p) PROVE TypeOK'
  BY <1>2 DEF Check, PidRead, Goes
<1>3. ASSUME NEW p \in Pids, OpenFile(p) \/ WritePid(p) PROVE TypeOK'
  BY <1>3 DEF OpenFile, WritePid, Goes
<1>4. ASSUME NEW p \in Pids, End(p) PROVE TypeOK'
  BY <1>4 DEF End
<1>5. ASSUME NEW p \in Pids, NEW q \in Pids, Daemonize(p, q) PROVE TypeOK'
  BY <1>5 DEF Daemonize
<1>6. CASE StopRead
  BY <1>6 DEF StopRead, PidRead
<1>7. CASE StopKill
  BY <1>7 DEF StopKill, Goes
<1>8. CASE UNCHANGED vars
  BY <1>8 DEF vars
<1> QED
  BY <1>1, <1>2, <1>3, <1>4, <1>5, <1>6, <1>7, <1>8 DEF Next

\* Without overlapping starts, one start at a time passes the check, and only
\* when no server runs.
LEMMA LoneStep == IInv /\ [Next]_vars => LoneStart'
<1> SUFFICES ASSUME IInv, [Next]_vars PROVE LoneStart'
  OBVIOUS
<1> USE DaemonAssumption
    DEF IInv, TypeOK, LoneStart, FileNamesServer, Servers, Starting, Serving,
        Past
<1>1. ASSUME NEW p \in Pids, Launch(p) PROVE LoneStart'
  <2>1. /\ proc[p] = "free" /\ proc' = [proc EXCEPT ![p] = "start"]
        /\ raced' = (raced \/ \E q \in Pids : proc[q] \in Starting)
    BY <1>1 DEF Launch, Goes
  <2>2. SUFFICES ASSUME ~raced' PROVE LoneStart'
    BY DEF LoneStart
  <2>3. ~raced /\ \A q \in Pids : proc[q] \notin Starting
    BY <2>1, <2>2
  <2>4. \A q \in Pids : proc'[q] = IF q = p THEN "start" ELSE proc[q]
    BY <2>1
  <2> QED
    BY <2>3, <2>4
<1>2. ASSUME NEW p \in Pids, Unrelated(p) \/ StayInForeground(p) \/ GiveUp(p)
                             \/ Interrupted(p) \/ Crash(p) \/ InitDone(p)
      PROVE  LoneStart'
  BY <1>2 DEF Unrelated, StayInForeground, GiveUp, Interrupted, Crash,
              InitDone, Goes
<1>3. ASSUME NEW p \in Pids, Check(p) PROVE LoneStart'
  BY <1>3 DEF Check, PidRead, Goes
<1>4. ASSUME NEW p \in Pids, OpenFile(p) \/ WritePid(p) PROVE LoneStart'
  BY <1>4 DEF OpenFile, WritePid, Goes
<1>5. ASSUME NEW p \in Pids, End(p) PROVE LoneStart'
  BY <1>5 DEF End
<1>6. ASSUME NEW p \in Pids, NEW q \in Pids, Daemonize(p, q) PROVE LoneStart'
  BY <1>6 DEF Daemonize
<1>7. CASE StopRead
  BY <1>7 DEF StopRead
<1>8. CASE StopKill
  BY <1>8 DEF StopKill, Goes
<1>9. CASE UNCHANGED vars
  BY <1>9 DEF vars
<1> QED
  BY <1>1, <1>2, <1>3, <1>4, <1>5, <1>6, <1>7, <1>8, <1>9 DEF Next

\* The file goes on naming the only server.
LEMMA FileStep == IInv /\ [Next]_vars => FileNamesServer'
<1> SUFFICES ASSUME IInv, [Next]_vars PROVE FileNamesServer'
  OBVIOUS
<1> USE DaemonAssumption
    DEF IInv, TypeOK, LoneStart, FileNamesServer, Servers, Starting, Serving,
        Past
<1>1. ASSUME NEW p \in Pids, Launch(p) \/ Unrelated(p) \/ StayInForeground(p)
                             \/ GiveUp(p) \/ Interrupted(p) \/ Crash(p)
             \/ InitDone(p)
      PROVE  FileNamesServer'
  BY <1>1 DEF Launch, Unrelated, StayInForeground, GiveUp, Interrupted, Crash,
              InitDone, Goes
<1>2. ASSUME NEW p \in Pids, Check(p) PROVE FileNamesServer'
  BY <1>2 DEF Check, Goes
<1>3. ASSUME NEW p \in Pids, OpenFile(p) \/ WritePid(p) PROVE FileNamesServer'
  BY <1>3 DEF OpenFile, WritePid, Goes
<1>4. ASSUME NEW p \in Pids, End(p) PROVE FileNamesServer'
  BY <1>4 DEF End
<1>5. ASSUME NEW p \in Pids, NEW q \in Pids, Daemonize(p, q)
      PROVE  FileNamesServer'
  BY <1>5 DEF Daemonize
<1>6. CASE StopRead
  BY <1>6 DEF StopRead
<1>7. CASE StopKill
  BY <1>7 DEF StopKill, Goes
<1>8. CASE UNCHANGED vars
  BY <1>8 DEF vars
<1> QED
  BY <1>1, <1>2, <1>3, <1>4, <1>5, <1>6, <1>7, <1>8 DEF Next

\* A server that ends in order deletes the file; a start writes only its own
\* process id.
LEMMA StaleStep == TypeOK /\ StaleOnlyIfKilled /\ [Next]_vars
                     => StaleOnlyIfKilled'
<1> SUFFICES ASSUME TypeOK, StaleOnlyIfKilled, [Next]_vars
             PROVE  StaleOnlyIfKilled'
  OBVIOUS
<1> USE DaemonAssumption
    DEF TypeOK, StaleOnlyIfKilled, Servers, Starting, Serving
<1>1. ASSUME NEW p \in Pids, Launch(p) \/ Unrelated(p) \/ StayInForeground(p)
                             \/ GiveUp(p) \/ Interrupted(p) \/ Crash(p)
             \/ InitDone(p)
      PROVE  StaleOnlyIfKilled'
  BY <1>1 DEF Launch, Unrelated, StayInForeground, GiveUp, Interrupted, Crash,
              InitDone, Goes
<1>2. ASSUME NEW p \in Pids, Check(p) PROVE StaleOnlyIfKilled'
  BY <1>2 DEF Check, Goes
<1>3. ASSUME NEW p \in Pids, OpenFile(p) \/ WritePid(p)
      PROVE  StaleOnlyIfKilled'
  BY <1>3 DEF OpenFile, WritePid, Goes
<1>4. ASSUME NEW p \in Pids, End(p) PROVE StaleOnlyIfKilled'
  BY <1>4 DEF End
<1>5. ASSUME NEW p \in Pids, NEW q \in Pids, Daemonize(p, q)
      PROVE  StaleOnlyIfKilled'
  BY <1>5 DEF Daemonize
<1>6. CASE StopRead
  BY <1>6 DEF StopRead
<1>7. CASE StopKill
  BY <1>7 DEF StopKill, Goes
<1>8. CASE UNCHANGED vars
  BY <1>8 DEF vars
<1> QED
  BY <1>1, <1>2, <1>3, <1>4, <1>5, <1>6, <1>7, <1>8 DEF Next

\* The invariant the theorems below follow from.
LEMMA Invariance == Spec => []IInv
<1>1. IInv /\ [Next]_vars => IInv'
  BY TypeStep, LoneStep, FileStep, StaleStep DEF IInv
<1> QED
  BY InitInv, <1>1, PTL DEF Spec

-----------------------------------------------------------------------------
\* While starts do not overlap, the file names every server.
THEOREM FileNames == Spec => []FileNamesServer
<1>1. IInv => FileNamesServer
  BY DEF IInv
<1> QED
  BY <1>1, Invariance, PTL

\* While starts do not overlap there is at most one server, whatever crashes
\* and however process ids are used again: all of them are in the one file.
THEOREM SingleServer == Spec => []OneServer
<1>1. FileNamesServer => OneServer
  <2> SUFFICES ASSUME FileNamesServer, ~raced
               PROVE  Cardinality(Servers) <= 1
    BY DEF OneServer
  <2>1. Servers \in SUBSET {file}
    BY DEF FileNamesServer
  <2>2. IsFiniteSet({file}) /\ Cardinality({file}) = 1
    BY FS_Singleton
  <2>3. IsFiniteSet(Servers) /\ Cardinality(Servers) <= Cardinality({file})
    BY <2>1, <2>2, FS_Subset
  <2> QED
    BY <2>2, <2>3
<1> QED
  BY <1>1, FileNames, PTL

\* The name of a process that has ended is left behind only by a kill, also
\* when starts overlap.
THEOREM StaleFile == Spec => []StaleOnlyIfKilled
<1>1. IInv => StaleOnlyIfKilled
  BY DEF IInv
<1> QED
  BY <1>1, Invariance, PTL
=============================================================================
