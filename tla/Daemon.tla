------------------------------- MODULE Daemon -------------------------------
(***************************************************************************)
(* Starting and stopping empbxd: the processes of "empbxd -a start", of    *)
(* "empbxd -a stop", and the pid file they find each other by.  Processes  *)
(* run side by side, may be killed at any moment and leave the file, and a *)
(* process id is used again once its process has ended.                    *)
(*                                                                         *)
(* What a server does between the start of its services and their stop is  *)
(* the subject of the other modules.                                       *)
(***************************************************************************)
EXTENDS Naturals, FiniteSets

CONSTANTS
  Pids,    \* the process ids
  NoPid    \* 0: no file, or no process

ASSUME DaemonAssumption == NoPid \notin Pids \cup {"empty"} /\ "empty" \notin Pids

VARIABLES
  proc,    \* what runs under each process id
  file,    \* the pid file: absent (NoPid), created and empty, or a pid
  target,  \* the process a stop command has read and will signal
  raced,   \* history: a start began while another had not written the file
  killed,  \* history: a server ended on the spot and left the file behind
  refusal, \* the pid in the last "Server already running"
  denial   \* a stop command has just answered "Server is not running"

vars == <<proc, file, target, raced, killed, refusal, denial>>

\* Before the file is written, and from then until it is deleted.
Starting == {"start", "checked", "writing", "opened", "unlinked"}
Serving  == {"init", "run", "stopping"}

TypeOK ==
  /\ proc \in [Pids -> {"free", "other"} \cup Starting \cup Serving]
  /\ file \in Pids \cup {NoPid, "empty"}
  /\ target \in Pids \cup {NoPid}
  /\ raced \in BOOLEAN /\ killed \in BOOLEAN /\ denial \in BOOLEAN
  /\ refusal \in Pids \cup {NoPid}

Init ==
  /\ proc = [p \in Pids |-> "free"]
  /\ file = NoPid /\ target = NoPid
  /\ raced = FALSE /\ killed = FALSE
  /\ refusal = NoPid /\ denial = FALSE

-----------------------------------------------------------------------------
\* empbx_pid_read: when the file holds no number the variable it returns has
\* never been set.
PidRead == IF file = "empty" THEN Pids \cup {NoPid} ELSE {file}

\* Process p goes on to the control point pc; what was reported is old.
Goes(p, pc) ==
  /\ proc' = [proc EXCEPT ![p] = pc]
  /\ refusal' = NoPid /\ denial' = FALSE

Launch(p) ==
  /\ proc[p] = "free"
  /\ Goes(p, "start")
  /\ raced' = (raced \/ \E q \in Pids : proc[q] \in Starting)
  /\ UNCHANGED <<file, target, killed>>

\* Some process that has nothing to do with empbx begins or ends.
Unrelated(p) ==
  /\ proc[p] \in {"free", "other"}
  /\ Goes(p, IF proc[p] = "free" THEN "other" ELSE "free")
  /\ UNCHANGED <<file, target, raced, killed>>

\* Faulty variant: the file is not looked at.
CheckNothing(p) ==
  /\ proc[p] = "start"
  /\ Goes(p, "checked")
  /\ UNCHANGED <<file, target, raced, killed>>

Check(p) ==
  /\ proc[p] = "start"
  /\ \E v \in PidRead :
       IF v \in {NoPid, p}
       THEN Goes(p, "checked")
       ELSE /\ proc' = [proc EXCEPT ![p] = "free"]
            /\ refusal' = v /\ denial' = FALSE
  /\ UNCHANGED <<file, target, raced, killed>>

\* sys_daemon: the server goes on as a child, under a process id of its own.
Daemonize(p, q) ==
  /\ proc[p] = "checked" /\ proc[q] = "free"
  /\ proc' = [proc EXCEPT ![p] = "free", ![q] = "writing"]
  /\ refusal' = NoPid /\ denial' = FALSE
  /\ UNCHANGED <<file, target, raced, killed>>

\* "-a debug" stays in the foreground.
StayInForeground(p) ==
  /\ proc[p] = "checked"
  /\ Goes(p, "writing")
  /\ UNCHANGED <<file, target, raced, killed>>

\* A directory cannot be made, fork fails, the file cannot be opened or written.
GiveUp(p) ==
  /\ proc[p] \in Starting
  /\ Goes(p, "free")
  /\ UNCHANGED <<file, target, raced, killed>>

\* empbx_pid_write opens the file, and creates it if there is none ...
OpenFile(p) ==
  /\ proc[p] = "writing"
  /\ file' = IF file = NoPid THEN "empty" ELSE file
  /\ Goes(p, "opened")
  /\ UNCHANGED <<target, raced, killed>>

\* Faulty variant: the process id from before the fork is written.
WritePidOfParent(p) ==
  /\ proc[p] \in {"opened", "unlinked"}
  /\ \E q \in Pids : file' = q
  /\ Goes(p, "init")
  /\ UNCHANGED <<target, raced, killed>>

\* ... and writes over what it holds, also when another process has unlinked
\* it meanwhile.
WritePid(p) ==
  /\ proc[p] \in {"opened", "unlinked"}
  /\ file' = IF proc[p] = "opened" THEN p ELSE file
  /\ Goes(p, "init")
  /\ UNCHANGED <<target, raced, killed>>

InitDone(p) ==
  /\ proc[p] = "init"
  /\ Goes(p, "run")
  /\ UNCHANGED <<file, target, raced, killed>>

\* SIGINT, or an error of the main loop.
Interrupted(p) ==
  /\ proc[p] = "run"
  /\ Goes(p, "stopping")
  /\ UNCHANGED <<file, target, raced, killed>>

\* Faulty variant: a server that cannot start leaves the file.
EndKeepsFile(p) ==
  /\ proc[p] \in {"init", "stopping"}
  /\ Goes(p, "free")
  /\ UNCHANGED <<file, target, raced, killed>>

\* The configuration or a service fails, or the services have been stopped:
\* the file is deleted, whatever it holds.
End(p) ==
  /\ proc[p] \in {"init", "stopping"}
  /\ file' = NoPid
  /\ proc' = [q \in Pids |-> IF q = p THEN "free"
                             ELSE IF proc[q] = "opened" THEN "unlinked"
                             ELSE proc[q]]
  /\ refusal' = NoPid /\ denial' = FALSE
  /\ UNCHANGED <<target, raced, killed>>

\* A crash, a kill -9, a power cut.
Crash(p) ==
  /\ proc[p] \in Starting \cup Serving
  /\ Goes(p, "free")
  /\ killed' = TRUE
  /\ UNCHANGED <<file, target, raced>>

-----------------------------------------------------------------------------
\* empbxd -a stop: the pid is read ...
StopRead ==
  /\ target = NoPid
  /\ \E v \in PidRead : target' = v /\ denial' = (v = NoPid)
  /\ refusal' = NoPid
  /\ UNCHANGED <<proc, file, raced, killed>>

\* ... and signalled.  SIGTERM reaches signal_handler only once re_main runs;
\* before that it ends the process, and afterwards it is ignored.
StopKill ==
  /\ target # NoPid
  /\ target' = NoPid
  /\ CASE proc[target] = "run" -> Goes(target, "stopping") /\ UNCHANGED killed
       [] proc[target] \in {"stopping", "free"} ->
            UNCHANGED <<proc, killed, refusal, denial>>
       [] proc[target] = "other" -> Goes(target, "free") /\ UNCHANGED killed
       [] OTHER -> Goes(target, "free") /\ killed' = TRUE
  /\ UNCHANGED <<file, raced>>

-----------------------------------------------------------------------------
Next ==
  \/ \E p \in Pids :
       \/ Launch(p) \/ Unrelated(p) \/ Check(p) \/ StayInForeground(p)
       \/ GiveUp(p) \/ OpenFile(p) \/ WritePid(p) \/ InitDone(p)
       \/ Interrupted(p) \/ End(p) \/ Crash(p)
  \/ \E p, q \in Pids : Daemonize(p, q)
  \/ StopRead \/ StopKill

Spec == Init /\ [][Next]_vars

-----------------------------------------------------------------------------
Servers == {p \in Pids : proc[p] \in Serving}

\* The pid file keeps a second server out, through crashes, restarts and ids
\* that are used again, as long as no two starts overlap.
OneServer == ~raced => Cardinality(Servers) <= 1

\* Under the same condition the file names the server, so that a stop command
\* finds it.
FileNamesServer == ~raced => \A p \in Servers : file = p

\* The file outlives its server only if one was killed on the spot, be it by
\* a stop command that came before the server was ready: overlapping starts
\* alone never leave the name of a process that has ended.
StaleOnlyIfKilled == file \in Pids /\ file \notin Servers => killed

\* "ERROR: Server already running (pid=%d)": the process the file names, for
\* which a start was refused, runs empbxd.
AlreadyRunningIsTrue ==
  refusal # NoPid /\ file = refusal => proc[refusal] \in Starting \cup Serving

\* "ERROR: Server is not running": a stop command that says so is right.
NotRunningIsTrue == denial => Servers = {}
=============================================================================
