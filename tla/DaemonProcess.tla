---------------------------- MODULE DaemonProcess ----------------------------
(***************************************************************************)
(* The daemon as an operating-system process: the singleton guard          *)
(* (singleton.ts), the start, signals and exit codes of                    *)
(* bin/ralph-daemon.ts, the loop and the drain of orchestrator.ts, and the *)
(* update check of self-update.ts.  Processes share a pid file, a store    *)
(* and a checkout; what a tick does to the issues is Reconciler's.         *)
(***************************************************************************)
EXTENDS Naturals, FiniteSets

CONSTANTS Pids,        \* process ids; one that is free again may be reused
          MaxCommit,   \* bound: commits 0..MaxCommit of the daemon's own branch
          Builds,      \* the commits whose build succeeds
          Healthy,     \* the commits whose daemon survives its own startup
          HostFaults, MaxHostFaults  \* surprises explored, and how many

ASSUME CommitAssumption ==
  MaxCommit \in Nat /\ Builds \subseteq 0..MaxCommit /\ Healthy \subseteq Builds
ASSUME PidAssumption == 0 \notin Pids

VARIABLES proc,       \* each process, see Absent
          pidFile,    \* the pid written beside the database, 0 when there is none
          origin,     \* the head of the tracked branch at origin
          head,       \* the checkout's HEAD
          dist,       \* the commit dist/ was built from, or Broken
          quarantine, \* the record shared with the supervisor, or NoCommit
          hostFaults

NoCommit == MaxCommit + 1
Broken   == MaxCommit + 2
Restart  == 75            \* RESTART_EXIT_CODE
Killed   == 137

Absent == [at |-> "none", commit |-> NoCommit, incumbent |-> 0, signals |-> 0,
           webDrain |-> FALSE, restart |-> FALSE, code |-> 0]
Started == [Absent EXCEPT !.at = "guard", !.commit = dist]

Alive(p) == proc[p].at \notin {"none", "gone"}
HasStore(p) == proc[p].at \in {"opened", "startup", "loop", "tick", "drain", "close"}
\* The handlers are installed once the pid is written.
Handles(p) == proc[p].at \in {"startup", "loop", "tick", "drain", "close", "unlink"}
\* The processes still on their way to the pid file.
Booting == {p \in Pids : proc[p].at \in {"guard", "reap", "open", "opened"}}

HostFault(f) == f \in HostFaults /\ hostFaults < MaxHostFaults
                /\ hostFaults' = hostFaults + 1
HostCalm == UNCHANGED hostFaults
Checkout == <<origin, head, dist, quarantine>>

Exit(r, code) == [Absent EXCEPT !.at = "gone", !.commit = r.commit, !.code = code]
\* A SIGTERM: a drain, then a force; before the handlers, death.
Signalled(p) == IF Handles(p) THEN [proc[p] EXCEPT !.signals = IF @ < 2 THEN @ + 1 ELSE 2]
                ELSE Exit(proc[p], 143)

Only(p, r) == proc' = [proc EXCEPT ![p] = r]
Move(p, at) == Only(p, [proc[p] EXCEPT !.at = at])

-----------------------------------------------------------------------------
(* ensureSingleton: an incumbent named by the pid file is asked to stop,   *)
(* given its grace, then killed.  A dead or recycled pid is a stale file.  *)
Guard(p) ==
  /\ proc[p].at = "guard" /\ UNCHANGED <<pidFile, Checkout>> /\ HostCalm
  /\ IF pidFile \in Pids \ {p} /\ Alive(pidFile)
     THEN proc' = [proc EXCEPT ![pidFile] = Signalled(pidFile),
                               ![p].at = "reap", ![p].incumbent = pidFile]
     ELSE Move(p, "open")

\* mutant: the newcomer opens the store without waiting for the incumbent.
OpensAtOnce(p) == TRUE
IncumbentGone(p) == ~Alive(proc[p].incumbent)

Reaped(p) ==
  /\ proc[p].at = "reap" /\ IncumbentGone(p)
  /\ Only(p, [proc[p] EXCEPT !.at = "open", !.incumbent = 0])
  /\ UNCHANGED <<pidFile, Checkout>> /\ HostCalm

GraceOver(p) ==
  /\ proc[p].at = "reap" /\ Alive(proc[p].incumbent) /\ UNCHANGED <<pidFile, Checkout>>
  /\ \/ /\ HostCalm
        /\ proc' = [proc EXCEPT ![proc[p].incumbent] = Exit(@, Killed),
                                  ![p].at = "open", ![p].incumbent = 0]
     \/ HostFault("unkillable") /\ Only(p, Exit(proc[p], 1))

OpenStore(p) ==
  /\ proc[p].at = "open" /\ Move(p, "opened")
  /\ UNCHANGED <<pidFile, Checkout>> /\ HostCalm

WritePid(p) ==
  /\ proc[p].at = "opened" /\ Move(p, "startup") /\ UNCHANGED Checkout
  /\ pidFile' = p /\ HostCalm

\* runDaemon up to the loop: a commit that is not healthy throws here.
Startup(p) ==
  /\ proc[p].at = "startup" /\ UNCHANGED <<pidFile, Checkout>> /\ HostCalm
  /\ IF proc[p].commit \in Healthy THEN Move(p, "loop")
     ELSE Only(p, [proc[p] EXCEPT !.at = "close", !.code = 1])

\* mutant: the loop is blind to the drain signal.
DeafTo(r) == r.restart \/ r.webDrain
ToldToStop(r) == r.signals > 0 \/ r.webDrain \/ r.restart

(* runForever: a tick, or the way out.  A force that arrived before the    *)
(* drain leaves at once, except for an update.                             *)
Loop(p) ==
  /\ proc[p].at = "loop" /\ UNCHANGED <<pidFile, Checkout>> /\ HostCalm
  /\ IF ~ToldToStop(proc[p]) THEN Move(p, "tick")
     ELSE IF proc[p].signals = 2 /\ ~proc[p].restart
     THEN Only(p, [proc[p] EXCEPT !.at = "close", !.code = 1])
     ELSE Move(p, "drain")

\* check: behind by the commits of origin, none when its head is quarantined.
Behind == origin > head /\ origin # quarantine

(* A tick, and now and then the check for updates, which clears a record   *)
(* that origin has moved past, or fails.                                   *)
Tick(p) ==
  /\ proc[p].at = "tick" /\ UNCHANGED <<pidFile, origin, head, dist>> /\ HostCalm
  /\ \E checks \in BOOLEAN :
       /\ quarantine' = IF checks /\ quarantine # origin THEN NoCommit ELSE quarantine
       /\ Only(p, [proc[p] EXCEPT !.at = "loop", !.restart = checks /\ Behind])

ExitCode(r, completed) == IF r.restart THEN Restart ELSE IF completed THEN 0 ELSE 1

(* drainToCompletion: until idle, the timeout, or the second signal.       *)
Drain(p) ==
  /\ proc[p].at = "drain" /\ UNCHANGED <<pidFile, Checkout>> /\ HostCalm
  /\ \E completed \in BOOLEAN :
       /\ Only(p, [proc[p] EXCEPT !.at = "close", !.code = ExitCode(proc[p], completed)])

CloseStore(p) ==
  /\ proc[p].at = "close"
  /\ Only(p, [Absent EXCEPT !.at = "unlink", !.commit = proc[p].commit, !.code = proc[p].code])
  /\ UNCHANGED <<pidFile, Checkout>> /\ HostCalm

\* The pid file goes whoever wrote it.
Unlink(p) ==
  /\ proc[p].at = "unlink" /\ Only(p, Exit(proc[p], proc[p].code)) /\ pidFile' = 0
  /\ UNCHANGED Checkout /\ HostCalm

\* The out-of-memory killer: no finally block runs.
Dies(p) ==
  /\ HostFault("crash") /\ Alive(p) /\ Only(p, Exit(proc[p], Killed))
  /\ UNCHANGED <<pidFile, Checkout>>

\* An exception of the loop: the finally block runs.
Throws(p) ==
  /\ HostFault("throws") /\ proc[p].at \in {"loop", "tick"}
  /\ Only(p, [proc[p] EXCEPT !.at = "close", !.code = 1])
  /\ UNCHANGED <<pidFile, Checkout>>

-----------------------------------------------------------------------------
(* What operators do: the drain of the web control plane, and             *)
(* ralph-daemon --drain, which signals whoever the pid file names.         *)
WebDrain(p) ==
  /\ HostFault("web drain") /\ proc[p].at \in {"loop", "tick"}
  /\ Only(p, [proc[p] EXCEPT !.webDrain = TRUE]) /\ UNCHANGED <<pidFile, Checkout>>

SignalDrain ==
  /\ HostFault("drain") /\ pidFile # 0 /\ UNCHANGED Checkout
  /\ IF Alive(pidFile)
     THEN Only(pidFile, Signalled(pidFile)) /\ UNCHANGED pidFile
     ELSE pidFile' = 0 /\ UNCHANGED proc

Push ==
  /\ origin < MaxCommit /\ origin' = origin + 1
  /\ UNCHANGED <<proc, pidFile, head, dist, quarantine>> /\ HostCalm

ProcessStep(p) ==
  \/ Guard(p) \/ Reaped(p) \/ GraceOver(p) \/ OpenStore(p) \/ WritePid(p)
  \/ Startup(p) \/ Loop(p) \/ Tick(p) \/ Drain(p) \/ CloseStore(p) \/ Unlink(p)

ProcessInit ==
  /\ proc = [p \in Pids |-> Absent] /\ pidFile = 0 /\ hostFaults = 0
  /\ origin = 0 /\ head = 0 /\ dist = 0 /\ quarantine = NoCommit
=============================================================================
