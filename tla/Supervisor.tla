------------------------------ MODULE Supervisor ------------------------------
(***************************************************************************)
(* The host: systemd restarts ops/ralph-start.sh, which pulls, builds and  *)
(* becomes ops/ralph-supervisor.sh, which launches the daemon, adopts what *)
(* origin has when the daemon exits with the restart code, and goes back   *)
(* to the last good commit when the build or the first launch fails.  The  *)
(* supervisor's own state is shell variables: it dies with the process.    *)
(***************************************************************************)
EXTENDS DaemonProcess

VARIABLES sup,      \* the shell, see Shell
          stop,     \* STOP_REQUESTED, and whether a daemon was told
          tried,    \* history: how often the supervisor adopted each commit
          overlap,  \* history: a process started while another was booting
          hurt      \* history: what the host cannot repair by itself, see Recovers

hostVars == <<proc, pidFile, origin, head, dist, quarantine, hostFaults,
              sup, stop, tried, overlap, hurt>>
History == <<tried, overlap, hurt>>
Machine == <<proc, pidFile>>

Shell == [at |-> "start", child |-> 0, lastGood |-> NoCommit, probation |-> FALSE,
          probed |-> NoCommit, bad |-> NoCommit]

At(s) == sup.at = s
Then(s) == sup' = [sup EXCEPT !.at = s]

\* Ids nobody runs under; the shell has not yet waited for its own child.
FreePids == {p \in Pids : ~Alive(p) /\ p # sup.child}
NewPid == CHOOSE p \in FreePids : TRUE

Starts(p) == /\ Only(p, Started) /\ overlap' = (overlap \/ Booting # {})

-----------------------------------------------------------------------------
(* ralph-start.sh (set -e): pull, build, hand off.  It reads no quarantine *)
(* record.  A failure ends it, and systemd starts it again.                *)
ColdStart ==
  /\ At("start") /\ stop = "no" /\ UNCHANGED <<Machine, origin, quarantine, stop, tried, overlap>>
  /\ HostCalm
  /\ \/ UNCHANGED <<head, dist, sup, hurt>>      \* the pull fails
     \/ /\ head' = IF origin > head THEN origin ELSE head
        /\ hurt' = IF head' # head THEN hurt \cup {"cold"} ELSE hurt
        /\ dist' = IF head' \in Builds THEN head' ELSE Broken
        /\ IF dist' = Broken THEN UNCHANGED sup ELSE sup' = [Shell EXCEPT !.at = "launch"]

(* The top of main's loop: scrub, run_daemon.                              *)
Launch ==
  /\ At("launch") /\ FreePids # {}
  /\ Starts(NewPid) /\ sup' = [sup EXCEPT !.at = "wait", !.child = NewPid]
  /\ UNCHANGED <<pidFile, Checkout, stop, tried, hurt>> /\ HostCalm

ChildCode == proc[sup.child].code
\* An unhealthy commit dies within the health window.
Quickly == IF proc[sup.child].commit \in Healthy THEN BOOLEAN ELSE {TRUE}

\* mutant: the health check passes whatever the new commit did.
AnyLaunchPasses(quick) == FALSE
FailsProbation(quick) == sup.probation /\ ChildCode \notin {0, Restart} /\ quick

(* run_daemon returns: a requested stop comes first, then the health       *)
(* check, then what the code asks for.                                     *)
Waited ==
  /\ At("wait") /\ ~Alive(sup.child) /\ UNCHANGED <<Machine, Checkout, stop, History>> /\ HostCalm
  /\ \E quick \in Quickly :
       LET done == [sup EXCEPT !.child = 0, !.probation = FALSE] IN
       sup' = IF stop # "no" THEN [done EXCEPT !.at = "exited"]
              ELSE IF FailsProbation(quick)
              THEN [done EXCEPT !.at = "restore", !.bad = sup.probed]
              ELSE IF ChildCode = Restart
              THEN [done EXCEPT !.at = "pull", !.lastGood = head]
              ELSE [done EXCEPT !.at = IF ChildCode = 0 THEN "exited" ELSE "launch"]

(* default_update: fetch and pull, then npm ci and the build.              *)
Pull ==
  /\ At("pull") /\ UNCHANGED <<Machine, origin, dist, quarantine, stop, overlap, hurt>> /\ HostCalm
  /\ \/ /\ head' = origin /\ tried' = [tried EXCEPT ![origin] = @ + 1] /\ Then("build")
     \/ /\ sup' = [sup EXCEPT !.at = "restore", !.bad = head] /\ UNCHANGED <<head, tried>>

BuildGate(ok) == IF ok THEN [sup EXCEPT !.at = "launch", !.probation = TRUE, !.probed = head]
                 ELSE [sup EXCEPT !.at = "restore", !.bad = head]

Build ==
  /\ At("build") /\ UNCHANGED <<Machine, origin, head, quarantine, stop, History>>
  /\ \E ok \in BOOLEAN :
       /\ IF ok = (head \in Builds) THEN HostCalm ELSE ~ok /\ HostFault("build")
       /\ dist' = IF ok THEN head ELSE Broken
       /\ sup' = BuildGate(ok)

(* restore_last_good: the quarantine record, then the rollback, which may  *)
(* fail and leave the daemon to a human; the loop launches it anyway.      *)
Restore ==
  /\ At("restore") /\ Then("rollback")
  /\ quarantine' = IF sup.bad = sup.lastGood THEN quarantine ELSE sup.bad
  /\ UNCHANGED <<Machine, origin, head, dist, stop, History>> /\ HostCalm

Rollback ==
  /\ At("rollback") /\ Then("launch")
  /\ UNCHANGED <<Machine, origin, quarantine, stop, tried, overlap>>
  /\ \/ HostCalm /\ head' = sup.lastGood /\ dist' = sup.lastGood /\ UNCHANGED hurt
     \/ /\ HostFault("rollback") /\ hurt' = hurt \cup {"rollback"}
        /\ head' \in {head, sup.lastGood} /\ dist' = Broken

(* forward_stop: the flag, and the signal if a daemon is running.          *)
Stop ==
  /\ HostFault("stop") /\ stop = "no" /\ sup.at \notin {"start", "exited"}
  /\ IF At("wait") /\ Alive(sup.child)
     THEN stop' = "told" /\ Only(sup.child, Signalled(sup.child))
     ELSE stop' = "flag" /\ UNCHANGED proc
  /\ UNCHANGED <<pidFile, Checkout, sup, History>>

(* Restart=always, unless systemd itself asked for the stop.               *)
Systemd ==
  /\ At("exited") /\ stop = "no" /\ sup' = Shell
  /\ UNCHANGED <<Machine, Checkout, stop, History>> /\ HostCalm

(* The supervisor is killed: systemd kills its group, or an orphan stays.  *)
SupervisorDies ==
  /\ HostFault("supervisor") /\ stop = "no" /\ sup.at \notin {"start", "exited"}
  /\ sup' = Shell
  /\ \/ UNCHANGED proc
     \/ /\ sup.child # 0 /\ Alive(sup.child)
        /\ Only(sup.child, Exit(proc[sup.child], Killed))
  /\ hurt' = IF sup.probation \/ sup.at \in {"build", "restore", "rollback"}
             THEN hurt \cup {"probation"} ELSE hurt
  /\ UNCHANGED <<pidFile, Checkout, stop, tried, overlap>>

(* A second daemon is started by hand; "overlap" lets it start while       *)
(* another one is between its guard and its pid file.                      *)
Manual ==
  /\ HostFault("manual") /\ FreePids # {} /\ dist # Broken
  /\ Booting = {} \/ "overlap" \in HostFaults
  /\ Starts(NewPid)
  /\ UNCHANGED <<pidFile, Checkout, sup, stop, tried, hurt>>

-----------------------------------------------------------------------------
HostInit ==
  /\ ProcessInit /\ sup = [Shell EXCEPT !.at = "launch"] /\ stop = "no"
  /\ tried = [c \in 0..MaxCommit |-> 0] /\ overlap = FALSE /\ hurt = {}

SupervisorStep ==
  ColdStart \/ Launch \/ Waited \/ Pull \/ Build \/ Restore \/ Rollback \/ Systemd

Kept == UNCHANGED <<sup, stop, History>>

HostNext ==
  \/ SupervisorStep \/ Stop \/ SupervisorDies \/ Manual
  \/ Kept /\ (Push \/ SignalDrain)
  \/ \E p \in Pids : Kept /\ (ProcessStep(p) \/ Dies(p) \/ Throws(p) \/ WebDrain(p))

HostSpec == HostInit /\ [][HostNext]_hostVars
            /\ WF_hostVars(SupervisorStep)
            /\ \A p \in Pids : WF_hostVars(Kept /\ ProcessStep(p))

-----------------------------------------------------------------------------
(***************************************************************************)
(* Two daemons never have the store open at once: whoever comes second     *)
(* waits until the incumbent is gone (singleton.ts), whichever of          *)
(* systemd, the supervisor and an operator started it -- unless one was    *)
(* started while another was between its guard and its pid file.           *)
(***************************************************************************)
OneStore ==
  \A p, q \in Pids : HasStore(p) /\ HasStore(q) => p = q \/ overlap

(***************************************************************************)
(* What the supervisor launches is a finished build of the checkout's      *)
(* head, through failed builds, probations and its own death: only a       *)
(* rollback that failed leaves it with less.                               *)
(***************************************************************************)
LaunchIsBuilt ==
  At("launch") => "rollback" \in hurt \/ (dist = head /\ dist # Broken)

(***************************************************************************)
(* One bad commit costs one update: the quarantine record keeps the daemon *)
(* from draining again for a commit that was rolled back.                  *)
(***************************************************************************)
NoThrash == \A c \in 0..MaxCommit : tried[c] <= 1

(***************************************************************************)
(* singleton.ts, self-update.ts and ralph-supervisor.sh together: one      *)
(* daemon on the store, of a build that finished, and one try per commit.  *)
(***************************************************************************)
HostHolds == OneStore /\ LaunchIsBuilt /\ NoThrash

(***************************************************************************)
(* Whatever is pushed, a daemon of a healthy commit comes back to its      *)
(* loop, as long as nobody asked for a stop, no rollback failed, no cold   *)
(* start pulled a commit on its own and no supervisor died with the        *)
(* update it had on probation.                                             *)
(***************************************************************************)
Serving == \E p \in Pids : proc[p].at = "loop"
Recovers == []<>(Serving \/ stop # "no" \/ hurt # {})

(***************************************************************************)
(* A stop that reached a running daemon ends the supervisor: the drain     *)
(* finishes, runs into its timeout, or is forced.                          *)
(***************************************************************************)
StopEnds == (stop = "told") ~> At("exited")

(***************************************************************************)
(* ADR-0018: "A bad commit on the tracked branch can no longer wedge an    *)
(* unattended box."  The daemon keeps coming back whatever is pushed, with *)
(* no operator's stop, no failed rollback.                                 *)
(***************************************************************************)
NeverWedged == []<>(Serving \/ stop # "no" \/ hurt \cap {"rollback", "probation"} # {})

(***************************************************************************)
(* The supervisor's comment on a requested stop: "never relaunch, roll     *)
(* back, or surface a crash anomaly while we are being stopped".           *)
(***************************************************************************)
StoppedStaysDown == [][stop # "no" => ~Launch]_hostVars
=============================================================================
