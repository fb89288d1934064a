------------------------------ MODULE HostProofs ------------------------------
(***************************************************************************)
(* What holds of the host for any number of processes, commits and faults: *)
(* one daemon on the store, a finished build at every launch, and one try  *)
(* for each commit; of that store, for any number of writers: appends      *)
(* stay, projections are the fold of the log, and prunes leave a marker;   *)
(* and of a store that is lost: each run is rebuilt as it rested.          *)
(***************************************************************************)
EXTENDS Supervisor, MCStorage, Rehydrate, FiniteSetTheorems, WellFoundedInduction, TLAPS

Awaits == {"none", "guard", "reap", "open", "opened", "startup", "loop", "tick", "drain",
           "close", "unlink", "gone"}
Process == [at : Awaits, commit : Nat, incumbent : Pids \cup {0}, signals : 0..2,
            webDrain : BOOLEAN, restart : BOOLEAN, code : Nat]

Stages == {"start", "launch", "wait", "pull", "build", "restore", "rollback", "exited"}
Shells == [at : Stages, child : Pids \cup {0}, lastGood : Nat, probation : BOOLEAN,
           probed : Nat, bad : Nat]

TypeOK ==
  /\ proc \in [Pids -> Process] /\ pidFile \in Pids \cup {0}
  /\ origin \in 0..MaxCommit /\ head \in 0..MaxCommit
  /\ dist \in Nat /\ quarantine \in Nat
  /\ sup \in Shells /\ stop \in {"no", "told", "flag"}
  /\ sup.at \in {"pull", "build", "restore", "rollback"} \/ sup.probation =>
       sup.lastGood \in 0..MaxCommit
  /\ tried \in [0..MaxCommit -> Nat]
  /\ overlap \in BOOLEAN

(* The store: processes that wrote their pid, and are not gone.            *)
Settled == {p \in Pids : Alive(p)} \ Booting

(* The pid file names the one settled process, a newcomer opens the store  *)
(* only when there is none, and waits for the only one there is.           *)
StoreInv ==
  /\ \A p, q \in Booting : p = q
  /\ \A q \in Settled : pidFile = q
  /\ \A p \in Pids : proc[p].at \in {"open", "opened"} => Settled = {}
  /\ \A p \in Pids : proc[p].at = "reap" => Settled \subseteq {proc[p].incumbent}
StoreKept == overlap \/ StoreInv

(* The build: what is on disk wherever the shell may launch it next.       *)
BuildInv ==
  sup.at \in {"launch", "wait"} => "rollback" \in hurt \/ (dist = head /\ dist # Broken)

(* The updates: the child is on its way to the restart code.               *)
Pending == sup.at = "wait" /\ sup.child \in Pids
           /\ (proc[sup.child].restart \/ proc[sup.child].code = Restart)

(* A commit tried at origin's head is the checkout's, or is quarantined;   *)
(* while an update is pending or about to be pulled, it is untried.        *)
TriedOnce ==
  /\ \A c \in 0..MaxCommit : tried[c] <= 1 /\ (c > origin => tried[c] = 0)
  /\ tried[origin] # 0 => quarantine = origin \/ head = origin
TriedNext ==
  /\ sup.at = "wait" => sup.child \in Pids
  /\ Pending => head < origin /\ tried[origin] = 0
  /\ sup.at = "pull" => sup.lastGood = head /\ head < origin /\ tried[origin] = 0
  /\ sup.at = "build" => sup.lastGood < head /\ (tried[origin] # 0 => head = origin)
  /\ sup.at = "restore" /\ tried[origin] # 0 => sup.bad = origin /\ sup.lastGood # origin
  /\ sup.at = "rollback" /\ tried[origin] # 0 => quarantine = origin
  /\ sup.at \in {"launch", "wait"} /\ sup.probation =>
       sup.probed = head /\ sup.lastGood < head /\ (tried[origin] # 0 => head = origin)
  /\ sup.at \in {"start", "pull", "build", "restore", "rollback", "exited"} => ~sup.probation
UpdateInv == TriedOnce /\ TriedNext

HostInv == TypeOK /\ StoreKept /\ BuildInv /\ UpdateInv

-----------------------------------------------------------------------------
(* A new process gets an id nobody runs under, and which the shell does    *)
(* not still wait for.                                                     *)
LEMMA NewPidFree ==
  ASSUME FreePids # {}
  PROVE  NewPid \in Pids /\ ~Alive(NewPid) /\ NewPid # sup.child
BY DEF FreePids, NewPid

LEMMA AbsentType == Absent \in Process /\ ~Absent.restart /\ Absent.code = 0
BY CommitAssumption DEF Absent, Process, Awaits, NoCommit

LEMMA StartedType ==
  ASSUME TypeOK
  PROVE  /\ Started \in Process /\ Started.at = "guard"
         /\ ~Started.restart /\ Started.code = 0
BY AbsentType DEF TypeOK, Started, Process, Awaits

(* How a process ends, and what a signal makes of it.                      *)
LEMMA ExitType ==
  ASSUME NEW r \in Process, NEW code \in Nat
  PROVE  /\ Exit(r, code) \in Process /\ Exit(r, code).at = "gone"
         /\ ~Exit(r, code).restart /\ Exit(r, code).code = code
BY AbsentType DEF Exit, Process, Awaits

LEMMA SignalledType ==
  ASSUME TypeOK, NEW p \in Pids
  PROVE  /\ Signalled(p) \in Process
         /\ Signalled(p).at \in {proc[p].at, "gone"}
         /\ Handles(p) => Signalled(p).at = proc[p].at
         /\ Signalled(p).code \in {proc[p].code, 143}
         /\ Signalled(p).restart => proc[p].restart
<1>1. CASE Handles(p)
  <2>1. proc[p] \in Process
    BY DEF TypeOK
  <2>2. Signalled(p) = [proc[p] EXCEPT !.signals = IF @ < 2 THEN @ + 1 ELSE 2]
    BY <1>1 DEF Signalled
  <2>. QED  BY <2>1, <2>2, <1>1 DEF Process, Awaits, Handles
<1>2. CASE ~Handles(p)
  <2>1. proc[p] \in Process
    BY DEF TypeOK
  <2>2. Signalled(p) = Exit(proc[p], 143)
    BY <1>2 DEF Signalled
  <2>. QED  BY <2>1, <2>2, <1>2, ExitType
<1>. QED  BY <1>1, <1>2

LEMMA FieldsKept ==
  ASSUME TypeOK, NEW p \in Pids, NEW at
  PROVE  /\ proc[p].code \in Nat
         /\ [proc[p] EXCEPT !.at = at] = [proc[p] EXCEPT !.at = at, !.code = proc[p].code]
BY DEF TypeOK, Process

(* Every step keeps the types, a process step at a time.                   *)
LEMMA ProcessTyped ==
  ASSUME TypeOK, NEW p \in Pids, ProcessStep(p)
  PROVE  /\ proc' \in [Pids -> Process] /\ pidFile' \in Pids \cup {0}
         /\ quarantine' \in Nat /\ UNCHANGED <<origin, head, dist>>
<1>0. /\ proc \in [Pids -> Process] /\ proc[p] \in Process /\ pidFile \in Pids \cup {0}
      /\ quarantine \in Nat
  BY DEF TypeOK
<1>1. CASE Guard(p)
  BY <1>0, <1>1, SignalledType DEF Guard, Move, Only, Process, Awaits, Checkout
<1>2. CASE Reaped(p)
  BY <1>0, <1>2 DEF Reaped, Only, Process, Awaits, Checkout
<1>3. CASE GraceOver(p)
  BY <1>0, <1>3, ExitType DEF GraceOver, Only, Process, Awaits, Checkout, Killed
<1>4. CASE OpenStore(p) \/ WritePid(p)
  BY <1>0, <1>4 DEF OpenStore, WritePid, Move, Only, Process, Awaits, Checkout
<1>5. CASE Startup(p) \/ Loop(p)
  <2>1. PICK at \in Awaits, code \in Nat : Only(p, [proc[p] EXCEPT !.at = at, !.code = code])
    BY <1>5, FieldsKept DEF Startup, Loop, Move, Awaits
  <2>. QED  BY <1>0, <1>5, <2>1 DEF Startup, Loop, Only, Process, Checkout
<1>6. CASE Tick(p)
  <2>1. PICK restart \in BOOLEAN :
          Only(p, [proc[p] EXCEPT !.at = "loop", !.restart = restart])
    BY <1>6 DEF Tick, Behind
  <2>2. quarantine' \in Nat
    BY <1>0, <1>6, CommitAssumption DEF Tick, NoCommit
  <2>. QED  BY <1>0, <1>6, <2>1, <2>2 DEF Tick, Only, Process, Awaits
<1>7. CASE Drain(p)
  <2>1. PICK code \in Nat : Only(p, [proc[p] EXCEPT !.at = "close", !.code = code])
    BY <1>7 DEF Drain, ExitCode, Restart
  <2>. QED  BY <1>0, <1>7, <2>1 DEF Drain, Only, Process, Awaits, Checkout
<1>8. CASE CloseStore(p)
  BY <1>0, <1>8, AbsentType DEF CloseStore, Only, Process, Awaits, Checkout
<1>9. CASE Unlink(p)
  BY <1>0, <1>9, ExitType DEF Unlink, Only, Process, Awaits, Checkout
<1>. QED
  BY <1>1, <1>2, <1>3, <1>4, <1>5, <1>6, <1>7, <1>8, <1>9 DEF ProcessStep

LEMMA OthersTyped ==
  ASSUME TypeOK, NEW p \in Pids, Dies(p) \/ Throws(p) \/ WebDrain(p)
  PROVE  /\ proc' \in [Pids -> Process] /\ UNCHANGED <<pidFile, Checkout>>
<1>0. proc \in [Pids -> Process] /\ proc[p] \in Process
  BY DEF TypeOK
<1>1. CASE Dies(p)
  BY <1>0, <1>1, ExitType DEF Dies, Only, Killed
<1>2. CASE Throws(p)
  BY <1>0, <1>2 DEF Throws, Only, Process, Awaits
<1>3. CASE WebDrain(p)
  BY <1>0, <1>3 DEF WebDrain, Only, Process
<1>. QED  BY <1>1, <1>2, <1>3

(* What run_daemon returns to: at most four places, the child gone and the *)
(* probation over.                                                         *)
LEMMA WaitedTo ==
  ASSUME TypeOK, Waited
  PROVE  \/ /\ sup' = [sup EXCEPT !.at = "restore", !.child = 0, !.probation = FALSE,
                                  !.bad = sup.probed]
            /\ sup.probation
         \/ /\ sup' = [sup EXCEPT !.at = "pull", !.child = 0, !.probation = FALSE,
                                  !.lastGood = head]
            /\ ChildCode = Restart
         \/ sup' = [sup EXCEPT !.at = "exited", !.child = 0, !.probation = FALSE]
         \/ sup' = [sup EXCEPT !.at = "launch", !.child = 0, !.probation = FALSE]
<1>1. sup \in Shells
  BY DEF TypeOK
<1>. QED  BY <1>1 DEF Waited, FailsProbation, Shells

LEMMA ShellTyped ==
  ASSUME TypeOK, SupervisorStep
  PROVE  TypeOK'
<1>0. /\ sup \in Shells /\ proc \in [Pids -> Process] /\ sup.lastGood \in Nat /\ Shell \in Shells
      /\ head \in 0..MaxCommit /\ origin \in 0..MaxCommit /\ MaxCommit \in Nat
      /\ sup.probed \in Nat /\ head \in Nat
  BY CommitAssumption DEF TypeOK, Shells, Stages, Shell, NoCommit
<1>1. CASE ColdStart
  <2>1. head' \in 0..MaxCommit /\ dist' \in Nat
    BY <1>0, <1>1 DEF ColdStart, Broken, TypeOK
  <2>2. sup' \in {sup, [Shell EXCEPT !.at = "launch"]}
    BY <1>1 DEF ColdStart
  <2>3. [Shell EXCEPT !.at = "launch"] \in Shells
        /\ ~[Shell EXCEPT !.at = "launch"].probation
        /\ [Shell EXCEPT !.at = "launch"].at = "launch"
    BY <1>0 DEF Shell, Shells, Stages
  <2>. QED  BY <1>1, <2>1, <2>2, <2>3 DEF ColdStart, TypeOK, Machine
<1>2. CASE Launch
  <2>1. proc' \in [Pids -> Process] /\ sup' \in Shells /\ overlap' \in BOOLEAN
    BY <1>0, <1>2, NewPidFree, StartedType DEF Launch, Starts, Only, Shells, Stages, TypeOK
  <2>. QED  BY <1>0, <1>2, <2>1 DEF Launch, TypeOK, Checkout, Shells, Stages
<1>3. CASE Waited
  <2>1. sup' \in Shells
    BY <1>0, <1>3, WaitedTo DEF Shells, Stages
  <2>2. sup'.at \in {"pull", "build", "restore", "rollback"} \/ sup'.probation
          => sup'.lastGood \in 0..MaxCommit
    BY <1>0, <1>3, WaitedTo DEF Shells, TypeOK
  <2>. QED  BY <1>3, <2>1, <2>2 DEF Waited, TypeOK, Machine, Checkout, History
<1>4. CASE Pull
  <2>1. /\ sup' \in Shells
        /\ sup'.lastGood = sup.lastGood /\ sup.at = "pull"
    <3>1. \/ sup' = [sup EXCEPT !.at = "build"]
          \/ sup' = [sup EXCEPT !.at = "restore", !.bad = head]
      BY <1>4 DEF Pull, Then
    <3>. QED  BY <1>0, <1>4, <3>1 DEF Pull, At, Shells, Stages
  <2>2. head' \in 0..MaxCommit /\ tried' \in [0..MaxCommit -> Nat]
    BY <1>0, <1>4 DEF Pull, TypeOK
  <2>. QED  BY <1>4, <2>1, <2>2 DEF Pull, TypeOK, Machine
<1>5. CASE Build
  <2>1. /\ sup' \in Shells
        /\ sup'.lastGood = sup.lastGood /\ sup.at = "build"
    <3>1. \/ sup' = [sup EXCEPT !.at = "launch", !.probation = TRUE, !.probed = head]
          \/ sup' = [sup EXCEPT !.at = "restore", !.bad = head]
      BY <1>5 DEF Build, BuildGate
    <3>. QED  BY <1>0, <1>5, <3>1 DEF Build, At, Shells, Stages
  <2>2. dist' \in Nat
    BY <1>0, <1>5 DEF Build, Broken
  <2>. QED  BY <1>5, <2>1, <2>2 DEF Build, TypeOK, Machine, History
<1>6. CASE Restore
  BY <1>0, <1>6 DEF Restore, TypeOK, Shells, Stages, Machine, History, Then, At
<1>7. CASE Rollback
  <2>1. /\ sup' \in Shells
        /\ sup'.lastGood = sup.lastGood /\ sup.at = "rollback"
    BY <1>0, <1>7 DEF Rollback, Then, At, Shells, Stages
  <2>2. head' \in 0..MaxCommit /\ dist' \in Nat
    BY <1>0, <1>7, <2>1 DEF Rollback, TypeOK, Broken
  <2>. QED  BY <1>7, <2>1, <2>2 DEF Rollback, TypeOK, Machine
<1>8. CASE Systemd
  BY <1>0, <1>8 DEF Systemd, TypeOK, Shells, Stages, Shell, Machine, Checkout, History
<1>. QED
  BY <1>1, <1>2, <1>3, <1>4, <1>5, <1>6, <1>7, <1>8 DEF SupervisorStep

LEMMA TypeStep ==
  ASSUME TypeOK, [HostNext]_hostVars
  PROVE  TypeOK'
<1>0. /\ proc \in [Pids -> Process] /\ sup \in Shells /\ Shell \in Shells /\ ~Shell.probation
      /\ Shell.at = "start"
  BY CommitAssumption DEF TypeOK, Shell, Shells, Stages, NoCommit
<1>1. CASE SupervisorStep
  BY <1>1, ShellTyped
<1>2. CASE Stop
  <2>1. proc' \in [Pids -> Process]
    BY <1>0, <1>2, SignalledType DEF Stop, Only, Shells
  <2>. QED  BY <1>2, <2>1 DEF Stop, TypeOK, Checkout, History
<1>3. CASE SupervisorDies
  <2>1. proc' \in [Pids -> Process]
    <3>1. CASE UNCHANGED proc
      BY <1>0, <3>1
    <3>2. CASE sup.child # 0 /\ Only(sup.child, Exit(proc[sup.child], Killed))
      <4>1. sup.child \in Pids /\ proc[sup.child] \in Process
        BY <1>0, <3>2 DEF Shells
      <4>2. Exit(proc[sup.child], Killed) \in Process
        BY <4>1, ExitType DEF Killed
      <4>. QED  BY <1>0, <3>2, <4>2 DEF Only
    <3>. QED  BY <1>3, <3>1, <3>2 DEF SupervisorDies
  <2>. QED  BY <1>0, <1>3, <2>1 DEF SupervisorDies, TypeOK, Checkout
<1>4. CASE Manual
  <2>1. proc' \in [Pids -> Process] /\ overlap' \in BOOLEAN
    BY <1>0, <1>4, NewPidFree, StartedType DEF Manual, Starts, Only, TypeOK
  <2>. QED  BY <1>4, <2>1 DEF Manual, TypeOK, Checkout
<1>5. CASE Kept /\ Push
  BY <1>5, CommitAssumption DEF Kept, Push, TypeOK, History
<1>6. CASE Kept /\ SignalDrain
  <2>1. proc' \in [Pids -> Process] /\ pidFile' \in Pids \cup {0}
    BY <1>0, <1>6, SignalledType DEF SignalDrain, Only, TypeOK
  <2>. QED  BY <1>6, <2>1 DEF Kept, SignalDrain, TypeOK, Checkout, History
<1>7. ASSUME NEW p \in Pids, Kept, ProcessStep(p) PROVE TypeOK'
  BY <1>7, ProcessTyped DEF Kept, TypeOK, History
<1>8. ASSUME NEW p \in Pids, Kept, Dies(p) \/ Throws(p) \/ WebDrain(p) PROVE TypeOK'
  BY <1>8, OthersTyped DEF Kept, TypeOK, History, Checkout
<1>9. CASE UNCHANGED hostVars
  BY <1>9 DEF hostVars, TypeOK
<1>. QED
  BY <1>1, <1>2, <1>3, <1>4, <1>5, <1>6, <1>7, <1>8, <1>9 DEF HostNext

(* The types hold of every host.                                           *)
THEOREM HostTyped == HostSpec => []TypeOK
<1>1. HostInit => TypeOK
  <2> SUFFICES ASSUME HostInit PROVE TypeOK
    OBVIOUS
  <2>1. sup \in Shells /\ sup.at = "launch" /\ ~sup.probation
    <3>1. Shell \in Shells /\ ~Shell.probation
      BY CommitAssumption DEF Shell, Shells, Stages, NoCommit
    <3>. QED  BY <3>1 DEF HostInit, Shells, Stages
  <2>2. proc \in [Pids -> Process]
    <3>1. proc = [p \in Pids |-> Absent] /\ Absent \in Process
      BY AbsentType DEF HostInit, ProcessInit
    <3>. QED  BY <3>1
  <2>3. /\ pidFile = 0 /\ origin = 0 /\ head = 0 /\ dist = 0 /\ quarantine \in Nat
        /\ 0 \in 0..MaxCommit /\ stop = "no" /\ overlap = FALSE
        /\ tried \in [0..MaxCommit -> Nat]
    BY CommitAssumption DEF HostInit, ProcessInit, NoCommit
  <2>. QED  BY <2>1, <2>2, <2>3 DEF TypeOK
<1>. QED
  BY <1>1, TypeStep, PTL DEF HostSpec

-----------------------------------------------------------------------------
(* One store.  Nothing but a process's await, its incumbent and the pid    *)
(* file matters.                                                           *)
LEMMA OnlyOne ==
  ASSUME TypeOK, NEW p \in Pids, NEW r, Only(p, r)
  PROVE  proc'[p] = r /\ \A q \in Pids : q # p => proc'[q] = proc[q]
BY DEF Only, TypeOK

LEMMA StoreStutters ==
  ASSUME StoreInv, pidFile' = pidFile,
         \A q \in Pids : proc'[q].at = proc[q].at /\ proc'[q].incumbent = proc[q].incumbent
  PROVE  StoreInv'
BY DEF StoreInv, Settled, Booting, Alive

(* A process that ends in its place takes nothing from anybody.            *)
LEMMA StoreShrinks ==
  ASSUME StoreInv, pidFile' = pidFile, NEW p \in Pids,
         \A q \in Pids : q # p => proc'[q] = proc[q],
         proc'[p].at = "gone"
  PROVE  StoreInv'
BY DEF StoreInv, Settled, Booting, Alive

(* A settled process that stays one.                                       *)
LEMMA StoreStays ==
  ASSUME StoreInv, pidFile' = pidFile, NEW p \in Settled,
         \A q \in Pids : q # p => proc'[q] = proc[q],
         proc'[p].at \in {"startup", "loop", "tick", "drain", "close", "unlink"}
  PROVE  StoreInv'
BY DEF StoreInv, Settled, Booting, Alive

LEMMA StoreOfProcess ==
  ASSUME TypeOK, StoreInv, NEW p \in Pids, ProcessStep(p)
  PROVE  StoreInv'
<1>0. proc \in [Pids -> Process] /\ proc[p] \in Process
  BY DEF TypeOK
<1>1. CASE Guard(p)
  <2>1. CASE pidFile \in Pids \ {p} /\ Alive(pidFile)
    <3>1. /\ proc'[p].at = "reap" /\ proc'[p].incumbent = pidFile
          /\ proc'[pidFile] = Signalled(pidFile) /\ pidFile' = pidFile
          /\ \A q \in Pids \ {p, pidFile} : proc'[q] = proc[q]
      BY <1>0, <1>1, <2>1 DEF Guard, Process
    <3>2. Signalled(pidFile).at \in {proc[pidFile].at, "gone"}
      BY <2>1, SignalledType
    <3>3. pidFile \notin Booting
      BY <1>1, <2>1 DEF StoreInv, Guard, Booting
    <3>. QED  BY <1>1, <2>1, <3>1, <3>2, <3>3 DEF StoreInv, Settled, Booting, Alive, Guard
  <2>2. CASE ~(pidFile \in Pids \ {p} /\ Alive(pidFile))
    <3>1. Move(p, "open") /\ pidFile' = pidFile /\ proc[p].at = "guard"
      BY <1>1, <2>2 DEF Guard
    <3>2. Settled = {}
      BY <2>2, <3>1 DEF StoreInv, Settled, Booting
    <3>3. proc'[p].at = "open" /\ \A q \in Pids : q # p => proc'[q] = proc[q]
      BY <1>0, <3>1, OnlyOne DEF Move, Process
    <3>. QED  BY <3>1, <3>2, <3>3 DEF StoreInv, Settled, Booting, Alive
  <2>. QED  BY <2>1, <2>2
<1>2. CASE Reaped(p)
  <2>1. proc'[p].at = "open" /\ \A q \in Pids : q # p => proc'[q] = proc[q]
    BY <1>0, <1>2 DEF Reaped, Only, Process
  <2>2. Settled = {}
    BY <1>2 DEF Reaped, IncumbentGone, StoreInv, Settled
  <2>. QED  BY <1>2, <2>1, <2>2 DEF Reaped, StoreInv, Settled, Booting, Alive
<1>3. CASE GraceOver(p)
  <2>1. CASE Only(p, Exit(proc[p], 1))
    BY <1>0, <1>3, <2>1, OnlyOne, ExitType, StoreShrinks DEF GraceOver
  <2>2. CASE proc' = [proc EXCEPT ![proc[p].incumbent] = Exit(@, Killed),
                                  ![p].at = "open", ![p].incumbent = 0]
    <3>1. proc[p].incumbent \in Pids \cup {0} /\ Killed \in Nat
      BY <1>0 DEF Process, Killed
    <3>2. /\ proc'[p].at = "open"
          /\ \A q \in Pids : q # p => proc'[q] = IF q = proc[p].incumbent THEN Exit(proc[q], Killed) ELSE proc[q]
      BY <1>0, <2>2, ExitType, <3>1 DEF Process
    <3>3. \A q \in Pids : Exit(proc[q], Killed).at = "gone"
      BY <1>0, <3>1, ExitType
    <3>4. Settled \subseteq {proc[p].incumbent} /\ p \notin Settled
      BY <1>3 DEF GraceOver, StoreInv, Settled, Booting
    <3>5. Settled' = {}
      BY <3>2, <3>3, <3>4 DEF Settled, Booting, Alive
    <3>. QED  BY <1>3, <3>2, <3>3, <3>5 DEF GraceOver, StoreInv, Booting, Alive
  <2>. QED  BY <1>3, <2>1, <2>2 DEF GraceOver
<1>4. CASE OpenStore(p)
  <2>1. proc'[p].at = "opened" /\ \A q \in Pids : q # p => proc'[q] = proc[q]
    BY <1>0, <1>4, OnlyOne DEF OpenStore, Move, Process
  <2>. QED  BY <1>4, <2>1 DEF OpenStore, StoreInv, Settled, Booting, Alive
<1>5. CASE WritePid(p)
  <2>1. proc'[p].at = "startup" /\ \A q \in Pids : q # p => proc'[q] = proc[q]
    BY <1>0, <1>5, OnlyOne DEF WritePid, Move, Process
  <2>. QED  BY <1>5, <2>1 DEF WritePid, StoreInv, Settled, Booting, Alive
<1>6. CASE Startup(p) \/ Loop(p) \/ Tick(p) \/ Drain(p) \/ CloseStore(p)
  <2>1. /\ proc'[p].at \in {"startup", "loop", "tick", "drain", "close", "unlink"}
        /\ \A q \in Pids : q # p => proc'[q] = proc[q]
    <3>1. CASE Startup(p)
      BY <1>0, <3>1 DEF Startup, Move, Only, Process
    <3>2. CASE Loop(p)
      BY <1>0, <3>2 DEF Loop, Move, Only, Process
    <3>3. CASE Tick(p)
      BY <1>0, <3>3 DEF Tick, Only, Process
    <3>4. CASE Drain(p)
      BY <1>0, <3>4 DEF Drain, Only, Process
    <3>5. CASE CloseStore(p)
      BY <1>0, <3>5, AbsentType DEF CloseStore, Only, Process
    <3>. QED  BY <1>6, <3>1, <3>2, <3>3, <3>4, <3>5
  <2>2. p \in Settled /\ pidFile' = pidFile
    BY <1>6 DEF Startup, Loop, Tick, Drain, CloseStore, Settled, Alive, Booting
  <2>. QED  BY <2>1, <2>2, StoreStays
<1>7. CASE Unlink(p)
  <2>1. proc'[p].at = "gone" /\ \A q \in Pids : q # p => proc'[q] = proc[q]
    <3>1. Exit(proc[p], proc[p].code).at = "gone"
      BY <1>0, ExitType DEF Process
    <3>. QED  BY <1>0, <1>7, <3>1 DEF Unlink, Only
  <2>2. p \in Settled
    BY <1>7 DEF Unlink, Settled, Alive, Booting
  <2>. QED  BY <2>1, <2>2 DEF StoreInv, Settled, Booting, Alive
<1>. QED
  BY <1>1, <1>2, <1>3, <1>4, <1>5, <1>6, <1>7 DEF ProcessStep

(* A new process is the only one on its way, or the overlap is on record.  *)
LEMMA StoreOfStart ==
  ASSUME TypeOK, StoreKept, FreePids # {}, Starts(NewPid), pidFile' = pidFile
  PROVE  StoreKept'
<1>1. NewPid \in Pids /\ ~Alive(NewPid)
  BY NewPidFree
<1>2. proc'[NewPid].at = "guard" /\ \A q \in Pids : q # NewPid => proc'[q] = proc[q]
  BY <1>1, OnlyOne, StartedType DEF Starts
<1>3. CASE overlap \/ Booting # {}
  BY <1>3 DEF Starts, StoreKept
<1>4. CASE ~overlap /\ Booting = {}
  <2>. HIDE DEF NewPid
  <2>. QED  BY <1>1, <1>2, <1>4 DEF StoreKept, StoreInv, Settled, Booting, Alive
<1>. QED  BY <1>3, <1>4

LEMMA StoreStep ==
  ASSUME TypeOK, StoreKept, [HostNext]_hostVars
  PROVE  StoreKept'
<1>0. proc \in [Pids -> Process] /\ sup \in Shells /\ overlap \in BOOLEAN
  BY DEF TypeOK
<1>1. CASE UNCHANGED <<proc, pidFile, overlap>>
  BY <1>1 DEF StoreKept, StoreInv, Settled, Booting, Alive
<1>2. CASE Launch
  BY <1>2, StoreOfStart DEF Launch
<1>3. CASE Manual
  BY <1>3, StoreOfStart DEF Manual
<1>4. ASSUME NEW p \in Pids, NEW r, Only(p, r), r.at = "gone", UNCHANGED <<pidFile, overlap>>
      PROVE  StoreKept'
  BY <1>4, OnlyOne, StoreShrinks DEF StoreKept
<1>5. ASSUME NEW p \in Pids, Only(p, Signalled(p)), UNCHANGED <<pidFile, overlap>>
      PROVE  StoreKept'
  <2>1. CASE Handles(p)
    <3>1. Signalled(p).at = proc[p].at /\ Signalled(p).incumbent = proc[p].incumbent
      BY <1>0, <2>1 DEF Signalled, Process
    <3>. QED  BY <1>5, <3>1, OnlyOne, StoreStutters DEF StoreKept
  <2>2. CASE ~Handles(p)
    <3>1. Signalled(p) = Exit(proc[p], 143) /\ Exit(proc[p], 143).at = "gone"
      BY <1>0, <2>2, ExitType DEF Signalled
    <3>. QED  BY <1>4, <1>5, <3>1
  <2>. QED  BY <2>1, <2>2
<1>6. CASE Stop
  <2>1. CASE sup.at = "wait" /\ Alive(sup.child)
    <3>1. sup.child \in Pids \cup {0} /\ UNCHANGED <<pidFile, overlap>>
      BY <1>0, <1>6 DEF Stop, Shells, History
    <3>2. Only(sup.child, Signalled(sup.child))
      BY <1>6, <2>1 DEF Stop, At
    <3>3. CASE sup.child = 0
      BY <1>0, <1>1, <3>1, <3>2, <3>3, PidAssumption DEF Only
    <3>. QED  BY <1>5, <3>1, <3>2, <3>3
  <2>2. CASE ~(sup.at = "wait" /\ Alive(sup.child))
    BY <1>1, <1>6, <2>2 DEF Stop, At, History
  <2>. QED  BY <2>1, <2>2
<1>7. CASE SupervisorDies
  <2>1. CASE UNCHANGED proc
    BY <1>1, <1>7, <2>1 DEF SupervisorDies
  <2>2. CASE sup.child # 0 /\ Only(sup.child, Exit(proc[sup.child], Killed))
    <3>1. sup.child \in Pids /\ proc[sup.child] \in Process /\ Killed \in Nat
      BY <1>0, <2>2 DEF Shells, Killed
    <3>. QED  BY <1>4, <1>7, <2>2, <3>1, ExitType DEF SupervisorDies
  <2>. QED  BY <1>7, <2>1, <2>2 DEF SupervisorDies
<1>8. CASE Kept /\ SignalDrain
  <2>1. CASE Alive(pidFile)
    BY <1>5, <1>8, <2>1 DEF SignalDrain, Kept, History, TypeOK
  <2>2. CASE ~Alive(pidFile)
    BY <1>8, <2>2 DEF SignalDrain, Kept, History, StoreKept, StoreInv, Settled, Booting, Alive
  <2>. QED  BY <2>1, <2>2
<1>9. ASSUME NEW p \in Pids, Kept, ProcessStep(p) PROVE StoreKept'
  BY <1>9, StoreOfProcess DEF Kept, History, StoreKept
<1>10. ASSUME NEW p \in Pids, Kept, Dies(p) \/ Throws(p) \/ WebDrain(p) PROVE StoreKept'
  <2>1. UNCHANGED <<pidFile, overlap>> /\ proc[p] \in Process
    BY <1>0, <1>10 DEF Kept, History, Dies, Throws, WebDrain
  <2>2. CASE Dies(p)
    BY <1>4, <2>1, <2>2, ExitType DEF Dies, Killed
  <2>3. CASE Throws(p) \/ WebDrain(p)
    <3>1. /\ proc'[p].at \in {"loop", "tick", "close"} /\ proc[p].at \in {"loop", "tick"}
          /\ \A q \in Pids : q # p => proc'[q] = proc[q]
      <4>1. CASE Throws(p)
        BY <1>0, <2>1, <4>1 DEF Throws, Only, Process
      <4>2. CASE WebDrain(p)
        BY <1>0, <2>1, <4>2 DEF WebDrain, Only, Process
      <4>. QED  BY <2>3, <4>1, <4>2
    <3>2. p \in Settled
      BY <3>1 DEF Settled, Booting, Alive
    <3>. QED  BY <2>1, <3>1, <3>2, StoreStays DEF StoreKept
  <2>. QED  BY <1>10, <2>2, <2>3
<1>. QED
  BY <1>1, <1>2, <1>3, <1>6, <1>7, <1>8, <1>9, <1>10
     DEF HostNext, hostVars, SupervisorStep, ColdStart, Waited, Pull, Build, Restore, Rollback,
         Systemd, Machine, Checkout, History, Kept, Push

(* Two daemons never have the store open at once, unless one was started   *)
(* while another was on its way to its pid file (singleton.ts).            *)
THEOREM StoreIsOne == HostSpec => []OneStore
<1>1. HostInit => StoreKept
  BY AbsentType DEF HostInit, ProcessInit, StoreKept, StoreInv, Settled, Booting, Alive, Absent
<1>2. StoreKept => OneStore
  BY DEF StoreKept, StoreInv, OneStore, HasStore, Settled, Booting, Alive
<1>. QED
  BY <1>1, <1>2, HostTyped, StoreStep, PTL DEF HostSpec

-----------------------------------------------------------------------------
(* A finished build.                                                       *)
LEMMA BuildStep ==
  ASSUME TypeOK, BuildInv, [HostNext]_hostVars
  PROVE  BuildInv'
<1>0. /\ sup \in Shells /\ head \in 0..MaxCommit /\ origin \in 0..MaxCommit /\ MaxCommit \in Nat
      /\ sup.at = "rollback" => sup.lastGood \in 0..MaxCommit
  BY CommitAssumption DEF TypeOK
<1>1. CASE ColdStart
  <2>1. CASE UNCHANGED sup
    BY <1>1, <2>1 DEF ColdStart, BuildInv, At
  <2>2. CASE dist' # Broken /\ dist' = IF head' \in Builds THEN head' ELSE Broken
    BY <2>2 DEF BuildInv
  <2>. QED  BY <1>1, <2>1, <2>2 DEF ColdStart
<1>2. CASE Launch
  <2>1. sup'.at = "wait" /\ sup.at = "launch"
    BY <1>0, <1>2 DEF Launch, At, Shells
  <2>. QED  BY <1>2, <2>1 DEF Launch, Checkout, BuildInv
<1>3. CASE Waited
  BY <1>3 DEF Waited, At, Checkout, History, BuildInv
<1>4. CASE Pull
  BY <1>0, <1>4 DEF Pull, Then, BuildInv, Shells
<1>5. CASE Build
  <2>1. PICK ok \in BOOLEAN : dist' = (IF ok THEN head ELSE Broken) /\ sup' = BuildGate(ok)
    BY <1>5 DEF Build
  <2>2. head # Broken /\ UNCHANGED head
    BY <1>0, <1>5 DEF Build, Broken
  <2>3. ~ok => sup'.at = "restore"
    BY <1>0, <2>1 DEF BuildGate, Shells
  <2>. QED  BY <2>1, <2>2, <2>3 DEF BuildInv
<1>6. CASE Restore
  BY <1>0, <1>6 DEF Restore, Then, BuildInv, Shells
<1>7. CASE Rollback
  BY <1>0, <1>7 DEF Rollback, At, BuildInv, Broken
<1>8. CASE Systemd \/ SupervisorDies
  BY <1>8 DEF Systemd, SupervisorDies, Shell, BuildInv
<1>9. CASE UNCHANGED <<sup, head, dist, hurt>>
  BY <1>9 DEF BuildInv
<1>10. CASE Stop \/ Manual \/ (Kept /\ (Push \/ SignalDrain))
  BY <1>9, <1>10 DEF Stop, Manual, Kept, Push, SignalDrain, Checkout, History
<1>11. ASSUME NEW p \in Pids, Kept, ProcessStep(p) PROVE BuildInv'
  BY <1>9, <1>11, ProcessTyped DEF Kept, History
<1>12. ASSUME NEW p \in Pids, Kept, Dies(p) \/ Throws(p) \/ WebDrain(p) PROVE BuildInv'
  BY <1>9, <1>12, OthersTyped DEF Kept, History, Checkout
<1>. QED
  BY <1>1, <1>2, <1>3, <1>4, <1>5, <1>6, <1>7, <1>8, <1>9, <1>10, <1>11, <1>12
     DEF HostNext, hostVars, SupervisorStep

(* What is launched is a finished build of the checkout's head, whatever   *)
(* failed before, except for a rollback (ralph-supervisor.sh).             *)
THEOREM LaunchesBuilt == HostSpec => []LaunchIsBuilt
<1>1. HostInit => BuildInv
  BY CommitAssumption DEF HostInit, ProcessInit, BuildInv, Broken
<1>2. BuildInv => LaunchIsBuilt
  BY DEF BuildInv, LaunchIsBuilt, At
<1>. QED
  BY <1>1, <1>2, HostTyped, BuildStep, PTL DEF HostSpec

-----------------------------------------------------------------------------
(* One try for each commit.  A process is on its way to the restart code   *)
(* only if it was before, or just saw the checkout behind.                 *)
Restarting(q) == proc[q].restart \/ proc[q].code = Restart

LEMMA MarkedBefore ==
  ASSUME TypeOK, NEW p \in Pids,
         ProcessStep(p) \/ Dies(p) \/ Throws(p) \/ WebDrain(p)
  PROVE  /\ \A q \in Pids : Restarting(q)' => Restarting(q) \/ Behind
         /\ quarantine = origin => quarantine' = origin
<1>0. proc \in [Pids -> Process] /\ proc[p] \in Process
  BY DEF TypeOK
<1>1. CASE Guard(p)
  <2>1. \A q \in Pids : /\ Signalled(q).code \in {proc[q].code, 143}
                        /\ Signalled(q).restart => proc[q].restart
    BY SignalledType
  <2>. QED  BY <1>0, <1>1, <2>1 DEF Guard, Move, Only, Process, Restarting, Restart, Checkout
<1>2. CASE Reaped(p) \/ OpenStore(p) \/ WritePid(p)
  <2>1. CASE Reaped(p)
    BY <1>0, <2>1 DEF Reaped, Only, Process, Restarting, Checkout
  <2>2. CASE OpenStore(p)
    BY <1>0, <2>2 DEF OpenStore, Move, Only, Process, Restarting, Checkout
  <2>3. CASE WritePid(p)
    BY <1>0, <2>3 DEF WritePid, Move, Only, Process, Restarting, Checkout
  <2>. QED  BY <1>2, <2>1, <2>2, <2>3
<1>3. ASSUME NEW q \in Pids, NEW code \in Nat
      PROVE  ~Exit(proc[q], code).restart /\ Exit(proc[q], code).code = code
  BY <1>0, ExitType
<1>4. CASE GraceOver(p)
  <2>1. CASE Only(p, Exit(proc[p], 1))
    BY <1>0, <1>3, <1>4, <2>1 DEF GraceOver, Only, Restarting, Restart, Checkout
  <2>2. CASE proc' = [proc EXCEPT ![proc[p].incumbent] = Exit(@, Killed),
                                  ![p].at = "open", ![p].incumbent = 0]
    <3>1. \A q \in Pids : ~Exit(proc[q], Killed).restart /\ Exit(proc[q], Killed).code = 137
      BY <1>3 DEF Killed
    <3>. QED  BY <1>0, <1>4, <2>2, <3>1 DEF GraceOver, Process, Restarting, Restart, Checkout
  <2>. QED  BY <1>4, <2>1, <2>2 DEF GraceOver
<1>5. CASE Startup(p) \/ Loop(p)
  <2>1. PICK at \in Awaits, code \in {1, proc[p].code} :
          Only(p, [proc[p] EXCEPT !.at = at, !.code = code])
    BY <1>5, FieldsKept DEF Startup, Loop, Move, Awaits
  <2>2. UNCHANGED quarantine
    BY <1>5 DEF Startup, Loop, Checkout
  <2>. QED  BY <1>0, <2>1, <2>2 DEF Only, Process, Restarting, Restart
<1>7. CASE Tick(p)
  <2>1. PICK checks \in BOOLEAN :
          /\ quarantine' = (IF checks /\ quarantine # origin THEN NoCommit ELSE quarantine)
          /\ Only(p, [proc[p] EXCEPT !.at = "loop", !.restart = checks /\ Behind])
    BY <1>7 DEF Tick
  <2>. QED  BY <1>0, <2>1 DEF Only, Process, Restarting
<1>8. CASE Drain(p)
  <2>1. PICK c \in BOOLEAN :
          Only(p, [proc[p] EXCEPT !.at = "close", !.code = ExitCode(proc[p], c)])
    BY <1>8 DEF Drain
  <2>. QED  BY <1>0, <1>8, <2>1 DEF Drain, Only, Process, Restarting, Restart, ExitCode, Checkout
<1>9. CASE CloseStore(p)
  BY <1>0, <1>9, AbsentType DEF CloseStore, Only, Process, Restarting, Checkout
<1>10. CASE Unlink(p)
  <2>1. proc[p].code \in Nat
    BY <1>0 DEF Process
  <2>. QED  BY <1>0, <1>3, <1>10, <2>1 DEF Unlink, Only, Restarting, Checkout
<1>11. CASE Dies(p)
  BY <1>0, <1>3, <1>11 DEF Dies, Only, Restarting, Restart, Killed, Checkout
<1>12. CASE Throws(p)
  BY <1>0, <1>12 DEF Throws, Only, Process, Restarting, Restart, Checkout
<1>13. CASE WebDrain(p)
  BY <1>0, <1>13 DEF WebDrain, Only, Process, Restarting, Restart, Checkout
<1>. QED
  BY <1>1, <1>2, <1>4, <1>5, <1>7, <1>8, <1>9, <1>10, <1>11, <1>12, <1>13
     DEF ProcessStep

(* What no process can disturb.                                            *)
LEMMA UpdateKeeps ==
  ASSUME TypeOK, UpdateInv, UNCHANGED <<tried, origin, head, sup>>,
         quarantine = origin => quarantine' = origin,
         sup.child \in Pids => (Restarting(sup.child)' => Restarting(sup.child) \/ Behind)
  PROVE  UpdateInv'
<1>1. TriedOnce'
  BY DEF UpdateInv, TriedOnce
<1>2. Behind => head < origin /\ tried[origin] = 0
  BY DEF Behind, UpdateInv, TriedOnce, TypeOK
<1>3. Pending' => head < origin /\ tried[origin] = 0
  BY <1>2 DEF Pending, Restarting, UpdateInv, TriedNext
<1>. QED
  BY <1>1, <1>3 DEF UpdateInv, TriedNext

(* A step of the shell.                                                    *)
LEMMA UpdateOfShell ==
  ASSUME TypeOK, UpdateInv, SupervisorStep
  PROVE  UpdateInv'
<1>0. /\ sup \in Shells /\ head \in 0..MaxCommit /\ origin \in 0..MaxCommit
      /\ MaxCommit \in Nat /\ sup.lastGood \in Nat /\ origin \in Nat /\ head \in Nat
      /\ tried \in [0..MaxCommit -> Nat] /\ tried[origin] \in Nat
  BY CommitAssumption DEF TypeOK, Shells
<1>1. CASE ColdStart
  <2>1. TriedOnce'
    BY <1>0, <1>1 DEF ColdStart, UpdateInv, TriedOnce
  <2>2. sup'.at \in {"start", "launch"} /\ ~sup'.probation
    BY <1>0, <1>1 DEF ColdStart, At, Shell, UpdateInv, TriedNext
  <2>. QED  BY <2>1, <2>2 DEF UpdateInv, TriedNext, Pending
<1>2. CASE Launch
  <2>1. TriedOnce' /\ UNCHANGED <<tried, origin, head, quarantine>>
    BY <1>2 DEF Launch, Checkout, UpdateInv, TriedOnce
  <2>2. /\ sup.at = "launch" /\ sup'.at = "wait" /\ sup'.child = NewPid
        /\ sup'.probation = sup.probation /\ sup'.probed = sup.probed
        /\ sup'.lastGood = sup.lastGood
    BY <1>0, <1>2 DEF Launch, At, Shells
  <2>3. proc'[NewPid] = Started
    BY <1>2, NewPidFree, OnlyOne DEF Launch, Starts
  <2>4. ~Pending'
    BY <2>2, <2>3, StartedType DEF Pending, Restart
  <2>5. NewPid \in Pids
    BY <1>2, NewPidFree DEF Launch
  <2>. QED  BY <2>1, <2>2, <2>4, <2>5 DEF UpdateInv, TriedNext
<1>3. CASE Waited
  <2>1. TriedOnce' /\ UNCHANGED <<tried, origin, head, quarantine>> /\ sup.at = "wait"
    BY <1>3 DEF Waited, At, Checkout, History, UpdateInv, TriedOnce
  <2>2. CASE /\ sup' = [sup EXCEPT !.at = "restore", !.child = 0, !.probation = FALSE,
                                   !.bad = sup.probed]
             /\ sup.probation
    <3>1. /\ sup'.at = "restore" /\ sup'.bad = sup.probed /\ sup'.lastGood = sup.lastGood
          /\ ~sup'.probation
      BY <1>0, <2>2 DEF Shells
    <3>. QED  BY <1>0, <2>1, <2>2, <3>1 DEF UpdateInv, TriedNext, Pending
  <2>3. CASE /\ sup' = [sup EXCEPT !.at = "pull", !.child = 0, !.probation = FALSE,
                                   !.lastGood = head]
             /\ ChildCode = Restart
    <3>1. sup'.at = "pull" /\ sup'.lastGood = head /\ ~sup'.probation
      BY <1>0, <2>3 DEF Shells
    <3>2. sup.child \in Pids
      BY <2>1 DEF UpdateInv, TriedNext
    <3>. QED  BY <2>1, <2>3, <3>1, <3>2 DEF UpdateInv, TriedNext, Pending, ChildCode
  <2>4. CASE \/ sup' = [sup EXCEPT !.at = "exited", !.child = 0, !.probation = FALSE]
             \/ sup' = [sup EXCEPT !.at = "launch", !.child = 0, !.probation = FALSE]
    <3>1. sup'.at \in {"exited", "launch"} /\ ~sup'.probation
      BY <1>0, <2>4 DEF Shells
    <3>. QED  BY <2>1, <3>1 DEF UpdateInv, TriedNext, Pending
  <2>. QED  BY <1>3, <2>2, <2>3, <2>4, WaitedTo
<1>4. CASE Pull
  <2>1. sup.at = "pull" /\ sup.lastGood = head /\ head < origin /\ tried[origin] = 0 /\ ~sup.probation
    BY <1>4 DEF Pull, At, UpdateInv, TriedNext
  <2>2. CASE head' = origin /\ tried' = [tried EXCEPT ![origin] = @ + 1] /\ Then("build")
    <3>1. sup'.at = "build" /\ sup'.lastGood = sup.lastGood /\ ~sup'.probation
      BY <1>0, <2>1, <2>2 DEF Then, Shells
    <3>2. TriedOnce'
      BY <1>0, <1>4, <2>1, <2>2 DEF Pull, UpdateInv, TriedOnce
    <3>. QED  BY <1>4, <2>1, <2>2, <3>1, <3>2 DEF Pull, UpdateInv, TriedNext, Pending
  <2>3. CASE sup' = [sup EXCEPT !.at = "restore", !.bad = head] /\ UNCHANGED <<head, tried>>
    <3>1. sup'.at = "restore" /\ ~sup'.probation
      BY <1>0, <2>1, <2>3 DEF Shells
    <3>2. TriedOnce' /\ tried'[origin'] = 0
      BY <1>4, <2>1, <2>3 DEF Pull, UpdateInv, TriedOnce
    <3>. QED  BY <3>1, <3>2 DEF UpdateInv, TriedNext, Pending
  <2>. QED  BY <1>4, <2>2, <2>3 DEF Pull
<1>5. CASE Build
  <2>1. /\ TriedOnce' /\ UNCHANGED <<tried, origin, head, quarantine>>
        /\ sup.at = "build" /\ sup.lastGood < head /\ (tried[origin] # 0 => head = origin)
        /\ ~sup.probation
    BY <1>5 DEF Build, At, History, UpdateInv, TriedOnce, TriedNext
  <2>2. CASE sup' = [sup EXCEPT !.at = "launch", !.probation = TRUE, !.probed = head]
    <3>1. sup'.at = "launch" /\ sup'.probed = head /\ sup'.lastGood = sup.lastGood
      BY <1>0, <2>2 DEF Shells
    <3>. QED  BY <2>1, <3>1 DEF UpdateInv, TriedNext, Pending
  <2>3. CASE sup' = [sup EXCEPT !.at = "restore", !.bad = head]
    <3>1. sup'.at = "restore" /\ sup'.bad = head /\ sup'.lastGood = sup.lastGood /\ ~sup'.probation
      BY <1>0, <2>1, <2>3 DEF Shells
    <3>. QED  BY <1>0, <2>1, <3>1 DEF UpdateInv, TriedNext, Pending
  <2>. QED  BY <1>5, <2>2, <2>3 DEF Build, BuildGate
<1>6. CASE Restore
  <2>1. /\ UNCHANGED <<tried, origin, head>> /\ sup.at = "restore" /\ ~sup.probation
        /\ quarantine' = IF sup.bad = sup.lastGood THEN quarantine ELSE sup.bad
    BY <1>6 DEF Restore, At, History, UpdateInv, TriedNext
  <2>2. sup'.at = "rollback" /\ ~sup'.probation
    BY <1>0, <1>6, <2>1 DEF Restore, Then, Shells
  <2>3. tried[origin] # 0 => quarantine' = origin
    BY <2>1 DEF UpdateInv, TriedNext
  <2>4. TriedOnce'
    BY <2>1, <2>3 DEF UpdateInv, TriedOnce
  <2>. QED  BY <2>1, <2>2, <2>3, <2>4 DEF UpdateInv, TriedNext, Pending
<1>7. CASE Rollback
  <2>1. /\ UNCHANGED <<tried, origin, quarantine>> /\ sup.at = "rollback" /\ ~sup.probation
        /\ tried[origin] # 0 => quarantine = origin
    BY <1>7 DEF Rollback, At, UpdateInv, TriedNext
  <2>2. sup'.at = "launch" /\ ~sup'.probation
    BY <1>0, <1>7, <2>1 DEF Rollback, Then, Shells
  <2>3. TriedOnce'
    BY <2>1 DEF UpdateInv, TriedOnce
  <2>. QED  BY <2>1, <2>2, <2>3 DEF UpdateInv, TriedNext, Pending
<1>8. CASE Systemd
  <2>1. sup'.at = "start" /\ ~sup'.probation
    BY <1>8 DEF Systemd, Shell
  <2>2. TriedOnce'
    BY <1>8 DEF Systemd, Checkout, History, UpdateInv, TriedOnce
  <2>. QED  BY <2>1, <2>2 DEF UpdateInv, TriedNext, Pending
<1>. QED
  BY <1>1, <1>2, <1>3, <1>4, <1>5, <1>6, <1>7, <1>8 DEF SupervisorStep

LEMMA UpdateStep ==
  ASSUME TypeOK, UpdateInv, [HostNext]_hostVars
  PROVE  UpdateInv'
<1>0. proc \in [Pids -> Process] /\ sup \in Shells
  BY DEF TypeOK
<1>1. CASE SupervisorStep
  BY <1>1, UpdateOfShell
<1>2. ASSUME NEW p \in Pids, Only(p, Signalled(p)), UNCHANGED <<tried, origin, head, sup, quarantine>>
      PROVE  UpdateInv'
  <2>1. \A q \in Pids : Restarting(q)' => Restarting(q)
    BY <1>0, <1>2, SignalledType DEF Only, Restarting, Restart
  <2>. QED  BY <1>2, <2>1, UpdateKeeps
<1>3. CASE UNCHANGED <<proc, tried, origin, head, sup, quarantine>>
  BY <1>3, UpdateKeeps DEF Restarting
<1>4. CASE Stop
  <2>1. CASE sup.at = "wait" /\ Alive(sup.child)
    <3>1. sup.child \in Pids \cup {0} /\ Only(sup.child, Signalled(sup.child))
      BY <1>0, <1>4, <2>1 DEF Stop, At, Shells
    <3>2. CASE sup.child = 0
      BY <1>0, <1>3, <1>4, <3>1, <3>2, PidAssumption DEF Stop, Only, Checkout, History
    <3>. QED  BY <1>2, <1>4, <3>1, <3>2 DEF Stop, Checkout, History
  <2>2. CASE ~(sup.at = "wait" /\ Alive(sup.child))
    BY <1>3, <1>4, <2>2 DEF Stop, At, Checkout, History
  <2>. QED  BY <2>1, <2>2
<1>5. CASE SupervisorDies
  <2>1. sup'.at = "start" /\ ~sup'.probation
    BY <1>5 DEF SupervisorDies, Shell
  <2>2. TriedOnce'
    BY <1>5 DEF SupervisorDies, Checkout, UpdateInv, TriedOnce
  <2>. QED  BY <2>1, <2>2 DEF UpdateInv, TriedNext, Pending
<1>6. CASE Manual
  <2>1. \A q \in Pids : Restarting(q)' => Restarting(q)
    BY <1>6, NewPidFree, OnlyOne, StartedType DEF Manual, Starts, Restarting, Restart
  <2>. QED  BY <1>6, <2>1, UpdateKeeps DEF Manual, Checkout
<1>7. CASE Kept /\ Push
  <2>1. /\ origin \in Nat /\ origin < MaxCommit /\ origin' = origin + 1
        /\ UNCHANGED <<proc, head, quarantine, sup, tried>>
        /\ head \in Nat /\ sup.lastGood \in Nat /\ MaxCommit \in Nat
    BY <1>7, CommitAssumption DEF Kept, Push, History, TypeOK, Shells
  <2>2. origin' \in 0..MaxCommit /\ tried[origin'] = 0
    BY <2>1 DEF UpdateInv, TriedOnce
  <2>3. TriedOnce'
    BY <2>1, <2>2 DEF UpdateInv, TriedOnce
  <2>4. Pending' => Pending
    BY <2>1 DEF Pending
  <2>. QED  BY <2>1, <2>2, <2>3, <2>4 DEF UpdateInv, TriedNext
<1>8. CASE Kept /\ SignalDrain
  <2>1. CASE Alive(pidFile)
    BY <1>2, <1>8, <2>1 DEF Kept, SignalDrain, Checkout, History, TypeOK
  <2>2. CASE ~Alive(pidFile)
    BY <1>3, <1>8, <2>2 DEF Kept, SignalDrain, Checkout, History
  <2>. QED  BY <2>1, <2>2
<1>9. ASSUME NEW p \in Pids, Kept, ProcessStep(p) \/ Dies(p) \/ Throws(p) \/ WebDrain(p)
      PROVE  UpdateInv'
  <2>1. UNCHANGED <<tried, origin, head, sup>>
    BY <1>9, ProcessTyped, OthersTyped DEF Kept, History, Checkout
  <2>. QED  BY <1>9, <2>1, MarkedBefore, UpdateKeeps
<1>10. CASE UNCHANGED hostVars
  BY <1>3, <1>10 DEF hostVars
<1>. QED
  BY <1>1, <1>4, <1>5, <1>6, <1>7, <1>8, <1>9, <1>10 DEF HostNext

(* One bad commit costs one update: the supervisor never adopts a commit   *)
(* twice (self-update.ts, ralph-supervisor.sh).                            *)
THEOREM NeverThrashes == HostSpec => []NoThrash
<1>1. HostInit => UpdateInv
  BY CommitAssumption
     DEF HostInit, ProcessInit, UpdateInv, TriedOnce, TriedNext, Pending, Shell
<1>2. UpdateInv => NoThrash
  BY DEF UpdateInv, TriedOnce, NoThrash
<1>. QED
  BY <1>1, <1>2, HostTyped, UpdateStep, PTL DEF HostSpec

(* The host, altogether.                                                   *)
THEOREM HostIsSafe == HostSpec => []HostHolds
<1>1. OneStore /\ LaunchIsBuilt /\ NoThrash => HostHolds
  BY DEF HostHolds
<1>. QED
  BY <1>1, StoreIsOne, LaunchesBuilt, NeverThrashes, PTL

-----------------------------------------------------------------------------
(* The store that one daemon has open.                                     *)

Streams == Issues \cup Transcripts
Events == [pos : Nat, stream : Streams, kind : {"message", "pruned"}, by : Appenders]
Images == [log : SUBSET Events, fold : [Issues -> Nat], next : Nat]
Open == {w \in Appenders : writer[w] \in Inside}

LogTypes ==
  /\ db \in Images /\ disk \in Images /\ nesting \in Nat /\ mixed \in BOOLEAN
  /\ writer \in [Appenders -> {"wants", "insert", "fold", "end", "publish", "done", "failed"}]
  /\ pruning \in [at : {"idle", "next", "marker", "delete"}, plans : SUBSET Transcripts,
                  cur : Transcripts \cup {"none"}, passes : Nat]

(***************************************************************************)
(* The connection has one transaction: it is open while some append is     *)
(* inside, and what is on disk is what the connection has when it is not.  *)
(***************************************************************************)
NestingOK ==
  /\ IsFiniteSet(Open) /\ nesting = Cardinality(Open)
  /\ nesting = 0 => disk = db

(* Whose events an image holds: nobody's before the insertion, each on the *)
(* stream of its append, below the next position.                          *)
ImageOK(image) ==
  /\ IsFiniteSet(image.log)
  /\ \A e \in image.log :
       /\ e.pos < image.next
       /\ e.by = Pruner => e.stream \in Transcripts /\ e.kind = "pruned"
       /\ e.by # Pruner => e.stream = Stream[e.by] /\ e.kind = "message"
                           /\ writer[e.by] \notin {"wants", "insert"}

(* The pruner appends while its pass waits for the marker, else it rests.  *)
PrunerOK ==
  /\ pruning.at = "marker" => writer[Pruner] \in Inside \cup {"wants", "publish"}
  /\ pruning.at # "marker" => writer[Pruner] \in {"done", "failed"}
  /\ pruning.at \in {"marker", "delete"} => pruning.cur \in Transcripts

(* A fold is behind its stream by the appends that are inserted and not    *)
(* yet folded.                                                             *)
Folded(s) == {e \in On(db, s) : writer[e.by] # "fold"}
Inserted(w) == {e \in db.log : e.by = w}
FoldOK ==
  /\ \A w \in Writers : writer[w] = "fold" /\ Stream[w] \in Issues => Cardinality(Inserted(w)) = Size[w]
  /\ ~mixed => \A s \in Issues : db.fold[s] = Cardinality(Folded(s)) /\ disk.fold[s] = Cardinality(On(disk, s))

(* What an append inserted is there, or a marker of its stream that is not *)
(* in an append under way; and what is deleted has been marked.            *)
Marking(e) == writer[Pruner] \in {"fold", "end"} => e \notin Own(Pruner)
Marker(s) == {e \in db.log : e.stream = s /\ e.kind = "pruned"}
KeptOK ==
  ~mixed =>
    /\ \A w \in Writers : writer[w] \in {"fold", "end", "publish", "done"} =>
         Holds(db, w) \/ \E e \in Marker(Stream[w]) : Marking(e)
    /\ pruning.at = "delete" \/ (pruning.at = "marker" /\ writer[Pruner] \in {"fold", "end", "publish"}) =>
         Marker(pruning.cur) # {}

LogInv == LogTypes /\ NestingOK /\ ImageOK(db) /\ ImageOK(disk) /\ PrunerOK /\ FoldOK /\ KeptOK

-----------------------------------------------------------------------------
(* The one transaction and the appends inside it.                          *)

LEMMA Names ==
  /\ Pruner \notin Writers /\ Pruner \in Appenders /\ Issues \cap Transcripts = {}
  /\ \A w \in Writers : /\ w # Pruner /\ w \in Appenders /\ Stream[w] \in Streams
                        /\ Size[w] \in Nat /\ Size[w] >= 1
                        /\ StreamOf(w) = Stream[w] /\ SizeOf(w) = Size[w] /\ KindOf(w) = "message"
  /\ StreamOf(Pruner) = pruning.cur /\ SizeOf(Pruner) = 1 /\ KindOf(Pruner) = "pruned"
  /\ \A w \in Appenders : w = Pruner \/ w \in Writers
<1>1. "pruner" \notin Writers /\ Issues \cap Transcripts = {}
      /\ Stream \in [Writers -> Issues \cup Transcripts] /\ Size \in [Writers -> Nat \ {0}]
  BY StreamsAssumption
<1>2. \A w \in Writers : Size[w] \in Nat /\ Size[w] >= 1
  BY <1>1
<1>. QED  BY <1>1, <1>2 DEF Pruner, Appenders, Streams, StreamOf, SizeOf, KindOf

(* An append moves on: the others stay where they are.                     *)
LEMMA MovesTo ==
  ASSUME LogTypes, NEW w \in Appenders, NEW at, writer' = [writer EXCEPT ![w] = at]
  PROVE  /\ writer'[w] = at /\ \A v \in Appenders \ {w} : writer'[v] = writer[v]
         /\ at \in Inside => Open' = Open \cup {w}
         /\ at \notin Inside => Open' = Open \ {w}
BY DEF LogTypes, Open

LEMMA Enters ==
  ASSUME NestingOK, NEW w, w \notin Open, Open' = Open \cup {w}, nesting' = nesting + 1
  PROVE  IsFiniteSet(Open') /\ nesting' = Cardinality(Open') /\ nesting' # 0
<1>1. IsFiniteSet(Open) /\ nesting = Cardinality(Open) /\ Cardinality(Open) \in Nat
  BY FS_CardinalityType DEF NestingOK
<1>2. IsFiniteSet(Open \cup {w}) /\ Cardinality(Open \cup {w}) = Cardinality(Open) + 1
  BY <1>1, FS_AddElement
<1>. QED  BY <1>1, <1>2

LEMMA Exits ==
  ASSUME NestingOK, NEW w \in Open, Open' = Open \ {w}, nesting' = nesting - 1
  PROVE  /\ IsFiniteSet(Open') /\ nesting' = Cardinality(Open') /\ nesting' \in Nat
         /\ nesting' = 0 <=> Outermost
         /\ Outermost => Open = {w}
<1>1. IsFiniteSet(Open) /\ nesting = Cardinality(Open) /\ Cardinality(Open) \in Nat
  BY FS_CardinalityType DEF NestingOK
<1>2. IsFiniteSet(Open \ {w}) /\ Cardinality(Open \ {w}) = Cardinality(Open) - 1
  BY <1>1, FS_RemoveElement
<1>3. Cardinality(Open \ {w}) \in Nat
  BY <1>2, FS_CardinalityType
<1>4. nesting = 1 => Open = {w}
  <2>1. nesting = 1 => Open \ {w} = {}
    BY <1>1, <1>2, FS_EmptySet
  <2>. QED  BY <2>1
<1>. QED  BY <1>1, <1>2, <1>3, <1>4 DEF Outermost

LEMMA NobodyOpen == ASSUME NestingOK, nesting = 0 PROVE Open = {} /\ disk = db
BY FS_EmptySet DEF NestingOK

LEMMA OwnSame ==
  ASSUME db'.log = db.log, writer'[Pruner] = writer[Pruner] \/ {writer[Pruner], writer'[Pruner]} \subseteq {"fold", "end"}
  PROVE  Own(Pruner)' = Own(Pruner) /\ \A e : Marking(e)' <=> Marking(e)
BY DEF Own, Marking

(* Tails and the plans of retention touch no image and no append.          *)
LEMMA ReadersKeep ==
  ASSUME LogInv, UNCHANGED <<db, disk, nesting, writer, mixed, pruning>>
  PROVE  LogInv'
<1>0. LogTypes /\ NestingOK /\ ImageOK(db) /\ ImageOK(disk) /\ PrunerOK /\ FoldOK /\ KeptOK
  BY DEF LogInv
<1>1. LogTypes'
  BY <1>0 DEF LogTypes
<1>2. NestingOK'
  BY <1>0 DEF NestingOK, Open
<1>3. ImageOK(db)' /\ ImageOK(disk)'
  BY <1>0 DEF ImageOK
<1>4. PrunerOK'
  BY <1>0 DEF PrunerOK
<1>5. FoldOK'
  BY <1>0 DEF FoldOK, Folded, On, Inserted
<1>6. KeptOK'
  BY <1>0 DEF KeptOK, Holds, Marker, Marking, Own
<1>. QED  BY <1>1, <1>2, <1>3, <1>4, <1>5, <1>6 DEF LogInv

LEMMA BeginKeeps == ASSUME LogInv, NEW w \in Appenders, Begin(w) PROVE LogInv'
<1>0. LogTypes /\ NestingOK /\ ImageOK(db) /\ ImageOK(disk) /\ PrunerOK /\ FoldOK /\ KeptOK
  BY DEF LogInv
<1>1. /\ writer[w] = "wants" /\ writer' = [writer EXCEPT ![w] = "insert"] /\ nesting' = nesting + 1
      /\ UNCHANGED <<db, disk, tail, pruning, mixed>>
  BY DEF Begin
<1>2. /\ writer'[w] = "insert" /\ (\A v \in Appenders \ {w} : writer'[v] = writer[v])
      /\ Open' = Open \cup {w} /\ w \notin Open
  BY <1>0, <1>1, MovesTo DEF Inside, Open
<1>3. LogTypes'
  BY <1>0, <1>1 DEF LogTypes
<1>4. NestingOK'
  BY <1>0, <1>1, <1>2, Enters DEF NestingOK
<1>5. ImageOK(db)' /\ ImageOK(disk)'
  BY <1>0, <1>1, <1>2 DEF ImageOK, LogTypes, Images, Events
<1>6. PrunerOK'
  BY <1>0, <1>1, <1>2, Names DEF PrunerOK, Inside
<1>7. \A v \in Appenders : (writer'[v] = "fold" <=> writer[v] = "fold")
                           /\ (writer'[v] \in {"fold", "end", "publish", "done"} <=>
                               writer[v] \in {"fold", "end", "publish", "done"})
  BY <1>1, <1>2
<1>8. FoldOK'
  <2>1. \A s \in Issues : Folded(s)' = Folded(s)
    BY <1>0, <1>1, <1>7 DEF Folded, On, LogTypes, Images, Events
  <2>2. \A v \in Writers : Inserted(v)' = Inserted(v)
    BY <1>1 DEF Inserted
  <2>. QED  BY <1>0, <1>1, <1>7, <2>1, <2>2, Names DEF FoldOK, On
<1>9. KeptOK'
  <2>1. \A e : Marking(e) => Marking(e)'
    BY <1>1, <1>2, OwnSame, Names DEF Marking
  <2>2. \A s : Marker(s)' = Marker(s)
    BY <1>1 DEF Marker
  <2>3. \A v \in Writers : Holds(db, v)' <=> Holds(db, v)
    BY <1>1 DEF Holds
  <2>4. writer'[Pruner] \in {"fold", "end", "publish"} <=> writer[Pruner] \in {"fold", "end", "publish"}
    BY <1>1, <1>2, Names
  <2>. QED  BY <1>0, <1>1, <1>7, <2>1, <2>2, <2>3, <2>4, Names DEF KeptOK
<1>. QED  BY <1>3, <1>4, <1>5, <1>6, <1>8, <1>9 DEF LogInv

-----------------------------------------------------------------------------
(* What an append inserts.                                                 *)

New(w) == {[pos |-> db.next + i - 1, stream |-> StreamOf(w), kind |-> KindOf(w), by |-> w] : i \in 1..SizeOf(w)}

LEMMA NewIs ==
  ASSUME LogTypes, PrunerOK, NEW w \in Appenders, writer[w] = "insert"
  PROVE  /\ SizeOf(w) \in Nat /\ SizeOf(w) >= 1 /\ StreamOf(w) \in Streams
         /\ New(w) \subseteq Events /\ New(w) # {}
         /\ \A e \in New(w) : /\ e.by = w /\ e.stream = StreamOf(w) /\ e.kind = KindOf(w)
                              /\ db.next <= e.pos /\ e.pos < db.next + SizeOf(w)
         /\ IsFiniteSet(New(w)) /\ Cardinality(New(w)) = SizeOf(w)
<1>1. SizeOf(w) \in Nat /\ SizeOf(w) >= 1 /\ StreamOf(w) \in Streams /\ db.next \in Nat
      /\ KindOf(w) \in {"message", "pruned"}
  <2>1. CASE w = Pruner
    BY <2>1, Names DEF PrunerOK, Streams, LogTypes, Images
  <2>2. CASE w \in Writers
    BY <2>2, Names DEF LogTypes, Images
  <2>. QED  BY <2>1, <2>2, Names
<1> DEFINE n == SizeOf(w)
           Rec(i) == [pos |-> db.next + i - 1, stream |-> StreamOf(w), kind |-> KindOf(w), by |-> w]
           f == [i \in 1..n |-> Rec(i)]
<1>2. \A i \in 1..n : /\ Rec(i) \in Events /\ Rec(i).by = w /\ Rec(i).stream = StreamOf(w)
                      /\ Rec(i).kind = KindOf(w) /\ Rec(i).pos = db.next + i - 1
                      /\ db.next <= Rec(i).pos /\ Rec(i).pos < db.next + n
  BY <1>1 DEF Events
<1>3. New(w) = {Rec(i) : i \in 1..n}
  BY DEF New
<1>4. \A i, j \in 1..n : Rec(i) = Rec(j) => i = j
  <2> SUFFICES ASSUME NEW i \in 1..n, NEW j \in 1..n, Rec(i) = Rec(j) PROVE i = j
    OBVIOUS
  <2>1. db.next + i - 1 = db.next + j - 1
    OBVIOUS
  <2>. QED  BY <1>1, <2>1
<1> HIDE DEF Rec
<1>5. f \in Bijection(1..n, New(w))
  BY <1>3, <1>4 DEF Bijection, Injection, Surjection, IsInjective
<1>6. IsFiniteSet(1..n) /\ Cardinality(1..n) = n
  BY <1>1, FS_Interval
<1>7. IsFiniteSet(New(w)) /\ Cardinality(New(w)) = n
  BY <1>5, <1>6, FS_Bijection DEF ExistsBijection
<1>8. Rec(1) \in New(w)
  BY <1>1, <1>3
<1>. QED  BY <1>1, <1>2, <1>3, <1>7, <1>8

LEMMA InsertKeeps == ASSUME LogInv, NEW w \in Appenders, Insert(w) PROVE LogInv'
<1>0. LogTypes /\ NestingOK /\ ImageOK(db) /\ ImageOK(disk) /\ PrunerOK /\ FoldOK /\ KeptOK
  BY DEF LogInv
<1>1. /\ writer[w] = "insert" /\ writer' = [writer EXCEPT ![w] = "fold"]
      /\ UNCHANGED <<disk, nesting, tail, pruning, mixed>>
  BY DEF Insert
<1>2. db'.log = db.log \cup New(w) /\ db'.fold = db.fold /\ db'.next = db.next + SizeOf(w) /\ db' \in Images
  <2>1. db' = [db EXCEPT !.log = @ \cup New(w), !.next = @ + SizeOf(w)]
    BY DEF Insert, New
  <2>2. New(w) \subseteq Events /\ SizeOf(w) \in Nat
    BY <1>0, <1>1, NewIs
  <2>3. db.log \cup New(w) \subseteq Events /\ db.next + SizeOf(w) \in Nat /\ db \in Images
    BY <1>0, <2>2 DEF LogTypes, Images
  <2>. QED  BY <2>1, <2>3 DEF Images
<1>3. /\ writer'[w] = "fold" /\ (\A v \in Appenders \ {w} : writer'[v] = writer[v])
      /\ Open' = Open \cup {w} /\ w \in Open
  BY <1>0, <1>1, MovesTo DEF Inside, Open
<1>4. /\ SizeOf(w) \in Nat /\ SizeOf(w) >= 1 /\ New(w) # {} /\ IsFiniteSet(New(w)) /\ Cardinality(New(w)) = SizeOf(w)
      /\ \A e \in New(w) : /\ e.by = w /\ e.stream = StreamOf(w) /\ e.kind = KindOf(w) /\ e.pos \in Nat
                           /\ db.next <= e.pos /\ e.pos < db.next + SizeOf(w)
  BY <1>0, <1>1, NewIs DEF Events
<1>5. LogTypes'
  BY <1>0, <1>1, <1>2 DEF LogTypes
<1>6. NestingOK'
  <2>1. Open' = Open /\ nesting # 0
    BY <1>0, <1>3, NobodyOpen
  <2>. QED  BY <1>0, <1>1, <2>1 DEF NestingOK
<1>7. \A v \in Writers : writer'[v] \in {"wants", "insert"} => writer[v] \in {"wants", "insert"} /\ v # w
  BY <1>1, <1>3, Names
<1>8. ImageOK(disk)'
  BY <1>0, <1>1, <1>7, Names DEF ImageOK, LogTypes, Images, Events
<1>9. ImageOK(db)'
  <2>1. IsFiniteSet(db'.log)
    <3>1. IsFiniteSet(db.log)
      BY <1>0 DEF ImageOK
    <3>2. IsFiniteSet(db.log \cup New(w))
      BY <1>4, <3>1, FS_Union
    <3>. QED  BY <1>2, <3>2
  <2>2. ASSUME NEW e \in db.log
        PROVE  /\ e.pos < db'.next
               /\ e.by = Pruner => e.stream \in Transcripts /\ e.kind = "pruned"
               /\ e.by # Pruner => e.stream = Stream[e.by] /\ e.kind = "message"
                                   /\ writer'[e.by] \notin {"wants", "insert"}
    BY <1>0, <1>2, <1>4, <1>7, Names DEF ImageOK, LogTypes, Images, Events
  <2>3. ASSUME NEW e \in New(w)
        PROVE  /\ e.pos < db'.next
               /\ e.by = Pruner => e.stream \in Transcripts /\ e.kind = "pruned"
               /\ e.by # Pruner => e.stream = Stream[e.by] /\ e.kind = "message"
                                   /\ writer'[e.by] \notin {"wants", "insert"}
    BY <1>0, <1>1, <1>2, <1>3, <1>4, Names DEF PrunerOK
  <2>. QED  BY <1>2, <2>1, <2>2, <2>3 DEF ImageOK
<1>10. PrunerOK'
  BY <1>0, <1>1, <1>3, Names DEF PrunerOK, Inside
<1>11. w \in Writers => \A e \in db.log : e.by # w
  BY <1>0, <1>1, Names DEF ImageOK
<1>12. \A v \in Appenders \ {w} : Inserted(v)' = Inserted(v)
  BY <1>2, <1>4 DEF Inserted
<1>13. FoldOK'
  <2>1. \A s \in Issues : Folded(s)' = Folded(s)
    <3> SUFFICES ASSUME NEW s \in Issues PROVE Folded(s)' = Folded(s)
      OBVIOUS
    <3>1. ASSUME NEW e \in New(w), e.stream = s PROVE writer'[e.by] = "fold"
      BY <1>3, <1>4, <3>1
    <3>2. ASSUME NEW e \in db.log, e.stream = s PROVE writer'[e.by] = writer[e.by]
      BY <1>0, <1>3, <1>11, <3>2, Names DEF ImageOK, LogTypes, Images, Events
    <3>. QED  BY <1>2, <3>1, <3>2 DEF Folded, On
  <2>2. w \in Writers => Inserted(w)' = New(w)
    BY <1>2, <1>4, <1>11 DEF Inserted
  <2>3. ASSUME NEW v \in Writers, writer'[v] = "fold", Stream[v] \in Issues PROVE Cardinality(Inserted(v)') = Size[v]
    BY <1>0, <1>3, <1>4, <1>12, <2>2, <2>3, Names DEF FoldOK
  <2>4. \A s : On(disk, s)' = On(disk, s)
    BY <1>1 DEF On
  <2>. QED  BY <1>0, <1>1, <1>2, <2>1, <2>3, <2>4 DEF FoldOK
<1>14. KeptOK'
  <2>1. \A e \in db.log : Marking(e) => Marking(e)'
    <3>1. CASE w = Pruner
      <4>1. PICK d \in New(w) : TRUE
        BY <1>4
      <4>2. \A e \in db.log : ~(d.pos <= e.pos)
        BY <1>0, <1>4, <4>1 DEF ImageOK, LogTypes, Images, Events
      <4>. QED  BY <1>2, <1>4, <3>1, <4>1, <4>2 DEF Marking, Own
    <3>2. CASE w # Pruner
      <4>1. Own(Pruner)' = Own(Pruner)
        BY <1>2, <1>3, <1>4, <3>2, Names DEF Own
      <4>. QED  BY <1>3, <3>2, <4>1, Names DEF Marking
    <3>. QED  BY <3>1, <3>2
  <2>2. \A s : Marker(s) \subseteq Marker(s)' /\ Marker(s) \subseteq db.log
    BY <1>2 DEF Marker
  <2>3. \A v \in Writers : Holds(db, v) => Holds(db, v)'
    BY <1>2 DEF Holds
  <2>4. w \in Writers => Holds(db, w)'
    BY <1>2, <1>4 DEF Holds
  <2>5. w = Pruner => Marker(pruning.cur)' # {}
    <3>1. PICK e \in New(w) : TRUE
      BY <1>4
    <3>2. w = Pruner => e \in db'.log /\ e.stream = pruning'.cur /\ e.kind = "pruned"
      BY <1>1, <1>2, <1>4, Names
    <3>. QED  BY <3>2 DEF Marker
  <2>6. ~mixed => \A v \in Writers : writer'[v] \in {"fold", "end", "publish", "done"} =>
                    Holds(db, v)' \/ \E e \in Marker(Stream[v])' : Marking(e)'
    BY <1>0, <1>3, <2>1, <2>2, <2>3, <2>4, Names DEF KeptOK
  <2>7. ~mixed /\ (pruning.at = "delete" \/ (pruning.at = "marker" /\ writer'[Pruner] \in {"fold", "end", "publish"}))
          => Marker(pruning.cur)' # {}
    <3>1. Marker(pruning.cur) \subseteq Marker(pruning.cur)'
      BY <1>1, <1>2 DEF Marker
    <3>2. w # Pruner => writer'[Pruner] = writer[Pruner]
      BY <1>3, Names
    <3>3. w = Pruner => writer[Pruner] = "insert" /\ pruning.at # "delete"
      BY <1>0, <1>1, Names DEF PrunerOK
    <3>. QED  BY <1>0, <2>5, <3>1, <3>2, <3>3 DEF KeptOK
  <2>. QED  BY <1>1, <2>6, <2>7 DEF KeptOK
<1>. QED  BY <1>5, <1>6, <1>8, <1>9, <1>10, <1>13, <1>14 DEF LogInv

LEMMA FoldKeeps == ASSUME LogInv, NEW w \in Appenders, Fold(w) PROVE LogInv'
<1>0. LogTypes /\ NestingOK /\ ImageOK(db) /\ ImageOK(disk) /\ PrunerOK /\ FoldOK /\ KeptOK
  BY DEF LogInv
<1>1. /\ writer[w] = "fold" /\ writer' = [writer EXCEPT ![w] = "end"]
      /\ UNCHANGED <<disk, nesting, tail, pruning, mixed>>
  BY DEF Fold
<1>2. /\ db'.log = db.log /\ db'.next = db.next /\ db' \in Images
      /\ \A s \in Issues : db'.fold[s] = IF w \in Writers /\ Stream[w] = s THEN db.fold[s] + Size[w] ELSE db.fold[s]
  <2>1. CASE StreamOf(w) \in Issues
    <3>1. w \in Writers /\ Stream[w] = StreamOf(w) /\ SizeOf(w) = Size[w] /\ Size[w] \in Nat
      BY <1>0, <1>1, <2>1, Names DEF PrunerOK, LogTypes, Streams, Inside
    <3>2. db' = [db EXCEPT !.fold[StreamOf(w)] = @ + Size[w]]
      BY <2>1, <3>1 DEF Fold, FoldOnto
    <3>. QED  BY <1>0, <2>1, <3>1, <3>2 DEF LogTypes, Images
  <2>2. CASE StreamOf(w) \notin Issues
    <3>1. db' = db /\ (w \in Writers => Stream[w] \notin Issues)
      BY <2>2, Names DEF Fold
    <3>. QED  BY <1>0, <3>1 DEF LogTypes, Images
  <2>. QED  BY <2>1, <2>2
<1>3. /\ writer'[w] = "end" /\ (\A v \in Appenders \ {w} : writer'[v] = writer[v])
      /\ Open' = Open \cup {w} /\ w \in Open
  BY <1>0, <1>1, MovesTo DEF Inside, Open
<1>4. LogTypes'
  BY <1>0, <1>1, <1>2 DEF LogTypes
<1>5. NestingOK'
  <2>1. Open' = Open /\ nesting # 0
    BY <1>0, <1>3, NobodyOpen
  <2>. QED  BY <1>0, <1>1, <2>1 DEF NestingOK
<1>6. ImageOK(db)' /\ ImageOK(disk)'
  BY <1>0, <1>1, <1>2, <1>3, Names DEF ImageOK, LogTypes, Images, Events
<1>7. PrunerOK'
  BY <1>0, <1>1, <1>3, Names DEF PrunerOK, Inside
<1>8. \A v : Inserted(v)' = Inserted(v)
  BY <1>2 DEF Inserted
<1>9. FoldOK'
  <2>1. ASSUME NEW s \in Issues, ~(w \in Writers /\ Stream[w] = s) PROVE Folded(s)' = Folded(s)
    <3>1. \A e \in On(db, s) : e.by \in Appenders /\ e.by # w
      BY <1>0, <2>1, Names DEF ImageOK, On, LogTypes, Images, Events
    <3>. QED  BY <1>2, <1>3, <3>1 DEF Folded, On
  <2>2. ASSUME NEW s \in Issues, w \in Writers, Stream[w] = s
        PROVE  /\ Folded(s)' = Folded(s) \cup Inserted(w) /\ Folded(s) \cap Inserted(w) = {}
               /\ IsFiniteSet(Folded(s)) /\ IsFiniteSet(Inserted(w)) /\ Cardinality(Inserted(w)) = Size[w]
    <3>1. \A e \in Inserted(w) : e \in On(db, s) /\ e.by = w
      BY <1>0, <2>2, Names DEF ImageOK, On, Inserted
    <3>2. \A e \in On(db, s) : e.by \in Appenders
      BY <1>0 DEF On, LogTypes, Images, Events
    <3>3. Folded(s)' = Folded(s) \cup Inserted(w)
      BY <1>1, <1>2, <1>3, <3>1, <3>2 DEF Folded, On, Inserted
    <3>4. Folded(s) \cap Inserted(w) = {}
      BY <1>1, <3>1 DEF Folded
    <3>5. IsFiniteSet(db.log) /\ Folded(s) \subseteq db.log /\ Inserted(w) \subseteq db.log
      BY <1>0 DEF ImageOK, Folded, On, Inserted
    <3>6. IsFiniteSet(Folded(s)) /\ IsFiniteSet(Inserted(w))
      BY <3>5, FS_Subset
    <3>. QED  BY <1>0, <1>1, <2>2, <3>3, <3>4, <3>6 DEF FoldOK
  <2>3. ASSUME NEW s \in Issues, w \in Writers, Stream[w] = s
        PROVE  Cardinality(Folded(s)') = Cardinality(Folded(s)) + Size[w]
    <3>1. Cardinality(Folded(s) \cup Inserted(w)) = Cardinality(Folded(s)) + Size[w] - Cardinality({})
      BY <2>2, <2>3, FS_Union
    <3>2. Cardinality(Folded(s)) \in Nat /\ Size[w] \in Nat /\ Cardinality({}) = 0
      BY <2>2, <2>3, FS_CardinalityType, FS_EmptySet, Names
    <3>3. Folded(s)' = Folded(s) \cup Inserted(w)
      BY <2>2, <2>3
    <3> DEFINE c == Cardinality(Folded(s))
    <3>4. c \in Nat /\ Cardinality(Folded(s) \cup Inserted(w)) = c + Size[w] - 0 /\ Size[w] \in Nat
      BY <3>1, <3>2
    <3> HIDE DEF c
    <3>5. Cardinality(Folded(s) \cup Inserted(w)) = c + Size[w]
      BY <3>4
    <3>. QED  BY <3>3, <3>5 DEF c
  <2>4. \A s : On(disk, s)' = On(disk, s)
    BY <1>1 DEF On
  <2>5. ~mixed => \A s \in Issues : db'.fold[s] = Cardinality(Folded(s)') /\ disk.fold[s] = Cardinality(On(disk, s))
    BY <1>0, <1>2, <2>1, <2>3 DEF FoldOK
  <2>6. \A v \in Writers : writer'[v] = "fold" /\ Stream[v] \in Issues => Cardinality(Inserted(v)') = Size[v]
    BY <1>0, <1>3, <1>8, Names DEF FoldOK
  <2>. QED  BY <1>1, <2>4, <2>5, <2>6 DEF FoldOK
<1>10. KeptOK'
  <2>1. \A e : Marking(e)' <=> Marking(e)
    BY <1>1, <1>2, <1>3, OwnSame, Names
  <2>2. \A s : Marker(s)' = Marker(s)
    BY <1>2 DEF Marker
  <2>3. \A v \in Writers : Holds(db, v)' <=> Holds(db, v)
    BY <1>2 DEF Holds
  <2>4. \A v \in Appenders : /\ writer'[v] \in {"fold", "end", "publish", "done"} <=>
                                writer[v] \in {"fold", "end", "publish", "done"}
                             /\ writer'[v] \in {"fold", "end", "publish"} <=> writer[v] \in {"fold", "end", "publish"}
    BY <1>1, <1>3
  <2>. QED  BY <1>0, <1>1, <2>1, <2>2, <2>3, <2>4, Names DEF KeptOK
<1>. QED  BY <1>4, <1>5, <1>6, <1>7, <1>9, <1>10 DEF LogInv

-----------------------------------------------------------------------------
(* The end of an append.                                                   *)

(* With nobody inside the folds are those of all events.                   *)
LEMMA AllFolded ==
  ASSUME LogTypes, FoldOK, ~mixed, NEW s \in Issues, \A v \in Appenders : writer[v] # "fold"
  PROVE  db.fold[s] = Cardinality(On(db, s))
<1>1. \A e \in On(db, s) : e.by \in Appenders
  BY DEF On, LogTypes, Images, Events
<1>2. Folded(s) = On(db, s)
  BY <1>1 DEF Folded
<1>. QED  BY <1>2 DEF FoldOK

LEMMA EndKeeps == ASSUME LogInv, NEW w \in Appenders, End(w) PROVE LogInv'
<1>0. LogTypes /\ NestingOK /\ ImageOK(db) /\ ImageOK(disk) /\ PrunerOK /\ FoldOK /\ KeptOK
  BY DEF LogInv
<1>1. /\ writer[w] = "end" /\ writer' = [writer EXCEPT ![w] = "publish"] /\ nesting' = nesting - 1
      /\ disk' = (IF Outermost THEN db ELSE disk) /\ UNCHANGED <<db, tail, pruning, mixed>>
  BY DEF End
<1>2. /\ writer'[w] = "publish" /\ (\A v \in Appenders \ {w} : writer'[v] = writer[v])
      /\ Open' = Open \ {w} /\ w \in Open
  <2>1. w \in Open /\ "publish" \notin Inside
    BY <1>1 DEF Inside, Open
  <2>. QED  BY <1>0, <1>1, <2>1, MovesTo
<1>3. /\ IsFiniteSet(Open') /\ nesting' = Cardinality(Open') /\ nesting' \in Nat
      /\ nesting' = 0 <=> Outermost
      /\ Outermost => Open = {w}
  BY <1>0, <1>1, <1>2, Exits
<1>4. LogTypes'
  BY <1>0, <1>1, <1>3 DEF LogTypes
<1>5. NestingOK'
  BY <1>1, <1>3 DEF NestingOK
<1>6. \A v \in Appenders : /\ writer'[v] = "fold" <=> writer[v] = "fold"
                           /\ writer'[v] \in {"wants", "insert"} => writer[v] \in {"wants", "insert"}
                           /\ writer'[v] \in {"fold", "end", "publish", "done"} <=>
                              writer[v] \in {"fold", "end", "publish", "done"}
                           /\ writer'[v] \in {"fold", "end", "publish"} <=> writer[v] \in {"fold", "end", "publish"}
  BY <1>1, <1>2
<1>7. ImageOK(db)' /\ ImageOK(disk)'
  <2>1. ASSUME NEW image \in Images, ImageOK(image)
        PROVE  \A e \in image.log : e.by # Pruner => writer'[e.by] \notin {"wants", "insert"}
    BY <1>6, <2>1, Names DEF ImageOK, Images, Events
  <2>2. \A e \in db.log \cup disk.log : e.by # Pruner => writer'[e.by] \notin {"wants", "insert"}
    BY <1>0, <2>1 DEF LogTypes
  <2>3. disk' = db \/ disk' = disk
    BY <1>1
  <2>. QED  BY <1>0, <1>1, <2>2, <2>3 DEF ImageOK
<1>8. PrunerOK'
  BY <1>0, <1>1, <1>2, Names DEF PrunerOK, Inside
<1>9. FoldOK'
  <2>1. \A s : Folded(s)' = Folded(s)
    BY <1>0, <1>1, <1>6 DEF Folded, On, LogTypes, Images, Events
  <2>2. \A v : Inserted(v)' = Inserted(v)
    BY <1>1 DEF Inserted
  <2>3. Outermost => \A v \in Appenders : writer[v] # "fold"
    BY <1>1, <1>3 DEF Open, Inside
  <2>4. ASSUME ~mixed, NEW s \in Issues PROVE disk'.fold[s] = Cardinality(On(disk, s)')
    <3>1. CASE Outermost
      BY <1>0, <1>1, <2>3, <2>4, <3>1, AllFolded DEF On
    <3>2. CASE ~Outermost
      BY <1>0, <1>1, <2>4, <3>2 DEF FoldOK, On
    <3>. QED  BY <3>1, <3>2
  <2>. QED  BY <1>0, <1>1, <1>6, <2>1, <2>2, <2>4, Names DEF FoldOK
<1>10. KeptOK'
  <2>1. \A e : Marking(e) => Marking(e)'
    BY <1>1, <1>2, OwnSame, Names DEF Marking
  <2>2. \A s : Marker(s)' = Marker(s)
    BY <1>1 DEF Marker
  <2>3. \A v \in Writers : Holds(db, v)' <=> Holds(db, v)
    BY <1>1 DEF Holds
  <2>. QED  BY <1>0, <1>1, <1>6, <2>1, <2>2, <2>3, Names DEF KeptOK
<1>. QED  BY <1>4, <1>5, <1>7, <1>8, <1>9, <1>10 DEF LogInv

LEMMA PublishKeeps == ASSUME LogInv, NEW w \in Appenders, Publish(w) PROVE LogInv'
<1>0. LogTypes /\ NestingOK /\ ImageOK(db) /\ ImageOK(disk) /\ PrunerOK /\ FoldOK /\ KeptOK
  BY DEF LogInv
<1>1. /\ writer[w] = "publish" /\ writer' = [writer EXCEPT ![w] = "done"]
      /\ UNCHANGED <<db, disk, nesting, mixed>>
      /\ pruning' = (IF w = Pruner THEN [pruning EXCEPT !.at = "delete"] ELSE pruning)
  BY DEF Publish
<1>2. /\ writer'[w] = "done" /\ (\A v \in Appenders \ {w} : writer'[v] = writer[v])
      /\ Open' = Open \ {w} /\ w \notin Open
  BY <1>0, <1>1, MovesTo DEF Inside, Open
<1>3. LogTypes'
  BY <1>0, <1>1 DEF LogTypes
<1>4. NestingOK'
  <2>1. Open' = Open
    BY <1>2
  <2>. QED  BY <1>0, <1>1, <2>1 DEF NestingOK
<1>5. \A v \in Appenders : /\ writer'[v] = "fold" <=> writer[v] = "fold"
                           /\ writer'[v] \in {"wants", "insert"} => writer[v] \in {"wants", "insert"}
                           /\ writer'[v] \in {"fold", "end", "publish", "done"} <=>
                              writer[v] \in {"fold", "end", "publish", "done"}
  BY <1>1, <1>2
<1>6. ImageOK(db)' /\ ImageOK(disk)'
  BY <1>0, <1>1, <1>5, Names DEF ImageOK, LogTypes, Images, Events
<1>7. PrunerOK' /\ pruning'.cur = pruning.cur
  BY <1>0, <1>1, <1>2, Names DEF PrunerOK, Inside, LogTypes
<1>8. FoldOK'
  <2>1. \A s : Folded(s)' = Folded(s)
    BY <1>0, <1>1, <1>5 DEF Folded, On, LogTypes, Images, Events
  <2>2. \A v : Inserted(v)' = Inserted(v) /\ On(disk, v)' = On(disk, v)
    BY <1>1 DEF Inserted, On
  <2>. QED  BY <1>0, <1>1, <1>5, <2>1, <2>2, Names DEF FoldOK
<1>9. KeptOK'
  <2>1. \A e : Marking(e) => Marking(e)'
    BY <1>1, <1>2, OwnSame, Names DEF Marking
  <2>2. \A s : Marker(s)' = Marker(s)
    BY <1>1 DEF Marker
  <2>3. \A v \in Writers : Holds(db, v)' <=> Holds(db, v)
    BY <1>1 DEF Holds
  <2>4. (pruning'.at = "delete" \/ (pruning'.at = "marker" /\ writer'[Pruner] \in {"fold", "end", "publish"}))
          => (pruning.at = "delete" \/ (pruning.at = "marker" /\ writer[Pruner] \in {"fold", "end", "publish"}))
    BY <1>0, <1>1, <1>2, Names DEF PrunerOK
  <2>. QED  BY <1>0, <1>1, <1>5, <1>7, <2>1, <2>2, <2>3, <2>4, Names DEF KeptOK
<1>. QED  BY <1>3, <1>4, <1>6, <1>7, <1>8, <1>9 DEF LogInv

-----------------------------------------------------------------------------
(* What a roll-back leaves.                                                *)

LEMMA Survives ==
  ASSUME LogTypes, ImageOK(db), KeptOK, ~mixed, NEW w \in Appenders, writer[w] \in Inside, ~Undoes(w)
  PROVE  /\ \A v \in Writers \ {w} : writer[v] \in {"fold", "end", "publish", "done"} =>
              Holds(disk, v) \/ \E e \in disk.log : e.stream = Stream[v] /\ e.kind = "pruned"
         /\ w # Pruner => \A s : Marker(s) \subseteq disk.log
<1>1. \A e \in db.log : e \notin Own(w) => e \in disk.log
  BY DEF Undoes
<1>2. \A e \in Own(w) : e.by = w
  BY DEF Own
<1>3. \A s : \A e \in Marker(s) : e \in db.log /\ e.stream = s /\ e.kind = "pruned" /\ e.by = Pruner
  BY DEF Marker, ImageOK
<1>4. ASSUME NEW s, NEW e \in Marker(s), Marking(e) PROVE e \in disk.log
  <2>1. CASE w # Pruner
    BY <1>1, <1>2, <1>3, <2>1
  <2>2. CASE w = Pruner /\ writer[w] = "insert"
    BY <1>1, <1>3, <2>2 DEF Own
  <2>3. CASE w = Pruner /\ writer[w] \in {"fold", "end"}
    BY <1>1, <1>3, <1>4, <2>3 DEF Marking
  <2>. QED  BY <2>1, <2>2, <2>3 DEF Inside
<1>5. \A v \in Writers \ {w} : Holds(db, v) => Holds(disk, v)
  BY <1>1, <1>2 DEF Holds
<1>6. ASSUME NEW v \in Writers \ {w}, writer[v] \in {"fold", "end", "publish", "done"}
      PROVE  Holds(disk, v) \/ \E e \in disk.log : e.stream = Stream[v] /\ e.kind = "pruned"
  <2>1. Holds(db, v) \/ \E e \in Marker(Stream[v]) : Marking(e)
    BY <1>6 DEF KeptOK
  <2>. QED  BY <1>3, <1>4, <1>5, <2>1
<1>. QED  BY <1>1, <1>2, <1>3, <1>6

(* Nobody is inside and the connection has what was on disk.               *)
LEMMA UndoneKeeps ==
  ASSUME LogTypes, FoldOK, \A v \in Appenders : writer'[v] \notin Inside, db' = disk, disk' = disk,
         mixed => mixed',
         ~mixed' => \A v \in Writers : writer'[v] \in {"publish", "done"} =>
           Holds(disk, v) \/ \E e \in disk.log : e.stream = Stream[v] /\ e.kind = "pruned",
         ~mixed' /\ (pruning'.at = "delete" \/ writer'[Pruner] = "publish") =>
           \E e \in disk.log : e.stream = pruning'.cur /\ e.kind = "pruned"
  PROVE  FoldOK' /\ KeptOK'
<1>1. \A v \in Appenders : writer'[v] \notin {"insert", "fold", "end"}
  BY DEF Inside
<1>2. FoldOK'
  <2>1. ASSUME NEW s \in Issues PROVE Folded(s)' = On(disk, s) /\ On(disk, s)' = On(disk, s)
    <3>1. \A e \in On(disk, s) : e.by \in Appenders
      BY DEF LogTypes, Images, Events, On
    <3>. QED  BY <1>1, <3>1 DEF Folded, On
  <2>. QED  BY <1>1, <2>1, Names DEF FoldOK
<1>3. KeptOK'
  <2>1. \A e : Marking(e)'
    BY <1>1, Names DEF Marking
  <2>2. \A v \in Writers : Holds(db, v)' <=> Holds(disk, v)
    BY DEF Holds
  <2>3. ~mixed' => \A v \in Writers : writer'[v] \in {"fold", "end", "publish", "done"} =>
                     Holds(db, v)' \/ \E e \in Marker(Stream[v])' : Marking(e)'
    BY <1>1, <2>1, <2>2, Names DEF Marker
  <2>4. ~mixed' /\ (pruning'.at = "delete" \/ (pruning'.at = "marker" /\ writer'[Pruner] \in {"fold", "end", "publish"}))
          => Marker(pruning.cur)' # {}
    <3>1. writer'[Pruner] \in {"fold", "end", "publish"} => writer'[Pruner] = "publish"
      BY <1>1, Names
    <3>. QED  BY <3>1 DEF Marker
  <2>. QED  BY <2>3, <2>4 DEF KeptOK
<1>. QED  BY <1>2, <1>3

LEMMA FailsKeeps == ASSUME LogInv, NEW w \in Appenders, Fails(w) PROVE LogInv'
<1>0. LogTypes /\ NestingOK /\ ImageOK(db) /\ ImageOK(disk) /\ PrunerOK /\ FoldOK /\ KeptOK
  BY DEF LogInv
<1>1. /\ writer[w] \in Inside /\ writer' = [writer EXCEPT ![w] = "failed"] /\ nesting' = nesting - 1
      /\ db' = (IF Outermost THEN disk ELSE db) /\ mixed' = (mixed \/ ~Outermost \/ Undoes(w))
      /\ pruning' = (IF w = Pruner THEN [pruning EXCEPT !.at = "idle", !.plans = {}] ELSE pruning)
      /\ disk' = disk
  BY DEF Fails
<1>2. /\ writer'[w] = "failed" /\ (\A v \in Appenders \ {w} : writer'[v] = writer[v])
      /\ Open' = Open \ {w} /\ w \in Open
  <2>1. w \in Open /\ "failed" \notin Inside
    BY <1>1 DEF Inside, Open
  <2>. QED  BY <1>0, <1>1, <2>1, MovesTo
<1>3. /\ IsFiniteSet(Open') /\ nesting' = Cardinality(Open') /\ nesting' \in Nat
      /\ nesting' = 0 <=> Outermost
      /\ Outermost => Open = {w}
  BY <1>0, <1>1, <1>2, Exits
<1>4. LogTypes'
  <2>1. db' \in Images /\ disk' \in Images /\ mixed' \in BOOLEAN
    BY <1>0, <1>1 DEF LogTypes
  <2>. QED  BY <1>0, <1>1, <1>3, <2>1 DEF LogTypes
<1>5. NestingOK'
  BY <1>1, <1>3 DEF NestingOK
<1>6. ImageOK(db)' /\ ImageOK(disk)'
  <2>1. ASSUME NEW e \in db.log \cup disk.log, e.by # Pruner PROVE writer'[e.by] \notin {"wants", "insert"}
    BY <1>0, <1>2, <2>1, Names DEF ImageOK, LogTypes, Images, Events
  <2>2. db' = db \/ db' = disk
    BY <1>1
  <2>. QED  BY <1>0, <1>1, <2>1, <2>2 DEF ImageOK
<1>7. PrunerOK'
  BY <1>0, <1>1, <1>2, Names DEF PrunerOK, Inside, LogTypes
<1>8. FoldOK' /\ KeptOK'
  <2>1. CASE Outermost
    <3>1. \A v \in Appenders : writer'[v] \notin Inside
      BY <1>2, <1>3, <2>1 DEF Open
    <3>2. \A v \in Appenders : writer'[v] \in {"publish", "done"} => v # w /\ writer[v] = writer'[v]
      BY <1>2
    <3>3. ~mixed' => ~mixed /\ ~Undoes(w)
      BY <1>1
    <3>4. ~mixed' => \A v \in Writers : writer'[v] \in {"publish", "done"} =>
            Holds(disk, v) \/ \E e \in disk.log : e.stream = Stream[v] /\ e.kind = "pruned"
      BY <1>0, <1>1, <3>2, <3>3, Survives, Names
    <3>5. ASSUME ~mixed', pruning'.at = "delete" \/ writer'[Pruner] = "publish"
          PROVE  \E e \in disk.log : e.stream = pruning'.cur /\ e.kind = "pruned"
      <4>1. w # Pruner /\ pruning' = pruning /\ writer'[Pruner] = writer[Pruner]
        BY <1>0, <1>1, <1>2, <3>5, Names DEF LogTypes
      <4>2. pruning.at = "delete" \/ (pruning.at = "marker" /\ writer[Pruner] \in {"fold", "end", "publish"})
        BY <1>0, <3>5, <4>1 DEF PrunerOK
      <4>3. Marker(pruning.cur) # {} /\ Marker(pruning.cur) \subseteq disk.log
        BY <1>0, <1>1, <3>3, <3>5, <4>1, <4>2, Survives DEF KeptOK
      <4>. QED  BY <4>1, <4>3 DEF Marker
    <3>. QED  BY <1>0, <1>1, <2>1, <3>1, <3>3, <3>4, <3>5, UndoneKeeps
  <2>2. CASE ~Outermost
    <3>1. mixed' = TRUE /\ db' = db
      BY <1>1, <2>2
    <3>2. \A v \in Writers : writer'[v] = "fold" => writer[v] = "fold" /\ Inserted(v)' = Inserted(v)
      BY <1>2, <3>1, Names DEF Inserted
    <3>. QED  BY <1>0, <3>1, <3>2 DEF FoldOK, KeptOK
  <2>. QED  BY <2>1, <2>2
<1>. QED  BY <1>4, <1>5, <1>6, <1>7, <1>8 DEF LogInv

LEMMA CrashKeeps == ASSUME LogInv, LogCrash PROVE LogInv'
<1>0. LogTypes /\ NestingOK /\ ImageOK(db) /\ ImageOK(disk) /\ PrunerOK /\ FoldOK /\ KeptOK
  BY DEF LogInv
<1>1. /\ db' = disk /\ disk' = disk /\ nesting' = 0
      /\ writer' = [w \in Appenders |->
           IF writer[w] \in Inside \/ (w = Pruner /\ writer[w] = "wants") THEN "failed"
           ELSE IF writer[w] = "publish" THEN "done" ELSE writer[w]]
      /\ mixed' = (mixed \/ nesting > 1 \/ \E w \in Appenders : writer[w] \in Inside /\ Undoes(w))
      /\ pruning' = [pruning EXCEPT !.at = "idle", !.plans = {}]
  BY DEF LogCrash
<1>2. \A v \in Appenders : /\ writer'[v] \in {"wants", "done", "failed"}
                           /\ writer'[v] = "wants" => writer[v] = "wants" /\ v # Pruner
                           /\ writer'[v] = "done" => writer[v] \in {"publish", "done"}
  BY <1>0, <1>1 DEF LogTypes, Inside
<1>3. Open' = {}
  BY <1>2 DEF Open, Inside
<1>4. LogTypes'
  <2>1. mixed' \in BOOLEAN /\ nesting' \in Nat
    BY <1>1
  <2>2. pruning'.at = "idle" /\ pruning' \in [at : {"idle", "next", "marker", "delete"}, plans : SUBSET Transcripts,
                  cur : Transcripts \cup {"none"}, passes : Nat]
    BY <1>0, <1>1 DEF LogTypes
  <2>3. writer' \in [Appenders -> {"wants", "insert", "fold", "end", "publish", "done", "failed"}]
    BY <1>1, <1>2
  <2>. QED  BY <1>0, <1>1, <2>1, <2>2, <2>3 DEF LogTypes
<1>5. NestingOK'
  BY <1>1, <1>3, FS_EmptySet DEF NestingOK
<1>6. ImageOK(db)' /\ ImageOK(disk)'
  <2>1. ASSUME NEW e \in disk.log, e.by # Pruner PROVE writer'[e.by] \notin {"wants", "insert"}
    BY <1>0, <1>2, <2>1, Names DEF ImageOK, LogTypes, Images, Events
  <2>. QED  BY <1>0, <1>1, <2>1 DEF ImageOK
<1>7. PrunerOK'
  <2>1. pruning'.at = "idle"
    BY <1>0, <1>1 DEF LogTypes
  <2>. QED  BY <1>2, <2>1, Names DEF PrunerOK
<1>8. FoldOK' /\ KeptOK'
  <2>1. ASSUME ~mixed', NEW v \in Writers, writer'[v] \in {"publish", "done"}
        PROVE  Holds(disk, v) \/ \E e \in disk.log : e.stream = Stream[v] /\ e.kind = "pruned"
    <3>1. writer[v] \in {"publish", "done"} /\ ~mixed /\ ~(nesting > 1)
      BY <1>1, <1>2, <2>1, Names
    <3>2. CASE nesting = 0
      BY <1>0, <3>1, <3>2, NobodyOpen, Names DEF KeptOK, Marker
    <3>3. CASE nesting # 0
      <4>1. nesting \in Nat /\ Cardinality(Open) = 1 /\ IsFiniteSet(Open)
        BY <1>0, <3>1, <3>3 DEF LogTypes, NestingOK
      <4>2. PICK w : Open = {w}
        BY <4>1, FS_Singleton
      <4>3. w \in Appenders /\ writer[w] \in Inside /\ v # w
        BY <3>1, <4>2 DEF Open, Inside
      <4>4. ~Undoes(w)
        BY <1>1, <2>1, <4>3
      <4>. QED  BY <1>0, <3>1, <4>3, <4>4, Survives
    <3>. QED  BY <3>2, <3>3
  <2>2. \A v \in Appenders : writer'[v] \notin Inside
    BY <1>2 DEF Inside
  <2>3. mixed => mixed'
    BY <1>1
  <2>4. ~(pruning'.at = "delete" \/ writer'[Pruner] = "publish")
    BY <1>0, <1>1, <1>2, Names DEF LogTypes
  <2>. QED  BY <1>0, <1>1, <2>1, <2>2, <2>3, <2>4, UndoneKeeps
<1>. QED  BY <1>4, <1>5, <1>6, <1>7, <1>8 DEF LogInv

-----------------------------------------------------------------------------
(* Retention.                                                              *)

LEMMA PlansKeep == ASSUME LogInv, PrunePlan \/ PruneNext PROVE LogInv'
<1>0. LogTypes /\ NestingOK /\ ImageOK(db) /\ ImageOK(disk) /\ PrunerOK /\ FoldOK /\ KeptOK
  BY DEF LogInv
<1>1. UNCHANGED <<db, disk, nesting, mixed>> /\ pruning.at \in {"idle", "next"}
  BY DEF PrunePlan, PruneNext
<1>2. writer[Pruner] \in {"done", "failed"}
  BY <1>0, <1>1 DEF PrunerOK
<1>3. /\ writer' \in [Appenders -> {"wants", "insert", "fold", "end", "publish", "done", "failed"}]
      /\ \A v \in Appenders \ {Pruner} : writer'[v] = writer[v]
      /\ pruning' \in [at : {"idle", "next", "marker", "delete"}, plans : SUBSET Transcripts,
                       cur : Transcripts \cup {"none"}, passes : Nat]
      /\ \/ pruning'.at \in {"idle", "next"} /\ writer'[Pruner] = writer[Pruner]
         \/ pruning'.at = "marker" /\ pruning'.cur \in Transcripts /\ writer'[Pruner] = "wants"
  <2>1. CASE PrunePlan
    <3>1. PICK cutoff \in 1..db.next :
            pruning' = [pruning EXCEPT !.at = "next", !.plans = Plans(cutoff), !.passes = @ + 1]
      BY <2>1 DEF PrunePlan
    <3>2. Plans(cutoff) \subseteq Transcripts
      BY DEF Plans
    <3>3. writer' = writer
      BY <2>1 DEF PrunePlan
    <3>4. /\ pruning'.at = "next" /\ pruning'.plans = Plans(cutoff) /\ pruning'.cur = pruning.cur
          /\ pruning' \in [at : {"idle", "next", "marker", "delete"}, plans : SUBSET Transcripts,
                           cur : Transcripts \cup {"none"}, passes : Nat]
      <4>1. pruning.passes + 1 \in Nat /\ Plans(cutoff) \in SUBSET Transcripts
        BY <1>0, <3>2 DEF LogTypes
      <4>. QED  BY <1>0, <3>1, <4>1 DEF LogTypes
    <3>. QED  BY <1>0, <3>3, <3>4 DEF LogTypes
  <2>2. CASE PruneNext /\ pruning.plans = {} /\ UNCHANGED writer
             /\ pruning' = [pruning EXCEPT !.at = "idle", !.cur = "none"]
    BY <1>0, <2>2 DEF LogTypes
  <2>3. CASE PruneNext /\ \E s \in pruning.plans : Marked(s)
    <3>1. PICK s \in pruning.plans : Marked(s)
      BY <2>3
    <3>2. /\ pruning' = [pruning EXCEPT !.at = "marker", !.plans = @ \ {s}, !.cur = s] /\ s \in Transcripts
          /\ writer' = [writer EXCEPT ![Pruner] = "wants"]
      BY <1>0, <3>1 DEF Marked, Prunes, LogTypes
    <3>. QED  BY <1>0, <3>2, Names DEF LogTypes
  <2>. QED  BY <2>1, <2>2, <2>3 DEF PruneNext
<1>4. Open' = Open
  BY <1>2, <1>3, Names DEF Open, Inside
<1>5. LogTypes' /\ NestingOK'
  BY <1>0, <1>1, <1>3, <1>4 DEF LogTypes, NestingOK
<1>6. ImageOK(db)' /\ ImageOK(disk)'
  BY <1>0, <1>1, <1>3 DEF ImageOK, LogTypes, Images, Events
<1>7. PrunerOK'
  BY <1>2, <1>3 DEF PrunerOK, Inside
<1>8. FoldOK'
  <2>1. \A v \in Appenders : writer'[v] = "fold" <=> writer[v] = "fold"
    BY <1>2, <1>3
  <2>2. \A s : Folded(s)' = Folded(s)
    BY <1>0, <1>1, <2>1 DEF Folded, On, LogTypes, Images, Events
  <2>3. \A v : Inserted(v)' = Inserted(v) /\ On(disk, v)' = On(disk, v)
    BY <1>1 DEF Inserted, On
  <2>. QED  BY <1>0, <1>1, <2>1, <2>2, <2>3, Names DEF FoldOK
<1>9. KeptOK'
  <2>1. \A e : Marking(e)'
    BY <1>2, <1>3 DEF Marking
  <2>2. \A s : Marker(s)' = Marker(s)
    BY <1>1 DEF Marker
  <2>3. \A v \in Writers : Holds(db, v)' <=> Holds(db, v)
    BY <1>1 DEF Holds
  <2>4. ~(pruning'.at = "delete" \/ (pruning'.at = "marker" /\ writer'[Pruner] \in {"fold", "end", "publish"}))
    BY <1>3
  <2>. QED  BY <1>0, <1>1, <1>3, <2>1, <2>2, <2>3, <2>4, Names DEF KeptOK
<1>. QED  BY <1>5, <1>6, <1>7, <1>8, <1>9 DEF LogInv

LEMMA DeleteKeeps == ASSUME LogInv, PruneDelete PROVE LogInv'
<1>0. LogTypes /\ NestingOK /\ ImageOK(db) /\ ImageOK(disk) /\ PrunerOK /\ FoldOK /\ KeptOK
  BY DEF LogInv
<1> DEFINE left == {e \in db.log : e.stream # pruning.cur \/ e.kind = "pruned"}
<1>1. /\ pruning.at = "delete" /\ db' = [db EXCEPT !.log = left]
      /\ disk' = (IF nesting = 0 THEN db' ELSE disk) /\ pruning' = [pruning EXCEPT !.at = "next"]
      /\ UNCHANGED <<nesting, writer, mixed>>
  BY DEF PruneDelete
<1>2. /\ db'.log = left /\ db'.next = db.next /\ db'.fold = db.fold /\ db' \in Images
      /\ left \subseteq db.log
  BY <1>0, <1>1 DEF LogTypes, Images
<1>3. pruning.cur \in Transcripts /\ writer[Pruner] \in {"done", "failed"} /\ pruning'.at = "next"
  BY <1>0, <1>1 DEF PrunerOK, LogTypes
<1>4. Open' = Open
  BY <1>1 DEF Open
<1>5. LogTypes'
  BY <1>0, <1>1, <1>2 DEF LogTypes
<1>6. NestingOK'
  BY <1>0, <1>1, <1>4 DEF NestingOK
<1>7. ImageOK(db)' /\ ImageOK(disk)'
  <2>1. IsFiniteSet(left)
    <3>1. IsFiniteSet(db.log)
      BY <1>0 DEF ImageOK
    <3>. QED  BY <1>2, <3>1, FS_Subset
  <2>2. ImageOK(db)'
    BY <1>0, <1>1, <1>2, <2>1 DEF ImageOK
  <2>3. CASE nesting = 0
    BY <1>1, <2>2, <2>3 DEF ImageOK
  <2>4. CASE nesting # 0
    <3>1. disk' = disk /\ writer' = writer
      BY <1>1, <2>4
    <3>. QED  BY <1>0, <2>2, <3>1 DEF ImageOK
  <2>. QED  BY <2>2, <2>3, <2>4
<1>8. PrunerOK'
  BY <1>1, <1>3 DEF PrunerOK
<1>9. FoldOK'
  <2>1. \A s \in Issues : On(db, s)' = On(db, s) /\ Folded(s)' = Folded(s)
    BY <1>1, <1>2, <1>3, Names DEF On, Folded
  <2>2. \A v \in Writers : Stream[v] \in Issues => Inserted(v)' = Inserted(v)
    <3>1. \A v \in Writers : Stream[v] \in Issues => \A e \in Inserted(v) : e.stream # pruning.cur
      BY <1>0, <1>3, Names DEF Inserted, ImageOK
    <3>. QED  BY <1>2, <3>1 DEF Inserted
  <2>3. ASSUME ~mixed, NEW s \in Issues PROVE disk'.fold[s] = Cardinality(On(disk, s)')
    <3>1. CASE nesting = 0
      <4>1. \A v \in Appenders : writer[v] # "fold"
        BY <1>0, <3>1, NobodyOpen DEF Open, Inside
      <4>2. db.fold[s] = Cardinality(On(db, s)) /\ On(disk, s)' = On(db, s)'
        BY <1>0, <1>1, <2>3, <3>1, <4>1, AllFolded DEF On
      <4>. QED  BY <1>1, <1>2, <2>1, <3>1, <4>2
    <3>2. CASE nesting # 0
      BY <1>0, <1>1, <2>3, <3>2 DEF FoldOK, On
    <3>. QED  BY <3>1, <3>2
  <2>. QED  BY <1>0, <1>1, <1>2, <2>1, <2>2, <2>3 DEF FoldOK
<1>10. KeptOK'
  <2>1. \A e : Marking(e)'
    BY <1>1, <1>3 DEF Marking
  <2>2. \A s : Marker(s)' = Marker(s)
    BY <1>2 DEF Marker
  <2>3. ASSUME ~mixed, NEW v \in Writers, writer[v] \in {"fold", "end", "publish", "done"}
        PROVE  Holds(db, v)' \/ \E e \in Marker(Stream[v])' : Marking(e)'
    <3>1. CASE \E e \in Marker(Stream[v]) : Marking(e)
      BY <2>1, <2>2, <3>1
    <3>2. CASE Holds(db, v)
      <4>1. PICK e \in db.log : e.by = v
        BY <3>2 DEF Holds
      <4>2. CASE e \in left
        BY <1>2, <4>1, <4>2 DEF Holds
      <4>3. CASE e \notin left
        <5>1. Stream[v] = pruning.cur
          BY <1>0, <4>1, <4>3, Names DEF ImageOK
        <5>2. Marker(pruning.cur) # {}
          BY <1>0, <1>1, <2>3 DEF KeptOK
        <5>. QED  BY <2>1, <2>2, <5>1, <5>2
      <4>. QED  BY <4>2, <4>3
    <3>. QED  BY <1>0, <2>3, <3>1, <3>2 DEF KeptOK
  <2>. QED  BY <1>1, <1>3, <2>3 DEF KeptOK
<1>. QED  BY <1>5, <1>6, <1>7, <1>8, <1>9, <1>10 DEF LogInv

-----------------------------------------------------------------------------
(* The invariant, and what follows from it.                                *)

LEMMA InitLog == LogInit => LogInv
<1> SUFFICES ASSUME LogInit PROVE LogInv
  OBVIOUS
<1>1. /\ db = Fresh /\ disk = Fresh /\ nesting = 0 /\ pruning = NoPlan /\ mixed = FALSE
      /\ writer = [w \in Appenders |-> IF w = Pruner THEN "done" ELSE "wants"]
  BY DEF LogInit
<1>2. Open = {}
  BY <1>1 DEF Open, Inside
<1>3. Fresh \in Images /\ Fresh.log = {} /\ \A s \in Issues : Fresh.fold[s] = 0
  BY DEF Fresh, Images
<1>4. LogTypes
  BY <1>1, <1>3 DEF LogTypes, NoPlan
<1>5. NestingOK
  BY <1>1, <1>2, FS_EmptySet DEF NestingOK
<1>6. ImageOK(db) /\ ImageOK(disk)
  BY <1>1, <1>3, FS_EmptySet DEF ImageOK
<1>7. PrunerOK
  BY <1>1, Names DEF PrunerOK, NoPlan
<1>8. FoldOK
  <2>1. \A s : Folded(s) = {} /\ On(disk, s) = {}
    BY <1>1, <1>3 DEF Folded, On
  <2>. QED  BY <1>1, <1>3, <2>1, FS_EmptySet, Names DEF FoldOK
<1>9. KeptOK
  BY <1>1, Names DEF KeptOK, NoPlan
<1>. QED  BY <1>4, <1>5, <1>6, <1>7, <1>8, <1>9 DEF LogInv

LEMMA LogStep == ASSUME LogInv, [LogNext]_logVars PROVE LogInv'
<1>1. CASE UNCHANGED logVars
  BY <1>1, ReadersKeep DEF logVars
<1>2. ASSUME NEW w \in Appenders, Begin(w) \/ Insert(w) \/ Fold(w) \/ End(w) \/ Publish(w) \/ Fails(w) PROVE LogInv'
  BY <1>2, BeginKeeps, InsertKeeps, FoldKeeps, EndKeeps, PublishKeeps, FailsKeeps
<1>3. ASSUME NEW t \in Tails, Wake(t) \/ Connect(t) \/ Disconnect(t) PROVE LogInv'
  BY <1>3, ReadersKeep DEF Wake, Connect, Disconnect
<1>4. CASE PrunePlan \/ PruneNext
  BY <1>4, PlansKeep
<1>5. CASE PruneDelete
  BY <1>5, DeleteKeeps
<1>6. CASE LogCrash
  BY <1>6, CrashKeeps
<1>. QED  BY <1>1, <1>2, <1>3, <1>4, <1>5, <1>6 DEF LogNext, LogSteps

LEMMA LogHolds == LogSpec => []LogInv
BY InitLog, LogStep, PTL DEF LogSpec

(* An append that resolved is in the log, and on disk once no transaction  *)
(* is open (event-log.ts, withTransaction), for any number of appends that *)
(* overlap on the one connection, whichever of them fails and wherever the *)
(* daemon dies.                                                            *)
THEOREM AppendsAreKept == LogSpec => []AppendKept
<1>1. LogInv => AppendKept
  <2> SUFFICES ASSUME LogInv, NEW w \in Writers, Resolved(w), ~mixed, ~Gone(w)
               PROVE  Holds(db, w) /\ (nesting = 0 => Holds(disk, w))
    BY DEF AppendKept
  <2>1. Holds(db, w) \/ \E e \in Marker(Stream[w]) : Marking(e)
    BY DEF LogInv, KeptOK, Resolved
  <2>2. Marker(Stream[w]) = {}
    BY Names DEF Gone, Marker
  <2>. QED  BY <2>1, <2>2, NobodyOpen DEF LogInv
<1>. QED  BY <1>1, LogHolds, PTL

(* The committed projection of every issue is the fold of its committed    *)
(* events (createIssueProjection, rebuildIssueProjection).                 *)
THEOREM FoldsAreExact == LogSpec => []FoldIsExact
<1>1. LogInv => FoldIsExact
  BY DEF LogInv, FoldOK, FoldIsExact
<1>. QED  BY <1>1, LogHolds, PTL

(* Retention empties no transcript without its marker (pruneTranscripts).  *)
THEOREM PrunesAreMarked == LogSpec => []PruneIsMarked
<1>1. LogInv => PruneIsMarked
  <2> SUFFICES ASSUME LogInv, NEW w \in Writers, Resolved(w), ~mixed, nesting = 0
               PROVE  Holds(disk, w) \/ \E e \in disk.log : e.stream = Stream[w] /\ e.kind = "pruned"
    BY DEF PruneIsMarked, LogInv, LogTypes
  <2>1. Holds(db, w) \/ \E e \in Marker(Stream[w]) : Marking(e)
    BY DEF LogInv, KeptOK, Resolved
  <2>. QED  BY <2>1, NobodyOpen DEF LogInv, Marker
<1>. QED  BY <1>1, LogHolds, PTL

-----------------------------------------------------------------------------
(* What a live tail has been handed.                                       *)

(* Each event of an image has a position of its own.                       *)
PlacesOK(image) ==
  /\ image.next >= 1
  /\ \A d, e \in image.log : d.pos = e.pos => d = e

(* A tail stands at the last event it was handed, else where it started; it *)
(* was handed all there is in between, in order, and nothing yet to come.  *)
HandedOK(x, image) ==
  /\ x.start <= x.cursor
  /\ x.got = <<>> => x.cursor = x.start
  /\ x.got # <<>> => x.cursor = x.got[Len(x.got)].pos
  /\ \A i \in 1..Len(x.got) : x.start < x.got[i].pos /\ x.got[i].pos < image.next
  /\ \A i, j \in 1..Len(x.got) : i < j => x.got[i].pos < x.got[j].pos
  /\ \A e \in image.log : x.start < e.pos /\ e.pos <= x.cursor => \E i \in 1..Len(x.got) : x.got[i] = e

Ends == [open : BOOLEAN, scheduled : BOOLEAN, threw : BOOLEAN, start : Nat, cursor : Nat, got : Seq(Events)]

TailInv ==
  /\ tail \in [Tails -> Ends]
  /\ PlacesOK(db) /\ PlacesOK(disk)
  /\ ~mixed => \A t \in Tails : HandedOK(tail[t], db)

\* Events in order of position: each once.
LEMMA OrderIs ==
  ASSUME NEW S \in SUBSET Events, IsFiniteSet(S), \A d, e \in S : d.pos = e.pos => d = e
  PROVE  /\ InOrder(S) \in Seq(S)
         /\ \A i, j \in 1..Len(InOrder(S)) : i < j => InOrder(S)[i].pos < InOrder(S)[j].pos
         /\ \A e \in S : \E i \in 1..Len(InOrder(S)) : InOrder(S)[i] = e
<1> DEFINE n == Cardinality(S)
           Below(e) == {d \in S : d.pos < e.pos}
           rank == [e \in S |-> Cardinality(Below(e))]
<1>1. n \in Nat
  BY FS_CardinalityType
<1>2. \A e \in S : e.pos \in Nat
  BY DEF Events
<1>3. ASSUME NEW e \in S PROVE IsFiniteSet(Below(e)) /\ rank[e] \in Nat /\ rank[e] < n
  <2>1. Below(e) \subseteq S /\ e \notin Below(e)
    BY <1>2
  <2>2. IsFiniteSet(Below(e)) /\ Cardinality(Below(e)) \in Nat /\ Cardinality(Below(e)) <= n
        /\ (Cardinality(Below(e)) = n => Below(e) = S)
    BY <2>1, FS_Subset, FS_CardinalityType
  <2> HIDE DEF n, Below
  <2>. QED  BY <1>1, <2>1, <2>2
<1>4. ASSUME NEW d \in S, NEW e \in S, d.pos < e.pos PROVE rank[d] < rank[e]
  <2>1. Below(d) \subseteq Below(e) /\ d \in Below(e) /\ d \notin Below(d)
    BY <1>2, <1>4
  <2>2. IsFiniteSet(Below(e)) /\ Cardinality(Below(d)) \in Nat /\ Cardinality(Below(e)) \in Nat
    BY <1>3
  <2>3. Cardinality(Below(d)) <= Cardinality(Below(e)) /\ (Cardinality(Below(d)) = Cardinality(Below(e)) => Below(d) = Below(e))
    <3> HIDE DEF Below
    <3>. QED  BY <2>1, <2>2, FS_Subset
  <2>4. rank[d] = Cardinality(Below(d)) /\ rank[e] = Cardinality(Below(e))
    OBVIOUS
  <2> HIDE DEF Below, rank
  <2>. QED  BY <2>1, <2>2, <2>3, <2>4
<1>5. \A e \in S : rank[e] = Cardinality(Below(e))
  OBVIOUS
<1>6. InOrder(S) = [k \in 1..n |-> CHOOSE e \in S : Cardinality(Below(e)) = k - 1]
  BY DEF InOrder
<1> HIDE DEF rank, n, Below
<1>7. \A e \in S : rank[e] \in Nat /\ rank[e] < n
  BY <1>3
<1>8. \A d, e \in S : rank[d] = rank[e] => d = e
  <2> SUFFICES ASSUME NEW d \in S, NEW e \in S, rank[d] = rank[e] PROVE d = e
    OBVIOUS
  <2>1. ~(d.pos < e.pos) /\ ~(e.pos < d.pos)
    BY <1>4, <1>7
  <2>. QED  BY <1>2, <2>1
<1>9. \A m \in 0..(n - 1) : \E e \in S : rank[e] = m
  <2>1. rank \in [S -> 0..(n - 1)]
    <3>1. \A e \in S : rank[e] \in 0..(n - 1)
      BY <1>1, <1>7
    <3>2. rank = [e \in S |-> rank[e]]
      BY DEF rank
    <3>. QED  BY <3>1, <3>2
  <2>2. rank \in Injection(S, 0..(n - 1))
    BY <1>8, <2>1 DEF Injection, IsInjective
  <2>3. IsFiniteSet(0..(n - 1)) /\ Cardinality(0..(n - 1)) = n
    BY <1>1, FS_Interval
  <2>4. rank \in Surjection(S, 0..(n - 1))
    BY <2>2, <2>3, FS_Injection DEF n
  <2>. QED  BY <2>4 DEF Surjection
<1>10. ASSUME NEW k \in 1..n PROVE InOrder(S)[k] \in S /\ rank[InOrder(S)[k]] = k - 1
  <2>1. k - 1 \in 0..(n - 1)
    BY <1>1
  <2>2. \E e \in S : Cardinality(Below(e)) = k - 1
    BY <1>9, <1>5, <2>1
  <2>. QED  BY <1>5, <1>6, <2>2
<1>11. InOrder(S) \in Seq(S) /\ Len(InOrder(S)) = n
  <2>1. InOrder(S) \in [1..n -> S]
    BY <1>6, <1>10
  <2>. QED  BY <1>1, <2>1
<1>12. ASSUME NEW i \in 1..n, NEW j \in 1..n, i < j PROVE InOrder(S)[i].pos < InOrder(S)[j].pos
  <2>1. rank[InOrder(S)[i]] < rank[InOrder(S)[j]]
    BY <1>1, <1>10, <1>12
  <2>2. InOrder(S)[i] # InOrder(S)[j]
    BY <1>7, <1>10, <2>1
  <2>3. ~(InOrder(S)[j].pos < InOrder(S)[i].pos)
    BY <1>7, <1>4, <1>10, <2>1
  <2>. QED  BY <1>2, <1>10, <2>2, <2>3
<1>13. ASSUME NEW e \in S PROVE \E i \in 1..n : InOrder(S)[i] = e
  <2>1. rank[e] + 1 \in 1..n /\ (rank[e] + 1) - 1 = rank[e]
    BY <1>1, <1>7
  <2>2. InOrder(S)[rank[e] + 1] = e
    BY <1>8, <1>10, <2>1
  <2>. QED  BY <2>1, <2>2
<1>. QED
  BY <1>11, <1>12, <1>13

\* Batches until one is not full: all there is.
LEMMA CatchUpIs ==
  ASSUME NEW s \in Seq(Events)
  PROVE  CatchUp(s) = s
<1>1. Len(s) \in Nat /\ BatchSize \in Nat /\ BatchSize >= 1
  BY BatchAssumption
<1> DEFINE q == Len(s) \div BatchSize
<1>2. q \in Nat /\ Len(s) < BatchSize * (q + 1)
  BY <1>1, SMTT(60)
<1>3. CatchUp(s) = SubSeq(s, 1, Len(s))
  <2>1. ~(BatchSize * (q + 1) < Len(s))
    <3>1. BatchSize * (q + 1) \in Nat
      BY <1>1, <1>2
    <3> HIDE DEF q
    <3>. QED  BY <1>1, <1>2, <3>1
  <2>2. (IF Len(s) < BatchSize * (q + 1) THEN Len(s) ELSE BatchSize * (q + 1)) = Len(s)
    BY <1>2
  <2>. QED  BY <2>2 DEF CatchUp, FirstOf
<1>4. SubSeq(s, 1, Len(s)) = s
  OBVIOUS
<1>. QED
  BY <1>3, <1>4

\* What is ahead of a cursor.
LEMMA AfterIs ==
  ASSUME LogInv, TailInv, NEW c \in Nat
  PROVE  LET new == After(c)
             n == Len(new)
         IN /\ new \in Seq(Events) /\ n \in Nat
            /\ \A i \in 1..n : new[i] \in db.log /\ c < new[i].pos
            /\ \A i, j \in 1..n : i < j => new[i].pos < new[j].pos
            /\ \A e \in db.log : c < e.pos => \E i \in 1..n : new[i] = e
            /\ new # <<>> => Last(new) = new[n] /\ n >= 1
            /\ new = <<>> => n = 0
<1> DEFINE S == Ahead(c)
<1>1. S \in SUBSET Events /\ S \subseteq db.log /\ \A e \in S : c < e.pos
  BY DEF Ahead, LogInv, LogTypes, Images, Events
<1>2. IsFiniteSet(S)
  BY <1>1, FS_Subset DEF LogInv, ImageOK
<1>3. \A d, e \in S : d.pos = e.pos => d = e
  BY <1>1 DEF TailInv, PlacesOK
<1>4. \A e \in db.log : c < e.pos => e \in S
  BY DEF Ahead, LogInv, LogTypes, Images, Events
<1> HIDE DEF S
<1> DEFINE new == InOrder(S)
<1>5. /\ new \in Seq(S)
      /\ \A i, j \in 1..Len(new) : i < j => new[i].pos < new[j].pos
      /\ \A e \in S : \E i \in 1..Len(new) : new[i] = e
  BY <1>1, <1>2, <1>3, OrderIs
<1>6. After(c) = new
  BY DEF After, S
<1> HIDE DEF new
<1>7. new \in Seq(Events) /\ Len(new) \in Nat /\ \A i \in 1..Len(new) : new[i] \in S
  BY <1>1, <1>5
<1>8. new # <<>> => Last(new) = new[Len(new)] /\ Len(new) >= 1
  BY <1>7 DEF Last
<1>9. \A i \in 1..Len(new) : new[i] \in db.log /\ c < new[i].pos
  BY <1>1, <1>7
<1>10. \A e \in db.log : c < e.pos => \E i \in 1..Len(new) : new[i] = e
  BY <1>4, <1>5
<1>11. new = <<>> => Len(new) = 0
  OBVIOUS
<1>. QED
  BY <1>5, <1>6, <1>7, <1>8, <1>9, <1>10, <1>11

\* Where each event of a joined sequence comes from.
Joins(r, s, q) ==
  /\ Len(r) \in Nat /\ Len(s) \in Nat /\ Len(q) = Len(r) + Len(s)
  /\ \A i \in 1..Len(r) : i \in 1..Len(q) /\ q[i] = r[i]
  /\ \A i \in 1..Len(s) : Len(r) + i \in 1..Len(q) /\ q[Len(r) + i] = s[i]
  /\ \A i \in 1..Len(q) : i \in 1..Len(r) \/ \E k \in 1..Len(s) : i = Len(r) + k

LEMMA Joined ==
  ASSUME NEW r \in Seq(Events), NEW s \in Seq(Events), NEW q, q = r \o s
  PROVE  Joins(r, s, q)
<1>1. Len(r) \in Nat /\ Len(s) \in Nat /\ Len(q) = Len(r) + Len(s)
  OBVIOUS
<1>2. \A i \in 1..Len(r) : i \in 1..Len(q) /\ q[i] = r[i]
  OBVIOUS
<1>3. ASSUME NEW i \in 1..Len(s) PROVE Len(r) + i \in 1..Len(q) /\ q[Len(r) + i] = s[i]
  BY <1>1
<1>4. ASSUME NEW i \in 1..Len(q) PROVE i \in 1..Len(r) \/ \E k \in 1..Len(s) : i = Len(r) + k
  <2>1. CASE i <= Len(r)
    BY <1>1, <2>1
  <2>2. CASE ~(i <= Len(r))
    <3>1. i - Len(r) \in 1..Len(s) /\ i = Len(r) + (i - Len(r))
      BY <1>1, <2>2
    <3>. QED  BY <3>1
  <2>. QED  BY <2>1, <2>2
<1>. QED
  BY <1>1, <1>2, <1>3, <1>4 DEF Joins

\* A tail stands at or after all it was handed.
LEMMA CursorIsLast ==
  ASSUME NEW x \in Ends, NEW image, HandedOK(x, image)
  PROVE  \A i \in 1..Len(x.got) : x.got[i].pos <= x.cursor
<1>1. x.got \in Seq(Events) /\ Len(x.got) \in Nat
  BY DEF Ends
<1> SUFFICES ASSUME NEW i \in 1..Len(x.got) PROVE x.got[i].pos <= x.cursor
  OBVIOUS
<1>2. Len(x.got) \in 1..Len(x.got) /\ x.got # <<>> /\ i \in Nat
  BY <1>1
<1>3. x.got[i].pos \in Nat /\ x.got[Len(x.got)].pos \in Nat
  <2>1. x.got[i] \in Events /\ x.got[Len(x.got)] \in Events
    BY <1>1, <1>2
  <2>. QED  BY <2>1 DEF Events
<1>4. x.cursor = x.got[Len(x.got)].pos
  BY <1>2 DEF HandedOK
<1>5. i = Len(x.got) \/ i < Len(x.got)
  BY <1>1
<1>6. i < Len(x.got) => x.got[i].pos < x.got[Len(x.got)].pos
  BY <1>2 DEF HandedOK
<1>. QED
  BY <1>3, <1>4, <1>5, <1>6

\* A tail that reads on from its cursor.
LEMMA ReadsOn ==
  ASSUME LogInv, TailInv, NEW x \in Ends, HandedOK(x, db), NEW y \in Ends,
         y.start = x.start, y.got = x.got \o After(x.cursor),
         y.cursor = IF After(x.cursor) = <<>> THEN x.cursor ELSE Last(After(x.cursor)).pos
  PROVE  HandedOK(y, db)
<1> DEFINE n == Len(x.got)
           new == After(x.cursor)
           m == Len(new)
<1>1. x.start \in Nat /\ x.cursor \in Nat /\ x.got \in Seq(Events)
  BY DEF Ends
<1>2. /\ new \in Seq(Events)
      /\ \A i \in 1..m : new[i] \in db.log /\ x.cursor < new[i].pos
      /\ \A i, j \in 1..m : i < j => new[i].pos < new[j].pos
      /\ \A e \in db.log : x.cursor < e.pos => \E i \in 1..m : new[i] = e
      /\ new # <<>> => Last(new) = new[m] /\ m >= 1
  BY <1>1, AfterIs
<1>3. /\ n \in Nat /\ m \in Nat /\ Len(y.got) = n + m
      /\ \A i \in 1..n : i \in 1..Len(y.got) /\ y.got[i] = x.got[i]
      /\ \A i \in 1..m : n + i \in 1..Len(y.got) /\ y.got[n + i] = new[i]
      /\ \A i \in 1..Len(y.got) : i \in 1..n \/ \E k \in 1..m : i = n + k
  <2>1. PICK s \in Seq(Events) : s = new
    BY <1>2
  <2>2. PICK r \in Seq(Events) : r = x.got
    BY <1>1
  <2>3. PICK q : q = r \o s
    OBVIOUS
  <2>4. Joins(r, s, q)
    BY <2>3, Joined
  <2>5. y.got = q
    BY <2>1, <2>2, <2>3
  <2> HIDE DEF new
  <2>. QED  BY <2>1, <2>2, <2>4, <2>5 DEF Joins
<1>4. \A i \in 1..n : x.got[i].pos <= x.cursor /\ x.got[i].pos \in Nat
  <2>1. \A i \in 1..n : x.got[i] \in Events
    BY <1>1
  <2>2. \A i \in 1..n : x.got[i].pos \in Nat
    BY <2>1 DEF Events
  <2>. QED  BY <2>2, CursorIsLast
<1>5. \A e \in db.log : e.pos \in Nat /\ e.pos < db.next
  BY DEF LogInv, LogTypes, Images, ImageOK, Events
<1>6. x.start <= x.cursor /\ db.next \in Nat
  BY DEF HandedOK, LogInv, LogTypes, Images
<1>7. \A i \in 1..m : new[i].pos \in Nat /\ new[i].pos < db.next
  BY <1>2, <1>5
<1>8. y.cursor = IF new = <<>> THEN x.cursor ELSE Last(new).pos
  OBVIOUS
<1> HIDE DEF new
<1>9. ASSUME new = <<>> PROVE HandedOK(y, db)
  <2>1. y.got = x.got /\ y.cursor = x.cursor
    BY <1>1, <1>8, <1>9 DEF new
  <2>. QED  BY <2>1 DEF HandedOK
<1> HIDE DEF n, m
<1>10. ASSUME new # <<>> PROVE HandedOK(y, db)
  <2>1. m >= 1 /\ y.cursor = new[m].pos /\ m \in 1..m
    BY <1>2, <1>3, <1>8, <1>10
  <2>2. n + m \in 1..Len(y.got) /\ y.got[n + m] = new[m]
    BY <1>3, <2>1
  <2>3. y.got # <<>> /\ y.cursor = y.got[Len(y.got)].pos
    <3>1. Len(y.got) # 0
      BY <1>3, <2>1
    <3>2. y.got # <<>>
      <4>1. Len(<<>>) = 0
        OBVIOUS
      <4>. QED  BY <3>1, <4>1
    <3>3. y.cursor = y.got[n + m].pos /\ Len(y.got) = n + m
      BY <1>3, <2>1, <2>2
    <3>. QED  BY <3>2, <3>3
  <2>4. y.start <= y.cursor
    BY <1>1, <1>2, <1>6, <1>7, <2>1
  <2>5. ASSUME NEW i \in 1..Len(y.got) PROVE y.start < y.got[i].pos /\ y.got[i].pos < db.next
    <3>1. CASE i \in 1..n
      BY <1>3, <3>1 DEF HandedOK, n
    <3>2. ASSUME NEW k \in 1..m, i = n + k PROVE y.start < y.got[i].pos /\ y.got[i].pos < db.next
      <4>1. y.got[i] = new[k]
        BY <1>3, <3>2
      <4>2. x.cursor < new[k].pos /\ new[k].pos \in Nat /\ new[k].pos < db.next
        BY <1>2, <1>7, <3>2
      <4>. QED  BY <1>1, <1>6, <4>1, <4>2
    <3>. QED  BY <1>3, <3>1, <3>2
  <2>6. ASSUME NEW i \in 1..Len(y.got), NEW j \in 1..Len(y.got), i < j PROVE y.got[i].pos < y.got[j].pos
    <3>1. CASE i \in 1..n /\ j \in 1..n
      BY <1>3, <2>6, <3>1 DEF HandedOK, n
    <3>2. ASSUME i \in 1..n, NEW k \in 1..m, j = n + k PROVE y.got[i].pos < y.got[j].pos
      <4>1. y.got[i] = x.got[i] /\ y.got[j] = new[k]
        BY <1>3, <3>2
      <4>2. x.got[i].pos <= x.cursor /\ x.got[i].pos \in Nat /\ x.cursor < new[k].pos /\ new[k].pos \in Nat
        BY <1>2, <1>4, <1>7, <3>2
      <4>. QED  BY <1>1, <4>1, <4>2
    <3>3. ASSUME NEW k \in 1..m, i = n + k, NEW l \in 1..m, j = n + l PROVE y.got[i].pos < y.got[j].pos
      <4>1. y.got[i] = new[k] /\ y.got[j] = new[l]
        BY <1>3, <3>3
      <4>2. k < l
        BY <1>3, <2>6, <3>3
      <4>. QED  BY <1>2, <4>1, <4>2
    <3>4. ~(\E k \in 1..m : i = n + k) \/ ~(j \in 1..n)
      BY <1>3, <2>6
    <3>. QED  BY <1>3, <3>1, <3>2, <3>3, <3>4
  <2>7. ASSUME NEW e \in db.log, y.start < e.pos, e.pos <= y.cursor PROVE \E i \in 1..Len(y.got) : y.got[i] = e
    <3>1. CASE e.pos <= x.cursor
      <4>1. PICK i \in 1..n : x.got[i] = e
        BY <2>7, <3>1 DEF HandedOK, n
      <4>. QED  BY <1>3, <4>1
    <3>2. CASE ~(e.pos <= x.cursor)
      <4>1. PICK k \in 1..m : new[k] = e
        BY <1>1, <1>2, <1>5, <3>2
      <4>2. n + k \in 1..Len(y.got) /\ y.got[n + k] = e
        BY <1>3, <4>1
      <4>. QED  BY <4>2
    <3>. QED  BY <3>1, <3>2
  <2>. QED  BY <2>3, <2>4, <2>5, <2>6, <2>7 DEF HandedOK
<1>. QED
  BY <1>9, <1>10

\* An image in which nothing has come up behind the cursor.
LEMMA HandedStays ==
  ASSUME NEW x, NEW image, NEW other, HandedOK(x, image),
         \A e \in other.log : x.start < e.pos /\ e.pos <= x.cursor => e \in image.log,
         \A i \in 1..Len(x.got) : x.got[i].pos < other.next
  PROVE  HandedOK(x, other)
BY DEF HandedOK

\* A tail that moves in nothing but its flags.
LEMMA FlagsOnly ==
  ASSUME NEW x, NEW y, NEW image, HandedOK(x, image), y.start = x.start, y.cursor = x.cursor, y.got = x.got
  PROVE  HandedOK(y, image)
BY DEF HandedOK


(* A step after which every tail has what it had, and nothing new behind   *)
(* its cursor.                                                             *)
LEMMA TailsStay ==
  ASSUME TailInv, tail' \in [Tails -> Ends], PlacesOK(db)', PlacesOK(disk)',
         ASSUME ~mixed', NEW t \in Tails
         PROVE  /\ ~mixed
                /\ tail'[t].start = tail[t].start /\ tail'[t].cursor = tail[t].cursor /\ tail'[t].got = tail[t].got
                /\ \A e \in db'.log : tail[t].start < e.pos /\ e.pos <= tail[t].cursor => e \in db.log
                /\ \A i \in 1..Len(tail[t].got) : tail[t].got[i].pos < db'.next
  PROVE  TailInv'
<1>1. ASSUME ~mixed', NEW t \in Tails PROVE HandedOK(tail[t], db)'
  <2>1. HandedOK(tail[t], db)
    BY <1>1 DEF TailInv
  <2>2. HandedOK(tail[t], db')
    BY <1>1, <2>1, HandedStays
  <2>. QED  BY <1>1, <2>2, FlagsOnly
<1>. QED
  BY <1>1 DEF TailInv

\* No tail was handed what is yet to come.
LEMMA GotBelow ==
  ASSUME TailInv, ~mixed, NEW t \in Tails
  PROVE  \A i \in 1..Len(tail[t].got) : tail[t].got[i].pos < db.next
BY DEF TailInv, HandedOK

LEMMA FlagsMove ==
  ASSUME TailInv, UNCHANGED <<db, mixed>>, disk' = disk \/ disk' = db, tail' \in [Tails -> Ends],
         \A t \in Tails : tail'[t].start = tail[t].start /\ tail'[t].cursor = tail[t].cursor /\ tail'[t].got = tail[t].got
  PROVE  TailInv'
<1>1. PlacesOK(db)' /\ PlacesOK(disk)'
  BY DEF TailInv, PlacesOK
<1>. QED
  BY <1>1, TailsStay, GotBelow

LEMMA TailsOfInsert == ASSUME LogInv, TailInv, NEW w \in Appenders, Insert(w) PROVE TailInv'
<1>1. writer[w] = "insert" /\ UNCHANGED <<disk, tail, mixed>>
  BY DEF Insert
<1>2. db' = [db EXCEPT !.log = @ \cup New(w), !.next = @ + SizeOf(w)]
  BY DEF Insert, New
<1>3. db'.log = db.log \cup New(w) /\ db'.next = db.next + SizeOf(w)
  BY <1>2 DEF LogInv, LogTypes, Images
<1>4. /\ SizeOf(w) \in Nat /\ SizeOf(w) >= 1 /\ New(w) \subseteq Events
      /\ \A e \in New(w) : db.next <= e.pos
  BY <1>1, NewIs DEF LogInv
<1>5. db.next \in Nat /\ db.next >= 1 /\ \A e \in db.log : e.pos \in Nat /\ e.pos < db.next
  BY DEF LogInv, LogTypes, Images, ImageOK, Events, TailInv, PlacesOK
<1>6. \A e \in New(w) : e.pos \in Nat
  BY <1>4 DEF Events
<1>7. ASSUME NEW d \in New(w), NEW e \in New(w), d.pos = e.pos PROVE d = e
  <2>1. PICK i \in 1..SizeOf(w) : d = [pos |-> db.next + i - 1, stream |-> StreamOf(w), kind |-> KindOf(w), by |-> w]
    BY DEF New
  <2>2. PICK j \in 1..SizeOf(w) : e = [pos |-> db.next + j - 1, stream |-> StreamOf(w), kind |-> KindOf(w), by |-> w]
    BY DEF New
  <2>3. db.next + i - 1 = db.next + j - 1
    BY <1>7, <2>1, <2>2
  <2>4. i = j
    BY <1>4, <1>5, <2>3
  <2>. QED  BY <2>1, <2>2, <2>4
<1>8. PlacesOK(db)'
  <2>1. \A d, e \in db.log : d.pos = e.pos => d = e
    BY DEF TailInv, PlacesOK
  <2>2. \A d \in db.log, e \in New(w) : d.pos # e.pos
    BY <1>4, <1>5, <1>6
  <2>3. ASSUME NEW d \in db'.log, NEW e \in db'.log, d.pos = e.pos PROVE d = e
    <3>1. d \in db.log \/ d \in New(w)
      BY <1>3
    <3>2. e \in db.log \/ e \in New(w)
      BY <1>3
    <3>. QED  BY <1>7, <2>1, <2>2, <2>3, <3>1, <3>2
  <2>4. db'.next >= 1
    BY <1>3, <1>4, <1>5
  <2>. QED  BY <2>3, <2>4 DEF PlacesOK
<1>9. PlacesOK(disk)'
  BY <1>1 DEF TailInv, PlacesOK
<1>10. ASSUME ~mixed, NEW t \in Tails, NEW e \in New(w), tail[t].start < e.pos, e.pos <= tail[t].cursor PROVE FALSE
  <2>1. tail[t] \in Ends /\ HandedOK(tail[t], db)
    BY <1>10 DEF TailInv
  <2>2. tail[t].start \in Nat /\ tail[t].cursor \in Nat /\ tail[t].got \in Seq(Events)
    BY <2>1 DEF Ends
  <2>3. CASE tail[t].got = <<>>
    BY <1>6, <1>10, <2>1, <2>2, <2>3 DEF HandedOK
  <2>4. CASE tail[t].got # <<>>
    <3>1. Len(tail[t].got) \in 1..Len(tail[t].got)
      BY <2>2, <2>4
    <3>2. tail[t].cursor < db.next
      BY <2>1, <2>4, <3>1 DEF HandedOK
    <3>. QED  BY <1>4, <1>5, <1>6, <1>10, <2>2, <3>2
  <2>. QED  BY <2>3, <2>4
<1>11. ASSUME ~mixed, NEW t \in Tails, NEW i \in 1..Len(tail[t].got) PROVE tail[t].got[i].pos < db'.next
  <2>1. tail[t].got[i].pos < db.next
    BY <1>11, GotBelow
  <2>2. tail[t].got \in Seq(Events)
    BY DEF TailInv, Ends
  <2>3. tail[t].got[i] \in Events
    BY <2>2
  <2>4. tail[t].got[i].pos \in Nat
    BY <2>3 DEF Events
  <2>. QED  BY <1>3, <1>4, <1>5, <2>1, <2>4
<1>12. tail' \in [Tails -> Ends]
  BY <1>1 DEF TailInv
<1>. QED
  BY <1>1, <1>3, <1>8, <1>9, <1>10, <1>11, <1>12, TailsStay

LEMMA TailsOfDelete == ASSUME LogInv, TailInv, PruneDelete PROVE TailInv'
<1>1. /\ db' = [db EXCEPT !.log = {e \in @ : e.stream # pruning.cur \/ e.kind = "pruned"}]
      /\ disk' = db' \/ disk' = disk
      /\ UNCHANGED <<tail, mixed>>
  BY DEF PruneDelete
<1>2. db'.log \subseteq db.log /\ db'.next = db.next
  BY <1>1 DEF LogInv, LogTypes, Images
<1>3. PlacesOK(db)' /\ PlacesOK(disk)'
  BY <1>1, <1>2 DEF TailInv, PlacesOK
<1>4. tail' \in [Tails -> Ends]
  BY <1>1 DEF TailInv
<1>. QED
  BY <1>1, <1>2, <1>3, <1>4, TailsStay, GotBelow

\* What is undone without taking what others share or have read.
LEMMA TailsOfUndone ==
  ASSUME LogInv, TailInv, db' = disk, disk' = disk, tail' \in [Tails -> Ends],
         \A t \in Tails : tail'[t].start = tail[t].start /\ tail'[t].cursor = tail[t].cursor /\ tail'[t].got = tail[t].got,
         ~mixed' => ~mixed /\ (disk = db \/ \E w \in Appenders : ~Undoes(w))
  PROVE  TailInv'
<1>1. PlacesOK(db)' /\ PlacesOK(disk)'
  BY DEF TailInv, PlacesOK
<1>2. ASSUME ~mixed', NEW t \in Tails
      PROVE  disk.log \subseteq db.log /\ \A i \in 1..Len(tail[t].got) : tail[t].got[i].pos < disk.next
  <2>1. CASE disk = db
    BY <1>2, <2>1, GotBelow
  <2>2. ASSUME NEW w \in Appenders, ~Undoes(w) PROVE disk.log \subseteq db.log /\ \A i \in 1..Len(tail[t].got) : tail[t].got[i].pos < disk.next
    <3>1. disk.log \subseteq db.log /\ ~HasRead(t)
      BY <2>2 DEF Undoes
    <3>2. disk.next \in Nat
      BY DEF LogInv, LogTypes, Images
    <3>3. tail[t].got \in Seq(Events)
      BY DEF TailInv, Ends
    <3>4. \A i \in 1..Len(tail[t].got) : tail[t].got[i] \in Events
      BY <3>3
    <3>5. \A i \in 1..Len(tail[t].got) : tail[t].got[i].pos \in Nat
      BY <3>4 DEF Events
    <3>. QED  BY <3>1, <3>2, <3>5 DEF HasRead
  <2>. QED  BY <1>2, <2>1, <2>2
<1>. QED
  BY <1>1, <1>2, TailsStay

LEMMA TailsOfFail == ASSUME LogInv, TailInv, NEW w \in Appenders, Fails(w) PROVE TailInv'
<1>1. /\ writer[w] \in Inside /\ UNCHANGED <<disk, tail>>
      /\ db' = (IF Outermost THEN disk ELSE db)
      /\ mixed' = (mixed \/ ~Outermost \/ Undoes(w))
  BY DEF Fails
<1>2. tail' \in [Tails -> Ends]
  BY <1>1 DEF TailInv
<1>3. CASE Outermost
  <2>1. ~mixed' => ~mixed /\ ~Undoes(w)
    BY <1>1
  <2>. QED  BY <1>1, <1>2, <1>3, <2>1, TailsOfUndone
<1>4. CASE ~Outermost
  <2>1. PlacesOK(db)' /\ PlacesOK(disk)' /\ mixed'
    BY <1>1, <1>4 DEF TailInv, PlacesOK
  <2>. QED  BY <1>2, <2>1 DEF TailInv
<1>. QED
  BY <1>3, <1>4

LEMMA TailsOfCrash == ASSUME LogInv, TailInv, LogCrash PROVE TailInv'
<1>1. /\ db' = disk /\ disk' = disk
      /\ mixed' = (mixed \/ nesting > 1 \/ \E w \in Appenders : writer[w] \in Inside /\ Undoes(w))
      /\ tail' = [t \in Tails |-> [tail[t] EXCEPT !.open = FALSE, !.scheduled = FALSE]]
  BY DEF LogCrash
<1>2. ASSUME NEW t \in Tails
      PROVE  tail'[t] \in Ends /\ tail'[t].start = tail[t].start /\ tail'[t].cursor = tail[t].cursor /\ tail'[t].got = tail[t].got
  <2>1. tail[t] \in Ends /\ tail'[t] = [tail[t] EXCEPT !.open = FALSE, !.scheduled = FALSE]
    BY <1>1 DEF TailInv
  <2>. QED  BY <2>1 DEF Ends
<1>3. tail' \in [Tails -> Ends]
  BY <1>1, <1>2
<1>4. ASSUME ~mixed' PROVE ~mixed /\ (disk = db \/ \E w \in Appenders : ~Undoes(w))
  <2>1. NestingOK /\ nesting \in Nat
    BY DEF LogInv, LogTypes
  <2>2. CASE nesting = 0
    BY <1>1, <1>4, <2>1, <2>2, NobodyOpen
  <2>3. CASE nesting # 0
    <3>1. Open # {}
      BY <2>1, <2>3, FS_EmptySet DEF NestingOK
    <3>2. PICK w \in Appenders : writer[w] \in Inside
      BY <3>1 DEF Open
    <3>. QED  BY <1>1, <1>4, <3>2
  <2>. QED  BY <2>2, <2>3
<1>. QED
  BY <1>1, <1>2, <1>3, <1>4, TailsOfUndone

\* A tail that is handed all that is ahead of its cursor.
LEMMA TailsOfRead ==
  ASSUME LogInv, TailInv, UNCHANGED <<db, disk, mixed>>, NEW t \in Tails, NEW y \in Ends,
         tail' = [tail EXCEPT ![t] = y], ~mixed => HandedOK(y, db)
  PROVE  TailInv'
<1>1. tail' \in [Tails -> Ends] /\ PlacesOK(db)' /\ PlacesOK(disk)'
  BY DEF TailInv, PlacesOK
<1>2. ASSUME ~mixed, NEW u \in Tails PROVE HandedOK(tail[u], db)'
  <2>1. HandedOK(tail[u], db) /\ (u = t => tail'[u] = y) /\ (u # t => tail'[u] = tail[u])
    BY <1>2 DEF TailInv
  <2>2. HandedOK(tail'[u], db)
    BY <1>2, <2>1
  <2>. QED  BY <2>2
<1>. QED
  BY <1>1, <1>2 DEF TailInv

\* The head of what a cursor has ahead, or the cursor itself.
LEMMA MovesOn ==
  ASSUME LogInv, TailInv, NEW c \in Nat
  PROVE  (IF After(c) = <<>> THEN c ELSE Last(After(c)).pos) \in Nat
<1>1. After(c) \in Seq(Events) /\ Len(After(c)) \in Nat
      /\ (After(c) # <<>> => Last(After(c)) = After(c)[Len(After(c))] /\ Len(After(c)) >= 1)
  BY AfterIs
<1>2. CASE After(c) # <<>>
  <2>1. After(c)[Len(After(c))] \in Events
    BY <1>1, <1>2
  <2>. QED  BY <1>1, <1>2, <2>1 DEF Events
<1>. QED
  BY <1>2

LEMMA TailsOfWake == ASSUME LogInv, TailInv, NEW t \in Tails, Wake(t) PROVE TailInv'
<1> DEFINE new == After(tail[t].cursor)
<1>1. tail[t] \in Ends /\ UNCHANGED <<db, disk, mixed>>
  BY DEF TailInv, Wake
<1>2. tail[t].cursor \in Nat /\ tail[t].got \in Seq(Events)
  BY <1>1 DEF Ends
<1>3. new \in Seq(Events) /\ CatchUp(new) = new
  <2>1. new \in Seq(Events)
    BY <1>2, AfterIs
  <2> HIDE DEF new
  <2>. QED  BY <2>1, CatchUpIs
<1>4. (IF new = <<>> THEN tail[t].cursor ELSE Last(new).pos) \in Nat
  BY <1>2, MovesOn
<1>5. \/ tail' = [tail EXCEPT ![t] = Delivers(t, CatchUp(new))]
      \/ tail' = [tail EXCEPT ![t].scheduled = FALSE, ![t].threw = TRUE, ![t].cursor = CursorKept(t, new)]
  BY DEF Wake
<1>6. CASE tail' = [tail EXCEPT ![t] = Delivers(t, CatchUp(new))]
  <2> DEFINE y == [tail[t] EXCEPT !.scheduled = FALSE, !.got = @ \o new,
                                  !.cursor = IF new = <<>> THEN @ ELSE Last(new).pos]
  <2>1. Delivers(t, CatchUp(new)) = y
    <3> HIDE DEF new
    <3>. QED  BY <1>3 DEF Delivers
  <2>2. tail' = [tail EXCEPT ![t] = y]
    BY <1>6, <2>1
  <2>3. /\ y \in Ends /\ y.start = tail[t].start /\ y.got = tail[t].got \o new
        /\ y.cursor = IF new = <<>> THEN tail[t].cursor ELSE Last(new).pos
    <3> HIDE DEF new
    <3>1. tail[t].got \o new \in Seq(Events)
      BY <1>2, <1>3
    <3>. QED  BY <1>1, <1>4, <3>1 DEF Ends
  <2> HIDE DEF y
  <2>4. ASSUME ~mixed PROVE HandedOK(y, db)
    <3>1. HandedOK(tail[t], db)
      BY <2>4 DEF TailInv
    <3>. QED  BY <1>1, <2>3, <3>1, ReadsOn
  <2>. QED  BY <1>1, <2>2, <2>3, <2>4, TailsOfRead
<1>7. CASE tail' = [tail EXCEPT ![t].scheduled = FALSE, ![t].threw = TRUE, ![t].cursor = CursorKept(t, new)]
  <2> DEFINE y == [tail[t] EXCEPT !.scheduled = FALSE, !.threw = TRUE]
  <2>1. tail' = [tail EXCEPT ![t] = y]
    <3> HIDE DEF new
    <3>1. CursorKept(t, new) = tail[t].cursor
      BY DEF CursorKept
    <3>. QED  BY <1>1, <1>7, <3>1 DEF TailInv, Ends
  <2>2. y \in Ends /\ y.start = tail[t].start /\ y.got = tail[t].got /\ y.cursor = tail[t].cursor
    BY <1>1 DEF Ends
  <2> HIDE DEF y
  <2>3. ~mixed => HandedOK(y, db)
    BY <2>2, FlagsOnly DEF TailInv
  <2>. QED  BY <1>1, <2>1, <2>2, <2>3, TailsOfRead
<1>. QED
  BY <1>5, <1>6, <1>7

LEMMA TailsOfConnect == ASSUME LogInv, TailInv, NEW t \in Tails, Connect(t) PROVE TailInv'
<1> DEFINE from == IF tail[t].cursor = 0 THEN db.next - 1 ELSE tail[t].cursor
           new == After(from)
           y == [open |-> TRUE, scheduled |-> FALSE, threw |-> FALSE,
                 start |-> IF tail[t].cursor = 0 THEN from ELSE tail[t].start,
                 got |-> tail[t].got \o new,
                 cursor |-> IF new = <<>> THEN from ELSE Last(new).pos]
<1>1. tail[t] \in Ends /\ UNCHANGED <<db, disk, mixed>>
  BY DEF TailInv, Connect
<1>2. tail[t].cursor \in Nat /\ tail[t].start \in Nat /\ tail[t].got \in Seq(Events) /\ Len(tail[t].got) \in Nat
  BY <1>1 DEF Ends
<1>3. db.next \in Nat /\ db.next >= 1
  BY DEF LogInv, LogTypes, Images, TailInv, PlacesOK
<1>4. from \in Nat
  BY <1>2, <1>3
<1>5. tail' = [tail EXCEPT ![t] = y]
  BY <1>1 DEF Connect, TailInv
<1>6. new \in Seq(Events) /\ (IF new = <<>> THEN from ELSE Last(new).pos) \in Nat
  <2> HIDE DEF from
  <2>. QED  BY <1>4, AfterIs, MovesOn
<1>7. y \in Ends
  <2>1. (IF tail[t].cursor = 0 THEN from ELSE tail[t].start) \in Nat
    BY <1>2, <1>4
  <2> HIDE DEF from, new
  <2>2. tail[t].got \o new \in Seq(Events)
    BY <1>2, <1>6
  <2>. QED  BY <1>6, <2>1, <2>2 DEF Ends
<1>8. ASSUME ~mixed PROVE HandedOK(y, db)
  <2>1. HandedOK(tail[t], db)
    BY <1>8 DEF TailInv
  <2>2. CASE tail[t].cursor # 0
    <3>1. from = tail[t].cursor /\ y.start = tail[t].start /\ y.got = tail[t].got \o After(tail[t].cursor)
          /\ y.cursor = IF After(tail[t].cursor) = <<>> THEN tail[t].cursor ELSE Last(After(tail[t].cursor)).pos
      BY <2>2
    <3> HIDE DEF y
    <3>. QED  BY <1>1, <1>7, <2>1, <3>1, ReadsOn
  <2>3. CASE tail[t].cursor = 0
    <3>1. tail[t].got = <<>>
      <4>1. SUFFICES ASSUME tail[t].got # <<>> PROVE FALSE
        OBVIOUS
      <4>2. Len(tail[t].got) \in 1..Len(tail[t].got)
        BY <1>2, <4>1
      <4>3. tail[t].start < tail[t].cursor
        BY <2>1, <4>1, <4>2 DEF HandedOK
      <4>. QED  BY <1>2, <2>3, <4>3
    <3>2. from = db.next - 1
      BY <2>3
    <3>3. \A e \in db.log : ~(from < e.pos)
      <4>1. \A e \in db.log : e.pos \in Nat /\ e.pos < db.next
        BY DEF LogInv, LogTypes, Images, ImageOK, Events
      <4>. QED  BY <1>3, <3>2, <4>1
    <3> HIDE DEF from
    <3>4. new = <<>>
      <4>1. Len(new) \in Nat /\ \A i \in 1..Len(new) : new[i] \in db.log /\ from < new[i].pos
        BY <1>4, AfterIs
      <4> HIDE DEF new
      <4>2. \A i \in 1..Len(new) : FALSE
        BY <3>3, <4>1
      <4>3. Len(new) = 0
        BY <4>1, <4>2
      <4>. QED  BY <1>6, <4>3
    <3> HIDE DEF new
    <3>5. y.start = from /\ y.cursor = from /\ y.got = <<>>
      BY <2>3, <3>1, <3>4
    <3>6. Len(y.got) = 0
      BY <3>5
    <3> HIDE DEF y
    <3>7. y.start <= y.cursor
      BY <1>4, <3>5
    <3>8. \A i \in 1..Len(y.got) : FALSE
      BY <3>6
    <3>9. \A e \in db.log : ~(y.start < e.pos)
      BY <3>3, <3>5
    <3>. QED  BY <3>5, <3>7, <3>8, <3>9 DEF HandedOK
  <2>. QED  BY <2>2, <2>3
<1> HIDE DEF y
<1>. QED
  BY <1>1, <1>5, <1>7, <1>8, TailsOfRead

LEMMA TailsOfFold == ASSUME LogInv, TailInv, NEW w \in Appenders, Fold(w) PROVE TailInv'
<1>1. UNCHANGED <<disk, tail, mixed>> /\ db'.log = db.log /\ db'.next = db.next
  BY DEF Fold, LogInv, LogTypes, Images
<1>2. PlacesOK(db)' /\ PlacesOK(disk)' /\ tail' \in [Tails -> Ends]
  BY <1>1 DEF TailInv, PlacesOK
<1>. QED
  BY <1>1, <1>2, TailsStay, GotBelow

LEMMA TailsOfPublish == ASSUME LogInv, TailInv, NEW w \in Appenders, Publish(w) PROVE TailInv'
<1>1. UNCHANGED <<db, disk, mixed>>
      /\ tail' = [t \in Tails |-> [tail[t] EXCEPT !.scheduled = @ \/ tail[t].open]]
  BY DEF Publish
<1>2. ASSUME NEW t \in Tails
      PROVE  tail'[t] \in Ends /\ tail'[t].start = tail[t].start /\ tail'[t].cursor = tail[t].cursor /\ tail'[t].got = tail[t].got
  <2>1. tail[t] \in Ends /\ tail'[t] = [tail[t] EXCEPT !.scheduled = @ \/ tail[t].open]
    BY <1>1 DEF TailInv
  <2>2. (tail[t].scheduled \/ tail[t].open) \in BOOLEAN
    OBVIOUS
  <2>. QED  BY <2>1, <2>2 DEF Ends
<1>3. tail' \in [Tails -> Ends]
  BY <1>1, <1>2
<1>. QED
  BY <1>1, <1>2, <1>3, FlagsMove

LEMMA TailStep == ASSUME LogInv, TailInv, [LogNext]_logVars PROVE TailInv'
<1>1. CASE UNCHANGED logVars \/ PrunePlan \/ PruneNext
  <2>1. UNCHANGED <<db, disk, tail, mixed>>
    BY <1>1 DEF logVars, PrunePlan, PruneNext
  <2>. QED  BY <2>1, FlagsMove DEF TailInv
<1>2. ASSUME NEW w \in Appenders, Begin(w) \/ End(w) PROVE TailInv'
  <2>1. UNCHANGED <<db, tail, mixed>> /\ (disk' = disk \/ disk' = db)
    BY <1>2 DEF Begin, End
  <2>. QED  BY <2>1, FlagsMove DEF TailInv
<1>3. ASSUME NEW w \in Appenders, Insert(w) \/ Fold(w) \/ Publish(w) \/ Fails(w) PROVE TailInv'
  BY <1>3, TailsOfInsert, TailsOfFold, TailsOfPublish, TailsOfFail
<1>4. ASSUME NEW t \in Tails, Disconnect(t) PROVE TailInv'
  <2>1. UNCHANGED <<db, disk, mixed>> /\ tail \in [Tails -> Ends]
        /\ tail' = [tail EXCEPT ![t].open = FALSE, ![t].scheduled = FALSE]
    BY <1>4 DEF Disconnect, TailInv
  <2>2. ASSUME NEW u \in Tails
        PROVE  tail'[u] \in Ends /\ tail'[u].start = tail[u].start /\ tail'[u].cursor = tail[u].cursor /\ tail'[u].got = tail[u].got
    BY <2>1 DEF Ends
  <2>3. tail' \in [Tails -> Ends]
    BY <2>1, <2>2
  <2>. QED  BY <2>1, <2>2, <2>3, FlagsMove
<1>5. ASSUME NEW t \in Tails, Wake(t) \/ Connect(t) PROVE TailInv'
  BY <1>5, TailsOfWake, TailsOfConnect
<1>6. CASE PruneDelete \/ LogCrash
  BY <1>6, TailsOfDelete, TailsOfCrash
<1>. QED  BY <1>1, <1>2, <1>3, <1>4, <1>5, <1>6 DEF LogNext, LogSteps

LEMMA InitTails == LogInit => TailInv
<1> SUFFICES ASSUME LogInit PROVE TailInv
  OBVIOUS
<1>1. /\ db = Fresh /\ disk = Fresh
      /\ tail = [t \in Tails |-> [open |-> FALSE, scheduled |-> FALSE, threw |-> FALSE,
                                 start |-> 0, cursor |-> 0, got |-> <<>>]]
  BY DEF LogInit
<1>2. <<>> \in Seq(Events) /\ Len(<<>>) = 0
  OBVIOUS
<1>3. tail \in [Tails -> Ends]
  BY <1>1, <1>2 DEF Ends
<1>4. PlacesOK(db) /\ PlacesOK(disk)
  BY <1>1 DEF PlacesOK, Fresh
<1>5. ASSUME NEW t \in Tails PROVE HandedOK(tail[t], db)
  <2>1. tail[t].start = 0 /\ tail[t].cursor = 0 /\ tail[t].got = <<>> /\ db.log = {}
    BY <1>1 DEF Fresh
  <2>2. \A i \in 1..Len(tail[t].got) : FALSE
    BY <1>2, <2>1
  <2>. QED  BY <2>1, <2>2 DEF HandedOK
<1>. QED
  BY <1>3, <1>4, <1>5 DEF TailInv

(* A live tail (live-feed.ts, startLiveTail) hands its consumer the log in *)
(* order of position, each event once, and skips none that is still there  *)
(* up to its cursor, for any number of tails and appends and any batch     *)
(* size: wakes that coalesce, consumers that throw, clients that come back *)
(* with their last position, transcripts pruned and crashes, unless events *)
(* it had read were undone.                                                *)
THEOREM TailsAreExact == LogSpec => []TailIsExact
<1>1. TailInv => TailIsExact
  <2> SUFFICES ASSUME TailInv, ~mixed, NEW t \in Tails
               PROVE  /\ \A i, j \in 1..Len(tail[t].got) : i < j => tail[t].got[i].pos < tail[t].got[j].pos
                      /\ \A e \in db.log : tail[t].start < e.pos /\ e.pos <= tail[t].cursor => Contains(tail[t].got, e)
    BY DEF TailIsExact
  <2>1. HandedOK(tail[t], db)
    BY DEF TailInv
  <2>. QED  BY <2>1 DEF HandedOK, Contains
<1>. QED
  BY <1>1, InitLog, InitTails, LogStep, TailStep, PTL DEF LogSpec

-----------------------------------------------------------------------------
(* What a cold store is rebuilt from.                                      *)

Labels == {"ready-for-agent", "awaiting-answer", "review-maxed", "agent-stuck", "awaiting-merge",
           "master-triage", "awaiting-ci", "daemon-anomaly"}
Kinds  == {"question", "answer", "request"}
Jobs   == {"none", "driving", "adjudicating", "ask", "heal-card", "master-ask", "context", "request",
           "continuing", "resuming", "label-ci", "unlabel-ci", "merged"}
Folds  == [status : Status, ended : BOOLEAN, anomaly : BOOLEAN, asking : BOOLEAN]
IssueImages == [row : BOOLEAN, rowPr : BOOLEAN, fold : Folds, open : SUBSET Nat, context : Nat]
Hubs   == [labels : SUBSET Labels, comments : Seq(Kinds), pr : BOOLEAN, open : BOOLEAN]
Boots  == [at : {"up", "down", "facts", "context"}, labels : SUBSET Labels, question : Nat,
           request : BOOLEAN, asked : BOOLEAN]

HubTypes == hub \in Hubs /\ img \in IssueImages /\ job \in Jobs /\ boot \in Boots

(* Without a row there is no status and nobody drives; all such an image   *)
(* can hold is a flag, and its labels show it.                             *)
Bare(flagged) == [NoImage EXCEPT !.fold = [@ EXCEPT !.anomaly = flagged]]
RowOK ==
  /\ ~img.row => \E flagged \in BOOLEAN : img = Bare(flagged) /\ (flagged => hub.labels # {})
  /\ job # "none" => Up /\ img.row
  /\ boot.at \in {"facts", "context"} => img.row

(* Whoever has to do with the master was announced by a request, whoever   *)
(* waits for an answer by a question; and what is merged or closed is not  *)
(* open any more.                                                          *)
Requested(i, j)  == i.fold.status = "master-triage" \/ i.fold.asking \/ j \in {"request", "adjudicating", "master-ask"}
Questioned(i, j) == i.fold.status \in Paused \/ i.context # 0
                    \/ j \in {"ask", "heal-card", "master-ask", "resuming", "context"}
Finished(i, j)   == i.fold.status \in {"merged", "closed"} \/ j = "merged"
AnnouncedOK ==
  /\ Requested(img, job) \/ boot.request \/ boot.asked => Places("request") # {}
  /\ Questioned(img, job) \/ boot.question # 0 => Places("question") # {}
  /\ Finished(img, job) => ~hub.open

(* What a lost run left on GitHub, and what its rebuild has read of it.    *)
HeldAs(was, labels) ==
  \/ labels = DesiredLabels(was.status, {}) \cup (IF was.status = "awaiting-ci" THEN {"awaiting-ci"} ELSE {})
  \/ was.status \in Paused /\ labels = {"ready-for-agent"}

LeftOK(was) ==
  /\ img = NoImage /\ hub.pr /\ hub.open /\ HeldAs(was, hub.labels)
  /\ was.status \in Paused => was.comment = LatestQuestion /\ Places("question") # {}
  /\ was.asking => RequestBefore(was.comment)
  /\ was.status = "master-triage" => Places("request") # {}

ReadOK(was) ==
  /\ was.status # "agent-stuck" /\ HeldAs(was, boot.labels)
  /\ was.status \in Paused => was.comment = boot.question /\ boot.question # 0
  /\ was.status \in Paused /\ was.asking => boot.asked
  /\ was.status = "master-triage" => boot.request
  /\ boot.at = "facts" => img = UpsertRun(NoImage, TRUE)
  /\ boot.at = "context" => /\ was.status \in Paused /\ img.row /\ img.fold.status = "awaiting-answer"
                            /\ was.asking /\ was.status = "awaiting-answer" => img.fold.asking

LostOK ==
  \A was \in lost :
    /\ was.status \in RunStatus \ {"merged", "closed"}
    /\ boot.at = "down" => LeftOK(was)
    /\ boot.at \in {"facts", "context"} => ReadOK(was)

RestInv == HubTypes /\ RowOK /\ AnnouncedOK /\ LostOK

\* What each fact makes of a status, and of the master's question.
LEMMA FactsMove ==
  /\ \A s : /\ StatusAfter(s, "RunStarted") = "running" /\ StatusAfter(s, "Resumed") = "running"
            /\ StatusAfter(s, "Escalated") = "awaiting-answer"
            /\ StatusAfter(s, "MasterHumanQuestionRequested") = "awaiting-answer"
            /\ StatusAfter(s, "ReviewPassed") = "awaiting-merge" /\ StatusAfter(s, "CiAwaited") = "awaiting-ci"
            /\ StatusAfter(s, "ReviewMaxed") = "review-maxed" /\ StatusAfter(s, "MasterStuck") = "agent-stuck"
            /\ StatusAfter(s, "Merged") = "merged" /\ StatusAfter(s, "RunEndedClosed") = "closed"
            /\ StatusAfter(s, "MasterTriageRequested") = "master-triage"
            /\ StatusAfter(s, "MasterInterventionStarted") = "master-triage"
            /\ StatusAfter(s, "RunEnded") = s /\ StatusAfter(s, "AnomalyDetected") = s
            /\ StatusAfter(s, "AnomalyCleared") = s /\ StatusAfter(s, "QuestionAnswered") = s
  /\ \A s \in Status : \A f : StatusAfter(s, f) \in Status
<1>1. DOMAIN Projects = {"RunStarted", "Resumed", "Escalated", "MasterHumanQuestionRequested", "ReviewPassed",
                         "CiAwaited", "ReviewMaxed", "RunStuck", "MasterStuck", "Merged", "RunEndedClosed",
                         "MasterTriageRequested", "MasterInterventionStarted"}
  BY DEF Projects
<1>2. \A f \in DOMAIN Projects : Projects[f] \in Status
  BY <1>1 DEF Projects, Status, RunStatus
<1>. QED
  BY <1>1, <1>2 DEF StatusAfter, Projects

Becomes(i, j, status, asking, context) ==
  j \in IssueImages /\ j.row = i.row /\ j.fold.status = status /\ j.fold.asking = asking /\ j.context = context

LEMMA OneFact ==
  ASSUME NEW i \in IssueImages, NEW f, f.comment \in Nat
  PROVE  Becomes(i, Appended(i, f), StatusAfter(i.fold.status, f.type), AskingAfter(i.fold.asking, f.type),
                 IF f.type = "RunStarted" THEN 0 ELSE i.context)
<1>1. i.fold \in Folds /\ i.open \in SUBSET Nat /\ i.context \in Nat
  BY DEF IssueImages
<1>2. i.fold.status \in Status /\ i.fold.asking \in BOOLEAN
  BY <1>1 DEF Folds
<1>3. StatusAfter(i.fold.status, f.type) \in Status
  BY <1>2, FactsMove
<1>4. AskingAfter(i.fold.asking, f.type) \in BOOLEAN
  BY DEF AskingAfter
<1>5. /\ Evolve(i.fold, f) \in Folds
      /\ Evolve(i.fold, f).status = StatusAfter(i.fold.status, f.type)
      /\ Evolve(i.fold, f).asking = AskingAfter(i.fold.asking, f.type)
  BY <1>3, <1>4 DEF Evolve, Folds
<1>6. QuestionsAfter(i.open, f) \in SUBSET Nat
  BY <1>1 DEF QuestionsAfter
<1>7. ContextAfter(i.context, f) \in Nat /\ ContextAfter(i.context, f) = IF f.type = "RunStarted" THEN 0 ELSE i.context
  BY <1>1 DEF ContextAfter
<1> HIDE DEF Folds
<1>. QED
  BY <1>5, <1>6, <1>7 DEF Appended, IssueImages, Becomes

LEMMA FactIs ==
  ASSUME NEW i \in IssueImages, NEW type, type # "RunStarted"
  PROVE  Becomes(i, Appended(i, Fact(type)), StatusAfter(i.fold.status, type), AskingAfter(i.fold.asking, type), i.context)
<1>1. Fact(type).type = type /\ Fact(type).comment = 0
  BY DEF Fact
<1>. QED
  BY <1>1, OneFact

LEMMA FactOnIs ==
  ASSUME NEW i \in IssueImages, NEW type, type # "RunStarted", NEW c \in Nat
  PROVE  Becomes(i, Appended(i, FactOn(type, c)), StatusAfter(i.fold.status, type), AskingAfter(i.fold.asking, type), i.context)
<1>1. FactOn(type, c).type = type /\ FactOn(type, c).comment = c
  BY DEF FactOn
<1>. QED
  BY <1>1, OneFact

\* The record methods.
LEMMA StartedIs == ASSUME NEW i \in IssueImages PROVE Becomes(i, RecordRunStarted(i), "running", FALSE, 0)
<1> DEFINE f == Fact("RunStarted")
<1>1. f.type = "RunStarted" /\ f.comment = 0
  BY DEF Fact
<1>2. \A k \in IssueImages : Becomes(k, Appended(k, f), "running", FALSE, 0)
  <2> HIDE DEF f
  <2> SUFFICES ASSUME NEW k \in IssueImages PROVE Becomes(k, Appended(k, f), "running", FALSE, 0)
    OBVIOUS
  <2>1. AskingAfter(k.fold.asking, f.type) = FALSE
    BY <1>1 DEF AskingAfter
  <2>2. StatusAfter(k.fold.status, f.type) = "running"
    BY <1>1, FactsMove
  <2>3. (IF f.type = "RunStarted" THEN 0 ELSE k.context) = 0
    BY <1>1
  <2>4. f.comment \in Nat
    BY <1>1
  <2>. QED  BY <2>1, <2>2, <2>3, <2>4, OneFact
<1>3. Becomes(i, Appended(i, Fact("RunEnded")), i.fold.status, AskingAfter(i.fold.asking, "RunEnded"), i.context)
  BY FactIs, FactsMove
<1>4. CASE i.fold.status # "none" /\ ~i.fold.ended
  <2>1. RecordRunStarted(i) = Appended(Appended(i, Fact("RunEnded")), f)
    BY <1>4 DEF RecordRunStarted, AppendedBoth
  <2> HIDE DEF f
  <2>. QED  BY <1>2, <1>3, <2>1 DEF Becomes
<1>5. CASE ~(i.fold.status # "none" /\ ~i.fold.ended)
  BY <1>2, <1>5 DEF RecordRunStarted
<1>. QED
  BY <1>4, <1>5

LEMMA AskingKept ==
  \A a \in BOOLEAN : \A type : type \notin {"RunStarted", "MasterInterventionStarted", "MasterHumanQuestionRequested"} =>
    AskingAfter(a, type) = a
BY DEF AskingAfter

LEMMA RecordsOne ==
  ASSUME NEW i \in IssueImages
  PROVE  /\ Becomes(i, RecordReviewMaxed(i), "review-maxed", i.fold.asking, i.context)
         /\ Becomes(i, RecordReviewPassed(i), "awaiting-merge", i.fold.asking, i.context)
         /\ Becomes(i, RecordCiAwaited(i), "awaiting-ci", i.fold.asking, i.context)
         /\ Becomes(i, RecordHarnessMasterTriage(i), "master-triage", i.fold.asking, i.context)
         /\ Becomes(i, RecordMasterInterventionStarted(i), "master-triage", FALSE, i.context)
         /\ Becomes(i, RecordMerged(i), "merged", i.fold.asking, i.context)
         /\ Becomes(i, RecordResumed(i), "running", i.fold.asking, i.context)
         /\ Becomes(i, RecordRunEnded(i, "merged"), i.fold.status, i.fold.asking, i.context)
         /\ Becomes(i, RecordRunEnded(i, "closed"), "closed", i.fold.asking, i.context)
         /\ \A on : Becomes(i, RecordAnomaly(i, on), i.fold.status, i.fold.asking, i.context)
<1>1. i.fold.asking \in BOOLEAN
  BY DEF IssueImages, Folds
<1>2. \A type : type \notin {"RunStarted", "MasterInterventionStarted", "MasterHumanQuestionRequested"} =>
        Becomes(i, Appended(i, Fact(type)), StatusAfter(i.fold.status, type), i.fold.asking, i.context)
  BY <1>1, FactIs, AskingKept
<1>3. Becomes(i, RecordReviewMaxed(i), "review-maxed", i.fold.asking, i.context)
  BY <1>2, FactsMove DEF RecordReviewMaxed
<1>4. Becomes(i, RecordReviewPassed(i), "awaiting-merge", i.fold.asking, i.context)
  BY <1>2, FactsMove DEF RecordReviewPassed
<1>5. Becomes(i, RecordCiAwaited(i), "awaiting-ci", i.fold.asking, i.context)
  BY <1>2, FactsMove DEF RecordCiAwaited
<1>6. Becomes(i, RecordHarnessMasterTriage(i), "master-triage", i.fold.asking, i.context)
  BY <1>2, FactsMove DEF RecordHarnessMasterTriage
<1>7. Becomes(i, RecordMasterInterventionStarted(i), "master-triage", FALSE, i.context)
  <2>1. AskingAfter(i.fold.asking, "MasterInterventionStarted") = FALSE
    BY DEF AskingAfter
  <2>. QED  BY <2>1, FactIs, FactsMove DEF RecordMasterInterventionStarted
<1>8. Becomes(i, RecordMerged(i), "merged", i.fold.asking, i.context)
  BY <1>2, FactsMove DEF RecordMerged
<1>9. Becomes(i, RecordResumed(i), "running", i.fold.asking, i.context)
  BY <1>2, FactsMove DEF RecordResumed
<1>10. Becomes(i, RecordRunEnded(i, "merged"), i.fold.status, i.fold.asking, i.context)
  BY <1>2, FactsMove DEF RecordRunEnded
<1>11. Becomes(i, RecordRunEnded(i, "closed"), "closed", i.fold.asking, i.context)
  BY <1>2, FactsMove DEF RecordRunEnded
<1>12. \A on : Becomes(i, RecordAnomaly(i, on), i.fold.status, i.fold.asking, i.context)
  BY <1>2, FactsMove DEF RecordAnomaly
<1>. QED
  BY <1>3, <1>4, <1>5, <1>6, <1>7, <1>8, <1>9, <1>10, <1>11, <1>12

LEMMA RecordsTwo ==
  ASSUME NEW i \in IssueImages, NEW c \in Nat
  PROVE  /\ Becomes(i, AddQuestion(i, c), "awaiting-answer", i.fold.asking, i.context)
         /\ Becomes(i, RecordMasterHumanQuestion(i, c), "awaiting-answer", TRUE, i.context)
         /\ Becomes(i, RecordReviewMaxedQuestion(i, c), "review-maxed", i.fold.asking, i.context)
         /\ Becomes(i, RecordMasterStuck(i), "agent-stuck", i.fold.asking, i.context)
         /\ Becomes(i, AnswerAll(i), i.fold.status, i.fold.asking, i.context)
         /\ \A s : Becomes(i, RestorePausedStatus(i, s, c), IF s = "review-maxed" THEN s ELSE "awaiting-answer",
                           i.fold.asking, i.context)
<1>1. \A k \in IssueImages : k.fold.asking \in BOOLEAN
  BY DEF IssueImages, Folds
<1>2. \A k \in IssueImages : \A type : type \notin {"RunStarted", "MasterInterventionStarted", "MasterHumanQuestionRequested"} =>
        Becomes(k, Appended(k, Fact(type)), StatusAfter(k.fold.status, type), k.fold.asking, k.context)
  BY <1>1, FactIs, AskingKept
<1>3. \A k \in IssueImages : \A type : type \notin {"RunStarted", "MasterInterventionStarted", "MasterHumanQuestionRequested"} =>
        Becomes(k, Appended(k, FactOn(type, c)), StatusAfter(k.fold.status, type), k.fold.asking, k.context)
  BY <1>1, FactOnIs, AskingKept
<1>4. Becomes(i, AddQuestion(i, c), "awaiting-answer", i.fold.asking, i.context)
  BY <1>3, FactsMove DEF AddQuestion
<1>5. Becomes(i, RecordMasterHumanQuestion(i, c), "awaiting-answer", TRUE, i.context)
  <2>1. AskingAfter(i.fold.asking, "MasterHumanQuestionRequested") = TRUE
    BY DEF AskingAfter
  <2>. QED  BY <2>1, FactOnIs, FactsMove DEF RecordMasterHumanQuestion
<1>6. Becomes(i, RecordReviewMaxedQuestion(i, c), "review-maxed", i.fold.asking, i.context)
  <2> DEFINE k == AddQuestion(i, c)
  <2>1. RecordReviewMaxedQuestion(i, c) = Appended(k, Fact("ReviewMaxed"))
    BY DEF RecordReviewMaxedQuestion, AppendedBoth, AddQuestion
  <2> HIDE DEF k
  <2>2. Becomes(k, Appended(k, Fact("ReviewMaxed")), "review-maxed", k.fold.asking, k.context)
    BY <1>2, <1>4, FactsMove DEF k, Becomes
  <2>. QED  BY <1>4, <2>1, <2>2 DEF k, Becomes
<1>7. Becomes(i, RecordMasterStuck(i), "agent-stuck", i.fold.asking, i.context)
  <2> DEFINE k == Appended(i, Fact("MasterStuck"))
  <2>1. RecordMasterStuck(i) = Appended(k, Fact("RunEnded"))
    BY DEF RecordMasterStuck, AppendedBoth
  <2>2. Becomes(i, k, "agent-stuck", i.fold.asking, i.context)
    BY <1>2, FactsMove
  <2> HIDE DEF k
  <2>3. Becomes(k, Appended(k, Fact("RunEnded")), k.fold.status, k.fold.asking, k.context)
    BY <1>2, <2>2, FactsMove DEF Becomes
  <2>. QED  BY <2>1, <2>2, <2>3 DEF Becomes
<1>8. Becomes(i, AnswerAll(i), i.fold.status, i.fold.asking, i.context)
  BY DEF AnswerAll, Becomes, IssueImages
<1>9. ASSUME NEW s
      PROVE  Becomes(i, RestorePausedStatus(i, s, c), IF s = "review-maxed" THEN s ELSE "awaiting-answer", i.fold.asking, i.context)
  <2> DEFINE k == IF s = "review-maxed" THEN RecordReviewMaxed(i) ELSE AddQuestion(i, c)
  <2>1. RestorePausedStatus(i, s, c) = Appended(k, FactOn("QuestionAnswered", c))
    BY DEF RestorePausedStatus, AppendedBoth, RecordReviewMaxed, AddQuestion
  <2>2. Becomes(i, k, IF s = "review-maxed" THEN s ELSE "awaiting-answer", i.fold.asking, i.context)
    BY <1>4, RecordsOne
  <2> HIDE DEF k
  <2>3. Becomes(k, Appended(k, FactOn("QuestionAnswered", c)), k.fold.status, k.fold.asking, k.context)
    BY <1>3, <2>2, FactsMove DEF Becomes
  <2>. QED  BY <2>1, <2>2, <2>3 DEF Becomes
<1>. QED
  BY <1>4, <1>5, <1>6, <1>7, <1>8, <1>9

LEMMA UpsertIs ==
  ASSUME NEW i \in IssueImages, NEW pr \in BOOLEAN
  PROVE  /\ UpsertRun(i, pr) \in IssueImages /\ UpsertRun(i, pr).row
         /\ UpsertRun(i, pr).fold = i.fold /\ UpsertRun(i, pr).context = i.context
BY DEF UpsertRun, IssueImages

LEMMA ContextIs ==
  ASSUME NEW i \in IssueImages, i.row, NEW c \in Nat
  PROVE  Becomes(i, SetResumeContext(i, c), i.fold.status, i.fold.asking, c)
BY DEF SetResumeContext, IssueImages, Becomes

\* The status of a run is that of its fold, or running.
LEMMA StatusIs ==
  ASSUME NEW i
  PROVE  /\ i.row => StatusOf(i) = IF i.fold.status = "none" THEN "running" ELSE i.fold.status
         /\ ~i.row => StatusOf(i) = i.fold.status
BY DEF StatusOf

\* The last of some numbers below a bound.
LEMMA LastIs ==
  ASSUME NEW ns \in SUBSET Nat, ns # {}, NEW b \in Nat, \A n \in ns : n <= b
  PROVE  Max(ns) \in ns /\ \A n \in ns : n <= Max(ns)
<1> DEFINE Fewer == {p \in Nat \X Nat : p[1] < p[2]}
           rest == {b - n : n \in ns}
<1>1. rest \in SUBSET Nat /\ rest # {}
  <2>1. \A n \in ns : b - n \in Nat
    OBVIOUS
  <2>. QED  BY <2>1
<1>2. IsWellFoundedOn(Fewer, Nat)
  BY NatLessThanWellFounded, IsWellFoundedOnSubrelation DEF OpToRel
<1>3. PICK r \in rest : \A q \in rest : <<q, r>> \notin Fewer
  <2> HIDE DEF rest, Fewer
  <2>. QED  BY <1>1, <1>2, WFMin
<1>4. \A q \in rest : r <= q
  <2> SUFFICES ASSUME NEW q \in rest PROVE r <= q
    OBVIOUS
  <2>1. q \in Nat /\ r \in Nat
    BY <1>1
  <2>2. <<q, r>> \in Nat \X Nat
    BY <2>1
  <2>3. ~(q < r)
    BY <1>3, <2>2
  <2>. QED  BY <2>1, <2>3
<1>5. PICK m \in ns : r = b - m
  OBVIOUS
<1>6. \A n \in ns : n <= m
  <2> SUFFICES ASSUME NEW n \in ns PROVE n <= m
    OBVIOUS
  <2>1. b - n \in rest
    OBVIOUS
  <2>2. b - m <= b - n
    BY <1>4, <1>5, <2>1
  <2>3. m \in Nat /\ n \in Nat
    BY <1>5
  <2>. QED  BY <2>2, <2>3
<1>7. \E x \in ns : \A y \in ns : x >= y
  BY <1>6
<1>. QED
  BY <1>7 DEF Max

LEMMA LatestIs ==
  ASSUME HubTypes, NEW k
  PROVE  LatestOf(k) \in Nat /\ (LatestOf(k) # 0 <=> Places(k) # {})
<1> DEFINE ns == Places(k) \cup {0}
<1>1. hub.comments \in Seq(Kinds) /\ Len(hub.comments) \in Nat
  BY DEF HubTypes, Hubs
<1>2. \A i \in Places(k) : i \in Nat /\ i >= 1 /\ i <= Len(hub.comments)
  BY <1>1 DEF Places
<1>3. ns \in SUBSET Nat /\ ns # {} /\ \A n \in ns : n <= Len(hub.comments)
  BY <1>1, <1>2
<1>4. LatestOf(k) = Max(ns)
  BY DEF LatestOf
<1> HIDE DEF ns
<1>5. LatestOf(k) \in ns /\ \A n \in ns : n <= LatestOf(k)
  BY <1>1, <1>3, <1>4, LastIs
<1>. QED
  BY <1>2, <1>5 DEF ns

LEMMA WithoutIs ==
  ASSUME HubTypes, NEW ls
  PROVE  /\ Without(ls) \in Hubs /\ Without(ls).comments = hub.comments /\ Without(ls).open = hub.open
         /\ Without(ls).pr = hub.pr /\ Without(ls).labels = hub.labels \ ls
BY DEF Without, HubTypes, Hubs

LEMMA WithIs ==
  ASSUME HubTypes, NEW ls \in SUBSET Labels
  PROVE  /\ With(ls) \in Hubs /\ With(ls).comments = hub.comments /\ With(ls).open = hub.open
         /\ With(ls).pr = hub.pr /\ With(ls).labels = hub.labels \cup ls
BY DEF With, HubTypes, Hubs

LEMMA CommentedIs ==
  ASSUME HubTypes, NEW c \in Kinds
  PROVE  /\ Commented(c) \in Hubs /\ Commented(c).comments = Append(hub.comments, c)
         /\ Commented(c).open = hub.open /\ Commented(c).pr = hub.pr /\ Commented(c).labels = hub.labels
<1>1. Append(hub.comments, c) \in Seq(Kinds)
  BY DEF HubTypes, Hubs
<1>. QED
  BY <1>1 DEF Commented, HubTypes, Hubs

\* No comment goes.
Grown == \A k : Places(k) # {} => Places(k)' # {}

LEMMA CommentsStay ==
  ASSUME hub'.comments = hub.comments
  PROVE  Grown /\ \A k : Places(k)' = Places(k) /\ LatestOf(k)' = LatestOf(k)
<1>1. \A k : Places(k)' = Places(k)
  BY DEF Places
<1>. QED
  BY <1>1 DEF Grown, LatestOf

LEMMA CommentAdds ==
  ASSUME HubTypes, NEW c \in Kinds, hub'.comments = Append(hub.comments, c)
  PROVE  Grown /\ Places(c)' # {} /\ \A k : k # c => Places(k)' = Places(k)
<1> DEFINE n == Len(hub.comments)
<1>1. hub.comments \in Seq(Kinds) /\ n \in Nat
  BY DEF HubTypes, Hubs
<1>2. /\ Len(hub'.comments) = n + 1 /\ hub'.comments[n + 1] = c
      /\ \A i \in 1..n : hub'.comments[i] = hub.comments[i]
  BY <1>1
<1> HIDE DEF n
<1>3. \A k : Places(k) = {i \in 1..n : hub.comments[i] = k}
  BY DEF Places, n
<1>4. \A k : Places(k)' = {i \in 1..(n + 1) : hub'.comments[i] = k}
  BY <1>2 DEF Places
<1>5. 1..(n + 1) = (1..n) \cup {n + 1}
  BY <1>1
<1>6. n + 1 \in Places(c)'
  BY <1>2, <1>4, <1>5
<1>7. ASSUME NEW k PROVE Places(k) \subseteq Places(k)' /\ (k # c => Places(k)' = Places(k))
  BY <1>2, <1>3, <1>4, <1>5
<1>. QED
  BY <1>6, <1>7 DEF Grown

\* A step of the daemon while it is up, on an issue with a run.
LEMMA Drives ==
  ASSUME RestInv, Up, boot' = boot, lost' = lost,
         hub' \in Hubs, Grown, hub'.open => hub.open,
         img' \in IssueImages, img'.row, job' \in Jobs,
         Requested(img', job') => Requested(img, job) \/ Places("request")' # {},
         Questioned(img', job') => Questioned(img, job) \/ Places("question")' # {},
         Finished(img', job') => Finished(img, job) \/ ~hub'.open
  PROVE  RestInv'
<1>1. HubTypes'
  BY DEF RestInv, HubTypes
<1>2. RowOK'
  BY DEF RowOK, Up
<1>3. AnnouncedOK'
  BY DEF RestInv, AnnouncedOK, Grown
<1>4. LostOK'
  BY DEF RestInv, LostOK, Up
<1>. QED
  BY <1>1, <1>2, <1>3, <1>4 DEF RestInv

LEMMA KeepsIs == ASSUME Keeps(<<>>) \/ Keeps(hub) \/ Keeps(img) \/ Keeps(job) PROVE boot' = boot /\ lost' = lost
BY DEF Keeps

LEMMA ClaimKeeps == ASSUME RestInv, Claim PROVE RestInv'
<1>1. Up /\ boot' = boot /\ lost' = lost /\ job' = "driving"
      /\ hub' = Without({"ready-for-agent"}) /\ img' = RecordRunStarted(UpsertRun(img, FALSE))
  BY DEF Claim, Keeps
<1>2. HubTypes
  BY DEF RestInv
<1>3. hub' \in Hubs /\ hub'.comments = hub.comments /\ hub'.open = hub.open
  BY <1>1, <1>2, WithoutIs
<1>4. UpsertRun(img, FALSE) \in IssueImages /\ UpsertRun(img, FALSE).row
  BY <1>2, UpsertIs DEF HubTypes
<1>5. img' \in IssueImages /\ img'.row /\ img'.fold.status = "running" /\ img'.fold.asking = FALSE /\ img'.context = 0
  BY <1>1, <1>4, StartedIs DEF Becomes
<1>6. ~Requested(img', job') /\ ~Questioned(img', job') /\ ~Finished(img', job') /\ job' \in Jobs
  BY <1>1, <1>5 DEF Requested, Questioned, Finished, Jobs, Paused
<1>. QED
  BY <1>1, <1>3, <1>5, <1>6, CommentsStay, Drives

\* A driver that leaves the comments and the openness of the issue alone.
LEMMA DrivesOn ==
  ASSUME RestInv, Up, boot' = boot, lost' = lost, job' \in Jobs, img' \in IssueImages, img'.row,
         hub' \in Hubs, hub'.comments = hub.comments, hub'.open => hub.open,
         Requested(img', job') => Requested(img, job), Questioned(img', job') => Questioned(img, job),
         Finished(img', job') => Finished(img, job) \/ ~hub'.open
  PROVE  RestInv'
BY CommentsStay, Drives

\* An issue whose run has a status, or that somebody drives, has a run.
LEMMA HasRow ==
  ASSUME RestInv, job # "none" \/ StatusNow # "none"
  PROVE  img.row /\ (StatusNow # "running" => StatusNow = img.fold.status) /\ StatusNow # "none"
<1>1. ~img.row => img.fold.status = "none" /\ job = "none"
  BY DEF RestInv, RowOK, Bare, NoImage, InitialFold
<1>. QED
  BY <1>1, StatusIs DEF StatusNow

LEMMA OpenPrKeeps == ASSUME RestInv, OpenPr PROVE RestInv'
<1>1. Up /\ boot' = boot /\ lost' = lost /\ job' = job
      /\ hub' = [hub EXCEPT !.pr = TRUE] /\ img' = UpsertRun(img, TRUE)
  BY DEF OpenPr, Keeps
<1>2. img \in IssueImages /\ hub \in Hubs /\ job' \in Jobs
  BY <1>1 DEF RestInv, HubTypes
<1>3. img' \in IssueImages /\ img'.row /\ img'.fold = img.fold /\ img'.context = img.context
  BY <1>1, <1>2, UpsertIs
<1>4. hub' \in Hubs /\ hub'.comments = hub.comments /\ hub'.open = hub.open
  BY <1>1, <1>2 DEF Hubs
<1>5. /\ Requested(img', job') => Requested(img, job)
      /\ Questioned(img', job') => Questioned(img, job)
      /\ Finished(img', job') => Finished(img, job)
  BY <1>1, <1>3 DEF Requested, Questioned, Finished
<1>. QED
  BY <1>1, <1>2, <1>3, <1>4, <1>5, DrivesOn

LEMMA PostQuestionKeeps == ASSUME RestInv, PostQuestion PROVE RestInv'
<1>1. /\ Up /\ boot' = boot /\ lost' = lost /\ job \in {"driving", "adjudicating"}
      /\ hub' = EnsuredPr(Commented("question")) \/ (LatestQuestion # 0 /\ hub' = hub)
      /\ img' = UpsertRun(img, TRUE)
      /\ job' \in {"ask", "heal-card"} \/ (job' = "master-ask" /\ job = "adjudicating")
  BY DEF PostQuestion, Keeps
<1>2. img \in IssueImages /\ hub \in Hubs /\ job' \in Jobs /\ HubTypes
  BY <1>1 DEF RestInv, HubTypes, Jobs
<1>3. img' \in IssueImages /\ img'.row /\ img'.fold = img.fold /\ img'.context = img.context
  BY <1>1, <1>2, UpsertIs
<1>4. hub' \in Hubs /\ hub'.open = hub.open /\ Grown /\ Places("question")' # {}
  <2>1. CASE hub' = EnsuredPr(Commented("question"))
    <3>1. "question" \in Kinds
      BY DEF Kinds
    <3>2. hub' \in Hubs /\ hub'.open = hub.open /\ hub'.comments = Append(hub.comments, "question")
      <4>1. Commented("question") \in Hubs
        BY <1>2, <3>1, CommentedIs
      <4>2. hub' \in Hubs /\ hub'.open = Commented("question").open /\ hub'.comments = Commented("question").comments
        BY <2>1, <4>1 DEF EnsuredPr, Hubs
      <4>. QED  BY <1>2, <3>1, <4>2, CommentedIs
    <3>. QED  BY <1>2, <3>1, <3>2, CommentAdds
  <2>2. CASE LatestQuestion # 0 /\ hub' = hub
    <3>1. Places("question") # {}
      BY <1>2, <2>2, LatestIs DEF LatestQuestion
    <3>. QED  BY <1>2, <2>2, <3>1, CommentsStay
  <2>. QED  BY <1>1, <2>1, <2>2
<1>5. /\ Requested(img', job') => Requested(img, job)
      /\ Finished(img', job') => Finished(img, job)
  BY <1>1, <1>3 DEF Requested, Finished
<1>. QED
  BY <1>1, <1>2, <1>3, <1>4, <1>5, Drives

LEMMA RecordQuestionKeeps == ASSUME RestInv, RecordQuestion PROVE RestInv'
<1>1. /\ Up /\ boot' = boot /\ lost' = lost /\ hub' = hub /\ job' = "context"
      /\ job \in {"ask", "heal-card", "master-ask"}
      /\ \/ job = "ask" /\ img' = AddQuestion(img, LatestQuestion)
         \/ job = "heal-card" /\ img' = RecordReviewMaxedQuestion(img, LatestQuestion)
         \/ job = "master-ask" /\ img' = RecordMasterHumanQuestion(img, LatestQuestion)
  BY DEF RecordQuestion, Keeps
<1>2. img \in IssueImages /\ hub \in Hubs /\ job' \in Jobs /\ HubTypes
  BY <1>1 DEF RestInv, HubTypes, Jobs
<1>3. LatestQuestion \in Nat /\ img.row
  BY <1>1, <1>2, LatestIs, HasRow DEF LatestQuestion
<1>4. /\ img' \in IssueImages /\ img'.row /\ img'.context = img.context
      /\ img'.fold.status \in {"awaiting-answer", "review-maxed"}
      /\ img'.fold.asking => img.fold.asking \/ job = "master-ask"
  <2>1. CASE job = "ask"
    <3>1. Becomes(img, img', "awaiting-answer", img.fold.asking, img.context)
      BY <1>1, <1>2, <1>3, <2>1, RecordsTwo
    <3>. QED  BY <1>3, <3>1 DEF Becomes
  <2>2. CASE job = "heal-card"
    <3>1. Becomes(img, img', "review-maxed", img.fold.asking, img.context)
      BY <1>1, <1>2, <1>3, <2>2, RecordsTwo
    <3>. QED  BY <1>3, <3>1 DEF Becomes
  <2>3. CASE job = "master-ask"
    <3>1. Becomes(img, img', "awaiting-answer", TRUE, img.context)
      BY <1>1, <1>2, <1>3, <2>3, RecordsTwo
    <3>. QED  BY <1>3, <2>3, <3>1 DEF Becomes
  <2>. QED  BY <1>1, <2>1, <2>2, <2>3
<1>5. Requested(img', job') => Requested(img, job)
  BY <1>1, <1>4 DEF Requested
<1>6. Questioned(img, job) /\ ~Finished(img', job')
  BY <1>1, <1>4 DEF Questioned, Finished
<1>. QED
  BY <1>1, <1>2, <1>4, <1>5, <1>6, DrivesOn

LEMMA SetContextKeeps == ASSUME RestInv, SetContext PROVE RestInv'
<1>1. Up /\ boot' = boot /\ lost' = lost /\ hub' = hub /\ job = "context" /\ job' = "none"
      /\ img' = SetResumeContext(img, LatestQuestion)
  BY DEF SetContext, Keeps
<1>2. img \in IssueImages /\ hub \in Hubs /\ job' \in Jobs /\ HubTypes
  BY <1>1 DEF RestInv, HubTypes, Jobs
<1>3. LatestQuestion \in Nat /\ img.row
  BY <1>1, <1>2, LatestIs, HasRow DEF LatestQuestion
<1>4. Becomes(img, img', img.fold.status, img.fold.asking, LatestQuestion)
  BY <1>1, <1>2, <1>3, ContextIs
<1>5. img' \in IssueImages /\ img'.row /\ img'.fold.status = img.fold.status /\ img'.fold.asking = img.fold.asking
  BY <1>3, <1>4 DEF Becomes
<1>6. Requested(img', job') => Requested(img, job)
  BY <1>1, <1>5 DEF Requested
<1>7. Questioned(img, job)
  BY <1>1 DEF Questioned
<1>8. Finished(img', job') => Finished(img, job)
  BY <1>1, <1>5 DEF Finished
<1>. QED
  BY <1>1, <1>2, <1>5, <1>6, <1>7, <1>8, DrivesOn

\* A driver that moves the run to some status.
LEMMA MovesRun ==
  ASSUME RestInv, Up, boot' = boot, lost' = lost, img.row, job' \in Jobs,
         hub' \in Hubs, hub'.comments = hub.comments, hub'.open => hub.open,
         NEW s, NEW a, Becomes(img, img', s, a, img.context), a => img.fold.asking,
         s = "master-triage" \/ job' \in {"request", "adjudicating", "master-ask"} => Requested(img, job),
         s \in Paused \/ job' \in {"ask", "heal-card", "master-ask", "resuming", "context"} => Questioned(img, job),
         s \in {"merged", "closed"} \/ job' = "merged" => Finished(img, job) \/ ~hub'.open
  PROVE  RestInv'
<1>1. img' \in IssueImages /\ img'.row /\ img'.fold.status = s /\ img'.fold.asking = a /\ img'.context = img.context
  BY DEF Becomes
<1>2. Requested(img', job') => Requested(img, job)
  BY <1>1 DEF Requested
<1>3. Questioned(img', job') => Questioned(img, job)
  BY <1>1 DEF Questioned
<1>4. Finished(img', job') => Finished(img, job) \/ ~hub'.open
  BY <1>1 DEF Finished
<1>. QED
  BY <1>1, <1>2, <1>3, <1>4, DrivesOn

LEMMA StaysPut == ASSUME NEW i \in IssueImages PROVE Becomes(i, i, i.fold.status, i.fold.asking, i.context)
BY DEF Becomes

LEMMA MasterMoves ==
  ASSUME RestInv, Adjudicate \/ MasterHandsBack \/ MasterContinues
  PROVE  RestInv'
<1>0. img \in IssueImages /\ hub \in Hubs /\ HubTypes
  BY DEF RestInv, HubTypes
<1>1. CASE Adjudicate
  <2>1. /\ Up /\ boot' = boot /\ lost' = lost /\ hub' = hub /\ job' = "adjudicating" /\ StatusNow = "master-triage"
        /\ img' = RecordMasterInterventionStarted(img)
    BY <1>1 DEF Adjudicate, Keeps
  <2>2. img.row /\ img.fold.status = "master-triage" /\ job' \in Jobs
    BY <2>1, HasRow DEF Jobs
  <2>3. Becomes(img, img', "master-triage", FALSE, img.context)
    BY <1>0, <2>1, RecordsOne
  <2>4. Requested(img, job)
    BY <2>2 DEF Requested
  <2>. QED  BY <1>0, <2>1, <2>2, <2>3, <2>4, MovesRun DEF Paused
<1>2. CASE MasterHandsBack
  <2>1. /\ Up /\ boot' = boot /\ lost' = lost /\ hub' = hub /\ job = "adjudicating" /\ job' \in {"driving", "none"}
        /\ img' = RecordResumed(img)
    BY <1>2 DEF MasterHandsBack, Keeps
  <2>2. img.row /\ job' \in Jobs
    BY <2>1, HasRow DEF Jobs
  <2>3. Becomes(img, img', "running", img.fold.asking, img.context)
    BY <1>0, <2>1, RecordsOne
  <2>. QED  BY <1>0, <2>1, <2>2, <2>3, MovesRun DEF Paused
<1>3. CASE MasterContinues
  <2>1. /\ Up /\ boot' = boot /\ lost' = lost /\ img' = img /\ job = "adjudicating" /\ job' = "continuing"
        /\ hub' = Without({"ready-for-agent"} \cup Paused)
    BY <1>3 DEF MasterContinues, Keeps
  <2>2. img.row /\ job' \in Jobs
    BY <2>1, HasRow DEF Jobs
  <2>3. hub' \in Hubs /\ hub'.comments = hub.comments /\ hub'.open = hub.open
    BY <1>0, <2>1, WithoutIs
  <2>4. Becomes(img, img', img.fold.status, img.fold.asking, img.context)
    BY <1>0, <2>1, StaysPut
  <2>5. /\ img.fold.status = "master-triage" => Requested(img, job)
        /\ img.fold.status \in Paused => Questioned(img, job)
        /\ img.fold.status \in {"merged", "closed"} => Finished(img, job)
    BY DEF Requested, Questioned, Finished
  <2>. QED  BY <2>1, <2>2, <2>3, <2>4, <2>5, MovesRun
<1>. QED
  BY <1>1, <1>2, <1>3

LEMMA CiMoves ==
  ASSUME RestInv, ParkCi \/ LabelCi \/ ResumeAfterCi \/ UnlabelCi \/ ParkMerge
  PROVE  RestInv'
<1>0. img \in IssueImages /\ hub \in Hubs /\ HubTypes
  BY DEF RestInv, HubTypes
<1>1. CASE ParkCi
  <2>1. /\ Up /\ boot' = boot /\ lost' = lost /\ hub' = hub /\ job = "driving" /\ job' = "label-ci"
        /\ img' = RecordCiAwaited(img)
    BY <1>1 DEF ParkCi, Keeps
  <2>2. img.row /\ job' \in Jobs
    BY <2>1, HasRow DEF Jobs
  <2>3. Becomes(img, img', "awaiting-ci", img.fold.asking, img.context)
    BY <1>0, <2>1, RecordsOne
  <2>. QED  BY <1>0, <2>1, <2>2, <2>3, MovesRun DEF Paused
<1>2. CASE LabelCi \/ UnlabelCi
  <2>1. /\ Up /\ boot' = boot /\ lost' = lost /\ img' = img /\ job # "none" /\ job' \in {"none", "driving"}
        /\ hub' = hub \/ hub' = With({"awaiting-ci"}) \/ hub' = Without({"awaiting-ci"})
    BY <1>2 DEF LabelCi, UnlabelCi, Keeps
  <2>2. img.row /\ job' \in Jobs
    BY <2>1, HasRow DEF Jobs
  <2>3. hub' \in Hubs /\ hub'.comments = hub.comments /\ hub'.open = hub.open
    <3>1. {"awaiting-ci"} \in SUBSET Labels
      BY DEF Labels
    <3>. QED  BY <1>0, <2>1, <3>1, WithIs, WithoutIs
  <2>4. Becomes(img, img', img.fold.status, img.fold.asking, img.context)
    BY <1>0, <2>1, StaysPut
  <2>5. /\ img.fold.status = "master-triage" => Requested(img, job)
        /\ img.fold.status \in Paused => Questioned(img, job)
        /\ img.fold.status \in {"merged", "closed"} => Finished(img, job)
    BY DEF Requested, Questioned, Finished
  <2>. QED  BY <2>1, <2>2, <2>3, <2>4, <2>5, MovesRun
<1>3. CASE ResumeAfterCi
  <2>1. /\ Up /\ boot' = boot /\ lost' = lost /\ hub' = hub /\ job' = "unlabel-ci" /\ StatusNow = "awaiting-ci"
        /\ img' = RecordResumed(img)
    BY <1>3 DEF ResumeAfterCi, Keeps
  <2>2. img.row /\ job' \in Jobs
    BY <2>1, HasRow DEF Jobs
  <2>3. Becomes(img, img', "running", img.fold.asking, img.context)
    BY <1>0, <2>1, RecordsOne
  <2>. QED  BY <1>0, <2>1, <2>2, <2>3, MovesRun DEF Paused
<1>4. CASE ParkMerge
  <2>1. /\ Up /\ boot' = boot /\ lost' = lost /\ hub' = hub /\ job = "driving" /\ job' = "none"
        /\ img' = RecordReviewPassed(img)
    BY <1>4 DEF ParkMerge, Keeps
  <2>2. img.row /\ job' \in Jobs
    BY <2>1, HasRow DEF Jobs
  <2>3. Becomes(img, img', "awaiting-merge", img.fold.asking, img.context)
    BY <1>0, <2>1, RecordsOne
  <2>. QED  BY <1>0, <2>1, <2>2, <2>3, MovesRun DEF Paused
<1>. QED
  BY <1>1, <1>2, <1>3, <1>4

LEMMA RunEnds ==
  ASSUME RestInv, Integrate \/ RecordMerge \/ Recover \/ CloseOut
  PROVE  RestInv'
<1>0. img \in IssueImages /\ hub \in Hubs /\ HubTypes
  BY DEF RestInv, HubTypes
<1>1. CASE Integrate
  <2>1. /\ Up /\ boot' = boot /\ lost' = lost /\ img' = img /\ job' = "merged" /\ StatusNow = "awaiting-merge"
        /\ hub' = [hub EXCEPT !.pr = FALSE, !.open = FALSE]
    BY <1>1 DEF Integrate, Keeps
  <2>2. img.row /\ job' \in Jobs /\ img.fold.status = "awaiting-merge"
    BY <2>1, HasRow DEF Jobs
  <2>3. hub' \in Hubs /\ hub'.comments = hub.comments /\ ~hub'.open
    BY <1>0, <2>1 DEF Hubs
  <2>4. Becomes(img, img', "awaiting-merge", img.fold.asking, img.context)
    BY <1>0, <2>1, <2>2, StaysPut
  <2>. QED  BY <2>1, <2>2, <2>3, <2>4, MovesRun DEF Paused
<1>2. CASE RecordMerge
  <2>1. /\ Up /\ boot' = boot /\ lost' = lost /\ hub' = hub /\ job = "merged" /\ job' = "none"
        /\ img' = RecordRunEnded(RecordMerged(img), "merged")
    BY <1>2 DEF RecordMerge, Keeps
  <2>2. img.row /\ job' \in Jobs /\ Finished(img, job)
    BY <2>1, HasRow DEF Jobs, Finished
  <2>3. Becomes(img, RecordMerged(img), "merged", img.fold.asking, img.context)
    BY <1>0, RecordsOne
  <2>4. Becomes(img, img', "merged", img.fold.asking, img.context)
    <3>1. PICK k : k = RecordMerged(img)
      OBVIOUS
    <3>2. Becomes(k, RecordRunEnded(k, "merged"), k.fold.status, k.fold.asking, k.context)
      BY <2>3, <3>1, RecordsOne DEF Becomes
    <3>. QED  BY <2>1, <2>3, <3>1, <3>2 DEF Becomes
  <2>. QED  BY <1>0, <2>1, <2>2, <2>4, MovesRun DEF Paused
<1>3. CASE Recover
  <2>1. /\ Up /\ boot' = boot /\ lost' = lost /\ hub' = hub /\ img' = img /\ job' = "driving" /\ StatusNow = "running"
    BY <1>3 DEF Recover, Keeps
  <2>2. img.row /\ job' \in Jobs
    BY <2>1, HasRow DEF Jobs
  <2>3. Becomes(img, img', img.fold.status, img.fold.asking, img.context)
    BY <1>0, <2>1, StaysPut
  <2>4. /\ img.fold.status = "master-triage" => Requested(img, job)
        /\ img.fold.status \in Paused => Questioned(img, job)
        /\ img.fold.status \in {"merged", "closed"} => Finished(img, job)
    BY DEF Requested, Questioned, Finished
  <2>. QED  BY <1>0, <2>1, <2>2, <2>3, <2>4, MovesRun
<1>4. CASE CloseOut
  <2>1. /\ Up /\ boot' = boot /\ lost' = lost /\ hub' = hub /\ job' = job /\ job = "none" /\ img.row /\ ~hub.open
        /\ img' = RecordRunEnded(img, "closed")
    BY <1>4 DEF CloseOut, Keeps, NoJob
  <2>2. job' \in Jobs
    BY <2>1 DEF Jobs
  <2>3. Becomes(img, img', "closed", img.fold.asking, img.context)
    BY <1>0, <2>1, RecordsOne
  <2>. QED  BY <1>0, <2>1, <2>2, <2>3, MovesRun DEF Paused
<1>. QED
  BY <1>1, <1>2, <1>3, <1>4

LEMMA ResumeKeeps == ASSUME RestInv, Resume PROVE RestInv'
<1>0. img \in IssueImages /\ hub \in Hubs /\ HubTypes
  BY DEF RestInv, HubTypes
<1>1. /\ Up /\ boot' = boot /\ lost' = lost /\ job \in {"resuming", "continuing"}
      /\ \/ img' = Resumed /\ job' = "driving" /\ hub' = hub
         \/ /\ hub' = With({"ready-for-agent"}) /\ job' = "none"
            /\ img' = IF job = "resuming" THEN RestorePausedStatus(Resumed, StatusNow, img.context) ELSE Resumed
  BY DEF Resume, Keeps
<1>2. img.row /\ job' \in Jobs
  BY <1>1, HasRow DEF Jobs
<1>3. hub' \in Hubs /\ hub'.comments = hub.comments /\ hub'.open = hub.open
  <2>1. {"ready-for-agent"} \in SUBSET Labels
    BY DEF Labels
  <2>. QED  BY <1>0, <1>1, <2>1, WithIs
<1>4. Becomes(img, Resumed, "running", img.fold.asking, img.context)
  <2>1. Becomes(img, AnswerAll(img), img.fold.status, img.fold.asking, img.context)
    <3>1. 0 \in Nat
      OBVIOUS
    <3>. QED  BY <1>0, <3>1, RecordsTwo
  <2>2. PICK k : k = AnswerAll(img)
    OBVIOUS
  <2>3. Becomes(k, RecordResumed(k), "running", k.fold.asking, k.context)
    BY <2>1, <2>2, RecordsOne DEF Becomes
  <2>. QED  BY <2>1, <2>2, <2>3 DEF Resumed, Becomes
<1>5. CASE img' = Resumed
  BY <1>1, <1>2, <1>3, <1>4, <1>5, MovesRun DEF Paused
<1>6. CASE job = "resuming" /\ job' = "none" /\ img' = RestorePausedStatus(Resumed, StatusNow, img.context)
  <2>1. PICK k : k = Resumed
    OBVIOUS
  <2>2. k \in IssueImages /\ img.context \in Nat
    BY <1>0, <1>4, <2>1 DEF Becomes, IssueImages
  <2>3. \A s : Becomes(k, RestorePausedStatus(k, s, img.context), IF s = "review-maxed" THEN s ELSE "awaiting-answer",
                       k.fold.asking, k.context)
    BY <2>2, RecordsTwo
  <2>4. PICK s : Becomes(img, img', s, img.fold.asking, img.context) /\ s \in {"review-maxed", "awaiting-answer"}
    BY <1>4, <1>6, <2>1, <2>3 DEF Becomes
  <2>5. Questioned(img, job)
    BY <1>6 DEF Questioned
  <2>. QED  BY <1>1, <1>2, <1>3, <1>6, <2>4, <2>5, MovesRun
<1>. QED
  BY <1>1, <1>5, <1>6

\* A card on the issue.
LEMMA Posts ==
  ASSUME RestInv, Up, boot' = boot, lost' = lost, img.row, job' \in Jobs, NEW c \in {"question", "request"},
         hub' \in Hubs, hub'.comments = Append(hub.comments, c), hub'.open = hub.open,
         NEW s, NEW a, Becomes(img, img', s, a, img.context), a => img.fold.asking,
         s = "master-triage" \/ job' \in {"request", "adjudicating", "master-ask"} => c = "request" \/ Requested(img, job),
         s \in Paused \/ job' \in {"ask", "heal-card", "master-ask", "resuming", "context"} => Questioned(img, job),
         s \in {"merged", "closed"} \/ job' = "merged" => Finished(img, job)
  PROVE  RestInv'
<1>1. img' \in IssueImages /\ img'.row /\ img'.fold.status = s /\ img'.fold.asking = a /\ img'.context = img.context
  BY DEF Becomes
<1>2. Grown /\ Places(c)' # {}
  BY CommentAdds DEF RestInv, Kinds
<1>3. Requested(img', job') => Requested(img, job) \/ Places("request")' # {}
  BY <1>1, <1>2 DEF Requested
<1>4. Questioned(img', job') => Questioned(img, job)
  BY <1>1 DEF Questioned
<1>5. Finished(img', job') => Finished(img, job)
  BY <1>1 DEF Finished
<1>. QED
  BY <1>1, <1>2, <1>3, <1>4, <1>5, Drives

LEMMA RequestMoves ==
  ASSUME RestInv, PostRequest \/ RecordRequest \/ MasterGivesUp
  PROVE  RestInv'
<1>0. img \in IssueImages /\ hub \in Hubs /\ HubTypes /\ {"request", "question"} \subseteq Kinds
  BY DEF RestInv, HubTypes, Kinds
<1>1. CASE PostRequest
  <2>1. /\ Up /\ boot' = boot /\ lost' = lost /\ img' = img /\ job' = "request" /\ hub' = Commented("request")
        /\ job = "driving" \/ StatusNow = "running"
    BY <1>1 DEF PostRequest, Keeps
  <2>2. img.row /\ job' \in Jobs
    BY <2>1, HasRow DEF Jobs
  <2>3. hub' \in Hubs /\ hub'.comments = Append(hub.comments, "request") /\ hub'.open = hub.open
    BY <1>0, <2>1, CommentedIs
  <2>4. Becomes(img, img', img.fold.status, img.fold.asking, img.context)
    BY <1>0, <2>1, StaysPut
  <2>5. /\ img.fold.status \in Paused => Questioned(img, job)
        /\ img.fold.status \in {"merged", "closed"} => Finished(img, job)
    BY DEF Questioned, Finished
  <2>. QED  BY <2>1, <2>2, <2>3, <2>4, <2>5, Posts
<1>2. CASE RecordRequest
  <2>1. /\ Up /\ boot' = boot /\ lost' = lost /\ hub' = hub /\ job = "request" /\ job' = "none"
        /\ img' = RecordHarnessMasterTriage(img)
    BY <1>2 DEF RecordRequest, Keeps
  <2>2. img.row /\ job' \in Jobs /\ Requested(img, job)
    BY <2>1, HasRow DEF Jobs, Requested
  <2>3. Becomes(img, img', "master-triage", img.fold.asking, img.context)
    BY <1>0, <2>1, RecordsOne
  <2>. QED  BY <1>0, <2>1, <2>2, <2>3, MovesRun DEF Paused
<1>3. CASE MasterGivesUp
  <2>1. /\ Up /\ boot' = boot /\ lost' = lost /\ job = "adjudicating" /\ job' = "none"
        /\ hub' = Commented("question") /\ img' = RecordMasterStuck(img)
    BY <1>3 DEF MasterGivesUp, Keeps
  <2>2. img.row /\ job' \in Jobs
    BY <2>1, HasRow DEF Jobs
  <2>3. hub' \in Hubs /\ hub'.comments = Append(hub.comments, "question") /\ hub'.open = hub.open
    BY <1>0, <2>1, CommentedIs
  <2>4. Becomes(img, img', "agent-stuck", img.fold.asking, img.context)
    <3>1. 0 \in Nat
      OBVIOUS
    <3>. QED  BY <1>0, <2>1, <3>1, RecordsTwo
  <2>. QED  BY <2>1, <2>2, <2>3, <2>4, Posts DEF Paused
<1>. QED
  BY <1>1, <1>2, <1>3

\* A step that only a tick sees.
LEMMA Unseen ==
  ASSUME RestInv, hub' = hub, img' = img, job' = job, boot' = boot, lost' = lost
  PROVE  RestInv'
<1>1. \A k : Places(k)' = Places(k) /\ LatestOf(k)' = LatestOf(k)
  BY CommentsStay
<1>2. HubTypes' /\ RowOK'
  BY DEF RestInv, HubTypes, RowOK, Up
<1>3. AnnouncedOK'
  BY <1>1 DEF RestInv, AnnouncedOK
<1>4. \A was : LeftOK(was) => LeftOK(was)'
  BY <1>1 DEF LeftOK, LatestQuestion, RequestBefore
<1>5. LostOK'
  BY <1>4 DEF RestInv, LostOK, ReadOK
<1>. QED
  BY <1>2, <1>3, <1>5 DEF RestInv

\* What every image shows of itself.
LEMMA ShowsItself ==
  ASSUME NEW i, NEW j
  PROVE  /\ i.fold.status = "master-triage" \/ j \in {"request", "adjudicating", "master-ask"} => Requested(i, j)
         /\ i.fold.status \in Paused \/ j \in {"ask", "heal-card", "master-ask", "resuming", "context"} => Questioned(i, j)
         /\ i.fold.status \in {"merged", "closed"} \/ j = "merged" => Finished(i, j)
         /\ i.fold.asking => Requested(i, j)
         /\ i.context # 0 => Questioned(i, j)
BY DEF Requested, Questioned, Finished

LEMMA ScanKeeps == ASSUME RestInv, Scan PROVE RestInv'
<1>0. img \in IssueImages /\ hub \in Hubs /\ HubTypes
  BY DEF RestInv, HubTypes
<1>1. Up /\ boot' = boot /\ lost' = lost
  BY DEF Scan
<1>2. CASE NoJob /\ Resumable
  <2>1. img.row /\ img.context # 0
    BY <1>2 DEF Resumable, Scanned
  <2>2. CASE img.fold.asking
    <3>1. img' = RecordMasterInterventionStarted(img) /\ job' = "adjudicating" /\ hub' = hub
      BY <1>2, <2>2 DEF Scan
    <3>2. Becomes(img, img', "master-triage", FALSE, img.context)
      BY <1>0, <3>1, RecordsOne
    <3>3. Requested(img, job) /\ job' \in Jobs
      BY <2>2, <3>1, ShowsItself DEF Jobs
    <3>. QED  BY <1>0, <1>1, <2>1, <3>1, <3>2, <3>3, MovesRun DEF Paused
  <2>3. CASE ~img.fold.asking
    <3>1. hub' = Without({"ready-for-agent"} \cup Paused) /\ job' = "resuming" /\ img' = img
      BY <1>2, <2>3 DEF Scan
    <3>2. hub' \in Hubs /\ hub'.comments = hub.comments /\ hub'.open = hub.open
      BY <1>0, <3>1, WithoutIs
    <3>3. Becomes(img, img', img.fold.status, img.fold.asking, img.context)
      BY <1>0, <3>1, StaysPut
    <3>4. Questioned(img, job) /\ job' \in Jobs
      BY <2>1, <3>1, ShowsItself DEF Jobs
    <3>5. /\ img.fold.status = "master-triage" => Requested(img, job)
          /\ img.fold.status \in {"merged", "closed"} => Finished(img, job)
      BY ShowsItself
    <3>. QED  BY <1>1, <2>1, <3>1, <3>2, <3>3, <3>4, <3>5, MovesRun
  <2>. QED  BY <2>2, <2>3
<1>3. CASE ~(NoJob /\ Resumable)
  <2>1. hub' = hub /\ img' = img /\ job' = job
    BY <1>3 DEF Scan
  <2>. QED  BY <1>1, <2>1, Unseen
<1>. QED
  BY <1>2, <1>3

LEMMA AdoptKeeps == ASSUME RestInv, Adopt PROVE RestInv'
<1>0. img \in IssueImages /\ hub \in Hubs /\ HubTypes /\ "request" \in Kinds
  BY DEF RestInv, HubTypes, Kinds
<1>1. Up /\ boot' = boot /\ lost' = lost /\ job' = job
  BY DEF Adopt
<1>2. CASE hub' = hub /\ img' = img
  BY <1>1, <1>2, Unseen
<1>3. ASSUME NEW t, Adoptable(t), img' = RecordHarnessMasterTriage(img), NEW gone,
             hub' = [Commented("request") EXCEPT !.labels = @ \ gone]
      PROVE  RestInv'
  <2>1. img.row /\ job' \in Jobs
    BY <1>1, <1>3 DEF Adoptable, RestInv, HubTypes
  <2>2. hub' \in Hubs /\ hub'.comments = Append(hub.comments, "request") /\ hub'.open = hub.open
    <3>1. Commented("request") \in Hubs
      BY <1>0, CommentedIs
    <3>2. hub' \in Hubs /\ hub'.comments = Commented("request").comments /\ hub'.open = Commented("request").open
      BY <1>3, <3>1 DEF Hubs
    <3>. QED  BY <1>0, <3>2, CommentedIs
  <2>3. Becomes(img, img', "master-triage", img.fold.asking, img.context)
    BY <1>0, <1>3, RecordsOne
  <2>4. /\ job \in {"ask", "heal-card", "master-ask", "resuming", "context"} => Questioned(img, job)
        /\ job = "merged" => Finished(img, job)
    BY ShowsItself
  <2>. QED  BY <1>1, <2>1, <2>2, <2>3, <2>4, Posts DEF Paused
<1>4. \/ hub' = hub /\ img' = img
      \/ \E t : /\ Adoptable(t) /\ img' = RecordHarnessMasterTriage(img)
                /\ \E gone : hub' = [Commented("request") EXCEPT !.labels = @ \ gone]
  BY DEF Adopt
<1>. QED
  BY <1>2, <1>3, <1>4

LEMMA DesiredIs ==
  \A s, ls : /\ DesiredLabels(s, ls) \subseteq Labels \cap {s}
             /\ s \in Paused \cup {"agent-stuck", "awaiting-merge", "master-triage"} => DesiredLabels(s, {}) = {s}
             /\ s \notin Paused \cup {"agent-stuck", "awaiting-merge", "master-triage"} => DesiredLabels(s, {}) = {}
BY DEF DesiredLabels, StateEffect, Labels, Paused

LEMMA FoldsSame ==
  ASSUME NEW f \in Folds, NEW g \in Folds, f.status = g.status, f.ended = g.ended, f.anomaly = g.anomaly,
         f.asking = g.asking
  PROVE  f = g
BY DEF Folds

LEMMA ImagesSame ==
  ASSUME NEW i \in IssueImages, NEW j \in IssueImages, i.row = j.row, i.rowPr = j.rowPr, i.fold = j.fold,
         i.open = j.open, i.context = j.context
  PROVE  i = j
<1> HIDE DEF Folds
<1>. QED
  BY DEF IssueImages

LEMMA BareIs ==
  ASSUME NEW c \in BOOLEAN
  PROVE  /\ Bare(c) \in IssueImages /\ Bare(c).row = FALSE /\ Bare(c).rowPr = FALSE /\ Bare(c).open = {}
         /\ Bare(c).context = 0 /\ Bare(c).fold \in Folds
         /\ Bare(c).fold.status = "none" /\ Bare(c).fold.ended = FALSE /\ Bare(c).fold.anomaly = c
         /\ Bare(c).fold.asking = FALSE
<1>1. InitialFold \in Folds
  BY DEF InitialFold, Folds, Status
<1>2. PICK f : f = [InitialFold EXCEPT !.anomaly = c]
  OBVIOUS
<1>3. f \in Folds /\ f.status = "none" /\ f.ended = FALSE /\ f.anomaly = c /\ f.asking = FALSE
  BY <1>1, <1>2 DEF InitialFold, Folds
<1>4. Bare(c) = [NoImage EXCEPT !.fold = f]
  BY <1>2 DEF Bare, NoImage
<1> HIDE DEF Folds
<1>5. PICK n : n = NoImage
  OBVIOUS
<1>6. n \in IssueImages /\ n.row = FALSE /\ n.rowPr = FALSE /\ n.open = {} /\ n.context = 0
  BY <1>1, <1>5 DEF NoImage, IssueImages
<1>7. PICK b : b = Bare(c)
  OBVIOUS
<1>8. /\ b \in IssueImages /\ b.row = FALSE /\ b.rowPr = FALSE /\ b.open = {} /\ b.context = 0 /\ b.fold = f
  BY <1>3, <1>4, <1>5, <1>6, <1>7 DEF IssueImages
<1>. QED
  BY <1>3, <1>7, <1>8

LEMMA NothingIs == NoImage = Bare(FALSE)
<1>1. PICK n, b : n = NoImage /\ b = Bare(FALSE)
  OBVIOUS
<1>2. PICK f, g : f = n.fold /\ g = b.fold
  OBVIOUS
<1>3. f = InitialFold
  BY <1>1, <1>2 DEF NoImage
<1>4. f \in Folds /\ f.status = "none" /\ f.ended = FALSE /\ f.anomaly = FALSE /\ f.asking = FALSE
  BY <1>3 DEF InitialFold, Folds, Status
<1>5. n \in IssueImages /\ n.row = FALSE /\ n.rowPr = FALSE /\ n.open = {} /\ n.context = 0
  BY <1>1, <1>2, <1>4 DEF NoImage, IssueImages
<1>6. /\ b \in IssueImages /\ b.row = FALSE /\ b.rowPr = FALSE /\ b.open = {} /\ b.context = 0
      /\ g \in Folds /\ g.status = "none" /\ g.ended = FALSE /\ g.anomaly = FALSE /\ g.asking = FALSE
  BY <1>1, <1>2, BareIs
<1>7. f = g
  BY <1>4, <1>6, FoldsSame
<1>. QED
  BY <1>1, <1>2, <1>5, <1>6, <1>7, ImagesSame

\* An anomaly is flagged, or cleared, even where no run is.
LEMMA FlagIs == \A a, b \in BOOLEAN : RecordAnomaly(Bare(a), b) = Bare(b)
<1> SUFFICES ASSUME NEW a \in BOOLEAN, NEW b \in BOOLEAN PROVE RecordAnomaly(Bare(a), b) = Bare(b)
  OBVIOUS
<1> DEFINE type == IF b THEN "AnomalyDetected" ELSE "AnomalyCleared"
<1>1. PICK i, f : i = Bare(a) /\ f = Fact(type)
  OBVIOUS
<1>2. type \in {"AnomalyDetected", "AnomalyCleared"} /\ (type = "AnomalyDetected" <=> b)
  OBVIOUS
<1>3. f.type = type /\ f.comment = 0 /\ RecordAnomaly(i, b) = Appended(i, f)
  BY <1>1 DEF RecordAnomaly, Fact
<1> HIDE DEF type
<1>4. /\ i \in IssueImages /\ i.row = FALSE /\ i.rowPr = FALSE /\ i.open = {} /\ i.context = 0
      /\ i.fold \in Folds /\ i.fold.status = "none" /\ i.fold.ended = FALSE /\ i.fold.asking = FALSE
  BY <1>1, BareIs
<1>5. PICK g : g = Evolve(i.fold, f)
  OBVIOUS
<1>6. g \in Folds /\ g.status = "none" /\ g.ended = FALSE /\ g.anomaly = b /\ g.asking = FALSE
  <2>1. StatusAfter("none", type) = "none" /\ "none" \in Status
    BY <1>2, FactsMove DEF Status
  <2>2. AskingAfter(FALSE, type) = FALSE
    BY <1>2 DEF AskingAfter
  <2>3. g.status = StatusAfter(i.fold.status, f.type) /\ g.asking = AskingAfter(i.fold.asking, f.type)
    BY <1>5 DEF Evolve
  <2>4. g.ended = FALSE
    BY <1>2, <1>3, <1>4, <1>5 DEF Evolve
  <2>5. g.anomaly = b
    BY <1>2, <1>3, <1>5 DEF Evolve
  <2>6. g \in [status : {StatusAfter(i.fold.status, f.type)}, ended : BOOLEAN, anomaly : BOOLEAN,
               asking : {AskingAfter(i.fold.asking, f.type)}]
    BY <1>5 DEF Evolve
  <2>7. g.status = "none" /\ g.asking = FALSE
    BY <1>3, <1>4, <2>1, <2>2, <2>3
  <2>8. g \in [status : {"none"}, ended : BOOLEAN, anomaly : BOOLEAN, asking : {FALSE}]
    BY <2>3, <2>6, <2>7
  <2>. QED  BY <2>1, <2>4, <2>5, <2>7, <2>8 DEF Folds
<1>7. QuestionsAfter(i.open, f) = {} /\ ContextAfter(i.context, f) = 0
  BY <1>2, <1>3, <1>4 DEF QuestionsAfter, Asks, ContextAfter
<1> HIDE DEF Folds
<1>8. PICK j : j = Appended(i, f)
  OBVIOUS
<1>9. j \in IssueImages /\ j.row = FALSE /\ j.rowPr = FALSE /\ j.open = {} /\ j.context = 0 /\ j.fold = g
  BY <1>4, <1>5, <1>6, <1>7, <1>8 DEF Appended, IssueImages
<1>10. PICK k, h : k = Bare(b) /\ h = k.fold
  OBVIOUS
<1>11. /\ k \in IssueImages /\ k.row = FALSE /\ k.rowPr = FALSE /\ k.open = {} /\ k.context = 0
       /\ h \in Folds /\ h.status = "none" /\ h.ended = FALSE /\ h.anomaly = b /\ h.asking = FALSE
  BY <1>10, BareIs
<1>12. g = h
  BY <1>6, <1>11, FoldsSame
<1>13. j = k
  BY <1>9, <1>10, <1>11, <1>12, ImagesSame
<1>. QED
  BY <1>1, <1>3, <1>8, <1>10, <1>13

LEMMA LabelPassKeeps == ASSUME RestInv, LabelPass PROVE RestInv'
<1>0. img \in IssueImages /\ hub \in Hubs /\ HubTypes /\ "request" \in Kinds
  BY DEF RestInv, HubTypes, Kinds
<1>1. Up /\ boot' = boot /\ lost' = lost /\ job' = job
  BY DEF LabelPass
<1> DEFINE desired(t) == DesiredLabels(StatusNow, t.labels)
           writes(t)  == IF img.row THEN LabelWrites(t, desired(t)) ELSE {}
           seen(t)    == IF img.row THEN (t.labels \ Range(StateEffect)) \cup desired(t) ELSE t.labels
           island(t)  == Island(t, seen(t)) /\ hub.open
           flag(t)    == IF SelfHealing(t, seen(t)) \/ NoRun(seen(t)) THEN {"daemon-anomaly"} ELSE {}
           told(t)    == IF island(t) \/ img.fold.anomaly # (flag(t) # {})
                         THEN RecordAnomaly(img, island(t) \/ flag(t) # {}) ELSE img
<1>2. PICK t \in tick :
        /\ \E done \in SUBSET writes(t) :
             hub' = [hub EXCEPT
               !.comments = IF island(t) THEN Append(@, "request") ELSE @,
               !.labels = (((@ \ (t.labels \cap done)) \cup (desired(t) \cap done))
                            \ {"daemon-anomaly"}) \cup flag(t) \cup ReArmed(t)]
        /\ img' = IF island(t) THEN RecordHarnessMasterTriage(told(t)) ELSE told(t)
  BY DEF LabelPass
<1>3. PICK done \in SUBSET writes(t) :
        hub' = [hub EXCEPT
          !.comments = IF island(t) THEN Append(@, "request") ELSE @,
          !.labels = (((@ \ (t.labels \cap done)) \cup (desired(t) \cap done))
                       \ {"daemon-anomaly"}) \cup flag(t) \cup ReArmed(t)]
  BY <1>2
<1>4. desired(t) \subseteq Labels /\ flag(t) \subseteq Labels /\ ReArmed(t) \subseteq Labels
  <2>1. desired(t) \subseteq Labels
    BY DesiredIs
  <2>. QED  BY <2>1 DEF ReArmed, Labels
<1>5. /\ hub' \in Hubs /\ hub'.open = hub.open /\ hub'.pr = hub.pr
      /\ hub'.comments = IF island(t) THEN Append(hub.comments, "request") ELSE hub.comments
      /\ flag(t) \subseteq hub'.labels
  <2> HIDE DEF desired, flag, island, writes
  <2>1. Append(hub.comments, "request") \in Seq(Kinds)
    BY <1>0 DEF Hubs
  <2>. QED  BY <1>0, <1>3, <1>4, <2>1 DEF Hubs
<1>6. CASE img.row
  <2>1. Becomes(img, told(t), img.fold.status, img.fold.asking, img.context)
    <3>1. \A on : Becomes(img, RecordAnomaly(img, on), img.fold.status, img.fold.asking, img.context)
      BY <1>0, RecordsOne
    <3> HIDE DEF island, flag
    <3>. QED  BY <1>0, <3>1, StaysPut
  <2>2. job' \in Jobs
    BY <1>0, <1>1 DEF HubTypes
  <2>3. /\ job \in {"ask", "heal-card", "master-ask", "resuming", "context"} => Questioned(img, job)
        /\ job \in {"request", "adjudicating", "master-ask"} => Requested(img, job)
        /\ job = "merged" => Finished(img, job)
        /\ img.fold.status = "master-triage" => Requested(img, job)
        /\ img.fold.status \in Paused => Questioned(img, job)
        /\ img.fold.status \in {"merged", "closed"} => Finished(img, job)
    BY ShowsItself
  <2> HIDE DEF desired, flag, writes, told, island
  <2>4. CASE island(t)
    <3>1. PICK k : k = told(t)
      OBVIOUS
    <3>2. Becomes(k, RecordHarnessMasterTriage(k), "master-triage", k.fold.asking, k.context)
      BY <2>1, <3>1, RecordsOne DEF Becomes
    <3>3. Becomes(img, img', "master-triage", img.fold.asking, img.context)
      BY <1>2, <2>1, <2>4, <3>1, <3>2 DEF Becomes
    <3>4. hub'.comments = Append(hub.comments, "request")
      BY <1>5, <2>4
    <3>. QED  BY <1>1, <1>5, <1>6, <2>2, <2>3, <3>3, <3>4, Posts DEF Paused
  <2>5. CASE ~island(t)
    <3>1. Becomes(img, img', img.fold.status, img.fold.asking, img.context) /\ hub'.comments = hub.comments
      BY <1>2, <1>5, <2>1, <2>5
    <3>. QED  BY <1>1, <1>5, <1>6, <2>2, <2>3, <3>1, MovesRun
  <2>. QED  BY <2>4, <2>5
<1>7. CASE ~img.row
  <2>1. PICK flagged \in BOOLEAN : img = Bare(flagged)
    BY <1>7 DEF RestInv, RowOK
  <2>2. StatusNow = "none" /\ job = "none" /\ img.fold.anomaly = flagged
    BY <1>7, <2>1, StatusIs DEF StatusNow, Bare, NoImage, InitialFold, RestInv, RowOK
  <2>3. ~island(t)
    BY <2>2 DEF Island, Paused
  <2> DEFINE on == flag(t) # {}
  <2>4. img' = Bare(on)
    <3>1. img' = IF flagged # on THEN RecordAnomaly(img, on) ELSE img
      <4> HIDE DEF flag
      <4>. QED  BY <1>2, <2>2, <2>3
    <3> HIDE DEF flag
    <3>2. RecordAnomaly(Bare(flagged), on) = Bare(on)
      <4>1. \A a, b \in BOOLEAN : RecordAnomaly(Bare(a), b) = Bare(b)
        BY FlagIs
      <4>. QED  BY <4>1
    <3>. QED  BY <2>1, <3>1, <3>2
  <2>5. on => hub'.labels # {}
    <3> HIDE DEF flag
    <3>. QED  BY <1>5
  <2>6. on \in BOOLEAN
    OBVIOUS
  <2> HIDE DEF on, flag
  <2>7. /\ img' \in IssueImages /\ ~img'.row /\ img'.fold.status = "none" /\ img'.fold.asking = FALSE
        /\ img'.context = 0
    BY <2>4, <2>6 DEF Bare, NoImage, InitialFold, IssueImages, Folds, Status
  <2>8. hub'.comments = hub.comments
    BY <1>5, <2>3
  <2>9. Grown
    BY <2>8, CommentsStay
  <2>10. HubTypes'
    BY <1>0, <1>1, <1>5, <2>7 DEF HubTypes
  <2>11. RowOK'
    BY <1>1, <2>2, <2>4, <2>5, <2>6, <2>7 DEF RowOK, Up
  <2>12. ~Requested(img', job') /\ ~Questioned(img', job') /\ ~Finished(img', job')
    BY <1>1, <2>2, <2>7 DEF Requested, Questioned, Finished, Paused
  <2>13. AnnouncedOK'
    BY <1>1, <1>5, <2>9, <2>12 DEF RestInv, AnnouncedOK, Grown
  <2>14. LostOK'
    BY <1>1 DEF RestInv, LostOK, Up
  <2>. QED  BY <2>10, <2>11, <2>13, <2>14 DEF RestInv
<1>. QED
  BY <1>6, <1>7

\* The operator answers: the question keeps its place, and a pause its claim to one.
LEMMA AnswerKeeps == ASSUME RestInv, Answer PROVE RestInv'
<1>0. img \in IssueImages /\ hub \in Hubs /\ HubTypes /\ "answer" \in Kinds /\ "ready-for-agent" \in Labels
  BY DEF RestInv, HubTypes, Kinds, Labels
<1>1. /\ boot' = boot /\ lost' = lost /\ img' = img /\ job' = job /\ hub.labels \cap Paused # {}
      /\ \/ hub' = [Commented("answer") EXCEPT !.labels = (@ \ Paused) \cup {"ready-for-agent"}]
         \/ hub' = Commented("answer")
  BY DEF Answer, Answerable, Keeps
<1>2. /\ hub' \in Hubs /\ hub'.comments = Append(hub.comments, "answer") /\ hub'.open = hub.open /\ hub'.pr = hub.pr
      /\ hub'.labels = hub.labels \/ hub'.labels = (hub.labels \ Paused) \cup {"ready-for-agent"}
  <2>1. PICK h : h = Commented("answer")
    OBVIOUS
  <2>2. /\ h \in Hubs /\ h.comments = Append(hub.comments, "answer") /\ h.open = hub.open /\ h.pr = hub.pr
        /\ h.labels = hub.labels
    BY <1>0, <2>1, CommentedIs
  <2>. QED  BY <1>0, <1>1, <2>1, <2>2 DEF Hubs
<1>3. Grown /\ \A k : k # "answer" => Places(k)' = Places(k) /\ LatestOf(k)' = LatestOf(k)
  <2>1. Grown /\ \A k : k # "answer" => Places(k)' = Places(k)
    BY <1>0, <1>2, CommentAdds
  <2>. QED  BY <2>1 DEF LatestOf
<1>4. HubTypes'
  BY <1>0, <1>1, <1>2 DEF HubTypes
<1>5. RowOK'
  <2>1. hub'.labels # {}
    BY <1>1, <1>2
  <2>. QED  BY <1>1, <2>1 DEF RestInv, RowOK, Up
<1>6. AnnouncedOK'
  BY <1>1, <1>2, <1>3 DEF RestInv, AnnouncedOK, Grown
<1>7. ASSUME NEW was, LeftOK(was)
      PROVE  LeftOK(was)'
  <2>1. HeldAs(was, hub'.labels)
    <3>1. CASE hub'.labels = hub.labels
      BY <1>7, <3>1 DEF LeftOK
    <3>2. CASE hub'.labels = (hub.labels \ Paused) \cup {"ready-for-agent"}
      <4>1. HeldAs(was, hub.labels)
        BY <1>7 DEF LeftOK
      <4>2. hub.labels # {"ready-for-agent"}
        BY <1>1 DEF Paused
      <4>3. was.status \in Paused
        BY <1>1, <4>1, <4>2, DesiredIs DEF HeldAs, Paused
      <4>4. hub.labels = {was.status}
        BY <4>1, <4>2, <4>3, DesiredIs DEF HeldAs, Paused
      <4>. QED  BY <3>2, <4>3, <4>4 DEF HeldAs
    <3>. QED  BY <1>2, <3>1, <3>2
  <2>. QED  BY <1>1, <1>2, <1>3, <1>7, <2>1 DEF LeftOK, LatestQuestion, RequestBefore
<1>8. LostOK'
  BY <1>1, <1>7 DEF RestInv, LostOK, ReadOK
<1>. QED
  BY <1>4, <1>5, <1>6, <1>8 DEF RestInv

LEMMA PersonKeeps == ASSUME RestInv, ReArm \/ CloseIssue PROVE RestInv'
<1>0. img \in IssueImages /\ hub \in Hubs /\ HubTypes /\ "ready-for-agent" \in Labels
  BY DEF RestInv, HubTypes, Labels
<1>1. /\ boot' = boot /\ lost' = {} /\ img' = img /\ job' = job /\ hub.labels # {}
      /\ \/ hub' = [hub EXCEPT !.labels = {"ready-for-agent"}]
         \/ hub' = [hub EXCEPT !.open = FALSE, !.pr = FALSE]
  BY DEF ReArm, CloseIssue, Labelled
<1>2. hub' \in Hubs /\ hub'.comments = hub.comments /\ (hub'.open => hub.open) /\ hub'.labels # {}
  BY <1>0, <1>1 DEF Hubs
<1>3. HubTypes'
  BY <1>0, <1>1, <1>2 DEF HubTypes
<1>4. RowOK'
  BY <1>1, <1>2 DEF RestInv, RowOK, Up
<1>5. AnnouncedOK'
  BY <1>1, <1>2, CommentsStay DEF RestInv, AnnouncedOK, Grown
<1>6. LostOK'
  BY <1>1 DEF LostOK
<1>. QED
  BY <1>3, <1>4, <1>5, <1>6 DEF RestInv

LEMMA DownKeeps == ASSUME RestInv, Crash PROVE RestInv'
<1>1. boot' = [Ready EXCEPT !.at = "down"] /\ job' = "none" /\ lost' = {} /\ hub' = hub /\ img' = img
  BY DEF Crash
<1>2. /\ boot' \in Boots /\ boot'.at = "down" /\ boot'.request = FALSE /\ boot'.asked = FALSE /\ boot'.question = 0
  BY <1>1 DEF Boots, Ready
<1>3. HubTypes'
  BY <1>1, <1>2 DEF RestInv, HubTypes, Jobs
<1>4. RowOK'
  BY <1>1, <1>2 DEF RestInv, RowOK
<1>5. /\ Requested(img', job') => Requested(img, job)
      /\ Questioned(img', job') => Questioned(img, job)
      /\ Finished(img', job') => Finished(img, job)
  BY <1>1 DEF Requested, Questioned, Finished
<1>6. AnnouncedOK'
  BY <1>1, <1>2, <1>5, CommentsStay DEF RestInv, AnnouncedOK, Grown
<1>7. LostOK'
  BY <1>1 DEF LostOK
<1>. QED
  BY <1>3, <1>4, <1>6, <1>7 DEF RestInv

\* What a store that is lost leaves behind.
LEMMA LoseStoreKeeps == ASSUME RestInv, LoseStore PROVE RestInv'
<1>0. img \in IssueImages /\ hub \in Hubs /\ HubTypes
  BY DEF RestInv, HubTypes
<1>1. /\ boot.at = "down" /\ img # NoImage /\ img' = NoImage /\ hub' = hub /\ job' = job /\ boot' = boot
      /\ lost' = IF Mirrored /\ hub.pr /\ hub.open /\ (StatusNow \in Paused => img.context = LatestQuestion)
                 THEN {Rests} ELSE {}
  BY DEF LoseStore
<1>2. job = "none"
  BY <1>1 DEF RestInv, RowOK, Up
<1>3. NoImage \in IssueImages /\ ~NoImage.row /\ NoImage.fold.status = "none" /\ NoImage.fold.asking = FALSE /\ NoImage.context = 0
  BY DEF NoImage, InitialFold, IssueImages, Folds, Status
<1>4. NoImage = Bare(FALSE)
  BY NothingIs
<1>5. HubTypes'
  BY <1>0, <1>1, <1>3 DEF HubTypes
<1>6. RowOK'
  BY <1>1, <1>2, <1>3, <1>4 DEF RowOK
<1>7. ~Requested(img', job') /\ ~Questioned(img', job') /\ ~Finished(img', job')
  BY <1>1, <1>2, <1>3 DEF Requested, Questioned, Finished, Paused
<1>8. \A k : Places(k)' = Places(k) /\ LatestOf(k)' = LatestOf(k)
  BY <1>1, CommentsStay
<1>9. AnnouncedOK'
  BY <1>1, <1>7, <1>8 DEF RestInv, AnnouncedOK
<1>10. ASSUME Mirrored, hub.pr, hub.open, StatusNow \in Paused => img.context = LatestQuestion,
              NEW was, was = Rests
       PROVE  was.status \in RunStatus \ {"merged", "closed"} /\ LeftOK(was)'
  <2>1. /\ was.status = StatusNow /\ was.comment = img.context
        /\ was.asking => img.fold.asking /\ RequestBefore(was.comment)
    BY <1>10 DEF Rests
  <2>2. HeldAs(was, hub.labels)
    BY <1>10, <2>1 DEF Mirrored, HeldAs, Paused
  <2>3. img.row
    <3> SUFFICES ASSUME ~img.row PROVE FALSE
      OBVIOUS
    <3>1. PICK flagged \in BOOLEAN : img = Bare(flagged) /\ (flagged => hub.labels # {})
      BY DEF RestInv, RowOK
    <3>2. flagged = TRUE
      BY <1>1, <1>4, <3>1
    <3>3. StatusNow = "none"
      BY <3>1, BareIs, StatusIs DEF StatusNow
    <3>4. hub.labels = {}
      BY <1>10, <3>3, DesiredIs DEF Mirrored, Paused
    <3>. QED  BY <3>1, <3>2, <3>4
  <2>4. StatusNow \in RunStatus /\ (StatusNow # "running" => StatusNow = img.fold.status)
    <3>1. img.fold.status \in RunStatus \cup {"none"}
      BY <1>0 DEF IssueImages, Folds, Status
    <3>. QED  BY <2>3, <3>1, StatusIs DEF StatusNow, RunStatus
  <2>5. StatusNow \notin {"merged", "closed"}
    <3>1. img.fold.status \notin {"merged", "closed"}
      BY <1>10 DEF RestInv, AnnouncedOK, Finished
    <3>. QED  BY <2>4, <3>1
  <2>6. StatusNow \in Paused => Places("question") # {}
    <3>1. StatusNow \in Paused => Questioned(img, job)
      BY <2>4 DEF Questioned, Paused
    <3>. QED  BY <3>1 DEF RestInv, AnnouncedOK
  <2>7. StatusNow = "master-triage" => Places("request") # {}
    <3>1. StatusNow = "master-triage" => Requested(img, job)
      BY <2>4 DEF Requested
    <3>. QED  BY <3>1 DEF RestInv, AnnouncedOK
  <2>8. LeftOK(was)'
    BY <1>1, <1>8, <1>10, <2>1, <2>2, <2>6, <2>7 DEF LeftOK, LatestQuestion, RequestBefore
  <2>. QED  BY <2>1, <2>4, <2>5, <2>8
<1>11. LostOK'
  <2> SUFFICES ASSUME NEW was \in lost'
               PROVE  was.status \in RunStatus \ {"merged", "closed"} /\ LeftOK(was)'
    BY <1>1 DEF LostOK
  <2>1. /\ Mirrored /\ hub.pr /\ hub.open /\ (StatusNow \in Paused => img.context = LatestQuestion)
        /\ was = Rests
    BY <1>1
  <2>. QED  BY <1>10, <2>1
<1>. QED
  BY <1>5, <1>6, <1>9, <1>11 DEF RestInv

\* What a rebuild reads, and what it makes of a rest that is held so.
LEMMA ReadingIs ==
  ASSUME HubTypes, NEW at \in {"facts"}
  PROVE  /\ Reading(at) \in Boots /\ Reading(at).at = at /\ Reading(at).labels = hub.labels
         /\ Reading(at).question = LatestQuestion /\ (Reading(at).request <=> Places("request") # {})
         /\ (Reading(at).asked <=> RequestBefore(LatestQuestion))
<1>1. LatestQuestion \in Nat /\ hub.labels \in SUBSET Labels
  BY LatestIs DEF LatestQuestion, HubTypes, Hubs
<1>2. RequestBefore(LatestQuestion) \in BOOLEAN
  BY DEF RequestBefore
<1>. QED
  BY <1>1, <1>2 DEF Reading, Boots

LEMMA ReadyIs == /\ Ready \in Boots /\ Ready.at = "up" /\ Ready.request = FALSE /\ Ready.asked = FALSE /\ Ready.question = 0
BY DEF Ready, Boots

LEMMA HeldIs ==
  ASSUME NEW was, was.status \in RunStatus \ {"merged", "closed"}, NEW ls, HeldAs(was, ls)
  PROVE  /\ was.status = "running" => ls = {}
         /\ was.status = "awaiting-ci" => ls = {"awaiting-ci"}
         /\ was.status \in {"agent-stuck", "awaiting-merge", "master-triage"} => ls = {was.status}
         /\ was.status \in Paused => ls = {was.status} \/ ls = {"ready-for-agent"}
BY DesiredIs DEF HeldAs, Paused, RunStatus

LEMMA BootKeeps ==
  ASSUME RestInv, Boot
  PROVE  RestInv' /\ (BootEnds => \A was \in lost : RebuiltAs(was))
<1>0. img \in IssueImages /\ hub \in Hubs /\ HubTypes
  BY DEF RestInv, HubTypes
<1>1. boot.at = "down" /\ hub' = hub /\ job' = job /\ lost' = lost /\ job = "none"
  BY DEF Boot, RestInv, RowOK, Up
<1>2. \A k : Places(k)' = Places(k) /\ LatestOf(k)' = LatestOf(k)
  BY <1>1, CommentsStay
<1>3. CASE hub.pr /\ ~img.row /\ hub.open /\ ~Labelled("agent-stuck")
  <2>1. img' = UpsertRun(img, TRUE) /\ boot' = Reading("facts")
    BY <1>3 DEF Boot
  <2>2. /\ boot' \in Boots /\ boot'.at = "facts" /\ boot'.labels = hub.labels /\ boot'.question = LatestQuestion
        /\ (boot'.request <=> Places("request") # {}) /\ (boot'.asked <=> RequestBefore(LatestQuestion))
    BY <1>0, <2>1, ReadingIs
  <2>3. img' \in IssueImages /\ img'.row /\ img'.fold = img.fold /\ img'.context = img.context
    BY <1>0, <2>1, UpsertIs
  <2>4. HubTypes'
    BY <1>0, <1>1, <2>2, <2>3 DEF HubTypes
  <2>5. RowOK'
    BY <1>1, <2>3 DEF RowOK
  <2>6. boot'.asked => Places("request") # {}
    BY <2>2 DEF RequestBefore
  <2>7. boot'.question # 0 => Places("question") # {}
    BY <1>0, <2>2, LatestIs DEF LatestQuestion
  <2>8. /\ Requested(img', job') => Requested(img, job)
        /\ Questioned(img', job') => Questioned(img, job)
        /\ Finished(img', job') => Finished(img, job)
    BY <1>1, <2>3 DEF Requested, Questioned, Finished
  <2>9. AnnouncedOK'
    BY <1>1, <1>2, <2>2, <2>6, <2>7, <2>8 DEF RestInv, AnnouncedOK
  <2>10. ASSUME NEW was \in lost
         PROVE  was.status \in RunStatus \ {"merged", "closed"} /\ ReadOK(was)'
    <3>1. was.status \in RunStatus \ {"merged", "closed"} /\ LeftOK(was)
      BY <1>1 DEF RestInv, LostOK
    <3>2. was.status # "agent-stuck"
      BY <1>3, <3>1, HeldIs DEF LeftOK, Labelled
    <3>3. was.status \in Paused => LatestQuestion # 0
      BY <1>0, <3>1, LatestIs DEF LeftOK, LatestQuestion
    <3>. QED  BY <2>1, <2>2, <3>1, <3>2, <3>3 DEF LeftOK, ReadOK
  <2>11. LostOK'
    BY <1>1, <2>2, <2>10 DEF LostOK
  <2>12. ~BootEnds
    BY <2>2 DEF BootEnds
  <2>. QED  BY <2>4, <2>5, <2>9, <2>11, <2>12 DEF RestInv
<1>4. CASE ~(hub.pr /\ ~img.row /\ hub.open /\ ~Labelled("agent-stuck"))
  <2>1. img' = img /\ boot' = Ready
    BY <1>4 DEF Boot
  <2>2. HubTypes'
    BY <1>0, <1>1, <2>1, ReadyIs DEF RestInv, HubTypes
  <2>3. RowOK'
    BY <1>1, <2>1, ReadyIs DEF RestInv, RowOK
  <2>4. AnnouncedOK'
    BY <1>1, <1>2, <2>1, ReadyIs DEF RestInv, AnnouncedOK
  <2>5. LostOK'
    BY <1>1, <2>1, ReadyIs DEF RestInv, LostOK
  <2>6. ASSUME NEW was \in lost
        PROVE  RebuiltAs(was)
    <3>1. was.status \in RunStatus \ {"merged", "closed"} /\ LeftOK(was)
      BY <1>1 DEF RestInv, LostOK
    <3>2. hub.pr /\ hub.open /\ img.row = FALSE
      BY <3>1 DEF LeftOK, NoImage
    <3>3. "agent-stuck" \in hub.labels
      BY <1>4, <3>2 DEF Labelled
    <3>4. was.status = "agent-stuck"
      BY <3>1, <3>3, HeldIs DEF LeftOK, RunStatus, Paused
    <3>. QED  BY <2>1, <3>2, <3>4 DEF RebuiltAs
  <2>. QED  BY <2>2, <2>3, <2>4, <2>5, <2>6 DEF RestInv
<1>. QED
  BY <1>3, <1>4

\* A step of the rebuild, on the row it made.
LEMMA Rebuilds ==
  ASSUME RestInv, boot.at \in {"facts", "context"}, hub' = hub, job' = job, lost' = lost,
         boot' = Ready \/ boot' = [boot EXCEPT !.at = "context"],
         NEW s, NEW a, NEW c, Becomes(img, img', s, a, c),
         a => img.fold.asking \/ boot.asked,
         s = "master-triage" => Requested(img, job) \/ boot.request,
         s \in Paused \/ c # 0 => Questioned(img, job) \/ boot.question # 0,
         s \in {"merged", "closed"} => Finished(img, job)
  PROVE  HubTypes' /\ RowOK' /\ AnnouncedOK'
<1>1. job = "none" /\ img.row /\ boot \in Boots
  BY DEF RestInv, RowOK, Up, HubTypes
<1>2. img' \in IssueImages /\ img'.row /\ img'.fold.status = s /\ img'.fold.asking = a /\ img'.context = c
  BY <1>1 DEF Becomes
<1>3. /\ boot' \in Boots
      /\ boot'.request => boot.request
      /\ boot'.asked => boot.asked
      /\ boot'.question # 0 => boot.question # 0
  <2>1. CASE boot' = Ready
    BY <2>1, ReadyIs
  <2>2. CASE boot' = [boot EXCEPT !.at = "context"]
    BY <1>1, <2>2 DEF Boots
  <2>. QED  BY <2>1, <2>2
<1>4. \A k : Places(k)' = Places(k)
  BY CommentsStay
<1>5. HubTypes'
  BY <1>2, <1>3 DEF RestInv, HubTypes
<1>6. RowOK'
  BY <1>1, <1>2 DEF RowOK
<1>7. Requested(img', job') => Places("request") # {}
  BY <1>1, <1>2, ShowsItself DEF Requested, RestInv, AnnouncedOK
<1>8. Questioned(img', job') => Places("question") # {}
  BY <1>1, <1>2 DEF Questioned, RestInv, AnnouncedOK
<1>9. Finished(img', job') => ~hub.open
  BY <1>1, <1>2 DEF Finished, RestInv, AnnouncedOK
<1>10. AnnouncedOK'
  BY <1>3, <1>4, <1>7, <1>8, <1>9 DEF RestInv, AnnouncedOK
<1>. QED
  BY <1>5, <1>6, <1>10

\* The facts of the row: a rest that needs no question ends the rebuild.
LEMMA BootFactsKeeps ==
  ASSUME RestInv, BootFacts
  PROVE  RestInv' /\ (BootEnds => \A was \in lost : RebuiltAs(was))
<1>0. img \in IssueImages /\ boot \in Boots /\ boot.question \in Nat /\ img.row
  BY DEF RestInv, HubTypes, Boots, BootFacts, RowOK
<1>1. boot.at = "facts" /\ hub' = hub /\ job' = job /\ lost' = lost
  BY DEF BootFacts
<1>2. ASSUME NEW was \in lost
      PROVE  was.status \in RunStatus \ {"merged", "closed"} /\ ReadOK(was) /\ HeldAs(was, boot.labels)
  BY <1>1 DEF RestInv, LostOK, ReadOK
<1>3. CASE RebuiltPause = "none"
  <2>1. img' = RebuiltRest /\ boot' = Ready
    BY <1>3 DEF BootFacts
  <2>2. PICK s : /\ Becomes(img, img', s, img.fold.asking, img.context)
                 /\ \/ s = "awaiting-merge" /\ Read("awaiting-merge")
                    \/ s = "awaiting-ci" /\ ~Read("awaiting-merge") /\ Read("awaiting-ci")
                    \/ /\ s = "master-triage" /\ ~Read("awaiting-merge") /\ ~Read("awaiting-ci")
                       /\ Read("master-triage") /\ boot.request
                    \/ /\ s = img.fold.status /\ ~Read("awaiting-merge") /\ ~Read("awaiting-ci")
                       /\ ~(Read("master-triage") /\ boot.request)
    <3>1. CASE Read("awaiting-merge")
      <4>1. img' = RecordReviewPassed(img)
        BY <2>1, <3>1 DEF RebuiltRest
      <4>. QED  BY <1>0, <3>1, <4>1, RecordsOne
    <3>2. CASE ~Read("awaiting-merge") /\ Read("awaiting-ci")
      <4>1. img' = RecordCiAwaited(img)
        BY <2>1, <3>2 DEF RebuiltRest
      <4>. QED  BY <1>0, <3>2, <4>1, RecordsOne
    <3>3. CASE ~Read("awaiting-merge") /\ ~Read("awaiting-ci") /\ Read("master-triage") /\ boot.request
      <4>1. img' = RecordHarnessMasterTriage(img)
        BY <2>1, <3>3 DEF RebuiltRest
      <4>. QED  BY <1>0, <3>3, <4>1, RecordsOne
    <3>4. CASE ~Read("awaiting-merge") /\ ~Read("awaiting-ci") /\ ~(Read("master-triage") /\ boot.request)
      <4>1. img' = img
        BY <2>1, <3>4 DEF RebuiltRest
      <4>. QED  BY <1>0, <3>4, <4>1, StaysPut
    <3>. QED  BY <3>1, <3>2, <3>3, <3>4
  <2>3. HubTypes' /\ RowOK' /\ AnnouncedOK'
    <3>1. s = "master-triage" => Requested(img, job) \/ boot.request
      BY <2>2, ShowsItself
    <3>2. s \in Paused \/ img.context # 0 => Questioned(img, job) \/ boot.question # 0
      BY <2>2, ShowsItself DEF Paused
    <3>3. s \in {"merged", "closed"} => Finished(img, job)
      BY <2>2, ShowsItself
    <3>. QED  BY <1>1, <2>1, <2>2, <3>1, <3>2, <3>3, Rebuilds
  <2>4. LostOK'
    BY <1>1, <2>1, ReadyIs DEF RestInv, LostOK
  <2>5. ASSUME NEW was \in lost
        PROVE  RebuiltAs(was)
    <3>1. was.status \notin Paused
      <4> SUFFICES ASSUME was.status \in Paused PROVE FALSE
        OBVIOUS
      <4>1. boot.question # 0 /\ (boot.labels = {was.status} \/ boot.labels = {"ready-for-agent"})
        BY <1>2, HeldIs DEF ReadOK
      <4>2. PausedLabel # "none"
        BY <4>1 DEF PausedLabel, Read, Paused
      <4>. QED  BY <1>3, <4>1, <4>2 DEF RebuiltPause
    <3>2. was.status \in {"running", "awaiting-ci", "awaiting-merge", "master-triage"}
      BY <1>2, <3>1 DEF ReadOK, RunStatus, Paused
    <3>3. boot.labels = IF was.status = "running" THEN {} ELSE {was.status}
      BY <1>2, <3>2, HeldIs
    <3>4. was.status = "master-triage" => boot.request
      BY <1>2 DEF ReadOK
    <3>5. img.fold.status = "none"
      <4>1. img = UpsertRun(NoImage, TRUE)
        BY <1>1, <1>2 DEF ReadOK
      <4>2. NoImage \in IssueImages /\ NoImage.fold.status = "none"
        BY NothingIs, BareIs
      <4>3. UpsertRun(NoImage, TRUE).fold = NoImage.fold
        BY <4>2, UpsertIs
      <4>. QED  BY <4>1, <4>2, <4>3
    <3>6. s = IF was.status = "running" THEN "none" ELSE was.status
      BY <2>2, <3>2, <3>3, <3>4, <3>5 DEF Read
    <3>7. img'.row /\ img'.fold.status = s
      BY <1>0, <2>2 DEF Becomes
    <3>8. StatusOf(img') = was.status
      BY <3>2, <3>6, <3>7, StatusIs
    <3>. QED  BY <3>2, <3>8 DEF RebuiltAs, Paused
  <2>. QED  BY <2>3, <2>4, <2>5 DEF RestInv
<1>4. CASE RebuiltPause # "none"
  <2>1. img' = RebuiltQuestion /\ boot' = [boot EXCEPT !.at = "context"]
    BY <1>4 DEF BootFacts
  <2>2. boot.question # 0 /\ RebuiltPause = PausedLabel
    BY <1>4 DEF RebuiltPause
  <2>3. PICK a : /\ Becomes(img, img', "awaiting-answer", a, img.context)
                 /\ a => img.fold.asking \/ boot.asked
                 /\ RebuiltPause = "awaiting-answer" /\ boot.asked => a
    <3>1. CASE RebuiltPause = "awaiting-answer" /\ boot.asked
      <4>1. PICK k : k = RecordMasterInterventionStarted(img)
        OBVIOUS
      <4>2. img' = RecordMasterHumanQuestion(k, boot.question)
        BY <2>1, <3>1, <4>1 DEF RebuiltQuestion
      <4>3. Becomes(img, k, "master-triage", FALSE, img.context)
        BY <1>0, <4>1, RecordsOne
      <4>4. k \in IssueImages
        BY <4>3 DEF Becomes
      <4>5. Becomes(k, img', "awaiting-answer", TRUE, k.context)
        BY <1>0, <4>2, <4>4, RecordsTwo
      <4>6. Becomes(img, img', "awaiting-answer", TRUE, img.context)
        BY <4>3, <4>5 DEF Becomes
      <4>. QED  BY <3>1, <4>6
    <3>2. CASE ~(RebuiltPause = "awaiting-answer" /\ boot.asked)
      <4>1. img' = AddQuestion(img, boot.question)
        BY <2>1, <3>2 DEF RebuiltQuestion
      <4>2. Becomes(img, img', "awaiting-answer", img.fold.asking, img.context)
        BY <1>0, <4>1, RecordsTwo
      <4>3. img.fold.asking \in BOOLEAN
        BY <1>0 DEF IssueImages, Folds
      <4>. QED  BY <3>2, <4>2, <4>3
    <3>. QED  BY <3>1, <3>2
  <2>4. HubTypes' /\ RowOK' /\ AnnouncedOK'
    BY <1>1, <2>1, <2>2, <2>3, Rebuilds
  <2>5. /\ boot'.at = "context" /\ boot'.labels = boot.labels /\ boot'.question = boot.question
        /\ boot'.asked = boot.asked /\ boot'.request = boot.request
    BY <1>0, <2>1 DEF Boots
  <2>6. img'.row /\ img'.fold.status = "awaiting-answer" /\ img'.fold.asking = a
    BY <1>0, <2>3 DEF Becomes
  <2>7. ASSUME NEW was \in lost
        PROVE  ReadOK(was)'
    <3>1. was.status \in Paused
      <4>1. Read("review-maxed") \/ Read("awaiting-answer") \/ Read("ready-for-agent")
        BY <1>4, <2>2 DEF PausedLabel
      <4>. QED  BY <1>2, <4>1, HeldIs DEF Read, RunStatus, Paused
    <3>2. was.asking /\ was.status = "awaiting-answer" => a
      <4> SUFFICES ASSUME was.asking, was.status = "awaiting-answer" PROVE a
        OBVIOUS
      <4>1. boot.labels = {"awaiting-answer"} \/ boot.labels = {"ready-for-agent"}
        BY <1>2, <3>1, HeldIs
      <4>2. RebuiltPause = "awaiting-answer"
        BY <2>2, <4>1 DEF PausedLabel, Read
      <4>. QED  BY <1>2, <2>3, <3>1, <4>2 DEF ReadOK
    <3>. QED  BY <1>2, <2>5, <2>6, <3>1, <3>2 DEF ReadOK
  <2>8. LostOK'
    BY <1>1, <1>2, <2>5, <2>7 DEF LostOK
  <2>9. ~BootEnds
    BY <2>5 DEF BootEnds
  <2>. QED  BY <2>4, <2>8, <2>9 DEF RestInv
<1>. QED
  BY <1>3, <1>4

\* The question's place, and the review's cap: the rebuild of a pause ends.
LEMMA BootContextKeeps ==
  ASSUME RestInv, BootContext
  PROVE  RestInv' /\ (BootEnds => \A was \in lost : RebuiltAs(was))
<1>0. img \in IssueImages /\ boot \in Boots /\ boot.question \in Nat /\ img.row
  BY DEF RestInv, HubTypes, Boots, BootContext, RowOK
<1>1. boot.at = "context" /\ hub' = hub /\ job' = job /\ lost' = lost /\ boot' = Ready
  BY DEF BootContext
<1>2. PICK set : set = SetResumeContext(img, boot.question)
  OBVIOUS
<1>3. Becomes(img, set, img.fold.status, img.fold.asking, boot.question)
  BY <1>0, <1>2, ContextIs
<1>4. img' = IF RebuiltPause = "review-maxed" THEN RecordReviewMaxed(set) ELSE set
  BY <1>2 DEF BootContext
<1>5. PICK s : /\ Becomes(img, img', s, img.fold.asking, boot.question)
               /\ s = IF RebuiltPause = "review-maxed" THEN "review-maxed" ELSE img.fold.status
  <2>1. Becomes(set, RecordReviewMaxed(set), "review-maxed", set.fold.asking, set.context)
    BY <1>3, RecordsOne DEF Becomes
  <2>. QED  BY <1>3, <1>4, <2>1 DEF Becomes
<1>6. RebuiltPause = "review-maxed" => boot.question # 0
  BY DEF RebuiltPause
<1>7. HubTypes' /\ RowOK' /\ AnnouncedOK'
  <2>1. s = "master-triage" => Requested(img, job) \/ boot.request
    BY <1>5, ShowsItself
  <2>2. s \in Paused \/ boot.question # 0 => Questioned(img, job) \/ boot.question # 0
    BY <1>5, <1>6, ShowsItself
  <2>3. s \in {"merged", "closed"} => Finished(img, job)
    BY <1>5, ShowsItself
  <2>4. img.fold.asking => img.fold.asking \/ boot.asked
    OBVIOUS
  <2>. QED  BY <1>1, <1>5, <2>1, <2>2, <2>3, <2>4, Rebuilds
<1>8. LostOK'
  BY <1>1, ReadyIs DEF RestInv, LostOK
<1>9. ASSUME NEW was \in lost
      PROVE  RebuiltAs(was)
  <2>1. was.status \in RunStatus \ {"merged", "closed"} /\ ReadOK(was)
    BY <1>1 DEF RestInv, LostOK
  <2>2. /\ was.status \in Paused /\ was.comment = boot.question /\ boot.question # 0
        /\ img.fold.status = "awaiting-answer" /\ (was.asking /\ was.status = "awaiting-answer" => img.fold.asking)
    BY <1>1, <2>1 DEF ReadOK
  <2>3. boot.labels = {was.status} \/ boot.labels = {"ready-for-agent"}
    BY <2>1, <2>2, HeldIs DEF ReadOK
  <2>4. s = IF was.status = "review-maxed" /\ Read("ready-for-agent") THEN "awaiting-answer" ELSE was.status
    BY <1>5, <2>2, <2>3 DEF RebuiltPause, PausedLabel, Read, Paused
  <2>5. img'.row /\ img'.fold.status = s /\ img'.fold.asking = img.fold.asking /\ img'.context = boot.question
    BY <1>0, <1>5 DEF Becomes
  <2>6. StatusOf(img') = s
    BY <2>2, <2>4, <2>5, StatusIs DEF Paused
  <2>. QED  BY <2>2, <2>4, <2>5, <2>6 DEF RebuiltAs, Paused
<1>. QED
  BY <1>7, <1>8, <1>9 DEF RestInv

LEMMA RestStarts == ASSUME HubInit PROVE RestInv
<1>1. /\ hub = [labels |-> {"ready-for-agent"}, comments |-> <<>>, pr |-> FALSE, open |-> TRUE]
      /\ img = NoImage /\ job = "none" /\ boot = Ready /\ lost = {}
  BY DEF HubInit
<1>2. <<>> \in Seq(Kinds) /\ "ready-for-agent" \in Labels
  BY DEF Labels
<1>3. hub \in Hubs /\ hub.labels # {}
  BY <1>1, <1>2 DEF Hubs
<1>4. img \in IssueImages /\ ~img.row /\ img.fold.status = "none" /\ img.fold.asking = FALSE /\ img.context = 0
  BY <1>1 DEF NoImage, InitialFold, IssueImages, Folds, Status
<1>5. HubTypes
  BY <1>1, <1>3, <1>4, ReadyIs DEF HubTypes, Jobs
<1>6. RowOK
  BY <1>1, <1>3, NothingIs, ReadyIs DEF RowOK
<1>7. AnnouncedOK
  BY <1>1, <1>4, ReadyIs DEF AnnouncedOK, Requested, Questioned, Finished, Paused
<1>8. LostOK
  BY <1>1 DEF LostOK
<1>. QED
  BY <1>5, <1>6, <1>7, <1>8 DEF RestInv

\* Only a step of the rebuild ends one.
LEMMA RestStep ==
  ASSUME RestInv, [HubNext]_hubVars
  PROVE  RestInv' /\ (BootEnds => \A was \in lost : RebuiltAs(was))
<1>1. CASE Boot
  BY <1>1, BootKeeps
<1>2. CASE BootFacts
  BY <1>2, BootFactsKeeps
<1>3. CASE BootContext
  BY <1>3, BootContextKeeps
<1>4. ASSUME RestInv', boot' = boot \/ boot'.at = "down" PROVE RestInv' /\ ~BootEnds
  BY <1>4 DEF BootEnds, Up
<1>5. CASE Claim
  BY <1>4, <1>5, ClaimKeeps DEF Claim, Keeps
<1>6. CASE OpenPr
  BY <1>4, <1>6, OpenPrKeeps DEF OpenPr, Keeps
<1>7. CASE PostQuestion
  BY <1>4, <1>7, PostQuestionKeeps DEF PostQuestion, Keeps
<1>8. CASE RecordQuestion
  BY <1>4, <1>8, RecordQuestionKeeps DEF RecordQuestion, Keeps
<1>9. CASE SetContext
  BY <1>4, <1>9, SetContextKeeps DEF SetContext, Keeps
<1>10. CASE PostRequest \/ RecordRequest \/ MasterGivesUp
  BY <1>4, <1>10, RequestMoves DEF PostRequest, RecordRequest, MasterGivesUp, Keeps
<1>11. CASE Adjudicate \/ MasterHandsBack \/ MasterContinues
  BY <1>4, <1>11, MasterMoves DEF Adjudicate, MasterHandsBack, MasterContinues, Keeps
<1>12. CASE ParkCi \/ LabelCi \/ ResumeAfterCi \/ UnlabelCi \/ ParkMerge
  BY <1>4, <1>12, CiMoves DEF ParkCi, LabelCi, ResumeAfterCi, UnlabelCi, ParkMerge, Keeps
<1>13. CASE Integrate \/ RecordMerge \/ Recover \/ CloseOut
  BY <1>4, <1>13, RunEnds DEF Integrate, RecordMerge, Recover, CloseOut, Keeps
<1>14. CASE Resume
  BY <1>4, <1>14, ResumeKeeps DEF Resume, Keeps
<1>15. CASE Answer
  BY <1>4, <1>15, AnswerKeeps DEF Answer, Keeps
<1>16. CASE ReArm \/ CloseIssue
  BY <1>4, <1>16, PersonKeeps DEF ReArm, CloseIssue
<1>17. CASE Scan
  BY <1>4, <1>17, ScanKeeps DEF Scan
<1>18. CASE Adopt
  BY <1>4, <1>18, AdoptKeeps DEF Adopt
<1>19. CASE LabelPass
  BY <1>4, <1>19, LabelPassKeeps DEF LabelPass
<1>20. CASE Crash
  BY <1>4, <1>20, DownKeeps DEF Crash, Ready
<1>21. CASE LoseStore
  BY <1>4, <1>21, LoseStoreKeeps DEF LoseStore
<1>22. CASE UNCHANGED hubVars
  BY <1>4, <1>22, Unseen DEF hubVars
<1>. QED
  BY <1>1, <1>2, <1>3, <1>5, <1>6, <1>7, <1>8, <1>9, <1>10, <1>11, <1>12, <1>13, <1>14, <1>15, <1>16, <1>17, <1>18,
     <1>19, <1>20, <1>21, <1>22 DEF HubNext, HubDrives, HubBoots

(***************************************************************************)
(* RebuiltAsItRested: rehydrateRunsFromGitHub (daemon/rehydrate.ts) gives  *)
(* a run whose store is lost the status, the question and the asker it     *)
(* rested with, whatever the operator answers meanwhile.                   *)
(***************************************************************************)
THEOREM RebuiltAsRested == HubSpec => RebuiltAsItRested
<1>1. RestInv /\ [HubNext]_hubVars => RestInv' /\ [BootEnds => \A was \in lost : RebuiltAs(was)]_hubVars
  BY RestStep
<1>. QED
  BY <1>1, RestStarts, PTL DEF HubSpec, RebuiltAsItRested

=============================================================================
