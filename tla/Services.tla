------------------------------ MODULE Services ------------------------------
(* What a tick does beside the runs: the admission plan and the board, the *)
(* containers and their sweep, the notification sink.  They share no       *)
(* variable, so each behaviour moves one part and leaves the others at the *)
(* single state pinned here: the run's states are the sum of the parts'.   *)
EXTENDS Naturals, Sequences, FiniteSets

CONSTANTS Backlog, Created, Blockers, Foreign, Priorities, Cap, Starts, MaxEdits, MaxFaults,
          Targets, Branches, Keys, MaxDispatches, MaxMishaps,
          Paged, BatchSize, MaxLog, StallAfter

\* Issues are numbers; of foreign blockers only that there is one is known.
ASSUME BacklogAssumption ==
  /\ Backlog \in SUBSET Nat /\ IsFiniteSet(Backlog) /\ Created \in [Backlog -> Nat]
  /\ Blockers \in [Backlog -> SUBSET Backlog] /\ Priorities \in Seq(STRING) /\ Cap \in Nat
ASSUME TailAssumption == BatchSize \in Nat \ {0} /\ MaxLog \in Nat /\ StallAfter \in Nat

VARIABLES part, labels, closed, thread, run, headroom, at, listed, left, cache, eligible,
          excluded, picked, board, met, shut, refused, request, edits, faults,
          row, pr, session, fleet, clone, images, sweep, younger, sent, mishaps,
          log, standing, cursor, delivered, tailing, quiet, key, stalls, draining, half

admVars == <<labels, closed, thread, run, headroom, at, listed, left, cache, eligible,
             excluded, picked, board, met, shut, refused, request, edits, faults>>
fleetVars == <<row, pr, session, fleet, clone, images, sweep, younger, sent, mishaps>>
notifyVars == <<log, standing, cursor, delivered, tailing, quiet, key, stalls, draining, half>>
vars == <<part, admVars, fleetVars, notifyVars>>

A == INSTANCE Admission
F == INSTANCE ContainerFleet
N == INSTANCE Notify

Init == /\ part \in {"admission", "fleet", "notify"}
        /\ A!AdmInit /\ F!FleetInit /\ N!NotifyInit
        /\ half \in {"facts", "stalls"}
        /\ part # "admission" => labels = CHOOSE start \in Starts : TRUE
        /\ part # "fleet" => clone = "k1"
        /\ part # "notify" => half = "facts"

\* A move of one part leaves the others alone.
OnlyAdmission == part = "admission" /\ UNCHANGED <<part, fleetVars, notifyVars>>
OnlyFleet == part = "fleet" /\ UNCHANGED <<part, admVars, notifyVars>>
OnlyNotify == part = "notify" /\ UNCHANGED <<part, half, admVars, fleetVars>>

AdmissionMoves == OnlyAdmission /\ A!AdmNext
FleetMoves == OnlyFleet /\ F!FleetNext
NotifyMoves == OnlyNotify
               /\ \/ half = "facts" /\ N!FactStep
                  \/ half = "stalls" /\ N!StallStep
                  \/ N!SinkStep

Next == AdmissionMoves \/ FleetMoves \/ NotifyMoves

\* The fairness of each part is its own: the tick and its launches go on, the
\* sweep does and comes to every target again and again.
Spec == Init /\ [][Next]_vars
        /\ WF_vars(OnlyAdmission /\ A!TickStep)
        /\ WF_vars(OnlyAdmission /\ A!DaemonElse)
        /\ WF_vars(OnlyFleet /\ F!SweepStep)
        /\ \A t \in Targets : SF_vars(OnlyFleet /\ F!StartSweep /\ sweep'.of = t)

(* What waits longest and most urgently is picked, and the board shows     *)
(* each waiting issue once: core/admission.ts, daemon/backlog.ts.          *)
PlanHolds == A!FairPick /\ A!BoardIsWhole
(* An issue that keeps passing the gate is launched: core/admission.ts.    *)
Served == A!Served
(* The sweep spares the container of a run that lives: docker-runner.ts.   *)
SweepSpares == F!SweepSpares
(* A container without a run is stopped in the end: reconciler.ts.         *)
StraysGo == F!StraysGo
(* Whoever waits for a person was paged for that, and a stall is paged     *)
(* once: notify/decide.ts, notify/sink.ts.                                 *)
PagesAreTrue == N!OpenIsPaged /\ N!StallOnce
=============================================================================
