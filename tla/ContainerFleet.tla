---------------------------- MODULE ContainerFleet ----------------------------
(***************************************************************************)
(* The containers of one Docker host (container/docker-runner.ts,          *)
(* container/image-build.ts) and the targets that start, abort and sweep   *)
(* them (daemon/reconciler.ts), across crashes of the daemon.              *)
(***************************************************************************)
EXTENDS Naturals, FiniteSets

CONSTANTS Targets, Branches,  \* two targets may use the same branch name
          Keys,               \* contents of the dependency manifests
          MaxDispatches,      \* bound: containers ever started
          MaxMishaps          \* bound: crashes, hangs, failed builds, failed docker calls

VARIABLES row,       \* [target -> [branch -> "none", "running", "parked", "done"]]
          pr,        \* branches with an open pull request, as <<target, branch>>
          session,   \* runs in flight: [<<target, branch>> -> its container or 0]
          fleet,     \* docker ps
          clone, images,  \* the clone's manifests; the images there are, as <<target, key>>
          sweep,     \* the one sweep under way
          younger,   \* history: runs claimed since the sweep read its rows
          sent, mishaps

fleetVars == <<row, pr, session, fleet, clone, images, sweep, younger, sent, mishaps>>

Runs == Targets \X Branches
NoSweep == [of |-> "", at |-> "off", todo |-> {}, live |-> {}, prey |-> {}]
Mishap == mishaps < MaxMishaps /\ mishaps' = mishaps + 1
Live(r) == row[r[1]][r[2]] \in {"running", "parked"}
SetRow(r, s) == row' = [row EXCEPT ![r[1]][r[2]] = s]
Driven == {session[r] : r \in DOMAIN session} \ {0}

\* The claim writes the row, with the branch, before any container starts.
Claim ==
  /\ sent < MaxDispatches
  /\ \E r \in Runs \ DOMAIN session :
       /\ row[r[1]][r[2]] # "running" /\ SetRow(r, "running")
       /\ session' = [x \in DOMAIN session \cup {r} |-> IF x = r THEN 0 ELSE session[x]]
       /\ younger' = IF sweep.of = r[1] THEN younger \cup {r} ELSE younger
  /\ UNCHANGED <<pr, fleet, clone, images, sweep, sent, mishaps>>

\* An image is of its target and of the manifests its dependencies came from.
ImageTag(t) == <<t, clone>>
\* Every container gets a name no other has had.
NextId == sent + 1

(* start: ensureTargetImage builds the image of the clone's manifests only *)
(* if there is none; the container gets a name of its own and two labels.  *)
Started(r) == [id |-> NextId, repo |-> r[1], branch |-> r[2], hung |-> FALSE]
Dispatch ==
  /\ sent < MaxDispatches
  /\ \E r \in DOMAIN session :
       /\ session[r] = 0
       /\ images' = images \cup {ImageTag(r[1])}
       /\ fleet' = fleet \cup {Started(r)} /\ sent' = NextId
       /\ session' = [session EXCEPT ![r] = NextId]
  /\ UNCHANGED <<row, pr, clone, sweep, younger, mishaps>>
\* The build fails, the dispatch throws, the run ends terminal.
Drops(r) == session' = [x \in DOMAIN session \ {r} |-> session[x]]
BuildFails ==
  /\ Mishap
  /\ \E r \in DOMAIN session :
       session[r] = 0 /\ ImageTag(r[1]) \notin images /\ Drops(r) /\ SetRow(r, "done")
  /\ UNCHANGED <<pr, fleet, clone, images, sweep, younger, sent>>
CloneMoves ==
  /\ Mishap /\ \E k \in Keys \ {clone} : clone' = k
  /\ UNCHANGED <<row, pr, session, fleet, images, sweep, younger, sent>>

(* Containers work, push, open their pull request and exit, or hang.       *)
Exits ==
  /\ \E c \in fleet :
       /\ ~c.hung /\ fleet' = fleet \ {c}
       /\ \E opens \in SUBSET {<<c.repo, c.branch>>} : pr' = pr \cup opens
       /\ session' = [r \in DOMAIN session |-> IF session[r] = c.id THEN 0 ELSE session[r]]
  /\ UNCHANGED <<row, clone, images, sweep, younger, sent, mishaps>>
Hangs ==
  /\ Mishap
  /\ \E c \in fleet : ~c.hung /\ fleet' = (fleet \ {c}) \cup {[c EXCEPT !.hung = TRUE]}
  /\ UNCHANGED <<row, pr, session, clone, images, sweep, younger, sent>>
\* Between two containers of a run: it settles, or is parked.
Settles ==
  /\ \E r \in DOMAIN session :
       session[r] = 0 /\ Drops(r) /\ \E s \in {"parked", "done"} : SetRow(r, s)
  /\ UNCHANGED <<pr, fleet, clone, images, sweep, younger, sent, mishaps>>

(* docker stop, whose failure is swallowed.                                *)
Stop(ids) == \/ fleet' = {c \in fleet : c.id \notin ids} /\ UNCHANGED mishaps
             \/ Mishap /\ UNCHANGED fleet
\* terminate: the abort handle kills the container and the session settles,
\* past its wall clock or, by terminateWedged, past its lifetime.
Terminate ==
  /\ \E r \in DOMAIN session :
       /\ \E c \in fleet : c.id = session[r] /\ c.hung
       /\ Stop({session[r]}) /\ Drops(r) /\ SetRow(r, "done")
  /\ UNCHANGED <<pr, clone, images, sweep, younger, sent>>
\* The daemon dies: its containers outlive it, no row is written.
Crash ==
  /\ Mishap /\ session' = [r \in {} |-> 0] /\ sweep' = NoSweep /\ younger' = {}
  /\ UNCHANGED <<row, pr, fleet, clone, images, sent>>

(* The sweep of one target.                                                *)
StartSweep ==
  /\ sweep.at = "off" /\ younger' = {}
  /\ \E t \in Targets : sweep' = [NoSweep EXCEPT !.of = t, !.at = "rows",
                                     !.todo = {r \in Runs : r[1] = t /\ row[t][r[2]] = "running"}]
  /\ UNCHANGED <<row, pr, session, fleet, clone, images, sent, mishaps>>
\* parsePsContainers of what buildPsArgs asks for; a failed call lists nothing.
\* mutant: docker ps of the whole host.
EveryTargets(t) == fleet
OwnFleet(t) == {c \in fleet : c.repo = t}
HasLiveContainer(r) == \E c \in OwnFleet(r[1]) : c.branch = r[2]
\* reconcileOrphanRunningRow: re-driven with a pull request, spared for its
\* container, discarded otherwise.  A probe that fails finds no container.
Redriven(r) == /\ r \in pr /\ SetRow(r, "running") /\ UNCHANGED mishaps
               /\ session' = [x \in DOMAIN session \cup {r} |-> IF x = r THEN 0 ELSE session[x]]
Discarded(r) == /\ r \notin pr /\ SetRow(r, "done") /\ UNCHANGED session
                /\ IF HasLiveContainer(r) THEN Mishap ELSE UNCHANGED mishaps
Examine ==
  /\ sweep.at = "rows"
  /\ \E r \in sweep.todo :
       /\ sweep' = [sweep EXCEPT !.todo = @ \ {r}]
       /\ \/ /\ r \in DOMAIN session \/ (r \notin pr /\ HasLiveContainer(r))
             /\ UNCHANGED <<row, session, mishaps>>
          \/ r \notin DOMAIN session /\ (Redriven(r) \/ Discarded(r))
  /\ UNCHANGED <<pr, fleet, clone, images, younger, sent>>
\* mutant: every row's branch is live, a finished run's too.
AnyRow == {r[2] : r \in {x \in Runs : x[1] = sweep.of /\ row[x[1]][x[2]] # "none"}}
LiveBranches == {r[2] : r \in {x \in Runs : x[1] = sweep.of /\ Live(x)}}
ReadRows ==
  /\ sweep.at = "rows" /\ sweep.todo = {}
  /\ sweep' = [sweep EXCEPT !.at = "ps", !.live = LiveBranches] /\ younger' = {}
  /\ UNCHANGED <<row, pr, session, fleet, clone, images, sent, mishaps>>
ListFleet ==
  /\ sweep.at = "ps"
  /\ \/ /\ sweep' = [sweep EXCEPT !.at = "stop",
                                  !.prey = {c.id : c \in {x \in OwnFleet(sweep.of) : x.branch \notin sweep.live}}]
        /\ UNCHANGED mishaps
     \/ Mishap /\ sweep' = [sweep EXCEPT !.at = "stop"]
  /\ UNCHANGED <<row, pr, session, fleet, clone, images, younger, sent>>
Reap ==
  /\ sweep.at = "stop" /\ sweep.prey # {}
  /\ LET id == CHOOSE p \in sweep.prey : \A q \in sweep.prey : p <= q IN
     /\ Stop({id}) /\ sweep' = [sweep EXCEPT !.prey = @ \ {id}]
     \* a stopped container ends its session's dispatch
     /\ session' = [r \in DOMAIN session |-> IF session[r] = id /\ fleet' # fleet THEN 0 ELSE session[r]]
  /\ UNCHANGED <<row, pr, clone, images, younger, sent>>
EndSweep ==
  /\ sweep.at = "stop" /\ sweep.prey = {} /\ sweep' = NoSweep /\ younger' = {}
  /\ UNCHANGED <<row, pr, session, fleet, clone, images, sent, mishaps>>

FleetInit ==
  /\ row = [t \in Targets |-> [b \in Branches |-> "none"]] /\ pr = {}
  /\ session = [r \in {} |-> 0] /\ fleet = {} /\ clone \in Keys /\ images = {}
  /\ sweep = NoSweep /\ younger = {} /\ sent = 0 /\ mishaps = 0

SweepStep == Examine \/ ReadRows \/ ListFleet \/ Reap \/ EndSweep
RunStep == Dispatch \/ Exits \/ Settles
FleetNext == \/ StartSweep \/ SweepStep \/ RunStep
             \/ Claim \/ BuildFails \/ CloneMoves \/ Hangs \/ Terminate \/ Crash

(***************************************************************************)
(* sweepOrphans: no sweep stops a container a session drives, in its own   *)
(* target or another with the same branch names, unless the run was        *)
(* claimed after the sweep had read which runs are live.                   *)
(***************************************************************************)
SweepSpares ==
  [][\A c \in fleet \ fleet' :
       Reap /\ c.id \in Driven => \E r \in younger : session[r] = c.id]_fleetVars

(***************************************************************************)
(* A container that outlived its run, its daemon or a failed stop does not *)
(* stay: it exits, it is swept, or a run takes its branch again.           *)
(***************************************************************************)
Stray(c) == c \in fleet /\ ~Live(<<c.repo, c.branch>>)
StraysGo == \A id \in 1..MaxDispatches : []<>~(\E c \in fleet : c.id = id /\ Stray(c))
=============================================================================
