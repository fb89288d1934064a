------------------------------ MODULE CloneGate ------------------------------
(***************************************************************************)
(* The base checkout of a target (clone-sync.ts): every dispatch brings it *)
(* to origin's base before it reads from it, one at a time, and refuses    *)
(* when someone else has touched the clone.                                *)
(***************************************************************************)
EXTENDS Naturals, Sequences

CONSTANTS Callers,     \* dispatches that want the clone
          MaxBase,     \* bound: pushes to the base branch
          CloneFaults  \* "touched", "refused" and "offline", each at most once

VARIABLES gate,      \* the promise chain: callers in the order they came
          caller,    \* what each is at, and what it read
          clone,     \* the checkout: its head, the fetched ref, its condition
          base,      \* the head of the base branch at origin
          cloneFaults

cloneVars == <<gate, caller, clone, base, cloneFaults>>

Fresh == [at |-> "idle", wants |-> 0, state |-> "clean", read |-> 0]
CloneFault(f) == f \in CloneFaults \ cloneFaults /\ cloneFaults' = cloneFaults \cup {f}
CloneCalm == UNCHANGED cloneFaults
Becomes(c, s) == caller' = [caller EXCEPT ![c].at = s]
\* Whoever leaves is first in the chain.
Leaves(c, s) == Becomes(c, s) /\ gate' = Tail(gate)

\* run: after the work of everyone who asked before, whether it failed or not.
Enter(c) ==
  /\ caller[c].at = "idle" /\ gate' = Append(gate, c)
  /\ caller' = [caller EXCEPT ![c] = [Fresh EXCEPT !.at = "queued", !.wants = base]]
  /\ UNCHANGED <<clone, base>> /\ CloneCalm

\* mutant: nobody waits for the work of the others.
NoQueue(c) == TRUE
MyTurn(c) == gate # <<>> /\ Head(gate) = c

Fetch(c) ==
  /\ caller[c].at = "queued" /\ MyTurn(c) /\ UNCHANGED base
  /\ \/ /\ clone' = [clone EXCEPT !.remote = base] /\ Becomes(c, "read")
        /\ UNCHANGED gate /\ CloneCalm
     \/ CloneFault("offline") /\ Leaves(c, "failed") /\ UNCHANGED clone

\* planCloneSync over what readState saw.
Plan(state, head, remote) ==
  IF state # "clean" THEN "anomaly"
  ELSE IF head = remote THEN "current"
  ELSE IF head < remote THEN "fast-forward" ELSE "anomaly"

ReadState(c) ==
  /\ caller[c].at = "read" /\ UNCHANGED <<base, clone>> /\ CloneCalm
  /\ LET plan == Plan(clone.state, clone.head, clone.remote) IN
     IF plan = "anomaly" THEN Leaves(c, "failed")
     ELSE Becomes(c, IF plan = "current" THEN "work" ELSE "merge") /\ UNCHANGED gate

Merge(c) ==
  /\ caller[c].at = "merge" /\ UNCHANGED base
  /\ \/ /\ clone' = [clone EXCEPT !.head = clone.remote] /\ Becomes(c, "work")
        /\ UNCHANGED gate /\ CloneCalm
     \/ CloneFault("refused") /\ Leaves(c, "failed") /\ UNCHANGED clone

\* withSyncedClone: the read, still inside the gate.
Work(c) ==
  /\ caller[c].at = "work" /\ UNCHANGED <<gate, base, clone>> /\ CloneCalm
  /\ caller' = [caller EXCEPT ![c].at = "end", ![c].read = clone.head, ![c].state = clone.state]

Finish(c) ==
  /\ caller[c].at = "end" /\ UNCHANGED <<clone, base>> /\ CloneCalm
  /\ Leaves(c, IF clone.head = caller[c].read THEN "done" ELSE "moved")

Again(c) ==
  /\ caller[c].at \in {"done", "failed"} /\ Becomes(c, "idle")
  /\ UNCHANGED <<gate, clone, base>> /\ CloneCalm

BasePush == base < MaxBase /\ base' = base + 1 /\ UNCHANGED <<gate, caller, clone>> /\ CloneCalm

\* Someone dirties the clone or parks it on another branch.
Touched ==
  /\ CloneFault("touched") /\ \A c \in Callers : caller[c].at \notin {"merge", "work", "end"}
  /\ clone' = [clone EXCEPT !.state = "dirty"] /\ UNCHANGED <<gate, caller, base>>

CloneInit ==
  /\ gate = <<>> /\ caller = [c \in Callers |-> Fresh] /\ base = 0 /\ cloneFaults = {}
  /\ clone = [head |-> 0, remote |-> 0, state |-> "clean"]

CloneNext ==
  \/ BasePush \/ Touched
  \/ \E c \in Callers :
       Enter(c) \/ Fetch(c) \/ ReadState(c) \/ Merge(c) \/ Work(c) \/ Finish(c) \/ Again(c)

(***************************************************************************)
(* A dispatch reads a clone at least as new as the base was when it asked, *)
(* untouched, and the clone does not move under it until it is done.       *)
(***************************************************************************)
ReadIsSynced ==
  \A c \in Callers :
    /\ caller[c].at = "end" => caller[c].read >= caller[c].wants /\ caller[c].state = "clean"
    /\ caller[c].at # "moved"
=============================================================================
