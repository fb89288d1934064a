---------------------------- MODULE MasterHistory ----------------------------
(***************************************************************************)
(* The master's memory of one issue: the fold of the issue's event stream  *)
(* (src/master/history.ts), written as one operator per fact that moves    *)
(* it, and the budget every intervention is held to (src/master/budget.ts).*)
(*                                                                         *)
(* Nothing else is remembered.  Whatever a crash leaves undone has to be   *)
(* read back from this.                                                    *)
(***************************************************************************)
EXTENDS Naturals, Sequences, FiniteSets

CONSTANTS Phases,      \* the run phases an escalation may name
          Signatures,  \* the normalized failure signatures
          PhaseOf,     \* the phase each of them names
          Headlines    \* the headlines of questions a master may ask

ASSUME PhaseAssumption == PhaseOf \in [Signatures -> Phases]
ASSUME NamesAssumption == "none" \notin Phases

\* MAX_MASTER_INTERVENTIONS_PER_PHASE
MaxInterventions == 2

Autonomous  == {"resolved-and-continue", "redispatch-tier-1", "retry-pipeline"}
Resolutions == Autonomous \cup {"ask-human", "terminal-stuck"}

\* The headlines the engine itself writes.
Cards == Headlines \cup {"refused", "authority", "terminal", "exhausted", "none"}

Requests  == {<<PhaseOf[s], s>> : s \in Signatures}
NoRequest == <<"none", "none">>

\* The n-th intervention of phase p.
Keys  == Phases \X Nat
NoKey == <<"none", 0>>

\* headline is the part of the outcome a replay needs: the card of a question.
Intervention == [signature : Signatures, resolution : Resolutions \cup {"none"},
                 headline : Cards, completed : BOOLEAN, resumed : BOOLEAN]

Histories == [pending : Requests \cup {NoRequest}, inProgress : Keys \cup {NoKey},
              awaiting : Keys \cup {NoKey}, taken : [Phases -> Seq(Intervention)]]

Fresh == [pending |-> NoRequest, inProgress |-> NoKey, awaiting |-> NoKey,
          taken |-> [p \in Phases |-> <<>>]]

Spent(h, p)   == Len(h.taken[p])
Exists(h, k)  == k[1] \in Phases /\ k[2] \in 1..Spent(h, k[1])
Record(h, k)  == h.taken[k[1]][k[2]]
Decided(h, k) == Exists(h, k) /\ Record(h, k).resolution # "none"

Amend(h, k, r) == [h EXCEPT !.taken[k[1]][k[2]] = r]

-----------------------------------------------------------------------------
(* The fold.                                                               *)

\* A new request replaces the queued one, and supersedes an attempt that has
\* already been decided.
RequestedBeside(h, req) == [h EXCEPT !.pending = req]  \* mutant: supersedes nothing
Requested(h, req) ==
  [h EXCEPT !.pending = req,
            !.inProgress = IF Decided(h, @) THEN NoKey ELSE @]

\* The first start of an attempt appends it, a later one reopens it undecided;
\* it counts as resumed by a human when a question of that number was out.
Again(h, k) == [Record(h, k) EXCEPT !.resolution = "none", !.headline = "none",
                                    !.completed = FALSE,
                                    !.resumed = @ \/ h.awaiting[2] = k[2]]
First(sig)  == [signature |-> sig, resolution |-> "none", headline |-> "none",
                completed |-> FALSE, resumed |-> FALSE]
Opened(h, k, sig) ==
  IF Exists(h, k) THEN Amend(h, k, Again(h, k))
  ELSE [h EXCEPT !.taken[k[1]] = Append(@, First(sig))]
Started(h, k, sig) ==
  [Opened(h, k, sig) EXCEPT !.pending = NoRequest, !.awaiting = NoKey, !.inProgress = k]

Selected(h, k, res, head) ==
  IF Exists(h, k)
  THEN Amend(h, k, [Record(h, k) EXCEPT !.resolution = res, !.headline = head])
  ELSE h

Asked(h, k) == [h EXCEPT !.awaiting = k]

Completed(h, k) ==
  LET g == IF Exists(h, k)
           THEN Amend(h, k, [Record(h, k) EXCEPT !.completed = TRUE]) ELSE h
  IN [g EXCEPT !.inProgress = IF @ = k THEN NoKey ELSE @]

-----------------------------------------------------------------------------
(* The budget.                                                             *)

Exhausted(h, p) == Spent(h, p) >= MaxInterventions

\* What the other attempts of the phase have already tried on this failure.
InheritedOfCompleted(h, k) ==  \* mutant: only those whose effect was completed
  {h.taken[k[1]][m].resolution :
     m \in {n \in (1..Spent(h, k[1])) \ {k[2]} :
              /\ h.taken[k[1]][n].signature = Record(h, k).signature
              /\ h.taken[k[1]][n].completed}}
Inherited(h, k) ==
  LET others == (1..Spent(h, k[1])) \ {k[2]}
      tried  == {h.taken[k[1]][m].resolution :
                   m \in {n \in others :
                            h.taken[k[1]][n].signature = Record(h, k).signature}}
  IN IF Cardinality(others) >= MaxInterventions THEN Autonomous
     ELSE tried \ {"none"}

\* An attempt that a human's answer reopened may not ask again.
Forbidden(h, k) ==
  Inherited(h, k) \cup (IF Record(h, k).resumed THEN {"ask-human"} ELSE {})

=============================================================================
