------------------------------ MODULE SlotPool ------------------------------
(***************************************************************************)
(* What src/daemon/reconciler.ts promises of its build slots: a bounded    *)
(* pool in which every client holds at most one slot, and one master lease *)
(* that lives no longer than the slot it was taken with.  Reconciler.tla   *)
(* implements it with held <- the keys of inFlight, master <- the holder   *)
(* of the lease, however its awaits interleave.                            *)
(***************************************************************************)
EXTENDS Naturals, FiniteSets

CONSTANTS Clients, Size, Nobody

VARIABLES held, master

pool == <<held, master>>

Init == held = {} /\ master = Nobody

\* Slots are taken together by clients that hold none; one of them may take
\* the free lease with its slot.
Take(T) ==
  /\ T \subseteq Clients \ held
  /\ Cardinality(held \cup T) <= Size
  /\ held' = held \cup T
  /\ \/ master' = master
     \/ master = Nobody /\ master' \in T

\* A client gives its slot back, and the lease it held with it.
Release(c) ==
  /\ c \in held
  /\ held' = held \ {c}
  /\ master' = IF master = c THEN Nobody ELSE master

\* The process that keeps the pool in memory is gone.
Lose == held' = {} /\ master' = Nobody

Next == \/ \E T \in SUBSET Clients : Take(T)
        \/ \E c \in Clients : Release(c)
        \/ Lose

Spec == Init /\ [][Next]_pool

=============================================================================
