----------------------------- MODULE UsageMeter -----------------------------
(***************************************************************************)
(* What the daemon knows of its logins' usage (core/usage.ts,              *)
(* daemon/usage-meter.ts).  A time is kept as the ticks left until it.     *)
(***************************************************************************)
EXTENDS Integers, Sequences, SequencesExt, FiniteSets

CONSTANTS Logins,        \* the claude accounts' ids, in the order of the pool
          WindowTypes,   \* the provider's rate-limit windows
          Signals,       \* what a session may report
          RotateEvery,   \* ticks after which the login rotates anyway
          DefaultRest    \* the cooldown when a refusal names no reset

ASSUME PoolAssumption == Logins \in Seq(STRING) /\ Logins # <<>>
ASSUME SignalsAssumption ==
  /\ DefaultRest \in Nat
  /\ Signals \subseteq [refused : BOOLEAN, util : {"none", "low", "high"}, reset : Nat,
                       type : WindowTypes \cup {"none"}]

Unknown == -1
Blank == [util |-> "absent", left |-> 0]
EmptyUsage == [win |-> [w \in WindowTypes |-> Blank], cool |-> 0]
Later(a, b) == IF a > b THEN a ELSE b

\* A window: what the signal says, else a refusal's 100%, else what it was.
Window(prev, sig) ==
  [util |-> IF sig.util # "none" THEN sig.util
            ELSE IF sig.refused THEN "high"
            ELSE IF prev.util = "absent" THEN "none" ELSE prev.util,
   left |-> IF sig.reset > 0 THEN sig.reset
            ELSE IF prev.util = "absent" THEN Unknown ELSE prev.left]

Recorded(s, sig) ==
  [win |-> [w \in WindowTypes |-> IF w = sig.type THEN Window(s.win[w], sig) ELSE s.win[w]],
   cool |-> IF sig.refused THEN Later(s.cool, IF sig.reset > 0 THEN sig.reset ELSE DefaultRest)
            ELSE s.cool]

\* mutant: a window whose reset has passed still counts.
LiveForever(s) == {w \in WindowTypes : s.win[w].util # "absent"}
Live(s) == {w \in WindowTypes : s.win[w].util # "absent" /\ s.win[w].left # 0}
Hot(s) == {w \in Live(s) : s.win[w].util = "high"}
Gated(s) == Hot(s) # {} \/ (s.cool > 0 /\ Live(s) = {})

\* soonestReset: what the overview shows as the time the login frees up.
Resets(s) == ({s.cool} \ {0}) \cup {s.win[w].left : w \in {v \in Hot(s) : s.win[v].left > 0}}

(* A meter: the login in use and the ticks since it was last changed.      *)

\* The place of a login in the pool, and how far on it is from another.
PlaceOf(a) == CHOOSE i \in DOMAIN Logins : Logins[i] = a
Ahead(from, a) == IF PlaceOf(a) > PlaceOf(from) THEN PlaceOf(a) ELSE PlaceOf(a) + Len(Logins)
Earliest(ids) == CHOOSE a \in ids : \A b \in ids : PlaceOf(a) <= PlaceOf(b)
Following(ids, from) == CHOOSE a \in ids : \A b \in ids : Ahead(from, a) <= Ahead(from, b)

\* mutant: only the logins after the active one are tried.
NextOnly(ids, active) == {a \in ids : PlaceOf(a) > PlaceOf(active)}
Others(ids, active) == ids \ {active}

\* select and pickActiveToken: the next other login with headroom, if one is due.
Selected(ids, usage, meter) ==
  IF ids = {} THEN meter
  ELSE LET active == IF meter.active \in ids THEN meter.active ELSE Earliest(ids)
           due == meter.since >= RotateEvery
           free == {a \in Others(ids, active) : ~Gated(usage[a])}
       IN CASE ids = {active} -> [meter EXCEPT !.active = active]
            [] ids # {active} /\ (due \/ Gated(usage[active])) /\ free # {} ->
                 [active |-> Following(free, active), since |-> 0]
            [] OTHER -> [active |-> active, since |-> IF due /\ ids # {active} THEN 0 ELSE meter.since]

\* The gate of a meter after its selection: it stands open with no login enabled.
Shut(ids, usage, meter) == ids # {} /\ Gated(usage[Selected(ids, usage, meter).active])

\* A tick of the clock over one login's usage.
Passed(n) == IF n > 0 THEN n - 1 ELSE n
Aged(s) == [win |-> [w \in WindowTypes |-> [s.win[w] EXCEPT !.left = Passed(s.win[w].left)]],
            cool |-> Passed(s.cool)]
=============================================================================
