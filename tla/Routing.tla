------------------------------ MODULE Routing -------------------------------
(***************************************************************************)
(* Which provider and login a session gets: the routing config, its edits  *)
(* from the web (config/routing-store.ts, config/load.ts), its resolution  *)
(* (providers/) and the usage gate in front of new work.                   *)
(***************************************************************************)
EXTENDS UsageMeter

CONSTANTS Types,          \* the agent types of the config
          NeedTools,      \* those, and the master, whose sessions call back
          Capable,        \* the providers whose sessions can
          Configured,     \* the providers with a credential block
          Drafts,         \* type edits an operator may post
          TierRoutes,     \* the tier tables a config may hold
          MaxSignals,     \* bound: rate-limit signals
          MaxConfigEdits, \* bound: edits
          WriteFaults     \* "refused": the file cannot be written, "torn": it is left short

\* A list for the type and one for each of its phases; a table of lists by tier.
Providers == {"claude", "zai", "openai"}
Lists == [1..3 -> Seq(Providers)]
ASSUME RoutesAssumption ==
  /\ "impl" \in Types /\ TierRoutes \subseteq Lists
  /\ Drafts \subseteq [type : Types, routing : Lists]

VARIABLES cfg,       \* the overlay: types[t] = base, phase1, phase2; tiers; disabled logins
          file,      \* config.yaml
          up,        \* whether the daemon runs
          loggedIn,  \* the claude logins with credentials when the daemon came up
          usage, meter,
          running,   \* the sessions on each account
          reported,  \* history: the accounts whose own session reported something
          signals, edited

routingVars == <<cfg, file, up, loggedIn, usage, meter, running, reported, signals, edited>>

Zai == "zai account"
Accounts == ToSet(Logins) \cup {Zai}
ProviderOf(a) == IF a = Zai THEN "zai" ELSE "claude"
AccountsOf(p) == {a \in Accounts : ProviderOf(a) = p}
NeedsTools(t) == t \in NeedTools \cup {"master"}
CapabilityOk(t, p) == NeedsTools(t) => p \in Capable

(* Preference lists.  An unset list is empty.                              *)
Governs(t, tier) == tier # 0 /\ (t \in {"impl", "master"} \/ tier = 1)
TypeList(c, t, phase) ==
  IF t = "master" THEN <<c.provider>>
  ELSE LET r == c.types[t] IN
       CASE phase > 0 /\ r[phase + 1] # <<>> -> r[phase + 1]
         [] r[1] # <<>> /\ ~(phase > 0 /\ r[phase + 1] # <<>>) -> r[1]
         [] OTHER -> <<c.provider>>
Preference(c, t, phase, tier) ==
  IF Governs(t, tier) /\ c.tiers[tier] # <<>> THEN c.tiers[tier] ELSE TypeList(c, t, phase)

\* allPreferenceLists: every provider a type could be sent to.
Selectable(c, t) ==
  UNION {ToSet(Preference(c, t, phase, tier)) : phase \in 0..2, tier \in 0..3}

\* resolveTargets: what a config must satisfy to boot, or to be committed.
Valid(c) ==
  \A t \in Types : \A p \in Selectable(c, t) :
    /\ CapabilityOk(t, p) /\ p \in Configured
    /\ AccountsOf(p) \ c.disabled # {}

(* Resolution of a lane.                                                   *)
EnabledIds(c) == loggedIn \ c.disabled
Picked == Selected(EnabledIds(cfg), usage, meter)

\* acquireAccount: the meter's login even when it is gated, none if it is disabled.
Acquire(p) ==
  IF p = "claude" THEN {Picked.active} \ cfg.disabled
  ELSE {a \in AccountsOf(p) : a \notin cfg.disabled}

\* resolveRoute: the account of the first provider of the list that has one, or nothing.
Resolve(t, list) ==
  LET has(p) == CapabilityOk(t, p) /\ Acquire(p) # {}
      able == {i \in DOMAIN list : has(list[i])}
  IN IF able = {} THEN {} ELSE Acquire(list[CHOOSE i \in able : \A j \in able : i <= j])

\* resolveMasterRoute: no tier-1 table, or none of it can call back.
MasterUnset == cfg.tiers[1] = <<>> \/ \A p \in ToSet(cfg.tiers[1]) : p \notin Capable

\* A lane: an agent type and the list that serves one phase and tier of it.
Lanes == {<<t, Preference(cfg, t, phase, tier)>> : t \in Types, phase \in 0..2, tier \in 0..3}
         \cup (IF MasterUnset THEN {} ELSE {<<"master", Preference(cfg, "master", 0, 1)>>})

\* The two gates in front of new sessions.
ClaudeShut == Shut(EnabledIds(cfg), usage, meter)
ProviderShut == Gated(usage[Zai])
AdmissionShut == ClaudeShut \/ ProviderShut

(* The passes and the sessions.                                            *)
Pass ==
  /\ up /\ meter' = Picked /\ meter' # meter
  /\ UNCHANGED <<cfg, file, up, loggedIn, usage, running, reported, signals, edited>>

\* A fresh build waits for the gate; a session of a run in flight does not.
Dispatch ==
  /\ up /\ \E lane \in Lanes : \E a \in Resolve(lane[1], lane[2]) :
       /\ lane[1] = "impl" => ~AdmissionShut
       /\ running' = running \cup {a} /\ a \notin running
  /\ meter' = Picked
  /\ UNCHANGED <<cfg, file, up, loggedIn, usage, reported, signals, edited>>

\* buildRateLimitRecorder: the account the session was dispatched on.
Blamed(a) == a
Signal ==
  /\ up /\ signals < MaxSignals /\ signals' = signals + 1
  /\ \E a \in running : \E sig \in Signals :
       /\ usage' = [usage EXCEPT ![Blamed(a)] = Recorded(@, sig)]
       /\ reported' = reported \cup {a}
  /\ UNCHANGED <<cfg, file, up, loggedIn, meter, running, edited>>

SessionOver ==
  /\ \E a \in running : running' = running \ {a}
  /\ UNCHANGED <<cfg, file, up, loggedIn, usage, meter, reported, signals, edited>>

Clock ==
  /\ usage' = [a \in Accounts |-> Aged(usage[a])]
  /\ meter' = [meter EXCEPT !.since = IF @ < RotateEvery THEN @ + 1 ELSE @]
  /\ <<usage', meter'>> # <<usage, meter>>
  /\ UNCHANGED <<cfg, file, up, loggedIn, running, reported, signals, edited>>

(* Edits.                                                                  *)

\* The list an edit replaces is gated by capability before the whole config is.
DraftOk(c, t) == \A p \in ToSet(TypeList(c, t, 0)) : CapabilityOk(t, p)

\* mutant: the overlay before the file.
OverlayFirst(c) ==
  \/ cfg' = c /\ file' = c
  \/ "refused" \in WriteFaults /\ cfg' = c /\ UNCHANGED file
\* validateAndCommit: the file, then the overlay, or neither.
Commit(c) ==
  \/ cfg' = c /\ file' = c
  \/ "refused" \in WriteFaults /\ UNCHANGED <<cfg, file>>
  \/ "torn" \in WriteFaults /\ file' = [cfg EXCEPT !.whole = FALSE] /\ UNCHANGED cfg

Edited(c) ==
  /\ up /\ edited < MaxConfigEdits /\ edited' = edited + 1 /\ file.whole
  /\ UNCHANGED <<up, loggedIn, usage, meter, running, reported, signals>>
  /\ IF Valid(c) THEN Commit(c) ELSE UNCHANGED <<cfg, file>>

EditType ==
  \E d \in Drafts : LET c == [cfg EXCEPT !.types[d.type] = d.routing] IN
    DraftOk(c, d.type) /\ Edited(c)

EditAccount ==
  \E a \in Accounts : \E enabled \in BOOLEAN :
    Edited([cfg EXCEPT !.disabled = IF enabled THEN @ \ {a} ELSE @ \cup {a}])

\* The daemon stops, and comes up on the file: usage is not kept.
Stop ==
  /\ up /\ up' = FALSE /\ running' = {} /\ reported' = {}
  /\ usage' = [a \in Accounts |-> EmptyUsage] /\ meter' = [active |-> Logins[1], since |-> 0]
  /\ UNCHANGED <<cfg, file, loggedIn, signals, edited>>

FirstOf(ids) == [active |-> Earliest(ids), since |-> 0]
Start ==
  /\ ~up /\ file.whole /\ Valid(file) /\ up' = TRUE /\ cfg' = file
  /\ loggedIn' \in (SUBSET ToSet(Logins)) \ {{}}
  /\ meter' = FirstOf(loggedIn')
  /\ UNCHANGED <<file, usage, running, reported, signals, edited>>

RoutingInit ==
  /\ cfg \in {c \in [provider : {"claude"}, tiers : TierRoutes, disabled : {{}}, whole : {TRUE},
                     types : [Types -> {<<<<>>, <<>>, <<>>>>}]] : Valid(c)}
  /\ file = cfg /\ up = TRUE /\ loggedIn = ToSet(Logins)
  /\ usage = [a \in Accounts |-> EmptyUsage]
  /\ meter = FirstOf(loggedIn)
  /\ running = {} /\ reported = {} /\ signals = 0 /\ edited = 0

RoutingNext ==
  \/ Pass \/ Dispatch \/ Signal \/ SessionOver \/ Clock
  \/ EditType \/ EditAccount \/ Stop \/ Start
RoutingSpec == RoutingInit /\ [][RoutingNext]_routingVars /\ WF_routingVars(Clock)

(* Properties.                                                             *)

(***************************************************************************)
(* pickActiveToken: the login a new session gets is out of headroom only   *)
(* when every enabled login is.                                            *)
(***************************************************************************)
HeadroomFound ==
  LET ids == EnabledIds(cfg) IN
  up /\ ids # {} => /\ Picked.active \in ids
                    /\ Gated(usage[Picked.active]) => \A a \in ids : Gated(usage[a])

(***************************************************************************)
(* resolveTargets and resolveRoute: a config that boots or is committed    *)
(* leaves no lane waiting for a provider, unless the only logins it leaves *)
(* enabled had no credentials when the daemon came up.                     *)
(***************************************************************************)
DispatchServed ==
  up => \A lane \in Lanes :
          \/ Resolve(lane[1], lane[2]) # {}
          \/ EnabledIds(cfg) = {} /\ "claude" \in ToSet(lane[2])

(***************************************************************************)
(* buildRateLimitRecorder: usage is booked only on accounts whose own      *)
(* sessions reported it, whatever login is active meanwhile.               *)
(***************************************************************************)
BlameIsOwn == \A a \in Accounts : usage[a] # EmptyUsage => a \in reported

(***************************************************************************)
(* A dispatch finds a login with headroom and a provider that serves it,   *)
(* and what it uses is booked where it was used.                           *)
(***************************************************************************)
DispatchHolds == HeadroomFound /\ DispatchServed /\ BlameIsOwn

(***************************************************************************)
(* validateAndCommit: the config in memory is the one the next start       *)
(* loads, and that one boots; only a write cut short leaves them apart.    *)
(***************************************************************************)
EditsLast == file.whole => file = cfg /\ Valid(file)

(***************************************************************************)
(* implProviderResetsAt: the time shown for a shut gate is the moment it   *)
(* opens, if it does.                                                       *)
(***************************************************************************)
Eta == LET all == UNION {Resets(usage[a]) : a \in EnabledIds(cfg)} IN
       IF all = {} THEN 0 ELSE CHOOSE n \in all : \A m \in all : n <= m
EtaNotLate ==
  [][Clock /\ ClaudeShut /\ ~ClaudeShut' => Eta = 1]_routingVars

(***************************************************************************)
(* usageGate: a shut gate opens again once time passes, unless a window    *)
(* full of unknown end keeps it.                                           *)
(***************************************************************************)
Endless(s) == \E w \in Hot(s) : s.win[w].left = Unknown
GateReopens ==
  [](up /\ AdmissionShut ~> (~AdmissionShut \/ ~up \/ \E a \in Accounts : Endless(usage[a])))

(***************************************************************************)
(* A shut gate opens, and no later than the board says.                    *)
(***************************************************************************)
GateOpens == EtaNotLate /\ GateReopens
=============================================================================
