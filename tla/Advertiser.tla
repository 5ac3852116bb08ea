----------------------------- MODULE Advertiser -----------------------------
(***************************************************************************)
(* The announcement of this server's own DNS services over mDNS-SD         *)
(* (plugins/mdnsadvertise, driven by the GUI service on every settings     *)
(* save).  Registering and unregistering take about two seconds each and   *)
(* run in goroutines of their own; only Reconcile's bookkeeping happens    *)
(* under the advertiser's mutex.                                           *)
(*                                                                         *)
(* A service's specification, its port and TXT records, is a value.  The   *)
(* responder is external: what is added stays announced until its handle   *)
(* is removed or the responder closed.                                     *)
(***************************************************************************)
EXTENDS Naturals, FiniteSets

CONSTANTS
    Listener,          \* the listeners with a service type: plain UDP and TCP, DoT
    Port,
    MaxSaves, MaxFails

VARIABLES
    settings,          \* [enabled, port]: the port of every listener that is on, 0 for off
    running,           \* the advertiser: its number, 0 for nil
    tracked,           \* Advertiser.tracked: per type, what is registered
    work,              \* the goroutines under way
    announced,         \* external: what the responder announces
    made,              \* handles and advertisers made so far
    saves, fails

vars == <<settings, running, tracked, work, announced, made, saves, fails>>

NotTracked == [spec |-> 0, handle |-> 0]

\* desiredServices: one service per listener that is on, with its port.
DesiredServices(s) == {l \in Listener : s.port[l] # 0}

Spawn(kind, l, spec, handle) ==
    [kind |-> kind, of |-> running', by |-> saves', type |-> l, spec |-> spec, handle |-> handle]

\* Reconcile, under the mutex: drop what is not wanted or changed, register what
\* is not tracked with these parameters.  A type is dropped from the map at once
\* and enters it when its registration has finished.
Reconcile(s, before) ==
    LET drop == {l \in Listener : before[l] # NotTracked /\ before[l].spec # s.port[l]}
        add == {l \in DesiredServices(s) : before[l] = NotTracked \/ l \in drop}
    IN /\ tracked' = [l \in Listener |-> IF l \in drop THEN NotTracked ELSE before[l]]
       /\ work' = work \cup {Spawn("unregister", l, 0, before[l].handle) : l \in drop}
                       \cup {Spawn("register", l, s.port[l], 0) : l \in add}

\* StartAdvertise; the responder may not start.
StartAdvertise(s) ==
    \/ /\ running' = made + 1
       /\ made' = made + 1
       /\ Reconcile(s, [l \in Listener |-> NotTracked])
       /\ UNCHANGED <<announced, fails>>
    \/ /\ fails < MaxFails
       /\ fails' = fails + 1
       /\ UNCHANGED <<running, made, tracked, work, announced>>

\* StopAdvertise: Close says goodbye for everything the responder announces.
StopAdvertise ==
    /\ running' = 0
    /\ tracked' = [l \in Listener |-> NotTracked]
    /\ announced' = {a \in announced : a.of # running}
    /\ UNCHANGED <<made, work, fails>>

\* reconcileAdvertise, at the end of every settings save.
SaveSettings(s) ==
    /\ saves < MaxSaves
    /\ saves' = saves + 1
    /\ settings' = s
    /\ \/ ~s.enabled /\ StopAdvertise
       \/ s.enabled /\ running = 0 /\ StartAdvertise(s)
       \/ /\ s.enabled /\ running # 0
          /\ UNCHANGED running
          /\ Reconcile(s, tracked)
          /\ UNCHANGED <<announced, made, fails>>

\* Register returns: the service is announced, and tracked with its handle.  The
\* goroutine keeps its own advertiser: one that was replaced no longer matters.
Registered(w) ==
    /\ w \in work /\ w.kind = "register"
    /\ work' = work \ {w}
    /\ made' = made + 1
    /\ announced' = IF w.of = running
                    THEN announced \cup {[of |-> w.of, type |-> w.type, spec |-> w.spec, handle |-> made + 1]}
                    ELSE announced
    /\ tracked' = IF w.of = running
                  THEN [tracked EXCEPT ![w.type] = [spec |-> w.spec, handle |-> made + 1]]
                  ELSE tracked
    /\ UNCHANGED <<settings, running, saves, fails>>

\* Register fails: the type is dropped, for the next Reconcile to retry.
RegisterFails(w) ==
    /\ w \in work /\ w.kind = "register"
    /\ fails < MaxFails
    /\ fails' = fails + 1
    /\ work' = work \ {w}
    /\ tracked' = IF w.of = running THEN [tracked EXCEPT ![w.type] = NotTracked] ELSE tracked
    /\ UNCHANGED <<settings, running, announced, made, saves>>

Unregistered(w) ==
    /\ w \in work /\ w.kind = "unregister"
    /\ work' = work \ {w}
    /\ announced' = {a \in announced : a.handle # w.handle}
    /\ UNCHANGED <<settings, running, tracked, made, saves, fails>>

Setting == [enabled : BOOLEAN, port : [Listener -> Port \cup {0}]]

\* The process starts: the settings are given, and the first save of the GUI, or
\* StartAdvertise at start-up, is the first reconciliation.
Init ==
    /\ settings = [enabled |-> FALSE, port |-> [l \in Listener |-> 0]]
    /\ running = 0 /\ made = 0 /\ saves = 0 /\ fails = 0
    /\ tracked = [l \in Listener |-> NotTracked]
    /\ work = {} /\ announced = {}

Next ==
    \/ \E s \in Setting : SaveSettings(s)
    \/ \E w \in work : Registered(w) \/ RegisterFails(w) \/ Unregistered(w)

Spec == Init /\ [][Next]_vars

---------------------------------------------------------------------------
\* advertiser.go of Reconcile: "brings the advertised service set in line with
\* settings: registers newly-wanted services, unregisters no-longer-wanted ones,
\* and re-registers ones whose port or TXT content changed".  When every
\* goroutine has finished and nothing failed, what is announced is what the
\* settings ask for.
SettledIsWanted ==
    work = {} /\ fails = 0 =>
        {<<a.type, a.spec>> : a \in announced} =
            IF settings.enabled
            THEN {<<l, settings.port[l]>> : l \in DesiredServices(settings)} ELSE {}
=============================================================================
