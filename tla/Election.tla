------------------------------ MODULE Election ------------------------------
(***************************************************************************)
(* Sequencer election by heartbeat and static priority (election.rs).      *)
(*                                                                         *)
(* Each node runs one event loop, so a handler is one step.  Time is in    *)
(* heartbeat intervals (5 s); the 1 s check tick is the action             *)
(* CheckTimeout, enabled as soon as a timeout has passed.  Messages go     *)
(* through gossipsub: unordered, and lost or arbitrarily late until the    *)
(* network stabilises (`stable'), from when on no node crashes, nothing is *)
(* lost, and messages, heartbeats and checks are handled within one        *)
(* interval.  Before that the timers of a slow node fire at any time.  A   *)
(* heartbeat's seq_num is only logged and is left out.                     *)
(***************************************************************************)
EXTENDS Integers, FiniteSets

CONSTANTS
    Nodes,       \* peer ids, a set of naturals: ties compare them
    Priority,    \* our_priority of each node, 0 the highest
    Timeout,     \* heartbeat_timeout in heartbeat intervals (3)
    MaxCrashes,  \* bound on crashes (exploration bound)
    MaxInFlight, \* bound on undelivered messages before stabilisation
    None         \* no known leader

ASSUME ElectionAssumption ==
    /\ Nodes \subseteq Nat
    /\ Priority \in [Nodes -> Nat]
    /\ Timeout \in Nat \ {0}
    /\ MaxCrashes \in Nat /\ MaxInFlight \in Nat
    /\ None \notin Nodes

Roles == {"Sequencer", "Validator"}
Ages == 0 .. Timeout + 1
Message == [kind : {"Heartbeat", "LeaderAnnounce"}, from : Nodes, to : Nodes]

VARIABLES
    up,        \* is the process running?
    role, leader,
    age,       \* intervals since last_heartbeat, saturated; 0 while unread
    grace,     \* startup_grace
    boot,      \* intervals since startup_time, saturated; 0 after grace
    due,       \* nodes whose heartbeat tick is due (kept once stable)
    net,       \* election messages in flight
    stable,    \* the network has stabilised
    crashes

elVars == <<up, role, leader, age, grace, boot, due, net, stable, crashes>>

----------------------------------------------------------------------------

StartRole(n) == IF Priority[n] = 0 THEN "Sequencer" ELSE "Validator"
StartLeader(n) == IF StartRole(n) = "Sequencer" THEN n ELSE None

Older(a) == IF a > Timeout THEN a ELSE a + 1

\* A broadcast: before stabilisation it may reach any subset of the others.
Sends(kind, n, rest) ==
    \E dest \in SUBSET {d \in Nodes \ {n} : up[d]} :
        /\ net' = rest \cup {[kind |-> kind, from |-> n, to |-> d] : d \in dest}
        /\ IF stable THEN dest = {d \in Nodes \ {n} : up[d]}
                     ELSE Cardinality(net') <= MaxInFlight

\* A tie goes to the lower peer id; only announcements use it.
Beats(p, n) == Priority[p] < Priority[n] \/ (Priority[p] = Priority[n] /\ p < n)

----------------------------------------------------------------------------

SendHeartbeat(n) ==
    /\ up[n] /\ role[n] = "Sequencer"
    /\ stable => n \in due
    /\ due' = due \ {n}
    /\ Sends("Heartbeat", n, net)
    /\ UNCHANGED <<up, role, leader, age, grace, boot, stable, crashes>>

\* set_leader and the last_heartbeat refresh that always goes with it.
Follow(n, p) ==
    /\ leader' = [leader EXCEPT ![n] = p]
    /\ age' = [age EXCEPT ![n] = 0]

\* Mutant: any heartbeat that names a leader demotes.
YieldToAnyone(n, p) == role' = [role EXCEPT ![n] = "Validator"]

\* A heartbeat demotes a sequencer only for a strictly better priority.
YieldTo(n, p) ==
    role' = IF Priority[p] < Priority[n] THEN [role EXCEPT ![n] = "Validator"]
                                         ELSE role

Receive(m) ==
    /\ m \in net /\ up[m.to]
    /\ net' = net \ {m}
    /\ UNCHANGED <<up, due, stable, crashes>>

\* In startup grace any heartbeat names the leader.
HeartbeatInGrace(m) ==
    /\ Receive(m) /\ m.kind = "Heartbeat"
    /\ grace[m.to]
    /\ grace' = [grace EXCEPT ![m.to] = FALSE]
    /\ boot' = [boot EXCEPT ![m.to] = 0]
    /\ Follow(m.to, m.from) /\ YieldTo(m.to, m.from)

\* Mutant: a known leader is never replaced on a heartbeat.
PrefersOnlyFirst(n, p) == leader[n] = None

Prefers(n, p) == leader[n] # None => Priority[p] < Priority[leader[n]]

HeartbeatAdopted(m) ==
    /\ Receive(m) /\ m.kind = "Heartbeat"
    /\ ~grace[m.to] /\ Prefers(m.to, m.from)
    /\ Follow(m.to, m.from)
    /\ IF leader[m.to] = None THEN UNCHANGED role ELSE YieldTo(m.to, m.from)
    /\ UNCHANGED <<grace, boot>>

HeartbeatKept(m) ==
    /\ Receive(m) /\ m.kind = "Heartbeat"
    /\ ~grace[m.to] /\ ~Prefers(m.to, m.from)
    /\ age' = [age EXCEPT ![m.to] = IF leader[m.to] = m.from THEN 0 ELSE @]
    /\ UNCHANGED <<role, leader, grace, boot>>

AnnounceAccepted(m) ==
    /\ Receive(m) /\ m.kind = "LeaderAnnounce"
    /\ Beats(m.from, m.to)
    /\ Follow(m.to, m.from)
    /\ role' = [role EXCEPT ![m.to] = "Validator"]
    /\ UNCHANGED <<grace, boot>>

AnnounceIgnored(m) ==
    /\ Receive(m) /\ m.kind = "LeaderAnnounce"
    /\ ~Beats(m.from, m.to)
    /\ UNCHANGED <<role, leader, age, grace, boot>>

HandleMessage(m) ==
    \/ HeartbeatInGrace(m) \/ HeartbeatAdopted(m) \/ HeartbeatKept(m)
    \/ AnnounceAccepted(m) \/ AnnounceIgnored(m)

----------------------------------------------------------------------------

GraceOver(n) == up[n] /\ grace[n] /\ boot[n] > Timeout
LeaderLost(n) == up[n] /\ ~grace[n] /\ role[n] = "Validator" /\ age[n] > Timeout

\* Mutant: promote without set_leader.
PromoteSilently(n) ==
    /\ role' = [role EXCEPT ![n] = "Sequencer"]
    /\ age' = [age EXCEPT ![n] = 0]
    /\ Sends("LeaderAnnounce", n, net)
    /\ UNCHANGED leader

\* promote: lead, and announce it.  A sequencer's last_heartbeat is not read.
Promote(n) ==
    /\ leader' = [leader EXCEPT ![n] = n]
    /\ role' = [role EXCEPT ![n] = "Sequencer"]
    /\ age' = [age EXCEPT ![n] = 0]
    /\ Sends("LeaderAnnounce", n, net)

CheckTimeout(n) ==
    /\ \/ /\ GraceOver(n)
          /\ grace' = [grace EXCEPT ![n] = FALSE]
          /\ \/ leader[n] = None /\ Promote(n)
             \/ leader[n] # None /\ UNCHANGED <<leader, role, age, net>>
       \/ /\ LeaderLost(n)
          /\ Promote(n)
          /\ UNCHANGED grace
    /\ boot' = [boot EXCEPT ![n] = 0]
    /\ UNCHANGED <<up, due, stable, crashes>>

----------------------------------------------------------------------------

LiveNodes == {n \in Nodes : up[n]}

\* One heartbeat interval passes.
PassInterval ==
    /\ stable =>
        /\ net = {}
        /\ \A n \in Nodes : /\ ~GraceOver(n) /\ ~LeaderLost(n)
                            /\ n \in due => role[n] # "Sequencer"
    /\ age' = [n \in Nodes |-> IF up[n] /\ role[n] = "Validator" /\ leader[n] # None
                              THEN Older(age[n]) ELSE 0]
    /\ boot' = [n \in Nodes |-> IF up[n] /\ grace[n] THEN Older(boot[n]) ELSE 0]
    /\ due' = IF stable THEN LiveNodes ELSE {}
    /\ UNCHANGED <<up, role, leader, grace, net, stable, crashes>>

\* The process dies with its state; ElectionState::new runs at the restart.
Crash(n) ==
    /\ ~stable /\ up[n] /\ crashes < MaxCrashes
    /\ crashes' = crashes + 1
    /\ up' = [up EXCEPT ![n] = FALSE]
    /\ role' = [role EXCEPT ![n] = StartRole(n)]
    /\ leader' = [leader EXCEPT ![n] = StartLeader(n)]
    /\ age' = [age EXCEPT ![n] = 0] /\ boot' = [boot EXCEPT ![n] = 0]
    /\ grace' = [grace EXCEPT ![n] = TRUE]
    /\ net' = {m \in net : m.to # n}
    /\ UNCHANGED <<due, stable>>

Restart(n) ==
    /\ ~stable /\ ~up[n]
    /\ up' = [up EXCEPT ![n] = TRUE]
    /\ UNCHANGED <<role, leader, age, grace, boot, due, net, stable, crashes>>

Stabilise ==
    /\ ~stable /\ LiveNodes # {}
    /\ stable' = TRUE
    /\ UNCHANGED <<up, role, leader, age, grace, boot, due, net, crashes>>

ElectionInit ==
    /\ up = [n \in Nodes |-> TRUE]
    /\ role = [n \in Nodes |-> StartRole(n)]
    /\ leader = [n \in Nodes |-> StartLeader(n)]
    /\ age = [n \in Nodes |-> 0] /\ boot = [n \in Nodes |-> 0]
    /\ grace = [n \in Nodes |-> TRUE]
    /\ due = {} /\ net = {} /\ stable = FALSE /\ crashes = 0

\* What a live node or the clock does by itself.
Running ==
    \/ \E n \in Nodes : SendHeartbeat(n) \/ CheckTimeout(n)
    \/ \E m \in net : HandleMessage(m)
    \/ PassInterval

ElectionNext ==
    \/ Running
    \/ \E n \in Nodes : Crash(n) \/ Restart(n)
    \/ Stabilise

\* The tokio runtime polls every ready event loop, the gossip layer delivers
\* what it does not lose, and time passes: the system never stops for good.
\* That is enough, since once stable the clock waits for everything else.
ElectionSpec == ElectionInit /\ [][ElectionNext]_elVars /\ WF_elVars(Running)

----------------------------------------------------------------------------
(* Properties. *)

\* The types of ElectionState's fields and of the network.
ElectionTypeOK ==
    /\ up \in [Nodes -> BOOLEAN] /\ grace \in [Nodes -> BOOLEAN]
    /\ role \in [Nodes -> Roles]
    /\ leader \in [Nodes -> Nodes \cup {None}]
    /\ age \in [Nodes -> Ages] /\ boot \in [Nodes -> Ages]
    /\ due \subseteq Nodes /\ net \subseteq Message
    /\ stable \in BOOLEAN /\ crashes \in 0 .. MaxCrashes

\* A node's role and the leader it publishes to the replay gate agree: a
\* validator never names itself, a node that left startup grace always names
\* someone, and a sequencer names itself.  (A priority-0 sequencer is the
\* exception: a heartbeat in its grace period overwrites its leader while it
\* keeps the role.)
RoleMatchesLeader ==
    \A n \in Nodes :
        /\ role[n] = "Validator" => leader[n] # n
        /\ ~grace[n] => leader[n] # None
        /\ role[n] = "Sequencer" /\ Priority[n] # 0 => leader[n] = n /\ ~grace[n]

\* A running sequencer stands down only for a node that outranks it.
YieldsOnlyUpward ==
    [][\A n \in Nodes :
        role[n] = "Sequencer" /\ role'[n] = "Validator" /\ up[n] /\ up'[n]
            => Beats(leader'[n], n)]_elVars

Agreed(l) ==
    /\ up[l] /\ role[l] = "Sequencer"
    /\ \A n \in LiveNodes \ {l} : role[n] = "Validator" /\ leader[n] = l

\* Once the network is stable, one live node becomes the only sequencer, all
\* the others gate replay on it, and that never changes again.
ConvergesToOneSequencer == stable ~> [](\E l \in Nodes : Agreed(l))
============================================================================
