------------------------------ MODULE JoinBrain ------------------------------
(***************************************************************************)
(* How a machine whose enclave holds no membership yet obtains it from the *)
(* cluster.  Nodes announce quotes with the epoch they have sealed; the    *)
(* newcomer publishes requests; the sources elect a server by the order of *)
(* their accounts, the first at once, the others after a delay unless they *)
(* see a bundle delivered first; the newcomer imports a bundle only when   *)
(* its epoch is the highest that fresh announcements name.  A node that    *)
(* finds itself behind the announcements stops serving.                    *)
(*                                                                         *)
(* Time is abstracted: a request follows the last one when no message for  *)
(* its sender is under way and no delayed serve is due (30 s against 2 s   *)
(* ticks and 3 s of delay per rank), and the second half of the budget is  *)
(* used only after a round of announcements (300 s against 240 s).         *)
(***************************************************************************)
EXTENDS Naturals, FiniteSets

CONSTANTS Sources,      \* the members that hold a membership
          Newcomer,     \* the machine that joins
          Lagging,      \* the sources that may miss a new epoch
          MaxEpoch,     \* bound on the epochs the cluster seals
          MaxRequests,  \* MAX_REQUEST_RETRIES
          JoinFaults    \* bound on lost messages, failed calls and restarts

ASSUME JoinAssumption ==
    /\ Sources # {} /\ Newcomer \notin Sources
    /\ Lagging \subseteq Sources
    /\ MaxEpoch \in Nat /\ MaxRequests \in Nat /\ JoinFaults \in Nat

VARIABLES sealed,    \* sealed[n]: the epoch sealed in n's enclave, 0 for none
          retained,  \* retained[n]: the epoch of the bundle kept in n's database
          synced,    \* synced[n]: n's enclave says in_sync
          first,     \* the machine whose account sorts first
          refused,   \* history: it was asked while it could not serve the newest epoch
          seen,      \* seen[n]: the fresh verified announcements, <<peer, epoch>>
          brain,     \* brain[n]: the locals of run_join_brain
          repeat,    \* the mesh would drop the newcomer's request as a duplicate
          net,       \* bootstrap messages under way
          faults     \* faults that may still happen

joinVars == <<sealed, retained, synced, first, refused, seen, brain, repeat, net, faults>>

Machines == Sources \cup {Newcomer}

\* The locals at the start of run_join_brain; served and pending concern the
\* only requester.
FreshBrain(n) == [bootstrapped |-> sealed[n] > 0, retries |-> 0, halted |-> FALSE,
                  served |-> FALSE, pending |-> FALSE, behind |-> FALSE,
                  drifted |-> FALSE]

JoinInit ==
    /\ sealed = [n \in Machines |-> IF n \in Sources THEN 1 ELSE 0]
    /\ retained = sealed /\ synced = [n \in Sources |-> TRUE] /\ first \in Machines /\ refused = FALSE
    /\ seen = [n \in Machines |-> {}]
    /\ brain = [n \in Machines |-> FreshBrain(n)]
    /\ repeat = FALSE /\ net = {} /\ faults = JoinFaults

Fault == faults > 0 /\ faults' = faults - 1

-------------------------------------------------------------------------------
(* The announced epochs.                                                   *)

\* Mutant: what a peer announced first is kept.
KeepEpoch(n, m, e) ==
    seen' = [seen EXCEPT ![n] = IF \E o \in @ : o[1] = m THEN @ ELSE @ \cup {<<m, e>>}]

\* ObservedPeerEpochs::record replaces what the peer announced before.
RecordEpoch(n, m, e) == seen' = [seen EXCEPT ![n] = {o \in @ : o[1] # m} \cup {<<m, e>>}]

\* max_fresh, for a non-empty set of observations.
MaxFresh(n) == CHOOSE e \in {o[2] : o \in seen[n]} : \A o \in seen[n] : o[2] <= e

\* fresh_peer_count is not zero.
HasPeers(n) == seen[n] # {}

\* A newcomer that has joined is followed no further: what it announces is never
\* above what its source did, and from then on it observes as the sources do.
Joined(n) == n = Newcomer /\ brain[n].bootstrapped

\* The drift check only asks for an announcement ahead of the source's own epoch, so
\* that the others change nothing in it; a source that is behind stays behind.
Observes(n, m) == ~Joined(n) /\ (n = Newcomer \/ sealed[n] < sealed[m])

\* What the announcer of m publishes with its quote.
EpochQuote(m) == <<m, sealed[m]>>

\* The verifier of n accepts the quote that m announces.
Announce(m, n) ==
    /\ m \in Sources \ {n} /\ Observes(n, m) /\ EpochQuote(m) \notin seen[n]
    /\ RecordEpoch(n, m, sealed[m])
    /\ UNCHANGED <<sealed, retained, synced, first, refused, brain, repeat, net, faults>>

\* An announcement older than PEER_EPOCH_TTL.
Expire(n, o) ==
    /\ o \in seen[n] /\ ~Joined(n) /\ Fault
    /\ seen' = [seen EXCEPT ![n] = @ \ {o}]
    /\ UNCHANGED <<sealed, retained, synced, first, refused, brain, repeat, net>>

\* A membership change seals the next epoch in every enclave that holds the
\* current one and keeps its bundle; a lagging source may miss it.  Until the change is
\* confirmed on the ledger, the enclave is not in sync.
SealNext(missing) ==
    LET top == CHOOSE e \in {sealed[n] : n \in Machines} :
                  \A n \in Machines : sealed[n] <= e
        ok  == {n \in Machines \ missing : sealed[n] = top} IN
    /\ top < MaxEpoch /\ ok \cap Sources # {}
    /\ sealed'   = [n \in Machines |-> IF n \in ok THEN top + 1 ELSE sealed[n]]
    /\ retained' = [n \in Machines |-> IF n \in ok THEN top + 1 ELSE retained[n]]
    /\ synced'   = [n \in Sources |-> synced[n] /\ n \notin ok]
    /\ UNCHANGED <<seen, first, refused, brain, repeat, net, faults>>

\* The confirmation reaches the enclave of n; nothing promises that it does.
ConfirmSync(n) ==
    /\ ~synced[n] /\ synced' = [synced EXCEPT ![n] = TRUE]
    /\ UNCHANGED <<sealed, retained, first, refused, seen, brain, repeat, net, faults>>

-------------------------------------------------------------------------------
(* Sources.                                                                *)

\* election_rank is zero: the lowest account of the bundle's authority, which
\* lists the newcomer too.
RankZero(n) == n = first

\* source_prepare: the enclave is in sync and the bundle of its epoch is at hand.
CanServe(n) == sealed[n] > 0 /\ synced[n] /\ retained[n] = sealed[n]

\* The envelope the enclave exports for the retained epoch.
Exported(n, m) == [kind |-> "deliver", to |-> m, epoch |-> retained[n]]

\* source_serve publishes it to every other node.
Bundles(n) == {Exported(n, m) : m \in Machines \ {n}}

Ready(n) == ~brain[n].drifted /\ CanServe(n) /\ \A m \in Sources : sealed[m] <= sealed[n]

\* A request arrives at a source.  A failed query is silence; a failed export still
\* counts as served.
HandleRequest(n, r) ==
    /\ r \in net /\ r.to = n /\ r.kind = "request"
    /\ \/ /\ brain[n].drifted \/ ~CanServe(n)
          /\ net' = net \ {r} /\ UNCHANGED <<brain, faults>>
       \/ /\ ~brain[n].drifted /\ CanServe(n)
          /\ \/ Fault /\ net' = net \ {r} /\ UNCHANGED brain
             \/ /\ RankZero(n) /\ brain' = [brain EXCEPT ![n].served = TRUE]
                /\ \/ net' = (net \ {r}) \cup Bundles(n) /\ UNCHANGED faults
                   \/ net' = net \ {r} /\ Fault
             \/ /\ ~RankZero(n) /\ brain' = [brain EXCEPT ![n].pending = TRUE]
                /\ net' = net \ {r} /\ UNCHANGED faults
    /\ refused' = (refused \/ (RankZero(n) /\ ~Ready(n)))
    /\ UNCHANGED <<sealed, retained, synced, seen, first, repeat>>

\* The delayed serve is due: the newcomer has not been served meanwhile.
Due(n) == brain[n].pending /\ ~brain[n].served

TickServe(n) ==
    /\ Due(n)
    /\ LET serves == ~brain[n].drifted /\ CanServe(n) IN
       \/ /\ brain' = [brain EXCEPT ![n].pending = FALSE, ![n].served = serves]
          /\ \/ serves /\ net' = net \cup Bundles(n) /\ UNCHANGED faults
             \/ serves /\ Fault /\ UNCHANGED net
             \/ ~serves /\ UNCHANGED <<net, faults>>
       \/ serves /\ Fault /\ brain' = [brain EXCEPT ![n].pending = FALSE] /\ UNCHANGED net
    /\ UNCHANGED <<sealed, retained, synced, seen, first, refused, repeat>>

\* Mutant: the check looks at the bundle instead of the enclave.
BehindBundle(n) == retained[n] < sealed[n]

\* The drift check compares the enclave with the announcements.
Behind(n) == sealed[n] < MaxFresh(n)

\* Two checks in a row, DRIFT_HALT_AFTER apart, flag a node that is behind.
TickDrift(n) ==
    /\ brain[n].bootstrapped /\ ~Joined(n) /\ HasPeers(n)
    /\ brain' = [brain EXCEPT ![n].behind = Behind(n),
                              ![n].drifted = Behind(n) /\ (@ \/ brain[n].behind)]
    /\ UNCHANGED <<sealed, retained, synced, seen, first, refused, repeat, net, faults>>

-------------------------------------------------------------------------------
(* The newcomer.                                                           *)

\* Nothing concerning the newcomer is under way.
Settled == net = {} /\ \A n \in Machines : ~Due(n)

Announced == \A m \in Sources : EpochQuote(m) \in seen[Newcomer]

\* publish_request: its text never changes, so the mesh, which names a message
\* by the hash of its data, drops every second one as a duplicate.
TickRequest ==
    LET b == brain[Newcomer] IN
    /\ ~b.bootstrapped /\ ~b.halted /\ sealed[Newcomer] = 0
    /\ HasPeers(Newcomer) /\ Settled
    /\ 2 * b.retries >= MaxRequests => Announced
    /\ repeat' = ~repeat
    /\ net' = IF repeat THEN net
              ELSE {[kind |-> "request", to |-> m, epoch |-> 0] : m \in Sources}
    /\ brain' = [brain EXCEPT ![Newcomer].retries = @ + 1,
                              ![Newcomer].halted = b.retries + 1 >= MaxRequests]
    /\ UNCHANGED <<sealed, retained, synced, seen, first, refused, faults>>

\* query_bootstrapped finds an epoch that was sealed by other means.
TickBootstrapped ==
    /\ ~brain[Newcomer].bootstrapped /\ ~brain[Newcomer].halted /\ sealed[Newcomer] > 0
    /\ brain' = [brain EXCEPT ![Newcomer].bootstrapped = TRUE]
    /\ UNCHANGED <<sealed, retained, synced, seen, first, refused, repeat, net, faults>>

\* epoch_gate: Accept.
EpochGate(e) == HasPeers(Newcomer) /\ e = MaxFresh(Newcomer)

\* The import of epoch e into the enclave of n, which becomes b in the brain: it may
\* fail, and its answer may be lost.
ImportBundle(n, e, b) ==
    \/ /\ sealed' = [sealed EXCEPT ![n] = e]
       /\ brain' = [brain EXCEPT ![n] = [b EXCEPT !.bootstrapped = TRUE]]
       /\ UNCHANGED faults
    \/ Fault /\ brain' = [brain EXCEPT ![n] = b] /\ UNCHANGED sealed
    \/ /\ Fault /\ brain' = [brain EXCEPT ![n] = b]
       /\ sealed' = [sealed EXCEPT ![n] = e]

\* newcomer_handle_deliver: nothing is written to the newcomer's database.
HandleDeliver(n, d) ==
    /\ d \in net /\ d.to = n /\ d.kind = "deliver"
    /\ net' = net \ {d}
    /\ LET b == [brain[n] EXCEPT !.served = TRUE, !.pending = FALSE] IN
       IF n = Newcomer /\ ~b.bootstrapped /\ sealed[n] = 0 /\ EpochGate(d.epoch)
       THEN ImportBundle(n, d.epoch, b)
       ELSE brain' = [brain EXCEPT ![n] = b] /\ UNCHANGED <<sealed, faults>>
    /\ UNCHANGED <<retained, synced, seen, first, refused, repeat>>

-------------------------------------------------------------------------------
Lose(msg) ==
    /\ Fault /\ net' = net \ {msg}
    /\ UNCHANGED <<sealed, retained, synced, seen, first, refused, brain, repeat>>

\* The orchestrator of n restarts: its locals and its observations are gone.
RestartBrain(n) ==
    /\ ~Joined(n) /\ Fault
    /\ brain' = [brain EXCEPT ![n] = FreshBrain(n)]
    /\ seen' = [seen EXCEPT ![n] = {}]
    /\ UNCHANGED <<sealed, retained, synced, first, refused, repeat, net>>

JoinNext ==
    \/ \E m, n \in Machines : Announce(m, n)
    \/ \E n \in Machines : \E o \in seen[n] : Expire(n, o)
    \/ \E missing \in SUBSET Lagging : SealNext(missing)
    \/ \E n \in Sources : ConfirmSync(n) \/ \E r \in net : HandleRequest(n, r)
    \/ \E n \in Machines : TickServe(n) \/ TickDrift(n) \/ RestartBrain(n)
    \/ TickRequest \/ TickBootstrapped
    \/ \E n \in Machines : \E d \in net : HandleDeliver(n, d)
    \/ \E msg \in net : Lose(msg)

\* Every brain keeps ticking and reading its inbox, and every announcer keeps
\* announcing; nothing forces an epoch, a fault or a restart.
JoinFairness ==
    /\ \A m \in Sources, n \in Machines : m # n => WF_joinVars(Announce(m, n))
    /\ \A n \in Sources : /\ WF_joinVars(\E r \in net : HandleRequest(n, r))
                          /\ WF_joinVars(TickServe(n)) /\ WF_joinVars(TickDrift(n))
    /\ \A n \in Machines : WF_joinVars(\E d \in net : HandleDeliver(n, d))
    /\ WF_joinVars(TickRequest) /\ WF_joinVars(TickBootstrapped)

JoinSpec == JoinInit /\ [][JoinNext]_joinVars /\ JoinFairness

-------------------------------------------------------------------------------
(* Properties.                                                             *)

\* "another in-sync source answers, or the newcomer retries" (bootstrap_join.rs:217-218),
\* "will retry a fresh Deliver" (371): the newcomer seals the membership in the end.  TLC
\* refutes it: a source that is not the elected one answers once, for `served' is never
\* cleared (405, 503), and when the newcomer's own account sorts first no other is.
NewcomerJoins == <>(brain[Newcomer].bootstrapped)

\* "never silently give up on a membership join" (bootstrap_join.rs:534): the newcomer
\* joins or halts for its operator.  It joins, within the budget of requests, unless its
\* own account sorts first or the elected source was asked while it could not serve the
\* newest epoch: lost messages, failed calls, requests that the mesh drops as repeated and
\* an epoch sealed meanwhile do not keep it out.
JoinEnds ==
    LET b == brain[Newcomer] IN
    <>(b.bootstrapped \/ (b.halted /\ (first = Newcomer \/ refused)))

\* A source that stays behind the cluster ends up flagged, so it no longer
\* serves the stale membership it holds (bootstrap_join.rs:545-580).
LaggardStopsServing ==
    \A n \in Lagging :
        <>[](\E m \in Sources : sealed[n] < sealed[m]) => <>[](brain[n].drifted)
===============================================================================
