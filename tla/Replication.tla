------------------------------ MODULE Replication ------------------------------
(***************************************************************************)
(* How the fills of the sequencer reach the enclaves of the validators.    *)
(* A handler takes a batch number, sends the batch to a forwarder, and the *)
(* forwarder publishes it while the node is the sequencer.  A validator    *)
(* accepts a batch of the leader it knows, checks its hash and its time,   *)
(* and replays, order by order, what it can verify.  Roles and leader      *)
(* views change under way; a missed batch is not asked for again.          *)
(***************************************************************************)
EXTENDS Naturals, Sequences, FiniteSets

CONSTANTS Nodes, FirstLeader,
          OrderKinds,   \* among "open", "shrunk" (by a self-cross), "vault", "close" and
                        \* "bare close" (without the client's signature)
          VaultNodes,   \* the nodes whose configuration names the vaults
          MaxFills, MaxTerms, MaxClock,
          Skew,         \* how far two attested clocks may be apart
          FwdTol,       \* BATCH_TIME_FWD_TOL_SECS
          MaxLag,       \* BATCH_TIME_MAX_LAG_SECS
          MaxLost,      \* bound on the batches that are lost
          MaxRefusals   \* bound on the legs that an enclave refuses

ASSUME ReplicationAssumption ==
    /\ FirstLeader \in Nodes /\ VaultNodes \subseteq Nodes
    /\ OrderKinds \subseteq {"open", "shrunk", "vault", "close", "bare close"}
    /\ {MaxFills, MaxTerms, MaxClock, Skew, FwdTol, MaxLag, MaxLost, MaxRefusals} \subseteq Nat

VARIABLES term, elected,  \* the elections so far and the last winner
          view,           \* view[n]: the leader_rx of n
          isSeq,          \* isSeq[n]: is_sequencer
          batchNum,         \* batchNum[n]: the batch number n took last
          sending,        \* sending[n]: numbered batches of handlers at their send
          queue,          \* queue[n]: the channel to the forwarder
          mesh,           \* mesh[n]: batches under way to n
          replay,         \* replay[n]: the legs of the batch in progress
          last,           \* last[n]: last_seq of the validator loop
          alarms,         \* alarms[n]: the health counters that moved, <<counter, fill>>
          enclave,        \* enclave[n]: the legs applied, <<fill, leg, call>>
          fills,          \* the executed fills
          clock,          \* clock[n]: the attested close time
          lost,           \* history: <<fill, node>>, the batch was lost on the way there
          passedOver,     \* history: <<fill, node>>, dropped by a role or leader check
          refusals        \* legs that an enclave may still refuse

replicationVars == <<term, elected, view, isSeq, batchNum, sending, queue, mesh, replay,
                     last, alarms, enclave, fills, clock, lost, passedOver, refusals>>
electionVars == <<term, elected, view, isSeq>>
publishVars  == <<batchNum, sending, queue, fills>>
validatorVars == <<replay, last, alarms>>
boundVars == <<lost, refusals>>

ReplicationInit ==
    /\ term = 1 /\ elected = FirstLeader
    /\ view = [n \in Nodes |-> FirstLeader]
    /\ isSeq = [n \in Nodes |-> n = FirstLeader]
    /\ batchNum = [n \in Nodes |-> 0] /\ sending = [n \in Nodes |-> {}]
    /\ queue = [n \in Nodes |-> <<>>] /\ mesh = [n \in Nodes |-> {}]
    /\ replay = [n \in Nodes |-> <<>>] /\ last = [n \in Nodes |-> 0]
    /\ alarms = [n \in Nodes |-> {}] /\ enclave = [n \in Nodes |-> {}]
    /\ fills = {} /\ clock = [n \in Nodes |-> 1] /\ lost = {}
    /\ passedOver = {} /\ refusals = MaxRefusals

-------------------------------------------------------------------------------
(* The leader: the election's result, each node's view of it and the flag. *)

Elect(l) ==
    /\ term < MaxTerms /\ l # elected
    /\ term' = term + 1 /\ elected' = l
    /\ UNCHANGED <<view, isSeq, publishVars, mesh, validatorVars, enclave, clock, passedOver, boundVars>>

LearnLeader(n) ==
    /\ view[n] # elected /\ view' = [view EXCEPT ![n] = elected]
    /\ UNCHANGED <<term, elected, isSeq, publishVars, mesh, validatorVars, enclave, clock, passedOver, boundVars>>

\* The role watcher sets the flag; a demotion also cancels the vaults' orders.
WatchRole(n) ==
    /\ isSeq[n] # (view[n] = n)
    /\ isSeq' = [isSeq EXCEPT ![n] = (view[n] = n)]
    /\ UNCHANGED <<term, elected, view, publishVars, mesh, validatorVars, enclave, clock, passedOver, boundVars>>

AdvanceTime(n) ==
    /\ clock[n] < MaxClock /\ \A m \in Nodes : clock[n] < clock[m] + Skew
    /\ clock' = [clock EXCEPT ![n] = @ + 1]
    /\ UNCHANGED <<electionVars, publishVars, mesh, validatorVars, enclave, passedOver, boundVars>>

-------------------------------------------------------------------------------
(* The sequencer.                                                          *)

Agreed == \A n \in Nodes : view[n] = elected /\ isSeq[n] = (n = elected)

\* The taker's leg of a close is a call to close_position.
TakerCall(kind) == IF kind \in {"close", "bare close"} THEN "close" ELSE "open"

Legs(f, call) == {<<f, "taker", call>>, <<f, "maker", "open">>}

\* submit_order settles both legs, numbers the batch and stamps it with the attested
\* time; a leg that its own enclave refuses is only reported, and is in the batch.
Execute(n, kind) ==
    LET f == Cardinality(fills) + 1
        b == [fill |-> f, by |-> n, seq |-> batchNum[n] + 1, kind |-> kind,
              time |-> clock[n], term |-> term, agreed |-> Agreed /\ elected = n]
    IN  /\ isSeq[n] /\ f <= MaxFills
        /\ fills' = fills \cup {b}
        /\ \E refused \in SUBSET Legs(f, TakerCall(kind)) :
              /\ Cardinality(refused) <= refusals /\ refusals' = refusals - Cardinality(refused)
              /\ enclave' = [enclave EXCEPT ![n] = @ \cup (Legs(f, TakerCall(kind)) \ refused)]
        /\ batchNum' = [batchNum EXCEPT ![n] = @ + 1]
        /\ sending' = [sending EXCEPT ![n] = @ \cup {b}]
        /\ UNCHANGED <<electionVars, queue, mesh, validatorVars, clock, lost, passedOver>>

\* Two handlers may send in either order.
QueueBatch(n, b) ==
    /\ b \in sending[n]
    /\ sending' = [sending EXCEPT ![n] = @ \ {b}]
    /\ queue' = [queue EXCEPT ![n] = Append(@, b)]
    /\ UNCHANGED <<electionVars, batchNum, fills, mesh, validatorVars, enclave, clock, passedOver, boundVars>>

\* The forwarder drops the batch when the flag is down by then.
Forward(n) ==
    LET b == Head(queue[n]) IN
    /\ queue[n] # <<>>
    /\ queue' = [queue EXCEPT ![n] = Tail(@)]
    /\ IF isSeq[n]
       THEN /\ mesh' = [m \in Nodes |-> IF m # n THEN mesh[m] \cup {b} ELSE mesh[m]]
            /\ UNCHANGED passedOver
       ELSE passedOver' = passedOver \cup {<<b.fill, m>> : m \in Nodes} /\ UNCHANGED mesh
    /\ UNCHANGED <<electionVars, batchNum, sending, fills, validatorVars, enclave, clock, boundVars>>

LoseBatch(n, b) ==
    /\ b \in mesh[n] /\ Cardinality(lost) < MaxLost
    /\ mesh' = [mesh EXCEPT ![n] = @ \ {b}]
    /\ lost' = lost \cup {<<b.fill, n>>}
    /\ UNCHANGED <<electionVars, publishVars, validatorVars, enclave, clock, passedOver, refusals>>

-------------------------------------------------------------------------------
(* The validator.                                                          *)

\* Mutant: a batch that does not follow the last one is passed over.
GateInOrder(n, b) == view[n] = b.by /\ (last[n] = 0 \/ b.seq = last[n] + 1)

\* leader_gate_decision: the authenticated publisher is the leader this node knows.
LeaderGate(n, b) == view[n] = b.by

\* batch_time_divergence on the node's own clock.
InTime(n, b) ==
    clock[n] > 0 /\ b.time <= clock[n] + FwdTol /\ clock[n] <= b.time + MaxLag

\* verify_replicated_order: a client's order carries a signed body that names the
\* user, the side, the size and the leverage, and a self-cross has taken the crossed size
\* off the order in the batch; a vault's order carries only its vault.
VerifyReplicatedOrder(n, b) ==
    \/ b.kind \in {"open", "close"}
    \/ b.kind = "vault" /\ n \in VaultNodes

Alarm(n, counter, b) == alarms' = [alarms EXCEPT ![n] = @ \cup {<<counter, b>>}]

\* One batch of the validator loop, up to the replay of its legs: each is a call to
\* open_position, whatever the sequencer called.
TakeBatch(n, b) ==
    /\ b \in mesh[n] /\ replay[n] = <<>>
    /\ mesh' = [mesh EXCEPT ![n] = @ \ {b}]
    /\ IF isSeq[n] \/ ~LeaderGate(n, b)
       THEN passedOver' = passedOver \cup {<<b.fill, n>>} /\ UNCHANGED validatorVars
       ELSE /\ last' = [last EXCEPT ![n] = b.seq] /\ UNCHANGED passedOver
            /\ \/ ~InTime(n, b) /\ Alarm(n, "time", b.fill) /\ UNCHANGED replay
               \/ /\ InTime(n, b) /\ ~VerifyReplicatedOrder(n, b)
                  /\ Alarm(n, "unverified", b.fill) /\ UNCHANGED replay
               \/ /\ InTime(n, b) /\ VerifyReplicatedOrder(n, b) /\ UNCHANGED alarms
                  /\ replay' = [replay EXCEPT ![n] = <<<<b.fill, "taker", "open">>,
                                                       <<b.fill, "maker", "open">>>>]
    /\ UNCHANGED <<electionVars, publishVars, enclave, clock, boundVars>>

\* The enclave applies the leg, or refuses it and the next one is tried.
ReplayLeg(n) ==
    LET leg == Head(replay[n]) IN
    /\ replay[n] # <<>>
    /\ replay' = [replay EXCEPT ![n] = Tail(@)]
    /\ \/ /\ enclave' = [enclave EXCEPT ![n] = @ \cup {leg}]
          /\ UNCHANGED <<alarms, refusals>>
       \/ /\ refusals > 0 /\ refusals' = refusals - 1
          /\ Alarm(n, "replay", leg[1]) /\ UNCHANGED enclave
    /\ UNCHANGED <<electionVars, publishVars, mesh, last, clock, lost, passedOver>>

ReplicationNext ==
    \/ \E l \in Nodes : Elect(l)
    \/ \E n \in Nodes :
          \/ LearnLeader(n) \/ WatchRole(n) \/ AdvanceTime(n) \/ Forward(n) \/ ReplayLeg(n)
          \/ \E kind \in OrderKinds : Execute(n, kind)
          \/ \E b \in sending[n] : QueueBatch(n, b)
          \/ \E b \in mesh[n] : LoseBatch(n, b) \/ TakeBatch(n, b)

\* Every task of a node keeps running and the enclave answers; elections, orders
\* and losses are not forced.
ReplicationFairness ==
    \A n \in Nodes :
        /\ WF_replicationVars(LearnLeader(n)) /\ WF_replicationVars(WatchRole(n))
        /\ WF_replicationVars(\E b \in sending[n] : QueueBatch(n, b))
        /\ WF_replicationVars(Forward(n)) /\ WF_replicationVars(ReplayLeg(n))
        /\ WF_replicationVars(\E b \in mesh[n] : TakeBatch(n, b))

ReplicationSpec == ReplicationInit /\ [][ReplicationNext]_replicationVars
                       /\ ReplicationFairness

-------------------------------------------------------------------------------
(* Properties.                                                             *)

Applied(b, n) == Legs(b.fill, TakerCall(b.kind)) \subseteq enclave[n]
Alarmed(b, n) == \E a \in alarms[n] : a[2] = b.fill

\* A fill reaches the enclave of every other node, or the mesh lost it, or a counter of
\* that node moved because of it: for orders that a self-cross shrank, refused legs and
\* clocks that are apart, too.  Neither batches sent out of the order of their numbers nor
\* numbers that start again with a new leader make a node pass it over in silence; that
\* happens only where leaders changed since the fill, or were not agreed on then
\* (main.rs:2647-2956, trading.rs:424).  A close is replayed as an open.
ReplicaCatchesUp ==
    []<>(\A b \in fills : \A n \in Nodes \ {b.by} : b.kind # "close" =>
            \/ Applied(b, n) \/ Alarmed(b, n) \/ <<b.fill, n>> \in lost
            \/ <<b.fill, n>> \in passedOver /\ (term > b.term \/ ~b.agreed))

\* A validator none of whose counters moved, and that has nothing left to replay,
\* holds what the sequencer holds: a divergence "stops ... being SILENT"
\* (main.rs:2660-2663).
QuietMeansEqual ==
    (term = 1 /\ lost = {} /\ \A n \in Nodes : sending[n] = {} /\ queue[n] = <<>>
                                /\ mesh[n] = {} /\ replay[n] = <<>>)
        => \A n \in Nodes : alarms[n] = {} => enclave[n] = enclave[elected]
===============================================================================
