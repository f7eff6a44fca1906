------------------------------- MODULE MCFeeds -------------------------------
(***************************************************************************)
(* Small instances of what reaches a node's enclave from outside: deposits *)
(* and the attested clock, the fills of the sequencer, the requests to     *)
(* sign, the proofs of ledger entries and what the main loop feeds it.     *)
(* They share no state, so each behaviour runs one of them, `focus', and   *)
(* leaves the others as they start; the fairness is that of the component  *)
(* that runs.                                                              *)
(*                                                                         *)
(* The escrow has two deposits and a payment out in one ledger, a page     *)
(* each; both validators are needed for the quorum.  Two nodes replicate   *)
(* to each other; a batch can be too old for the clock of its reader.  The *)
(* relay's requests are one of each kind, one of them unsound, and the     *)
(* guard outlives a message by a minute.  Proofs: two ledgers of each of   *)
(* two sequence numbers, whose keys part at every depth, in one of them at *)
(* the last nibble only.                                                   *)
(***************************************************************************)
EXTENDS Deposits, Replication, SigningRelay, SpvBundle, MainLoop, TLC

VARIABLE focus

-----------------------------------------------------------------------------
(* The values of the constants.                                            *)

MCEscrowTxs ==
    <<[id |-> "d1", ledger |-> 1, deposit |-> TRUE], [id |-> "w", ledger |-> 2, deposit |-> FALSE],
      [id |-> "d2", ledger |-> 2, deposit |-> TRUE], [id |-> "d3", ledger |-> 2, deposit |-> TRUE]>>

Relayed(i, kind, signer, sound) == [id |-> i, kind |-> kind, signer |-> signer, sound |-> sound]
MCRelays ==
    {Relayed(1, "signing", "b", TRUE), Relayed(2, "signing", "a", TRUE),
     Relayed(3, "policy", "-", TRUE), Relayed(4, "baseline", "-", FALSE),
     Relayed(5, "status", "-", TRUE), Relayed(6, "governance", "-", TRUE),
     Relayed(7, "epoch", "-", TRUE), Relayed(8, "delegation", "-", TRUE)}
\* 2 and 3 are both about the asker's own neighbours.
MCBatches ==
    {{r \in MCRelays : r.id \in ids} : ids \in {{1}, {2, 3}, {4}, {5}, {6}, {7}, {8}}}

MCLedgers ==
    {[seq |-> 1, entries |-> <<0, 0, 0, 0>> :> "a" @@ <<0, 0, 1, 0>> :> "e" @@ <<1, 0, 0, 1>> :> "c"],
     [seq |-> 1, entries |-> <<0, 0, 0, 0>> :> "a" @@ <<0, 0, 1, 0>> :> "f" @@ <<0, 1, 1, 1>> :> "c"],
     [seq |-> 2, entries |-> <<0, 0, 0, 0>> :> "a" @@ <<0, 1, 1, 1>> :> "g" @@ <<1, 0, 0, 1>> :> "c"],
     [seq |-> 2, entries |-> <<0, 0, 1, 0>> :> "e" @@ <<0, 0, 1, 1>> :> "h" @@ <<1, 0, 0, 1>> :> "c"]}
MCEscrow == <<0, 0, 1, 0>>
\* Lengths around the borders of the one, two and three byte prefixes.
MCVlLengths == (0..2) \cup (190..196) \cup (12478..12484) \cup (918740..918746)

\* What the tree hashes in front of a transaction is what the walker reads back
\* (tx_shamap.rs:56-81, spv_proof.rs:462-485).
ASSUME PrefixesRoundTrip == LengthsRoundTrip

MCAnchoredSets == SUBSET LoopNodes

-----------------------------------------------------------------------------

allVars == <<focus, depositVars, replicationVars, relayVars, bundleVars, loopVars>>

FeedsInit ==
    /\ focus \in {"deposits", "replication", "relay", "proof", "loop"}
    /\ DepositsInit /\ ReplicationInit /\ RelayInit /\ BundleInit /\ LoopInit
    \* Where initial states differ, only the component that runs ranges over them.
    /\ focus # "relay" => \A r \in Relays : asked[r] = "new" => r.id = 1
    /\ focus # "proof" => which = "tx" /\ target = CHOOSE l \in Ledgers : TRUE
    /\ focus # "loop" => anchored = {} /\ \A n \in LoopNodes : flag[n]

RunDeposits ==
    /\ focus = "deposits" /\ DepositsNext
    /\ UNCHANGED <<focus, replicationVars, relayVars, bundleVars, loopVars>>

RunReplication ==
    /\ focus = "replication" /\ ReplicationNext
    /\ UNCHANGED <<focus, depositVars, relayVars, bundleVars, loopVars>>

RunRelay ==
    /\ focus = "relay" /\ RelayNext
    /\ UNCHANGED <<focus, depositVars, replicationVars, bundleVars, loopVars>>

RunProof ==
    /\ focus = "proof" /\ BundleNext
    /\ UNCHANGED <<focus, depositVars, replicationVars, relayVars, loopVars>>

RunLoop ==
    /\ focus = "loop" /\ LoopNext
    /\ UNCHANGED <<focus, depositVars, replicationVars, relayVars, bundleVars>>

FeedsNext == RunDeposits \/ RunReplication \/ RunRelay \/ RunProof \/ RunLoop

\* The fairness conditions of the components, of the one that runs.
Depositing(A) == focus = "deposits" /\ A
Replicating(A) == focus = "replication" /\ A

FeedsFairness ==
    /\ WF_depositVars(Depositing(CloseLedger)) /\ WF_depositVars(Depositing(RefreshManifests))
    /\ WF_depositVars(Depositing(\E m \in stream : Collect(m)))
    /\ WF_depositVars(Depositing(AdvanceClock({1, tip})))
    /\ \A n \in Nodes :
          /\ WF_replicationVars(Replicating(LearnLeader(n)))
          /\ WF_replicationVars(Replicating(WatchRole(n)))
          /\ WF_replicationVars(Replicating(\E b \in sending[n] : QueueBatch(n, b)))
          /\ WF_replicationVars(Replicating(Forward(n)))
          /\ WF_replicationVars(Replicating(ReplayLeg(n)))
          /\ WF_replicationVars(Replicating(\E b \in mesh[n] : TakeBatch(n, b)))

FeedsSpec == FeedsInit /\ [][FeedsNext]_allVars /\ FeedsFairness
=============================================================================
