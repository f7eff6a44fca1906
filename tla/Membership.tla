------------------------------ MODULE Membership ------------------------------
(***************************************************************************)
(* The governed chains of the cluster and the ceremonies that extend        *)
(* them: the membership epochs ("epoch"), the allowlist of enclave         *)
(* measurements ("mrenclave") and the validator-list policy ("unl"); and   *)
(* the custody baseline ("spv"), which replaces its predecessor.           *)
(* Every ceremony is driven by one node's admin handler: it reads the head *)
(* of its OWN enclave, collects signatures of the other enclaves over the  *)
(* signing topic, applies the sealed statement locally, broadcasts it and  *)
(* waits for acknowledgements.  A membership change that every node sealed *)
(* is then projected: the escrow's SignerList is set on the XRP Ledger by  *)
(* a transaction with the account's next Sequence, and the validated       *)
(* transaction is recorded in every enclave.                               *)
(*                                                                         *)
(* A digest commits to its whole history (compute_epoch_authority_digest   *)
(* hashes the previous digest), so a chain is the sequence of its entries, *)
(* its epoch is the length and its digest is the sequence itself.          *)
(***************************************************************************)
EXTENDS Naturals, Sequences, FiniteSets

CONSTANTS Accounts,      \* XRPL accounts that may sign for the escrow
          Nodes,         \* the cluster's nodes, named by their signer account
          Drivers,       \* the nodes whose membership admin listener is configured
          Ceremonies,    \* ceremony runs, numbered; a bound on how many are driven
          SignerSets,    \* records [signers, quorum] an operator may propose
          FoundingSet,   \* the set of the genesis ceremony and of the config
          LedgerSet,     \* the SignerList on the ledger at the start
          Measurements,  \* enclave measurements an operator may add or remove
          Anchors,       \* ledger numbers an operator may pin
          OwnLedger,     \* OwnLedger[n]: n's own validated ledger
          AcceptWindow,  \* ACCEPT_WINDOW_LEDGERS
          CosignQuorum,  \* cosign_quorum of the UNL and baseline ceremonies
          ReproMin,      \* REPRO_MIN
          Rosters        \* rosters an operator may give a baseline ceremony: a
                         \* function from its nodes to their endpoints, which are
                         \* labels only (every cosigner verifies one broadcast proof)

ASSUME MembershipAssumption ==
    /\ IsFiniteSet(Accounts) /\ Nodes \subseteq Accounts /\ Nodes # {}
    /\ Drivers \subseteq Nodes /\ \A r \in Rosters : DOMAIN r \subseteq Nodes
    /\ Ceremonies \subseteq Nat /\ Anchors \subseteq Nat
    /\ SignerSets \subseteq [signers : SUBSET Accounts, quorum : Nat]
    /\ FoundingSet \in SignerSets /\ LedgerSet \in SignerSets
    /\ LedgerSet.quorum > 0  \* the ledger knows no list without a quorum
    /\ OwnLedger \in [Nodes -> Nat]
    /\ {AcceptWindow, CosignQuorum, ReproMin} \subseteq Nat

VARIABLES chain,      \* chain[k][n]: the chain of kind k sealed in n's enclave
          confirmed,  \* confirmed[n]: the epoch n's enclave knows to be projected
          onChain,    \* the SignerList of the escrow on the ledger
          escrowSeq,  \* the Sequence that its next SignerListSet must carry
          cer         \* cer[c]: the state of ceremony run c

vars == <<chain, confirmed, onChain, escrowSeq, cer>>

Kinds == {"epoch", "mrenclave", "unl", "spv"}

Newest(s) == s[Len(s)]
Older(s)  == SubSeq(s, 1, Len(s) - 1)

\* The digest of an entry commits to the digest before it, to its position and
\* to its content: linking is appending.
Link(head, v) == Append(head, v)

Idle == [phase |-> "idle", driver |-> CHOOSE n \in Nodes : TRUE, kind |-> "none",
         stmt |-> <<>>, endorsed |-> {}, sent |-> FALSE, seen |-> {},
         oks |-> {}, errs |-> {}, seq |-> 0, signed |-> {}, result |-> "none"]

\* A run that is over and has nothing left in flight.
Finished(result) == [Idle EXCEPT !.phase = "done", !.result = result]

\* A run r whose apply is over: its broadcast may still reach the nodes it has
\* not reached.
Settled(r) ==
    IF r.phase = "done" /\ (r.sent => r.seen = Nodes)
    THEN Finished(r.result) ELSE r

\* A cluster before its genesis ceremony, or one founded long ago.
Init ==
    /\ \E founded \in BOOLEAN :
          LET e == IF founded THEN <<FoundingSet>> ELSE <<>> IN
          /\ chain = [k \in Kinds |-> [n \in Nodes |-> IF k = "epoch" THEN e ELSE <<>>]]
          /\ confirmed = [n \in Nodes |-> Len(e)]
    /\ onChain = LedgerSet /\ escrowSeq = 1
    /\ cer = [c \in Ceremonies |-> Idle]

-------------------------------------------------------------------------------
(* The statement a driver puts to the cluster.  Except at genesis it       *)
(* extends the head of the driver's OWN enclave.                           *)

MaxSigners == 32

\* prepare_statement: what a doomed ceremony is refused for before anybody
\* signs (an empty or oversized set, a quorum the weights cannot reach).
PrepareStatement(head, v) ==
    IF /\ v.signers # {} /\ Cardinality(v.signers) <= MaxSigners
       /\ v.quorum \in 1 .. Cardinality(v.signers)
    THEN {Link(head, v)}
    ELSE {}

\* The local epoch-digest, which an enclave without a sealed epoch refuses.
EpochHeads(d) == {chain["epoch"][d]} \ {<<>>}

EpochStatements(d, v) == UNION {PrepareStatement(h, v) : h \in EpochHeads(d)}

GenesisStatements(v) == PrepareStatement(<<>>, v)

\* enforce_distinct_endpoints: no two nodes of a roster share a label.
DistinctEndpoints(roster) ==
    \A m, n \in DOMAIN roster : m # n => roster[m] # roster[n]

\* Runs are numbered in the order in which they are requested; nothing in the
\* admin handlers keeps two of them, of any kinds, from running at once.
CanStart(c) ==
    /\ cer[c].phase = "idle"
    /\ \A d \in Ceremonies : d < c => cer[d].phase # "idle"

Begin(c, d, kind, stmts) ==
    /\ CanStart(c)
    /\ \E s \in stmts : cer' = [cer EXCEPT ![c] = [Idle EXCEPT
             !.phase = "collect", !.driver = d, !.kind = kind, !.stmt = s]]
    /\ UNCHANGED <<chain, confirmed, onChain, escrowSeq>>

\* POST /admin/membership-change, membership-genesis, mrenclave-govern,
\* unl-policy and reserves-spv-baseline, up to the collection of signatures.
StartChange(c, d, v)   == Begin(c, d, "epoch", EpochStatements(d, v))
StartGenesis(c, d)     == Begin(c, d, "genesis", GenesisStatements(FoundingSet))
StartGovern(c, d, op)  == Begin(c, d, "mrenclave", {Link(chain["mrenclave"][d], op)})
StartPolicy(c, d, a)   == Begin(c, d, "unl", {Link(chain["unl"][d], a)})
StartBaseline(c, d, r) == Begin(c, d, "spv", IF DistinctEndpoints(r) THEN {<<r>>} ELSE {})

-------------------------------------------------------------------------------
(* Collecting signatures: the request is published, every node that hears  *)
(* it in time and is willing answers (the driver's own node through its    *)
(* run loop); lost requests and answers are nodes missing from the set.    *)

Collected(c, endorsed, enough) ==
    /\ cer[c].phase = "collect"
    /\ cer' = [cer EXCEPT ![c] = IF enough
                 THEN [@ EXCEPT !.endorsed = endorsed, !.phase = "apply"]
                 ELSE Finished("failed")]
    /\ UNCHANGED <<chain, confirmed, onChain, escrowSeq>>

\* Consents to a change of members: the host insists on one, the enclaves on a
\* quorum.
CollectConsents(c, endorsed) ==
    /\ cer[c].kind \in {"epoch", "genesis"}
    /\ Collected(c, endorsed, endorsed # {})

\* For an addition REPRO_MIN operators must also have reproduced the build.
CollectGovernance(c, endorsed) ==
    /\ cer[c].kind = "mrenclave"
    /\ Collected(c, endorsed, Cardinality(endorsed) >=
           IF Newest(cer[c].stmt).op = "add" THEN ReproMin ELSE 1)

\* cosigner_accepts: the anchor against the cosigner's own validated ledger.
AnchorAcceptable(a, own) == a <= own /\ own - a <= AcceptWindow

CollectEndorsements(c, endorsed) ==
    /\ cer[c].kind = "unl"
    /\ \A n \in endorsed : AnchorAcceptable(Newest(cer[c].stmt), OwnLedger[n])
    /\ Collected(c, endorsed, Cardinality(endorsed) >= CosignQuorum)

\* assert_bundle_diversity: the cosigners are all in the roster and have enough
\* different labels there.
BundleDiverse(roster, endorsed) ==
    /\ endorsed \subseteq DOMAIN roster
    /\ Cardinality({roster[n] : n \in endorsed}) >= CosignQuorum

CollectCosignatures(c, endorsed) ==
    /\ cer[c].kind = "spv"
    /\ Collected(c, endorsed, /\ Cardinality(endorsed) >= CosignQuorum
                              /\ BundleDiverse(Newest(cer[c].stmt), endorsed))

-------------------------------------------------------------------------------
(* The enclave, as its host uses it.                                       *)

\* A bundle authorises when it holds a quorum of the authority's signers.
Authorises(endorsed, authority) ==
    Cardinality(endorsed \cap authority.signers) >= authority.quorum

Bootstrapped(n) == chain["epoch"][n] # <<>>
AuthorityOf(n) == Newest(chain["epoch"][n])

\* seal-epoch: strictly the next epoch on the enclave's head, by its quorum.
SealAccepted(n, stmt, endorsed) ==
    /\ Bootstrapped(n) /\ Older(stmt) = chain["epoch"][n]
    /\ Authorises(endorsed, AuthorityOf(n))

\* bootstrap-attested: only the first, under the founding set itself.
BootstrapAccepted(n, stmt, endorsed) ==
    ~Bootstrapped(n) /\ Authorises(endorsed, Newest(stmt))

\* Whether measurement m is on the allowlist that chain s describes.
OnAllowlist(s, m) ==
    \E i \in DOMAIN s :
        /\ s[i] = [op |-> "add", m |-> m]
        /\ \A j \in DOMAIN s : j > i => s[j] # [op |-> "remove", m |-> m]

\* mrenclaves/govern: the next entry, and never one that changes nothing
\* (GOVERN_ERR_ALREADY, GOVERN_ERR_NOT_FOUND).
GovernAccepted(n, stmt, endorsed) ==
    /\ Bootstrapped(n) /\ Older(stmt) = chain["mrenclave"][n]
    /\ (Newest(stmt).op = "add") # OnAllowlist(Older(stmt), Newest(stmt).m)
    /\ Authorises(endorsed, AuthorityOf(n))

\* unl/govern-policy: the next entry of the policy chain.
PolicyAccepted(n, stmt, endorsed) ==
    /\ Bootstrapped(n) /\ Older(stmt) = chain["unl"][n]
    /\ Authorises(endorsed, AuthorityOf(n))

\* spv-baseline apply: every enclave verifies the proof and the bundle itself
\* and seals its own custody floor, replacing the one before.
BaselineAccepted(n, endorsed) ==
    Bootstrapped(n) /\ Authorises(endorsed, AuthorityOf(n))

Accepts(n, kind, stmt, endorsed) ==
    \/ kind = "epoch"     /\ SealAccepted(n, stmt, endorsed)
    \/ kind = "genesis"   /\ BootstrapAccepted(n, stmt, endorsed)
    \/ kind = "mrenclave" /\ GovernAccepted(n, stmt, endorsed)
    \/ kind = "unl"       /\ PolicyAccepted(n, stmt, endorsed)
    \/ kind = "spv"       /\ BaselineAccepted(n, endorsed)

\* handle_membership_apply: one apply on one node's loopback enclave.  A
\* genesis bootstrap also marks its epoch confirmed.
Apply(n, kind, stmt, endorsed) ==
    LET k == IF kind = "genesis" THEN "epoch" ELSE kind IN
    IF Accepts(n, kind, stmt, endorsed)
    THEN /\ chain' = [chain EXCEPT ![k][n] = stmt]
         /\ confirmed' = IF kind = "genesis"
                         THEN [confirmed EXCEPT ![n] = Len(stmt)] ELSE confirmed
    ELSE UNCHANGED <<chain, confirmed>>

-------------------------------------------------------------------------------
(* The apply broadcast.                                                    *)

\* One row per node: the driver's collector drops a second ack.
Ack(c, n, ok) == [cer[c] EXCEPT !.seen = @ \cup {n},
                     !.oks  = IF ok THEN @ \cup {n} ELSE @,
                     !.errs = IF ok THEN @ ELSE @ \cup {n}]

\* The driver's run loop: apply on the local enclave, then broadcast WHATEVER
\* the local result was.  A failed publish is answered by an error row.
ApplyLocal(c, published) ==
    LET d == cer[c].driver
        ok == Accepts(d, cer[c].kind, cer[c].stmt, cer[c].endorsed)
    IN  /\ cer[c].phase = "apply" /\ d \notin cer[c].seen
        /\ Apply(d, cer[c].kind, cer[c].stmt, cer[c].endorsed)
        /\ cer' = [cer EXCEPT ![c] = [Ack(c, d, ok) EXCEPT
                      !.sent = published,
                      !.errs = IF published THEN @ ELSE @ \cup {"<unknown>"}]]
        /\ UNCHANGED <<onChain, escrowSeq>>

\* A peer receives the broadcast, at any later time and once (the replay guard
\* on request ids), applies it to its own enclave and publishes its ack.
DeliverApply(c, n) ==
    LET ok == Accepts(n, cer[c].kind, cer[c].stmt, cer[c].endorsed) IN
    /\ cer[c].sent /\ n \notin cer[c].seen
    /\ Apply(n, cer[c].kind, cer[c].stmt, cer[c].endorsed)
    /\ cer' = [cer EXCEPT ![c] = IF cer[c].phase = "apply" THEN Ack(c, n, ok)
                                 ELSE Settled([cer[c] EXCEPT !.seen = @ \cup {n}])]
    /\ UNCHANGED <<onChain, escrowSeq>>

\* Mutant: the shortfall row is forgotten, so silence counts as success.
NoneRefused(c) == cer[c].oks # {} /\ cer[c].errs = {}

\* all_sealed, all_applied, all_recorded: every expected node acked OK and no
\* row failed (a shortfall adds a failed row).  A baseline expects as many nodes
\* as its roster has, one at least, and only logs the ones that failed.
AllApplied(c) ==
    IF cer[c].kind = "spv"
    THEN cer[c].oks # {} /\ Cardinality(cer[c].oks) >= Cardinality(DOMAIN Newest(cer[c].stmt))
    ELSE Cardinality(cer[c].oks) >= Cardinality(Nodes) /\ cer[c].errs = {}

\* The end of the wait for acks: the driver heard all of them, or its window
\* closed on the ones that were lost.
CloseApply(c, next, result) ==
    /\ cer[c].phase = "apply" /\ cer[c].driver \in cer[c].seen
    /\ cer' = [cer EXCEPT ![c] = Settled([@ EXCEPT
                 !.phase = next, !.result = result, !.oks = {}, !.errs = {}])]
    /\ UNCHANGED <<chain, confirmed, onChain, escrowSeq>>

\* A short apply of any kind ends its run: partial_seal, partial_apply, the
\* hard failure of apply_shortfall, a partial baseline.
CloseShort(c, lost) == (lost \/ ~AllApplied(c)) /\ CloseApply(c, "done", "partial")

\* A change that every node sealed goes on to its projection.
CloseSealed(c) ==
    cer[c].kind = "epoch" /\ AllApplied(c) /\ CloseApply(c, "project", "none")

\* Genesis reports whether the list on the ledger is the founding set.
CloseGenesis(c) ==
    /\ cer[c].kind = "genesis" /\ AllApplied(c)
    /\ CloseApply(c, "done", IF onChain = Newest(cer[c].stmt) THEN "ok"
                             ELSE "sealed_not_cosign_ready")

CloseGoverned(c) ==
    /\ cer[c].kind \in {"mrenclave", "unl", "spv"} /\ AllApplied(c)
    /\ CloseApply(c, "done", "ok")

-------------------------------------------------------------------------------
(* The projection of a sealed membership epoch on the ledger.              *)

\* validate_signerlist_set_specific: what a cosigner's host lets pass.
SignerListPolicy(v) ==
    Cardinality(v.signers) \in 3 .. 8 /\ v.quorum \in 2 .. Cardinality(v.signers)

\* Mutant: a SignerListSet is signed without its quorum bundle.
CosignsUnbundled(n, v, bundle) == SignerListPolicy(v) /\ Bootstrapped(n)

\* A cosigner's host passes a SignerListSet on only with a quorum bundle, and its
\* enclave signs only when that is the bundle of the epoch it holds sealed (the
\* signatures of a bundle are over one statement, which it is named by) and the
\* list is the one of that epoch.
CosignsSignerList(n, v, bundle) ==
    /\ SignerListPolicy(v)
    /\ bundle # <<>>
    /\ chain["epoch"][n] = bundle /\ AuthorityOf(n) = v

\* The ledger accepts a transaction signed by a quorum of its current list,
\* and by nobody else.
LedgerAccepts(signed) ==
    signed \subseteq onChain.signers /\ Cardinality(signed) >= onChain.quorum

\* fetch_account_sequence.  The escrow's other transactions take numbers too;
\* they only make a projection fail.
FetchSequence(c) ==
    /\ cer[c].phase = "project"
    /\ cer' = [cer EXCEPT ![c].phase = "sign", ![c].seq = escrowSeq]
    /\ UNCHANGED <<chain, confirmed, onChain, escrowSeq>>

\* collect_and_assemble: the signers of the driver's configuration are asked in
\* turn until the configured quorum has answered; a refusal or a timeout passes
\* on to the next.
CosignProjection(c, n) ==
    /\ cer[c].phase = "sign" /\ Cardinality(cer[c].signed) < FoundingSet.quorum
    /\ n \in (FoundingSet.signers \cap Nodes) \ cer[c].signed
    /\ CosignsSignerList(n, Newest(cer[c].stmt), cer[c].stmt)
    /\ cer' = [cer EXCEPT ![c].signed = @ \cup {n}]
    /\ UNCHANGED <<chain, confirmed, onChain, escrowSeq>>

\* A run that gives its transaction up although the ledger may still include it.
GivenUp(r) == [r EXCEPT !.phase = "done", !.result = "late"]

\* submit_multisigned: accepted, or the run fails with the transaction out.
Submit(c, answered) ==
    /\ cer[c].phase = "sign" /\ Cardinality(cer[c].signed) = FoundingSet.quorum
    /\ cer' = [cer EXCEPT ![c] = IF answered THEN [@ EXCEPT !.phase = "poll"] ELSE GivenUp(@)]
    /\ UNCHANGED <<chain, confirmed, onChain, escrowSeq>>

\* The ledger includes a submitted transaction: one that has the account's next
\* Sequence, whether or not its run still waits.
Land(c) ==
    /\ cer[c].phase = "poll" \/ cer[c].result = "late"
    /\ cer[c].seq = escrowSeq /\ LedgerAccepts(cer[c].signed)
    /\ onChain' = Newest(cer[c].stmt) /\ escrowSeq' = escrowSeq + 1
    /\ cer' = [cer EXCEPT ![c] = IF @.phase = "poll" THEN [@ EXCEPT !.phase = "landed"]
                                 ELSE Finished("failed")]
    /\ UNCHANGED <<chain, confirmed>>

\* poll_validated_tx_bounded finds it.
ObserveLanded(c) ==
    /\ cer[c].phase = "landed"
    /\ cer' = [cer EXCEPT ![c] = [@ EXCEPT !.phase = "confirm", !.sent = FALSE, !.seen = {},
                                           !.signed = {}]]
    /\ UNCHANGED <<chain, confirmed, onChain, escrowSeq>>

\* Too few signatures, a refused submission, or no validation found in time.
ProjectFails(c) ==
    /\ cer[c].phase \in {"project", "sign", "poll", "landed"}
    /\ cer' = [cer EXCEPT ![c] = IF @.phase = "poll" THEN GivenUp(@) ELSE Finished("failed")]
    /\ UNCHANGED <<chain, confirmed, onChain, escrowSeq>>

\* record-projection-confirmation: the transaction must be the projection of the
\* enclave's own head, and is recorded once (ERR_ALREADY_CONFIRMED).
ConfirmAccepted(n, stmt) == chain["epoch"][n] = stmt /\ confirmed[n] < Len(stmt)

\* The confirmation reaches node n (the driver's own included), once, even
\* after the driver stopped waiting for acks.
Confirm(c, n) ==
    LET ok == ConfirmAccepted(n, cer[c].stmt) IN
    /\ cer[c].phase = "confirm" \/ cer[c].result = "unconfirmed"
    /\ n \notin cer[c].seen
    /\ confirmed' = IF ok THEN [confirmed EXCEPT ![n] = Len(cer[c].stmt)] ELSE confirmed
    /\ cer' = [cer EXCEPT ![c] = IF cer[c].phase = "confirm" THEN Ack(c, n, ok)
                                 ELSE [cer[c] EXCEPT !.seen = @ \cup {n}]]
    /\ UNCHANGED <<chain, onChain, escrowSeq>>

\* all_recorded, or "projection_partial_record".
CloseConfirm(c, lost) ==
    /\ cer[c].phase = "confirm"
    /\ cer' = [cer EXCEPT ![c] = IF AllApplied(c) /\ ~lost THEN Finished("ok")
                 ELSE [@ EXCEPT !.phase = "done", !.oks = {}, !.errs = {},
                                !.result = "unconfirmed"]]
    /\ UNCHANGED <<chain, confirmed, onChain, escrowSeq>>

\* MembershipSyncState and assert_safe_to_retire: an enclave in sync lets the
\* operators retire the signers of earlier epochs.
SafeToRetire(n) == Bootstrapped(n) /\ confirmed[n] = Len(chain["epoch"][n])

\* The older admin routes ask the signers on the ledger for a signature without
\* a quorum bundle: signerlist-update for an edited list, bootstrap-rotate for
\* the list as it is.
LegacyRoute(c, v) ==
    LET signed == {n \in onChain.signers \cap Nodes : CosignsSignerList(n, v, <<>>)}
        lands == LedgerAccepts(signed) IN
    /\ CanStart(c)
    /\ onChain' = IF lands THEN v ELSE onChain
    /\ escrowSeq' = IF lands THEN escrowSeq + 1 ELSE escrowSeq
    /\ cer' = [cer EXCEPT ![c] = Finished(IF lands THEN "ok" ELSE "failed")]
    /\ UNCHANGED <<chain, confirmed>>

SignerlistUpdate(c, v) == SignerListPolicy(v) /\ v # onChain /\ LegacyRoute(c, v)
BootstrapRotate(c) == LegacyRoute(c, onChain)

AllowlistOps == [op : {"add", "remove"}, m : Measurements]

Next ==
    \E c \in Ceremonies :
       \/ \E d \in Drivers :
             \/ \E v \in SignerSets : StartChange(c, d, v)
             \/ StartGenesis(c, d)
             \/ \E op \in AllowlistOps : StartGovern(c, d, op)
             \/ \E a \in Anchors : StartPolicy(c, d, a)
             \/ \E r \in Rosters : StartBaseline(c, d, r)
       \/ \E endorsed \in SUBSET Nodes :
             \/ CollectConsents(c, endorsed)
             \/ CollectGovernance(c, endorsed)
             \/ CollectEndorsements(c, endorsed)
             \/ CollectCosignatures(c, endorsed)
       \/ \E published \in BOOLEAN : ApplyLocal(c, published)
       \/ \E n \in Nodes : DeliverApply(c, n)
       \/ \E lost \in BOOLEAN : CloseShort(c, lost)
       \/ CloseSealed(c) \/ CloseGenesis(c) \/ CloseGoverned(c)
       \/ FetchSequence(c) \/ Land(c) \/ ObserveLanded(c) \/ ProjectFails(c)
       \/ \E n \in Nodes : CosignProjection(c, n)
       \/ \E answered \in BOOLEAN : Submit(c, answered)
       \/ \E n \in Nodes : Confirm(c, n)
       \/ \E lost \in BOOLEAN : CloseConfirm(c, lost)
       \/ \E v \in SignerSets : SignerlistUpdate(c, v)
       \/ BootstrapRotate(c)

Spec == Init /\ [][Next]_vars

-------------------------------------------------------------------------------
(* Properties.                                                             *)

\* An enclave that reports in_sync beyond genesis (membership_projection.rs:
\* authority_epoch = projection_confirmed_epoch) holds exactly the set that the
\* ledger enforces, whatever ceremonies overlap and whatever is lost or late, a
\* transaction its run has given up included:
\* otherwise assert_safe_to_retire would let the signers the ledger still needs
\* be retired and the escrow would be frozen.
InSyncMeansOnChain ==
    \A n \in Nodes :
        SafeToRetire(n) /\ Len(chain["epoch"][n]) > 1 => AuthorityOf(n) = onChain

\* The ceremonies implement the promise of SignerAuthority: chains only grow
\* and the ledger's list moves only to a set the whole cluster has sealed.
Promise == INSTANCE SignerAuthority
             WITH sealed <- chain["epoch"], ledgerList <- onChain,
                  InitialList <- LedgerSet, Founding <- {<<>>, <<FoundingSet>>}
ImplementsAuthority == Promise!AuthSpec

\* What unl_policy.rs:456 ("Retry: the enclave's epoch chaining makes
\* re-running safe and idempotent"), membership_apply.rs:204 and
\* membership_admin.rs:639 promise of a ceremony that fell short: when its
\* driver runs the same request again, the statement it puts to the cluster is
\* one that the nodes the first run missed can still accept.
RetryReachesLaggards ==
    \A c, d \in Ceremonies, n \in Nodes :
        /\ cer[c].result = "partial" /\ cer[c].kind \in {"epoch", "mrenclave", "unl"}
        /\ cer[d].phase = "apply" /\ cer[d].kind = cer[c].kind
        /\ cer[d].driver = cer[c].driver /\ Newest(cer[d].stmt) = Newest(cer[c].stmt)
        /\ Len(cer[d].stmt) > Len(cer[c].stmt)
        /\ n \notin cer[c].seen \cup cer[d].seen
        => Older(cer[d].stmt) = chain[cer[d].kind][n]
=============================================================================
