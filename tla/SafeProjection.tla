---------------------------- MODULE SafeProjection ----------------------------
(***************************************************************************)
(* The owner set of the Safe on Base as a projection of the sealed         *)
(* membership, and the reserves commitments published through that Safe.   *)
(* A node derives one step of the plan that makes the owners agree with    *)
(* what its enclave has sealed; a step a quorum derived alike is signed    *)
(* and executed.  The reads of one derivation are separate requests, and   *)
(* the publisher spends nonces of the same Safe meanwhile.                 *)
(***************************************************************************)
EXTENDS Naturals, Sequences, FiniteSets, SequencesExt

CONSTANTS SafeMembers,       \* numbers: their order is that of the EVM addresses
          SafeNodes,     \* the members whose node takes part
          KnownTo,       \* KnownTo[n]: the keys in the signers config of n
          SealedSet,     \* SealedSet[e]: the membership of epoch e
          Target,        \* Target[e]: the target_threshold asked for with e
          FirstSafes,    \* [owners, threshold] the ceremony may start from
          StepQuorum,    \* nodes whose derivations make a bundle
          Publishers,    \* the nodes that publish: the sequencers so far
          AskedSteps,    \* the step_index values asked for, from 1
          MaxNonce, MaxPublished

Epochs == DOMAIN SealedSet

ASSUME SafeAssumption ==
    /\ SafeMembers \subseteq Nat \ {0} /\ IsFiniteSet(SafeMembers)
    /\ SafeNodes \subseteq SafeMembers /\ 1 \in Epochs
    /\ \A e \in Epochs : SealedSet[e] \subseteq SafeMembers /\ SealedSet[e] # {}
                           /\ Target[e] \in 1 .. Cardinality(SealedSet[e])
    /\ \A s \in FirstSafes : /\ s.owners \in Seq(SafeMembers) /\ IsInjective(s.owners)
                             /\ s.threshold \in 1 .. Len(s.owners)
    /\ Publishers \subseteq SafeNodes /\ AskedSteps \subseteq Nat \ {0}
    /\ {StepQuorum, MaxNonce, MaxPublished} \subseteq Nat

VARIABLES safe,       \* [owners, threshold, nonce]: owners in linked-list order
          sealed,     \* sealed[n]: the authority epoch of n's enclave
          task,       \* task[n]: the derivation or attestation of n under way
          derived,    \* [node, op, nonce]: steps derived and not outdated
          attested,   \* [node, epoch, owners]: what nodes were willing to attest
          baseConfirmed,  \* baseConfirmed[n]: base_projection_confirmed_epoch
          commit,     \* commit[n]: the reserves commit under way
          registry,   \* the epoch of the last published commitment
          figures     \* figures[n]: [epoch, by] of the figures n serves

safeVars == <<safe, sealed, task, derived, attested, baseConfirmed, commit, registry, figures>>

Sentinel == 0
NoOp == [call |-> "none", prev |-> Sentinel, owner |-> Sentinel, arg |-> 0]
NoTask == [at |-> "idle", kind |-> "none", epoch |-> 0, step |-> 0, nonce |-> 0,
           want |-> <<>>, owners |-> <<>>, op |-> NoOp]
NoCommit == [at |-> "idle", epoch |-> 0, nonce |-> 0]
Refused == [owners |-> <<>>, threshold |-> 0]

SafeInit ==
    /\ \E s \in FirstSafes : safe = [owners |-> s.owners, threshold |-> s.threshold, nonce |-> 0]
    /\ sealed = [n \in SafeNodes |-> 1] /\ task = [n \in SafeNodes |-> NoTask]
    /\ derived = {} /\ attested = {} /\ baseConfirmed = [n \in SafeNodes |-> 0]
    /\ commit = [n \in SafeNodes |-> NoCommit] /\ registry = 0
    /\ figures = [n \in SafeNodes |-> [epoch |-> 0, by |-> n]]

-------------------------------------------------------------------------------
(* The plan.                                                               *)

\* A set of numbers as a sequence, from the least.
Ascending(S) ==
    [i \in 1 .. Cardinality(S) |-> CHOOSE m \in S : Cardinality({x \in S : x < m}) = i - 1]

\* project_owner_set: the members as addresses, sorted; identity_from_pubkey has
\* tied each account to its address.
ProjectOwnerSet(members) == Ascending(members)

InSync(owners, threshold, want, target) ==
    Range(owners) = Range(want) /\ threshold = target

Position(l, o) == CHOOSE i \in DOMAIN l : l[i] = o

\* Mutant: the list is not kept up to date between the operations.
BeforeAtFirst(l, first, o) ==
    IF Position(first, o) = 1 THEN Sentinel ELSE first[Position(first, o) - 1]

\* The predecessor in the list as it is when the operation runs; first is the list
\* the plan started from.
Before(l, first, o) == IF Position(l, o) = 1 THEN Sentinel ELSE l[Position(l, o) - 1]

\* The list after the first i pairs have been swapped in place.
Swapped(l, out, in, i) ==
    [j \in DOMAIN l |-> IF \E s \in 1 .. i : out[s] = l[j]
                        THEN in[CHOOSE s \in 1 .. i : out[s] = l[j]] ELSE l[j]]

\* The entries that are not in gone, in the order of the list.
Shrunk(l, gone) ==
    LET at == Ascending({i \in DOMAIN l : l[i] \notin gone}) IN [i \in DOMAIN at |-> l[at[i]]]

SwapOps(l, out, in, k) ==
    [i \in 1 .. k |-> [call |-> "swap", prev |-> Before(Swapped(l, out, in, i - 1), l, out[i]),
                       owner |-> out[i], arg |-> in[i]]]

AddOps(more, working) ==
    [i \in DOMAIN more |-> [call |-> "add", prev |-> Sentinel, owner |-> more[i], arg |-> working]]

RemoveOps(l, less, working) ==
    [i \in DOMAIN less |->
        [call |-> "remove", prev |-> Before(Shrunk(l, {less[j] : j \in 1 .. i - 1}), l, less[i]),
         owner |-> less[i], arg |-> working]]

ChangeThreshold(t) == <<[call |-> "threshold", prev |-> Sentinel, owner |-> Sentinel, arg |-> t]>>

\* plan_reconciliation: a lowered threshold first, swaps while there are both,
\* the other additions or removals, a raised threshold last.  A plan that would
\* remove owners below the threshold, or whose target is no threshold, is refused.
PlanReconciliation(owners, threshold, want, target) ==
    LET in == Shrunk(want, Range(owners))
        out == Shrunk(owners, Range(want))
        k == IF Len(in) < Len(out) THEN Len(in) ELSE Len(out)
        working == IF target < threshold THEN target ELSE threshold
        list == Swapped(owners, out, in, k)
        more == SubSeq(in, k + 1, Len(in))
        less == SubSeq(out, k + 1, Len(out))
    IN  [ok  |-> target \in 1 .. Len(want) /\ (less = <<>> \/ Len(list) - Len(less) >= working),
         ops |-> (IF target < threshold THEN ChangeThreshold(target) ELSE <<>>)
                   \o SwapOps(owners, out, in, k) \o AddOps(more, working)
                   \o RemoveOps(list, less, working)
                   \o (IF target > threshold THEN ChangeThreshold(target) ELSE <<>>)]

-------------------------------------------------------------------------------
(* The Safe: what its owner-management calls require and do.               *)

WithThreshold(owners, t) ==
    IF t \in 1 .. Len(owners) THEN [owners |-> owners, threshold |-> t] ELSE Refused

Follows(owners, prev, o) ==
    o \in Range(owners) /\ prev = Before(owners, owners, o)

OwnerCall(s, op) ==
    CASE s = Refused -> Refused
      [] s # Refused /\ op.call = "threshold" -> WithThreshold(s.owners, op.arg)
      [] s # Refused /\ op.call = "add" ->
            IF op.owner \in Range(s.owners) THEN Refused
            ELSE WithThreshold(<<op.owner>> \o s.owners, op.arg)
      [] s # Refused /\ op.call = "swap" ->
            IF Follows(s.owners, op.prev, op.owner) /\ op.arg \notin Range(s.owners)
            THEN [s EXCEPT !.owners = Swapped(s.owners, <<op.owner>>, <<op.arg>>, 1)]
            ELSE Refused
      [] s # Refused /\ op.call = "remove" ->
            IF Follows(s.owners, op.prev, op.owner) /\ Len(s.owners) - 1 >= op.arg
            THEN WithThreshold(Shrunk(s.owners, {op.owner}), op.arg) ELSE Refused

\* What the Safe has become after the calls, one after the other.
AfterCalls(s, ops) ==
    LET at[i \in 0 .. Len(ops)] == IF i = 0 THEN s ELSE OwnerCall(at[i - 1], ops[i])
    IN  at[Len(ops)]

\* checkNSignatures: the first signatures, as many as the threshold, are of owners;
\* order_signatures hands them over in the order of the addresses.
Signed(S) ==
    /\ Cardinality(S) >= safe.threshold
    /\ \A m \in S : Cardinality({x \in S : x < m}) < safe.threshold => m \in Range(safe.owners)

Current == [owners |-> safe.owners, threshold |-> safe.threshold]

-------------------------------------------------------------------------------
(* derive_step and attest_projection: one request after the other.         *)

Seal(n) ==
    /\ sealed[n] + 1 \in Epochs /\ sealed' = [sealed EXCEPT ![n] = @ + 1]
    /\ UNCHANGED <<safe, task, derived, attested, baseConfirmed, commit, registry, figures>>

SetTask(n, t) == task' = [task EXCEPT ![n] = t]

\* The operator asks for step i of the plan and the nonce it will run at.  A member
\* whose key the node does not know is an error.
StartDerive(n, e, i) ==
    /\ task[n] = NoTask /\ SealedSet[sealed[n]] \subseteq KnownTo[n]
    /\ SetTask(n, [NoTask EXCEPT !.at = "owners", !.kind = "derive", !.epoch = e, !.step = i,
                       !.nonce = safe.nonce + i - 1,
                       !.want = ProjectOwnerSet(SealedSet[sealed[n]])])
    /\ UNCHANGED <<safe, sealed, derived, attested, baseConfirmed, commit, registry, figures>>

StartAttest(n) ==
    /\ task[n] = NoTask /\ SealedSet[sealed[n]] \subseteq KnownTo[n]
    /\ SetTask(n, [NoTask EXCEPT !.at = "epoch", !.kind = "attest",
                       !.want = ProjectOwnerSet(SealedSet[sealed[n]])])
    /\ UNCHANGED <<safe, sealed, derived, attested, baseConfirmed, commit, registry, figures>>

\* getOwners and getThreshold are two calls.
ReadOwners(n) ==
    /\ task[n].at = "owners"
    /\ SetTask(n, [task[n] EXCEPT !.at = "threshold", !.owners = safe.owners])
    /\ UNCHANGED <<safe, sealed, derived, attested, baseConfirmed, commit, registry, figures>>

PlanStep(n) ==
    LET t == task[n]
        plan == PlanReconciliation(t.owners, safe.threshold, t.want, Target[t.epoch])
    IN  /\ t.at = "threshold" /\ t.kind = "derive"
        /\ IF plan.ok /\ t.step \in DOMAIN plan.ops
           THEN SetTask(n, [t EXCEPT !.at = "epoch", !.op = plan.ops[t.step]])
           ELSE SetTask(n, NoTask)
        /\ UNCHANGED <<safe, sealed, derived, attested, baseConfirmed, commit, registry, figures>>

\* fetch_authority_epoch: of a derivation the last request, of an attestation the
\* second.
FinishDerive(n) ==
    /\ task[n].at = "epoch" /\ task[n].kind = "derive"
    /\ derived' = IF sealed[n] = task[n].epoch /\ task[n].nonce >= safe.nonce
                  THEN derived \cup {[node |-> n, op |-> task[n].op, nonce |-> task[n].nonce]}
                  ELSE derived
    /\ SetTask(n, NoTask)
    /\ UNCHANGED <<safe, sealed, attested, baseConfirmed, commit, registry, figures>>

AttestEpoch(n) ==
    /\ task[n].at = "epoch" /\ task[n].kind = "attest"
    /\ SetTask(n, [task[n] EXCEPT !.at = "owners", !.epoch = sealed[n]])
    /\ UNCHANGED <<safe, sealed, derived, attested, baseConfirmed, commit, registry, figures>>

FinishAttest(n) ==
    LET t == task[n]
    IN  /\ t.at = "threshold" /\ t.kind = "attest"
        /\ attested' = IF InSync(t.owners, safe.threshold, t.want, Target[t.epoch])
                       THEN attested \cup {[node |-> n, epoch |-> t.epoch, owners |-> Range(t.want)]}
                       ELSE attested
        /\ SetTask(n, NoTask)
        /\ UNCHANGED <<safe, sealed, derived, baseConfirmed, commit, registry, figures>>

\* Any of the requests fails.
DropTask(n) ==
    /\ task[n] # NoTask /\ SetTask(n, NoTask)
    /\ UNCHANGED <<safe, sealed, derived, attested, baseConfirmed, commit, registry, figures>>

-------------------------------------------------------------------------------
(* Execution, and what the enclaves do with the attestations.              *)

Derivers(op, nonce) == {d.node : d \in {x \in derived : x.op = op /\ x.nonce = nonce}}

Spend(s) ==
    /\ safe' = [owners |-> s.owners, threshold |-> s.threshold, nonce |-> safe.nonce + 1]
    /\ derived' = {d \in derived : d.nonce > safe.nonce}

\* handle_safe_exec with the signatures of S: the enclaves sign a step that a quorum
\* of nodes derived; a call the Safe refuses reverts and spends no nonce.
ExecStep(op, S) ==
    /\ safe.nonce < MaxNonce
    /\ Cardinality(Derivers(op, safe.nonce)) >= StepQuorum /\ Signed(S)
    /\ OwnerCall(Current, op) # Refused /\ Spend(OwnerCall(Current, op))
    /\ UNCHANGED <<sealed, task, attested, baseConfirmed, commit, registry, figures>>

\* ecall_perp_record_base_projection: a quorum attested the same set for the epoch.
RecordProjection(n, a) ==
    /\ a \in attested /\ a.epoch = sealed[n] /\ baseConfirmed[n] # a.epoch
    /\ Cardinality({b.node : b \in {x \in attested : x.epoch = a.epoch /\ x.owners = a.owners}})
           >= StepQuorum
    /\ baseConfirmed' = [baseConfirmed EXCEPT ![n] = a.epoch]
    /\ UNCHANGED <<safe, sealed, task, derived, attested, commit, registry, figures>>

-------------------------------------------------------------------------------
(* run_reserves_commit_once.                                               *)

ReadLatest(n) ==
    /\ commit[n] = NoCommit /\ registry < MaxPublished
    /\ commit' = [commit EXCEPT ![n] = [at |-> "nonce", epoch |-> registry + 1, nonce |-> 0]]
    /\ UNCHANGED <<safe, sealed, task, derived, attested, baseConfirmed, registry, figures>>

ReadNonce(n) ==
    /\ commit[n].at = "nonce"
    /\ commit' = [commit EXCEPT ![n] = [@ EXCEPT !.at = "enclave", !.nonce = safe.nonce]]
    /\ UNCHANGED <<safe, sealed, task, derived, attested, baseConfirmed, registry, figures>>

\* The enclave refuses while the projection is not confirmed for its epoch, or while
\* custody does not cover the liabilities; otherwise the figures are cached.
CommitInEnclave(n) ==
    /\ commit[n].at = "enclave"
    /\ \/ /\ baseConfirmed[n] = sealed[n]
          /\ commit' = [commit EXCEPT ![n] = [@ EXCEPT !.at = "submit"]]
          /\ figures' = [figures EXCEPT ![n] = [epoch |-> commit[n].epoch, by |-> n]]
       \/ commit' = [commit EXCEPT ![n] = NoCommit] /\ UNCHANGED figures
    /\ UNCHANGED <<safe, sealed, task, derived, attested, baseConfirmed, registry>>

\* One signature, that of the node's own enclave, goes to the Safe.
SubmitReserves(n) ==
    LET c == commit[n]
        lands == c.nonce = safe.nonce /\ Signed({n}) /\ c.epoch > registry /\ safe.nonce < MaxNonce
    IN  /\ c.at = "submit"
        /\ commit' = [commit EXCEPT ![n] = NoCommit]
        /\ \/ lands /\ Spend(Current) /\ registry' = c.epoch
           \/ UNCHANGED <<safe, derived, registry>>
        /\ UNCHANGED <<sealed, task, attested, baseConfirmed, figures>>

SafeNext ==
    \/ \E n \in SafeNodes :
          \/ Seal(n) \/ StartAttest(n) \/ ReadOwners(n) \/ PlanStep(n)
          \/ FinishDerive(n) \/ AttestEpoch(n) \/ FinishAttest(n) \/ DropTask(n)
          \/ \E e \in Epochs, i \in AskedSteps : StartDerive(n, e, i)
          \/ \E a \in attested : RecordProjection(n, a)
    \/ \E n \in Publishers :
          ReadLatest(n) \/ ReadNonce(n) \/ CommitInEnclave(n) \/ SubmitReserves(n)
    \/ \E d \in derived, S \in SUBSET SafeMembers : ExecStep(d.op, S)

SafeSpec == SafeInit /\ [][SafeNext]_safeVars

-------------------------------------------------------------------------------
(* Properties.                                                             *)

\* Whatever the list the Safe has come to, by steps of one epoch's plan, of another's
\* or by part of a plan, the plan for every epoch is accepted by the Safe operation by
\* operation, and ends with the owners and the threshold asked for
\* (safe_projection.rs:168-288).
PlanExecutes ==
    \A e \in Epochs :
        LET want == ProjectOwnerSet(SealedSet[e])
            plan == PlanReconciliation(safe.owners, safe.threshold, want, Target[e])
            end  == AfterCalls(Current, plan.ops)
        IN  plan.ok /\ end # Refused /\ InSync(end.owners, end.threshold, want, Target[e])

\* What a node attests is that "the Safe's owner set ON CHAIN matches the projection
\* of the membership THIS enclave has sealed" (safe_projection.rs:440-441): the epoch
\* that is attested is the epoch whose members were compared.
AttestsWhatItSealed == \A a \in attested : a.owners = SealedSet[a.epoch]

\* The figures a node serves "describe the commitment that is actually on-chain"
\* (reserves_publisher.rs:20-21).
FiguresAreOnChain ==
    \A n \in SafeNodes : commit[n].at # "submit" => figures[n].epoch <= registry
===============================================================================
