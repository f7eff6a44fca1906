------------------------------ MODULE FrostRound ------------------------------
(***************************************************************************)
(* The driver of FROST signing rounds on one node.  A round asks every     *)
(* signer for a nonce, then, with the full set of public nonces, every     *)
(* signer for a partial signature, and aggregates.  The enclave keeps one  *)
(* live nonce per signer and overwrites it when asked again, so a process- *)
(* wide claim admits one round at a time.  The handler's future is dropped *)
(* when its client goes away: the claim is freed although the call it was  *)
(* waiting for may still reach the enclave.                                *)
(***************************************************************************)
EXTENDS Naturals, FiniteSets

CONSTANTS Rounds,        \* requests to /admin/frost/round
          SignerIds,     \* the signers whose shares the enclave holds
          AskedSets,     \* the signer_ids a request may name, as sets
          RoundThreshold,\* the threshold of the group
          MaxPerRound    \* MAX_SIGNERS_PER_ROUND

ASSUME FrostAssumption ==
    /\ SignerIds \subseteq Nat /\ AskedSets \subseteq SUBSET SignerIds
    /\ RoundThreshold \in Nat /\ MaxPerRound \in Nat

VARIABLES claim,  \* ROUND_IN_FLIGHT
          round,  \* round[r]: the handler of request r
          nonce,  \* nonce[s]: the live nonce of s in the enclave, 0 for none
          drawn,  \* how many nonces the enclave has drawn
          late    \* calls of dropped handlers that may still reach the enclave

frostVars == <<claim, round, nonce, drawn, late>>

NoRound == [pc |-> "idle", ids |-> {}, todo |-> {}, set |-> {}, partials |-> {}]

FrostInit ==
    /\ claim = FALSE /\ drawn = 0 /\ late = {}
    /\ round = [r \in Rounds |-> NoRound]
    /\ nonce = [s \in SignerIds |-> 0]

-------------------------------------------------------------------------------
(* The enclave's side of the two passes.                                   *)

DrawNonce(s) ==
    /\ drawn' = drawn + 1
    /\ nonce' = [nonce EXCEPT ![s] = drawn + 1]
UseNonce(s) == nonce' = [nonce EXCEPT ![s] = 0] /\ UNCHANGED drawn

\* The SequentialGatherer asks the participants in the order of their ids.
NextOf(ids) == CHOOSE s \in ids : \A t \in ids : s <= t

\* Mutant: the claim is not taken, so a second round is admitted.
AlwaysFree == TRUE

\* RoundClaim::try_acquire.
ClaimFree == ~claim

\* A request: refused while another round is in flight or when it asks fewer
\* participants than the threshold.
StartRound(r, ids) ==
    /\ round[r].pc = "idle"
    /\ LET go == ClaimFree /\ Cardinality(ids) >= RoundThreshold IN
       /\ claim' = (claim \/ go)
       /\ round' = [round EXCEPT ![r] = IF go
                      THEN [NoRound EXCEPT !.pc = "nonces", !.ids = ids, !.todo = ids]
                      ELSE [NoRound EXCEPT !.pc = "refused"]]
    /\ UNCHANGED <<nonce, drawn, late>>

\* The end of a round, whatever it is, drops the claim.
EndRound(r, pc) ==
    /\ claim' = FALSE
    /\ round' = [round EXCEPT ![r] = [NoRound EXCEPT !.pc = pc]]

\* Pass 1: a nonce of the next signer.
NonceGen(r) ==
    LET s == NextOf(round[r].todo) IN
    /\ round[r].pc = "nonces" /\ round[r].todo # {}
    /\ DrawNonce(s)
    /\ round' = [round EXCEPT ![r].todo = @ \ {s}, ![r].set = @ \cup {<<s, drawn + 1>>}]
    /\ UNCHANGED <<claim, late>>

\* SignerSet::new orders the set and bounds it; the set must reach the threshold.
SignerSetOk(set) ==
    Cardinality(set) \in 1 .. MaxPerRound /\ Cardinality(set) >= RoundThreshold

CloseNonces(r) ==
    /\ round[r].pc = "nonces" /\ round[r].todo = {}
    /\ IF SignerSetOk(round[r].set)
       THEN /\ round' = [round EXCEPT ![r].pc = "partials", ![r].todo = round[r].ids]
            /\ UNCHANGED claim
       ELSE EndRound(r, "failed")
    /\ UNCHANGED <<nonce, drawn, late>>

\* Pass 2: the enclave signs with the nonce it holds by now, and spends it.
PartialSign(r) ==
    LET s == NextOf(round[r].todo) IN
    /\ round[r].pc = "partials" /\ round[r].todo # {}
    /\ IF nonce[s] = 0
       THEN EndRound(r, "failed") /\ UNCHANGED <<nonce, drawn>>
       ELSE /\ UseNonce(s)
            /\ round' = [round EXCEPT ![r].todo = @ \ {s},
                                      ![r].partials = @ \cup {<<s, nonce[s]>>}]
            /\ UNCHANGED claim
    /\ UNCHANGED late

\* Any call of the round may be refused.
CallFails(r) ==
    /\ round[r].pc \in {"nonces", "partials"} /\ round[r].todo # {}
    /\ EndRound(r, "failed")
    /\ UNCHANGED <<nonce, drawn, late>>

\* verify_bip340: the signature verifies exactly when each partial used the
\* published nonce.
Verifies(r) == round[r].partials = round[r].set

Aggregate(r) ==
    /\ round[r].pc = "partials" /\ round[r].todo = {}
    /\ EndRound(r, IF Verifies(r) THEN "verified" ELSE "unverified")
    /\ UNCHANGED <<nonce, drawn, late>>

\* The client disconnects, or the call times out: the future is dropped at its
\* await, and the call it made may still arrive.
DropRound(r) ==
    /\ round[r].pc \in {"nonces", "partials"} /\ round[r].todo # {}
    /\ late' = late \cup {[pass |-> round[r].pc, signer |-> NextOf(round[r].todo)]}
    /\ EndRound(r, "dropped")
    /\ UNCHANGED <<nonce, drawn>>

\* The abandoned call reaches the enclave.
LateCall(l) ==
    /\ IF l.pass = "nonces" THEN DrawNonce(l.signer) ELSE UseNonce(l.signer)
    /\ late' = late \ {l}
    /\ UNCHANGED <<claim, round>>

FrostNext ==
    \/ \E r \in Rounds :
          \/ \E ids \in AskedSets : StartRound(r, ids)
          \/ NonceGen(r) \/ CloseNonces(r) \/ PartialSign(r) \/ CallFails(r)
          \/ Aggregate(r) \/ DropRound(r)
    \/ \E l \in late : LateCall(l)

FrostSpec == FrostInit /\ [][FrostNext]_frostVars

-------------------------------------------------------------------------------
\* A round that runs to its end yields a signature that verifies: only the
\* abandoned call of a dropped handler can move a nonce under a live round
\* (frost_round.rs:45, the trap the claim exists to close).
UnverifiedOnlyAfterDrop ==
    (\E r \in Rounds : round[r].pc = "unverified") =>
        \E r \in Rounds : round[r].pc = "dropped"
===============================================================================
