--------------------------- MODULE SignerAuthority ---------------------------
(***************************************************************************)
(* What the membership machinery promises about the escrow account, with   *)
(* no ceremonies, messages or failures: every enclave holds a sealed chain *)
(* of signer sets that only grows, one set at a time, and the SignerList   *)
(* on the XRP Ledger moves to a set only when that set has been sealed, in *)
(* the same place of the chain, by every enclave of the cluster.           *)
(***************************************************************************)
EXTENDS Naturals, Sequences

CONSTANTS Nodes,        \* the cluster
          SignerSets,   \* the signer sets an operator may propose
          Founding,     \* the chains a cluster may start with
          InitialList   \* the SignerList found on the ledger

VARIABLES sealed,       \* sealed[n]: the chain of sets sealed by n's enclave
          ledgerList    \* the SignerList of the escrow account

avars == <<sealed, ledgerList>>

AuthInit ==
    /\ \E f \in Founding : sealed = [n \in Nodes |-> f]
    /\ ledgerList = InitialList

\* One enclave seals one more set.
AuthSeal(n, s) ==
    /\ sealed' = [sealed EXCEPT ![n] = Append(@, s)]
    /\ UNCHANGED ledgerList

SealedEverywhere(i, s) ==
    \A n \in Nodes : i <= Len(sealed[n]) /\ sealed[n][i] = s

\* The ledger moves to a set that the whole cluster has sealed.
AuthProject(i, s) ==
    /\ SealedEverywhere(i, s)
    /\ ledgerList' = s
    /\ UNCHANGED sealed

\* The positions are those of some chain, so the quantifier is bounded.
AuthNext ==
    \/ \E n \in Nodes, s \in SignerSets : AuthSeal(n, s)
    \/ \E s \in SignerSets, n \in Nodes :
          \E i \in DOMAIN sealed[n] : AuthProject(i, s)

AuthSpec == AuthInit /\ [][AuthNext]_avars
=============================================================================
