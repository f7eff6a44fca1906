------------------------------- MODULE SpvBundle -------------------------------
(***************************************************************************)
(* The Merkle trees of the ledger and the bundle that proves an entry of   *)
(* the ledger a quorum of validators attested.  The tree over the state    *)
(* (StateShaMap) and the tree over a ledger's transactions (TxShaMap) are  *)
(* built entry by entry, in whatever order a server lists them.  A bundle  *)
(* names its ledger by hash, but the proof is asked for by sequence        *)
(* number, along two ways that fall back on each other.                    *)
(***************************************************************************)
EXTENDS Naturals, Sequences, FiniteSets, SequencesExt

CONSTANTS Nibbles,      \* the 16 branches
          KeyLen,       \* nibbles of a key, 64; also MAX_DEPTH
          Ledgers,      \* [seq, entries: key -> data]
          Escrow,       \* the key that is to be proved
          BundleQuorum, \* SpvFetchConfig::quorum
          VlLengths,    \* the lengths whose prefix is looked at
          BundleFaults  \* bound on failed and repeated answers

Keys == UNION {DOMAIN l.entries : l \in Ledgers}

ASSUME SpvBundleAssumption ==
    /\ KeyLen \in Nat \ {0, 1}
    /\ Keys \subseteq [1 .. KeyLen -> Nibbles] /\ Escrow \in [1 .. KeyLen -> Nibbles]
    /\ BundleQuorum \in Nat \ {0} /\ BundleFaults \in Nat
    /\ VlLengths \subseteq Nat

VARIABLES which,    \* "state" or "tx": the tree that is needed
          stage,    \* "collect", "header", "path", "objects", "done", "failed"
          votes,    \* votes[l]: full validations of l collected so far
          target,   \* the ledger to prove in
          server,   \* the ledger that the node serves at the target's sequence
          ways,     \* the ways to a proof not tried yet, in order
          tree, todo, \* the tree under construction, the entries not yet in it
          bundle,   \* the proof handed on
          bundleFaults

bundleVars == <<which, stage, votes, target, server, ways, tree, todo, bundle, bundleFaults>>

-------------------------------------------------------------------------------
(* The tree: its nodes by the nibbles that lead to them.                   *)

NoNode == [node |-> "empty"]
InnerNode == [node |-> "inner"]
Leaf(k, d) == [node |-> "leaf", key |-> k, data |-> d]

Nibble(k, depth) == k[depth + 1]
Prefix(k, depth) == [i \in 1 .. depth |-> Nibble(k, i - 1)]

EmptyTree == [p \in {} |-> NoNode]
EmptyInner == [p \in {<<>>} |-> InnerNode]
Failed == [p \in {<<>>} |-> [node |-> "failed"]]

NodeAt(T, p) == IF p \in DOMAIN T THEN T[p] ELSE NoNode
Overlay(T, N) == [p \in DOMAIN T \cup DOMAIN N |-> IF p \in DOMAIN N THEN N[p] ELSE T[p]]

\* The depth at which the way of a key leaves the inner nodes.
WalkEnd(T, k) == Min({i \in 0 .. KeyLen : i = KeyLen \/ NodeAt(T, Prefix(k, i)).node # "inner"})

\* The depth from which on two keys that met at depth lie apart.
Parting(j, k, depth) == Min({i \in depth .. KeyLen - 1 : Nibble(j, i) # Nibble(k, i)})

\* Mutant: the leaf that is split is not put back.
SplitForgets(n, k, depth, last) == [p \in {Prefix(k, i) : i \in depth .. last} |-> InnerNode]

\* A leaf in the way becomes an inner node that holds it one level down, again and
\* again while the nibbles agree.
Split(n, k, depth, last) ==
    [p \in {Prefix(k, i) : i \in depth .. last} \cup {Prefix(n.key, last + 1)} |->
        IF p = Prefix(n.key, last + 1) THEN n ELSE InnerNode]

\* insert: a second transaction of one id is an error, a second state entry is not.
\* Two keys that part at their last nibble meet at depth 64, where insert gives up.
PutAt(w, T, k, d) ==
    LET depth == WalkEnd(T, k)
        n     == NodeAt(T, Prefix(k, depth))
        last  == Parting(n.key, k, depth)
        NewLeaf(at) == [p \in {Prefix(k, at)} |-> Leaf(k, d)]
    IN  IF depth >= KeyLen \/ n.node = "failed" THEN Failed
        ELSE IF n.node = "empty" THEN Overlay(T, NewLeaf(depth))
        ELSE IF n.key = k THEN IF w = "tx" THEN Failed ELSE T
        ELSE IF last + 1 >= KeyLen THEN Failed
        ELSE Overlay(Overlay(T, Split(n, k, depth, last)), NewLeaf(last + 1))

\* build: no entries make no tree, otherwise the root is an inner node.
BuildRoot(items) == IF items = {} THEN EmptyTree ELSE EmptyInner

-------------------------------------------------------------------------------
(* Hashes and proofs.  A hash is the term it is computed from.             *)

ZeroHash == [hash |-> "zero"]
LeafHash(k, d) == [hash |-> "leaf", data |-> d, key |-> k]
InnerHash(flat) == [hash |-> "inner", flat |-> flat]

\* hash, level by level from the deepest, which holds no inner node: Hashes(T)[i] are
\* the hashes of the nodes i levels above it.
Hashes(T) ==
    LET at[i \in 0 .. KeyLen] ==
          [p \in [1 .. KeyLen - i -> Nibbles] |->
              LET n == NodeAt(T, p)
              IN  IF n.node = "leaf" THEN LeafHash(n.key, n.data)
                  ELSE IF n.node = "inner" /\ i > 0
                  THEN InnerHash([b \in Nibbles |-> at[i - 1][Append(p, b)]])
                  ELSE ZeroHash]
    IN  at

HashOf(T, p) == Hashes(T)[KeyLen - Len(p)][p]

FlatChildren(T, p) == [b \in Nibbles |-> HashOf(T, Append(p, b))]

RootHash(T) == HashOf(T, <<>>)

NoProof == [key |-> Escrow, data |-> "none", inner |-> <<>>, ok |-> FALSE]

\* inclusion_proof, state_proof: the inner nodes from the root to the leaf.
ProofOf(T, k) ==
    LET depth == WalkEnd(T, k)
        n     == NodeAt(T, Prefix(k, depth))
    IN  IF n.node = "leaf" /\ n.key = k
        THEN [key |-> k, data |-> n.data, ok |-> TRUE,
              inner |-> [i \in 1 .. depth |-> FlatChildren(T, Prefix(k, i - 1))]]
        ELSE NoProof

\* The running hash of a verification once it has come up to depth d.
RunningHash(p, d) == IF d = Len(p.inner) THEN LeafHash(p.key, p.data) ELSE InnerHash(p.inner[d + 1])

\* One level of a verification: the branch of the key holds the running hash.
BranchHolds(p, d) == p.inner[d][Nibble(p.key, d - 1)] = RunningHash(p, d)

\* Mutant: a proof is taken as it comes.
OnlyPresent(p, root) == p.ok

\* verify_tx_inclusion, verify_inclusion: from the leaf up to the root.
VerifyInclusion(p, root) ==
    p.ok /\ (\A d \in 1 .. Len(p.inner) : BranchHolds(p, d)) /\ RunningHash(p, 0) = root

-------------------------------------------------------------------------------
(* What the trees should be.                                               *)

\* Where the node of p is an inner node: at the root, and where two keys go through.
Parts(S, p) ==
    p = <<>> \/ \E j, k \in S : j # k /\ Prefix(j, Len(p)) = p /\ Prefix(k, Len(p)) = p

\* Every key is a leaf at the least depth, from 1, at which it is alone.
CanonicalTree(entries) ==
    LET S  == DOMAIN entries
        at == {<<>> : k \in S} \cup
              {Prefix(k[1], k[2]) : k \in {x \in S \X (1 .. KeyLen) : Parts(S, Prefix(x[1], x[2] - 1))}}
    IN  [p \in at |-> IF Parts(S, p) THEN InnerNode
                      ELSE LET k == CHOOSE k \in S : Prefix(k, Len(p)) = p IN Leaf(k, entries[k])]

\* The ledger commits to the canonical tree of its entries.
LedgerRoot(l) == RootHash(CanonicalTree(l.entries))

-------------------------------------------------------------------------------
(* The length prefix in front of a blob, of one to three bytes.            *)

MaxVl == 918744

\* vl_prefix; the empty sequence is a refusal.
VlPrefix(n) ==
    CASE n <= 192 -> <<n>>
      [] n > 192 /\ n <= 12480 -> LET v == n - 193 IN <<193 + v \div 256, v % 256>>
      [] n > 12480 /\ n <= MaxVl ->
            LET v == n - 12481 IN <<241 + v \div 65536, (v \div 256) % 256, v % 256>>
      [] n > MaxVl -> <<>>

\* The length that st_next reads back from the bytes.
VlDecode(s) ==
    CASE s[1] <= 192 -> s[1]
      [] s[1] > 192 /\ s[1] <= 240 -> 193 + (s[1] - 193) * 256 + s[2]
      [] s[1] > 240 -> 12481 + (s[1] - 241) * 65536 + s[2] * 256 + s[3]

-------------------------------------------------------------------------------
(* getProofPath: the node's own path on the wire, leaf first; an inner     *)
(* node with few children is sent compressed.                              *)

WireInner(flat) ==
    LET used == {b \in Nibbles : flat[b] # ZeroHash}
    IN  IF used = Nibbles THEN [tag |-> "inner", body |-> flat]
        ELSE [tag |-> "compressed", body |-> {<<b, flat[b]>> : b \in used}]

\* wire_inner_to_512.
FromWire(w) ==
    IF w.tag = "inner" THEN w.body
    ELSE [b \in Nibbles |-> IF \E c \in w.body : c[1] = b
                            THEN (CHOOSE c \in w.body : c[1] = b)[2] ELSE ZeroHash]

\* wire_leaf_split.
WireLeaf(p) == [tag |-> "leaf", key |-> p.key, data |-> p.data]

\* The node serves the path of the key that it takes to be asked for.
ServedPath(l, k) ==
    LET p == ProofOf(CanonicalTree(l.entries), k)
    IN  IF ~p.ok THEN <<>>
        ELSE <<WireLeaf(p)>> \o Reverse([i \in 1 .. Len(p.inner) |-> WireInner(p.inner[i])])

\* proof_from_getproofpath: the inner nodes are turned to run from the root.
ProofFromPath(path) ==
    IF Len(path) < 2 THEN NoProof
    ELSE [key |-> path[1].key, data |-> path[1].data, ok |-> TRUE,
          inner |-> Reverse([i \in 1 .. Len(path) - 1 |-> FromWire(path[i + 1])])]

-------------------------------------------------------------------------------
(* fetch_spv_bundle, and build_deposit_proof for the transaction tree.     *)

BundleInit ==
    /\ which \in {"state", "tx"}
    /\ votes = [l \in Ledgers |-> 0] /\ target \in Ledgers /\ server = target
    /\ IF which = "state"
       THEN stage = "collect" /\ ways \in {<<"path", "objects">>, <<"objects", "path">>}
            /\ todo = {} /\ tree = EmptyTree
       ELSE stage = "objects" /\ ways = <<>>
            /\ todo = DOMAIN target.entries /\ tree = BuildRoot(todo)
    /\ bundle = NoProof /\ bundleFaults = BundleFaults

Unlucky == bundleFaults > 0 /\ bundleFaults' = bundleFaults - 1

\* The first ledger to reach the quorum is the one.
Validation(l) ==
    /\ stage = "collect"
    /\ votes' = [votes EXCEPT ![l] = @ + 1]
    /\ IF votes[l] + 1 >= BundleQuorum THEN stage' = "header" /\ target' = l
       ELSE UNCHANGED <<stage, target>>
    /\ UNCHANGED <<which, server, ways, tree, todo, bundle, bundleFaults>>

CollectTimeout ==
    /\ stage = "collect" /\ Unlucky /\ stage' = "failed"
    /\ UNCHANGED <<which, votes, target, server, ways, tree, todo, bundle>>

\* Try the next way; ledger_data starts from an empty list.
TryNext(l) ==
    IF ways = <<>> THEN stage' = "failed" /\ UNCHANGED <<ways, tree, todo, server>>
    ELSE /\ stage' = Head(ways) /\ ways' = Tail(ways) /\ server' = l
         /\ IF Head(ways) = "objects"
            THEN todo' = DOMAIN l.entries /\ tree' = BuildRoot(DOMAIN l.entries)
            ELSE UNCHANGED <<tree, todo>>

\* A node that serves by sequence number may hold another ledger of that number.
AtSeq(l) == {m \in Ledgers : m.seq = l.seq}

\* The header is fetched by hash and hashed again; a node that has not stored the
\* ledger after ten attempts ends the attempt.
FetchHeader(l) ==
    /\ stage = "header" /\ l \in AtSeq(target)
    /\ \/ TryNext(l) /\ UNCHANGED bundleFaults
       \/ Unlucky /\ stage' = "failed" /\ UNCHANGED <<ways, tree, todo, server>>
    /\ UNCHANGED <<which, votes, target, bundle>>

Accept(p, l) ==
    IF VerifyInclusion(p, LedgerRoot(target))
    THEN /\ bundle' = p /\ stage' = "done" /\ UNCHANGED <<ways, tree, todo, server>>
    ELSE UNCHANGED bundle /\ TryNext(l)

\* proof_via_getproofpath: ten attempts, then the other way.  The leaf names its key,
\* which nobody compares with the escrow's.
PathProof(l, k) ==
    /\ stage = "path" /\ l \in AtSeq(target)
    /\ \/ Accept(ProofFromPath(ServedPath(server, k)), l) /\ UNCHANGED bundleFaults
       \/ Unlucky /\ UNCHANGED bundle /\ TryNext(l)
    /\ UNCHANGED <<which, votes, target>>

\* fetch_state_objects page after page, and build: one entry, in any order.
NextObject(k) ==
    /\ stage = "objects" /\ k \in todo
    /\ tree' = PutAt(which, tree, k, server.entries[k]) /\ todo' = todo \ {k}
    /\ UNCHANGED <<which, stage, votes, target, server, ways, bundle, bundleFaults>>

\* A page lists an entry again.
RepeatObject(k, l) ==
    /\ stage = "objects" /\ k \in DOMAIN server.entries \ todo /\ l \in AtSeq(target) /\ Unlucky
    /\ IF PutAt(which, tree, k, server.entries[k]) = Failed
       THEN TryNext(l)
       ELSE /\ tree' = PutAt(which, tree, k, server.entries[k])
            /\ UNCHANGED <<stage, todo, ways, server>>
    /\ UNCHANGED <<which, votes, target, bundle>>

\* A page of ledger_data that fails gives up what was listed before it.
PageFails(l) ==
    /\ stage = "objects" /\ which = "state" /\ todo # {} /\ l \in AtSeq(target)
    /\ Unlucky /\ TryNext(l)
    /\ UNCHANGED <<which, votes, target, bundle>>

\* proof_via_ledger_data, of the key that the node answers for the escrow; the key of
\* a transaction is computed from its bytes.
ObjectsProof(l, k) ==
    /\ stage = "objects" /\ todo = {} /\ l \in AtSeq(target)
    /\ which = "tx" => k = Escrow
    /\ Accept(ProofOf(tree, k), l)
    /\ UNCHANGED <<which, votes, target, bundleFaults>>

BundleNext ==
    \/ \E l \in Ledgers :
          \/ Validation(l) \/ FetchHeader(l) \/ PageFails(l)
          \/ \E k \in Keys \cup {Escrow} : PathProof(l, k) \/ ObjectsProof(l, k)
          \/ \E k \in Keys : RepeatObject(k, l)
    \/ CollectTimeout
    \/ \E k \in Keys : NextObject(k)

BundleSpec == BundleInit /\ [][BundleNext]_bundleVars

-------------------------------------------------------------------------------
(* Properties.                                                             *)

\* Two keys that part at their last nibble.
Clash(S) == \E j, k \in S : j # k /\ \A i \in 1 .. KeyLen - 1 : j[i] = k[i]

\* Whatever the order in which a server lists the entries, and whatever it repeats,
\* the tree is the canonical one of the entries so far, and a proof can be made for
\* exactly those keys, which verifies; unless two of them part at their last nibble:
\* then, and only then, the building has failed (tx_shamap.rs:148-284,
\* spv_proof.rs:189-352).
TreeIsCanonical ==
    stage = "objects" =>
        LET in == DOMAIN server.entries \ todo
            T  == IF in = {} THEN BuildRoot(DOMAIN server.entries)
                  ELSE CanonicalTree([k \in in |-> server.entries[k]])
        IN  IF Clash(in) THEN tree = Failed
            ELSE /\ tree = T
                 /\ \A k \in Keys \cup {Escrow} :
                       VerifyInclusion(ProofOf(tree, k), RootHash(T)) <=> k \in in

\* What is handed on is an entry of the ledger that the quorum attested, though it was
\* asked for by sequence number and came along either way; a transaction is the one
\* that was asked for (spv_proof.rs:1024-1136, deposit_spv.rs:107-170).
BundleProvesTarget ==
    stage = "done" =>
        /\ bundle.key \in DOMAIN target.entries
        /\ bundle.data = target.entries[bundle.key]
        /\ which = "tx" => bundle.key = Escrow

\* What the tree hashes in front of a transaction is what the walker of a validation
\* reads back, at every change of width, and every byte is one (tx_shamap.rs:56-81,
\* spv_proof.rs:462-485).
LengthsRoundTrip ==
    \A n \in VlLengths :
        IF n > MaxVl THEN VlPrefix(n) = <<>>
        ELSE /\ VlDecode(VlPrefix(n)) = n
             /\ \A i \in DOMAIN VlPrefix(n) : VlPrefix(n)[i] \in 0 .. 255
===============================================================================
