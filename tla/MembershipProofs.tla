--------------------------- MODULE MembershipProofs ---------------------------
(***************************************************************************)
(* Proofs about Membership for every cluster, every set of proposals and   *)
(* any number of overlapping ceremonies: an enclave in sync holds the set  *)
(* the ledger enforces, and the ceremonies implement SignerAuthority.      *)
(***************************************************************************)
EXTENDS Membership, FiniteSetTheorems, SequenceTheorems, TLAPS

Entry == SignerSets \cup AllowlistOps \cup Anchors \cup Rosters

Record ==
    [phase : {"idle", "collect", "apply", "project", "sign", "poll", "landed", "confirm", "done"},
     driver : Nodes, kind : Kinds \cup {"genesis", "none"}, stmt : Seq(Entry),
     endorsed : SUBSET Nodes, sent : BOOLEAN, seen : SUBSET Nodes, oks : SUBSET Nodes,
     errs : SUBSET (Nodes \cup {"<unknown>"}), seq : Nat, signed : SUBSET Nodes,
     result : {"none", "ok", "failed", "partial", "sealed_not_cosign_ready", "unconfirmed",
               "late"}]

\* The statement of a run is one of its kind; only a run that ended has results,
\* and only one that fetched its Sequence has signatures.
RecordOK(r) ==
    /\ r.kind = "epoch"   => r.stmt \in Seq(SignerSets) /\ r.stmt # <<>>
    /\ r.kind = "genesis" => r.stmt = <<FoundingSet>>
    /\ r.result # "none"  => r.phase = "done"
    /\ r.phase \in {"idle", "collect"} => ~r.sent /\ r.oks = {}
    /\ r.phase \in {"idle", "collect", "apply", "project"} => r.signed = {}

TypeInv ==
    /\ chain \in [Kinds -> [Nodes -> Seq(Entry)]]
    /\ chain["epoch"] \in [Nodes -> Seq(SignerSets)]
    /\ confirmed \in [Nodes -> Nat]
    /\ onChain \in SignerSets /\ onChain.quorum > 0
    /\ escrowSeq \in Nat
    /\ cer \in [Ceremonies -> Record]
    /\ \A c \in Ceremonies : RecordOK(cer[c])

\* A run that has a transaction for the ledger, one whose transaction the ledger
\* has included, and one whose statement the whole cluster has sealed.
Outstanding(r) == r.phase \in {"sign", "poll"} \/ r.result = "late"
Landed(r) == r.phase \in {"landed", "confirm"} \/ r.result = "unconfirmed"
Sealed(r) == r.phase = "project" \/ Outstanding(r) \/ Landed(r)

\* A run whose transaction has signatures and the Sequence the ledger wants next.
Landable(r) == Outstanding(r) /\ r.seq = escrowSeq /\ r.signed # {}

\* Chain s starts with chain t.
StartsWith(s, t) == Len(t) <= Len(s) /\ \A i \in 1 .. Len(t) : s[i] = t[i]

\* What holds of every run.  What all nodes sealed stays a prefix of every
\* chain, and its broadcast has reached them all; while some node's head is still
\* the statement of a landed run its list is the ledger's (only such a node
\* records a late confirmation); no node has confirmed an epoch beyond the one
\* of a transaction that can still land.
RunInv(r) ==
    /\ Sealed(r) => /\ r.kind = "epoch" /\ (r.sent => r.seen = Nodes)
                    /\ \A n \in Nodes : StartsWith(chain["epoch"][n], r.stmt)
    /\ Landed(r) => \A n \in Nodes : chain["epoch"][n] = r.stmt => onChain = Newest(r.stmt)
    /\ Outstanding(r) => /\ r.seq <= escrowSeq
                         /\ r.signed # {} => SignerListPolicy(Newest(r.stmt))
    /\ Landable(r) => \A n \in Nodes : confirmed[n] <= Len(r.stmt)

\* A node that acked OK has been reached, and has sealed the statement.
AckInv(r) ==
    r.phase = "apply" =>
        /\ r.oks \subseteq r.seen
        /\ r.kind = "epoch" => \A n \in r.oks : StartsWith(chain["epoch"][n], r.stmt)

RecordInv(r) == RunInv(r) /\ AckInv(r)

RunsInv == \A c \in Ceremonies : RecordInv(cer[c])

\* What can still land is no shorter than any epoch that has landed.
NoneLandedBeyond(r) ==
    Landable(r) => \A d \in Ceremonies : Landed(cer[d]) => Len(cer[d].stmt) <= Len(r.stmt)

LandingOrder == \A c \in Ceremonies : NoneLandedBeyond(cer[c])

\* A head that is confirmed beyond genesis is a prefix of every chain, and on the
\* ledger; no chain is shorter than what some node has confirmed.
ConfirmedHeld ==
    \A n \in Nodes :
        /\ confirmed[n] <= Len(chain["epoch"][n])
        /\ \A m \in Nodes : confirmed[n] <= 1 \/ confirmed[n] <= Len(chain["epoch"][m])
        /\ confirmed[n] = Len(chain["epoch"][n]) /\ Len(chain["epoch"][n]) > 1 =>
             /\ \A m \in Nodes : StartsWith(chain["epoch"][m], chain["epoch"][n])
             /\ onChain = Newest(chain["epoch"][n])

MInv == TypeInv /\ RunsInv /\ LandingOrder /\ ConfirmedHeld

----------------------------------------------------------------------------
(* Sequences. *)

\* A statement is its predecessor with one entry linked to it.
LEMMA Linked ==
    ASSUME NEW S, NEW s \in Seq(S), s # <<>>
    PROVE  /\ Older(s) \in Seq(S) /\ Newest(s) \in S /\ Len(s) \in Nat \ {0}
           /\ Len(Older(s)) = Len(s) - 1 /\ s = Append(Older(s), Newest(s))
<1>1. Len(s) \in Nat \ {0} /\ \A i \in 1 .. Len(s) : s[i] \in S
  BY EmptySeq, ElementOfSeq
<1>2. PICK n \in Nat : Len(s) = n + 1
  <2>1. Len(s) - 1 \in Nat /\ Len(s) = (Len(s) - 1) + 1
    BY <1>1
  <2> QED
    BY <2>1
<1>3. Older(s) = SubSeq(s, 1, n)
  BY <1>2 DEF Older
<1>4. \A i \in 1 .. n : s[i] \in S
  BY <1>1, <1>2
<1>5. /\ SubSeq(s, 1, n) \in Seq(S) /\ Len(SubSeq(s, 1, n)) = n
      /\ \A i \in 1 .. n : SubSeq(s, 1, n)[i] = s[i]
  BY <1>4, SubSeqProperties
<1>6. s = Append(SubSeq(s, 1, n), s[n + 1])
  <2>1. s[n + 1] \in S
    BY <1>1, <1>2
  <2>2. /\ Append(SubSeq(s, 1, n), s[n + 1]) \in Seq(S)
        /\ Len(Append(SubSeq(s, 1, n), s[n + 1])) = n + 1
        /\ \A i \in 1 .. n + 1 : Append(SubSeq(s, 1, n), s[n + 1])[i] = s[i]
    BY <1>5, <2>1, AppendProperties
  <2> QED
    BY <1>2, <2>2, SeqEqual
<1> QED
  BY <1>1, <1>2, <1>3, <1>5, <1>6 DEF Newest

\* A chain that grows still starts with what it started with.
LEMMA GrownStartsWith ==
    ASSUME NEW S, NEW s \in Seq(S), NEW t \in Seq(S), NEW v \in S, StartsWith(s, t)
    PROVE  StartsWith(Append(s, v), t) /\ Append(s, v) # t
  BY DEF StartsWith

\* A chain that is no longer than what it starts with is just that.
LEMMA StartsWithAll ==
    ASSUME NEW S, NEW s \in Seq(S), NEW t \in Seq(S), StartsWith(s, t), Len(s) <= Len(t)
    PROVE  s = t
<1>1. Len(s) \in Nat /\ Len(t) \in Nat
  BY LenProperties
<1>2. Len(s) = Len(t) /\ \A i \in 1 .. Len(s) : s[i] = t[i]
  BY <1>1 DEF StartsWith
<1> QED
  BY <1>2, SeqEqual

\* A chain starts with itself.
LEMMA StartsWithItself ==
    ASSUME NEW S, NEW s \in Seq(S)
    PROVE  StartsWith(s, s)
  BY DEF StartsWith

----------------------------------------------------------------------------
(* Types. *)

\* Runs that have not started or are over are well formed.
LEMMA IdleType ==
    /\ Idle \in Record /\ RecordOK(Idle)
    /\ \A result \in {"none", "ok", "failed", "partial", "sealed_not_cosign_ready"} :
          result # "none" => Finished(result) \in Record /\ RecordOK(Finished(result))
<1>1. (CHOOSE n \in Nodes : TRUE) \in Nodes
  BY MembershipAssumption
<1>2. <<>> \in Seq(Entry)
  BY EmptySeq
<1> QED
  BY <1>1, <1>2 DEF Idle, Finished, Record, RecordOK

\* Settling a run keeps its shape.
LEMMA SettledType ==
    ASSUME NEW r \in Record, RecordOK(r), r.phase = "done" => r.result \notin {"none", "unconfirmed", "late"}
    PROVE  Settled(r) \in Record /\ RecordOK(Settled(r))
  BY IdleType DEF Settled, Record

\* Both a new cluster and one founded long ago satisfy the invariant.
LEMMA InitInv == Init => MInv
<1> SUFFICES ASSUME Init PROVE MInv
  OBVIOUS
<1>1. PICK e \in {<<>>, <<FoundingSet>>} :
         /\ chain = [k \in Kinds |-> [n \in Nodes |-> IF k = "epoch" THEN e ELSE <<>>]]
         /\ confirmed = [n \in Nodes |-> Len(e)]
         /\ onChain = LedgerSet /\ escrowSeq = 1
         /\ cer = [c \in Ceremonies |-> Idle]
  BY DEF Init
<1>2. FoundingSet \in SignerSets /\ LedgerSet \in SignerSets /\ LedgerSet.quorum > 0
  BY MembershipAssumption
<1>3. e \in Seq(SignerSets) /\ e \in Seq(Entry) /\ Len(e) \in Nat /\ Len(e) <= 1
  <2>1. <<FoundingSet>> \in Seq(SignerSets) /\ Len(<<FoundingSet>>) = 1
    BY <1>2
  <2>2. <<>> \in Seq(SignerSets) /\ Len(<<>>) = 0
    BY EmptySeq
  <2>3. e \in Seq(SignerSets) /\ Len(e) \in Nat /\ Len(e) <= 1
    <3>1. CASE e = <<>>
      BY <2>2, <3>1
    <3>2. CASE e = <<FoundingSet>>
      BY <2>1, <3>2
    <3> QED
      BY <1>1, <3>1, <3>2
  <2>4. SignerSets \subseteq Entry
    BY DEF Entry
  <2> QED
    BY <2>3, <2>4, SeqMonotonic
<1>4. <<>> \in Seq(Entry)
  BY EmptySeq
<1>5. TypeInv
  BY <1>1, <1>2, <1>3, <1>4, IdleType DEF TypeInv, Kinds
<1>6. RunsInv /\ LandingOrder
  BY <1>1 DEF RunsInv, RecordInv, RunInv, AckInv, Idle, Sealed, Landed, Outstanding, Landable,
              LandingOrder, NoneLandedBeyond
<1>7. ConfirmedHeld
  <2>1. \A n \in Nodes : chain["epoch"][n] = e /\ confirmed[n] = Len(e)
    BY <1>1 DEF Kinds
  <2> QED
    BY <1>3, <2>1 DEF ConfirmedHeld
<1> QED
  BY <1>5, <1>6, <1>7 DEF MInv

----------------------------------------------------------------------------
(* Steps that move one run and nothing else. *)

\* A run that moves from o to r on its own has landed only if it had before.
StaysAshore(o, r) == Landed(r) => Landed(o) /\ r.stmt = o.stmt

\* A step that moves run c to a record that satisfies the invariant keeps it.
LEMMA QuietStep ==
    ASSUME MInv, NEW c \in Ceremonies, NEW r \in Record, RecordOK(r), RecordInv(r),
           StaysAshore(cer[c], r), NoneLandedBeyond(r),
           cer' = [cer EXCEPT ![c] = r], UNCHANGED <<chain, confirmed, onChain, escrowSeq>>
    PROVE  MInv'
<1>1. TypeInv'
  BY DEF MInv, TypeInv
<1>2. RunsInv'
  <2>1. \A d \in Ceremonies : RecordInv(cer[d])'
    <3> SUFFICES ASSUME NEW d \in Ceremonies PROVE RecordInv(cer[d])'
      OBVIOUS
    <3>1. RecordInv(cer'[d])
      BY DEF MInv, TypeInv, RunsInv
    <3> QED
      BY <3>1 DEF RecordInv, RunInv, AckInv, Sealed, Landed, Outstanding, Landable
  <2> QED
    BY <2>1 DEF RunsInv
<1>3. ConfirmedHeld'
  BY DEF MInv, ConfirmedHeld
<1>4. LandingOrder'
  <2> SUFFICES ASSUME NEW d \in Ceremonies, Landable(cer'[d]), NEW b \in Ceremonies, Landed(cer'[b])
               PROVE  Len(cer'[b].stmt) <= Len(cer'[d].stmt)
    BY DEF LandingOrder, NoneLandedBeyond, Landable
  <2>1. NoneLandedBeyond(cer'[d])
    BY DEF MInv, TypeInv, LandingOrder
  <2>2. Landed(cer[b]) /\ cer'[b].stmt = cer[b].stmt
    BY DEF MInv, TypeInv, StaysAshore
  <2> QED
    BY <2>1, <2>2 DEF NoneLandedBeyond
<1> QED
  BY <1>1, <1>2, <1>3, <1>4 DEF MInv

\* What a run that is not being projected has to satisfy.
LEMMA NotSealed ==
    ASSUME NEW r, ~Sealed(r)
    PROVE  RunInv(r) /\ NoneLandedBeyond(r) /\ \A o : StaysAshore(o, r)
  BY DEF RunInv, NoneLandedBeyond, StaysAshore, Sealed, Landable

\* A finished run satisfies the invariant.
LEMMA FinishedInv ==
    ASSUME NEW result \in {"ok", "failed", "partial", "sealed_not_cosign_ready"}
    PROVE  /\ Finished(result) \in Record /\ RecordOK(Finished(result))
           /\ RecordInv(Finished(result)) /\ ~Sealed(Finished(result))
           /\ NoneLandedBeyond(Finished(result)) /\ \A o : StaysAshore(o, Finished(result))
<1>1. ~Sealed(Finished(result)) /\ AckInv(Finished(result))
  BY DEF Finished, Idle, AckInv, Sealed, Landed, Outstanding
<1> QED
  BY <1>1, IdleType, NotSealed DEF RecordInv

\* Starting a ceremony keeps the invariant.
LEMMA BeginInv ==
    ASSUME MInv, NEW c \in Ceremonies, NEW d \in Drivers,
           NEW kind \in Kinds \cup {"genesis"}, NEW stmts, Begin(c, d, kind, stmts),
           \A s \in stmts : /\ s \in Seq(Entry) /\ s # <<>>
                            /\ kind = "epoch" => s \in Seq(SignerSets)
                            /\ kind = "genesis" => s = <<FoundingSet>>
    PROVE  MInv'
<1>1. PICK s \in stmts : cer' = [cer EXCEPT ![c] = [Idle EXCEPT
             !.phase = "collect", !.driver = d, !.kind = kind, !.stmt = s]]
  BY DEF Begin
<1> DEFINE r == [Idle EXCEPT !.phase = "collect", !.driver = d, !.kind = kind, !.stmt = s]
<1>2. /\ r.phase = "collect" /\ r.driver = d /\ r.kind = kind /\ r.stmt = s
      /\ r.endorsed = {} /\ r.sent = FALSE /\ r.seen = {} /\ r.oks = {} /\ r.errs = {}
      /\ r.signed = {} /\ r.result = "none"
  BY DEF Idle
<1>3. r \in Record
  BY IdleType, MembershipAssumption DEF Record
<1>4. RecordOK(r) /\ AckInv(r) /\ ~Sealed(r)
  BY <1>2 DEF RecordOK, AckInv, Sealed, Landed, Outstanding
<1> HIDE DEF r
<1>5. RecordInv(r) /\ NoneLandedBeyond(r) /\ StaysAshore(cer[c], r)
  BY <1>4, NotSealed DEF RecordInv
<1> QED
  BY <1>1, <1>3, <1>4, <1>5, QuietStep DEF Begin, r

\* A statement linked to a typed chain is typed.
LEMMA LinkType ==
    ASSUME NEW S, NEW s \in Seq(S), NEW v \in S
    PROVE  Link(s, v) \in Seq(S) /\ Link(s, v) # <<>>
  BY AppendProperties DEF Link

\* Every POST that starts a ceremony keeps the invariant.
LEMMA StartInv ==
    ASSUME MInv, NEW c \in Ceremonies, NEW d \in Drivers,
           \/ \E v \in SignerSets : StartChange(c, d, v)
           \/ StartGenesis(c, d)
           \/ \E op \in AllowlistOps : StartGovern(c, d, op)
           \/ \E a \in Anchors : StartPolicy(c, d, a)
           \/ \E q \in Rosters : StartBaseline(c, d, q)
    PROVE  MInv'
<1>0. d \in Nodes
  BY MembershipAssumption
<1>1. /\ SignerSets \subseteq Entry /\ AllowlistOps \subseteq Entry
      /\ Anchors \subseteq Entry /\ Rosters \subseteq Entry
  BY DEF Entry
<1>2. ASSUME NEW v \in SignerSets, StartChange(c, d, v) PROVE MInv'
  <2>1. chain["epoch"][d] \in Seq(SignerSets)
    BY <1>0 DEF MInv, TypeInv
  <2>2. \A s \in EpochStatements(d, v) : s = Link(chain["epoch"][d], v)
    BY DEF EpochStatements, EpochHeads, PrepareStatement
  <2>3. \A s \in EpochStatements(d, v) : s \in Seq(SignerSets) /\ s # <<>> /\ s \in Seq(Entry)
    <3>1. Link(chain["epoch"][d], v) \in Seq(SignerSets) /\ Link(chain["epoch"][d], v) # <<>>
      BY <2>1, LinkType
    <3>2. Link(chain["epoch"][d], v) \in Seq(Entry)
      BY <1>1, <3>1, SeqMonotonic
    <3> QED
      BY <2>2, <3>1, <3>2, Zenon
  <2> QED
    BY <1>2, <2>3, BeginInv DEF StartChange, Kinds
<1>3. ASSUME StartGenesis(c, d) PROVE MInv'
  <2>1. \A s \in GenesisStatements(FoundingSet) : s = <<FoundingSet>>
    BY DEF GenesisStatements, PrepareStatement, Link
  <2>2. <<FoundingSet>> \in Seq(Entry) /\ <<FoundingSet>> # <<>>
    BY <1>1, MembershipAssumption
  <2> QED
    <3>1. \A s \in GenesisStatements(FoundingSet) : s \in Seq(Entry) /\ s # <<>> /\ s = <<FoundingSet>>
      BY <2>1, <2>2, Zenon
    <3>2. Begin(c, d, "genesis", GenesisStatements(FoundingSet))
      BY <1>3 DEF StartGenesis
    <3>3. "genesis" \in Kinds \cup {"genesis"}
      OBVIOUS
    <3> HIDE DEF MInv
    <3> QED
      BY <3>1, <3>2, <3>3, BeginInv, Zenon
<1>4. ASSUME NEW op \in AllowlistOps, StartGovern(c, d, op) PROVE MInv'
  <2>1. chain["mrenclave"][d] \in Seq(Entry)
    BY <1>0 DEF MInv, TypeInv, Kinds
  <2>2. Link(chain["mrenclave"][d], op) \in Seq(Entry) /\ Link(chain["mrenclave"][d], op) # <<>>
    BY <1>1, <2>1, LinkType
  <2> QED
    BY <1>4, <2>2, BeginInv DEF StartGovern, Kinds
<1>5. ASSUME NEW a \in Anchors, StartPolicy(c, d, a) PROVE MInv'
  <2>1. chain["unl"][d] \in Seq(Entry)
    BY <1>0 DEF MInv, TypeInv, Kinds
  <2>2. Link(chain["unl"][d], a) \in Seq(Entry) /\ Link(chain["unl"][d], a) # <<>>
    BY <1>1, <2>1, LinkType
  <2> QED
    BY <1>5, <2>2, BeginInv DEF StartPolicy, Kinds
<1>6. ASSUME NEW q \in Rosters, StartBaseline(c, d, q) PROVE MInv'
  <2>1. <<q>> \in Seq(Entry) /\ <<q>> # <<>>
    BY <1>1
  <2> DEFINE stmts == IF DistinctEndpoints(q) THEN {<<q>>} ELSE {}
  <2>2. \A s \in stmts : s \in Seq(Entry) /\ s # <<>>
    BY <2>1
  <2>3. Begin(c, d, "spv", stmts)
    BY <1>6 DEF StartBaseline
  <2> HIDE DEF stmts
  <2> QED
    BY <2>2, <2>3, BeginInv DEF Kinds
<1> QED
  BY <1>2, <1>3, <1>4, <1>5, <1>6

\* A collection that ends keeps the invariant.
LEMMA CollectedInv ==
    ASSUME MInv, NEW c \in Ceremonies, NEW endorsed \in SUBSET Nodes, NEW enough \in BOOLEAN,
           Collected(c, endorsed, enough)
    PROVE  MInv'
<1> DEFINE o == cer[c]
           r == [o EXCEPT !.endorsed = endorsed, !.phase = "apply"]
<1>1. o \in Record /\ RecordOK(o) /\ RecordInv(o) /\ o.phase = "collect"
  BY DEF MInv, TypeInv, RunsInv, Collected
<1>2. /\ cer' = [cer EXCEPT ![c] = IF enough THEN r ELSE Finished("failed")]
      /\ UNCHANGED <<chain, confirmed, onChain, escrowSeq>>
  BY DEF Collected, MInv, TypeInv
<1>3. CASE enough
  <2>1. r \in Record
    BY <1>1 DEF Record
  <2>2. /\ r.phase = "apply" /\ r.endorsed = endorsed /\ r.kind = o.kind /\ r.stmt = o.stmt
        /\ r.oks = {} /\ r.sent = FALSE /\ r.signed = {} /\ r.result = "none"
    BY <1>1 DEF Record, RecordOK
  <2>3. RecordOK(r) /\ AckInv(r) /\ ~Sealed(r)
    BY <1>1, <2>2 DEF RecordOK, AckInv, Sealed, Landed, Outstanding
  <2> HIDE DEF r
  <2>4. RecordInv(r) /\ NoneLandedBeyond(r) /\ StaysAshore(o, r)
    BY <2>3, NotSealed DEF RecordInv
  <2> QED
    BY <1>2, <1>3, <2>1, <2>3, <2>4, QuietStep
<1>4. CASE ~enough
  BY <1>2, <1>4, FinishedInv, QuietStep
<1> QED
  BY <1>3, <1>4

\* Nodes is finite, and cardinalities of its parts are numbers.
LEMMA NodesFinite ==
    /\ IsFiniteSet(Nodes) /\ Cardinality(Nodes) \in Nat
    /\ \A S \in SUBSET Nodes : IsFiniteSet(S) /\ Cardinality(S) \in Nat
<1>1. IsFiniteSet(Nodes)
  BY MembershipAssumption, FS_Subset
<1>2. \A S \in SUBSET Nodes : IsFiniteSet(S)
  BY <1>1, FS_Subset
<1> QED
  BY <1>1, <1>2, FS_CardinalityType

\* The end of any of the four collections keeps the invariant.
LEMMA CollectInv ==
    ASSUME MInv, NEW c \in Ceremonies, NEW endorsed \in SUBSET Nodes,
           \/ CollectConsents(c, endorsed) \/ CollectGovernance(c, endorsed)
           \/ CollectEndorsements(c, endorsed) \/ CollectCosignatures(c, endorsed)
    PROVE  MInv'
<1>1. PICK enough \in BOOLEAN : Collected(c, endorsed, enough)
  <2>1. CASE CollectConsents(c, endorsed)
    BY <2>1 DEF CollectConsents
  <2>2. CASE CollectGovernance(c, endorsed)
    <3> DEFINE g == Cardinality(endorsed) >= IF Newest(cer[c].stmt).op = "add" THEN ReproMin ELSE 1
    <3>1. g \in BOOLEAN /\ Collected(c, endorsed, g)
      BY <2>2 DEF CollectGovernance
    <3> QED
      BY <3>1
  <2>3. CASE CollectEndorsements(c, endorsed)
    <3> DEFINE g == Cardinality(endorsed) >= CosignQuorum
    <3>1. g \in BOOLEAN /\ Collected(c, endorsed, g)
      BY <2>3 DEF CollectEndorsements
    <3> QED
      BY <3>1
  <2>4. CASE CollectCosignatures(c, endorsed)
    <3> DEFINE g == /\ Cardinality(endorsed) >= CosignQuorum
                    /\ BundleDiverse(Newest(cer[c].stmt), endorsed)
    <3>1. g \in BOOLEAN /\ Collected(c, endorsed, g)
      BY <2>4 DEF CollectCosignatures, BundleDiverse
    <3> QED
      BY <3>1
  <2> QED
    BY <2>1, <2>2, <2>3, <2>4
<1> QED
  BY <1>1, CollectedInv

----------------------------------------------------------------------------
(* The end of an apply. *)

\* When every row is an OK, every node is one of them.
LEMMA AllAppliedMeansAll ==
    ASSUME TypeInv, NEW c \in Ceremonies, AllApplied(c), cer[c].kind # "spv"
    PROVE  cer[c].oks = Nodes
<1>1. cer[c].oks \in SUBSET Nodes
  BY DEF TypeInv, Record
<1>2. Cardinality(cer[c].oks) >= Cardinality(Nodes)
  BY DEF AllApplied
<1>3. Cardinality(cer[c].oks) <= Cardinality(Nodes)
  BY <1>1, NodesFinite, FS_Subset
<1>4. Cardinality(cer[c].oks) = Cardinality(Nodes)
  BY <1>1, <1>2, <1>3, NodesFinite
<1> QED
  BY <1>1, <1>4, NodesFinite, FS_Subset

\* Settling a run that is over keeps what is known of it.
LEMMA SettledInv ==
    ASSUME NEW r \in Record, RecordOK(r), RecordInv(r), ~Landed(r), ~Outstanding(r),
           r.phase = "done" => r.result # "none"
    PROVE  /\ Settled(r) \in Record /\ RecordOK(Settled(r)) /\ RecordInv(Settled(r))
           /\ NoneLandedBeyond(Settled(r)) /\ \A o : StaysAshore(o, Settled(r))
<1>1. CASE Settled(r) = r
  BY <1>1 DEF NoneLandedBeyond, Landable, StaysAshore
<1>2. CASE Settled(r) # r
  <2>1. Settled(r) = Finished(r.result) /\ r.phase = "done"
    BY <1>2 DEF Settled
  <2>2. r.result \in {"ok", "failed", "partial", "sealed_not_cosign_ready"}
    BY <2>1 DEF Record, Landed, Outstanding
  <2> QED
    BY <2>1, <2>2, FinishedInv
<1> QED
  BY <1>1, <1>2

\* Closing an apply keeps the invariant; it goes on to the projection only when
\* every node has sealed.
LEMMA CloseApplyInv ==
    ASSUME MInv, NEW c \in Ceremonies, NEW next \in {"project", "done"},
           NEW result \in {"none", "ok", "partial", "sealed_not_cosign_ready"},
           CloseApply(c, next, result), next = "done" <=> result # "none",
           next = "project" => cer[c].kind = "epoch" /\ AllApplied(c)
    PROVE  MInv'
<1> DEFINE o == cer[c]
           r == [o EXCEPT !.phase = next, !.result = result, !.oks = {}, !.errs = {}]
<1>1. o \in Record /\ RecordOK(o) /\ RecordInv(o) /\ o.phase = "apply"
  BY DEF MInv, TypeInv, RunsInv, CloseApply
<1>2. /\ cer' = [cer EXCEPT ![c] = Settled(r)]
      /\ UNCHANGED <<chain, confirmed, onChain, escrowSeq>>
  BY DEF CloseApply, MInv, TypeInv
<1>3. r \in Record
  BY <1>1 DEF Record
<1>4. /\ r.phase = next /\ r.result = result /\ r.oks = {} /\ r.kind = o.kind
      /\ r.stmt = o.stmt /\ r.sent = o.sent /\ r.seen = o.seen /\ r.signed = o.signed
  BY <1>1 DEF Record
<1>5. RecordOK(r) /\ ~Landed(r) /\ ~Outstanding(r)
  BY <1>1, <1>4 DEF RecordOK, Landed, Outstanding
<1>6. RecordInv(r)
  <2>1. next = "project" => o.seen = Nodes /\ \A n \in Nodes : StartsWith(chain["epoch"][n], o.stmt)
    <3> SUFFICES ASSUME next = "project"
                 PROVE  o.seen = Nodes /\ \A n \in Nodes : StartsWith(chain["epoch"][n], o.stmt)
      OBVIOUS
    <3>1. o.oks = Nodes
      BY AllAppliedMeansAll DEF MInv
    <3>2. o.seen \in SUBSET Nodes
      BY <1>1 DEF Record
    <3> QED
      BY <1>1, <3>1, <3>2 DEF RecordInv, AckInv
  <2> QED
    BY <1>4, <1>5, <2>1 DEF RecordInv, RunInv, AckInv, Sealed, Landable
<1> HIDE DEF r
<1>7. /\ Settled(r) \in Record /\ RecordOK(Settled(r)) /\ RecordInv(Settled(r))
      /\ NoneLandedBeyond(Settled(r)) /\ StaysAshore(o, Settled(r))
  BY <1>3, <1>4, <1>5, <1>6, SettledInv
<1> QED
  BY <1>2, <1>7, QuietStep

\* The four ways in which an apply is closed keep the invariant.
LEMMA CloseInv ==
    ASSUME MInv, NEW c \in Ceremonies,
           \/ \E lost \in BOOLEAN : CloseShort(c, lost)
           \/ CloseSealed(c) \/ CloseGenesis(c) \/ CloseGoverned(c)
    PROVE  MInv'
  BY CloseApplyInv DEF CloseShort, CloseSealed, CloseGenesis, CloseGoverned

\* The legacy routes get no signature without a bundle, and the ledger takes no
\* transaction without one.
LEMMA LegacyInv ==
    ASSUME MInv, NEW c \in Ceremonies, NEW v, LegacyRoute(c, v)
    PROVE  MInv' /\ UNCHANGED <<chain, confirmed, onChain, escrowSeq>>
<1>1. {n \in onChain.signers \cap Nodes : CosignsSignerList(n, v, <<>>)} = {}
  BY DEF CosignsSignerList
<1>2. ~LedgerAccepts({})
  <2>1. onChain.quorum > 0 /\ onChain.quorum \in Nat
    BY MembershipAssumption DEF MInv, TypeInv
  <2> QED
    BY <2>1, FS_EmptySet DEF LedgerAccepts
<1>3. /\ cer' = [cer EXCEPT ![c] = Finished("failed")]
      /\ UNCHANGED <<chain, confirmed, onChain, escrowSeq>>
  BY <1>1, <1>2 DEF LegacyRoute
<1> QED
  BY <1>3, FinishedInv, QuietStep

----------------------------------------------------------------------------
(* The projection and its confirmation. *)

\* What is known of a run that is being projected.
LEMMA SealedFacts ==
    ASSUME MInv, NEW c \in Ceremonies, Sealed(cer[c])
    PROVE  /\ cer[c] \in Record /\ RecordOK(cer[c]) /\ RecordInv(cer[c])
           /\ cer[c].kind = "epoch"
           /\ cer[c].stmt \in Seq(SignerSets) /\ cer[c].stmt # <<>>
           /\ Len(cer[c].stmt) \in Nat \ {0} /\ Newest(cer[c].stmt) \in SignerSets
           /\ \A n \in Nodes : StartsWith(chain["epoch"][n], cer[c].stmt)
<1>1. /\ cer[c] \in Record /\ RecordOK(cer[c]) /\ RecordInv(cer[c]) /\ cer[c].kind = "epoch"
      /\ \A n \in Nodes : StartsWith(chain["epoch"][n], cer[c].stmt)
  BY DEF MInv, TypeInv, RunsInv, RecordInv, RunInv
<1>2. cer[c].stmt \in Seq(SignerSets) /\ cer[c].stmt # <<>>
  BY <1>1 DEF RecordOK
<1> QED
  BY <1>1, <1>2, Linked

\* The Sequence is fetched before anybody signs.
LEMMA FetchSequenceInv ==
    ASSUME MInv, NEW c \in Ceremonies, FetchSequence(c)
    PROVE  MInv'
<1> DEFINE o == cer[c]
<1>1. PICK r : r = [o EXCEPT !.phase = "sign", !.seq = escrowSeq]
  OBVIOUS
<1>2. o.phase = "project" /\ o \in Record /\ RecordOK(o) /\ RecordInv(o)
  BY DEF FetchSequence, MInv, TypeInv, RunsInv
<1>3. escrowSeq \in Nat
  BY DEF MInv, TypeInv
<1>4. /\ r \in Record /\ r.phase = "sign" /\ r.seq = escrowSeq /\ r.result = o.result
      /\ r.kind = o.kind /\ r.stmt = o.stmt /\ r.sent = o.sent /\ r.seen = o.seen
      /\ r.signed = o.signed
  BY <1>1, <1>2, <1>3 DEF Record
<1>5. o.signed = {} /\ o.result = "none"
  BY <1>2 DEF RecordOK
<1>6. RecordOK(r) /\ ~Landed(r) /\ ~Landable(r)
  BY <1>2, <1>4, <1>5 DEF RecordOK, Landed, Landable
<1>7. RecordInv(r)
  BY <1>2, <1>3, <1>4, <1>5, <1>6 DEF RecordInv, RunInv, AckInv, Sealed, Outstanding
<1>8. StaysAshore(o, r) /\ NoneLandedBeyond(r)
  BY <1>6 DEF StaysAshore, NoneLandedBeyond
<1>9. cer' = [cer EXCEPT ![c] = r] /\ UNCHANGED <<chain, confirmed, onChain, escrowSeq>>
  BY <1>1 DEF FetchSequence, MInv, TypeInv
<1> QED
  BY <1>4, <1>6, <1>7, <1>8, <1>9, QuietStep

\* A node signs only while its head is the statement: no epoch has landed, and
\* none is confirmed, beyond it.
LEMMA CosignProjectionInv ==
    ASSUME MInv, NEW c \in Ceremonies, NEW n \in Nodes, CosignProjection(c, n)
    PROVE  MInv'
<1> DEFINE o == cer[c]
<1>1. PICK r : r = [o EXCEPT !.signed = @ \cup {n}]
  OBVIOUS
<1>2. o.phase = "sign" /\ Sealed(o) /\ CosignsSignerList(n, Newest(o.stmt), o.stmt)
  BY DEF CosignProjection, Sealed, Outstanding
<1>3. /\ o \in Record /\ RecordOK(o) /\ RecordInv(o) /\ o.kind = "epoch"
      /\ o.stmt \in Seq(SignerSets) /\ Len(o.stmt) \in Nat \ {0}
  BY <1>2, SealedFacts
<1>4. /\ r \in Record /\ r.phase = "sign" /\ r.seq = o.seq /\ r.result = o.result
      /\ r.kind = o.kind /\ r.stmt = o.stmt /\ r.sent = o.sent /\ r.seen = o.seen
  BY <1>1, <1>2, <1>3 DEF Record
<1>5. chain["epoch"][n] = o.stmt /\ SignerListPolicy(Newest(o.stmt))
  BY <1>2 DEF CosignsSignerList
<1>6. RecordOK(r) /\ ~Landed(r)
  BY <1>2, <1>3, <1>4 DEF RecordOK, Landed
<1>7. \A m \in Nodes : confirmed[m] <= Len(o.stmt)
  <2> SUFFICES ASSUME NEW m \in Nodes PROVE confirmed[m] <= Len(o.stmt)
    OBVIOUS
  <2>1. confirmed[m] \in Nat /\ (confirmed[m] <= 1 \/ confirmed[m] <= Len(chain["epoch"][n]))
    BY DEF MInv, TypeInv, ConfirmedHeld
  <2> QED
    BY <1>3, <1>5, <2>1
<1>8. RecordInv(r)
  BY <1>2, <1>3, <1>4, <1>5, <1>6, <1>7 DEF RecordInv, RunInv, AckInv, Sealed, Outstanding
<1>9. \A d \in Ceremonies : Landed(cer[d]) => Len(cer[d].stmt) <= Len(o.stmt)
  <2> SUFFICES ASSUME NEW d \in Ceremonies, Landed(cer[d]) PROVE Len(cer[d].stmt) <= Len(o.stmt)
    OBVIOUS
  <2>1. StartsWith(chain["epoch"][n], cer[d].stmt)
    BY SealedFacts DEF Sealed
  <2> QED
    BY <1>5, <2>1 DEF StartsWith
<1>10. StaysAshore(o, r) /\ NoneLandedBeyond(r)
  BY <1>4, <1>6, <1>9 DEF StaysAshore, NoneLandedBeyond
<1>11. cer' = [cer EXCEPT ![c] = r] /\ UNCHANGED <<chain, confirmed, onChain, escrowSeq>>
  BY <1>1 DEF CosignProjection, MInv, TypeInv
<1> QED
  BY <1>4, <1>6, <1>8, <1>10, <1>11, QuietStep

\* Submitting a transaction, or giving one up that is out, changes nothing of what
\* is known of it.
LEMMA StillOutstanding ==
    ASSUME MInv, NEW c \in Ceremonies, cer[c].phase \in {"sign", "poll"},
           UNCHANGED <<chain, confirmed, onChain, escrowSeq>>,
           \/ cer' = [cer EXCEPT ![c] = [cer[c] EXCEPT !.phase = "poll"]]
           \/ cer' = [cer EXCEPT ![c] = GivenUp(cer[c])]
    PROVE  MInv'
<1> DEFINE o == cer[c]
<1>1. o \in Record /\ RecordOK(o) /\ RecordInv(o) /\ NoneLandedBeyond(o) /\ Outstanding(o)
  BY DEF MInv, TypeInv, RunsInv, LandingOrder, Outstanding
<1>2. PICK r : /\ cer' = [cer EXCEPT ![c] = r]
               /\ r \in {[o EXCEPT !.phase = "poll"], GivenUp(o)}
  OBVIOUS
<1>3. /\ r \in Record
      /\ \/ r.phase = "poll" /\ r.result = o.result
         \/ r.phase = "done" /\ r.result = "late"
      /\ r.kind = o.kind /\ r.stmt = o.stmt /\ r.sent = o.sent /\ r.seen = o.seen
      /\ r.signed = o.signed /\ r.seq = o.seq
  <2>1. CASE r = [o EXCEPT !.phase = "poll"]
    <3>1. r \in Record
      BY <1>1, <2>1 DEF Record
    <3>2. /\ r.phase = "poll" /\ r.result = o.result /\ r.kind = o.kind /\ r.stmt = o.stmt
          /\ r.sent = o.sent /\ r.seen = o.seen /\ r.signed = o.signed /\ r.seq = o.seq
      BY <1>1, <2>1 DEF Record
    <3> QED
      BY <3>1, <3>2
  <2>2. CASE r = GivenUp(o)
    BY <1>1, <2>2 DEF Record, GivenUp
  <2> QED
    BY <1>2, <2>1, <2>2
<1>4. o.result = "none"
  BY <1>1 DEF RecordOK
<1>5. RecordOK(r) /\ Outstanding(r) /\ ~Landed(r)
  BY <1>1, <1>3, <1>4 DEF RecordOK, Outstanding, Landed
<1>6. RecordInv(r)
  BY <1>1, <1>3, <1>5 DEF RecordInv, RunInv, AckInv, Sealed, Landable
<1>7. StaysAshore(o, r) /\ NoneLandedBeyond(r)
  BY <1>1, <1>3, <1>5 DEF StaysAshore, NoneLandedBeyond, Landable
<1> QED
  BY <1>2, <1>3, <1>5, <1>6, <1>7, QuietStep

\* Submitting, and every failure of a projection, keep the invariant.
LEMMA SubmitInv ==
    ASSUME MInv, NEW c \in Ceremonies,
           (\E answered \in BOOLEAN : Submit(c, answered)) \/ ProjectFails(c)
    PROVE  MInv'
<1>0. cer \in [Ceremonies -> Record]
  BY DEF MInv, TypeInv
<1>1. CASE cer' = [cer EXCEPT ![c] = Finished("failed")] /\ ProjectFails(c)
  BY <1>1, FinishedInv, QuietStep DEF ProjectFails
<1>2. CASE cer' = [cer EXCEPT ![c] = GivenUp(cer[c])] /\ cer[c].phase = "poll" /\ ProjectFails(c)
  BY <1>2, StillOutstanding DEF ProjectFails
<1>3. ASSUME NEW answered \in BOOLEAN, Submit(c, answered) PROVE MInv'
  <2>1. CASE answered
    BY <1>0, <1>3, <2>1, StillOutstanding DEF Submit
  <2>2. CASE ~answered
    BY <1>0, <1>3, <2>2, StillOutstanding DEF Submit
  <2> QED
    BY <2>1, <2>2
<1> QED
  BY <1>0, <1>1, <1>2, <1>3 DEF ProjectFails

\* A transaction that lands has signatures; its statement is a prefix of every
\* chain and no node has confirmed, and no run has landed, more.
LEMMA LandFacts ==
    ASSUME MInv, NEW c \in Ceremonies, Land(c)
    PROVE  /\ Landable(cer[c]) /\ Sealed(cer[c])
           /\ Newest(cer[c].stmt) \in SignerSets /\ Newest(cer[c].stmt).quorum > 0
           /\ \A n \in Nodes : confirmed[n] <= Len(cer[c].stmt)
           /\ \A d \in Ceremonies : Landed(cer[d]) => Len(cer[d].stmt) <= Len(cer[c].stmt)
<1>1. Outstanding(cer[c]) /\ Sealed(cer[c]) /\ cer[c].seq = escrowSeq
  BY DEF Land, Outstanding, Sealed
<1>2. cer[c].signed # {}
  <2>1. onChain.quorum > 0 /\ onChain.quorum \in Nat
    BY MembershipAssumption DEF MInv, TypeInv
  <2> QED
    <3>1. LedgerAccepts(cer[c].signed)
      BY DEF Land
    <3> QED
      BY <2>1, <3>1, FS_EmptySet DEF LedgerAccepts
<1>3. Landable(cer[c])
  BY <1>1, <1>2 DEF Landable
<1>4. Newest(cer[c].stmt) \in SignerSets /\ RecordInv(cer[c])
  BY <1>1, SealedFacts
<1>5. SignerListPolicy(Newest(cer[c].stmt))
  BY <1>1, <1>2, <1>4 DEF RecordInv, RunInv
<1>6. Newest(cer[c].stmt).quorum > 0
  BY <1>4, <1>5, MembershipAssumption DEF SignerListPolicy
<1> QED
  BY <1>1, <1>3, <1>4, <1>6 DEF MInv, RecordInv, RunInv, LandingOrder, NoneLandedBeyond

\* A transaction that lands keeps the invariant: a head confirmed before, or the
\* statement of another landed run, is then the very statement projected, and the
\* transactions still out have an old Sequence.
LEMMA LandInv ==
    ASSUME MInv, NEW c \in Ceremonies, Land(c)
    PROVE  MInv'
<1> DEFINE o == cer[c]
           E == chain["epoch"]
<1>0. PICK r : r = IF o.phase = "poll" THEN [o EXCEPT !.phase = "landed"] ELSE Finished("failed")
  OBVIOUS
<1>1. /\ o \in Record /\ RecordOK(o) /\ RecordInv(o) /\ o.kind = "epoch"
      /\ o.stmt \in Seq(SignerSets) /\ Len(o.stmt) \in Nat
      /\ \A n \in Nodes : StartsWith(E[n], o.stmt)
  BY LandFacts, SealedFacts
<1>2. /\ Newest(o.stmt) \in SignerSets /\ Newest(o.stmt).quorum > 0
      /\ \A n \in Nodes : confirmed[n] <= Len(o.stmt)
      /\ \A d \in Ceremonies : Landed(cer[d]) => Len(cer[d].stmt) <= Len(o.stmt)
  BY LandFacts
<1>3. escrowSeq \in Nat
  BY DEF MInv, TypeInv
<1>4. PICK q \in Nat : q = escrowSeq + 1 /\ q > escrowSeq
  BY <1>3
<1>5. /\ cer' = [cer EXCEPT ![c] = r] /\ UNCHANGED <<chain, confirmed>>
      /\ onChain' = Newest(o.stmt) /\ escrowSeq' = q
  BY <1>0, <1>4 DEF Land, MInv, TypeInv
<1>6. \A n \in Nodes : E[n] \in Seq(SignerSets) /\ confirmed[n] \in Nat
  BY DEF MInv, TypeInv
<1>7. \A n \in Nodes : Len(E[n]) <= Len(o.stmt) => E[n] = o.stmt
  BY <1>1, <1>6, StartsWithAll
<1>8. /\ r \in Record /\ RecordOK(r) /\ ~Outstanding(r)
      /\ Landed(r) => r.kind = "epoch" /\ r.stmt = o.stmt /\ r.sent = o.sent /\ r.seen = o.seen
      /\ Sealed(r) => Landed(r)
      /\ r.phase # "apply"
  <2>1. CASE o.phase = "poll"
    <3>1. /\ r \in Record /\ r.phase = "landed" /\ r.result = o.result /\ r.kind = o.kind
          /\ r.stmt = o.stmt /\ r.sent = o.sent /\ r.seen = o.seen
      BY <1>0, <1>1, <2>1 DEF Record
    <3>2. o.result = "none"
      BY <1>1, <2>1 DEF RecordOK
    <3> QED
      BY <1>1, <3>1, <3>2 DEF RecordOK, Outstanding, Landed, Sealed
  <2>2. CASE o.phase # "poll"
    <3>1. r = Finished("failed")
      BY <1>0, <2>2
    <3>2. r.phase = "done" /\ r.result = "failed"
      BY <3>1 DEF Finished, Idle
    <3> QED
      BY <3>1, <3>2, FinishedInv DEF Outstanding, Landed, Sealed
  <2> QED
    BY <2>1, <2>2
<1>9. \A d \in Ceremonies : /\ cer'[d] = IF d = c THEN r ELSE cer[d]
                            /\ cer[d] \in Record /\ RecordOK(cer[d]) /\ RecordInv(cer[d])
  BY <1>5 DEF MInv, TypeInv, RunsInv
<1>10. TypeInv'
  BY <1>2, <1>5, <1>8 DEF MInv, TypeInv
<1>11. ASSUME NEW d \in Ceremonies
       PROVE  (~Landable(cer[d]) /\ RunInv(cer[d]) /\ AckInv(cer[d]))'
  <2>1. CASE d = c
    <3>1. cer'[d] = r
      BY <1>9, <2>1
    <3>2. ~Landable(r)'
      BY <1>8 DEF Landable, Outstanding
    <3>3. Sealed(o) /\ (o.sent => o.seen = Nodes)
      BY <1>1, LandFacts DEF RecordInv, RunInv
    <3>4. RunInv(r)'
      BY <1>1, <1>5, <1>8, <3>2, <3>3 DEF RunInv, Sealed, Landed, Outstanding
    <3>5. AckInv(r)'
      BY <1>8 DEF AckInv
    <3> QED
      BY <3>1, <3>2, <3>4, <3>5
  <2>2. CASE d # c
    <3>1. PICK x : x = cer[d] /\ cer'[d] = x /\ x \in Record /\ RunInv(x) /\ AckInv(x)
      BY <1>9, <2>2 DEF RecordInv
    <3>2. Outstanding(x) => x.seq <= escrowSeq /\ x.seq \in Nat
      BY <3>1 DEF RunInv, Record
    <3>3. Outstanding(x) => x.seq < q
      BY <1>3, <1>4, <3>2
    <3>4. ~Landable(x)'
      BY <1>4, <1>5, <3>2, <3>3 DEF Landable, Outstanding
    <3>5. ASSUME Landed(x), NEW n \in Nodes, E[n] = x.stmt
          PROVE  onChain' = Newest(x.stmt)
      <4>1. Len(E[n]) <= Len(o.stmt)
        BY <1>2, <3>1, <3>5
      <4>2. E[n] = o.stmt
        BY <1>7, <4>1
      <4> QED
        BY <1>5, <3>5, <4>2
    <3>6. (Outstanding(x) => x.seq <= escrowSeq')
      BY <1>4, <1>5, <3>2, <3>3
    <3>7. RunInv(x)'
      BY <1>5, <3>1, <3>4, <3>5, <3>6 DEF RunInv, Sealed, Landed, Outstanding
    <3>8. AckInv(x)'
      BY <1>5, <3>1 DEF AckInv
    <3> QED
      BY <3>1, <3>4, <3>7, <3>8
  <2> QED
    BY <2>1, <2>2
<1>12. RunsInv' /\ LandingOrder'
  BY <1>11 DEF RunsInv, RecordInv, LandingOrder, NoneLandedBeyond
<1>13. ConfirmedHeld'
  <2> SUFFICES ASSUME NEW n \in Nodes
               PROVE  /\ confirmed[n] <= Len(E[n])
                      /\ \A m \in Nodes : confirmed[n] <= 1 \/ confirmed[n] <= Len(E[m])
                      /\ confirmed[n] = Len(E[n]) /\ Len(E[n]) > 1 =>
                           /\ \A m \in Nodes : StartsWith(E[m], E[n])
                           /\ onChain' = Newest(E[n])
    BY <1>5 DEF ConfirmedHeld
  <2>1. /\ confirmed[n] <= Len(E[n])
        /\ \A m \in Nodes : confirmed[n] <= 1 \/ confirmed[n] <= Len(E[m])
        /\ confirmed[n] = Len(E[n]) /\ Len(E[n]) > 1 => \A m \in Nodes : StartsWith(E[m], E[n])
    BY DEF MInv, ConfirmedHeld
  <2>2. confirmed[n] = Len(E[n]) => E[n] = o.stmt
    BY <1>2, <1>7
  <2> QED
    BY <1>5, <2>1, <2>2
<1> QED
  BY <1>10, <1>12, <1>13 DEF MInv

\* The driver that finds its transaction starts to confirm it.
LEMMA ObserveLandedInv ==
    ASSUME MInv, NEW c \in Ceremonies, ObserveLanded(c)
    PROVE  MInv'
<1> DEFINE o == cer[c]
<1>1. PICK r : r = [o EXCEPT !.phase = "confirm", !.sent = FALSE, !.seen = {}, !.signed = {}]
  OBVIOUS
<1>2. o.phase = "landed" /\ o \in Record /\ RecordOK(o) /\ RecordInv(o)
  BY DEF ObserveLanded, MInv, TypeInv, RunsInv
<1>3. /\ r \in Record /\ r.phase = "confirm" /\ r.result = o.result
      /\ r.kind = o.kind /\ r.stmt = o.stmt /\ r.sent = FALSE
  BY <1>1, <1>2 DEF Record
<1>4. o.result = "none"
  BY <1>2 DEF RecordOK
<1>5. RecordOK(r) /\ ~Outstanding(r)
  BY <1>2, <1>3, <1>4 DEF RecordOK, Outstanding
<1>6. RecordInv(r)
  BY <1>2, <1>3, <1>5 DEF RecordInv, RunInv, AckInv, Sealed, Landed, Landable
<1>7. StaysAshore(o, r) /\ NoneLandedBeyond(r)
  BY <1>2, <1>3, <1>5 DEF StaysAshore, NoneLandedBeyond, Landable, Landed
<1>8. cer' = [cer EXCEPT ![c] = r] /\ UNCHANGED <<chain, confirmed, onChain, escrowSeq>>
  BY <1>1 DEF ObserveLanded, MInv, TypeInv
<1> QED
  BY <1>3, <1>5, <1>6, <1>7, <1>8, QuietStep

\* The end of the wait for confirmations keeps it, whatever was lost.
LEMMA CloseConfirmInv ==
    ASSUME MInv, NEW c \in Ceremonies, NEW lost \in BOOLEAN, CloseConfirm(c, lost)
    PROVE  MInv'
<1> DEFINE o == cer[c]
           r == [o EXCEPT !.phase = "done", !.oks = {}, !.errs = {}, !.result = "unconfirmed"]
<1>1. o \in Record /\ RecordOK(o) /\ RecordInv(o) /\ o.phase = "confirm"
  BY DEF MInv, TypeInv, RunsInv, CloseConfirm
<1>2. /\ \/ cer' = [cer EXCEPT ![c] = Finished("ok")]
         \/ cer' = [cer EXCEPT ![c] = r]
      /\ UNCHANGED <<chain, confirmed, onChain, escrowSeq>>
  BY DEF CloseConfirm, MInv, TypeInv
<1>3. r \in Record
  BY <1>1 DEF Record
<1>4. /\ r.phase = "done" /\ r.result = "unconfirmed" /\ r.oks = {} /\ r.kind = o.kind
      /\ r.stmt = o.stmt /\ r.sent = o.sent /\ r.seen = o.seen
  BY <1>1 DEF Record
<1>5. RecordOK(r) /\ ~Outstanding(r)
  BY <1>1, <1>4 DEF RecordOK, Outstanding
<1>6. RecordInv(r)
  BY <1>1, <1>4, <1>5 DEF RecordInv, RunInv, AckInv, Sealed, Landed, Landable
<1>7. StaysAshore(o, r) /\ NoneLandedBeyond(r)
  BY <1>1, <1>4, <1>5 DEF StaysAshore, NoneLandedBeyond, Landable, Landed
<1> HIDE DEF r
<1> QED
  BY <1>2, <1>3, <1>5, <1>6, <1>7, FinishedInv, QuietStep

\* A confirmation is recorded only by a node whose head is what landed.
LEMMA ConfirmInv ==
    ASSUME MInv, NEW c \in Ceremonies, NEW n \in Nodes, Confirm(c, n)
    PROVE  MInv'
<1> DEFINE o == cer[c]
           ok == ConfirmAccepted(n, o.stmt)
           E == chain["epoch"]
<1>0. PICK r : r = IF o.phase = "confirm" THEN Ack(c, n, ok) ELSE [o EXCEPT !.seen = @ \cup {n}]
  OBVIOUS
<1>1. Landed(o) /\ Sealed(o) /\ n \notin o.seen /\ o.phase \in {"confirm", "done"}
  BY DEF Confirm, Landed, Sealed, MInv, TypeInv, RecordOK
<1>2. /\ cer' = [cer EXCEPT ![c] = r] /\ UNCHANGED <<chain, onChain, escrowSeq>>
      /\ confirmed' = IF ok THEN [confirmed EXCEPT ![n] = Len(o.stmt)] ELSE confirmed
  BY <1>0 DEF Confirm
<1>3. /\ o \in Record /\ RecordOK(o) /\ RecordInv(o) /\ o.kind = "epoch"
      /\ o.stmt \in Seq(SignerSets) /\ Len(o.stmt) \in Nat
      /\ \A m \in Nodes : StartsWith(E[m], o.stmt)
  BY <1>1, SealedFacts
<1>4. /\ r \in Record
      /\ r.phase = o.phase /\ r.result = o.result /\ r.kind = o.kind /\ r.stmt = o.stmt
      /\ r.sent = o.sent /\ r.signed = o.signed
  BY <1>0, <1>3 DEF Record, Ack
<1>5. ~o.sent /\ o.result # "late" /\ ~Outstanding(o)
  <2>1. o.sent => o.seen = Nodes
    BY <1>1, <1>3 DEF RecordInv, RunInv
  <2> QED
    BY <1>1, <1>3, <2>1 DEF Landed, RecordOK, Record, Outstanding
<1>6. RecordOK(r) /\ ~Outstanding(r) /\ Landed(r)
  BY <1>1, <1>3, <1>4, <1>5 DEF RecordOK, Outstanding, Landed
<1>7. TypeInv'
  BY <1>2, <1>3, <1>4, <1>6 DEF MInv, TypeInv
<1>8. \A d \in Ceremonies : /\ cer'[d] = IF d = c THEN r ELSE cer[d]
                            /\ RunInv(cer[d]) /\ AckInv(cer[d]) /\ NoneLandedBeyond(cer[d])
  BY <1>2 DEF MInv, TypeInv, RunsInv, RecordInv, LandingOrder
<1>9. RunsInv'
  <2> SUFFICES ASSUME NEW d \in Ceremonies PROVE RecordInv(cer[d])'
    BY DEF RunsInv
  <2>1. CASE d = c
    <3>1. cer'[d] = r
      BY <1>8, <2>1
    <3>2. RunInv(r)'
      BY <1>1, <1>2, <1>3, <1>4, <1>5, <1>6
         DEF RecordInv, RunInv, Sealed, Landed, Outstanding, Landable
    <3>3. AckInv(r)'
      BY <1>1, <1>4 DEF AckInv
    <3> QED
      BY <3>1, <3>2, <3>3 DEF RecordInv
  <2>2. CASE d # c
    <3>1. PICK x : x = cer[d] /\ cer'[d] = x /\ RunInv(x) /\ AckInv(x) /\ NoneLandedBeyond(x)
      BY <1>8, <2>2
    <3>2. ASSUME Landable(x), NEW m \in Nodes PROVE confirmed'[m] <= Len(x.stmt)
      <4>1. Len(o.stmt) <= Len(x.stmt) /\ confirmed[m] <= Len(x.stmt)
        BY <1>1, <3>1, <3>2 DEF NoneLandedBeyond, RunInv
      <4>2. confirmed'[m] \in {confirmed[m], Len(o.stmt)}
        BY <1>2 DEF MInv, TypeInv
      <4> QED
        BY <4>1, <4>2
    <3>3. RunInv(x)'
      BY <1>2, <3>1, <3>2 DEF RunInv, Sealed, Landed, Outstanding, Landable
    <3>4. AckInv(x)'
      BY <1>2, <3>1 DEF AckInv
    <3> QED
      BY <3>1, <3>3, <3>4 DEF RecordInv
  <2> QED
    BY <2>1, <2>2
<1>10. LandingOrder'
  <2> SUFFICES ASSUME NEW d \in Ceremonies, Landable(cer'[d]), NEW b \in Ceremonies, Landed(cer'[b])
               PROVE  Len(cer'[b].stmt) <= Len(cer'[d].stmt)
    BY <1>2 DEF LandingOrder, NoneLandedBeyond, Landable
  <2>1. Landed(cer[b]) /\ cer'[b].stmt = cer[b].stmt
    BY <1>1, <1>4, <1>8
  <2>2. cer'[d] = cer[d]
    BY <1>6, <1>8 DEF Landable
  <2> QED
    BY <1>8, <2>1, <2>2 DEF NoneLandedBeyond
<1>11. ConfirmedHeld'
  <2> SUFFICES ASSUME NEW m \in Nodes
               PROVE  /\ confirmed'[m] <= Len(E[m])
                      /\ \A k \in Nodes : confirmed'[m] <= 1 \/ confirmed'[m] <= Len(E[k])
                      /\ confirmed'[m] = Len(E[m]) /\ Len(E[m]) > 1 =>
                           /\ \A k \in Nodes : StartsWith(E[k], E[m])
                           /\ onChain = Newest(E[m])
    BY <1>2 DEF ConfirmedHeld
  <2>1. CASE ok /\ m = n
    <3>1. E[n] = o.stmt /\ confirmed'[n] = Len(o.stmt)
      BY <1>2, <2>1 DEF ConfirmAccepted, MInv, TypeInv
    <3>2. onChain = Newest(o.stmt)
      BY <1>1, <1>3, <3>1 DEF RecordInv, RunInv
    <3>3. \A k \in Nodes : Len(o.stmt) <= Len(E[k])
      BY <1>3 DEF StartsWith
    <3> QED
      BY <1>3, <2>1, <3>1, <3>2, <3>3
  <2>2. CASE ~ok \/ m # n
    <3>1. confirmed'[m] = confirmed[m]
      BY <1>2, <2>2 DEF MInv, TypeInv
    <3> QED
      BY <3>1 DEF MInv, ConfirmedHeld
  <2> QED
    BY <2>1, <2>2
<1> QED
  BY <1>7, <1>9, <1>10, <1>11 DEF MInv

----------------------------------------------------------------------------
(* The apply of a statement on one node. *)

\* What is known of a run survives a node's seal of one more set.
LEMMA GrowRecordInv ==
    ASSUME MInv, NEW n \in Nodes, NEW v \in SignerSets,
           chain["epoch"]' = [chain["epoch"] EXCEPT ![n] = Append(chain["epoch"][n], v)],
           UNCHANGED <<onChain, escrowSeq>>,
           UNCHANGED confirmed \/ confirmed' = [confirmed EXCEPT ![n] = 1],
           NEW x \in Record, RecordOK(x)
    PROVE  (RunInv(x) => RunInv(x)') /\ (AckInv(x) => AckInv(x)')
<1> DEFINE E == chain["epoch"]
<1>1. \A m \in Nodes : E[m] \in Seq(SignerSets)
  BY DEF MInv, TypeInv
<1>2. \A m \in Nodes : chain'["epoch"][m] = IF m = n THEN Append(E[n], v) ELSE E[m]
  BY DEF MInv, TypeInv
<1>3. ASSUME x.kind = "epoch", NEW m \in Nodes, StartsWith(E[m], x.stmt)
      PROVE  /\ StartsWith(chain'["epoch"][m], x.stmt)
             /\ chain'["epoch"][m] = x.stmt => m # n
  <2>1. x.stmt \in Seq(SignerSets)
    BY <1>3 DEF RecordOK
  <2>2. StartsWith(Append(E[m], v), x.stmt) /\ Append(E[m], v) # x.stmt
    BY <1>1, <1>3, <2>1, GrownStartsWith
  <2> HIDE DEF E
  <2> QED
    BY <1>2, <1>3, <2>2
<1>4. RunInv(x) /\ Sealed(x) =>
         /\ x.kind = "epoch"
         /\ \A m \in Nodes : StartsWith(E[m], x.stmt)
         /\ \A m \in Nodes : StartsWith(chain'["epoch"][m], x.stmt)
  BY <1>3 DEF RunInv
<1>5. AckInv(x) => AckInv(x)'
  BY <1>3 DEF AckInv, Record
<1>6. RunInv(x) /\ Landed(x) =>
         \A m \in Nodes : chain'["epoch"][m] = x.stmt => onChain' = Newest(x.stmt)
  <2> SUFFICES ASSUME RunInv(x), Landed(x), NEW m \in Nodes, chain'["epoch"][m] = x.stmt
               PROVE  onChain' = Newest(x.stmt)
    OBVIOUS
  <2>1. Sealed(x)
    BY DEF Sealed
  <2>2. m # n
    BY <1>3, <1>4, <2>1
  <2>3. E[m] = x.stmt
    BY <1>2, <2>2
  <2> QED
    BY <2>3 DEF RunInv
<1>7. RunInv(x) /\ Landable(x) => \A m \in Nodes : confirmed'[m] <= Len(x.stmt)
  <2> SUFFICES ASSUME RunInv(x), Landable(x), NEW m \in Nodes PROVE confirmed'[m] <= Len(x.stmt)
    OBVIOUS
  <2>1. confirmed[m] <= Len(x.stmt) /\ confirmed'[m] \in {confirmed[m], 1}
    BY DEF RunInv, MInv, TypeInv
  <2>2. x.stmt \in Seq(SignerSets) /\ x.stmt # <<>>
    BY <1>4 DEF RecordOK, Landable, Sealed
  <2>3. Len(x.stmt) \in Nat \ {0}
    BY <2>2, Linked
  <2> QED
    BY <2>1, <2>3
<1> QED
  BY <1>4, <1>5, <1>6, <1>7 DEF RunInv, Sealed, Landed, Outstanding, Landable

\* A node that seals one more set is not in sync, unless it is at genesis; the
\* heads that are confirmed elsewhere stay prefixes of its chain.
LEMMA GrowConfirmedHeld ==
    ASSUME MInv, NEW n \in Nodes, NEW v \in SignerSets,
           chain["epoch"]' = [chain["epoch"] EXCEPT ![n] = Append(chain["epoch"][n], v)],
           UNCHANGED onChain,
           \/ UNCHANGED confirmed
           \/ chain["epoch"][n] = <<>> /\ confirmed' = [confirmed EXCEPT ![n] = 1]
    PROVE  ConfirmedHeld'
<1> DEFINE E == chain["epoch"]
<1>1. \A m \in Nodes : E[m] \in Seq(SignerSets) /\ Len(E[m]) \in Nat /\ confirmed[m] \in Nat
  BY LenProperties DEF MInv, TypeInv
<1>2. \A m \in Nodes : chain'["epoch"][m] = IF m = n THEN Append(E[n], v) ELSE E[m]
  BY DEF MInv, TypeInv
<1>3. Len(Append(E[n], v)) = Len(E[n]) + 1
  BY <1>1, AppendProperties
<1>4. ASSUME NEW m \in Nodes
      PROVE  /\ confirmed'[m] <= Len(chain'["epoch"][m])
             /\ confirmed'[m] = Len(chain'["epoch"][m]) /\ Len(chain'["epoch"][m]) > 1 =>
                  /\ \A k \in Nodes : StartsWith(chain'["epoch"][k], chain'["epoch"][m])
                  /\ onChain' = Newest(chain'["epoch"][m])
  <2>1. CASE m = n
    <3>1. Len(chain'["epoch"][m]) = Len(E[n]) + 1
      BY <1>2, <1>3, <2>1
    <3>2. CASE UNCHANGED confirmed
      <4>1. confirmed[n] <= Len(E[n])
        BY DEF MInv, ConfirmedHeld
      <4> HIDE DEF E
      <4> QED
        BY <1>1, <2>1, <3>1, <3>2, <4>1
    <3>3. CASE E[n] = <<>> /\ confirmed' = [confirmed EXCEPT ![n] = 1]
      <4>1. Len(E[n]) = 0 /\ confirmed'[n] = 1
        BY <3>3 DEF MInv, TypeInv
      <4>2. Len(chain'["epoch"][m]) = 1 /\ confirmed'[m] = 1
        BY <2>1, <3>1, <4>1
      <4>3. 1 <= 1 /\ ~(1 > 1)
        OBVIOUS
      <4> QED
        BY <4>2, <4>3, Zenon
    <3> QED
      BY <3>2, <3>3
  <2>2. CASE m # n
    <3>1. chain'["epoch"][m] = E[m] /\ confirmed'[m] = confirmed[m]
      BY <1>2, <2>2 DEF MInv, TypeInv
    <3>2. /\ confirmed[m] <= Len(E[m])
          /\ confirmed[m] = Len(E[m]) /\ Len(E[m]) > 1 =>
               /\ \A k \in Nodes : StartsWith(E[k], E[m])
               /\ onChain = Newest(E[m])
      BY DEF MInv, ConfirmedHeld
    <3>3. \A k \in Nodes : StartsWith(E[k], E[m]) => StartsWith(Append(E[k], v), E[m])
      BY <1>1, GrownStartsWith
    <3> HIDE DEF E
    <3> QED
      BY <1>2, <3>1, <3>2, <3>3
  <2> QED
    BY <2>1, <2>2
<1>5. ASSUME NEW m \in Nodes, NEW k \in Nodes
      PROVE  confirmed'[m] <= 1 \/ confirmed'[m] <= Len(chain'["epoch"][k])
  <2>1. confirmed[m] <= 1 \/ confirmed[m] <= Len(E[k])
    BY DEF MInv, ConfirmedHeld
  <2>2. confirmed'[m] \in {confirmed[m], 1}
    BY DEF MInv, TypeInv
  <2>3. Len(chain'["epoch"][k]) \in {Len(E[k]), Len(E[k]) + 1}
    BY <1>2, <1>3
  <2> HIDE DEF E
  <2> QED
    BY <1>1, <2>1, <2>2, <2>3
<1> QED
  BY <1>4, <1>5 DEF ConfirmedHeld

\* Run o moves to r when node n applies its statement.
Applies(o, r, n) ==
    \/ ~Sealed(r) /\ r.phase # "apply"
    \/ /\ r.kind = o.kind /\ r.stmt = o.stmt /\ r.phase = "apply" /\ o.phase = "apply"
       /\ ~Sealed(r) /\ r.oks \subseteq r.seen
       /\ r.oks \subseteq
            o.oks \cup (IF Accepts(n, o.kind, o.stmt, o.endorsed) THEN {n} ELSE {})

\* A step that leaves the epochs alone keeps what is known of a run.
LEMMA SameEpochs ==
    ASSUME UNCHANGED <<onChain, escrowSeq, confirmed>>, chain["epoch"]' = chain["epoch"], NEW x
    PROVE  (RunInv(x) => RunInv(x)') /\ (AckInv(x) => AckInv(x)')
  BY DEF RunInv, AckInv, Sealed, Landed, Outstanding, Landable

\* What an accepted statement does to the chains.
LEMMA AcceptedEffect ==
    ASSUME MInv, NEW n \in Nodes, NEW o \in Record, RecordOK(o),
           Accepts(n, o.kind, o.stmt, o.endorsed), Apply(n, o.kind, o.stmt, o.endorsed)
    PROVE  \/ /\ o.kind \in {"epoch", "genesis"}
              /\ \E v \in SignerSets :
                    /\ o.stmt = Append(chain["epoch"][n], v)
                    /\ chain' = [chain EXCEPT !["epoch"] = [@ EXCEPT ![n] = o.stmt]]
              /\ \/ o.kind = "epoch" /\ UNCHANGED confirmed
                 \/ chain["epoch"][n] = <<>> /\ confirmed' = [confirmed EXCEPT ![n] = 1]
           \/ /\ o.kind \in {"mrenclave", "unl", "spv"} /\ UNCHANGED confirmed
              /\ chain' = [chain EXCEPT ![o.kind] = [@ EXCEPT ![n] = o.stmt]]
<1>1. o.kind \in {"epoch", "genesis", "mrenclave", "unl", "spv"}
  BY DEF Accepts
<1>2. CASE o.kind = "epoch"
  <2>1. o.stmt \in Seq(SignerSets) /\ o.stmt # <<>> /\ Older(o.stmt) = chain["epoch"][n]
    BY <1>2 DEF RecordOK, Accepts, SealAccepted
  <2>2. o.stmt = Append(chain["epoch"][n], Newest(o.stmt)) /\ Newest(o.stmt) \in SignerSets
    BY <2>1, Linked
  <2>3. chain' = [chain EXCEPT !["epoch"] = [@ EXCEPT ![n] = o.stmt]] /\ UNCHANGED confirmed
    BY <1>2 DEF Apply
  <2> QED
    BY <1>2, <2>2, <2>3
<1>3. CASE o.kind = "genesis"
  <2>1. o.stmt = <<FoundingSet>> /\ chain["epoch"][n] = <<>> /\ FoundingSet \in SignerSets
    BY <1>3, MembershipAssumption DEF RecordOK, Accepts, BootstrapAccepted, Bootstrapped
  <2>2. o.stmt = Append(chain["epoch"][n], FoundingSet) /\ Len(o.stmt) = 1
    BY <2>1
  <2>3. /\ chain' = [chain EXCEPT !["epoch"] = [@ EXCEPT ![n] = o.stmt]]
        /\ confirmed' = [confirmed EXCEPT ![n] = Len(o.stmt)]
    BY <1>3 DEF Apply
  <2> QED
    BY <1>3, <2>1, <2>2, <2>3
<1>4. CASE o.kind \in {"mrenclave", "unl", "spv"}
  BY <1>4 DEF Apply
<1> QED
  BY <1>1, <1>2, <1>3, <1>4

\* A node that applies a statement, or refuses it, keeps the invariant.
LEMMA ApplyInv ==
    ASSUME MInv, NEW c \in Ceremonies, NEW n \in Nodes, NEW r \in Record, RecordOK(r),
           cer' = [cer EXCEPT ![c] = r], Applies(cer[c], r, n),
           Apply(n, cer[c].kind, cer[c].stmt, cer[c].endorsed), UNCHANGED <<onChain, escrowSeq>>
    PROVE  MInv'
<1>0. PICK o : o = cer[c]
  OBVIOUS
<1> DEFINE ok == Accepts(n, o.kind, o.stmt, o.endorsed)
<1>1. o \in Record /\ RecordOK(o) /\ RunInv(o) /\ AckInv(o)
  BY <1>0 DEF MInv, TypeInv, RunsInv, RecordInv
<1>2. ~Sealed(r)
  BY DEF Applies
<1>3. RunInv(r) /\ NoneLandedBeyond(r) /\ StaysAshore(o, r)
  BY <1>2, NotSealed
<1>4. r.phase = "apply" => /\ o.phase = "apply" /\ r.kind = o.kind /\ r.stmt = o.stmt
                           /\ r.oks \subseteq r.seen
                           /\ r.oks \subseteq o.oks \cup (IF ok THEN {n} ELSE {})
  BY <1>0 DEF Applies
\* Every other run is where it was.
<1>5. \A d \in Ceremonies :
         /\ cer'[d] = IF d = c THEN r ELSE cer[d]
         /\ cer[d] \in Record /\ RecordOK(cer[d]) /\ RunInv(cer[d]) /\ AckInv(cer[d])
         /\ NoneLandedBeyond(cer[d])
  BY DEF MInv, TypeInv, RunsInv, RecordInv, LandingOrder
<1>6. LandingOrder'
  <2> SUFFICES ASSUME NEW d \in Ceremonies, Landable(cer'[d]), NEW b \in Ceremonies, Landed(cer'[b])
               PROVE  Len(cer'[b].stmt) <= Len(cer'[d].stmt)
    BY DEF LandingOrder, NoneLandedBeyond, Landable
  <2>1. cer'[d] = cer[d] /\ cer'[b] = cer[b]
    BY <1>2, <1>5 DEF Sealed, Landable
  <2> QED
    BY <1>5, <2>1 DEF NoneLandedBeyond
<1>7. CASE ~ok
  <2>1. UNCHANGED <<chain, confirmed, onChain, escrowSeq>>
    BY <1>0, <1>7 DEF Apply
  <2>2. AckInv(r)
    BY <1>1, <1>4, <1>7 DEF AckInv
  <2> QED
    BY <1>0, <1>3, <2>1, <2>2, QuietStep DEF RecordInv
<1>8. CASE ok /\ o.kind \in {"epoch", "genesis"}
  <2> DEFINE E == chain["epoch"]
  <2>1. PICK v \in SignerSets :
          /\ o.stmt = Append(E[n], v)
          /\ chain' = [chain EXCEPT !["epoch"] = [@ EXCEPT ![n] = o.stmt]]
          /\ \/ o.kind = "epoch" /\ UNCHANGED confirmed
             \/ E[n] = <<>> /\ confirmed' = [confirmed EXCEPT ![n] = 1]
    BY <1>0, <1>1, <1>8, AcceptedEffect
  <2>2. chain'["epoch"] = [E EXCEPT ![n] = Append(E[n], v)]
    BY <2>1 DEF MInv, TypeInv, Kinds
  <2>3. \A k \in Kinds \ {"epoch"} : chain'[k] = chain[k]
    BY <2>1 DEF MInv, TypeInv
  <2>4. chain'["epoch"][n] = o.stmt /\ o.stmt \in Seq(SignerSets) /\ o.stmt \in Seq(Entry)
    <3>1. E \in [Nodes -> Seq(SignerSets)]
      BY DEF MInv, TypeInv
    <3>2. o.stmt \in Seq(Entry)
      BY <1>1 DEF Record
    <3>3. Append(E[n], v) \in Seq(SignerSets)
      BY <3>1, AppendProperties
    <3> QED
      BY <2>1, <2>2, <3>1, <3>2, <3>3
  <2>5. TypeInv'
    <3>1. chain' \in [Kinds -> [Nodes -> Seq(Entry)]]
      BY <2>1, <2>3, <2>4 DEF MInv, TypeInv, Kinds
    <3>2. chain'["epoch"] \in [Nodes -> Seq(SignerSets)]
      BY <2>1, <2>2, <2>4 DEF MInv, TypeInv
    <3>3. confirmed' \in [Nodes -> Nat]
      <4>1. confirmed \in [Nodes -> Nat] /\ 1 \in Nat
        BY DEF MInv, TypeInv
      <4> HIDE DEF E
      <4> QED
        BY ONLY <2>1, <4>1, n \in Nodes
    <3>4. cer' \in [Ceremonies -> Record] /\ \A d \in Ceremonies : RecordOK(cer'[d])
      BY <1>5 DEF MInv, TypeInv
    <3> QED
      BY <3>1, <3>2, <3>3, <3>4 DEF MInv, TypeInv, RecordOK
  <2>6. AckInv(r)'
    <3>1. AckInv(o)'
      BY <1>1, <2>1, <2>2, GrowRecordInv
    <3>2. StartsWith(chain'["epoch"][n], o.stmt)
      BY <2>4, StartsWithItself
    <3> QED
      BY <1>4, <3>1, <3>2 DEF AckInv
  <2>7. RunInv(r)'
    BY <1>3, <2>1, <2>2, GrowRecordInv
  <2>8. RunsInv'
    <3> SUFFICES ASSUME NEW d \in Ceremonies PROVE RecordInv(cer[d])'
      BY DEF RunsInv
    <3>1. CASE d = c
      BY <1>5, <2>6, <2>7, <3>1 DEF RecordInv
    <3>2. CASE d # c
      <4>1. PICK x : x = cer[d] /\ cer'[d] = x
        BY <1>5, <3>2
      <4>2. RunInv(x)' /\ AckInv(x)'
        BY <1>5, <2>1, <2>2, <4>1, GrowRecordInv
      <4> QED
        BY <4>1, <4>2 DEF RecordInv
    <3> QED
      BY <3>1, <3>2
  <2>9. ConfirmedHeld'
    BY <2>1, <2>2, GrowConfirmedHeld
  <2> QED
    BY <1>6, <2>5, <2>8, <2>9 DEF MInv
<1>9. CASE ok /\ o.kind \in {"mrenclave", "unl", "spv"}
  <2> DEFINE k == o.kind
  <2>1. chain' = [chain EXCEPT ![k] = [@ EXCEPT ![n] = o.stmt]] /\ UNCHANGED confirmed
    BY <1>0, <1>1, <1>9, AcceptedEffect
  <2>2. chain'["epoch"] = chain["epoch"]
    BY <1>9, <2>1 DEF MInv, TypeInv, Kinds
  <2>3. TypeInv'
    <3>1. o.stmt \in Seq(Entry)
      BY <1>1 DEF Record
    <3>2. chain' \in [Kinds -> [Nodes -> Seq(Entry)]]
      BY <1>9, <2>1, <3>1 DEF MInv, TypeInv, Kinds
    <3>3. cer' \in [Ceremonies -> Record] /\ \A d \in Ceremonies : RecordOK(cer'[d])
      BY <1>5 DEF MInv, TypeInv
    <3> QED
      BY <2>1, <2>2, <3>2, <3>3 DEF MInv, TypeInv, RecordOK
  <2>4. RunsInv'
    <3> SUFFICES ASSUME NEW d \in Ceremonies PROVE RecordInv(cer[d])'
      BY DEF RunsInv
    <3>1. PICK x : x = cer'[d]
      OBVIOUS
    <3>2. RunInv(x) /\ AckInv(x)
      BY <1>3, <1>4, <1>5, <1>9, <3>1 DEF AckInv
    <3>3. RunInv(x)' /\ AckInv(x)'
      BY <2>1, <2>2, <3>2, SameEpochs
    <3> QED
      BY <3>1, <3>3 DEF RecordInv
  <2>5. ConfirmedHeld'
    BY <2>1, <2>2 DEF MInv, ConfirmedHeld
  <2> QED
    BY <1>6, <2>3, <2>4, <2>5 DEF MInv
<1> QED
  BY <1>7, <1>8, <1>9 DEF Accepts

\* The driver's own apply, whether or not its broadcast is published.
LEMMA ApplyLocalInv ==
    ASSUME MInv, NEW c \in Ceremonies, NEW published \in BOOLEAN, ApplyLocal(c, published)
    PROVE  MInv'
<1> DEFINE o == cer[c]
           d == o.driver
           ok == Accepts(d, o.kind, o.stmt, o.endorsed)
           r == [Ack(c, d, ok) EXCEPT !.sent = published,
                    !.errs = IF published THEN @ ELSE @ \cup {"<unknown>"}]
<1>1. o \in Record /\ RecordOK(o) /\ AckInv(o) /\ o.phase = "apply" /\ d \in Nodes
  BY DEF MInv, TypeInv, RunsInv, RecordInv, ApplyLocal, Record
<1>2. /\ cer' = [cer EXCEPT ![c] = r] /\ UNCHANGED <<onChain, escrowSeq>>
      /\ Apply(d, o.kind, o.stmt, o.endorsed)
  BY DEF ApplyLocal
<1>3. /\ r \in Record
      /\ r.phase = o.phase /\ r.result = o.result /\ r.kind = o.kind /\ r.stmt = o.stmt
      /\ r.signed = o.signed /\ r.seen = o.seen \cup {d}
      /\ r.oks = IF ok THEN o.oks \cup {d} ELSE o.oks
  BY <1>1 DEF Record, Ack
<1>4. RecordOK(r) /\ ~Sealed(r)
  BY <1>1, <1>3 DEF RecordOK, Sealed, Landed, Outstanding
<1>5. Applies(o, r, d)
  BY <1>1, <1>3, <1>4 DEF Applies, AckInv
<1> HIDE DEF r
<1> QED
  BY <1>1, <1>2, <1>3, <1>4, <1>5, ApplyInv

\* A peer's apply of the broadcast, in time or late.
LEMMA DeliverApplyInv ==
    ASSUME MInv, NEW c \in Ceremonies, NEW n \in Nodes, DeliverApply(c, n)
    PROVE  MInv'
<1> DEFINE o == cer[c]
           ok == Accepts(n, o.kind, o.stmt, o.endorsed)
<1>1. o \in Record /\ RecordOK(o) /\ RunInv(o) /\ AckInv(o) /\ o.sent /\ n \notin o.seen
  BY DEF MInv, TypeInv, RunsInv, RecordInv, DeliverApply
<1>2. PICK q : q = [o EXCEPT !.seen = @ \cup {n}]
  OBVIOUS
<1>3. PICK r : r = IF o.phase = "apply" THEN Ack(c, n, ok) ELSE Settled(q)
  OBVIOUS
<1>4. /\ cer' = [cer EXCEPT ![c] = r] /\ UNCHANGED <<onChain, escrowSeq>>
      /\ Apply(n, o.kind, o.stmt, o.endorsed)
  BY <1>2, <1>3 DEF DeliverApply
<1>5. ~Sealed(o)
  BY <1>1 DEF RunInv
<1>6. CASE o.phase = "apply"
  <2>1. /\ r \in Record
        /\ r.phase = o.phase /\ r.result = o.result /\ r.kind = o.kind /\ r.stmt = o.stmt
        /\ r.signed = o.signed /\ r.seen = o.seen \cup {n}
        /\ r.oks = IF ok THEN o.oks \cup {n} ELSE o.oks
    BY <1>1, <1>3, <1>6 DEF Record, Ack
  <2>2. RecordOK(r) /\ ~Sealed(r)
    BY <1>1, <1>5, <1>6, <2>1 DEF RecordOK, Sealed, Landed, Outstanding
  <2>3. Applies(o, r, n)
    BY <1>1, <1>6, <2>1, <2>2 DEF Applies, AckInv
  <2> QED
    BY <1>4, <2>1, <2>2, <2>3, ApplyInv
<1>7. CASE o.phase # "apply"
  <2>1. /\ q \in Record
        /\ q.phase = o.phase /\ q.result = o.result /\ q.kind = o.kind /\ q.stmt = o.stmt
        /\ q.oks = o.oks /\ q.sent = o.sent /\ q.signed = o.signed
    BY <1>1, <1>2 DEF Record
  <2>2. RecordOK(q) /\ ~Sealed(q)
    BY <1>1, <1>5, <2>1 DEF RecordOK, Sealed, Landed, Outstanding
  <2>3. CASE r = q
    <3>1. Applies(o, q, n)
      BY <1>7, <2>1, <2>2 DEF Applies
    <3> QED
      BY <1>4, <2>1, <2>2, <2>3, <3>1, ApplyInv
  <2>4. CASE r # q
    <3>1. r = Finished(q.result) /\ q.phase = "done"
      BY <1>3, <1>7, <2>4 DEF Settled
    <3>2. r.phase = "done" /\ r.result = q.result /\ r.kind = "none"
      BY <3>1 DEF Finished, Idle
    <3>3. ~Sealed(r)
      BY <2>1, <2>2, <3>1, <3>2 DEF Sealed, Landed, Outstanding
    <3>4. r \in Record
      <4>1. PICK t : t = q.result
        OBVIOUS
      <4>2. Idle \in Record /\ t \in {"none", "ok", "failed", "partial",
                "sealed_not_cosign_ready", "unconfirmed", "late"}
        BY <2>1, <4>1, IdleType DEF Record
      <4>3. [Idle EXCEPT !.phase = "done", !.result = t] \in Record
        BY <4>2 DEF Record
      <4> QED
        BY <3>1, <4>1, <4>3 DEF Finished
    <3>5. RecordOK(r)
      BY <3>2 DEF RecordOK
    <3>6. Applies(o, r, n)
      BY <3>2, <3>3 DEF Applies
    <3> QED
      BY <1>4, <3>4, <3>5, <3>6, ApplyInv
  <2> QED
    BY <2>3, <2>4
<1> QED
  BY <1>6, <1>7

----------------------------------------------------------------------------

\* Every step of the ceremonies keeps the invariant.
LEMMA MInvStep == MInv /\ [Next]_vars => MInv'
<1> SUFFICES ASSUME MInv, [Next]_vars PROVE MInv'
  OBVIOUS
<1>1. CASE UNCHANGED vars
  <2>1. UNCHANGED <<chain, confirmed, onChain, escrowSeq, cer>>
    BY <1>1 DEF vars
  <2>2. TypeInv'
    BY <2>1 DEF MInv, TypeInv, RecordOK
  <2>3. RunsInv'
    BY <2>1 DEF MInv, RunsInv, RecordInv, RunInv, AckInv, Sealed, Landed, Outstanding, Landable
  <2>4. ConfirmedHeld' /\ LandingOrder'
    BY <2>1 DEF MInv, ConfirmedHeld, LandingOrder, NoneLandedBeyond, Landable, Outstanding, Landed
  <2> QED
    BY <2>2, <2>3, <2>4 DEF MInv
<1>2. CASE Next
  BY <1>2, StartInv, CollectInv, ApplyLocalInv, DeliverApplyInv, CloseInv, FetchSequenceInv,
     CosignProjectionInv, SubmitInv, LandInv, ObserveLandedInv, ConfirmInv, CloseConfirmInv,
     LegacyInv DEF Next, SignerlistUpdate, BootstrapRotate
<1> QED
  BY <1>1, <1>2

\* The inductive invariant of the ceremonies (membership_coordinator.rs,
\* membership_apply.rs, membership_projection.rs) holds in every reachable state,
\* for any cluster, any proposals and any number of overlapping runs.
THEOREM MembershipInvariant == Spec => []MInv
  BY InitInv, MInvStep, PTL DEF Spec

\* An enclave in sync beyond genesis holds exactly the set the ledger enforces, so
\* that assert_safe_to_retire never retires a signer the ledger still needs,
\* whatever runs overlap, whatever is lost and however late a transaction lands
\* or a confirmation comes.
THEOREM InSyncIsOnChain == Spec => []InSyncMeansOnChain
<1>1. MInv => InSyncMeansOnChain
  BY DEF MInv, ConfirmedHeld, InSyncMeansOnChain, SafeToRetire, AuthorityOf
<1> QED
  BY <1>1, MembershipInvariant, PTL

----------------------------------------------------------------------------
(* The promise. *)

\* A step either leaves the epochs and the ledger alone, or is a seal by one node,
\* or a projection that lands.
LEMMA StepsOfAuthority ==
    ASSUME MInv, Next
    PROVE  \/ UNCHANGED <<chain["epoch"], onChain>>
           \/ \E n \in Nodes, v \in SignerSets :
                 /\ chain["epoch"]' = [chain["epoch"] EXCEPT ![n] = Append(chain["epoch"][n], v)]
                 /\ UNCHANGED onChain
           \/ /\ UNCHANGED chain
              /\ \E c \in Ceremonies :
                    /\ cer[c].stmt \in Seq(SignerSets)
                    /\ cer[c].stmt # <<>> /\ onChain' = Newest(cer[c].stmt)
                    /\ \A m \in Nodes : StartsWith(chain["epoch"][m], cer[c].stmt)
<1> DEFINE Goal ==
       \/ UNCHANGED <<chain["epoch"], onChain>>
       \/ \E n \in Nodes, v \in SignerSets :
             /\ chain["epoch"]' = [chain["epoch"] EXCEPT ![n] = Append(chain["epoch"][n], v)]
             /\ UNCHANGED onChain
       \/ /\ UNCHANGED chain
          /\ \E c \in Ceremonies :
                /\ cer[c].stmt \in Seq(SignerSets)
                /\ cer[c].stmt # <<>> /\ onChain' = Newest(cer[c].stmt)
                /\ \A m \in Nodes : StartsWith(chain["epoch"][m], cer[c].stmt)
<1>1. ASSUME UNCHANGED <<chain, onChain>> PROVE Goal
  BY <1>1
<1>2. ASSUME NEW c \in Ceremonies, NEW n \in Nodes,
             Apply(n, cer[c].kind, cer[c].stmt, cer[c].endorsed), UNCHANGED onChain
      PROVE  Goal
  <2>1. cer[c] \in Record /\ RecordOK(cer[c])
    BY DEF MInv, TypeInv
  <2>2. CASE ~Accepts(n, cer[c].kind, cer[c].stmt, cer[c].endorsed)
    BY <1>2, <2>2 DEF Apply
  <2>3. CASE Accepts(n, cer[c].kind, cer[c].stmt, cer[c].endorsed)
    <3> DEFINE o == cer[c]
    <3>1. CASE \E v \in SignerSets :
                 /\ o.stmt = Append(chain["epoch"][n], v)
                 /\ chain' = [chain EXCEPT !["epoch"] = [@ EXCEPT ![n] = o.stmt]]
      <4>1. PICK v \in SignerSets :
                 /\ o.stmt = Append(chain["epoch"][n], v)
                 /\ chain' = [chain EXCEPT !["epoch"] = [@ EXCEPT ![n] = o.stmt]]
        BY <3>1
      <4>2. chain'["epoch"] = [chain["epoch"] EXCEPT ![n] = Append(chain["epoch"][n], v)]
        BY <4>1 DEF MInv, TypeInv, Kinds
      <4> QED
        BY <1>2, <4>2
    <3>2. CASE \E k \in {"mrenclave", "unl", "spv"} :
                 chain' = [chain EXCEPT ![k] = [@ EXCEPT ![n] = o.stmt]]
      <4>1. chain'["epoch"] = chain["epoch"]
        BY <3>2 DEF MInv, TypeInv, Kinds
      <4> QED
        BY <1>2, <4>1
    <3> HIDE DEF Goal
    <3> QED
      BY <1>2, <2>1, <2>3, <3>1, <3>2, AcceptedEffect
  <2> QED
    BY <2>2, <2>3
<1>3. ASSUME NEW c \in Ceremonies, Land(c) PROVE Goal
  BY <1>3, LandFacts, SealedFacts DEF Land
<1>4. ASSUME NEW c \in Ceremonies, NEW v, LegacyRoute(c, v) PROVE Goal
  BY <1>1, <1>4, LegacyInv
<1> HIDE DEF Goal
<1>5. ASSUME NEW c \in Ceremonies, NEW d \in Drivers,
             \/ \E v \in SignerSets : StartChange(c, d, v)
             \/ StartGenesis(c, d)
             \/ \E op \in AllowlistOps : StartGovern(c, d, op)
             \/ \E a \in Anchors : StartPolicy(c, d, a)
             \/ \E q \in Rosters : StartBaseline(c, d, q)
      PROVE  Goal
  BY <1>1, <1>5 DEF StartChange, StartGenesis, StartGovern, StartPolicy, StartBaseline, Begin
<1>6. ASSUME NEW c \in Ceremonies, NEW endorsed \in SUBSET Nodes,
             \/ CollectConsents(c, endorsed) \/ CollectGovernance(c, endorsed)
             \/ CollectEndorsements(c, endorsed) \/ CollectCosignatures(c, endorsed)
      PROVE  Goal
  BY <1>1, <1>6 DEF CollectConsents, CollectGovernance, CollectEndorsements,
                    CollectCosignatures, Collected
<1>7. ASSUME NEW c \in Ceremonies, NEW published \in BOOLEAN, ApplyLocal(c, published)
      PROVE  Goal
  <2>1. cer[c].driver \in Nodes
    BY DEF MInv, TypeInv, Record
  <2> QED
    BY <1>2, <1>7, <2>1 DEF ApplyLocal
<1>8. ASSUME NEW c \in Ceremonies, NEW n \in Nodes, DeliverApply(c, n) PROVE Goal
  BY <1>2, <1>8 DEF DeliverApply
<1>9. ASSUME NEW c \in Ceremonies,
             \/ \E lost \in BOOLEAN : CloseShort(c, lost) \/ CloseConfirm(c, lost)
             \/ CloseSealed(c) \/ CloseGenesis(c) \/ CloseGoverned(c) \/ ProjectFails(c)
             \/ FetchSequence(c) \/ ObserveLanded(c)
             \/ \E answered \in BOOLEAN : Submit(c, answered)
             \/ \E n \in Nodes : Confirm(c, n) \/ CosignProjection(c, n)
      PROVE  Goal
  BY <1>1, <1>9 DEF CloseShort, CloseConfirm, CloseSealed, CloseGenesis, CloseGoverned,
                    CloseApply, ProjectFails, Confirm, FetchSequence, ObserveLanded, Submit,
                    CosignProjection
<1>10. Goal
  BY <1>3, <1>4, <1>5, <1>6, <1>7, <1>8, <1>9 DEF Next, SignerlistUpdate, BootstrapRotate
<1> QED
  BY <1>10 DEF Goal

\* The ceremonies, with their overlaps, losses and retries, implement the promise
\* of SignerAuthority: each enclave's chain grows by one set at a time and the
\* SignerList moves only to a set sealed, at the same place, by every enclave
\* (run_projection after all_sealed in membership_admin.rs).
THEOREM CeremoniesImplementAuthority == Spec => ImplementsAuthority
<1>1. Init => Promise!AuthInit
  <2> SUFFICES ASSUME Init PROVE Promise!AuthInit
    OBVIOUS
  <2>1. PICK e \in {<<>>, <<FoundingSet>>} :
           /\ chain = [k \in Kinds |-> [n \in Nodes |-> IF k = "epoch" THEN e ELSE <<>>]]
           /\ onChain = LedgerSet
    BY DEF Init
  <2>2. chain["epoch"] = [n \in Nodes |-> e]
    BY <2>1 DEF Kinds
  <2> QED
    BY <2>1, <2>2 DEF Promise!AuthInit
<1>2. MInv /\ [Next]_vars => [Promise!AuthNext]_(Promise!avars)
  <2> SUFFICES ASSUME MInv, [Next]_vars PROVE [Promise!AuthNext]_(Promise!avars)
    OBVIOUS
  <2>1. CASE UNCHANGED <<chain["epoch"], onChain>>
    BY <2>1 DEF Promise!avars
  <2>2. CASE \E n \in Nodes, v \in SignerSets :
                 /\ chain["epoch"]' = [chain["epoch"] EXCEPT ![n] = Append(chain["epoch"][n], v)]
                 /\ UNCHANGED onChain
    BY <2>2 DEF Promise!AuthNext, Promise!AuthSeal
  <2>3. CASE /\ UNCHANGED chain
             /\ \E c \in Ceremonies :
                    /\ cer[c].stmt \in Seq(SignerSets)
                    /\ cer[c].stmt # <<>> /\ onChain' = Newest(cer[c].stmt)
                    /\ \A m \in Nodes : StartsWith(chain["epoch"][m], cer[c].stmt)
    <3>1. PICK c \in Ceremonies :
                    /\ cer[c].stmt \in Seq(SignerSets)
                    /\ cer[c].stmt # <<>> /\ onChain' = Newest(cer[c].stmt)
                    /\ \A m \in Nodes : StartsWith(chain["epoch"][m], cer[c].stmt)
      BY <2>3
    <3>2. PICK n \in Nodes : TRUE
      BY MembershipAssumption
    <3> DEFINE s == cer[c].stmt
               i == Len(s)
    <3>3. i \in 1 .. Len(s) /\ s[i] \in SignerSets
      BY <3>1, EmptySeq, LenProperties
    <3>4. \A m \in Nodes : i <= Len(chain["epoch"][m]) /\ chain["epoch"][m][i] = s[i]
      BY <3>1, <3>3 DEF StartsWith
    <3>5. i \in DOMAIN chain["epoch"][n]
      <4>1. chain["epoch"][n] \in Seq(SignerSets)
        BY DEF MInv, TypeInv
      <4>2. DOMAIN chain["epoch"][n] = 1 .. Len(chain["epoch"][n]) /\ Len(chain["epoch"][n]) \in Nat
        BY <4>1, LenProperties
      <4>3. Len(s) \in Nat
        BY <3>1, LenProperties
      <4> QED
        BY <3>3, <3>4, <4>2, <4>3
    <3>6. Promise!AuthProject(i, s[i])
      BY <2>3, <3>1, <3>4 DEF Promise!AuthProject, Promise!SealedEverywhere, Newest
    <3> QED
      BY <3>3, <3>5, <3>6 DEF Promise!AuthNext
  <2> QED
    BY <2>1, <2>2, <2>3, StepsOfAuthority DEF vars
<1> QED
  BY <1>1, <1>2, MembershipInvariant, PTL DEF Spec, ImplementsAuthority, Promise!AuthSpec
===============================================================================
